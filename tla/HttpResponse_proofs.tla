------------------------- MODULE HttpResponse_proofs -------------------------
(***************************************************************************)
(* What a client receives, for any connections, requests, texts and cuts   *)
(* of input and output: a prefix of what was written for it, and in its    *)
(* chunks the characters of the engine's output.                           *)
(***************************************************************************)
EXTENDS HttpConnection_proofs, WellFoundedInduction

-----------------------------------------------------------------------------
(* Induction, said of sets of numbers: the library's theorem that says it  *)
(* of a formula cannot be instantiated.                                    *)

\* A set of numbers has a least one.
LEMMA LeastNumber ==
    ASSUME NEW T \in SUBSET Nat, T # {}
    PROVE  \E m \in T : \A k \in T : m <= k
<1>1. PICK R : R = OpToRel(<, Nat)
  OBVIOUS
<1>2. IsWellFoundedOn(R, Nat)
  BY <1>1, NatLessThanWellFounded
<1>3. \A a, b \in Nat : <<a, b>> \in R <=> a < b
  BY <1>1 DEF OpToRel
<1>4. PICK m \in T : \A k \in T : ~(<<k, m>> \in R)
  BY <1>2, WFMin
<1>5. m \in Nat /\ \A k \in T : k \in Nat
  OBVIOUS
<1>6. \A k \in T : ~(k < m)
  BY <1>3, <1>4, <1>5
<1>. QED  BY <1>5, <1>6

\* Induction over the numbers, said of a set.
LEMMA SetInduction ==
    ASSUME NEW T, 0 \in T, \A n \in Nat : n \in T => n + 1 \in T
    PROVE  Nat \subseteq T
<1>. DEFINE U == Nat \ T
<1>. SUFFICES ASSUME U # {} PROVE FALSE
  OBVIOUS
<1>1. PICK m \in U : \A k \in U : m <= k
  BY LeastNumber
<1>2. m \in Nat /\ m \notin T /\ m # 0
  BY <1>1
<1>3. m - 1 \in Nat /\ m - 1 \notin U
  BY <1>1, <1>2
<1>4. m - 1 \in T /\ (m - 1) + 1 = m
  BY <1>2, <1>3
<1>. QED  BY <1>2, <1>3, <1>4

-----------------------------------------------------------------------------
(* FlattenSeq.                                                             *)

\* f joins the first sequences of a, ever more of them, as in FlattenSeq.
Joins(f, a, n) == f = [i \in 1 .. n |-> IF i = 1 THEN a[i] ELSE f[i - 1] \o a[i]]

\* The function FlattenSeq is defined by exists ...
LEMMA JoinsExists ==
    ASSUME NEW a, NEW n \in Nat
    PROVE  \E f : Joins(f, a, n)
<1>. DEFINE T == {k \in Nat : \E f : Joins(f, a, k)}
<1>1. 0 \in T
  <2>1. PICK f : f = [i \in 1 .. 0 |-> a[i]]
    OBVIOUS
  <2>2. f = [i \in 1 .. 0 |-> IF i = 1 THEN a[i] ELSE f[i - 1] \o a[i]]
    BY <2>1
  <2>. QED  BY <2>2 DEF Joins
<1>2. ASSUME NEW k \in Nat, k \in T PROVE k + 1 \in T
  <2>1. PICK f : Joins(f, a, k)
    BY <1>2
  <2>2. PICK g : g = [i \in 1 .. k + 1 |->
                        IF i = k + 1 THEN IF i = 1 THEN a[i] ELSE f[i - 1] \o a[i] ELSE f[i]]
    OBVIOUS
  <2>3. ASSUME NEW i \in 1 .. k + 1
        PROVE  g[i] = IF i = 1 THEN a[i] ELSE g[i - 1] \o a[i]
    <3>1. CASE i = 1
      BY <2>1, <2>2, <3>1 DEF Joins
    <3>2. CASE i # 1
      <4>1. i - 1 \in 1 .. k /\ i - 1 # k + 1
        BY <3>2
      <4>2. g[i - 1] = f[i - 1]
        BY <2>2, <4>1
      <4>3. g[i] = f[i - 1] \o a[i]
        <5>1. CASE i = k + 1
          BY <2>2, <3>2, <5>1, Zenon
        <5>2. CASE i # k + 1
          <6>1. i \in 1 .. k
            BY <5>2
          <6>2. f[i] = f[i - 1] \o a[i]
            BY <2>1, <3>2, <6>1, Zenon DEF Joins
          <6>3. g[i] = f[i]
            BY <2>2, <5>2, Zenon
          <6>. QED  BY <6>2, <6>3
        <5>. QED  BY <5>1, <5>2
      <4>. QED  BY <3>2, <4>2, <4>3
    <3>. QED  BY <3>1, <3>2
  <2>4. g = [i \in 1 .. k + 1 |-> IF i = 1 THEN a[i] ELSE g[i - 1] \o a[i]]
    BY <2>2, <2>3
  <2>5. \E h : Joins(h, a, k + 1)
    BY <2>4 DEF Joins
  <2>6. k + 1 \in Nat
    OBVIOUS
  <2>. QED  BY <2>5, <2>6
<1>3. n \in T
  BY <1>1, <1>2, SetInduction
<1>. QED  BY <1>3

\* ... so FlattenSeq is its last value.
LEMMA FlattenJoins ==
    ASSUME NEW S, NEW a \in Seq(S), a # <<>>
    PROVE  \E f : Joins(f, a, Len(a)) /\ FlattenSeq(a) = f[Len(a)]
<1>1. Len(a) \in Nat /\ Len(a) # 0
  BY EmptySeq, LenProperties
<1>2. \E f : Joins(f, a, Len(a))
  BY <1>1, JoinsExists
<1>. DEFINE F == CHOOSE f : f = [i \in 1 .. Len(a) |-> IF i = 1 THEN a[i] ELSE f[i - 1] \o a[i]]
<1>3. Joins(F, a, Len(a))
  BY <1>2 DEF Joins
<1>4. FlattenSeq(a) = F[Len(a)]
  BY <1>1 DEF FlattenSeq
<1>. QED  BY <1>3, <1>4

\* Two of them agree as far as their sequences do.
LEMMA JoinsAgree ==
    ASSUME NEW a, NEW b, NEW f, NEW g, NEW m \in Nat, NEW n \in Nat, m <= n,
           \A i \in 1 .. m : a[i] = b[i], Joins(f, a, m), Joins(g, b, n)
    PROVE  \A i \in 1 .. m : f[i] = g[i]
<1>. DEFINE T == {k \in Nat : k \in 1 .. m => f[k] = g[k]}
<1>1. 0 \in T
  OBVIOUS
<1>2. ASSUME NEW k \in Nat, k \in T PROVE k + 1 \in T
  <2>. SUFFICES ASSUME k + 1 \in 1 .. m PROVE f[k + 1] = g[k + 1]
    OBVIOUS
  <2>1. k + 1 \in 1 .. n /\ (k + 1) - 1 = k /\ a[k + 1] = b[k + 1]
    OBVIOUS
  <2>2. f[k + 1] = IF k + 1 = 1 THEN a[k + 1] ELSE f[(k + 1) - 1] \o a[k + 1]
    BY Zenon DEF Joins
  <2>3. g[k + 1] = IF k + 1 = 1 THEN b[k + 1] ELSE g[(k + 1) - 1] \o b[k + 1]
    BY <2>1, Zenon DEF Joins
  <2>4. CASE k = 0
    BY <2>1, <2>2, <2>3, <2>4
  <2>5. CASE k # 0
    <3>1. k \in 1 .. m /\ k + 1 # 1
      BY <2>5
    <3>2. f[k] = g[k]
      BY <1>2, <3>1
    <3>. QED  BY <2>1, <2>2, <2>3, <3>1, <3>2
  <2>. QED  BY <2>4, <2>5
<1>3. Nat \subseteq T
  BY <1>1, <1>2, SetInduction
<1>. QED  BY <1>3

\* FlattenSeq of the empty sequence, of one and of one more.
LEMMA FlattenAppend ==
    ASSUME NEW S, NEW a \in Seq(Seq(S)), NEW x \in Seq(S)
    PROVE  /\ FlattenSeq(<<>>) = <<>>
           /\ FlattenSeq(a) \in Seq(S)
           /\ FlattenSeq(Append(a, x)) = FlattenSeq(a) \o x
<1>0. FlattenSeq(<<>>) = <<>>
  BY DEF FlattenSeq
<1>1. ASSUME NEW c \in Seq(Seq(S)), NEW y \in Seq(S)
      PROVE  FlattenSeq(Append(c, y)) = IF c = <<>> THEN y ELSE FlattenSeq(c) \o y
  <2>1. PICK b : b = Append(c, y)
    OBVIOUS
  <2>2. PICK n \in Nat : n = Len(c)
    BY LenProperties
  <2>3. /\ b \in Seq(Seq(S)) /\ Len(b) = n + 1 /\ b[n + 1] = y
        /\ \A i \in 1 .. n : b[i] = c[i]
        /\ b # <<>>
    <3>1. b \in Seq(Seq(S)) /\ Len(b) = n + 1
      BY <2>1, <2>2, AppendProperties
    <3>2. b[n + 1] = y /\ \A i \in 1 .. n : b[i] = c[i]
      BY <2>1, <2>2, AppendProperties
    <3>3. b # <<>>
      BY <3>1, EmptySeq
    <3>. QED  BY <3>1, <3>2, <3>3
  <2>4. PICK g : Joins(g, b, n + 1) /\ FlattenSeq(b) = g[n + 1]
    BY <2>3, FlattenJoins
  <2>5. g[n + 1] = IF n + 1 = 1 THEN b[n + 1] ELSE g[(n + 1) - 1] \o b[n + 1]
    <3>1. n + 1 \in 1 .. n + 1
      OBVIOUS
    <3>. QED  BY <2>4, <3>1, Zenon DEF Joins
  <2>6. CASE c = <<>>
    <3>1. n = 0
      BY <2>2, <2>6
    <3>. QED  BY <2>1, <2>3, <2>4, <2>5, <2>6, <3>1
  <2>7. CASE c # <<>>
    <3>1. n # 0 /\ (n + 1) - 1 = n /\ n + 1 # 1 /\ n \in 1 .. n
      BY <2>2, <2>7, EmptySeq
    <3>2. PICK f : Joins(f, c, n) /\ FlattenSeq(c) = f[n]
      BY <2>2, <2>7, FlattenJoins
    <3>3. f[n] = g[n]
      <4>1. \A i \in 1 .. n : c[i] = b[i]
        BY <2>3
      <4>2. PICK m \in Nat : m = n + 1 /\ n <= m
        OBVIOUS
      <4>3. Joins(g, b, m) /\ Joins(f, c, n)
        BY <2>4, <3>2, <4>2
      <4>4. n <= m
        BY <4>2
      <4>5. \A i \in 1 .. n : f[i] = g[i]
        BY <4>1, <4>3, <4>4, JoinsAgree
      <4>. QED  BY <3>1, <4>5
    <3>. QED  BY <2>1, <2>3, <2>4, <2>5, <2>7, <3>1, <3>2, <3>3
  <2>. QED  BY <2>6, <2>7
<1>. DEFINE T == {n \in Nat : \A c \in Seq(Seq(S)) : Len(c) = n => FlattenSeq(c) \in Seq(S)}
<1>2. 0 \in T
  <2>1. ASSUME NEW c \in Seq(Seq(S)), Len(c) = 0 PROVE FlattenSeq(c) \in Seq(S)
    <3>1. c = <<>>
      BY <2>1, EmptySeq
    <3>. QED  BY <1>0, <3>1, EmptySeq
  <2>. QED  BY <2>1
<1>3. ASSUME NEW n \in Nat, n \in T PROVE n + 1 \in T
  <2>1. ASSUME NEW c \in Seq(Seq(S)), Len(c) = n + 1 PROVE FlattenSeq(c) \in Seq(S)
    <3>1. c # <<>>
      BY <2>1, EmptySeq
    <3>2. PICK d \in Seq(Seq(S)), y \in Seq(S) : c = Append(d, y)
      BY <3>1, SequenceEmptyOrAppend
    <3>3. Len(d) = n
      <4>1. Len(c) = Len(d) + 1 /\ Len(d) \in Nat
        BY <3>2, AppendProperties, LenProperties
      <4>. QED  BY <2>1, <4>1
    <3>4. FlattenSeq(d) \in Seq(S)
      BY <1>3, <3>3
    <3>5. FlattenSeq(d) \o y \in Seq(S)
      BY <3>4, ConcatProperties
    <3>. QED  BY <1>1, <3>2, <3>5
  <2>. QED  BY <2>1
<1>4. FlattenSeq(a) \in Seq(S)
  <2>1. Nat \subseteq T
    BY <1>2, <1>3, SetInduction
  <2>2. Len(a) \in Nat
    BY LenProperties
  <2>. QED  BY <2>1, <2>2
<1>5. FlattenSeq(Append(a, x)) = FlattenSeq(a) \o x
  <2>1. CASE a = <<>>
    <3>1. <<>> \o x = x
      BY ConcatEmptySeq
    <3>. QED  BY <1>0, <1>1, <2>1, <3>1
  <2>. QED  BY <1>1, <2>1
<1>. QED  BY <1>0, <1>4, <1>5

\* Associativity, read from right to left.
LEMMA ConcatTwice ==
    ASSUME NEW S, NEW s \in Seq(S), NEW t \in Seq(S), NEW u \in Seq(S)
    PROVE  s \o (t \o u) = (s \o t) \o u
  BY ConcatAssociative

\* FlattenSeq of two sequences joined.
LEMMA FlattenConcat ==
    ASSUME NEW S, NEW a \in Seq(Seq(S)), NEW b \in Seq(Seq(S))
    PROVE  FlattenSeq(a \o b) = FlattenSeq(a) \o FlattenSeq(b)
<1>. DEFINE T == {n \in Nat : \A c \in Seq(Seq(S)) : 
                      Len(c) = n => FlattenSeq(a \o c) = FlattenSeq(a) \o FlattenSeq(c)}
<1>1. 0 \in T
  <2>1. ASSUME NEW c \in Seq(Seq(S)), Len(c) = 0
        PROVE  FlattenSeq(a \o c) = FlattenSeq(a) \o FlattenSeq(c)
    <3>1. c = <<>>
      BY <2>1, EmptySeq
    <3>2. a \o <<>> = a
      BY ConcatEmptySeq
    <3>3. FlattenSeq(a) \in Seq(S) /\ FlattenSeq(<<>>) = <<>>
      BY FlattenAppend, EmptySeq
    <3>4. FlattenSeq(a) \o <<>> = FlattenSeq(a)
      BY <3>3, ConcatEmptySeq
    <3>. QED  BY <3>1, <3>2, <3>3, <3>4
  <2>. QED  BY <2>1
<1>2. ASSUME NEW n \in Nat, n \in T PROVE n + 1 \in T
  <2>1. ASSUME NEW c \in Seq(Seq(S)), Len(c) = n + 1
        PROVE  FlattenSeq(a \o c) = FlattenSeq(a) \o FlattenSeq(c)
    <3>1. c # <<>>
      BY <2>1, EmptySeq
    <3>2. PICK d \in Seq(Seq(S)), y \in Seq(S) : c = Append(d, y)
      BY <3>1, SequenceEmptyOrAppend
    <3>3. Len(d) = n
      <4>1. Len(c) = Len(d) + 1 /\ Len(d) \in Nat
        BY <3>2, AppendProperties, LenProperties
      <4>. QED  BY <2>1, <4>1
    <3>4. FlattenSeq(a \o d) = FlattenSeq(a) \o FlattenSeq(d)
      BY <1>2, <3>3
    <3>5. a \o c = Append(a \o d, y) /\ a \o d \in Seq(Seq(S))
      <4>1. c = d \o <<y>> /\ <<y>> \in Seq(Seq(S))
        BY <3>2, AppendIsConcat
      <4>2. a \o d \in Seq(Seq(S))
        BY ConcatProperties
      <4>3. a \o (d \o <<y>>) = (a \o d) \o <<y>>
        BY <4>1, ConcatAssociative
      <4>4. Append(a \o d, y) = (a \o d) \o <<y>>
        BY <4>2, AppendIsConcat
      <4>. QED  BY <4>1, <4>2, <4>3, <4>4
    <3>6. FlattenSeq(a \o c) = (FlattenSeq(a) \o FlattenSeq(d)) \o y
      BY <3>4, <3>5, FlattenAppend, ZenonT(30)
    <3>7. FlattenSeq(c) = FlattenSeq(d) \o y /\ FlattenSeq(a) \in Seq(S) /\ FlattenSeq(d) \in Seq(S)
      BY <3>2, FlattenAppend
    <3>8. FlattenSeq(a) \o (FlattenSeq(d) \o y) = (FlattenSeq(a) \o FlattenSeq(d)) \o y
      <4>1. PICK u \in Seq(S), v \in Seq(S) : u = FlattenSeq(a) /\ v = FlattenSeq(d)
        BY <3>7
      <4>2. u \o (v \o y) = (u \o v) \o y
        BY ConcatTwice, SMTT(30)
      <4>. QED  BY <4>1, <4>2
    <3>. QED  BY <3>6, <3>7, <3>8
  <2>. QED  BY <2>1
<1>3. Nat \subseteq T
  BY <1>1, <1>2, SetInduction
<1>4. Len(b) \in Nat
  BY LenProperties
<1>. QED  BY <1>3, <1>4

\* FlattenSeq of empty sequences.
LEMMA FlattenBlank ==
    ASSUME NEW a \in Seq({<<>>})
    PROVE  FlattenSeq(a) = <<>>
<1>. DEFINE T == {n \in Nat : \A c \in Seq({<<>>}) : Len(c) = n => FlattenSeq(c) = <<>>}
<1>0. <<>> \in Seq({}) /\ {<<>>} \subseteq Seq({})
  BY EmptySeq
<1>1. 0 \in T
  <2>1. ASSUME NEW c \in Seq({<<>>}), Len(c) = 0 PROVE FlattenSeq(c) = <<>>
    <3>1. c = <<>>
      BY <2>1, EmptySeq
    <3>. QED  BY <3>1 DEF FlattenSeq
  <2>. QED  BY <2>1
<1>2. ASSUME NEW n \in Nat, n \in T PROVE n + 1 \in T
  <2>1. ASSUME NEW c \in Seq({<<>>}), Len(c) = n + 1 PROVE FlattenSeq(c) = <<>>
    <3>1. c # <<>>
      BY <2>1, EmptySeq
    <3>2. PICK d \in Seq({<<>>}), y \in {<<>>} : c = Append(d, y)
      BY <3>1, SequenceEmptyOrAppend
    <3>3. Len(d) = n
      <4>1. Len(c) = Len(d) + 1 /\ Len(d) \in Nat
        BY <3>2, AppendProperties, LenProperties
      <4>. QED  BY <2>1, <4>1
    <3>4. FlattenSeq(d) = <<>>
      BY <1>2, <3>3
    <3>5. d \in Seq(Seq({})) /\ y = <<>>
      BY <1>0, <3>2, SeqMonotonic
    <3>6. FlattenSeq(c) = FlattenSeq(d) \o y
      BY <1>0, <3>2, <3>5, FlattenAppend
    <3>7. <<>> \o <<>> = <<>>
      BY <1>0, ConcatEmptySeq
    <3>. QED  BY <3>4, <3>5, <3>6, <3>7
  <2>. QED  BY <2>1
<1>3. Nat \subseteq T
  BY <1>1, <1>2, SetInduction
<1>4. Len(a) \in Nat
  BY LenProperties
<1>. QED  BY <1>3, <1>4

-----------------------------------------------------------------------------
(* split_utf8_prefix computes what Visible says.                           *)

Chars == Byte \cup {"?"}

\* One step of the scan, from the results of the later ones.
Scan(f, s, i) ==
    IF i > Len(s) THEN [prefix |-> <<>>, rest |-> <<>>]
    ELSE IF Need(s[i]) = 0 THEN [f[i + 1] EXCEPT !.prefix = <<"?">> \o @]
    ELSE IF i + Need(s[i]) - 1 > Len(s) THEN [prefix |-> <<>>, rest |-> SubSeq(s, i, Len(s))]
    ELSE IF \A k \in (i + 1) .. (i + Need(s[i]) - 1) : s[k] = "c"
    THEN [f[i + Need(s[i])] EXCEPT !.prefix = <<s[i]>> \o @]
    ELSE [f[i + 1] EXCEPT !.prefix = <<"?">> \o @]

Scans(f, s) == f = [i \in 1 .. (Len(s) + 1) |-> Scan(f, s, i)]

\* The lengths of characters.
LEMMA NeedValues ==
    /\ Need("a") = 1 /\ Need("l2") = 2 /\ Need("l3") = 3 /\ Need("c") = 0 /\ Need("x") = 0
    /\ \A b \in Byte : Need(b) \in 0 .. 3
<1>1. Need("a") = 1 /\ Need("l2") = 2 /\ Need("l3") = 3 /\ Need("c") = 0 /\ Need("x") = 0
  BY DEF Need
<1>. QED  BY <1>1 DEF Byte

\* A text: its length and its bytes.
LEMMA TextFacts ==
    ASSUME NEW s \in Seq(Byte)
    PROVE  /\ Len(s) \in Nat /\ DOMAIN s = 1 .. Len(s)
           /\ \A i \in 1 .. Len(s) : s[i] \in Byte /\ Need(s[i]) \in 0 .. 3
<1>1. Len(s) \in Nat /\ DOMAIN s = 1 .. Len(s)
  BY LenProperties
<1>2. \A i \in 1 .. Len(s) : s[i] \in Byte
  BY ElementOfSeq
<1>. QED  BY <1>1, <1>2, NeedValues

\* A step looks at later ones only.
LEMMA ScanLocal ==
    ASSUME NEW s \in Seq(Byte), NEW f, NEW g, NEW i \in 1 .. (Len(s) + 1),
           \A j \in (i + 1) .. (Len(s) + 1) : f[j] = g[j]
    PROVE  Scan(f, s, i) = Scan(g, s, i)
<1>1. Len(s) \in Nat
  BY TextFacts
<1>2. CASE i > Len(s)
  BY <1>2 DEF Scan
<1>3. CASE ~(i > Len(s))
  <2>1. i \in 1 .. Len(s) /\ Need(s[i]) \in 0 .. 3
    BY <1>1, <1>3, TextFacts
  <2>2. f[i + 1] = g[i + 1]
    BY <1>1, <2>1
  <2>3. ~(Need(s[i]) = 0) /\ ~(i + Need(s[i]) - 1 > Len(s)) => f[i + Need(s[i])] = g[i + Need(s[i])]
    BY <1>1, <2>1
  <2>. QED  BY <1>3, <2>2, <2>3, Zenon DEF Scan
<1>. QED  BY <1>2, <1>3

\* The function split_utf8_prefix is defined by exists.
LEMMA ScansExists ==
    ASSUME NEW s \in Seq(Byte)
    PROVE  \E f : Scans(f, s)
<1>0. PICK n \in Nat : n = Len(s)
  BY TextFacts
<1>. DEFINE T == {k \in Nat : k <= n + 1 =>
                     \E f : \A i \in (n + 2 - k) .. (n + 1) : f[i] = Scan(f, s, i)}
<1>1. 0 \in T
  BY <1>0
<1>2. ASSUME NEW k \in Nat, k \in T PROVE k + 1 \in T
  <2>. SUFFICES ASSUME k + 1 <= n + 1
                PROVE  \E f : \A i \in (n + 2 - (k + 1)) .. (n + 1) : f[i] = Scan(f, s, i)
    OBVIOUS
  <2>1. PICK f : \A i \in (n + 2 - k) .. (n + 1) : f[i] = Scan(f, s, i)
    BY <1>2
  <2>2. PICK m \in 1 .. (n + 1) : m = n + 1 - k /\ m + 1 = n + 2 - k /\ m = n + 2 - (k + 1)
    OBVIOUS
  <2>3. PICK g : g = [i \in 1 .. (n + 1) |-> IF i = m THEN Scan(f, s, i) ELSE f[i]]
    OBVIOUS
  <2>4. \A j \in (m + 1) .. (n + 1) : f[j] = g[j]
    BY <2>2, <2>3
  <2>5. ASSUME NEW i \in m .. (n + 1) PROVE g[i] = Scan(g, s, i)
    <3>1. i \in 1 .. (Len(s) + 1) /\ \A j \in (i + 1) .. (Len(s) + 1) : f[j] = g[j]
      BY <1>0, <2>2, <2>4
    <3>2. Scan(f, s, i) = Scan(g, s, i)
      BY <3>1, ScanLocal
    <3>3. g[i] = Scan(f, s, i)
      <4>1. i \in 1 .. (n + 1)
        BY <2>2
      <4>2. CASE i = m
        BY <2>3, <4>1, <4>2, Zenon
      <4>3. CASE i # m
        <5>1. i \in (n + 2 - k) .. (n + 1)
          BY <2>2, <4>3
        <5>2. f[i] = Scan(f, s, i)
          BY <2>1, <5>1
        <5>3. g[i] = f[i]
          BY <2>3, <4>1, <4>3, Zenon
        <5>. QED  BY <5>2, <5>3
      <4>. QED  BY <4>2, <4>3
    <3>. QED  BY <3>2, <3>3
  <2>. QED  BY <2>2, <2>5
<1>3. n + 1 \in T
  <2>1. Nat \subseteq T
    BY <1>1, <1>2, SetInduction
  <2>2. n + 1 \in Nat
    OBVIOUS
  <2>. QED  BY <2>1, <2>2
<1>4. PICK f : \A i \in 1 .. (n + 1) : f[i] = Scan(f, s, i)
  <2>1. n + 1 <= n + 1 /\ n + 2 - (n + 1) = 1
    OBVIOUS
  <2>. QED  BY <1>3, <2>1
<1>5. PICK g : g = [i \in 1 .. (n + 1) |-> f[i]]
  OBVIOUS
<1>6. ASSUME NEW i \in 1 .. (n + 1) PROVE g[i] = Scan(g, s, i)
  <2>1. i \in 1 .. (Len(s) + 1) /\ \A j \in (i + 1) .. (Len(s) + 1) : f[j] = g[j]
    BY <1>0, <1>5
  <2>2. Scan(f, s, i) = Scan(g, s, i)
    BY <2>1, ScanLocal
  <2>. QED  BY <1>4, <1>5, <2>2
<1>7. g = [i \in 1 .. (Len(s) + 1) |-> Scan(g, s, i)]
  BY <1>0, <1>5, <1>6
<1>. QED  BY <1>7 DEF Scans

\* So split_utf8_prefix is its first value.
LEMMA SplitScans ==
    ASSUME NEW s \in Seq(Byte)
    PROVE  \E f : /\ \A i \in 1 .. (Len(s) + 1) : f[i] = Scan(f, s, i)
                  /\ split_utf8_prefix(s) = f[1]
<1>. DEFINE F == CHOOSE f : Scans(f, s)
<1>1. Scans(F, s)
  BY ScansExists
<1>2. split_utf8_prefix(s) = F[1]
  BY DEF split_utf8_prefix, Scans, Scan
<1>3. \A i \in 1 .. (Len(s) + 1) : F[i] = Scan(F, s, i)
  BY <1>1, Zenon DEF Scans
<1>. QED  BY <1>2, <1>3

\* Visible, byte by byte.
Shows(s) == [i \in 1 .. Len(s) |-> Shown(s, i)]

\* The first incomplete character of s is at c, or s has none and ends before c.
IsCut(s, c) ==
    /\ c \in 1 .. (Len(s) + 1)
    /\ c <= Len(s) => CutOff(s, c)
    /\ \A j \in 1 .. (c - 1) : ~CutOff(s, j)

\* The scan comes to i.
Start(s, i) ==
    /\ i <= Len(s) => ~Inside(s, i)
    /\ \A j \in 1 .. (i - 1) : ~CutOff(s, j)

\* Shows is a sequence of sequences.
LEMMA ShowsType ==
    ASSUME NEW s \in Seq(Byte)
    PROVE  /\ Shows(s) \in Seq(Seq(Chars)) /\ Len(Shows(s)) = Len(s)
           /\ \A i \in 1 .. Len(s) : Shows(s)[i] = Shown(s, i)
           /\ Visible(s) = FlattenSeq(Shows(s))
           /\ Visible(s) \in Seq(Chars)
<1>1. ASSUME NEW i \in 1 .. Len(s) PROVE Shown(s, i) \in Seq(Chars)
  <2>1. s[i] \in Chars /\ "?" \in Chars
    BY TextFacts DEF Chars
  <2>2. Shown(s, i) \in {<<>>, <<s[i]>>, <<"?">>}
    BY DEF Shown
  <2>3. <<>> \in Seq(Chars) /\ <<s[i]>> \in Seq(Chars) /\ <<"?">> \in Seq(Chars)
    BY <2>1
  <2>. QED  BY <2>2, <2>3
<1>2. Len(s) \in Nat
  BY TextFacts
<1>3. Shows(s) \in [1 .. Len(s) -> Seq(Chars)]
  BY <1>1 DEF Shows
<1>4. Shows(s) \in Seq(Seq(Chars))
  BY <1>2, <1>3, IsASeq
<1>5. Len(Shows(s)) = Len(s)
  BY <1>2, <1>3, <1>4, LenProperties
<1>6. \A i \in 1 .. Len(s) : Shows(s)[i] = Shown(s, i)
  BY DEF Shows
<1>7. Visible(s) = FlattenSeq(Shows(s))
  BY DEF Visible, Shows
<1>8. <<>> \in Seq(Chars)
  OBVIOUS
<1>9. FlattenSeq(Shows(s)) \in Seq(Chars)
  BY <1>4, <1>8, FlattenAppend
<1>. QED  BY <1>4, <1>5, <1>6, <1>7, <1>9

\* FlattenSeq from i on, and from the end on.
LEMMA FlattenFirst ==
    ASSUME NEW S, NEW a \in Seq(Seq(S)), NEW i \in 1 .. Len(a)
    PROVE  FlattenSeq(SubSeq(a, i, Len(a))) = a[i] \o FlattenSeq(SubSeq(a, i + 1, Len(a)))
<1>1. Len(a) \in Nat /\ a[i] \in Seq(S)
  BY LenProperties, ElementOfSeq
<1>2. SubSeq(a, i, Len(a)) = <<a[i]>> \o SubSeq(a, i + 1, Len(a))
  <2>1. Len(a) \in i .. Len(a)
    BY <1>1
  <2>. QED  BY <2>1, SubSeqRecursiveFirst
<1>3. <<a[i]>> \in Seq(Seq(S)) /\ SubSeq(a, i + 1, Len(a)) \in Seq(Seq(S))
  <2>1. \A j \in (i + 1) .. Len(a) : a[j] \in Seq(S)
    BY <1>1, ElementOfSeq
  <2>2. i + 1 \in Int /\ Len(a) \in Int
    BY <1>1
  <2>3. SubSeq(a, i + 1, Len(a)) \in Seq(Seq(S))
    BY <2>1, <2>2, SubSeqProperties
  <2>. QED  BY <1>1, <2>3
<1>4. FlattenSeq(<<a[i]>>) = a[i]
  <2>1. <<>> \in Seq(Seq(S)) /\ Append(<<>>, a[i]) = <<a[i]>>
    OBVIOUS
  <2>2. FlattenSeq(Append(<<>>, a[i])) = FlattenSeq(<<>>) \o a[i] /\ FlattenSeq(<<>>) = <<>>
    BY <1>1, <2>1, FlattenAppend
  <2>3. <<>> \o a[i] = a[i]
    BY <1>1, ConcatEmptySeq
  <2>. QED  BY <2>1, <2>2, <2>3
<1>. QED  BY <1>2, <1>3, <1>4, FlattenConcat

\* After a character of one byte, or a byte that is none, the scan goes on at the next.
LEMMA StartNext ==
    ASSUME NEW s \in Seq(Byte), NEW i \in 1 .. Len(s), Start(s, i), ~CutOff(s, i),
           s[i] \in {"l2", "l3"} => ~Whole(s, i)
    PROVE  Start(s, i + 1)
<1>0. Len(s) \in Nat /\ \A j \in 1 .. Len(s) : Need(s[j]) \in 0 .. 3
  BY TextFacts
<1>1. \A j \in 1 .. i : ~CutOff(s, j)
  BY <1>0 DEF Start
<1>2. ASSUME i + 1 <= Len(s), Inside(s, i + 1) PROVE FALSE
  <2>1. PICK j \in 1 .. i : s[j] \in {"l2", "l3"} /\ i + 1 < j + Need(s[j]) /\ Whole(s, j)
    BY <1>0, <1>2 DEF Inside
  <2>2. j # i
    BY <2>1
  <2>3. i \in (j + 1) .. (j + Need(s[j]) - 1) /\ j \in 1 .. (i - 1) /\ i < j + Need(s[j])
    BY <1>0, <2>1, <2>2
  <2>4. s[i] = "c"
    BY <2>1, <2>3 DEF Whole
  <2>5. Inside(s, i)
    BY <2>1, <2>3, <2>4 DEF Inside
  <2>. QED  BY <2>5 DEF Start
<1>. QED  BY <1>0, <1>1, <1>2 DEF Start

\* After a whole character the scan goes on behind it, and its other bytes show nothing.
LEMMA StartAfter ==
    ASSUME NEW s \in Seq(Byte), NEW i \in 1 .. Len(s), Start(s, i), s[i] \in {"l2", "l3"},
           Whole(s, i)
    PROVE  /\ Start(s, i + Need(s[i]))
           /\ \A k \in (i + 1) .. (i + Need(s[i]) - 1) : k <= Len(s) /\ Shown(s, k) = <<>>
<1>0. /\ Len(s) \in Nat /\ \A j \in 1 .. Len(s) : Need(s[j]) \in 0 .. 3
      /\ Need(s[i]) \in {2, 3}
  BY TextFacts, NeedValues
<1>1. PICK m \in 2 .. 3 : m = Need(s[i])
  BY <1>0
<1>2. i + m - 1 <= Len(s) /\ \A k \in (i + 1) .. (i + m - 1) : s[k] = "c"
  BY <1>1 DEF Whole
<1>3. ASSUME NEW j \in 1 .. (i + m - 1) PROVE ~CutOff(s, j)
  <2>1. CASE j < i
    BY <1>0, <2>1 DEF Start
  <2>2. CASE j = i
    BY <1>1, <1>2, <2>2, <1>0 DEF CutOff
  <2>3. CASE j > i
    <3>1. s[j] = "c"
      BY <1>0, <1>2, <2>3
    <3>. QED  BY <3>1 DEF CutOff
  <2>. QED  BY <1>0, <2>1, <2>2, <2>3
<1>4. ASSUME i + m <= Len(s), Inside(s, i + m) PROVE FALSE
  <2>1. PICK j \in 1 .. (i + m - 1) :
           s[j] \in {"l2", "l3"} /\ i + m < j + Need(s[j]) /\ Whole(s, j)
    BY <1>4 DEF Inside
  <2>2. j # i
    BY <1>1, <2>1
  <2>3. ~(j > i)
    <3>1. ASSUME j > i PROVE s[j] = "c"
      BY <1>0, <1>2, <3>1
    <3>. QED  BY <2>1, <3>1
  <2>4. i \in (j + 1) .. (j + Need(s[j]) - 1) /\ j \in 1 .. (i - 1) /\ i < j + Need(s[j])
    BY <1>0, <2>1, <2>2, <2>3
  <2>5. s[i] = "c"
    BY <2>1, <2>4 DEF Whole
  <2>. QED  BY <2>5
<1>5. ASSUME NEW k \in (i + 1) .. (i + m - 1) PROVE k <= Len(s) /\ Shown(s, k) = <<>>
  <2>1. k <= Len(s) /\ s[k] = "c" /\ i \in 1 .. (k - 1) /\ k < i + Need(s[i])
    BY <1>0, <1>1, <1>2
  <2>2. Inside(s, k)
    BY <2>1 DEF Inside
  <2>. QED  BY <2>1, <2>2 DEF Shown
<1>6. Start(s, i + m)
  BY <1>3, <1>4 DEF Start
<1>. QED  BY <1>1, <1>5, <1>6

\* What the scan from i on is to give.
Scanned(f, s, i) ==
    \E c \in i .. (Len(s) + 1) :
        /\ IsCut(s, c)
        /\ f[i] = [prefix |-> FlattenSeq(SubSeq(Shows(s), i, Len(s))),
                   rest   |-> SubSeq(s, c, Len(s))]

\* A scan that takes one character on, over bytes that show nothing.
LEMMA ScanTakes ==
    ASSUME NEW s \in Seq(Byte), NEW f, NEW i \in 1 .. Len(s), NEW m \in 1 .. 3, NEW b,
           i + m - 1 <= Len(s), Shown(s, i) = <<b>>,
           \A k \in (i + 1) .. (i + m - 1) : Shown(s, k) = <<>>,
           f[i] = [f[i + m] EXCEPT !.prefix = <<b>> \o @], Scanned(f, s, i + m)
    PROVE  Scanned(f, s, i)
<1>1. PICK n \in Nat : n = Len(s)
  BY TextFacts
<1>2. PICK a \in Seq(Seq(Chars)) : a = Shows(s) /\ Len(a) = n /\ \A j \in 1 .. n : a[j] = Shown(s, j)
  BY <1>1, ShowsType
<1>. DEFINE flat(j) == FlattenSeq(SubSeq(a, j, n))
<1>3. \A j \in 1 .. n : flat(j) = a[j] \o flat(j + 1)
  BY <1>2, FlattenFirst
<1>4. ASSUME NEW j \in 1 .. (n + 1) PROVE flat(j) \in Seq(Chars)
  <2>1. \A k \in j .. n : a[k] \in Seq(Chars)
    BY <1>2, ElementOfSeq
  <2>2. SubSeq(a, j, n) \in Seq(Seq(Chars))
    BY <2>1, SubSeqProperties
  <2>3. <<>> \in Seq(Chars)
    OBVIOUS
  <2>. QED  BY <2>2, <2>3, FlattenAppend
<1>5. ASSUME NEW k \in (i + 1) .. (i + m - 1) PROVE flat(k) = flat(k + 1)
  <2>1. k \in 1 .. n /\ k + 1 \in 1 .. (n + 1)
    BY <1>1
  <2>2. a[k] = <<>>
    BY <1>2, <2>1
  <2>3. <<>> \o flat(k + 1) = flat(k + 1)
    BY <1>4, <2>1, ConcatEmptySeq
  <2>. QED  BY <1>3, <2>1, <2>2, <2>3
<1>6. flat(i + 1) = flat(i + m)
  <2>1. CASE m = 1
    BY <2>1
  <2>2. CASE m = 2
    <3>1. i + 1 \in (i + 1) .. (i + m - 1) /\ (i + 1) + 1 = i + m
      BY <2>2
    <3>. QED  BY <1>5, <3>1
  <2>3. CASE m = 3
    <3>1. /\ i + 1 \in (i + 1) .. (i + m - 1) /\ i + 2 \in (i + 1) .. (i + m - 1)
          /\ (i + 1) + 1 = i + 2 /\ (i + 2) + 1 = i + m
      BY <2>3
    <3>2. flat(i + 1) = flat((i + 1) + 1) /\ flat(i + 2) = flat((i + 2) + 1)
      BY <1>5, <3>1
    <3>. QED  BY <3>1, <3>2
  <2>. QED  BY <2>1, <2>2, <2>3
<1>7. flat(i) = <<b>> \o flat(i + m)
  <2>1. i \in 1 .. n /\ a[i] = <<b>>
    BY <1>1, <1>2
  <2>. QED  BY <1>3, <1>6, <2>1
<1>8. PICK c \in (i + m) .. (n + 1) :
         IsCut(s, c) /\ f[i + m] = [prefix |-> flat(i + m), rest |-> SubSeq(s, c, n)]
  BY <1>1, <1>2 DEF Scanned
<1>9. f[i] = [prefix |-> flat(i), rest |-> SubSeq(s, c, n)]
  <2>1. PICK u, v : u = flat(i + m) /\ v = SubSeq(s, c, n)
    OBVIOUS
  <2>2. f[i + m] = [prefix |-> u, rest |-> v]
    BY <1>8, <2>1
  <2>3. f[i] = [prefix |-> <<b>> \o u, rest |-> v]
    <3>1. PICK w : w = <<b>> \o u
      OBVIOUS
    <3>2. f[i + m].prefix = u
      BY <2>2
    <3>3. f[i] = [f[i + m] EXCEPT !.prefix = w]
      BY <3>1, <3>2
    <3>4. f[i] = [prefix |-> w, rest |-> v]
      BY <2>2, <3>3
    <3>. QED  BY <3>1, <3>4
  <2>. QED  BY <1>7, <2>1, <2>3
<1>10. c \in i .. (n + 1)
  BY <1>1, <1>8
<1>. QED  BY <1>1, <1>2, <1>8, <1>9, <1>10 DEF Scanned

\* The scan at i, given the scans of what comes later.
LEMMA ScanAt ==
    ASSUME NEW s \in Seq(Byte), NEW f, NEW i \in 1 .. (Len(s) + 1), Start(s, i),
           f[i] = Scan(f, s, i),
           \A j \in (i + 1) .. (Len(s) + 1) : Start(s, j) => Scanned(f, s, j)
    PROVE  Scanned(f, s, i)
<1>1. PICK n \in Nat : n = Len(s)
  BY TextFacts
<1>2. PICK a \in Seq(Seq(Chars)) : a = Shows(s) /\ Len(a) = n /\ \A j \in 1 .. n : a[j] = Shown(s, j)
  BY <1>1, ShowsType
<1>3. CASE i > n
  <2>1. i = n + 1
    BY <1>1, <1>3
  <2>2. IsCut(s, i)
    BY <1>1, <2>1 DEF IsCut, Start
  <2>3. SubSeq(s, i, n) = <<>> /\ SubSeq(a, i, n) = <<>>
    BY <1>3, SubSeqEmpty
  <2>4. FlattenSeq(<<>>) = <<>>
    BY DEF FlattenSeq
  <2>5. f[i] = [prefix |-> <<>>, rest |-> <<>>]
    BY <1>1, <1>3 DEF Scan
  <2>6. i \in i .. (n + 1)
    BY <2>1
  <2>. QED  BY <1>1, <1>2, <2>2, <2>3, <2>4, <2>5, <2>6 DEF Scanned
<1>4. CASE i <= n
  <2>0. i \in 1 .. n /\ ~(i > n)
    BY <1>1, <1>4
  <2>1. i \in 1 .. n /\ s[i] \in Byte /\ Need(s[i]) \in 0 .. 3 /\ ~(i > n)
    BY <1>1, <2>0, TextFacts, SMTT(30)
  <2>2. \A j \in 1 .. (i - 1) : ~CutOff(s, j)
    BY DEF Start
  <2>3. ~Inside(s, i)
    BY <1>1, <1>4 DEF Start
  <2>4. ~CutOff(s, i) =>
           Shown(s, i) = IF Need(s[i]) > 0 /\ Whole(s, i) THEN <<s[i]>> ELSE <<"?">>
    <3>1. ASSUME ~CutOff(s, i) PROVE ~(\E j \in 1 .. i : CutOff(s, j))
      BY <2>1, <2>2, <3>1
    <3>. QED  BY <2>3, <3>1 DEF Shown
  <2>5. CASE CutOff(s, i)
    <3>1. Need(s[i]) # 0 /\ i + Need(s[i]) - 1 > n
      BY <1>1, <2>5, NeedValues DEF CutOff
    <3>2. f[i] = [prefix |-> <<>>, rest |-> SubSeq(s, i, n)]
      BY <1>1, <2>1, <3>1 DEF Scan
    <3>3. IsCut(s, i)
      BY <1>1, <2>1, <2>2, <2>5 DEF IsCut
    <3>4. FlattenSeq(SubSeq(a, i, n)) = <<>>
      <4>1. ASSUME NEW k \in i .. n PROVE a[k] \in {<<>>}
        <5>1. k \in 1 .. n /\ i \in 1 .. k
          BY <2>1
        <5>2. Shown(s, k) = <<>>
          BY <2>5, <5>1 DEF Shown
        <5>. QED  BY <1>2, <5>1, <5>2
      <4>2. SubSeq(a, i, n) \in Seq({<<>>})
        BY <4>1, SubSeqProperties
      <4>. QED  BY <4>2, FlattenBlank
    <3>5. i \in i .. (n + 1)
      BY <2>1
    <3>. QED  BY <1>1, <1>2, <3>2, <3>3, <3>4, <3>5 DEF Scanned
  <2>6. CASE ~CutOff(s, i) /\ s[i] \in {"l2", "l3"} /\ Whole(s, i)
    <3>1. PICK m \in 2 .. 3 : m = Need(s[i])
      BY <2>6, NeedValues
    <3>2. /\ i + m - 1 <= n /\ Start(s, i + m)
          /\ \A k \in (i + 1) .. (i + m - 1) : s[k] = "c" /\ Shown(s, k) = <<>>
      <4>1. i + m - 1 <= n /\ \A k \in (i + 1) .. (i + m - 1) : s[k] = "c"
        BY <1>1, <2>6, <3>1 DEF Whole
      <4>2. Start(s, i + m) /\ \A k \in (i + 1) .. (i + m - 1) : Shown(s, k) = <<>>
        BY <1>1, <2>1, <2>6, <3>1, StartAfter
      <4>. QED  BY <4>1, <4>2
    <3>3. f[i] = [f[i + m] EXCEPT !.prefix = <<s[i]>> \o @]
      <4>1. ~(i > Len(s)) /\ ~(Need(s[i]) = 0) /\ ~(i + Need(s[i]) - 1 > Len(s))
        BY <1>1, <2>1, <3>1, <3>2
      <4>2. \A k \in (i + 1) .. (i + Need(s[i]) - 1) : s[k] = "c"
        BY <3>1, <3>2
      <4>. QED  BY <3>1, <4>1, <4>2, Zenon DEF Scan
    <3>4. Shown(s, i) = <<s[i]>>
      BY <2>4, <2>6, <3>1
    <3>5. Scanned(f, s, i + m)
      <4>1. i + m \in (i + 1) .. (Len(s) + 1)
        BY <1>1, <3>2
      <4>. QED  BY <3>2, <4>1
    <3>6. m \in 1 .. 3 /\ i \in 1 .. Len(s) /\ i + m - 1 <= Len(s)
      BY <1>1, <2>1, <3>2
    <3>. QED  BY <3>2, <3>3, <3>4, <3>5, <3>6, ScanTakes
  <2>7. CASE ~CutOff(s, i) /\ ~(s[i] \in {"l2", "l3"} /\ Whole(s, i))
    <3>1. Start(s, i + 1)
      BY <1>1, <2>1, <2>7, StartNext
    <3>2. Scanned(f, s, i + 1)
      <4>1. i + 1 \in (i + 1) .. (Len(s) + 1)
        BY <1>1, <2>1
      <4>. QED  BY <3>1, <4>1
    <3>3. PICK b : f[i] = [f[i + 1] EXCEPT !.prefix = <<b>> \o @] /\ Shown(s, i) = <<b>>
      <4>1. CASE s[i] = "a"
        <5>1. Need(s[i]) = 1 /\ ~(i + Need(s[i]) - 1 > Len(s)) /\ ~(i > Len(s)) /\ Need(s[i]) # 0
          BY <1>1, <2>1, <4>1, NeedValues
        <5>2. \A k \in (i + 1) .. (i + Need(s[i]) - 1) : s[k] = "c"
          BY <2>1, <5>1
        <5>3. f[i] = [f[i + Need(s[i])] EXCEPT !.prefix = <<s[i]>> \o @]
          BY <5>1, <5>2, Zenon DEF Scan
        <5>4. Whole(s, i)
          BY <5>1, <5>2 DEF Whole
        <5>5. f[i] = [f[i + 1] EXCEPT !.prefix = <<s[i]>> \o @]
          BY <5>1, <5>3
        <5>6. Need(s[i]) > 0
          BY <5>1
        <5>7. Shown(s, i) = <<s[i]>>
          BY <2>4, <2>7, <5>4, <5>6, Zenon
        <5>. QED  BY <5>5, <5>7, Zenon
      <4>2. CASE s[i] \in {"c", "x"}
        <5>1. Need(s[i]) = 0 /\ ~(i > Len(s))
          BY <1>1, <2>1, <4>2, NeedValues
        <5>2. f[i] = [f[i + 1] EXCEPT !.prefix = <<"?">> \o @]
          BY <5>1, Zenon DEF Scan
        <5>3. ~(Need(s[i]) > 0)
          BY <5>1
        <5>4. Shown(s, i) = <<"?">>
          BY <2>4, <2>7, <5>3, Zenon
        <5>. QED  BY <5>2, <5>4, Zenon
      <4>3. CASE s[i] \in {"l2", "l3"}
        <5>1. ~Whole(s, i) /\ Need(s[i]) # 0 /\ ~(i > Len(s))
          BY <1>1, <2>1, <2>7, <4>3, NeedValues
        <5>2. ~(i + Need(s[i]) - 1 > Len(s))
          BY <2>7, <4>3 DEF CutOff
        <5>3. ~(\A k \in (i + 1) .. (i + Need(s[i]) - 1) : s[k] = "c")
          BY <1>1, <2>1, <5>1, <5>2 DEF Whole
        <5>4. f[i] = [f[i + 1] EXCEPT !.prefix = <<"?">> \o @]
          BY <5>1, <5>2, <5>3, Zenon DEF Scan
        <5>5. Shown(s, i) = <<"?">>
          BY <2>4, <2>7, <5>1, Zenon
        <5>. QED  BY <5>4, <5>5, Zenon
      <4>. QED  BY <2>1, <4>1, <4>2, <4>3 DEF Byte
    <3>4. i + 1 - 1 <= Len(s) /\ i \in 1 .. Len(s) /\ 1 \in 1 .. 3
      BY <1>1, <2>1
    <3>5. \A k \in (i + 1) .. (i + 1 - 1) : Shown(s, k) = <<>>
      BY <2>1
    <3>. QED  BY <3>2, <3>3, <3>4, <3>5, ScanTakes
  <2>. QED  BY <2>5, <2>6, <2>7
<1>. QED  BY <1>1, <1>3, <1>4

(***************************************************************************)
(* For every text, the scan of split_utf8_prefix (OpenAIStreamWriter.cc:37)*)
(* gives the characters that Visible tells by what surrounds each byte,    *)
(* and keeps what begins with the first incomplete one.                    *)
(***************************************************************************)
THEOREM SplitIsVisible ==
    ASSUME NEW s \in Seq(Byte)
    PROVE  /\ split_utf8_prefix(s).prefix = Visible(s)
           /\ \E c \in 1 .. (Len(s) + 1) :
                 IsCut(s, c) /\ split_utf8_prefix(s).rest = SubSeq(s, c, Len(s))
<1>1. PICK n \in Nat : n = Len(s)
  BY TextFacts
<1>2. PICK f : /\ \A i \in 1 .. (n + 1) : f[i] = Scan(f, s, i)
               /\ split_utf8_prefix(s) = f[1]
  BY <1>1, SplitScans
<1>. DEFINE T == {k \in Nat : \A i \in 1 .. (n + 1) : i >= n + 1 - k /\ Start(s, i) => Scanned(f, s, i)}
<1>3. ASSUME NEW k \in Nat, NEW i \in 1 .. (n + 1), i >= n + 1 - k, Start(s, i),
             \A j \in 1 .. (n + 1) : j >= n + 1 - k + 1 /\ Start(s, j) => Scanned(f, s, j)
      PROVE  Scanned(f, s, i)
  <2>1. i \in 1 .. (Len(s) + 1) /\ f[i] = Scan(f, s, i)
    BY <1>1, <1>2
  <2>2. \A j \in (i + 1) .. (Len(s) + 1) : Start(s, j) => Scanned(f, s, j)
    BY <1>1, <1>3
  <2>. QED  BY <1>3, <2>1, <2>2, ScanAt
<1>4. 0 \in T
  <2>1. ASSUME NEW i \in 1 .. (n + 1), i >= n + 1 - 0, Start(s, i) PROVE Scanned(f, s, i)
    <3>1. \A j \in 1 .. (n + 1) : ~(j >= n + 1 - 0 + 1)
      OBVIOUS
    <3>. QED  BY <1>3, <2>1, <3>1
  <2>. QED  BY <2>1
<1>5. ASSUME NEW k \in Nat, k \in T PROVE k + 1 \in T
  <2>1. ASSUME NEW i \in 1 .. (n + 1), i >= n + 1 - (k + 1), Start(s, i) PROVE Scanned(f, s, i)
    <3>1. \A j \in 1 .. (n + 1) : j >= n + 1 - (k + 1) + 1 /\ Start(s, j) => Scanned(f, s, j)
      BY <1>5
    <3>2. k + 1 \in Nat
      OBVIOUS
    <3>. QED  BY <1>3, <2>1, <3>1, <3>2
  <2>. QED  BY <2>1
<1>6. n \in T
  BY <1>4, <1>5, SetInduction
<1>7. Start(s, 1)
  BY DEF Start, Inside
<1>8. Scanned(f, s, 1)
  <2>1. 1 \in 1 .. (n + 1) /\ 1 >= n + 1 - n
    OBVIOUS
  <2>. QED  BY <1>6, <1>7, <2>1
<1>9. PICK c \in 1 .. (n + 1) :
         /\ IsCut(s, c)
         /\ f[1] = [prefix |-> FlattenSeq(SubSeq(Shows(s), 1, n)), rest |-> SubSeq(s, c, n)]
  BY <1>1, <1>8 DEF Scanned
<1>10. FlattenSeq(SubSeq(Shows(s), 1, n)) = Visible(s)
  <2>1. Shows(s) \in Seq(Seq(Chars)) /\ Len(Shows(s)) = n /\ Visible(s) = FlattenSeq(Shows(s))
    BY <1>1, ShowsType
  <2>2. SubSeq(Shows(s), 1, n) = Shows(s)
    BY <2>1, SubSeqFull
  <2>. QED  BY <2>1, <2>2
<1>11. f[1].prefix = Visible(s) /\ f[1].rest = SubSeq(s, c, n)
  BY <1>9, <1>10
<1>. QED  BY <1>1, <1>2, <1>9, <1>11

\* A text that ends with an incomplete character, and what is added to it: the two
\* texts joined, byte by byte.
LEMMA ShownBefore ==
    ASSUME NEW s \in Seq(Byte), NEW u \in Seq(Byte), NEW c, IsCut(s, c), NEW i \in 1 .. (c - 1)
    PROVE  Shown(s \o u, i) = Shown(s, i) /\ ~CutOff(s \o u, i)
<1>1. PICK n \in Nat, m \in Nat, t \in Seq(Byte) :
         n = Len(s) /\ m = Len(u) /\ t = s \o u /\ Len(t) = n + m
  <2>1. Len(s) \in Nat /\ Len(u) \in Nat
    BY TextFacts
  <2>2. s \o u \in Seq(Byte) /\ Len(s \o u) = Len(s) + Len(u)
    BY ConcatProperties
  <2>. QED  BY <2>1, <2>2
<1>2. \A j \in 1 .. n : t[j] = s[j] /\ Need(s[j]) \in 0 .. 3
  <2>1. \A j \in 1 .. n : t[j] = s[j]
    BY <1>1, ConcatProperties
  <2>. QED  BY <1>1, <2>1, TextFacts
<1>3. c \in 1 .. (n + 1) /\ \A j \in 1 .. (c - 1) : ~CutOff(s, j)
  BY <1>1 DEF IsCut
<1>4. ASSUME NEW j \in 1 .. (c - 1)
      PROVE  /\ t[j] = s[j] /\ ~CutOff(t, j) /\ (s[j] \in {"l2", "l3"} => j + Need(s[j]) - 1 <= n)
             /\ Need(s[j]) > 0 => (Whole(t, j) <=> Whole(s, j))
  <2>1. j \in 1 .. n /\ t[j] = s[j] /\ Need(s[j]) \in 0 .. 3
    BY <1>2, <1>3
  <2>2. s[j] \in {"l2", "l3"} => j + Need(s[j]) - 1 <= n
    BY <1>1, <1>3, <2>1 DEF CutOff
  <2>3. ~CutOff(t, j)
    BY <1>1, <2>1, <2>2 DEF CutOff
  <2>4. Need(s[j]) > 0 => j + Need(s[j]) - 1 <= n
    <3>1. s[j] \in Byte
      BY <1>1, <2>1, TextFacts
    <3>. QED  BY <2>1, <2>2, <3>1, NeedValues DEF Byte
  <2>5. Need(s[j]) > 0 => (Whole(t, j) <=> Whole(s, j))
    <3>. SUFFICES ASSUME Need(s[j]) > 0 PROVE Whole(t, j) <=> Whole(s, j)
      OBVIOUS
    <3>1. \A k \in (j + 1) .. (j + Need(s[j]) - 1) : t[k] = s[k]
      BY <1>2, <2>1, <2>4
    <3>2. j + Need(s[j]) - 1 <= Len(s) /\ j + Need(t[j]) - 1 <= Len(t)
      BY <1>1, <2>1, <2>4
    <3>. QED  BY <2>1, <3>1, <3>2, Zenon DEF Whole
  <2>. QED  BY <2>1, <2>2, <2>3, <2>5
<1>5. Inside(t, i) <=> Inside(s, i)
  <2>1. \A j \in 1 .. (i - 1) : j \in 1 .. (c - 1)
    BY <1>3
  <2>2. \A j \in 1 .. (i - 1) : s[j] \in {"l2", "l3"} => Need(s[j]) > 0
    BY NeedValues
  <2>3. \A j \in 1 .. (i - 1) :
           (t[j] \in {"l2", "l3"} /\ i < j + Need(t[j]) /\ Whole(t, j))
           <=> (s[j] \in {"l2", "l3"} /\ i < j + Need(s[j]) /\ Whole(s, j))
    BY <1>4, <2>1, <2>2, Zenon
  <2>4. t[i] = s[i]
    BY <1>4
  <2>. QED  BY <2>3, <2>4, Zenon DEF Inside
<1>6. (\E j \in 1 .. i : CutOff(t, j)) <=> (\E j \in 1 .. i : CutOff(s, j))
  <2>1. \A j \in 1 .. i : j \in 1 .. (c - 1)
    BY <1>3
  <2>. QED  BY <1>3, <1>4, <2>1
<1>7. Shown(t, i) = Shown(s, i)
  BY <1>4, <1>5, <1>6, Zenon DEF Shown
<1>. QED  BY <1>1, <1>4, <1>7

\* No character of t lies across c.
Boundary(t, c) ==
    /\ c \in 1 .. (Len(t) + 1)
    /\ \A j \in 1 .. (c - 1) :
          ~CutOff(t, j) /\ (t[j] \in {"l2", "l3"} /\ Whole(t, j) => j + Need(t[j]) <= c)

\* The place where a text is cut is one, whatever is added.
LEMMA CutIsBoundary ==
    ASSUME NEW s \in Seq(Byte), NEW u \in Seq(Byte), NEW c, IsCut(s, c)
    PROVE  Boundary(s \o u, c)
<1>1. PICK n \in Nat, m \in Nat, t \in Seq(Byte) :
         n = Len(s) /\ m = Len(u) /\ t = s \o u /\ Len(t) = n + m
  <2>1. Len(s) \in Nat /\ Len(u) \in Nat
    BY TextFacts
  <2>2. s \o u \in Seq(Byte) /\ Len(s \o u) = Len(s) + Len(u)
    BY ConcatProperties
  <2>. QED  BY <2>1, <2>2
<1>2. \A j \in 1 .. n : t[j] = s[j]
  BY <1>1, ConcatProperties
<1>3. /\ c \in 1 .. (n + 1) /\ (c <= n => s[c] \in {"l2", "l3"})
      /\ \A j \in 1 .. (c - 1) : ~CutOff(s, j)
  BY <1>1 DEF IsCut, CutOff
<1>4. ASSUME NEW j \in 1 .. (c - 1) PROVE ~CutOff(t, j)
  BY <1>1, ShownBefore
<1>5. ASSUME NEW j \in 1 .. (c - 1), t[j] \in {"l2", "l3"}, Whole(t, j), ~(j + Need(t[j]) <= c)
      PROVE  FALSE
  <2>1. j \in 1 .. n /\ t[j] = s[j] /\ Need(s[j]) \in 0 .. 3
    BY <1>1, <1>2, <1>3, TextFacts, SMTT(30)
  <2>2. j + Need(s[j]) - 1 <= n
    BY <1>1, <1>3, <1>5, <2>1 DEF CutOff
  <2>3. c \in (j + 1) .. (j + Need(t[j]) - 1) /\ c <= n
    BY <1>3, <1>5, <2>1, <2>2
  <2>4. t[c] = "c"
    BY <1>5, <2>3 DEF Whole
  <2>. QED  BY <1>2, <1>3, <2>3, <2>4
<1>6. c \in 1 .. (Len(t) + 1)
  BY <1>1, <1>3
<1>. QED  BY <1>1, <1>4, <1>5, <1>6 DEF Boundary

\* v is t from c on.
From(t, c, v) == Len(v) = Len(t) - c + 1 /\ \A i \in 1 .. Len(v) : v[i] = t[c - 1 + i]

\* From such a place on a text shows what it shows without the part before.
LEMMA ShownAfter ==
    ASSUME NEW t \in Seq(Byte), NEW c, Boundary(t, c), NEW v \in Seq(Byte), From(t, c, v),
           NEW i \in 1 .. Len(v)
    PROVE  Shown(t, c - 1 + i) = Shown(v, i) /\ (CutOff(t, c - 1 + i) <=> CutOff(v, i))
<1>1. PICK n \in Nat, d \in Nat, m \in Nat :
         n = Len(t) /\ d = c - 1 /\ m = Len(v) /\ m = n - d /\ d <= n /\ c = d + 1
  BY TextFacts DEF Boundary, From
<1>2. \A j \in 1 .. m : v[j] = t[d + j] /\ Need(v[j]) \in 0 .. 3
  BY <1>1, TextFacts DEF From
<1>3. ASSUME NEW j \in 1 .. m
      PROVE  /\ v[j] = t[d + j]
             /\ CutOff(t, d + j) <=> CutOff(v, j)
             /\ Whole(t, d + j) <=> Whole(v, j)
  <2>1. v[j] = t[d + j] /\ Need(v[j]) \in 0 .. 3
    BY <1>2
  <2>2. j + Need(v[j]) - 1 <= Len(v) <=> (d + j) + Need(t[d + j]) - 1 <= Len(t)
    BY <1>1, <2>1, SMTT(30)
  <2>3. CutOff(t, d + j) <=> CutOff(v, j)
    BY <1>1, <2>1, SMTT(30) DEF CutOff
  <2>4. CASE j + Need(v[j]) - 1 <= Len(v)
    <3>1. ASSUME Whole(t, d + j) PROVE Whole(v, j)
      <4>1. ASSUME NEW k \in (j + 1) .. (j + Need(v[j]) - 1) PROVE v[k] = "c"
        <5>1. d + k \in ((d + j) + 1) .. ((d + j) + Need(t[d + j]) - 1) /\ k \in 1 .. m
          BY <1>1, <2>1, <2>4, SMTT(30)
        <5>2. t[d + k] = "c"
          BY <3>1, <5>1 DEF Whole
        <5>. QED  BY <1>2, <5>1, <5>2
      <4>. QED  BY <2>4, <4>1 DEF Whole
    <3>2. ASSUME Whole(v, j) PROVE Whole(t, d + j)
      <4>1. ASSUME NEW k \in ((d + j) + 1) .. ((d + j) + Need(t[d + j]) - 1) PROVE t[k] = "c"
        <5>1. PICK l \in Int : l = k - d
          OBVIOUS
        <5>2. l \in (j + 1) .. (j + Need(v[j]) - 1) /\ l \in 1 .. m /\ d + l = k
          BY <1>1, <2>1, <2>4, <5>1, SMTT(30)
        <5>3. v[l] = "c"
          BY <3>2, <5>2 DEF Whole
        <5>. QED  BY <1>2, <5>2, <5>3
      <4>2. (d + j) + Need(t[d + j]) - 1 <= Len(t)
        BY <2>2, <2>4
      <4>. QED  BY <4>1, <4>2, Zenon DEF Whole
    <3>. QED  BY <2>1, <2>3, <3>1, <3>2
  <2>5. CASE ~(j + Need(v[j]) - 1 <= Len(v))
    <3>1. ~((d + j) + Need(t[d + j]) - 1 <= Len(t))
      BY <2>2, <2>5
    <3>2. ~Whole(t, d + j)
      BY <3>1, Zenon DEF Whole
    <3>3. ~Whole(v, j)
      BY <2>5, Zenon DEF Whole
    <3>. QED  BY <2>1, <2>3, <3>2, <3>3
  <2>. QED  BY <2>1, <2>3, <2>4, <2>5
<1>4. Inside(t, d + i) <=> Inside(v, i)
  <2>1. v[i] = t[d + i]
    BY <1>1, <1>3
  <2>2. ASSUME Inside(t, d + i) PROVE Inside(v, i)
    <3>1. PICK j \in 1 .. (d + i - 1) :
             t[j] \in {"l2", "l3"} /\ d + i < j + Need(t[j]) /\ Whole(t, j)
      BY <2>2 DEF Inside
    <3>2. ~(j <= d)
      <4>1. ASSUME j <= d PROVE j + Need(t[j]) <= c
        <5>1. j \in 1 .. (c - 1)
          BY <1>1, <4>1
        <5>. QED  BY <3>1, <5>1 DEF Boundary
      <4>2. j \in 1 .. n
        BY <1>1
      <4>3. Need(t[j]) \in 0 .. 3
        BY <1>1, <4>2, TextFacts
      <4>. QED  BY <1>1, <3>1, <4>1, <4>3
    <3>3. PICK k \in 1 .. (i - 1) : j = d + k
      <4>1. j - d \in 1 .. (i - 1) /\ j = d + (j - d)
        BY <1>1, <3>2
      <4>. QED  BY <4>1
    <3>4. k \in 1 .. m
      BY <1>1, <3>3
    <3>5. v[k] = t[j] /\ Whole(v, k) /\ Need(v[k]) \in 0 .. 3
      BY <1>2, <1>3, <3>1, <3>3, <3>4
    <3>6. i < k + Need(v[k])
      BY <1>1, <3>1, <3>3, <3>5
    <3>. QED  BY <2>1, <2>2, <3>1, <3>5, <3>6 DEF Inside
  <2>3. ASSUME Inside(v, i) PROVE Inside(t, d + i)
    <3>1. PICK k \in 1 .. (i - 1) :
             v[k] \in {"l2", "l3"} /\ i < k + Need(v[k]) /\ Whole(v, k)
      BY <2>3 DEF Inside
    <3>2. k \in 1 .. m /\ d + k \in 1 .. (d + i - 1)
      BY <1>1
    <3>3. v[k] = t[d + k] /\ Whole(t, d + k) /\ Need(v[k]) \in 0 .. 3
      BY <1>2, <1>3, <3>1, <3>2
    <3>4. d + i < (d + k) + Need(t[d + k])
      BY <1>1, <3>1, <3>3
    <3>. QED  BY <2>1, <2>3, <3>1, <3>2, <3>3, <3>4 DEF Inside
  <2>. QED  BY <2>2, <2>3
<1>5. (\E j \in 1 .. (d + i) : CutOff(t, j)) <=> (\E j \in 1 .. i : CutOff(v, j))
  <2>1. ASSUME NEW j \in 1 .. (d + i), CutOff(t, j) PROVE \E k \in 1 .. i : CutOff(v, k)
    <3>1. ~(j \in 1 .. (c - 1))
      BY <2>1 DEF Boundary
    <3>2. j - d \in 1 .. i /\ j = d + (j - d) /\ j - d \in 1 .. m
      BY <1>1, <3>1
    <3>3. PICK k \in 1 .. i : k \in 1 .. m /\ j = d + k
      BY <3>2
    <3>. QED  BY <1>3, <2>1, <3>3
  <2>2. ASSUME NEW k \in 1 .. i, CutOff(v, k) PROVE \E j \in 1 .. (d + i) : CutOff(t, j)
    <3>1. k \in 1 .. m /\ d + k \in 1 .. (d + i)
      BY <1>1
    <3>. QED  BY <1>3, <2>2, <3>1
  <2>. QED  BY <2>1, <2>2
<1>6. i \in 1 .. m /\ c - 1 + i = d + i
  BY <1>1
<1>7. Need(v[i]) = Need(t[d + i]) /\ v[i] = t[d + i] /\ (Whole(t, d + i) <=> Whole(v, i))
      /\ (CutOff(t, d + i) <=> CutOff(v, i))
  BY <1>3, <1>6
<1>8. Shown(t, d + i) = Shown(v, i)
  BY <1>4, <1>5, <1>7, Zenon DEF Shown
<1>. QED  BY <1>6, <1>7, <1>8

\* The end of a sequence.
LEMMA PartOf ==
    ASSUME NEW S, NEW s \in Seq(S), NEW n \in Nat, n = Len(s), NEW b \in Nat, b <= n
    PROVE  /\ SubSeq(s, b + 1, n) \in Seq(S) /\ Len(SubSeq(s, b + 1, n)) = n - b
           /\ \A i \in 1 .. (n - b) : SubSeq(s, b + 1, n)[i] = s[b + i]
<1>1. b + 1 \in Int /\ n \in Int /\ \A i \in (b + 1) .. n : s[i] \in S
  BY ElementOfSeq
<1>2. PICK q, l, k, h : q = SubSeq(s, b + 1, n) /\ l = Len(q) /\ k = n - (b + 1) + 1
                        /\ h = (IF b + 1 <= n THEN n - (b + 1) + 1 ELSE 0)
  OBVIOUS
<1>3. q \in Seq(S) /\ l = h /\ \A i \in 1 .. k : q[i] = s[b + 1 + i - 1]
  BY <1>1, <1>2, SubSeqProperties
<1>4. h = n - b /\ k = n - b /\ \A i \in 1 .. (n - b) : b + 1 + i - 1 = b + i
  BY <1>2
<1>5. \A i \in 1 .. (n - b) : q[i] = s[b + i]
  BY <1>3, <1>4
<1>. QED  BY <1>2, <1>3, <1>4, <1>5

\* Two sequences joined, the second one counted from its start.
LEMMA JoinOf ==
    ASSUME NEW S, NEW s \in Seq(S), NEW t \in Seq(S), NEW n \in Nat, n = Len(s),
           NEW m \in Nat, m = Len(t)
    PROVE  /\ s \o t \in Seq(S) /\ Len(s \o t) = n + m
           /\ \A i \in 1 .. n : (s \o t)[i] = s[i]
           /\ \A i \in 1 .. m : (s \o t)[n + i] = t[i]
<1>1. PICK q : q = s \o t
  OBVIOUS
<1>2. /\ q \in Seq(S) /\ Len(q) = n + m
      /\ \A i \in 1 .. (n + m) : q[i] = IF i <= n THEN s[i] ELSE t[i - n]
  BY <1>1, ConcatProperties
<1>3. ASSUME NEW i \in 1 .. n PROVE q[i] = s[i]
  <2>1. i \in 1 .. (n + m) /\ i <= n
    OBVIOUS
  <2>. QED  BY <1>2, <2>1
<1>4. ASSUME NEW i \in 1 .. m PROVE q[n + i] = t[i]
  <2>1. n + i \in 1 .. (n + m) /\ ~(n + i <= n) /\ (n + i) - n = i
    OBVIOUS
  <2>2. q[n + i] = t[(n + i) - n]
    BY <1>2, <2>1
  <2>. QED  BY <2>1, <2>2
<1>. QED  BY <1>1, <1>2, <1>3, <1>4

\* v, what is kept of s and then u: it shows what s \o u shows more than s, and what
\* v would keep is what s \o u would.
Grows(s, u, c, v) ==
    /\ v = SubSeq(s, c, Len(s)) \o u
    /\ Visible(s \o u) = Visible(s) \o Visible(v)
    /\ \A e \in 1 .. (Len(v) + 1) :
          IsCut(v, e) =>
             \E d \in 1 .. (Len(s \o u) + 1) :
                IsCut(s \o u, d) /\ SubSeq(v, e, Len(v)) = SubSeq(s \o u, d, Len(s \o u))

\* A text shown in two parts: up to its cut, and from there on with what comes next.
LEMMA VisibleGrows ==
    ASSUME NEW s \in Seq(Byte), NEW u \in Seq(Byte), NEW c, IsCut(s, c)
    PROVE  \E v \in Seq(Byte) : Grows(s, u, c, v)
<1>1. PICK n \in Nat, m \in Nat, t \in Seq(Byte) :
         /\ n = Len(s) /\ m = Len(u) /\ t = s \o u /\ Len(t) = n + m
         /\ \A i \in 1 .. n : t[i] = s[i]
         /\ \A i \in 1 .. m : t[n + i] = u[i]
  <2>1. PICK n \in Nat, m \in Nat : n = Len(s) /\ m = Len(u)
    BY TextFacts
  <2>2. PICK t : t = s \o u
    OBVIOUS
  <2>3. /\ t \in Seq(Byte) /\ Len(t) = n + m
        /\ \A i \in 1 .. n : t[i] = s[i]
        /\ \A i \in 1 .. m : t[n + i] = u[i]
    <3>1. /\ s \o u \in Seq(Byte) /\ Len(s \o u) = n + m
          /\ \A i \in 1 .. n : (s \o u)[i] = s[i]
          /\ \A i \in 1 .. m : (s \o u)[n + i] = u[i]
      BY <2>1, JoinOf
    <3>. QED  BY <2>2, <3>1, Zenon
  <2>. QED  BY <2>1, <2>2, <2>3, Zenon
<1>2. PICK b \in Nat : c = b + 1 /\ b <= n
  BY <1>1 DEF IsCut
<1>3. PICK w \in Seq(Byte) : /\ w = SubSeq(s, c, n) /\ Len(w) = n - b
                             /\ \A i \in 1 .. (n - b) : w[i] = s[b + i]
  <2>1. n = Len(s) /\ b <= n
    BY <1>1, <1>2
  <2>2. /\ SubSeq(s, b + 1, n) \in Seq(Byte) /\ Len(SubSeq(s, b + 1, n)) = n - b
        /\ \A i \in 1 .. (n - b) : SubSeq(s, b + 1, n)[i] = s[b + i]
    BY <2>1, PartOf
  <2>. QED  BY <1>2, <2>2, Zenon
<1>4. PICK h \in Nat, l \in Nat : h = n - b /\ l = h + m /\ b + l = n + m
  BY <1>2
<1>5. PICK v \in Seq(Byte) : /\ v = w \o u /\ Len(v) = l
                             /\ \A i \in 1 .. l : v[i] = t[b + i]
  <2>1. PICK v \in Seq(Byte) : /\ v = w \o u /\ Len(v) = l
                               /\ \A i \in 1 .. h : v[i] = w[i]
                               /\ \A i \in 1 .. m : v[h + i] = u[i]
    <3>2. h = Len(w) /\ m = Len(u)
      BY <1>1, <1>3, <1>4
    <3>3. /\ w \o u \in Seq(Byte) /\ Len(w \o u) = h + m
          /\ \A i \in 1 .. h : (w \o u)[i] = w[i]
          /\ \A i \in 1 .. m : (w \o u)[h + i] = u[i]
      BY <3>2, JoinOf
    <3>. QED  BY <1>4, <3>3, Zenon
  <2>2. ASSUME NEW i \in 1 .. l PROVE v[i] = t[b + i]
    <3>1. CASE i <= h
      <4>1. b + i \in 1 .. n /\ i \in 1 .. h
        BY <1>2, <1>4, <3>1
      <4>. QED  BY <1>1, <1>3, <1>4, <2>1, <4>1
    <3>2. CASE ~(i <= h)
      <4>1. PICK k \in 1 .. m : i = h + k /\ b + i = n + k
        <5>1. i - h \in 1 .. m /\ i = h + (i - h) /\ b + i = n + (i - h)
          BY <1>2, <1>4, <3>2
        <5>. QED  BY <5>1
      <4>. QED  BY <1>1, <2>1, <4>1
    <3>. QED  BY <3>1, <3>2
  <2>. QED  BY <2>1, <2>2
<1>6. Boundary(t, c)
  BY <1>1, CutIsBoundary
<1>7. /\ Len(v) = Len(t) - c + 1
      /\ \A i \in 1 .. Len(v) : c - 1 + i = b + i /\ v[i] = t[c - 1 + i]
  <2>1. l = (n + m) - (b + 1) + 1 /\ \A i \in 1 .. l : (b + 1) - 1 + i = b + i
    BY <1>2, <1>4
  <2>. QED  BY <1>1, <1>2, <1>5, <2>1
<1>8. ASSUME NEW i \in 1 .. l
      PROVE  Shown(t, b + i) = Shown(v, i) /\ (CutOff(t, b + i) <=> CutOff(v, i))
  <2>1. i \in 1 .. Len(v) /\ c - 1 + i = b + i
    BY <1>5, <1>7
  <2>2. \A k \in 1 .. Len(v) : v[k] = t[c - 1 + k]
    BY <1>7
  <2>3. Shown(t, c - 1 + i) = Shown(v, i) /\ (CutOff(t, c - 1 + i) <=> CutOff(v, i))
    <3>1. From(t, c, v)
      BY <1>7, <2>2 DEF From
    <3>. QED  BY <1>6, <2>1, <3>1, ShownAfter
  <2>. QED  BY <2>1, <2>3
<1>9. PICK x \in Seq(Seq(Chars)), y \in Seq(Seq(Chars)), z \in Seq(Seq(Chars)) :
         /\ x = Shows(s) /\ Len(x) = n /\ Visible(s) = FlattenSeq(x)
         /\ \A i \in 1 .. n : x[i] = Shown(s, i)
         /\ y = Shows(v) /\ Len(y) = l /\ Visible(v) = FlattenSeq(y)
         /\ \A i \in 1 .. l : y[i] = Shown(v, i)
         /\ z = Shows(t) /\ Len(z) = n + m /\ Visible(t) = FlattenSeq(z)
         /\ \A i \in 1 .. (n + m) : z[i] = Shown(t, i)
  <2>1. /\ Shows(s) \in Seq(Seq(Chars)) /\ Len(Shows(s)) = n /\ Visible(s) = FlattenSeq(Shows(s))
        /\ \A i \in 1 .. n : Shows(s)[i] = Shown(s, i)
    BY <1>1, ShowsType
  <2>2. /\ Shows(v) \in Seq(Seq(Chars)) /\ Len(Shows(v)) = l
        /\ Visible(v) = FlattenSeq(Shows(v)) /\ \A i \in 1 .. l : Shows(v)[i] = Shown(v, i)
    BY <1>5, ShowsType
  <2>3. /\ Shows(t) \in Seq(Seq(Chars)) /\ Len(Shows(t)) = n + m
        /\ Visible(t) = FlattenSeq(Shows(t)) /\ \A i \in 1 .. (n + m) : Shows(t)[i] = Shown(t, i)
    BY <1>1, ShowsType
  <2>. QED  BY <2>1, <2>2, <2>3
<1>10. PICK p \in Seq(Seq(Chars)) : /\ p = SubSeq(x, 1, b) /\ Len(p) = b
                                    /\ \A i \in 1 .. b : p[i] = x[i]
  <2>1. \A i \in 1 .. b : x[i] \in Seq(Chars)
    BY <1>2, <1>9, ElementOfSeq
  <2>2. /\ SubSeq(x, 1, b) \in Seq(Seq(Chars))
        /\ Len(SubSeq(x, 1, b)) = IF 1 <= b THEN b - 1 + 1 ELSE 0
        /\ \A i \in 1 .. (b - 1 + 1) : SubSeq(x, 1, b)[i] = x[1 + i - 1]
    BY <2>1, SubSeqProperties
  <2>3. (IF 1 <= b THEN b - 1 + 1 ELSE 0) = b /\ b - 1 + 1 = b
        /\ \A i \in 1 .. b : 1 + i - 1 = i
    OBVIOUS
  <2>. QED  BY <2>2, <2>3
<1>11. PICK q \in Seq({<<>>}) : x = p \o q
  <2>1. ASSUME NEW i \in c .. n PROVE x[i] = <<>>
    <3>1. c \in 1 .. i /\ i \in 1 .. n /\ CutOff(s, c)
      BY <1>1, <1>2 DEF IsCut
    <3>2. Shown(s, i) = <<>>
      BY <3>1, Zenon DEF Shown
    <3>. QED  BY <1>9, <3>1, <3>2
  <2>2. PICK q : q = SubSeq(x, c, n)
    OBVIOUS
  <2>3. c \in Int /\ n \in Int /\ \A i \in c .. n : x[i] \in {<<>>}
    BY <1>2, <2>1
  <2>4. q \in Seq({<<>>})
    BY <2>2, <2>3, SubSeqProperties
  <2>5. SubSeq(x, 1, b) \o SubSeq(x, b + 1, n) = SubSeq(x, 1, n)
    <3>1. 1 \in 1 .. (Len(x) + 1) /\ b \in (1 - 1) .. Len(x) /\ n \in b .. Len(x)
      BY <1>2, <1>9
    <3>. QED  BY <1>9, <3>1, ConcatAdjacentSubSeq
  <2>6. SubSeq(x, 1, n) = x
    BY <1>9, SubSeqFull
  <2>. QED  BY <1>2, <1>10, <2>2, <2>4, <2>5, <2>6
<1>12. <<>> \in Seq(Chars) /\ q \in Seq(Seq(Chars)) /\ FlattenSeq(q) = <<>>
  <2>1. <<>> \in Seq(Chars)
    OBVIOUS
  <2>2. {<<>>} \subseteq Seq(Chars)
    BY <2>1
  <2>3. q \in Seq(Seq(Chars))
    BY <1>11, <2>2, SeqMonotonic
  <2>. QED  BY <1>11, <2>1, <2>3, FlattenBlank
<1>13. Visible(s) = FlattenSeq(p)
  <2>1. FlattenSeq(p) \in Seq(Chars)
    BY <1>10, <1>12, FlattenAppend
  <2>2. FlattenSeq(p \o q) = FlattenSeq(p) \o <<>>
    BY <1>10, <1>12, FlattenConcat
  <2>. QED  BY <1>9, <1>11, <2>1, <2>2, ConcatEmptySeq
<1>14. z = p \o y
  <2>1. PICK q2 : q2 = p \o y
    OBVIOUS
  <2>2. /\ q2 \in Seq(Seq(Chars)) /\ Len(q2) = b + l
        /\ \A i \in 1 .. b : q2[i] = p[i]
        /\ \A i \in 1 .. l : q2[b + i] = y[i]
    <3>1. b = Len(p) /\ l = Len(y)
      BY <1>9, <1>10
    <3>2. /\ p \o y \in Seq(Seq(Chars)) /\ Len(p \o y) = b + l
          /\ \A i \in 1 .. b : (p \o y)[i] = p[i]
          /\ \A i \in 1 .. l : (p \o y)[b + i] = y[i]
      BY <3>1, JoinOf
    <3>. QED  BY <2>1, <3>2, Zenon
  <2>3. ASSUME NEW i \in 1 .. (n + m) PROVE z[i] = q2[i]
    <3>1. CASE i <= b
      <4>1. i \in 1 .. (c - 1) /\ i \in 1 .. b /\ i \in 1 .. n
        BY <1>2, <3>1
      <4>2. Shown(t, i) = Shown(s, i)
        BY <1>1, <4>1, ShownBefore
      <4>3. z[i] = Shown(t, i)
        BY <1>9, SMTT(30)
      <4>4. p[i] = Shown(s, i)
        BY <1>9, <1>10, <4>1, SMTT(30)
      <4>5. q2[i] = p[i]
        BY <2>2, <4>1, Zenon
      <4>. QED  BY <4>2, <4>3, <4>4, <4>5, Zenon
    <3>2. CASE ~(i <= b)
      <4>1. PICK k \in 1 .. l : i = b + k
        <5>1. i - b \in 1 .. l /\ i = b + (i - b)
          BY <1>2, <1>4, <3>2
        <5>. QED  BY <5>1
      <4>2. Shown(t, i) = Shown(v, k)
        BY <1>8, <4>1
      <4>3. z[i] = Shown(t, i) /\ y[k] = Shown(v, k) /\ q2[i] = y[k]
        BY <1>9, <2>2, <4>1
      <4>. QED  BY <4>2, <4>3
    <3>. QED  BY <3>1, <3>2
  <2>4. Len(z) = Len(q2) /\ \A i \in 1 .. Len(z) : z[i] = q2[i]
    BY <1>4, <1>9, <2>2, <2>3
  <2>5. z = q2
    BY <1>9, <2>2, <2>4, SeqEqual
  <2>. QED  BY <2>1, <2>5
<1>15. Visible(t) = Visible(s) \o Visible(v)
  <2>1. FlattenSeq(p \o y) = FlattenSeq(p) \o FlattenSeq(y)
    BY <1>9, <1>10, FlattenConcat
  <2>. QED  BY <1>9, <1>13, <1>14, <2>1
<1>16. ASSUME NEW e \in 1 .. (l + 1), IsCut(v, e)
       PROVE  \E d \in 1 .. (Len(t) + 1) :
                 IsCut(t, d) /\ SubSeq(v, e, Len(v)) = SubSeq(t, d, Len(t))
  <2>1. PICK g \in Nat, d \in Nat : e = g + 1 /\ g <= l /\ d = b + g /\ d <= n + m
    <3>1. e - 1 \in Nat /\ e = (e - 1) + 1 /\ e - 1 <= l /\ b + (e - 1) \in Nat
          /\ b + (e - 1) <= n + m
      BY <1>4
    <3>. QED  BY <3>1
  <2>2. d + 1 \in 1 .. (Len(t) + 1)
    BY <1>1, <2>1
  <2>3. d + 1 <= Len(t) => CutOff(t, d + 1)
    <3>1. SUFFICES ASSUME d + 1 <= Len(t) PROVE CutOff(t, d + 1)
      OBVIOUS
    <3>2. e \in 1 .. l /\ b + e = d + 1
      BY <1>1, <1>4, <2>1, <3>1
    <3>3. CutOff(v, e)
      BY <1>5, <1>16, <3>2 DEF IsCut
    <3>. QED  BY <1>8, <3>2, <3>3
  <2>4. ASSUME NEW j \in 1 .. ((d + 1) - 1) PROVE ~CutOff(t, j)
    <3>1. CASE j <= b
      <4>1. j \in 1 .. (c - 1)
        BY <1>2, <3>1
      <4>. QED  BY <1>6, <4>1 DEF Boundary
    <3>2. CASE ~(j <= b)
      <4>1. PICK k \in 1 .. l : j = b + k /\ k \in 1 .. (e - 1)
        <5>1. j - b \in 1 .. l /\ j = b + (j - b) /\ j - b \in 1 .. (e - 1)
          BY <1>4, <2>1, <3>2
        <5>. QED  BY <5>1
      <4>2. ~CutOff(v, k)
        BY <1>16, <4>1 DEF IsCut
      <4>. QED  BY <1>8, <4>1, <4>2
    <3>. QED  BY <3>1, <3>2
  <2>5. IsCut(t, d + 1)
    BY <2>2, <2>3, <2>4 DEF IsCut
  <2>6. PICK x1, y1 : x1 = SubSeq(v, g + 1, l) /\ y1 = SubSeq(t, d + 1, n + m)
    OBVIOUS
  <2>7. x1 \in Seq(Byte) /\ Len(x1) = l - g /\ \A i \in 1 .. (l - g) : x1[i] = v[g + i]
    <3>1. v \in Seq(Byte) /\ l = Len(v) /\ g <= l
      BY <1>5, <2>1
    <3>2. /\ SubSeq(v, g + 1, l) \in Seq(Byte) /\ Len(SubSeq(v, g + 1, l)) = l - g
          /\ \A i \in 1 .. (l - g) : SubSeq(v, g + 1, l)[i] = v[g + i]
      BY <3>1, PartOf, SMTT(30)
    <3>. QED  BY <2>6, <3>2, Zenon
  <2>8. /\ y1 \in Seq(Byte) /\ Len(y1) = (n + m) - d
        /\ \A i \in 1 .. ((n + m) - d) : y1[i] = t[d + i]
    <3>1. n + m \in Nat /\ n + m = Len(t) /\ d <= n + m
      BY <1>1, <2>1
    <3>2. /\ SubSeq(t, d + 1, n + m) \in Seq(Byte) /\ Len(SubSeq(t, d + 1, n + m)) = (n + m) - d
          /\ \A i \in 1 .. ((n + m) - d) : SubSeq(t, d + 1, n + m)[i] = t[d + i]
      BY <3>1, PartOf
    <3>. QED  BY <2>6, <3>2, Zenon
  <2>9. (n + m) - d = l - g
    BY <1>4, <2>1
  <2>10. ASSUME NEW i \in 1 .. (l - g) PROVE x1[i] = y1[i]
    <3>1. g + i \in 1 .. l /\ b + (g + i) = d + i
      BY <2>1
    <3>2. v[g + i] = t[d + i]
      BY <1>5, <3>1
    <3>. QED  BY <2>7, <2>8, <2>9, <3>2
  <2>11. Len(x1) = Len(y1) /\ \A i \in 1 .. Len(x1) : x1[i] = y1[i]
    BY <2>7, <2>8, <2>9, <2>10
  <2>12. x1 = y1
    BY <2>7, <2>8, <2>11, SeqEqual
  <2>13. SubSeq(v, e, Len(v)) = SubSeq(t, d + 1, Len(t))
    BY <1>1, <1>5, <2>1, <2>6, <2>12
  <2>. QED  BY <2>2, <2>5, <2>13
<1>17. v = SubSeq(s, c, Len(s)) \o u
  BY <1>1, <1>3, <1>5, Zenon
<1>18. \A e \in 1 .. (Len(v) + 1) :
          IsCut(v, e) =>
             \E d \in 1 .. (Len(s \o u) + 1) :
                IsCut(s \o u, d) /\ SubSeq(v, e, Len(v)) = SubSeq(s \o u, d, Len(s \o u))
  <2>1. Len(v) = l /\ t = s \o u
    BY <1>1, <1>5
  <2>. QED  BY <1>16, <2>1, Zenon
<1>19. Visible(s \o u) = Visible(s) \o Visible(v)
  BY <1>1, <1>15, Zenon
<1>. QED  BY <1>17, <1>18, <1>19, Zenon DEF Grows

-----------------------------------------------------------------------------
(* A sequence with each element replaced by a sequence.                    *)

Maps(F, T, S) == F \in [T -> Seq(S)]
Parts(F, s)  == [i \in DOMAIN s |-> F[s[i]]]
Spread(F, s) == FlattenSeq(Parts(F, s))

\* The replaced elements, in order.
LEMMA SpreadParts ==
    ASSUME NEW T, NEW S, NEW F, Maps(F, T, S), NEW s \in Seq(T)
    PROVE  /\ Parts(F, s) \in Seq(Seq(S)) /\ Len(Parts(F, s)) = Len(s)
           /\ \A i \in 1 .. Len(s) : Parts(F, s)[i] = F[s[i]]
<1>1. Len(s) \in Nat /\ DOMAIN s = 1 .. Len(s) /\ \A i \in 1 .. Len(s) : s[i] \in T
  BY LenProperties, ElementOfSeq
<1>2. PICK n \in Nat : n = Len(s)
  BY <1>1
<1>3. PICK a : a = [i \in 1 .. n |-> F[s[i]]]
  OBVIOUS
<1>4. a \in [1 .. n -> Seq(S)] /\ \A i \in 1 .. n : a[i] = F[s[i]]
  BY <1>1, <1>2, <1>3 DEF Maps
<1>5. a \in Seq(Seq(S)) /\ Len(a) = n
  <2>1. a \in UNION {[1 .. m -> Seq(S)] : m \in Nat}
    BY <1>4, Zenon
  <2>2. a \in Seq(Seq(S))
    BY <2>1, SeqDef
  <2>3. DOMAIN a = 1 .. n /\ DOMAIN a = 1 .. Len(a) /\ Len(a) \in Nat
    BY <1>4, <2>2, LenProperties
  <2>. QED  BY <2>2, <2>3
<1>6. Parts(F, s) = a
  BY <1>1, <1>2, <1>3 DEF Parts
<1>. QED  BY <1>2, <1>4, <1>5, <1>6, Zenon

\* Nothing, one element, and what two sequences joined become.
LEMMA SpreadFacts ==
    ASSUME NEW T, NEW S, NEW F, Maps(F, T, S)
    PROVE  /\ Spread(F, <<>>) = <<>>
           /\ \A x \in T : Spread(F, <<x>>) = F[x]
           /\ \A s \in Seq(T) : Spread(F, s) \in Seq(S)
           /\ \A s, t \in Seq(T) : Spread(F, s \o t) = Spread(F, s) \o Spread(F, t)
<1>0. <<>> \in Seq(S) /\ <<>> \in Seq(T) /\ <<>> \in Seq(Seq(S)) /\ Len(<<>>) = 0
  BY EmptySeq
<1>1. FlattenSeq(<<>>) = <<>>
  BY <1>0, FlattenAppend
<1>2. Spread(F, <<>>) = <<>>
  <2>1. PICK a \in Seq(Seq(S)) : Spread(F, <<>>) = FlattenSeq(a) /\ Len(a) = Len(<<>>)
    <3>1. PICK s \in Seq(T) : s = <<>>
      BY <1>0
    <3>2. Parts(F, s) \in Seq(Seq(S)) /\ Len(Parts(F, s)) = Len(s)
      BY SpreadParts
    <3>. QED  BY <3>1, <3>2, Zenon DEF Spread
  <2>2. a = <<>>
    BY <1>0, <2>1, EmptySeq
  <2>. QED  BY <1>1, <2>1, <2>2
<1>3. ASSUME NEW x \in T PROVE Spread(F, <<x>>) = F[x]
  <2>1. <<x>> \in Seq(T) /\ Len(<<x>>) = 1 /\ <<x>>[1] = x /\ F[x] \in Seq(S)
    BY DEF Maps
  <2>2. PICK a \in Seq(Seq(S)) : /\ Spread(F, <<x>>) = FlattenSeq(a) /\ Len(a) = Len(<<x>>)
                                 /\ \A i \in 1 .. Len(<<x>>) : a[i] = F[<<x>>[i]]
    <3>1. PICK s \in Seq(T) : s = <<x>>
      BY <2>1
    <3>2. /\ Parts(F, s) \in Seq(Seq(S)) /\ Len(Parts(F, s)) = Len(s)
          /\ \A i \in 1 .. Len(s) : Parts(F, s)[i] = F[s[i]]
      BY SpreadParts
    <3>. QED  BY <3>1, <3>2, Zenon DEF Spread
  <2>3. PICK b : b = Append(<<>>, F[x])
    OBVIOUS
  <2>4. b \in Seq(Seq(S)) /\ Len(b) = 1 /\ b[1] = F[x]
    BY <1>0, <2>1, <2>3
  <2>5. Len(a) = 1 /\ a[1] = F[x]
    BY <2>1, <2>2
  <2>6. a = b
    <3>1. Len(a) = Len(b) /\ \A i \in 1 .. Len(a) : a[i] = b[i]
      BY <2>4, <2>5
    <3>. QED  BY <2>4, <3>1, SeqEqual
  <2>7. FlattenSeq(Append(<<>>, F[x])) = <<>> \o F[x]
    BY <1>0, <1>1, <2>1, FlattenAppend
  <2>8. <<>> \o F[x] = F[x]
    BY <2>1, ConcatEmptySeq
  <2>. QED  BY <2>2, <2>3, <2>6, <2>7, <2>8
<1>4. ASSUME NEW s \in Seq(T) PROVE Spread(F, s) \in Seq(S)
  <2>1. Parts(F, s) \in Seq(Seq(S))
    BY SpreadParts
  <2>. QED  BY <1>0, <2>1, FlattenAppend DEF Spread
<1>5. ASSUME NEW s \in Seq(T), NEW t \in Seq(T)
      PROVE  Spread(F, s \o t) = Spread(F, s) \o Spread(F, t)
  <2>1. PICK n \in Nat, m \in Nat : n = Len(s) /\ m = Len(t)
    BY LenProperties
  <2>2. PICK u \in Seq(T) : /\ u = s \o t /\ Len(u) = n + m
                            /\ \A i \in 1 .. n : u[i] = s[i]
                            /\ \A i \in 1 .. m : u[n + i] = t[i]
    <3>1. /\ s \o t \in Seq(T) /\ Len(s \o t) = n + m
          /\ \A i \in 1 .. n : (s \o t)[i] = s[i]
          /\ \A i \in 1 .. m : (s \o t)[n + i] = t[i]
      BY <2>1, JoinOf
    <3>. QED  BY <3>1, Zenon
  <2>3. PICK a \in Seq(Seq(S)) : /\ Spread(F, s) = FlattenSeq(a) /\ Len(a) = n
                                 /\ \A i \in 1 .. n : a[i] = F[s[i]]
    <3>1. /\ Parts(F, s) \in Seq(Seq(S)) /\ Len(Parts(F, s)) = Len(s)
          /\ \A i \in 1 .. Len(s) : Parts(F, s)[i] = F[s[i]]
      BY SpreadParts
    <3>. QED  BY <2>1, <3>1, Zenon DEF Spread
  <2>4. PICK b \in Seq(Seq(S)) : /\ Spread(F, t) = FlattenSeq(b) /\ Len(b) = m
                                 /\ \A i \in 1 .. m : b[i] = F[t[i]]
    <3>1. /\ Parts(F, t) \in Seq(Seq(S)) /\ Len(Parts(F, t)) = Len(t)
          /\ \A i \in 1 .. Len(t) : Parts(F, t)[i] = F[t[i]]
      BY SpreadParts
    <3>. QED  BY <2>1, <3>1, Zenon DEF Spread
  <2>5. PICK e \in Seq(Seq(S)) : /\ Spread(F, u) = FlattenSeq(e) /\ Len(e) = n + m
                                 /\ \A i \in 1 .. (n + m) : e[i] = F[u[i]]
    <3>1. /\ Parts(F, u) \in Seq(Seq(S)) /\ Len(Parts(F, u)) = Len(u)
          /\ \A i \in 1 .. Len(u) : Parts(F, u)[i] = F[u[i]]
      BY SpreadParts
    <3>. QED  BY <2>2, <3>1, ZenonT(30) DEF Spread
  <2>6. PICK g \in Seq(Seq(S)) : /\ g = a \o b /\ Len(g) = n + m
                                 /\ \A i \in 1 .. n : g[i] = a[i]
                                 /\ \A i \in 1 .. m : g[n + i] = b[i]
    <3>1. n = Len(a) /\ m = Len(b)
      BY <2>3, <2>4
    <3>2. /\ a \o b \in Seq(Seq(S)) /\ Len(a \o b) = n + m
          /\ \A i \in 1 .. n : (a \o b)[i] = a[i]
          /\ \A i \in 1 .. m : (a \o b)[n + i] = b[i]
      BY <3>1, JoinOf
    <3>. QED  BY <3>2, Zenon
  <2>7. ASSUME NEW i \in 1 .. (n + m) PROVE e[i] = g[i]
    <3>1. CASE i <= n
      <4>1. i \in 1 .. n
        BY <3>1
      <4>2. u[i] = s[i] /\ g[i] = a[i] /\ a[i] = F[s[i]] /\ e[i] = F[u[i]]
        BY <2>2, <2>3, <2>5, <2>6, <4>1
      <4>. QED  BY <4>2
    <3>2. CASE ~(i <= n)
      <4>1. PICK k \in 1 .. m : i = n + k
        <5>1. i - n \in 1 .. m /\ i = n + (i - n)
          BY <3>2
        <5>. QED  BY <5>1
      <4>2. u[i] = t[k] /\ g[i] = b[k]
        BY <2>2, <2>6, <4>1
      <4>. QED  BY <2>4, <2>5, <4>1, <4>2
    <3>. QED  BY <3>1, <3>2
  <2>8. e = g
    <3>1. Len(e) = Len(g) /\ \A i \in 1 .. Len(e) : e[i] = g[i]
      BY <2>5, <2>6, <2>7
    <3>. QED  BY <3>1, SeqEqual
  <2>9. FlattenSeq(a \o b) = FlattenSeq(a) \o FlattenSeq(b)
    BY FlattenConcat
  <2>10. Spread(F, u) = FlattenSeq(a \o b)
    BY <2>5, <2>6, <2>8, Zenon
  <2>. QED  BY <2>2, <2>3, <2>4, <2>9, <2>10, Zenon
<1>. QED  BY <1>2, <1>3, <1>4, <1>5

-----------------------------------------------------------------------------
(* What a response is made of.                                             *)

Kinds       == {"header", "open", "body", "chunk", "finish", "done"}
ItemType    == [req : Requests, kind : Kinds, text : Seq(Chars)]
ItemOf(r)   == [req : {r}, kind : Kinds, text : Seq(Chars)]

\* The functors of the loop.
WriteFunctor == {f \in [op : {"WriteInLoop"}, req : Requests, item : ItemType] :
                    f.item.req = f.req}
OtherFunctor == [op : {"EndInLoop"}, req : Requests] \cup [op : {"connectDestroyed"}, conn : Conns]
FunctorType  == WriteFunctor \cup OtherFunctor

\* The text of an item; an item if it is of r; the item a functor will write of r.
TextOf  == [x \in ItemType |-> x.text]
Mine(r) == [x \in ItemType |-> IF x.req = r THEN <<x>> ELSE <<>>]
Due(r)  == [f \in FunctorType |-> IF f.op = "WriteInLoop" /\ f.req = r THEN <<f.item>> ELSE <<>>]

\* The types of the requests, of the functors and of what is sent.
AnswerType ==
    /\ told \in [Requests -> Seq(ItemType)] /\ mail \in [Requests -> Seq(ItemType)]
    /\ \A r \in Requests : mail[r] \in Seq(ItemOf(r))
    /\ pending_bytes \in [Requests -> Seq(Byte)]
    /\ header_sent \in [Requests -> BOOLEAN] /\ closed \in [Requests -> BOOLEAN]
QueueType == batch \in Seq(FunctorType) /\ pending \in Seq(FunctorType)
WireType  == wire \in [Conns -> Seq(ItemType)] /\ out \in [Conns -> Seq(ItemType)]

\* The items the program makes.
LEMMA ItemFacts ==
    ASSUME NEW r \in Requests
    PROVE  /\ ItemOf(r) \subseteq ItemType /\ \A x \in ItemOf(r) : x.req = r
           /\ \A x \in {Header(r), Open(r), Body(r), Finish(r), Done(r)} :
                 x \in ItemOf(r) /\ x.text = <<>>
           /\ \A u \in Seq(Chars) : /\ Item(r, "chunk", u) \in ItemOf(r)
                                    /\ Item(r, "chunk", u).text = u
           /\ Header(r) # Done(r) /\ Open(r) # Done(r) /\ Body(r) # Done(r)
           /\ \A u : Item(r, "chunk", u) # Done(r)
<1>1. ItemOf(r) \subseteq ItemType /\ \A x \in ItemOf(r) : x.req = r
  BY DEF ItemOf, ItemType
<1>2. <<>> \in Seq(Chars)
  OBVIOUS
<1>3. ASSUME NEW k \in Kinds, NEW u \in Seq(Chars)
      PROVE  Item(r, k, u) \in ItemOf(r) /\ Item(r, k, u).text = u /\ Item(r, k, u).kind = k
  BY DEF Item, ItemOf
<1>4. ASSUME NEW k, NEW u PROVE Item(r, k, u).kind = k
  BY DEF Item
<1>5. \A x \in {Header(r), Open(r), Body(r), Finish(r), Done(r)} : x \in ItemOf(r) /\ x.text = <<>>
  <2>1. \A k \in Kinds : Item(r, k, <<>>) \in ItemOf(r) /\ Item(r, k, <<>>).text = <<>>
    BY <1>2, <1>3
  <2>2. {"header", "open", "body", "finish", "done"} \subseteq Kinds
    BY DEF Kinds
  <2>3. /\ Header(r) = Item(r, "header", <<>>) /\ Open(r) = Item(r, "open", <<>>)
        /\ Body(r) = Item(r, "body", <<>>) /\ Finish(r) = Item(r, "finish", <<>>)
        /\ Done(r) = Item(r, "done", <<>>)
    BY Zenon DEF Header, Open, Body, Finish, Done
  <2>. QED  BY <2>1, <2>2, <2>3
<1>6. \A u \in Seq(Chars) : Item(r, "chunk", u) \in ItemOf(r) /\ Item(r, "chunk", u).text = u
  BY <1>3 DEF Kinds
<1>7. /\ Header(r).kind = "header" /\ Open(r).kind = "open" /\ Body(r).kind = "body"
      /\ Done(r).kind = "done" /\ \A u : Item(r, "chunk", u).kind = "chunk"
  BY <1>4 DEF Header, Open, Body, Done
<1>8. "header" # "done" /\ "open" # "done" /\ "body" # "done" /\ "chunk" # "done"
  OBVIOUS
<1>9. Header(r) # Done(r) /\ Open(r) # Done(r) /\ Body(r) # Done(r)
  BY <1>7, <1>8, Zenon
<1>10. \A u : Item(r, "chunk", u) # Done(r)
  BY <1>7, <1>8, Zenon
<1>. QED  BY <1>1, <1>5, <1>6, <1>9, <1>10

\* The functors it makes.
LEMMA FunctorFacts ==
    ASSUME NEW r \in Requests
    PROVE  /\ \A f \in FunctorType : f.op = "WriteInLoop" <=> f \in WriteFunctor
           /\ \A f \in WriteFunctor : f.req \in Requests /\ f.item \in ItemType /\ f.item.req = f.req
           /\ \A x \in ItemOf(r) : [op |-> "WriteInLoop", req |-> r, item |-> x] \in WriteFunctor
           /\ [op |-> "EndInLoop", req |-> r] \in OtherFunctor
           /\ \A c \in Conns : [op |-> "connectDestroyed", conn |-> c] \in OtherFunctor
<1>1. \A f \in WriteFunctor : f.op = "WriteInLoop"
  BY DEF WriteFunctor
<1>2. \A f \in OtherFunctor : f.op # "WriteInLoop"
  BY DEF OtherFunctor
<1>3. \A f \in FunctorType : f.op = "WriteInLoop" <=> f \in WriteFunctor
  BY <1>1, <1>2 DEF FunctorType
<1>4. \A f \in WriteFunctor : f.req \in Requests /\ f.item \in ItemType /\ f.item.req = f.req
  BY DEF WriteFunctor
<1>5. ASSUME NEW x \in ItemOf(r)
      PROVE  [op |-> "WriteInLoop", req |-> r, item |-> x] \in WriteFunctor
  <2>1. x \in ItemType /\ x.req = r
    BY ItemFacts
  <2>. QED  BY <2>1 DEF WriteFunctor
<1>6. /\ [op |-> "EndInLoop", req |-> r] \in OtherFunctor
      /\ \A c \in Conns : [op |-> "connectDestroyed", conn |-> c] \in OtherFunctor
  BY DEF OtherFunctor
<1>. QED  BY <1>3, <1>4, <1>5, <1>6

\* The maps.
LEMMA MapFacts ==
    ASSUME NEW r \in Requests
    PROVE  /\ Maps(TextOf, ItemType, Chars) /\ \A x \in ItemType : TextOf[x] = x.text
           /\ Maps(Mine(r), ItemType, ItemType)
           /\ \A x \in ItemType : Mine(r)[x] = IF x.req = r THEN <<x>> ELSE <<>>
           /\ Maps(Due(r), FunctorType, ItemType)
           /\ \A f \in WriteFunctor : Due(r)[f] = IF f.req = r THEN <<f.item>> ELSE <<>>
           /\ \A f \in OtherFunctor : Due(r)[f] = <<>>
<1>1. Maps(TextOf, ItemType, Chars) /\ \A x \in ItemType : TextOf[x] = x.text
  BY DEF Maps, TextOf, ItemType
<1>2. \A x \in ItemType : <<x>> \in Seq(ItemType) /\ <<>> \in Seq(ItemType)
  OBVIOUS
<1>3. /\ Maps(Mine(r), ItemType, ItemType)
      /\ \A x \in ItemType : Mine(r)[x] = IF x.req = r THEN <<x>> ELSE <<>>
  BY <1>2 DEF Maps, Mine
<1>4. \A f \in FunctorType : Due(r)[f] = IF f.op = "WriteInLoop" /\ f.req = r THEN <<f.item>> ELSE <<>>
  BY DEF Due
<1>5. ASSUME NEW f \in WriteFunctor PROVE Due(r)[f] = IF f.req = r THEN <<f.item>> ELSE <<>>
  <2>1. f \in FunctorType /\ f.op = "WriteInLoop"
    BY FunctorFacts DEF FunctorType
  <2>. QED  BY <1>4, <2>1
<1>6. ASSUME NEW f \in OtherFunctor PROVE Due(r)[f] = <<>>
  <2>1. f \in FunctorType /\ f.op # "WriteInLoop"
    BY DEF FunctorType, OtherFunctor
  <2>. QED  BY <1>4, <2>1
<1>7. Maps(Due(r), FunctorType, ItemType)
  <2>1. ASSUME NEW f \in FunctorType PROVE Due(r)[f] \in Seq(ItemType)
    <3>1. CASE f \in WriteFunctor
      <4>1. f.item \in ItemType
        BY <3>1, FunctorFacts
      <4>2. <<f.item>> \in Seq(ItemType) /\ <<>> \in Seq(ItemType)
        BY <4>1
      <4>. QED  BY <1>5, <3>1, <4>2
    <3>2. CASE f \in OtherFunctor
      <4>1. <<>> \in Seq(ItemType)
        OBVIOUS
      <4>. QED  BY <1>6, <3>2, <4>1
    <3>. QED  BY <3>1, <3>2 DEF FunctorType
  <2>2. Due(r) = [f \in FunctorType |-> Due(r)[f]]
    BY DEF Due
  <2>. QED  BY <2>1, <2>2 DEF Maps
<1>. QED  BY <1>1, <1>3, <1>5, <1>6, <1>7

\* The properties' own operators, said with the maps.
LEMMA SpreadIs ==
    ASSUME NEW r \in Requests, NEW s \in Seq(ItemType)
    PROVE  /\ FlattenSeq([p \in DOMAIN s |-> s[p].text]) = Spread(TextOf, s)
           /\ ItemsOf(s, r) = Spread(Mine(r), s)
<1>1. DOMAIN s = 1 .. Len(s) /\ \A p \in DOMAIN s : s[p] \in ItemType
  BY LenProperties, ElementOfSeq
<1>2. \A p \in DOMAIN s : TextOf[s[p]] = s[p].text
  BY <1>1, MapFacts
<1>3. \A p \in DOMAIN s : Mine(r)[s[p]] = IF s[p].req = r THEN <<s[p]>> ELSE <<>>
  BY <1>1, MapFacts
<1>4. [p \in DOMAIN s |-> s[p].text] = Parts(TextOf, s)
  BY <1>2, Zenon DEF Parts
<1>5. [i \in DOMAIN s |-> IF s[i].req = r THEN <<s[i]>> ELSE <<>>] = Parts(Mine(r), s)
  BY <1>3, Zenon DEF Parts
<1>. QED  BY <1>4, <1>5, Zenon DEF Spread, ItemsOf

-----------------------------------------------------------------------------
(* What a step does to the responses.                                      *)

\* A worker goes on to q with the events m left to write.
Goes(r, q, m) == pc' = [pc EXCEPT ![r] = q] /\ mail' = [mail EXCEPT ![r] = m]

\* The first event of its mail is dealt with.
Takes(r) ==
    /\ Goes(r, IF Len(mail[r]) > 1 THEN "check" ELSE IF Emitted(r) THEN "close" ELSE "run",
            Tail(mail[r]))
    /\ UNCHANGED <<closed, pending>>
    /\ \/ pc[r] = "check" /\ closed[r]
       \/ pc[r] = "wake"
       \/ pc[r] = "dead"
       \/ pc[r] = "endwake" /\ mail[r] # <<>>

\* The session is closed.
Ends(r) ==
    /\ Goes(r, "endwake", mail[r])
    /\ closed' = [closed EXCEPT ![r] = TRUE]
    /\ pending' = Append(pending, [op |-> "EndInLoop", req |-> r])
    /\ (pc[r] = "check" /\ ~connected(ConnOf(r))) \/ pc[r] = "dead" \/ pc[r] = "close"

\* An event is queued.
Queues(r) ==
    /\ Goes(r, "wake", mail[r])
    /\ UNCHANGED closed
    /\ pending' = Append(pending, [op |-> "WriteInLoop", req |-> r, item |-> Head(mail[r])])
    /\ pc[r] = "push"

\* The worker looks, or is done.
Looks(r) ==
    /\ UNCHANGED <<closed, pending>>
    /\ \/ Goes(r, "push", mail[r]) /\ pc[r] = "check"
       \/ Goes(r, "dead", mail[r]) /\ pc[r] = "wake" /\ ~connected(ConnOf(r))
       \/ /\ Goes(r, "ended", mail[r])
          /\ \/ pc[r] = "close" /\ closed[r]
             \/ pc[r] = "endwake" /\ mail[r] = <<>>
             \/ pc[r] = "run" /\ Kind[r] = "plain"

Advances(r) ==
    /\ UNCHANGED <<told, at, pending_bytes, header_sent>>
    /\ Takes(r) \/ Ends(r) \/ Queues(r) \/ Looks(r)

\* A worker emits, or advances.
LEMMA WorkerSteps ==
    ASSUME AnswerType, NEW r \in Requests, WorkerStep(r)
    PROVE  \/ \E k \in 1 .. (Len(Text[r]) - at[r]) : Delta(r, k)
           \/ EmitFinish(r)
           \/ Advances(r)
<1>0. [mail EXCEPT ![r] = mail[r]] = mail
  BY DEF AnswerType
<1>1. ASSUME Closes(r), (pc[r] = "check" /\ ~connected(ConnOf(r))) \/ pc[r] = "dead" \/ pc[r] = "close"
      PROVE  Advances(r)
  BY <1>0, <1>1 DEF Closes, queueInLoop, Advances, Ends, Goes
<1>2. CASE WriteDead(r)
  BY <1>2 DEF WriteDead, AfterMail, Advances, Takes, Goes, loopVars
<1>3. CASE WriteFinds(r)
  BY <1>1, <1>3 DEF WriteFinds
<1>4. CASE WriteChecks(r)
  BY <1>0, <1>4 DEF WriteChecks, Advances, Looks, Goes, loopVars
<1>5. CASE WriteQueues(r)
  BY <1>0, <1>5 DEF WriteQueues, queueInLoop, Advances, Queues, Goes
<1>6. ASSUME Wakes(r) PROVE UNCHANGED <<told, at, pending_bytes, header_sent, closed, pending>>
  BY <1>6 DEF Wakes
<1>7. CASE WriteWakes(r)
  <2>1. Wakes(r) /\ pc[r] = "wake"
    BY <1>7 DEF WriteWakes
  <2>2. CASE closed[r] \/ connected(ConnOf(r))
    BY <1>6, <1>7, <2>1, <2>2 DEF WriteWakes, AfterMail, Advances, Takes, Goes
  <2>3. CASE ~(closed[r] \/ connected(ConnOf(r)))
    BY <1>0, <1>6, <1>7, <2>1, <2>3 DEF WriteWakes, Advances, Looks, Goes
  <2>. QED  BY <2>2, <2>3
<1>8. CASE WriteFindsAfter(r)
  <2>1. CASE closed[r]
    BY <1>8, <2>1 DEF WriteFindsAfter, AfterMail, Advances, Takes, Goes, loopVars
  <2>2. CASE ~closed[r]
    BY <1>1, <1>8, <2>2 DEF WriteFindsAfter
  <2>. QED  BY <2>1, <2>2
<1>9. CASE OnFinish(r)
  <2>1. CASE Closes(r)
    BY <1>1, <1>9, <2>1 DEF OnFinish
  <2>2. CASE ~Closes(r)
    BY <1>0, <1>9, <2>2 DEF OnFinish, Advances, Looks, Goes, loopVars
  <2>. QED  BY <2>1, <2>2
<1>10. CASE EndWakes(r)
  <2>1. Wakes(r) /\ pc[r] = "endwake"
    BY <1>10 DEF EndWakes
  <2>2. CASE mail[r] # <<>>
    BY <1>6, <1>10, <2>1, <2>2 DEF EndWakes, AfterMail, Advances, Takes, Goes
  <2>3. CASE mail[r] = <<>>
    BY <1>0, <1>6, <1>10, <2>1, <2>3 DEF EndWakes, Advances, Looks, Goes
  <2>. QED  BY <2>2, <2>3
<1>11. CASE RunPlain(r)
  BY <1>0, <1>11 DEF RunPlain, Advances, Looks, Goes, loopVars
<1>. QED
  BY <1>2, <1>3, <1>4, <1>5, <1>7, <1>8, <1>9, <1>10, <1>11 DEF WorkerStep

\* The loop's thread writes a response from its start: a whole answer, after which
\* the write side is shut, or the start of a stream.
Responds(c, r, items, q) ==
    /\ send(c, IF header_sent[r] THEN items ELSE <<Header(r)>> \o items)
    /\ header_sent' = [header_sent EXCEPT ![r] = @ \/ connected(c)]
    /\ told' = [told EXCEPT ![r] = <<Header(r)>> \o items]
    /\ pc' = [pc EXCEPT ![r] = q]
    /\ \/ /\ q = "run" /\ Kind[r] = "stream" /\ items = <<Open(r)>>
          /\ UNCHANGED <<state, closed>>
       \/ /\ q = "ended" /\ shutdown(c)
          /\ \/ items = <<Body(r)>> /\ UNCHANGED closed
             \/ /\ items = <<Open(r), Finish(r), Done(r)>>
                /\ closed' = [closed EXCEPT ![r] = TRUE]
    /\ UNCHANGED <<mail, at, pending_bytes, batch, pending, peer>>

\* A non-stream request is left to its worker.
Leaves(r) ==
    /\ Kind[r] = "plain" /\ pc' = [pc EXCEPT ![r] = "run"]
    /\ UNCHANGED <<state, out, wire, header_sent, closed, mail, at, pending_bytes, told, batch,
                   pending, peer>>

\* A request that comes in.
LEMMA HandleSteps ==
    ASSUME InputInv, OnceInv, NEW c \in Conns, HandleRequest(c)
    PROVE  \E r \in Requests :
              /\ ConnOf(r) = c /\ pc[r] = "none" /\ <<c, "in">> \in active
              /\ context' \in {context, [context EXCEPT ![c] = r]}
              /\ waiting' \in {waiting, None} \/ (waiting' = r /\ Leaves(r))
              /\ Leaves(r) \/ \E items, q : Responds(c, r, items, q)
<1>0. PICK p \in Complete(c) : LET r == Input[c][p].req IN
         \/ HandleNow(c, p, r) \/ RefusePlain(c, p, r) \/ HandlePlain(c, p, r)
         \/ HandleStream(c, p, r) \/ RefuseStream(c, p, r)
  BY DEF HandleRequest
<1>1. PICK r : /\ r = Input[c][p].req
               /\ \/ HandleNow(c, p, r) \/ RefusePlain(c, p, r) \/ HandlePlain(c, p, r)
                  \/ HandleStream(c, p, r) \/ RefuseStream(c, p, r)
  BY <1>0
<1>2. HandlesRequest(c, p, r)
  BY <1>1 DEF HandleNow, RefusePlain, HandlePlain, HandleStream, RefuseStream
<1>3. <<c, "in">> \in active /\ UNCHANGED <<batch, pending, peer>>
  BY <1>2 DEF HandlesRequest, OnMessage, handleEvent
<1>4. r \in Requests /\ ConnOf(r) = c /\ pc[r] = "none"
  BY <1>1, CompleteFacts, ConnOfInput DEF OnceInv
<1>5. /\ context' \in {context, [context EXCEPT ![c] = r]}
      /\ waiting' \in {waiting, None} \/ (waiting' = r /\ HandlePlain(c, p, r))
  BY <1>1 DEF HandleNow, RefusePlain, HandlePlain, HandleStream, RefuseStream
<1>6. /\ <<Header(r), Body(r)>> = <<Header(r)>> \o <<Body(r)>>
      /\ <<Header(r), Open(r)>> = <<Header(r)>> \o <<Open(r)>>
      /\ <<Header(r), Open(r), Finish(r), Done(r)>>
           = <<Header(r)>> \o <<Open(r), Finish(r), Done(r)>>
  OBVIOUS
<1>7. CASE HandleNow(c, p, r) \/ RefusePlain(c, p, r)
  <2>1. Answer(r)
    BY <1>7 DEF HandleNow, RefusePlain
  <2>2. /\ send(c, IF header_sent[r] THEN <<Body(r)>> ELSE <<Header(r)>> \o <<Body(r)>>)
        /\ header_sent' = [header_sent EXCEPT ![r] = @ \/ connected(c)]
        /\ shutdown(c)
    BY <1>4, <2>1, Zenon DEF Answer, WriteInLoop
  <2>3. told' = [told EXCEPT ![r] = <<Header(r)>> \o <<Body(r)>>]
    BY <1>6, <2>1, Zenon DEF Answer
  <2>4. pc' = [pc EXCEPT ![r] = "ended"] /\ UNCHANGED <<closed, mail, at, pending_bytes>>
    BY <1>7 DEF HandleNow, RefusePlain
  <2>5. Responds(c, r, <<Body(r)>>, "ended")
    BY <1>3, <2>2, <2>3, <2>4, Zenon DEF Responds
  <2>6. waiting' \in {waiting, None}
    BY <1>7 DEF HandleNow, RefusePlain
  <2>. QED  BY <1>3, <1>4, <1>5, <2>5, <2>6, Zenon
<1>8. CASE HandlePlain(c, p, r)
  <2>1. Leaves(r)
    BY <1>3, <1>8 DEF HandlePlain, Leaves
  <2>2. waiting' \in {waiting, None} \/ (waiting' = r /\ Leaves(r))
    BY <1>5, <2>1
  <2>. QED  BY <1>3, <1>4, <1>5, <2>1, <2>2, Zenon
<1>9. CASE HandleStream(c, p, r)
  <2>1. /\ WriteInLoop(r, <<Open(r)>>) /\ told' = [told EXCEPT ![r] = <<Header(r), Open(r)>>]
        /\ pc' = [pc EXCEPT ![r] = "run"] /\ Kind[r] = "stream"
        /\ UNCHANGED <<state, closed, mail, at, pending_bytes, waiting>>
    BY <1>9 DEF HandleStream
  <2>2. /\ send(c, IF header_sent[r] THEN <<Open(r)>> ELSE <<Header(r)>> \o <<Open(r)>>)
        /\ header_sent' = [header_sent EXCEPT ![r] = @ \/ connected(c)]
    BY <1>4, <2>1, Zenon DEF WriteInLoop
  <2>3. told' = [told EXCEPT ![r] = <<Header(r)>> \o <<Open(r)>>]
    BY <1>6, <2>1, Zenon
  <2>4. Responds(c, r, <<Open(r)>>, "run")
    BY <1>3, <2>1, <2>2, <2>3, Zenon DEF Responds
  <2>. QED  BY <1>3, <1>4, <1>5, <2>1, <2>4, Zenon
<1>10. CASE RefuseStream(c, p, r)
  <2>1. /\ WriteInLoop(r, <<Open(r), Finish(r), Done(r)>>)
        /\ told' = [told EXCEPT ![r] = <<Header(r), Open(r), Finish(r), Done(r)>>]
        /\ pc' = [pc EXCEPT ![r] = "ended"] /\ shutdown(c)
        /\ closed' = [closed EXCEPT ![r] = TRUE]
        /\ UNCHANGED <<mail, at, pending_bytes, waiting>>
    BY <1>10 DEF RefuseStream
  <2>. DEFINE items == <<Open(r), Finish(r), Done(r)>>
  <2>2. /\ send(c, IF header_sent[r] THEN items ELSE <<Header(r)>> \o items)
        /\ header_sent' = [header_sent EXCEPT ![r] = @ \/ connected(c)]
    BY <1>4, <2>1, Zenon DEF WriteInLoop
  <2>3. told' = [told EXCEPT ![r] = <<Header(r)>> \o items]
    BY <1>6, <2>1, Zenon
  <2>4. Responds(c, r, items, "ended")
    BY <1>3, <2>1, <2>2, <2>3, Zenon DEF Responds
  <2>. QED  BY <1>3, <1>4, <1>5, <2>1, <2>4, Zenon
<1>. QED  BY <1>1, <1>7, <1>8, <1>9, <1>10

\* A non-stream request that is answered by the handler that waited for it.
LEMMA ResumeSteps ==
    ASSUME WorkType, NEW r \in Requests, ResumePlain(r)
    PROVE  /\ waiting = r /\ waiting' = None /\ pc[r] = "ended" /\ UNCHANGED context
           /\ Responds(ConnOf(r), r, <<Body(r)>>, "ended")
<1>1. /\ waiting = r /\ waiting' = None /\ pc[r] = "ended" /\ Answer(r)
      /\ UNCHANGED <<context, closed, mail, at, pending_bytes, batch, pending, peer, pc>>
  BY DEF ResumePlain, loopVars
<1>2. PICK c : c = ConnOf(r)
  OBVIOUS
<1>3. /\ send(c, IF header_sent[r] THEN <<Body(r)>> ELSE <<Header(r)>> \o <<Body(r)>>)
      /\ header_sent' = [header_sent EXCEPT ![r] = @ \/ connected(c)]
      /\ shutdown(c)
  BY <1>1, <1>2, Zenon DEF Answer, WriteInLoop
<1>4. <<Header(r), Body(r)>> = <<Header(r)>> \o <<Body(r)>>
  OBVIOUS
<1>5. told' = [told EXCEPT ![r] = <<Header(r)>> \o <<Body(r)>>]
  BY <1>1, <1>4, Zenon DEF Answer
<1>6. pc' = [pc EXCEPT ![r] = "ended"]
  BY <1>1 DEF WorkType
<1>7. Responds(c, r, <<Body(r)>>, "ended")
  BY <1>1, <1>3, <1>5, <1>6, Zenon DEF Responds
<1>. QED  BY <1>1, <1>2, <1>7

\* No request moves and none is given anything.
Quiet == UNCHANGED <<header_sent, pc, mail, at, pending_bytes, told, waiting, context>>

-----------------------------------------------------------------------------
(* What is sent, and the types.                                            *)

\* A sequence cut in two.
LEMMA CutInTwo ==
    ASSUME NEW S, NEW s \in Seq(S), NEW k \in 0 .. Len(s)
    PROVE  /\ SubSeq(s, 1, k) \in Seq(S) /\ SubSeq(s, k + 1, Len(s)) \in Seq(S)
           /\ SubSeq(s, 1, k) \o SubSeq(s, k + 1, Len(s)) = s
<1>1. PICK n \in Nat : n = Len(s)
  BY LenProperties
<1>2. k \in Nat /\ k <= n /\ k + 1 \in Int /\ n \in Int /\ k \in Int
  BY <1>1
<1>3. (\A i \in 1 .. k : s[i] \in S) /\ \A i \in (k + 1) .. n : s[i] \in S
  BY <1>1, <1>2, ElementOfSeq
<1>4. SubSeq(s, 1, k) \in Seq(S)
  BY <1>2, <1>3, SubSeqProperties
<1>5. SubSeq(s, k + 1, n) \in Seq(S)
  BY <1>2, <1>3, SubSeqProperties
<1>6. SubSeq(s, 1, k) \o SubSeq(s, k + 1, n) = SubSeq(s, 1, n)
  <2>1. 1 \in 1 .. (Len(s) + 1) /\ k \in (1 - 1) .. Len(s) /\ n \in k .. Len(s)
    BY <1>1, <1>2
  <2>. QED  BY <2>1, ConcatAdjacentSubSeq
<1>7. SubSeq(s, 1, n) = s
  BY <1>1, SubSeqFull
<1>. QED  BY <1>1, <1>4, <1>5, <1>6, <1>7

\* send, to a client that is there: everything, on the wire or waiting, in order.
LEMMA SendFacts ==
    ASSUME WireType, NEW c \in Conns, NEW items \in Seq(ItemType), send(c, items)
    PROVE  /\ WireType'
           /\ \A d \in Conns \ {c} : wire'[d] = wire[d] /\ out'[d] = out[d]
           /\ ~connected(c) => UNCHANGED <<wire, out>>
           /\ connected(c) /\ peer[c] # "closed"
                => wire'[c] \o out'[c] = (wire[c] \o out[c]) \o items
           /\ peer[c] = "closed" /\ wire[c] = <<>> => wire'[c] = <<>>
<1>0. wire[c] \in Seq(ItemType) /\ out[c] \in Seq(ItemType) /\ <<>> \in Seq(ItemType)
  BY DEF WireType
<1>4. \A a, b, d \in Seq(ItemType) : a \o (b \o d) = (a \o b) \o d
  BY ConcatTwice, SMTT(30)
<1>1. CASE ~connected(c)
  BY <1>1 DEF send, WireType
<1>2. CASE connected(c) /\ ~writing[c] /\ out[c] = <<>>
  <2>1. PICK k \in KernelWrite(c, items) :
           /\ wire' = [wire EXCEPT ![c] = @ \o Carried(c, items, k.took)]
           /\ out' = [out EXCEPT ![c] = Kept(c, items, k.took)]
    BY <1>2 DEF send, sendInLoop
  <2>2. IsSeq(items)
    BY DEF IsSeq
  <2>3. PICK n : n = k.took
    OBVIOUS
  <2>4. n \in 0 .. Len(items)
    BY <2>2, <2>3, KernelTakes
  <2>5. PICK x \in Seq(ItemType), y \in Seq(ItemType) :
           x = SubSeq(items, 1, n) /\ y = SubSeq(items, n + 1, Len(items)) /\ x \o y = items
    <3>1. /\ SubSeq(items, 1, n) \in Seq(ItemType)
          /\ SubSeq(items, n + 1, Len(items)) \in Seq(ItemType)
          /\ SubSeq(items, 1, n) \o SubSeq(items, n + 1, Len(items)) = items
      BY <2>4, CutInTwo
    <3>. QED  BY <3>1, Zenon
  <2>6. PICK g \in Seq(ItemType), h \in Seq(ItemType) :
           /\ g = Carried(c, items, n) /\ h = Kept(c, items, n)
           /\ peer[c] = "closed" => g = <<>>
           /\ peer[c] # "closed" => g \o h = items
    <3>1. CASE peer[c] = "closed"
      <4>1. Carried(c, items, n) = <<>> /\ Kept(c, items, n) = <<>>
        BY <3>1 DEF Carried, Kept
      <4>. QED  BY <1>0, <3>1, <4>1
    <3>2. CASE peer[c] # "closed"
      <4>1. Carried(c, items, n) = x /\ Kept(c, items, n) = y
        BY <2>5, <3>2 DEF Carried, Kept
      <4>. QED  BY <2>5, <3>2, <4>1
    <3>. QED  BY <3>1, <3>2
  <2>7. PICK w \in Seq(ItemType) : w = wire[c] \o g
    BY <1>0, ConcatProperties
  <2>8. wire' = [wire EXCEPT ![c] = w] /\ out' = [out EXCEPT ![c] = h]
    BY <2>1, <2>3, <2>6, <2>7, Zenon
  <2>9. /\ WireType' /\ wire'[c] = w /\ out'[c] = h
        /\ \A d \in Conns \ {c} : wire'[d] = wire[d] /\ out'[d] = out[d]
    BY <2>8 DEF WireType
  <2>10. ASSUME peer[c] # "closed" PROVE wire'[c] \o out'[c] = (wire[c] \o out[c]) \o items
    <3>3. g \in Seq(ItemType)
      OBVIOUS
    <3>4. h \in Seq(ItemType)
      OBVIOUS
    <3>5. wire[c] \in Seq(ItemType)
      BY <1>0
    <3>1. wire[c] \o (g \o h) = (wire[c] \o g) \o h
      BY <1>4, <3>3, <3>4, <3>5, ZenonT(30)
    <3>2. wire[c] \o out[c] = wire[c]
      BY <1>0, <1>2, ConcatEmptySeq
    <3>. QED  BY <2>6, <2>7, <2>9, <2>10, <3>1, <3>2, Zenon
  <2>11. ASSUME peer[c] = "closed", wire[c] = <<>> PROVE wire'[c] = <<>>
    <3>1. g = <<>> /\ <<>> \o <<>> = <<>>
      BY <1>0, <2>6, <2>11, ConcatEmptySeq
    <3>. QED  BY <2>7, <2>9, <2>11, <3>1, Zenon
  <2>. QED  BY <1>2, <2>9, <2>10, <2>11, Zenon
<1>3. CASE connected(c) /\ ~(~writing[c] /\ out[c] = <<>>)
  <2>1. out' = [out EXCEPT ![c] = @ \o items] /\ wire' = wire
    BY <1>3 DEF send, sendInLoop
  <2>2. PICK v \in Seq(ItemType) : v = out[c] \o items
    BY <1>0, ConcatProperties
  <2>3. out' = [out EXCEPT ![c] = v]
    BY <2>1, <2>2, Zenon
  <2>4. /\ WireType' /\ wire'[c] = wire[c] /\ out'[c] = v
        /\ \A d \in Conns \ {c} : wire'[d] = wire[d] /\ out'[d] = out[d]
    BY <2>1, <2>3 DEF WireType
  <2>5. (wire[c] \o out[c]) \o items = wire[c] \o (out[c] \o items)
    <3>1. PICK a \in Seq(ItemType), b \in Seq(ItemType) : a = wire[c] /\ b = out[c]
      BY <1>0
    <3>2. a \o (b \o items) = (a \o b) \o items
      BY ConcatTwice
    <3>. QED  BY <3>1, <3>2, Zenon
  <2>. QED  BY <1>3, <2>2, <2>4, <2>5, Zenon
<1>. QED  BY <1>1, <1>2, <1>3

\* handleWrite moves what waits to the wire, in order.
LEMMA DrainFacts ==
    ASSUME WireType, NEW c \in Conns, handleWrite(c)
    PROVE  /\ WireType'
           /\ \A d \in Conns \ {c} : wire'[d] = wire[d] /\ out'[d] = out[d]
           /\ peer[c] # "closed" => wire'[c] \o out'[c] = wire[c] \o out[c]
           /\ peer[c] = "closed" /\ wire[c] = <<>> => wire'[c] = <<>>
<1>0. wire[c] \in Seq(ItemType) /\ out[c] \in Seq(ItemType) /\ <<>> \in Seq(ItemType)
  BY DEF WireType
<1>1. CASE ~writing[c]
  BY <1>1 DEF handleWrite, WireType
<1>2. CASE writing[c]
  <2>1. PICK k \in KernelWrite(c, out[c]) :
           /\ wire' = [wire EXCEPT ![c] = @ \o Carried(c, out[c], k.took)]
           /\ out' = [out EXCEPT ![c] = SubSeq(@, k.took + 1, Len(@))]
    BY <1>2 DEF handleWrite
  <2>2. IsSeq(out[c])
    BY <1>0 DEF IsSeq
  <2>3. PICK n : n = k.took
    OBVIOUS
  <2>4. n \in 0 .. Len(out[c])
    BY <2>2, <2>3, KernelTakes
  <2>5. PICK x \in Seq(ItemType), y \in Seq(ItemType) :
           x = SubSeq(out[c], 1, n) /\ y = SubSeq(out[c], n + 1, Len(out[c])) /\ x \o y = out[c]
    <3>1. PICK b \in Seq(ItemType) : b = out[c]
      BY <1>0
    <3>2. n \in 0 .. Len(b)
      BY <2>4, <3>1
    <3>3. /\ SubSeq(b, 1, n) \in Seq(ItemType) /\ SubSeq(b, n + 1, Len(b)) \in Seq(ItemType)
          /\ SubSeq(b, 1, n) \o SubSeq(b, n + 1, Len(b)) = b
      BY <3>2, CutInTwo
    <3>. QED  BY <3>1, <3>3, Zenon
  <2>6. PICK u \in Seq(ItemType) :
           /\ u = Carried(c, out[c], n)
           /\ peer[c] = "closed" => u = <<>>
           /\ peer[c] # "closed" => u = x
    <3>1. CASE peer[c] = "closed"
      <4>1. Carried(c, out[c], n) = <<>>
        BY <3>1 DEF Carried
      <4>. QED  BY <1>0, <3>1, <4>1
    <3>2. CASE peer[c] # "closed"
      <4>1. Carried(c, out[c], n) = x
        BY <2>5, <3>2 DEF Carried
      <4>. QED  BY <3>2, <4>1
    <3>. QED  BY <3>1, <3>2
  <2>7. PICK w \in Seq(ItemType) : w = wire[c] \o u
    BY <1>0, ConcatProperties
  <2>8. wire' = [wire EXCEPT ![c] = w] /\ out' = [out EXCEPT ![c] = y]
    BY <2>1, <2>3, <2>5, <2>6, <2>7, Zenon
  <2>9. /\ WireType' /\ wire'[c] = w /\ out'[c] = y
        /\ \A d \in Conns \ {c} : wire'[d] = wire[d] /\ out'[d] = out[d]
    BY <2>8 DEF WireType
  <2>10. ASSUME peer[c] # "closed" PROVE wire'[c] \o out'[c] = wire[c] \o out[c]
    <3>1. PICK a \in Seq(ItemType) : a = wire[c]
      BY <1>0
    <3>2. a \o (x \o y) = (a \o x) \o y
      BY ConcatTwice, SMTT(30)
    <3>. QED  BY <2>5, <2>6, <2>7, <2>9, <2>10, <3>1, <3>2, Zenon
  <2>11. ASSUME peer[c] = "closed", wire[c] = <<>> PROVE wire'[c] = <<>>
    <3>1. u = <<>> /\ <<>> \o <<>> = <<>>
      BY <1>0, <2>6, <2>11, ConcatEmptySeq
    <3>. QED  BY <2>7, <2>9, <2>11, <3>1, Zenon
  <2>. QED  BY <2>9, <2>10, <2>11, Zenon
<1>. QED  BY <1>1, <1>2

-----------------------------------------------------------------------------
(* A step of any other kind.                                               *)

\* The functors are swapped, one that writes nothing is called, a closed connection
\* is to be destroyed.
Shifts ==
    \/ UNCHANGED <<batch, pending>>
    \/ batch = <<>> /\ batch' = pending /\ pending' = <<>>
    \/ /\ batch # <<>> /\ Head(batch).op # "WriteInLoop"
       /\ batch' = Tail(batch) /\ UNCHANGED pending
    \/ /\ \E c \in Conns : pending' = Append(pending, [op |-> "connectDestroyed", conn |-> c])
       /\ UNCHANGED batch

\* What waits is sent; a client comes, or goes with what it was sent.
Carries ==
    \/ /\ UNCHANGED <<wire, out>>
       /\ peer' = peer \/ \E c \in Conns : peer[c] = "none" /\ peer' = [peer EXCEPT ![c] = "open"]
    \/ \E c \in Conns : handleWrite(c)
    \/ \E c \in Conns : /\ peer' = [peer EXCEPT ![c] = "closed"]
                        /\ wire' = [wire EXCEPT ![c] = <<>>] /\ UNCHANGED out

\* on_close closes the session of a stream.
Sheds ==
    \/ UNCHANGED closed
    \/ \E c \in Conns : /\ context[c] # None /\ Kind[context[c]] = "stream"
                        /\ state'[c] = "kDisconnected"
                        /\ closed' = [closed EXCEPT ![context[c]] = TRUE]

\* A step that is neither a worker's nor a write of the loop's thread.
Passes == Quiet /\ Shifts /\ Carries /\ Sheds

\* Every step is one of these.
LEMMA AllSteps ==
    ASSUME LoopInv, ConnType, [Next]_vars
    PROVE  \/ Passes
           \/ CallWrite
           \/ \E c \in Conns : HandleRequest(c)
           \/ \E r \in Requests : ResumePlain(r) \/ WorkerStep(r)
<1>1. ASSUME UNCHANGED httpVars PROVE Quiet /\ Sheds
  BY <1>1 DEF httpVars, requestVars, Quiet, Sheds
<1>2. CASE Poll \/ HandleWakeup \/ EndFunctors \/ UNCHANGED vars
  <2>1. UNCHANGED httpVars /\ UNCHANGED <<batch, pending, wire, out, peer>>
    BY <1>2 DEF Poll, poll, HandleWakeup, handleWakeup, handleEvent, EndFunctors, endFunctors, vars,
                loopVars, connVars, kernelVars
  <2>. QED  BY <1>1, <2>1 DEF Passes, Shifts, Carries
<1>3. CASE SwapFunctors
  <2>1. UNCHANGED httpVars /\ UNCHANGED <<wire, out, peer>> /\ batch' = pending /\ pending' = <<>>
        /\ loop = "events"
    BY <1>3 DEF SwapFunctors, swapFunctors, connVars, kernelVars
  <2>2. batch = <<>>
    BY <2>1 DEF LoopInv
  <2>. QED  BY <1>1, <2>1, <2>2 DEF Passes, Shifts, Carries
<1>4. CASE CallEnd \/ CallDestroyed
  <2>1. /\ UNCHANGED httpVars /\ UNCHANGED <<wire, out, peer, pending>> /\ batch # <<>>
        /\ batch' = Tail(batch) /\ Head(batch).op \in {"EndInLoop", "connectDestroyed"}
    BY <1>4 DEF CallEnd, CallDestroyed, callFunctor, connectDestroyed, kernelVars
  <2>. QED  BY <1>1, <2>1 DEF Passes, Shifts, Carries
<1>5. ASSUME NEW c \in Conns, Accept(c) \/ ReadPart(c) PROVE Passes
  <2>1. UNCHANGED httpVars /\ UNCHANGED <<batch, pending, wire, out, peer>>
    BY <1>5 DEF Accept, newConnection, handleEvent, ReadPart, OnMessage, kernelVars
  <2>. QED  BY <1>1, <2>1 DEF Passes, Shifts, Carries
<1>6. ASSUME NEW c \in Conns, HandleWrite(c) PROVE Passes
  <2>1. UNCHANGED httpVars /\ handleWrite(c) /\ UNCHANGED <<batch, pending>>
    BY <1>6 DEF HandleWrite, handleWrite, handleEvent
  <2>. QED  BY <1>1, <2>1 DEF Passes, Shifts, Carries
<1>7. ASSUME NEW c \in Conns, ReadClose(c) PROVE Passes
  <2>1. Quiet /\ UNCHANGED <<batch, wire, out, peer>>
    BY <1>7 DEF ReadClose, Quiet, handleClose, handleEvent, kernelVars
  <2>2. /\ pending' = Append(pending, [op |-> "connectDestroyed", conn |-> c])
        /\ state' = [state EXCEPT ![c] = "kDisconnected"]
    BY <1>7 DEF ReadClose, handleClose, queueInOwnLoop
  <2>3. \/ UNCHANGED closed
        \/ /\ context[c] # None /\ Kind[context[c]] = "stream"
           /\ closed' = [closed EXCEPT ![context[c]] = TRUE]
    BY <1>7 DEF ReadClose
  <2>4. state'[c] = "kDisconnected"
    BY <2>2 DEF ConnType
  <2>5. Shifts
    BY <2>1, <2>2 DEF Shifts
  <2>6. Carries
    BY <2>1 DEF Carries
  <2>7. Sheds
    BY <2>3, <2>4 DEF Sheds
  <2>. QED  BY <2>1, <2>5, <2>6, <2>7 DEF Passes
<1>8. ASSUME NEW c \in Conns, ClientStep(c) \/ ClientReads(c) PROVE Passes
  <2>1. UNCHANGED httpVars /\ UNCHANGED <<batch, pending, out>>
    BY <1>8, ClientFrame DEF loopVars, connVars
  <2>2. Carries
    BY <1>8, <2>1 DEF Carries, ClientStep, ClientReads, Connect, Send, Leave, Drain
  <2>. QED  BY <1>1, <2>1, <2>2 DEF Passes, Shifts
<1>. QED
  BY <1>2, <1>3, <1>4, <1>5, <1>6, <1>7, <1>8 DEF Next, LoopStep, Dead

\* Items of r alone; and with no text.
Of(r, s) ==
    /\ s \in Seq(ItemType) /\ Spread(Mine(r), s) = s
    /\ \A o \in Requests \ {r} : Spread(Mine(o), s) = <<>>
Own(r, s) == Of(r, s) /\ Spread(TextOf, s) = <<>>

\* The stream has not been finished.
Undone(r, s) == \A p \in DOMAIN s : s[p] # Done(r)

\* One item, in the eyes of its request and of another.
LEMMA OneItem ==
    ASSUME NEW r \in Requests, NEW x \in ItemOf(r)
    PROVE  /\ <<x>> \in Seq(ItemType) /\ Spread(TextOf, <<x>>) = x.text
           /\ Spread(Mine(r), <<x>>) = <<x>>
           /\ \A o \in Requests \ {r} : Spread(Mine(o), <<x>>) = <<>>
<1>1. x \in ItemType /\ x.req = r
  BY ItemFacts
<1>2. <<x>> \in Seq(ItemType)
  BY <1>1
<1>3. Spread(TextOf, <<x>>) = x.text
  <2>1. Maps(TextOf, ItemType, Chars) /\ TextOf[x] = x.text
    BY <1>1, MapFacts
  <2>. QED  BY <1>1, <2>1, SpreadFacts
<1>4. ASSUME NEW o \in Requests PROVE Spread(Mine(o), <<x>>) = IF x.req = o THEN <<x>> ELSE <<>>
  <2>1. Maps(Mine(o), ItemType, ItemType) /\ Mine(o)[x] = IF x.req = o THEN <<x>> ELSE <<>>
    BY <1>1, MapFacts
  <2>2. Spread(Mine(o), <<x>>) = Mine(o)[x]
    BY <1>1, <2>1, SpreadFacts
  <2>. QED  BY <2>1, <2>2
<1>5. Spread(Mine(r), <<x>>) = <<x>>
  BY <1>1, <1>4
<1>6. \A o \in Requests \ {r} : Spread(Mine(o), <<x>>) = <<>>
  BY <1>1, <1>4
<1>. QED  BY <1>2, <1>3, <1>5, <1>6

\* Items joined.
LEMMA JoinItems ==
    ASSUME NEW o \in Requests, NEW s \in Seq(ItemType), NEW t \in Seq(ItemType)
    PROVE  /\ s \o t \in Seq(ItemType)
           /\ Spread(TextOf, s \o t) = Spread(TextOf, s) \o Spread(TextOf, t)
           /\ Spread(Mine(o), s \o t) = Spread(Mine(o), s) \o Spread(Mine(o), t)
<1>1. Maps(TextOf, ItemType, Chars)
  BY MapFacts
<1>2. PICK F, S : F = Mine(o) /\ S = ItemType /\ Maps(F, ItemType, S)
  BY MapFacts
<1>3. Spread(TextOf, s \o t) = Spread(TextOf, s) \o Spread(TextOf, t)
  BY <1>1, SpreadFacts
<1>4. Spread(F, s \o t) = Spread(F, s) \o Spread(F, t)
  <2>1. Maps(F, ItemType, S)
    BY <1>2
  <2>. QED  BY <2>1, SpreadFacts
<1>5. s \o t \in Seq(ItemType)
  BY ConcatProperties
<1>. QED  BY <1>2, <1>3, <1>4, <1>5

\* Such items, one and several.
LEMMA OfFacts ==
    ASSUME NEW r \in Requests
    PROVE  /\ \A x \in ItemOf(r) : Of(r, <<x>>)
           /\ \A s, t : Of(r, s) /\ Of(r, t) => Of(r, s \o t)
<1>1. ASSUME NEW x \in ItemOf(r) PROVE Of(r, <<x>>)
  BY <1>1, OneItem DEF Of
<1>2. ASSUME NEW s, NEW t, Of(r, s), Of(r, t) PROVE Of(r, s \o t)
  <2>1. s \in Seq(ItemType) /\ t \in Seq(ItemType)
    BY <1>2 DEF Of
  <2>2. s \o t \in Seq(ItemType)
    BY <2>1, ConcatProperties
  <2>3. ASSUME NEW o \in Requests
        PROVE  Spread(Mine(o), s \o t) = Spread(Mine(o), s) \o Spread(Mine(o), t)
    BY <2>1, JoinItems
  <2>4. Spread(Mine(r), s \o t) = s \o t
    BY <1>2, <2>3 DEF Of
  <2>5. ASSUME NEW o \in Requests \ {r} PROVE Spread(Mine(o), s \o t) = <<>>
    <3>1. Spread(Mine(o), s) = <<>> /\ Spread(Mine(o), t) = <<>>
      BY <1>2 DEF Of
    <3>2. <<>> \o <<>> = <<>>
      OBVIOUS
    <3>. QED  BY <2>3, <3>1, <3>2
  <2>. QED  BY <2>2, <2>4, <2>5 DEF Of
<1>. QED  BY <1>1, <1>2

\* And those with no text.
LEMMA OwnFacts ==
    ASSUME NEW r \in Requests
    PROVE  /\ \A x \in ItemOf(r) : x.text = <<>> => Own(r, <<x>>)
           /\ \A s, t : Own(r, s) /\ Own(r, t) => Own(r, s \o t)
<1>1. ASSUME NEW x \in ItemOf(r), x.text = <<>> PROVE Own(r, <<x>>)
  BY <1>1, OneItem, OfFacts DEF Own
<1>2. ASSUME NEW s, NEW t, Own(r, s), Own(r, t) PROVE Own(r, s \o t)
  <2>1. s \in Seq(ItemType) /\ t \in Seq(ItemType)
    BY <1>2 DEF Own, Of
  <2>2. Spread(TextOf, s \o t) = Spread(TextOf, s) \o Spread(TextOf, t)
    BY <2>1, JoinItems
  <2>3. <<>> \o <<>> = <<>>
    OBVIOUS
  <2>4. Of(r, s \o t)
    BY <1>2, OfFacts DEF Own
  <2>. QED  BY <1>2, <2>2, <2>3, <2>4 DEF Own
<1>. QED  BY <1>1, <1>2

\* What is joined of two parts without the last event is without it.
LEMMA UndoneFacts ==
    ASSUME NEW r
    PROVE  /\ \A x : x # Done(r) => Undone(r, <<x>>)
           /\ \A s, t \in Seq(ItemType) : Undone(r, s) /\ Undone(r, t) => Undone(r, s \o t)
<1>1. ASSUME NEW x, x # Done(r) PROVE Undone(r, <<x>>)
  BY <1>1 DEF Undone
<1>2. ASSUME NEW s \in Seq(ItemType), NEW t \in Seq(ItemType), Undone(r, s), Undone(r, t)
      PROVE  Undone(r, s \o t)
  <2>1. PICK m \in Nat, n \in Nat : m = Len(s) /\ n = Len(t)
    BY LenProperties
  <2>2. DOMAIN s = 1 .. m /\ DOMAIN t = 1 .. n
    BY <2>1, LenProperties
  <2>3. PICK w \in Seq(ItemType) :
           /\ w = s \o t /\ Len(w) = m + n
           /\ \A i \in 1 .. (m + n) : w[i] = IF i <= m THEN s[i] ELSE t[i - m]
    <3>1. /\ s \o t \in Seq(ItemType) /\ Len(s \o t) = Len(s) + Len(t)
          /\ \A i \in 1 .. (Len(s) + Len(t)) :
                (s \o t)[i] = IF i <= Len(s) THEN s[i] ELSE t[i - Len(s)]
      BY ConcatProperties
    <3>. QED  BY <2>1, <3>1, Zenon
  <2>4. DOMAIN w = 1 .. (m + n)
    BY <2>3, LenProperties
  <2>5. ASSUME NEW i \in 1 .. (m + n) PROVE w[i] # Done(r)
    <3>1. CASE i <= m
      <4>1. i \in 1 .. m /\ w[i] = s[i]
        BY <2>3, <3>1
      <4>. QED  BY <1>2, <2>2, <4>1 DEF Undone
    <3>2. CASE ~(i <= m)
      <4>1. i - m \in 1 .. n /\ w[i] = t[i - m]
        BY <2>3, <3>2
      <4>. QED  BY <1>2, <2>2, <4>1 DEF Undone
    <3>. QED  BY <3>1, <3>2
  <2>. QED  BY <2>3, <2>4, <2>5, Zenon DEF Undone
<1>. QED  BY <1>1, <1>2

\* A response from its start: its items.
LEMMA RespondFacts ==
    ASSUME NEW c, NEW r \in Requests, NEW items, NEW q, Responds(c, r, items, q)
    PROVE  /\ Own(r, items) /\ Own(r, <<Header(r)>> \o items)
           /\ <<Header(r)>> \o items # <<>>
           /\ q = "run" => Undone(r, <<Header(r)>> \o items)
<1>1. /\ Own(r, <<Header(r)>>) /\ Own(r, <<Open(r)>>) /\ Own(r, <<Body(r)>>)
      /\ Own(r, <<Finish(r)>>) /\ Own(r, <<Done(r)>>)
  BY ItemFacts, OwnFacts
<1>2. <<Open(r), Finish(r), Done(r)>> = (<<Open(r)>> \o <<Finish(r)>>) \o <<Done(r)>>
  OBVIOUS
<1>3. Own(r, <<Open(r), Finish(r), Done(r)>>)
  <2>1. Own(r, <<Open(r)>> \o <<Finish(r)>>)
    BY <1>1, OwnFacts
  <2>. QED  BY <1>1, <1>2, <2>1, OwnFacts
<1>4. items \in {<<Open(r)>>, <<Body(r)>>, <<Open(r), Finish(r), Done(r)>>}
  BY DEF Responds
<1>5. Own(r, items)
  BY <1>1, <1>3, <1>4
<1>6. Own(r, <<Header(r)>> \o items)
  BY <1>1, <1>5, OwnFacts
<1>7. <<Header(r)>> \o items # <<>>
  BY <1>4
<1>8. ASSUME q = "run" PROVE Undone(r, <<Header(r)>> \o items)
  <2>1. items = <<Open(r)>>
    BY <1>8 DEF Responds
  <2>2. Undone(r, <<Header(r)>>) /\ Undone(r, <<Open(r)>>)
    BY ItemFacts, UndoneFacts
  <2>3. <<Header(r)>> \in Seq(ItemType) /\ <<Open(r)>> \in Seq(ItemType)
    BY <1>1 DEF Own, Of
  <2>. QED  BY <2>1, <2>2, <2>3, UndoneFacts
<1>. QED  BY <1>5, <1>6, <1>7, <1>8

-----------------------------------------------------------------------------
(* The types.                                                              *)

\* What a delta emits: the characters that show of what was kept and what is new.
EmitsDelta(r, k, u, v, x, e) ==
    /\ u = SubSeq(Text[r], at[r] + 1, at[r] + k) /\ v = pending_bytes[r] \o u
    /\ SubSeq(Text[r], 1, at[r] + k) = SubSeq(Text[r], 1, at[r]) \o u
    /\ x.text = Visible(v) /\ x # Done(r)
    /\ e \in 1 .. (Len(v) + 1) /\ IsCut(v, e) /\ SubSeq(v, e, Len(v)) \in Seq(Byte)
    /\ pending_bytes' = [pending_bytes EXCEPT ![r] = SubSeq(v, e, Len(v))]
    /\ mail' = [mail EXCEPT ![r] = <<x>>]
    /\ told' = [told EXCEPT ![r] = told[r] \o <<x>>]
    /\ at' = [at EXCEPT ![r] = at[r] + k]

\* A delta does so: split_utf8_prefix shows what is visible and keeps what is cut.
LEMMA DeltaFacts ==
    ASSUME AnswerType, WorkType, NEW r \in Requests, NEW k \in 1 .. (Len(Text[r]) - at[r]),
           Delta(r, k)
    PROVE  \E u, v \in Seq(Byte), x \in ItemOf(r), e \in Nat : EmitsDelta(r, k, u, v, x, e)
<1>1. PICK t \in Seq(Byte), n \in Nat, m \in Nat : t = Text[r] /\ n = Len(t) /\ m = at[r] /\ m <= n
  BY HttpAssumption, TextFacts DEF WorkType
<1>2. k \in Nat /\ k >= 1 /\ m + k <= n
  BY <1>1
<1>3. PICK u \in Seq(Byte) : u = SubSeq(t, m + 1, m + k)
  <2>1. \A i \in (m + 1) .. (m + k) : t[i] \in Byte
    BY <1>1, <1>2, TextFacts
  <2>2. m + 1 \in Int /\ m + k \in Int
    BY <1>2
  <2>3. SubSeq(t, m + 1, m + k) \in Seq(Byte)
    BY <2>1, <2>2, SubSeqProperties
  <2>. QED  BY <2>3, Zenon
<1>4. SubSeq(t, 1, m + k) = SubSeq(t, 1, m) \o u
  <2>1. 1 \in 1 .. (Len(t) + 1) /\ m \in (1 - 1) .. Len(t) /\ m + k \in m .. Len(t)
    BY <1>1, <1>2
  <2>2. SubSeq(t, 1, m) \o SubSeq(t, m + 1, m + k) = SubSeq(t, 1, m + k)
    BY <2>1, ConcatAdjacentSubSeq
  <2>. QED  BY <1>3, <2>2
<1>5. PICK v \in Seq(Byte) : v = pending_bytes[r] \o u
  <2>1. pending_bytes[r] \in Seq(Byte)
    BY DEF AnswerType
  <2>. QED  BY <2>1, ConcatProperties
<1>6. PICK e \in 1 .. (Len(v) + 1) :
         IsCut(v, e) /\ split_utf8_prefix(v).rest = SubSeq(v, e, Len(v))
  BY SplitIsVisible
<1>7. PICK w \in Seq(Chars) : w = Visible(v) /\ split_utf8_prefix(v).prefix = w
  BY SplitIsVisible, ShowsType
<1>8. SubSeq(v, e, Len(v)) \in Seq(Byte)
  <2>1. PICK l \in Nat : l = Len(v)
    BY TextFacts
  <2>2. e \in Int /\ l \in Int /\ \A i \in e .. l : v[i] \in Byte
    BY <2>1, TextFacts
  <2>. QED  BY <2>1, <2>2, SubSeqProperties
<1>9. PICK x \in ItemOf(r) : x = Item(r, "chunk", w) /\ x.text = w /\ x # Done(r)
  BY ItemFacts
<1>10. PICK g : g = split_utf8_prefix(v)
  OBVIOUS
<1>11. /\ pending_bytes' = [pending_bytes EXCEPT ![r] = g.rest]
       /\ mail' = [mail EXCEPT ![r] = <<Item(r, "chunk", g.prefix)>>]
       /\ told' = [told EXCEPT ![r] = Append(@, Item(r, "chunk", g.prefix))]
       /\ at' = [at EXCEPT ![r] = @ + k]
  <2>1. v = pending_bytes[r] \o SubSeq(Text[r], at[r] + 1, at[r] + k)
    BY <1>1, <1>3, <1>5, Zenon
  <2>. QED  BY <1>10, <2>1, Zenon DEF Delta
<1>12. Append(told[r], x) = told[r] \o <<x>>
  <2>1. told[r] \in Seq(ItemType) /\ x \in ItemType
    BY ItemFacts DEF AnswerType
  <2>. QED  BY <2>1, AppendIsConcat
<1>13. /\ pending_bytes' = [pending_bytes EXCEPT ![r] = SubSeq(v, e, Len(v))]
       /\ mail' = [mail EXCEPT ![r] = <<x>>]
       /\ told' = [told EXCEPT ![r] = told[r] \o <<x>>]
       /\ at' = [at EXCEPT ![r] = at[r] + k]
  BY <1>6, <1>7, <1>9, <1>10, <1>11, <1>12, Zenon
<1>14. /\ u = SubSeq(Text[r], at[r] + 1, at[r] + k)
       /\ SubSeq(Text[r], 1, at[r] + k) = SubSeq(Text[r], 1, at[r]) \o u
  BY <1>1, <1>3, <1>4, Zenon
<1>15. EmitsDelta(r, k, u, v, x, e)
  BY <1>5, <1>6, <1>7, <1>8, <1>9, <1>13, <1>14, Zenon DEF EmitsDelta
<1>16. e \in Nat
  BY <1>6, TextFacts
<1>. QED  BY <1>15, <1>16, Zenon

\* The last two events.
LEMMA FinishFacts ==
    ASSUME NEW r \in Requests
    PROVE  /\ Own(r, <<Finish(r), Done(r)>>) /\ <<Finish(r), Done(r)>> \in Seq(ItemOf(r))
<1>1. Own(r, <<Finish(r)>>) /\ Own(r, <<Done(r)>>)
  BY ItemFacts, OwnFacts
<1>2. <<Finish(r), Done(r)>> = <<Finish(r)>> \o <<Done(r)>>
  OBVIOUS
<1>3. Finish(r) \in ItemOf(r) /\ Done(r) \in ItemOf(r)
  BY ItemFacts
<1>4. Own(r, <<Finish(r)>> \o <<Done(r)>>)
  BY <1>1, OwnFacts
<1>5. <<Finish(r), Done(r)>> \in Seq(ItemOf(r))
  BY <1>3
<1>. QED  BY <1>2, <1>4, <1>5

\* The responses keep their types.
LEMMA AnswerTypeStep ==
    ASSUME ConnInv, AnswerType, QueueType, [Next]_vars
    PROVE  AnswerType'
<1>. USE DEF ConnInv
<1>1. CASE Passes
  <2>1. closed' \in [Requests -> BOOLEAN]
    <3>1. CASE UNCHANGED closed
      BY <3>1 DEF AnswerType
    <3>2. ASSUME NEW a, closed' = [closed EXCEPT ![a] = TRUE] PROVE closed' \in [Requests -> BOOLEAN]
      BY <3>2 DEF AnswerType
    <3>. QED  BY <1>1, <3>1, <3>2 DEF Passes, Sheds
  <2>. QED  BY <1>1, <2>1 DEF Passes, Quiet, AnswerType
<1>2. CASE CallWrite
  <2>1. PICK r, c : header_sent' = [header_sent EXCEPT ![r] = @ \/ connected(c)]
    BY <1>2 DEF CallWrite, WriteInLoop
  <2>2. header_sent' \in [Requests -> BOOLEAN]
    BY <2>1 DEF AnswerType, connected
  <2>. QED  BY <1>2, <2>2 DEF CallWrite, AnswerType
<1>3. ASSUME NEW c, NEW r \in Requests, NEW items, NEW q, Responds(c, r, items, q) PROVE AnswerType'
  <2>1. PICK s \in Seq(ItemType) : s = <<Header(r)>> \o items
    BY <1>3, RespondFacts DEF Own, Of
  <2>2. told' = [told EXCEPT ![r] = s]
    BY <1>3, <2>1 DEF Responds
  <2>3. told' \in [Requests -> Seq(ItemType)]
    BY <2>2 DEF AnswerType
  <2>4. header_sent' \in [Requests -> BOOLEAN] /\ closed' \in [Requests -> BOOLEAN]
    BY <1>3 DEF Responds, connected, AnswerType
  <2>. QED  BY <1>3, <2>3, <2>4 DEF Responds, AnswerType
<1>4. ASSUME NEW c \in Conns, HandleRequest(c) PROVE AnswerType'
  <2>1. PICK r \in Requests : Leaves(r) \/ \E items, q : Responds(c, r, items, q)
    BY <1>4, HandleSteps
  <2>2. CASE Leaves(r)
    BY <2>2 DEF Leaves, AnswerType
  <2>. QED  BY <1>3, <2>1, <2>2
<1>5. ASSUME NEW r \in Requests, ResumePlain(r) PROVE AnswerType'
  BY <1>3, <1>5, ResumeSteps
<1>6. ASSUME NEW r \in Requests, NEW k \in 1 .. (Len(Text[r]) - at[r]), Delta(r, k)
      PROVE  AnswerType'
  <2>1. PICK u, v \in Seq(Byte), x \in ItemOf(r), e \in Nat : EmitsDelta(r, k, u, v, x, e)
    BY <1>6, DeltaFacts
  <2>2. PICK b \in Seq(Byte) : b = SubSeq(v, e, Len(v))
    BY <2>1 DEF EmitsDelta
  <2>3. PICK t \in Seq(ItemType) : t = told[r] \o <<x>>
    <3>1. told[r] \in Seq(ItemType) /\ <<x>> \in Seq(ItemType)
      BY OneItem DEF AnswerType
    <3>. QED  BY <3>1, ConcatProperties
  <2>4. PICK l \in Seq(ItemOf(r)) : l = <<x>>
    <3>1. <<x>> \in Seq(ItemOf(r))
      OBVIOUS
    <3>. QED  BY <3>1, Zenon
  <2>5. l \in Seq(ItemType)
    BY <2>4, OneItem
  <2>6. /\ pending_bytes' = [pending_bytes EXCEPT ![r] = b] /\ mail' = [mail EXCEPT ![r] = l]
        /\ told' = [told EXCEPT ![r] = t]
    BY <2>1, <2>2, <2>3, <2>4, Zenon DEF EmitsDelta
  <2>7. UNCHANGED <<header_sent, closed>>
    BY <1>6 DEF Delta
  <2>. QED  BY <2>5, <2>6, <2>7 DEF AnswerType
<1>7. ASSUME NEW r \in Requests, EmitFinish(r) PROVE AnswerType'
  <2>1. PICK l \in Seq(ItemOf(r)) : l = <<Finish(r), Done(r)>> /\ l \in Seq(ItemType)
    BY FinishFacts DEF Own, Of
  <2>2. PICK t \in Seq(ItemType) : t = told[r] \o l
    <3>1. told[r] \in Seq(ItemType) /\ l \in Seq(ItemType)
      BY <2>1 DEF AnswerType
    <3>. QED  BY <3>1, ConcatProperties
  <2>3. PICK b \in Seq(Byte) : b = <<>>
    BY EmptySeq
  <2>4. /\ pending_bytes' = [pending_bytes EXCEPT ![r] = b] /\ mail' = [mail EXCEPT ![r] = l]
        /\ told' = [told EXCEPT ![r] = t] /\ UNCHANGED <<header_sent, closed>>
    BY <1>7, <2>1, <2>2, <2>3, Zenon DEF EmitFinish
  <2>. QED  BY <2>1, <2>4 DEF AnswerType
<1>8. ASSUME NEW r \in Requests, Advances(r) PROVE AnswerType'
  <2>1. closed' \in [Requests -> BOOLEAN]
    BY <1>8 DEF Advances, Takes, Ends, Queues, Looks, AnswerType
  <2>2. PICK l \in Seq(ItemOf(r)) : mail' = [mail EXCEPT ![r] = l]
    <3>1. mail[r] \in Seq(ItemOf(r))
      BY DEF AnswerType
    <3>2. Tail(mail[r]) \in Seq(ItemOf(r))
      <4>1. PICK m \in Seq(ItemOf(r)) : m = mail[r]
        BY <3>1
      <4>2. CASE m = <<>>
        BY <4>1, <4>2
      <4>3. CASE m # <<>>
        BY <4>1, <4>3, HeadTailProperties
      <4>. QED  BY <4>2, <4>3
    <3>3. \E q : Goes(r, q, mail[r]) \/ Goes(r, q, Tail(mail[r]))
      BY <1>8, Zenon DEF Advances, Takes, Ends, Queues, Looks
    <3>. QED  BY <3>1, <3>2, <3>3, Zenon DEF Goes
  <2>3. l \in Seq(ItemType)
    BY ItemFacts, SeqMonotonic
  <2>. QED  BY <1>8, <2>1, <2>2, <2>3 DEF Advances, AnswerType
<1>. QED
  BY <1>1, <1>2, <1>4, <1>5, <1>6, <1>7, <1>8, AllSteps, WorkerSteps

-----------------------------------------------------------------------------
(* The stages of a response.                                               *)

\* What a request has when its worker, or the loop's thread for it, is where it is.
Stage(r) ==
    /\ pc[r] = "none" => told[r] = <<>> /\ at[r] = 0 /\ pending_bytes[r] = <<>>
    /\ Kind[r] # "stream" => /\ pc[r] \in {"none", "run", "ended"}
                             /\ pc[r] = "run" => told[r] = <<>>
    /\ Kind[r] = "stream" /\ pc[r] # "none" => told[r] # <<>>
    /\ waiting = r => Kind[r] = "plain" /\ pc[r] # "none" /\ told[r] = <<>>
    /\ told[r] = <<>> => ~header_sent[r]
    /\ pc[r] \in {"check", "push", "wake", "dead"} => mail[r] # <<>>
    /\ pc[r] \in {"none", "run", "close", "ended"} => mail[r] = <<>>

\* A functor writes only of a response that has begun.
Issued   == {f \in FunctorType : f \in WriteFunctor => told[f.req] # <<>>}
QueueInv == batch \in Seq(Issued) /\ pending \in Seq(Issued)

StageInv == (\A r \in Requests : Stage(r)) /\ QueueInv

\* Queues of issued functors are queues of functors.
LEMMA QueueTyped ==
    ASSUME QueueInv PROVE QueueType
<1>1. Issued \subseteq FunctorType
  BY DEF Issued
<1>. QED  BY <1>1, SeqMonotonic DEF QueueInv, QueueType

\* The functor called is an issued one.
LEMMA CalledFacts ==
    ASSUME QueueInv, CallWrite
    PROVE  \E f \in WriteFunctor, b \in Seq(Issued) :
              /\ f = Head(batch) /\ b = Tail(batch) /\ batch' = b /\ batch = <<f>> \o b
              /\ batch # <<>> /\ f \in Issued
              /\ f.req \in Requests /\ f.item \in ItemOf(f.req) /\ told[f.req] # <<>>
<1>1. batch # <<>> /\ Head(batch).op = "WriteInLoop" /\ batch' = Tail(batch)
  BY DEF CallWrite, callFunctor
<1>2. batch \in Seq(Issued)
  BY DEF QueueInv
<1>3. PICK s \in Seq(Issued) : s = batch /\ s # <<>>
  BY <1>1, <1>2
<1>4. Head(s) \in Issued /\ Tail(s) \in Seq(Issued)
  BY <1>3, HeadTailProperties
<1>5. s = <<Head(s)>> \o Tail(s)
  BY <1>3
<1>6. Head(s) \in WriteFunctor
  BY <1>1, <1>3, <1>4, FunctorFacts DEF Issued, WriteFunctor, FunctorType, OtherFunctor
<1>7. PICK f \in WriteFunctor : f = Head(batch) /\ f \in Issued
  BY <1>3, <1>4, <1>6
<1>8. f.req \in Requests /\ f.item \in ItemOf(f.req) /\ told[f.req] # <<>>
  BY <1>7 DEF WriteFunctor, Issued, ItemType, ItemOf
<1>. QED  BY <1>1, <1>3, <1>4, <1>5, <1>7, <1>8, Zenon

\* A worker that emits.
LEMMA EmitStage ==
    ASSUME WorkType, AnswerType, NEW r \in Requests, Stage(r), NEW x \in Seq(ItemType), x # <<>>,
           pc[r] = "run", Kind[r] = "stream",
           told' = [told EXCEPT ![r] = told[r] \o x], mail' = [mail EXCEPT ![r] = x],
           pc' = [pc EXCEPT ![r] = "check"], UNCHANGED <<waiting, header_sent>>
    PROVE  Stage(r)' /\ told'[r] # <<>>
<1>1. told'[r] = told[r] \o x /\ mail'[r] = x /\ pc'[r] = "check"
  BY DEF WorkType, AnswerType
<1>2. told[r] \o x # <<>>
  <2>1. PICK t \in Seq(ItemType) : t = told[r]
    BY DEF AnswerType
  <2>2. t \o x # <<>>
    BY ConcatEqualIffEmpty
  <2>. QED  BY <2>1, <2>2
<1>. QED  BY <1>1, <1>2 DEF Stage

\* A worker that advances.
LEMMA AdvanceStage ==
    ASSUME WorkType, AnswerType, NEW r \in Requests, Stage(r), Advances(r), UNCHANGED waiting
    PROVE  Stage(r)'
<1>1. PICK m \in Seq(ItemOf(r)) : m = mail[r]
  BY DEF AnswerType
<1>2. told' = told /\ at' = at /\ pending_bytes' = pending_bytes /\ header_sent' = header_sent
  BY DEF Advances
<1>3. ASSUME NEW q, NEW l, Goes(r, q, l) PROVE pc'[r] = q /\ mail'[r] = l
  BY <1>3 DEF Goes, WorkType, AnswerType
<1>4. CASE Takes(r)
  <2>1. m # <<>> /\ Kind[r] = "stream"
    BY <1>1, <1>4 DEF Takes, Stage
  <2>2. PICK q : q = IF Len(m) > 1 THEN "check" ELSE IF Emitted(r) THEN "close" ELSE "run"
    OBVIOUS
  <2>3. Goes(r, q, Tail(m))
    BY <1>1, <1>4, <2>2 DEF Takes
  <2>4. pc'[r] = q /\ mail'[r] = Tail(m)
    BY <1>3, <2>3
  <2>5. IF Len(m) > 1 THEN Tail(m) # <<>> ELSE Tail(m) = <<>>
    <3>1. Tail(m) \in Seq(ItemOf(r)) /\ Len(Tail(m)) = Len(m) - 1 /\ Len(m) \in Nat /\ Len(m) # 0
      BY <2>1, HeadTailProperties, LenProperties, EmptySeq
    <3>2. PICK t \in Seq(ItemOf(r)) : t = Tail(m)
      BY <3>1
    <3>3. t = <<>> <=> Len(t) = 0
      BY EmptySeq
    <3>. QED  BY <3>1, <3>2, <3>3
  <2>6. q \in {"check", "close", "run"} /\ (q = "check" <=> Len(m) > 1)
    BY <2>2
  <2>7. pc[r] # "none" /\ told[r] # <<>>
    BY <1>4, <2>1 DEF Takes, Stage
  <2>. QED  BY <1>2, <2>1, <2>4, <2>5, <2>6, <2>7 DEF Stage
<1>5. CASE Ends(r)
  <2>1. pc'[r] = "endwake" /\ Kind[r] = "stream" /\ pc[r] # "none"
    BY <1>3, <1>5 DEF Ends, Stage
  <2>. QED  BY <1>2, <2>1 DEF Stage
<1>6. CASE Queues(r)
  <2>1. pc'[r] = "wake" /\ mail'[r] = mail[r] /\ pc[r] = "push" /\ Kind[r] = "stream"
    BY <1>3, <1>6 DEF Queues, Stage
  <2>. QED  BY <1>2, <2>1 DEF Stage
<1>7. CASE Looks(r)
  <2>1. CASE pc[r] = "run" /\ Kind[r] = "plain" /\ Goes(r, "ended", mail[r])
    BY <1>2, <1>3, <2>1 DEF Stage
  <2>2. CASE pc[r] = "check" /\ Goes(r, "push", mail[r])
    BY <1>2, <1>3, <2>2 DEF Stage
  <2>3. CASE pc[r] = "wake" /\ Goes(r, "dead", mail[r])
    BY <1>2, <1>3, <2>3 DEF Stage
  <2>4. CASE (pc[r] = "close" \/ (pc[r] = "endwake" /\ mail[r] = <<>>)) /\ Goes(r, "ended", mail[r])
    BY <1>2, <1>3, <2>4 DEF Stage
  <2>. QED  BY <1>7, <2>1, <2>2, <2>3, <2>4, Zenon DEF Looks
<1>. QED  BY <1>4, <1>5, <1>6, <1>7 DEF Advances

\* A response from its start.
LEMMA RespondStage ==
    ASSUME WorkType, AnswerType, NEW c, NEW r \in Requests, NEW items, NEW q, Stage(r),
           Responds(c, r, items, q), pc[r] \in {"none", "ended"}, waiting' # r
    PROVE  Stage(r)' /\ told'[r] # <<>>
<1>1. told'[r] # <<>>
  <2>1. told'[r] = <<Header(r)>> \o items
    BY DEF Responds, AnswerType
  <2>. QED  BY <2>1, RespondFacts
<1>2. pc'[r] = q /\ mail'[r] = mail[r] /\ mail[r] = <<>>
  BY DEF Responds, WorkType, Stage
<1>3. q = "ended" \/ (q = "run" /\ Kind[r] = "stream")
  BY DEF Responds
<1>. QED  BY <1>1, <1>2, <1>3 DEF Stage

\* What a step leaves alone of a request.
Spared(r) ==
    /\ pc'[r] = pc[r] /\ told'[r] = told[r] /\ at'[r] = at[r] /\ mail'[r] = mail[r]
    /\ pending_bytes'[r] = pending_bytes[r] /\ header_sent'[r] = header_sent[r]

\* Every response goes through its stages; none is taken back.
LEMMA StageStep ==
    ASSUME ConnInv, AnswerType, StageInv, [Next]_vars, NEW o \in Requests
    PROVE  Stage(o)' /\ (told[o] # <<>> => told'[o] # <<>>)
<1>. DEFINE Good == Stage(o)' /\ (told[o] # <<>> => told'[o] # <<>>)
<1>0. Stage(o) /\ LoopInv /\ ConnType /\ WorkType /\ InputInv /\ OnceInv
  BY DEF StageInv, ConnInv
<1>1. ASSUME Spared(o), waiting' = o => waiting = o PROVE Good
  BY <1>0, <1>1 DEF Spared, Stage
<1>2. CASE Passes
  BY <1>0, <1>1, <1>2 DEF Passes, Quiet, Spared
<1>3. CASE CallWrite
  <2>1. PICK f \in WriteFunctor : f = Head(batch) /\ told[f.req] # <<>>
    BY <1>3, CalledFacts DEF StageInv
  <2>2. header_sent' = [header_sent EXCEPT ![f.req] = @ \/ connected(ConnOf(f.req))]
        /\ UNCHANGED <<pc, told, at, mail, pending_bytes, waiting>>
    BY <1>3, <2>1 DEF CallWrite, WriteInLoop
  <2>3. CASE o = f.req
    BY <1>0, <2>1, <2>2, <2>3 DEF Stage
  <2>4. CASE o # f.req
    <3>1. header_sent'[o] = header_sent[o]
      BY <2>2, <2>4 DEF AnswerType
    <3>. QED  BY <1>1, <2>2, <3>1 DEF Spared
  <2>. QED  BY <2>3, <2>4
<1>4. ASSUME NEW c, NEW r \in Requests, NEW items, NEW q, Responds(c, r, items, q), r # o
      PROVE  Spared(o)
  BY <1>0, <1>4 DEF Responds, Spared, WorkType, AnswerType
<1>5. ASSUME NEW c \in Conns, HandleRequest(c) PROVE Good
  <2>1. PICK r \in Requests :
           /\ pc[r] = "none"
           /\ waiting' \in {waiting, None} \/ (waiting' = r /\ Leaves(r))
           /\ Leaves(r) \/ \E items, q : Responds(c, r, items, q)
    BY <1>0, <1>5, HandleSteps
  <2>2. None # o /\ (waiting' = o => waiting = o \/ (o = r /\ Leaves(r)))
    BY <2>1, HttpAssumption
  <2>3. CASE Leaves(r)
    <3>1. CASE o = r
      <4>1. /\ pc'[o] = "run" /\ Kind[o] = "plain" /\ told'[o] = told[o] /\ mail'[o] = mail[o]
            /\ header_sent'[o] = header_sent[o]
        BY <1>0, <2>3, <3>1 DEF Leaves, WorkType
      <4>2. pc[o] = "none"
        BY <2>1, <3>1
      <4>. QED  BY <1>0, <4>1, <4>2 DEF Stage
    <3>2. CASE o # r
      <4>1. Spared(o)
        BY <1>0, <2>3, <3>2 DEF Leaves, Spared, WorkType
      <4>. QED  BY <1>1, <2>2, <3>2, <4>1
    <3>. QED  BY <3>1, <3>2
  <2>4. ASSUME NEW items, NEW q, Responds(c, r, items, q) PROVE Good
    <3>1. CASE o = r
      <4>1. waiting' # r
        <5>1. waiting # r
          BY <1>0, <2>1, <3>1 DEF Stage
        <5>2. ~Leaves(r)
          <6>1. ASSUME Leaves(r) PROVE FALSE
            <7>1. pc'[r] = "run" /\ Kind[r] = "plain"
              BY <1>0, <6>1 DEF Leaves, WorkType
            <7>2. pc'[r] = q /\ (q = "ended" \/ Kind[r] = "stream")
              BY <1>0, <2>4 DEF Responds, WorkType
            <7>. QED  BY <7>1, <7>2
          <6>. QED  BY <6>1
        <5>. QED  BY <2>2, <3>1, <5>1, <5>2
      <4>. QED  BY <1>0, <2>1, <2>4, <3>1, <4>1, RespondStage
    <3>2. CASE o # r
      BY <1>1, <1>4, <2>2, <2>4, <3>2
    <3>. QED  BY <3>1, <3>2
  <2>. QED  BY <2>1, <2>3, <2>4
<1>6. ASSUME NEW r \in Requests, ResumePlain(r) PROVE Good
  <2>1. /\ waiting = r /\ waiting' = None /\ pc[r] = "ended"
        /\ Responds(ConnOf(r), r, <<Body(r)>>, "ended") /\ None # o
    BY <1>0, <1>6, ResumeSteps, HttpAssumption
  <2>2. CASE o = r
    BY <1>0, <2>1, <2>2, RespondStage
  <2>3. CASE o # r
    BY <1>1, <1>4, <2>1, <2>3
  <2>. QED  BY <2>2, <2>3
<1>7. ASSUME NEW r \in Requests, WorkerStep(r) PROVE Good
  <2>1. waiting' = waiting
    BY <1>7, WorkerFrame
  <2>2. ASSUME NEW k \in 1 .. (Len(Text[r]) - at[r]), Delta(r, k) PROVE Good
    <3>1. PICK u, v \in Seq(Byte), x \in ItemOf(r), e \in Nat : EmitsDelta(r, k, u, v, x, e)
      BY <1>0, <2>2, DeltaFacts
    <3>2. /\ pc[r] = "run" /\ Kind[r] = "stream" /\ pc' = [pc EXCEPT ![r] = "check"]
          /\ UNCHANGED header_sent
      BY <2>2 DEF Delta
    <3>3. PICK l \in Seq(ItemType) : l = <<x>> /\ l # <<>>
      BY OneItem
    <3>4. /\ told' = [told EXCEPT ![r] = told[r] \o l] /\ mail' = [mail EXCEPT ![r] = l]
          /\ pending_bytes' = [pending_bytes EXCEPT ![r] = SubSeq(v, e, Len(v))]
          /\ at' = [at EXCEPT ![r] = at[r] + k]
      BY <3>1, <3>3, Zenon DEF EmitsDelta
    <3>5. CASE o = r
      BY <1>0, <2>1, <3>2, <3>3, <3>4, <3>5, EmitStage
    <3>6. CASE o # r
      <4>1. Spared(o)
        BY <1>0, <3>2, <3>4, <3>6 DEF Spared, WorkType, AnswerType
      <4>. QED  BY <1>1, <2>1, <4>1
    <3>. QED  BY <3>5, <3>6
  <2>3. CASE EmitFinish(r)
    <3>1. PICK l \in Seq(ItemType) : l = <<Finish(r), Done(r)>> /\ l # <<>>
      BY FinishFacts DEF Own, Of
    <3>2. /\ pc[r] = "run" /\ Kind[r] = "stream" /\ pc' = [pc EXCEPT ![r] = "check"]
          /\ told' = [told EXCEPT ![r] = told[r] \o l] /\ mail' = [mail EXCEPT ![r] = l]
          /\ pending_bytes' = [pending_bytes EXCEPT ![r] = <<>>]
          /\ UNCHANGED <<header_sent, at>>
      BY <2>3, <3>1, Zenon DEF EmitFinish
    <3>3. CASE o = r
      BY <1>0, <2>1, <3>1, <3>2, <3>3, EmitStage
    <3>4. CASE o # r
      <4>1. Spared(o)
        BY <1>0, <3>2, <3>4 DEF Spared, WorkType, AnswerType
      <4>. QED  BY <1>1, <2>1, <4>1
    <3>. QED  BY <3>3, <3>4
  <2>4. CASE Advances(r)
    <3>1. CASE o = r
      <4>1. told' = told
        BY <2>4 DEF Advances
      <4>. QED  BY <1>0, <2>1, <2>4, <3>1, <4>1, AdvanceStage
    <3>2. CASE o # r
      <4>1. PICK q, l : Goes(r, q, l)
        BY <2>4, Zenon DEF Advances, Takes, Ends, Queues, Looks
      <4>2. pc'[o] = pc[o] /\ mail'[o] = mail[o]
        BY <1>0, <3>2, <4>1 DEF Goes, WorkType, AnswerType
      <4>3. Spared(o)
        BY <2>4, <4>2 DEF Advances, Spared
      <4>. QED  BY <1>1, <2>1, <4>3
    <3>. QED  BY <3>1, <3>2
  <2>. QED  BY <1>7, <2>2, <2>3, <2>4, WorkerSteps
<1>. QED  BY <1>0, <1>2, <1>3, <1>5, <1>6, <1>7, AllSteps

\* A worker's effect on the queue.
LEMMA WorkerQueue ==
    ASSUME AnswerType, NEW r \in Requests, Stage(r), WorkerStep(r)
    PROVE  /\ batch' = batch
           /\ \/ pending' = pending
              \/ pending' = Append(pending, [op |-> "EndInLoop", req |-> r])
              \/ \E x \in ItemOf(r) :
                    /\ x = Head(mail[r]) /\ told[r] # <<>>
                    /\ pending' = Append(pending, [op |-> "WriteInLoop", req |-> r, item |-> x])
<1>1. batch' = batch
  BY WorkerFrame
<1>2. CASE EmitFinish(r) \/ \E k \in 1 .. (Len(Text[r]) - at[r]) : Delta(r, k)
  BY <1>1, <1>2 DEF EmitFinish, Delta, loopVars
<1>3. CASE Advances(r)
  <2>1. CASE Takes(r) \/ Looks(r)
    BY <1>1, <2>1 DEF Takes, Looks
  <2>2. CASE Ends(r)
    BY <1>1, <2>2 DEF Ends
  <2>3. CASE Queues(r)
    <3>1. PICK m \in Seq(ItemOf(r)) : m = mail[r] /\ m # <<>>
      BY <2>3 DEF AnswerType, Queues, Stage
    <3>2. PICK x \in ItemOf(r) : x = Head(m)
      BY <3>1, HeadTailProperties
    <3>3. told[r] # <<>>
      BY <2>3 DEF Queues, Stage
    <3>4. pending' = Append(pending, [op |-> "WriteInLoop", req |-> r, item |-> x])
      BY <2>3, <3>1, <3>2, Zenon DEF Queues
    <3>. QED  BY <1>1, <3>1, <3>2, <3>3, <3>4, Zenon
  <2>. QED  BY <1>3, <2>1, <2>2, <2>3 DEF Advances
<1>. QED  BY <1>2, <1>3, WorkerSteps

\* A functor is queued only for a response that has begun.
LEMMA QueueInvStep ==
    ASSUME ConnInv, AnswerType, StageInv, [Next]_vars
    PROVE  QueueInv'
<1>0. LoopInv /\ ConnType /\ WorkType /\ InputInv /\ OnceInv
  BY DEF ConnInv
<1>1. PICK I : I = Issued'
  OBVIOUS
<1>2. Issued \subseteq I
  <2>1. ASSUME NEW f \in Issued PROVE f \in Issued'
    <3>1. f \in FunctorType /\ (f \in WriteFunctor => f.req \in Requests /\ told[f.req] # <<>>)
      BY FunctorFacts DEF Issued, WriteFunctor
    <3>2. f \in WriteFunctor => told'[f.req] # <<>>
      BY <3>1, StageStep
    <3>. QED  BY <3>1, <3>2 DEF Issued
  <2>. QED  BY <1>1, <2>1
<1>3. batch \in Seq(I) /\ pending \in Seq(I)
  BY <1>2, SeqMonotonic DEF StageInv, QueueInv
<1>4. OtherFunctor \subseteq I
  <2>1. OtherFunctor \cap WriteFunctor = {}
    BY DEF OtherFunctor, WriteFunctor
  <2>. QED  BY <1>1, <2>1 DEF Issued, FunctorType
<1>5. ASSUME batch' \in Seq(I), pending' \in Seq(I) PROVE QueueInv'
  BY <1>1, <1>5 DEF QueueInv
<1>6. ASSUME NEW f \in I, pending' = Append(pending, f), batch' = batch PROVE QueueInv'
  <2>1. Append(pending, f) \in Seq(I)
    BY <1>3, AppendProperties
  <2>. QED  BY <1>3, <1>5, <1>6, <2>1
<1>7. ASSUME batch # <<>>, batch' = Tail(batch), pending' = pending PROVE QueueInv'
  <2>1. Tail(batch) \in Seq(I)
    BY <1>3, <1>7, HeadTailProperties
  <2>. QED  BY <1>3, <1>5, <1>7, <2>1
<1>8. ASSUME UNCHANGED <<batch, pending>> PROVE QueueInv'
  BY <1>3, <1>5, <1>8
<1>9. CASE Passes
  <2>1. ASSUME NEW c \in Conns, batch' = batch,
               pending' = Append(pending, [op |-> "connectDestroyed", conn |-> c])
        PROVE  QueueInv'
    <3>1. PICK f \in I : f = [op |-> "connectDestroyed", conn |-> c]
      BY <1>4 DEF OtherFunctor
    <3>. QED  BY <1>6, <2>1, <3>1
  <2>2. CASE batch' = pending /\ pending' = <<>>
    <3>1. <<>> \in Seq(I)
      BY EmptySeq
    <3>. QED  BY <1>3, <1>5, <2>2, <3>1
  <2>. QED  BY <1>7, <1>8, <1>9, <2>1, <2>2 DEF Passes, Shifts
<1>10. CASE CallWrite
  BY <1>7, <1>10 DEF CallWrite, callFunctor
<1>11. ASSUME NEW c \in Conns, HandleRequest(c) PROVE QueueInv'
  BY <1>0, <1>8, <1>11, RequestFrame
<1>12. ASSUME NEW r \in Requests, ResumePlain(r) PROVE QueueInv'
  BY <1>8, <1>12 DEF ResumePlain, loopVars
<1>13. ASSUME NEW r \in Requests, WorkerStep(r) PROVE QueueInv'
  <2>0. /\ batch' = batch
        /\ \/ pending' = pending
           \/ pending' = Append(pending, [op |-> "EndInLoop", req |-> r])
           \/ \E x \in ItemOf(r) :
                 /\ told[r] # <<>>
                 /\ pending' = Append(pending, [op |-> "WriteInLoop", req |-> r, item |-> x])
    BY <1>13, WorkerQueue DEF StageInv
  <2>1. CASE pending' = Append(pending, [op |-> "EndInLoop", req |-> r])
    <3>1. PICK f \in I : f = [op |-> "EndInLoop", req |-> r]
      BY <1>4 DEF OtherFunctor
    <3>. QED  BY <1>6, <2>0, <2>1, <3>1
  <2>2. ASSUME NEW x \in ItemOf(r), told[r] # <<>>,
               pending' = Append(pending, [op |-> "WriteInLoop", req |-> r, item |-> x])
        PROVE  QueueInv'
    <3>1. PICK f \in WriteFunctor : f = [op |-> "WriteInLoop", req |-> r, item |-> x]
      BY FunctorFacts
    <3>2. f.req = r /\ f \in FunctorType
      BY <3>1 DEF FunctorType
    <3>3. f \in Issued
      BY <2>2, <3>2 DEF Issued
    <3>. QED  BY <1>2, <1>6, <2>0, <2>2, <3>1, <3>3
  <2>. QED  BY <1>8, <2>0, <2>1, <2>2
<1>. QED  BY <1>0, <1>9, <1>10, <1>11, <1>12, <1>13, AllSteps

\* What is sent is items.
LEMMA WireTypeStep ==
    ASSUME ConnInv, AnswerType, StageInv, WireType, [Next]_vars
    PROVE  WireType'
<1>0. LoopInv /\ ConnType /\ WorkType /\ InputInv /\ OnceInv
  BY DEF ConnInv
<1>1. ASSUME UNCHANGED <<wire, out>> PROVE WireType'
  BY <1>1 DEF WireType
<1>2. ASSUME NEW c \in Conns, NEW items, NEW r \in Requests, items \in Seq(ItemType),
             send(c, IF header_sent[r] THEN items ELSE <<Header(r)>> \o items)
      PROVE  WireType'
  <2>1. <<Header(r)>> \in Seq(ItemType)
    BY ItemFacts, OneItem
  <2>2. <<Header(r)>> \o items \in Seq(ItemType)
    BY <1>2, <2>1, ConcatProperties
  <2>3. PICK s \in Seq(ItemType) : s = IF header_sent[r] THEN items ELSE <<Header(r)>> \o items
    BY <1>2, <2>2
  <2>. QED  BY <1>2, <2>3, SendFacts
<1>3. CASE Passes
  <2>1. ASSUME NEW c \in Conns, wire' = [wire EXCEPT ![c] = <<>>], out' = out PROVE WireType'
    <3>1. <<>> \in Seq(ItemType)
      BY EmptySeq
    <3>. QED  BY <2>1, <3>1 DEF WireType
  <2>2. ASSUME NEW c \in Conns, handleWrite(c) PROVE WireType'
    BY <2>2, DrainFacts
  <2>. QED  BY <1>1, <1>3, <2>1, <2>2 DEF Passes, Carries
<1>4. CASE CallWrite
  <2>1. PICK f \in WriteFunctor :
           f = Head(batch) /\ f.req \in Requests /\ f.item \in ItemOf(f.req)
    BY <1>4, CalledFacts DEF StageInv
  <2>2. PICK r \in Requests, c \in Conns, items \in Seq(ItemType) :
           r = f.req /\ c = ConnOf(r) /\ items = <<f.item>>
    BY <2>1, OneItem, ConnOfInput
  <2>3. send(c, IF header_sent[r] THEN items ELSE <<Header(r)>> \o items)
    BY <1>4, <2>1, <2>2, Zenon DEF CallWrite, WriteInLoop
  <2>. QED  BY <1>2, <2>3
<1>5. ASSUME NEW c \in Conns, NEW r \in Requests, NEW items, NEW q, Responds(c, r, items, q)
      PROVE  WireType'
  BY <1>2, <1>5, RespondFacts DEF Responds, Own, Of
<1>6. ASSUME NEW c \in Conns, HandleRequest(c) PROVE WireType'
  <2>1. PICK r \in Requests : Leaves(r) \/ \E items, q : Responds(c, r, items, q)
    BY <1>0, <1>6, HandleSteps
  <2>. QED  BY <1>1, <1>5, <2>1 DEF Leaves
<1>7. ASSUME NEW r \in Requests, ResumePlain(r) PROVE WireType'
  BY <1>0, <1>5, <1>7, ResumeSteps, ConnOfInput
<1>8. ASSUME NEW r \in Requests, WorkerStep(r) PROVE WireType'
  BY <1>1, <1>8, WorkerFrame DEF connVars, kernelVars
<1>. QED  BY <1>0, <1>3, <1>4, <1>6, <1>7, <1>8, AllSteps

-----------------------------------------------------------------------------
(* The text of a stream.                                                   *)

\* The output of the engine so far.
Output(r) == SubSeq(Text[r], 1, at[r])

\* What a writer keeps is what follows the last whole character.
Keeps(s, b) == \E c \in 1 .. (Len(s) + 1) : IsCut(s, c) /\ b = SubSeq(s, c, Len(s))

\* The chunks show the output; until the stream is finished the writer keeps the rest.
Chunked(r) ==
    /\ Spread(TextOf, told[r]) = Visible(Output(r))
    /\ pc[r] \in {"none", "run"} => Undone(r, told[r])
    /\ Undone(r, told[r]) => Keeps(Output(r), pending_bytes[r])

TextInv == \A r \in Requests : Kind[r] = "stream" => Chunked(r)

\* The output is a text.
LEMMA OutputType ==
    ASSUME WorkType, NEW r \in Requests
    PROVE  Output(r) \in Seq(Byte)
<1>1. PICK t \in Seq(Byte), m \in Nat : t = Text[r] /\ m = at[r] /\ m <= Len(t)
  BY HttpAssumption DEF WorkType
<1>2. \A i \in 1 .. m : t[i] \in Byte
  BY <1>1, TextFacts
<1>3. 1 \in Int /\ m \in Int
  BY <1>1
<1>4. SubSeq(t, 1, m) \in Seq(Byte)
  BY <1>2, <1>3, SubSeqProperties
<1>. QED  BY <1>1, <1>4 DEF Output

\* A delta shows what it completes, and keeps the rest.
LEMMA DeltaShows ==
    ASSUME NEW s \in Seq(Byte), NEW u \in Seq(Byte), NEW v \in Seq(Byte), NEW b, NEW e,
           Keeps(s, b), v = b \o u, e \in 1 .. (Len(v) + 1), IsCut(v, e)
    PROVE  /\ Visible(s \o u) = Visible(s) \o Visible(v)
           /\ Keeps(s \o u, SubSeq(v, e, Len(v)))
<1>1. PICK c : IsCut(s, c) /\ b = SubSeq(s, c, Len(s))
  BY DEF Keeps
<1>2. PICK w \in Seq(Byte) : Grows(s, u, c, w)
  BY <1>1, VisibleGrows
<1>3. w = v
  BY <1>1, <1>2, Zenon DEF Grows
<1>4. PICK d \in 1 .. (Len(s \o u) + 1) :
         /\ IsCut(s \o u, d)
         /\ SubSeq(v, e, Len(v)) = SubSeq(s \o u, d, Len(s \o u))
  BY <1>2, <1>3, Zenon DEF Grows
<1>. QED  BY <1>2, <1>3, <1>4, Zenon DEF Grows, Keeps

\* A request of which a step changes nothing that the text depends on.
LEMMA ChunkedStays ==
    ASSUME NEW r, Chunked(r), told'[r] = told[r], at'[r] = at[r],
           pending_bytes'[r] = pending_bytes[r],
           pc'[r] \in {"none", "run"} => Undone(r, told[r])
    PROVE  Chunked(r)'
<1>1. Output(r)' = Output(r)
  BY DEF Output
<1>2. PICK t, y, o, b : t = told[r] /\ y = Output(r) /\ b = pending_bytes[r] /\ o = pc'[r]
  OBVIOUS
<1>3. told'[r] = t /\ Output(r)' = y /\ pending_bytes'[r] = b
  BY <1>1, <1>2
<1>4. Spread(TextOf, t) = Visible(y) /\ (Undone(r, t) => Keeps(y, b))
  BY <1>2 DEF Chunked
<1>. QED  BY <1>2, <1>3, <1>4, Zenon DEF Chunked

\* The chunks show the output, however the engine cuts it.
LEMMA TextInvStep ==
    ASSUME ConnInv, AnswerType, StageInv, TextInv, [Next]_vars
    PROVE  TextInv'
<1>0. LoopInv /\ ConnType /\ WorkType /\ InputInv /\ OnceInv /\ \A r \in Requests : Stage(r)
  BY DEF StageInv, ConnInv
<1>. SUFFICES ASSUME NEW o \in Requests, Kind[o] = "stream" PROVE Chunked(o)'
  BY DEF TextInv
<1>1. Chunked(o)
  BY DEF TextInv
<1>2. ASSUME told'[o] = told[o], at'[o] = at[o], pending_bytes'[o] = pending_bytes[o],
             pc'[o] = pc[o]
      PROVE  Chunked(o)'
  <2>1. pc'[o] \in {"none", "run"} => Undone(o, told[o])
    BY <1>1, <1>2 DEF Chunked
  <2>. QED  BY <1>1, <1>2, <2>1, ChunkedStays
<1>3. CASE Passes
  BY <1>2, <1>3 DEF Passes, Quiet
<1>4. CASE CallWrite
  BY <1>2, <1>4 DEF CallWrite
<1>5. ASSUME NEW c, NEW items, NEW q, Responds(c, o, items, q), pc[o] = "none" PROVE Chunked(o)'
  <2>1. PICK t : t = <<Header(o)>> \o items
    OBVIOUS
  <2>2. told'[o] = t /\ pc'[o] = q /\ at' = at /\ pending_bytes' = pending_bytes
    BY <1>0, <1>5, <2>1 DEF Responds, WorkType, AnswerType
  <2>3. Spread(TextOf, t) = <<>> /\ (q \in {"none", "run"} => Undone(o, t))
    <3>1. Spread(TextOf, t) = <<>> /\ (q = "run" => Undone(o, t))
      <4>1. /\ Own(o, <<Header(o)>> \o items)
            /\ q = "run" => Undone(o, <<Header(o)>> \o items)
        BY <1>5, RespondFacts
      <4>. QED  BY <2>1, <4>1, Zenon DEF Own, Of
    <3>2. q # "none"
      BY <1>5 DEF Responds
    <3>. QED  BY <3>1, <3>2
  <2>4. told[o] = <<>>
    BY <1>0, <1>5 DEF Stage
  <2>5. Spread(TextOf, <<>>) = <<>>
    <3>1. Maps(TextOf, ItemType, Chars)
      BY MapFacts
    <3>. QED  BY <3>1, SpreadFacts
  <2>6. Undone(o, <<>>)
    BY DEF Undone
  <2>7. PICK y, b : y = Output(o) /\ b = pending_bytes[o] /\ y = Output(o)'
    BY <2>2 DEF Output
  <2>8. Visible(y) = <<>> /\ Keeps(y, b)
    BY <1>1, <2>4, <2>5, <2>6, <2>7, Zenon DEF Chunked
  <2>9. pending_bytes'[o] = b
    BY <2>2, <2>7
  <2>. QED  BY <2>2, <2>3, <2>7, <2>8, <2>9, Zenon DEF Chunked
<1>6. ASSUME NEW r \in Requests, NEW items, NEW q, NEW c, Responds(c, r, items, q), r # o
      PROVE  Chunked(o)'
  <2>1. told'[o] = told[o] /\ at' = at /\ pending_bytes' = pending_bytes /\ pc'[o] = pc[o]
    BY <1>0, <1>6 DEF Responds, WorkType, AnswerType
  <2>. QED  BY <1>2, <2>1
<1>7. ASSUME NEW c \in Conns, HandleRequest(c) PROVE Chunked(o)'
  <2>1. PICK r \in Requests :
           pc[r] = "none" /\ (Leaves(r) \/ \E items, q : Responds(c, r, items, q))
    BY <1>0, <1>7, HandleSteps
  <2>2. CASE Leaves(r)
    <3>1. r # o /\ UNCHANGED <<told, at, pending_bytes>> /\ pc'[o] = pc[o]
      BY <1>0, <2>2 DEF Leaves, WorkType
    <3>. QED  BY <1>2, <3>1
  <2>. QED  BY <1>5, <1>6, <2>1, <2>2
<1>8. ASSUME NEW r \in Requests, ResumePlain(r) PROVE Chunked(o)'
  <2>1. waiting = r /\ Responds(ConnOf(r), r, <<Body(r)>>, "ended")
    BY <1>0, <1>8, ResumeSteps
  <2>2. r # o
    BY <1>0, <2>1 DEF Stage
  <2>. QED  BY <1>6, <2>1, <2>2
<1>9. ASSUME NEW r \in Requests, NEW k \in 1 .. (Len(Text[r]) - at[r]), Delta(r, k)
      PROVE  Chunked(o)'
  <2>1. PICK u, v \in Seq(Byte), x \in ItemOf(r), e \in Nat : EmitsDelta(r, k, u, v, x, e)
    BY <1>0, <1>9, DeltaFacts
  <2>2. pc[r] = "run" /\ pc' = [pc EXCEPT ![r] = "check"]
    BY <1>9 DEF Delta
  <2>3. CASE r # o
    <3>1. told'[o] = told[o] /\ at'[o] = at[o] /\ pending_bytes'[o] = pending_bytes[o]
          /\ pc'[o] = pc[o]
      BY <1>0, <2>1, <2>2, <2>3 DEF EmitsDelta, WorkType, AnswerType
    <3>. QED  BY <1>2, <3>1
  <2>4. CASE r = o
    <3>1. PICK s \in Seq(Byte), b \in Seq(Byte) : s = Output(r) /\ b = pending_bytes[r]
      BY <1>0, OutputType DEF AnswerType
    <3>2. Chunked(r) /\ Keeps(s, b)
      BY <1>1, <2>2, <2>4, <3>1 DEF Chunked
    <3>3. v = b \o u /\ e \in 1 .. (Len(v) + 1) /\ IsCut(v, e)
      BY <2>1, <3>1, Zenon DEF EmitsDelta
    <3>4. Visible(s \o u) = Visible(s) \o Visible(v) /\ Keeps(s \o u, SubSeq(v, e, Len(v)))
      BY <3>2, <3>3, DeltaShows
    <3>5. /\ told'[r] = told[r] \o <<x>> /\ pending_bytes'[r] = SubSeq(v, e, Len(v))
          /\ at'[r] = at[r] + k /\ pc'[r] = "check"
      BY <1>0, <2>1, <2>2, Zenon DEF EmitsDelta, WorkType, AnswerType
    <3>6. Output(r)' = s \o u
      <4>1. SubSeq(Text[r], 1, at[r] + k) = SubSeq(Text[r], 1, at[r]) \o u
        BY <2>1 DEF EmitsDelta
      <4>. QED  BY <3>1, <3>5, <4>1, Zenon DEF Output
    <3>7. Spread(TextOf, told[r] \o <<x>>) = Visible(s) \o Visible(v)
      <4>1. PICK t \in Seq(ItemType), l \in Seq(ItemType) : t = told[r] /\ l = <<x>>
        BY OneItem DEF AnswerType
      <4>2. Spread(TextOf, t \o l) = Spread(TextOf, t) \o Spread(TextOf, l)
        BY JoinItems
      <4>3. Spread(TextOf, <<x>>) = x.text
        BY OneItem
      <4>4. x.text = Visible(v)
        BY <2>1 DEF EmitsDelta
      <4>5. Spread(TextOf, told[r]) = Visible(s)
        BY <3>1, <3>2 DEF Chunked
      <4>. QED  BY <4>1, <4>2, <4>3, <4>4, <4>5, Zenon
    <3>8. Chunked(r)'
      BY <3>4, <3>5, <3>6, <3>7, Zenon DEF Chunked
    <3>. QED  BY <2>4, <3>8, Zenon
  <2>. QED  BY <2>3, <2>4
<1>10. ASSUME NEW r \in Requests, EmitFinish(r) PROVE Chunked(o)'
  <2>1. PICK l \in Seq(ItemType) : l = <<Finish(r), Done(r)>> /\ Own(r, l)
    BY FinishFacts DEF Own, Of
  <2>2. /\ told' = [told EXCEPT ![r] = told[r] \o l] /\ at' = at
        /\ pending_bytes' = [pending_bytes EXCEPT ![r] = <<>>]
        /\ pc' = [pc EXCEPT ![r] = "check"]
    BY <1>10, <2>1, Zenon DEF EmitFinish
  <2>3. CASE r # o
    <3>1. told'[o] = told[o] /\ at'[o] = at[o] /\ pending_bytes'[o] = pending_bytes[o]
          /\ pc'[o] = pc[o]
      BY <1>0, <2>2, <2>3 DEF WorkType, AnswerType
    <3>. QED  BY <1>2, <3>1
  <2>4. CASE r = o
    <3>1. PICK t \in Seq(ItemType), w \in Seq(ItemType) : t = told[r] /\ w = t \o l
      <4>1. told[r] \in Seq(ItemType)
        BY DEF AnswerType
      <4>. QED  BY <4>1, ConcatProperties
    <3>2. told'[r] = w /\ pc'[r] = "check" /\ Output(r)' = Output(r)
      BY <1>0, <2>2, <3>1 DEF WorkType, AnswerType, Output
    <3>3. ~Undone(r, w)
      <4>1. PICK m \in Nat : m = Len(t)
        BY LenProperties
      <4>2. Len(l) = 2 /\ l[2] = Done(r)
        BY <2>1
      <4>3. /\ Len(t \o l) = Len(t) + Len(l)
            /\ \A i \in 1 .. (Len(t) + Len(l)) :
                  (t \o l)[i] = IF i <= Len(t) THEN t[i] ELSE l[i - Len(t)]
        BY ConcatProperties
      <4>4. m + 2 \in 1 .. (Len(t) + Len(l)) /\ ~(m + 2 <= Len(t)) /\ (m + 2) - Len(t) = 2
        BY <4>1, <4>2
      <4>5. w[m + 2] = Done(r) /\ m + 2 \in 1 .. Len(w)
        BY <3>1, <4>2, <4>3, <4>4
      <4>6. DOMAIN w = 1 .. Len(w)
        BY LenProperties
      <4>. QED  BY <4>5, <4>6 DEF Undone
    <3>4. Spread(TextOf, w) = Visible(Output(r))
      <4>1. Spread(TextOf, t \o l) = Spread(TextOf, t) \o Spread(TextOf, l)
        BY JoinItems
      <4>2. Spread(TextOf, l) = <<>>
        BY <2>1 DEF Own, Of
      <4>3. Spread(TextOf, t) \in Seq(Chars)
        <5>1. Maps(TextOf, ItemType, Chars)
          BY MapFacts
        <5>. QED  BY <5>1, SpreadFacts
      <4>4. Spread(TextOf, t) \o <<>> = Spread(TextOf, t)
        BY <4>3, ConcatEmptySeq
      <4>5. Spread(TextOf, t) = Visible(Output(r))
        BY <1>1, <2>4, <3>1 DEF Chunked
      <4>. QED  BY <3>1, <4>1, <4>2, <4>4, <4>5, Zenon
    <3>5. Chunked(r)'
      BY <3>2, <3>3, <3>4, Zenon DEF Chunked
    <3>. QED  BY <2>4, <3>5, Zenon
  <2>. QED  BY <2>3, <2>4
<1>11. ASSUME NEW r \in Requests, Advances(r) PROVE Chunked(o)'
  <2>1. told' = told /\ at' = at /\ pending_bytes' = pending_bytes
    BY <1>11 DEF Advances
  <2>2. pc'[o] \in {"none", "run"} => Undone(o, told[o])
    <3>1. CASE r # o
      <4>1. PICK q, l : Goes(r, q, l)
        BY <1>11, Zenon DEF Advances, Takes, Ends, Queues, Looks
      <4>2. pc'[o] = pc[o]
        BY <1>0, <3>1, <4>1 DEF Goes, WorkType
      <4>. QED  BY <1>1, <4>2 DEF Chunked
    <3>2. CASE r = o
      <4>1. ASSUME NEW q, NEW l, Goes(r, q, l) PROVE pc'[r] = q
        BY <1>0, <4>1 DEF Goes, WorkType
      <4>2. CASE Takes(r)
        <5>1. pc'[r] = IF Len(mail[r]) > 1 THEN "check" ELSE IF Emitted(r) THEN "close" ELSE "run"
          BY <4>1, <4>2 DEF Takes
        <5>2. pc'[r] \in {"none", "run"} => ~Emitted(r)
          BY <5>1
        <5>. QED  BY <3>2, <5>2 DEF Emitted, Undone
      <4>3. CASE Ends(r) \/ Queues(r) \/ Looks(r)
        <5>1. pc'[r] \in {"endwake", "wake", "push", "dead", "ended"}
          BY <4>1, <4>3 DEF Ends, Queues, Looks
        <5>. QED  BY <3>2, <5>1
      <4>. QED  BY <1>11, <4>2, <4>3 DEF Advances
    <3>. QED  BY <3>1, <3>2
  <2>. QED  BY <1>1, <2>1, <2>2, ChunkedStays
<1>. QED  BY <1>0, <1>3, <1>4, <1>7, <1>8, <1>9, <1>10, <1>11, AllSteps, WorkerSteps

-----------------------------------------------------------------------------
(* A connection that is up.                                                *)

\* A request's connection has not begun to go down.
Up(r) == state[ConnOf(r)] \in {"kConnecting", "kConnected"}

\* On a connection that is up, a response that has begun has its header, a session
\* is closed only at its end, and no write has failed.
Sound(r) ==
    Up(r) => /\ told[r] # <<>> => header_sent[r]
             /\ closed[r] => pc[r] \in {"endwake", "ended"}
             /\ pc[r] = "endwake" => mail[r] = <<>>
             /\ pc[r] # "dead"

UpInv ==
    /\ \A r \in Requests : Sound(r)
    /\ \A c \in Conns : context[c] # None => ConnOf(context[c]) = c
    /\ \A c \in Conns : peer[c] = "closed" => wire[c] = <<>>

\* Up is lost for good, and a request that has begun has it only while connected.
LEMMA UpFacts ==
    ASSUME ConnInv, [Next]_vars, NEW r \in Requests
    PROVE  /\ Up(r)' => Up(r)
           /\ Up(r) /\ pc[r] # "none" => connected(ConnOf(r))
           /\ connected(ConnOf(r)) => Up(r)
<1>1. PICK c \in Conns : c = ConnOf(r)
  BY ConnOfInput
<1>2. Up(r)' => Up(r)
  <2>1. CASE Up(r)
    BY <2>1
  <2>2. CASE ~Up(r)
    <3>1. state[c] # "kConnecting" /\ ~connected(c)
      BY <1>1, <2>2 DEF Up, connected
    <3>2. state'[c] # "kConnecting" /\ ~connected(c)'
      BY <3>1, StaysDown DEF ConnInv
    <3>. QED  BY <1>1, <3>2 DEF Up, connected
  <2>. QED  BY <2>1, <2>2
<1>3. Up(r) /\ pc[r] # "none" => connected(ConnOf(r))
  BY DEF Up, connected, ConnInv, BegunInv
<1>4. connected(ConnOf(r)) => Up(r)
  BY DEF connected, Up
<1>. QED  BY <1>2, <1>3, <1>4

\* A closed client stays closed.
LEMMA PeerStays ==
    ASSUME ConnInv, AnswerType, StageInv, [Next]_vars, NEW c \in Conns, peer[c] = "closed"
    PROVE  peer'[c] = "closed"
<1>0. LoopInv /\ ConnType /\ WorkType /\ InputInv /\ OnceInv
  BY DEF ConnInv
<1>1. CASE Passes
  BY <1>0, <1>1 DEF Passes, Carries, handleWrite, ConnType
<1>2. CASE CallWrite
  BY <1>2 DEF CallWrite
<1>3. ASSUME NEW d \in Conns, HandleRequest(d) PROVE peer'[c] = "closed"
  BY <1>0, <1>3, RequestFrame
<1>4. ASSUME NEW r \in Requests, ResumePlain(r) PROVE peer'[c] = "closed"
  BY <1>4 DEF ResumePlain
<1>5. ASSUME NEW r \in Requests, WorkerStep(r) PROVE peer'[c] = "closed"
  BY <1>5, WorkerFrame DEF kernelVars
<1>. QED  BY <1>0, <1>1, <1>2, <1>3, <1>4, <1>5, AllSteps

\* Items of r alone are sent on its connection.
Sends(r, s) == send(ConnOf(r), s) /\ peer' = peer /\ Of(r, s)

\* The items of a write, with the header or without.
LEMMA WriteOf ==
    ASSUME NEW r \in Requests, NEW items, Of(r, items)
    PROVE  Of(r, IF header_sent[r] THEN items ELSE <<Header(r)>> \o items)
<1>1. Of(r, <<Header(r)>>)
  BY ItemFacts, OfFacts
<1>2. Of(r, <<Header(r)>> \o items)
  BY <1>1, OfFacts
<1>. QED  BY <1>2

\* The functor's.
LEMMA CallSends ==
    ASSUME QueueInv, CallWrite
    PROVE  \E f \in WriteFunctor, b \in Seq(Issued) :
              /\ batch = <<f>> \o b /\ batch' = b /\ pending' = pending /\ f \in Issued
              /\ f.req \in Requests /\ f.item \in ItemOf(f.req) /\ told[f.req] # <<>>
              /\ Sends(f.req, IF header_sent[f.req] THEN <<f.item>>
                              ELSE <<Header(f.req)>> \o <<f.item>>)
<1>1. PICK f \in WriteFunctor, b \in Seq(Issued) :
              /\ f = Head(batch) /\ b = Tail(batch) /\ batch' = b /\ batch = <<f>> \o b
              /\ batch # <<>> /\ f \in Issued
              /\ f.req \in Requests /\ f.item \in ItemOf(f.req) /\ told[f.req] # <<>>
  BY CalledFacts
<1>2. pending' = pending /\ peer' = peer /\ WriteInLoop(f.req, <<f.item>>)
  BY <1>1, Zenon DEF CallWrite
<1>3. send(ConnOf(f.req), IF header_sent[f.req] THEN <<f.item>>
                          ELSE <<Header(f.req)>> \o <<f.item>>)
  BY <1>2, Zenon DEF WriteInLoop
<1>4. PICK r \in Requests, x \in ItemOf(f.req) : r = f.req /\ x = f.item
  BY <1>1
<1>5. Of(r, <<x>>)
  BY <1>4, OfFacts
<1>6. Of(r, IF header_sent[r] THEN <<x>> ELSE <<Header(r)>> \o <<x>>)
  BY <1>5, WriteOf
<1>7. Sends(f.req, IF header_sent[f.req] THEN <<f.item>>
                   ELSE <<Header(f.req)>> \o <<f.item>>)
  BY <1>2, <1>3, <1>4, <1>6, Zenon DEF Sends
<1>. QED  BY <1>1, <1>2, <1>7, Zenon

\* The loop's thread's.
LEMMA RespondSends ==
    ASSUME NEW r \in Requests, NEW items, NEW q, Responds(ConnOf(r), r, items, q)
    PROVE  Sends(r, IF header_sent[r] THEN items ELSE <<Header(r)>> \o items)
<1>1. Of(r, items)
  BY RespondFacts DEF Own
<1>2. Of(r, IF header_sent[r] THEN items ELSE <<Header(r)>> \o items)
  BY <1>1, WriteOf
<1>. QED  BY <1>2, Zenon DEF Responds, Sends

\* What a step does to the wire.
LEMMA WireSteps ==
    ASSUME ConnInv, AnswerType, StageInv, [Next]_vars
    PROVE  \/ Carries
           \/ \E r \in Requests : \E s : Sends(r, s)
<1>0. LoopInv /\ ConnType /\ WorkType /\ InputInv /\ OnceInv /\ QueueInv
  BY DEF ConnInv, StageInv
<1>1. CASE CallWrite
  BY <1>0, <1>1, CallSends, Zenon
<1>2. ASSUME UNCHANGED <<wire, out, peer>> PROVE Carries
  BY <1>2 DEF Carries
<1>3. ASSUME NEW c \in Conns, HandleRequest(c) PROVE Carries \/ \E r \in Requests : \E s : Sends(r, s)
  <2>1. PICK r \in Requests :
           ConnOf(r) = c /\ (Leaves(r) \/ \E items, q : Responds(c, r, items, q))
    BY <1>0, <1>3, HandleSteps
  <2>2. CASE Leaves(r)
    BY <1>2, <2>2 DEF Leaves
  <2>3. ASSUME NEW items, NEW q, Responds(c, r, items, q) PROVE \E s : Sends(r, s)
    <3>1. Responds(ConnOf(r), r, items, q)
      BY <2>1, <2>3
    <3>. QED  BY <3>1, RespondSends, Zenon
  <2>. QED  BY <2>1, <2>2, <2>3, Zenon
<1>4. ASSUME NEW r \in Requests, ResumePlain(r) PROVE \E s : Sends(r, s)
  <2>1. Responds(ConnOf(r), r, <<Body(r)>>, "ended")
    BY <1>0, <1>4, ResumeSteps
  <2>. QED  BY <2>1, RespondSends, Zenon
<1>5. ASSUME NEW r \in Requests, WorkerStep(r) PROVE Carries
  BY <1>2, <1>5, WorkerFrame DEF connVars, kernelVars
<1>6. CASE Passes
  BY <1>6 DEF Passes
<1>. QED  BY <1>0, <1>1, <1>3, <1>4, <1>5, <1>6, AllSteps, Zenon

\* A client that has gone has nothing.
LEMMA GoneStep ==
    ASSUME ConnInv, AnswerType, StageInv, WireType, UpInv, [Next]_vars, NEW c \in Conns,
           peer'[c] = "closed"
    PROVE  wire'[c] = <<>>
<1>0. ConnType /\ (peer[c] = "closed" => wire[c] = <<>>)
  BY DEF ConnInv, UpInv
<1>1. CASE Carries
  <2>1. CASE wire' = wire /\ (peer' = peer \/ \E d \in Conns : peer' = [peer EXCEPT ![d] = "open"])
    BY <1>0, <2>1 DEF ConnType
  <2>2. ASSUME NEW d \in Conns, handleWrite(d) PROVE wire'[c] = <<>>
    <3>1. peer' = peer
      BY <2>2 DEF handleWrite
    <3>2. CASE c = d
      BY <1>0, <2>2, <3>1, <3>2, DrainFacts
    <3>3. CASE c # d
      BY <1>0, <2>2, <3>1, <3>3, DrainFacts
    <3>. QED  BY <3>2, <3>3
  <2>3. ASSUME NEW d \in Conns, peer' = [peer EXCEPT ![d] = "closed"],
               wire' = [wire EXCEPT ![d] = <<>>]
        PROVE  wire'[c] = <<>>
    BY <1>0, <2>3 DEF ConnType, WireType
  <2>. QED  BY <1>1, <2>1, <2>2, <2>3 DEF Carries
<1>2. ASSUME NEW r \in Requests, NEW s, Sends(r, s) PROVE wire'[c] = <<>>
  <2>1. PICK d \in Conns : d = ConnOf(r)
    BY ConnOfInput
  <2>2. s \in Seq(ItemType) /\ send(d, s) /\ peer' = peer
    BY <1>2, <2>1 DEF Sends, Of
  <2>3. CASE c = d
    BY <1>0, <2>2, <2>3, SendFacts
  <2>4. CASE c # d
    BY <1>0, <2>2, <2>4, SendFacts
  <2>. QED  BY <2>3, <2>4
<1>. QED  BY <1>1, <1>2, WireSteps

\* The loop's thread answers a request whose connection is up only while connected.
LEMMA AnswersConnected ==
    ASSUME ConnInv, AnswerType, StageInv, [Next]_vars, NEW r \in Requests, Up(r),
           pc[r] # "none" \/ <<ConnOf(r), "in">> \in active
    PROVE  connected(ConnOf(r))
<1>1. CASE pc[r] # "none"
  BY <1>1, UpFacts
<1>2. CASE <<ConnOf(r), "in">> \in active
  <2>1. PICK c \in Conns : c = ConnOf(r)
    BY ConnOfInput
  <2>2. state[c] # "kConnecting"
    BY <1>2, <2>1 DEF ConnInv, StateInv
  <2>. QED  BY <2>1, <2>2 DEF Up, connected
<1>. QED  BY <1>1, <1>2

\* What holds of a response on a connection that is up goes on holding.
LEMMA SoundStep ==
    ASSUME ConnInv, AnswerType, StageInv, UpInv, [Next]_vars, NEW o \in Requests
    PROVE  Sound(o)'
<1>. DEFINE Good == /\ told'[o] # <<>> => header_sent'[o]
                    /\ closed'[o] => pc'[o] \in {"endwake", "ended"}
                    /\ pc'[o] = "endwake" => mail'[o] = <<>>
                    /\ pc'[o] # "dead"
<1>. SUFFICES ASSUME Up(o)' PROVE Good
  BY Zenon DEF Sound
<1>0. LoopInv /\ ConnType /\ WorkType /\ InputInv /\ OnceInv /\ QueueInv /\ Stage(o)
  BY DEF ConnInv, StageInv
<1>1. Up(o)
  BY UpFacts
<1>2. /\ told[o] # <<>> => header_sent[o]
      /\ closed[o] => pc[o] \in {"endwake", "ended"}
      /\ pc[o] = "endwake" => mail[o] = <<>>
      /\ pc[o] # "dead"
  BY <1>1 DEF UpInv, Sound
<1>3. ASSUME told'[o] = told[o], header_sent[o] => header_sent'[o], closed'[o] = closed[o],
             pc'[o] = pc[o], mail'[o] = mail[o]
      PROVE  Good
  BY <1>2, <1>3
<1>4. CASE Passes
  <2>1. told' = told /\ header_sent' = header_sent /\ pc' = pc /\ mail' = mail
    BY <1>4 DEF Passes, Quiet
  <2>2. closed'[o] = closed[o]
    <3>1. CASE closed' = closed
      BY <3>1
    <3>2. ASSUME NEW c \in Conns, context[c] # None, state'[c] = "kDisconnected",
                 closed' = [closed EXCEPT ![context[c]] = TRUE]
          PROVE  closed'[o] = closed[o]
      <4>1. ConnOf(context[c]) = c
        BY <3>2 DEF UpInv
      <4>2. context[c] # o
        BY <3>2, <4>1 DEF Up
      <4>. QED  BY <3>2, <4>2 DEF AnswerType
    <3>. QED  BY <1>4, <3>1, <3>2 DEF Passes, Sheds
  <2>. QED  BY <1>3, <2>1, <2>2
<1>5. CASE CallWrite
  <2>1. PICK r, c : header_sent' = [header_sent EXCEPT ![r] = @ \/ connected(c)]
    BY <1>5 DEF CallWrite, WriteInLoop
  <2>2. header_sent[o] => header_sent'[o]
    BY <2>1 DEF AnswerType
  <2>3. UNCHANGED <<told, closed, pc, mail>>
    BY <1>5 DEF CallWrite
  <2>. QED  BY <1>3, <2>2, <2>3
<1>6. ASSUME NEW c, NEW r \in Requests, NEW items, NEW q, Responds(c, r, items, q), o # r
      PROVE  Good
  <2>1. told'[o] = told[o] /\ header_sent'[o] = header_sent[o] /\ mail' = mail /\ pc'[o] = pc[o]
    BY <1>0, <1>6 DEF Responds, WorkType, AnswerType
  <2>2. closed'[o] = closed[o]
    BY <1>6 DEF Responds, AnswerType
  <2>. QED  BY <1>3, <2>1, <2>2
<1>7. ASSUME NEW items, NEW q, Responds(ConnOf(o), o, items, q),
             pc[o] # "none" \/ <<ConnOf(o), "in">> \in active,
             q = "ended" \/ pc[o] = "none"
      PROVE  Good
  <2>1. connected(ConnOf(o))
    BY <1>1, <1>7, AnswersConnected
  <2>2. header_sent'[o] = TRUE
    BY <1>7, <2>1 DEF Responds, AnswerType
  <2>3. pc'[o] = q /\ q \in {"run", "ended"} /\ (q = "run" => closed' = closed /\ Kind[o] = "stream")
    BY <1>0, <1>7 DEF Responds, WorkType
  <2>4. q = "run" => ~closed[o]
    BY <1>2, <1>7
  <2>5. closed'[o] => q = "ended"
    BY <2>3, <2>4
  <2>. QED  BY <2>2, <2>3, <2>5
<1>8. ASSUME NEW c \in Conns, HandleRequest(c) PROVE Good
  <2>1. PICK r \in Requests :
           /\ ConnOf(r) = c /\ pc[r] = "none" /\ <<c, "in">> \in active
           /\ Leaves(r) \/ \E items, q : Responds(c, r, items, q)
    BY <1>0, <1>8, HandleSteps
  <2>2. CASE Leaves(r)
    <3>1. UNCHANGED <<told, header_sent, closed, mail>> /\ pc' = [pc EXCEPT ![r] = "run"]
      BY <2>2 DEF Leaves
    <3>2. CASE o = r
      <4>1. pc'[o] = "run" /\ ~closed[o]
        BY <1>0, <1>2, <2>1, <3>1, <3>2 DEF WorkType
      <4>. QED  BY <1>2, <3>1, <4>1
    <3>3. CASE o # r
      <4>1. pc'[o] = pc[o]
        BY <1>0, <3>1, <3>3 DEF WorkType
      <4>. QED  BY <1>3, <3>1, <4>1
    <3>. QED  BY <3>2, <3>3
  <2>3. ASSUME NEW items, NEW q, Responds(c, r, items, q) PROVE Good
    <3>1. CASE o = r
      <4>1. Responds(ConnOf(o), o, items, q) /\ <<ConnOf(o), "in">> \in active /\ pc[o] = "none"
        BY <2>1, <2>3, <3>1
      <4>. QED  BY <1>7, <4>1
    <3>2. CASE o # r
      BY <1>6, <2>3, <3>2
    <3>. QED  BY <3>1, <3>2
  <2>. QED  BY <2>1, <2>2, <2>3
<1>9. ASSUME NEW r \in Requests, ResumePlain(r) PROVE Good
  <2>1. pc[r] = "ended" /\ Responds(ConnOf(r), r, <<Body(r)>>, "ended")
    BY <1>0, <1>9, ResumeSteps
  <2>2. CASE o = r
    <3>1. Responds(ConnOf(o), o, <<Body(o)>>, "ended") /\ pc[o] # "none"
      BY <2>1, <2>2
    <3>. QED  BY <1>7, <3>1
  <2>3. CASE o # r
    BY <1>6, <2>1, <2>3
  <2>. QED  BY <2>2, <2>3
<1>10. ASSUME NEW r \in Requests, EmitFinish(r) \/ \E k \in 1 .. (Len(Text[r]) - at[r]) : Delta(r, k)
       PROVE  Good
  <2>1. /\ pc[r] = "run" /\ Kind[r] = "stream" /\ pc' = [pc EXCEPT ![r] = "check"]
        /\ UNCHANGED <<closed, header_sent>>
        /\ \E x : told' = [told EXCEPT ![r] = x]
        /\ \E x : mail' = [mail EXCEPT ![r] = x]
    BY <1>10 DEF EmitFinish, Delta
  <2>2. CASE o = r
    <3>1. pc'[o] = "check" /\ ~closed[o] /\ header_sent[o]
      BY <1>0, <1>2, <2>1, <2>2 DEF WorkType, Stage
    <3>. QED  BY <2>1, <3>1
  <2>3. CASE o # r
    <3>1. pc'[o] = pc[o] /\ told'[o] = told[o] /\ mail'[o] = mail[o]
      BY <1>0, <2>1, <2>3 DEF WorkType, AnswerType
    <3>. QED  BY <1>3, <2>1, <3>1
  <2>. QED  BY <2>2, <2>3
<1>11. ASSUME NEW r \in Requests, Advances(r) PROVE Good
  <2>1. told' = told /\ header_sent' = header_sent
    BY <1>11 DEF Advances
  <2>2. ASSUME NEW q, NEW l, Goes(r, q, l)
        PROVE  IF o = r THEN pc'[o] = q /\ mail'[o] = l ELSE pc'[o] = pc[o] /\ mail'[o] = mail[o]
    BY <1>0, <2>2 DEF Goes, WorkType, AnswerType
  <2>3. CASE o # r
    <3>1. \E q, l : Goes(r, q, l)
      BY <1>11, Zenon DEF Advances, Takes, Ends, Queues, Looks
    <3>2. closed'[o] = closed[o]
      BY <1>11, <2>3 DEF Advances, Takes, Ends, Queues, Looks, AnswerType
    <3>. QED  BY <1>3, <2>1, <2>2, <2>3, <3>1, <3>2
  <2>4. CASE o = r
    <3>0. pc[o] # "none" => connected(ConnOf(o))
      BY <1>1, UpFacts
    <3>1. CASE Takes(r)
      <4>1. pc[o] = "wake" /\ ~closed[o] /\ closed' = closed
        BY <1>2, <2>4, <3>1 DEF Takes
      <4>2. pc'[o] \in {"check", "close", "run"}
        BY <2>2, <2>4, <3>1 DEF Takes
      <4>. QED  BY <1>2, <2>1, <4>1, <4>2
    <3>2. CASE Ends(r)
      <4>1. pc[o] = "close" /\ mail[o] = <<>>
        BY <1>0, <1>2, <2>4, <3>0, <3>2 DEF Ends, Stage
      <4>2. pc'[o] = "endwake" /\ mail'[o] = mail[o]
        BY <2>2, <2>4, <3>2 DEF Ends
      <4>. QED  BY <1>2, <2>1, <4>1, <4>2
    <3>3. CASE Queues(r)
      <4>1. pc[o] = "push" /\ ~closed[o] /\ closed' = closed
        BY <1>2, <2>4, <3>3 DEF Queues
      <4>2. pc'[o] = "wake"
        BY <2>2, <2>4, <3>3 DEF Queues
      <4>. QED  BY <1>2, <2>1, <4>1, <4>2
    <3>4. CASE Looks(r)
      <4>1. closed' = closed /\ ~(pc[o] = "wake" /\ ~connected(ConnOf(o)))
        BY <3>0, <3>4 DEF Looks
      <4>2. \/ pc[o] = "check" /\ pc'[o] = "push"
            \/ pc'[o] = "ended"
        BY <2>2, <2>4, <3>4, <4>1 DEF Looks
      <4>. QED  BY <1>2, <2>1, <4>1, <4>2
    <3>. QED  BY <1>11, <3>1, <3>2, <3>3, <3>4 DEF Advances
  <2>. QED  BY <2>3, <2>4
<1>12. ASSUME NEW r \in Requests, WorkerStep(r) PROVE Good
  BY <1>10, <1>11, <1>12, WorkerSteps
<1>. QED  BY <1>0, <1>4, <1>5, <1>8, <1>9, <1>12, AllSteps

\* And with it what holds of the connections.
LEMMA UpInvStep ==
    ASSUME ConnInv, AnswerType, StageInv, WireType, UpInv, [Next]_vars
    PROVE  UpInv'
<1>0. LoopInv /\ ConnType /\ WorkType /\ InputInv /\ OnceInv
  BY DEF ConnInv
<1>1. \A r \in Requests : Sound(r)'
  BY SoundStep
<1>2. \A c \in Conns : peer'[c] = "closed" => wire'[c] = <<>>
  BY GoneStep
<1>3. \A c \in Conns : context'[c] # None => ConnOf(context'[c]) = c
  <2>0. \A c \in Conns : context[c] # None => ConnOf(context[c]) = c
    BY DEF UpInv
  <2>1. CASE context' = context
    BY <2>0, <2>1
  <2>2. ASSUME NEW d \in Conns, HandleRequest(d)
        PROVE  \A c \in Conns : context'[c] # None => ConnOf(context'[c]) = c
    <3>1. PICK r \in Requests : ConnOf(r) = d /\ context' \in {context, [context EXCEPT ![d] = r]}
      BY <1>0, <2>2, HandleSteps
    <3>2. CASE context' = [context EXCEPT ![d] = r]
      <4>1. ASSUME NEW c \in Conns PROVE context'[c] = IF c = d THEN r ELSE context[c]
        BY <1>0, <3>2 DEF ConnType
      <4>. QED  BY <2>0, <3>1, <4>1
    <3>. QED  BY <2>1, <3>1, <3>2
  <2>3. CASE Passes
    BY <2>1, <2>3 DEF Passes, Quiet
  <2>4. CASE CallWrite
    BY <2>1, <2>4 DEF CallWrite
  <2>5. ASSUME NEW r \in Requests, ResumePlain(r) \/ WorkerStep(r) PROVE context' = context
    BY <2>5, WorkerFrame DEF ResumePlain
  <2>. QED  BY <1>0, <2>1, <2>2, <2>3, <2>4, <2>5, AllSteps
<1>. QED  BY <1>1, <1>2, <1>3 DEF UpInv

-----------------------------------------------------------------------------
(* What was written for a request is what was sent, what is queued and     *)
(* what its worker has left.                                               *)

Sent(r)   == Spread(Mine(r), wire[ConnOf(r)] \o out[ConnOf(r)])
Queued(r) == Spread(Due(r), Functors)
Left(r)   == IF pc[r] \in {"wake", "dead"} THEN Tail(mail[r]) ELSE mail[r]
Flow(r)   == \E t \in Seq(ItemType) :
                told[r] = Sent(r) \o t /\ (Up(r) => t = Queued(r) \o Left(r))

FlowInv == \A r \in Requests : peer[ConnOf(r)] # "closed" => Flow(r)

Types == AnswerType /\ WireType /\ QueueType

\* The writes of r in functors joined.
LEMMA JoinDue ==
    ASSUME NEW r \in Requests, NEW s \in Seq(FunctorType), NEW t \in Seq(FunctorType)
    PROVE  /\ Spread(Due(r), s \o t) = Spread(Due(r), s) \o Spread(Due(r), t)
           /\ Spread(Due(r), s) \in Seq(ItemType)
<1>1. Maps(Due(r), FunctorType, ItemType)
  BY MapFacts
<1>2. Spread(Due(r), s \o t) = Spread(Due(r), s) \o Spread(Due(r), t)
  BY <1>1, SpreadFacts
<1>3. Spread(Due(r), s) \in Seq(ItemType)
  BY <1>1, SpreadFacts
<1>. QED  BY <1>2, <1>3

\* They are sequences of items.
LEMMA FlowTypes ==
    ASSUME Types, NEW r \in Requests, Stage(r)
    PROVE  /\ told[r] \in Seq(ItemType) /\ Sent(r) \in Seq(ItemType)
           /\ Queued(r) \in Seq(ItemType) /\ Left(r) \in Seq(ItemType)
<1>1. told[r] \in Seq(ItemType)
  BY DEF Types, AnswerType
<1>2. Sent(r) \in Seq(ItemType)
  <2>1. PICK c \in Conns : c = ConnOf(r)
    BY ConnOfInput
  <2>2. wire[c] \in Seq(ItemType) /\ out[c] \in Seq(ItemType)
    BY DEF Types, WireType
  <2>3. PICK s \in Seq(ItemType) : s = wire[c] \o out[c]
    BY <2>2, ConcatProperties
  <2>4. PICK F, S : F = Mine(r) /\ S = ItemType /\ Maps(F, ItemType, S)
    BY MapFacts
  <2>5. Maps(F, ItemType, S)
    BY <2>4
  <2>6. Spread(F, s) \in Seq(S)
    BY <2>5, SpreadFacts
  <2>. QED  BY <2>1, <2>3, <2>4, <2>6, Zenon DEF Sent
<1>3. Queued(r) \in Seq(ItemType)
  <2>1. batch \in Seq(FunctorType) /\ pending \in Seq(FunctorType)
    BY DEF Types, QueueType
  <2>2. PICK s \in Seq(FunctorType) : s = Functors
    BY <2>1, ConcatProperties DEF Functors
  <2>3. Maps(Due(r), FunctorType, ItemType)
    BY MapFacts
  <2>4. Spread(Due(r), s) \in Seq(ItemType)
    BY <2>3, SpreadFacts
  <2>. QED  BY <2>2, <2>4, Zenon DEF Queued
<1>4. Left(r) \in Seq(ItemType)
  <2>1. PICK m \in Seq(ItemType) : m = mail[r]
    BY DEF Types, AnswerType
  <2>2. CASE pc[r] \in {"wake", "dead"}
    <3>1. m # <<>>
      BY <2>1, <2>2 DEF Stage
    <3>2. Tail(m) \in Seq(ItemType)
      BY <3>1, HeadTailProperties
    <3>. QED  BY <2>1, <2>2, <3>2 DEF Left
  <2>3. CASE ~(pc[r] \in {"wake", "dead"})
    BY <2>1, <2>3 DEF Left
  <2>. QED  BY <2>2, <2>3
<1>. QED  BY <1>1, <1>2, <1>3, <1>4

\* A step that sends nothing of r, and gives it a more to be sent.
LEMMA FlowKeeps ==
    ASSUME Types, NEW r \in Requests, Stage(r), Flow(r), NEW a \in Seq(ItemType),
           told'[r] = told[r] \o a, Sent(r)' = Sent(r),
           Up(r)' => Up(r) /\ Queued(r)' \o Left(r)' = (Queued(r) \o Left(r)) \o a
    PROVE  Flow(r)'
<1>1. PICK s \in Seq(ItemType) : s = Sent(r)
  BY FlowTypes
<1>2. PICK t \in Seq(ItemType) : told[r] = s \o t /\ (Up(r) => t = Queued(r) \o Left(r))
  BY <1>1, Zenon DEF Flow
<1>3. t \o a \in Seq(ItemType)
  BY ConcatProperties
<1>4. (s \o t) \o a = s \o (t \o a)
  BY ConcatAssociative
<1>5. told'[r] = Sent(r)' \o (t \o a)
  BY <1>1, <1>2, <1>4, Zenon
<1>6. Up(r)' => t \o a = Queued(r)' \o Left(r)'
  BY <1>2, Zenon
<1>7. PICK w \in Seq(ItemType) : w = t \o a
  BY <1>3, Zenon
<1>8. told'[r] = Sent(r)' \o w /\ (Up(r)' => w = Queued(r)' \o Left(r)')
  BY <1>5, <1>6, <1>7, Zenon
<1>. QED  BY <1>8, Zenon DEF Flow

\* And one that gives it nothing.
LEMMA FlowSame ==
    ASSUME Types, NEW r \in Requests, Stage(r), Flow(r),
           told'[r] = told[r], Sent(r)' = Sent(r),
           Up(r)' => Up(r) /\ Queued(r)' \o Left(r)' = Queued(r) \o Left(r)
    PROVE  Flow(r)'
<1>1. PICK a \in Seq(ItemType) : a = <<>>
  BY EmptySeq
<1>2. PICK t \in Seq(ItemType), x \in Seq(ItemType) : t = told[r] /\ x = Queued(r) \o Left(r)
  <2>1. Queued(r) \in Seq(ItemType) /\ Left(r) \in Seq(ItemType) /\ told[r] \in Seq(ItemType)
    BY FlowTypes
  <2>. QED  BY <2>1, ConcatProperties
<1>3. t \o a = t /\ x \o a = x
  BY <1>1, ConcatEmptySeq
<1>4. told'[r] = told[r] \o a
  BY <1>2, <1>3, Zenon
<1>5. Up(r)' => Up(r) /\ Queued(r)' \o Left(r)' = (Queued(r) \o Left(r)) \o a
  BY <1>2, <1>3, Zenon
<1>. QED  BY <1>4, <1>5, FlowKeeps

\* A functor is queued.
LEMMA QueuePushed ==
    ASSUME QueueType, NEW r \in Requests, NEW f \in FunctorType,
           batch' = batch, pending' = Append(pending, f)
    PROVE  Queued(r)' = Queued(r) \o Due(r)[f]
<1>1. PICK b \in Seq(FunctorType), p \in Seq(FunctorType) : b = batch /\ p = pending
  BY DEF QueueType
<1>2. PICK l \in Seq(FunctorType) : l = <<f>>
  <2>1. <<f>> \in Seq(FunctorType)
    OBVIOUS
  <2>. QED  BY <2>1, Zenon
<1>3. Append(p, f) = p \o l
  BY <1>2, AppendIsConcat
<1>4. b \o (p \o l) = (b \o p) \o l
  BY ConcatTwice
<1>5. PICK s \in Seq(FunctorType) : s = b \o p
  BY ConcatProperties
<1>6. Functors = s /\ Functors' = s \o l
  BY <1>1, <1>3, <1>4, <1>5, Zenon DEF Functors
<1>7. Maps(Due(r), FunctorType, ItemType)
  BY MapFacts
<1>8. Spread(Due(r), s \o l) = Spread(Due(r), s) \o Spread(Due(r), l)
  BY JoinDue
<1>9. Spread(Due(r), <<f>>) = Due(r)[f]
  BY <1>7, SpreadFacts, SMTT(30)
<1>. QED  BY <1>2, <1>6, <1>8, <1>9, Zenon DEF Queued

\* A functor is called.
LEMMA QueuePopped ==
    ASSUME QueueType, NEW r \in Requests, NEW f \in FunctorType, NEW b \in Seq(FunctorType),
           batch = <<f>> \o b, batch' = b, pending' = pending
    PROVE  Queued(r) = Due(r)[f] \o Queued(r)'
<1>1. PICK p \in Seq(FunctorType) : p = pending
  BY DEF QueueType
<1>2. PICK l \in Seq(FunctorType) : l = <<f>>
  <2>1. <<f>> \in Seq(FunctorType)
    OBVIOUS
  <2>. QED  BY <2>1, Zenon
<1>3. l \o (b \o p) = (l \o b) \o p
  BY ConcatTwice
<1>4. PICK s \in Seq(FunctorType) : s = b \o p
  BY ConcatProperties
<1>5. Functors = l \o s /\ Functors' = s
  BY <1>1, <1>2, <1>3, <1>4, Zenon DEF Functors
<1>6. Maps(Due(r), FunctorType, ItemType)
  BY MapFacts
<1>7. Spread(Due(r), l \o s) = Spread(Due(r), l) \o Spread(Due(r), s)
  BY JoinDue
<1>8. Spread(Due(r), <<f>>) = Due(r)[f]
  BY <1>6, SpreadFacts, SMTT(30)
<1>. QED  BY <1>2, <1>5, <1>7, <1>8, Zenon DEF Queued

\* A step that moves no write of r in the queue.
LEMMA QueueShifts ==
    ASSUME QueueType, NEW r \in Requests, Shifts
    PROVE  Queued(r)' = Queued(r)
<1>0. batch \in Seq(FunctorType) /\ pending \in Seq(FunctorType)
  BY DEF QueueType
<1>1. CASE UNCHANGED <<batch, pending>>
  BY <1>1 DEF Queued, Functors
<1>2. CASE batch = <<>> /\ batch' = pending /\ pending' = <<>>
  <2>1. <<>> \o pending = pending /\ pending \o <<>> = pending
    BY <1>0, ConcatEmptySeq
  <2>. QED  BY <1>2, <2>1, Zenon DEF Queued, Functors
<1>3. CASE batch # <<>> /\ Head(batch).op # "WriteInLoop" /\ batch' = Tail(batch) /\ pending' = pending
  <2>1. PICK s \in Seq(FunctorType) : s = batch /\ s # <<>>
    BY <1>0, <1>3
  <2>2. PICK f \in FunctorType, b \in Seq(FunctorType) : f = Head(s) /\ b = Tail(s)
    BY <2>1, HeadTailProperties
  <2>3. s = <<Head(s)>> \o Tail(s)
    BY <2>1
  <2>4. batch = <<f>> \o b /\ batch' = b
    BY <1>3, <2>1, <2>2, <2>3, Zenon
  <2>5. Queued(r) = Due(r)[f] \o Queued(r)'
    BY <1>3, <2>4, QueuePopped
  <2>6. f \in OtherFunctor
    BY <1>3, <2>1, <2>2, FunctorFacts DEF FunctorType
  <2>7. Due(r)[f] = <<>>
    BY <2>6, MapFacts
  <2>8. Queued(r)' \in Seq(ItemType)
    <3>1. PICK y \in Seq(FunctorType), p \in Seq(FunctorType) : y = b \o p /\ p = pending
      BY <1>0, ConcatProperties
    <3>2. Maps(Due(r), FunctorType, ItemType)
      BY MapFacts
    <3>3. Spread(Due(r), y) \in Seq(ItemType)
      BY <3>2, SpreadFacts
    <3>. QED  BY <1>3, <2>4, <3>1, <3>3, Zenon DEF Queued, Functors
  <2>9. <<>> \o Queued(r)' = Queued(r)'
    BY <2>8, ConcatEmptySeq
  <2>. QED  BY <2>5, <2>7, <2>9, Zenon
<1>4. ASSUME NEW c \in Conns, batch' = batch,
             pending' = Append(pending, [op |-> "connectDestroyed", conn |-> c])
      PROVE  Queued(r)' = Queued(r)
  <2>1. PICK f \in OtherFunctor : f = [op |-> "connectDestroyed", conn |-> c]
    BY FunctorFacts
  <2>2. f \in FunctorType /\ Due(r)[f] = <<>>
    BY MapFacts DEF FunctorType
  <2>3. Queued(r)' = Queued(r) \o Due(r)[f]
    BY <1>4, <2>1, <2>2, QueuePushed
  <2>4. Queued(r) \in Seq(ItemType)
    <3>1. PICK y \in Seq(FunctorType) : y = Functors
      BY <1>0, ConcatProperties DEF Functors
    <3>2. Maps(Due(r), FunctorType, ItemType)
      BY MapFacts
    <3>3. Spread(Due(r), y) \in Seq(ItemType)
      BY <3>2, SpreadFacts
    <3>. QED  BY <3>1, <3>3, Zenon DEF Queued
  <2>5. Queued(r) \o <<>> = Queued(r)
    BY <2>4, ConcatEmptySeq
  <2>. QED  BY <2>2, <2>3, <2>5, Zenon
<1>. QED  BY <1>1, <1>2, <1>3, <1>4 DEF Shifts

\* Items sent: of another request, of r.
LEMMA SentSends ==
    ASSUME WireType, NEW r \in Requests, NEW s, Sends(r, s), NEW o \in Requests,
           peer[ConnOf(o)] # "closed"
    PROVE  /\ o # r \/ ~connected(ConnOf(r)) => Sent(o)' = Sent(o)
           /\ o = r /\ connected(ConnOf(r)) => Sent(o)' = Sent(o) \o s
<1>1. PICK c \in Conns, d \in Conns : c = ConnOf(r) /\ d = ConnOf(o)
  BY ConnOfInput
<1>2. s \in Seq(ItemType) /\ send(c, s)
  BY <1>1 DEF Sends, Of
<1>3. PICK w \in Seq(ItemType) : w = wire[d] \o out[d]
  <2>1. wire[d] \in Seq(ItemType) /\ out[d] \in Seq(ItemType)
    BY DEF WireType
  <2>. QED  BY <2>1, ConcatProperties
<1>4. ASSUME wire'[d] \o out'[d] = w PROVE Sent(o)' = Sent(o)
  BY <1>1, <1>3, <1>4, Zenon DEF Sent
<1>5. CASE d # c
  <2>1. wire'[d] = wire[d] /\ out'[d] = out[d]
    BY <1>2, <1>5, SendFacts
  <2>2. o # r
    BY <1>1, <1>5
  <2>. QED  BY <1>3, <1>4, <2>1, <2>2
<1>6. CASE ~connected(c)
  <2>1. wire' = wire /\ out' = out
    BY <1>2, <1>6, SendFacts
  <2>. QED  BY <1>1, <1>3, <1>4, <1>6, <2>1
<1>7. CASE d = c /\ connected(c)
  <2>1. wire'[d] \o out'[d] = w \o s
    <3>1. peer[c] # "closed"
      BY <1>1, <1>7
    <3>2. wire'[c] \o out'[c] = (wire[c] \o out[c]) \o s
      BY <1>2, <1>7, <3>1, SendFacts
    <3>. QED  BY <1>3, <1>7, <3>2, Zenon
  <2>2. PICK u \in Seq(ItemType) : u = s
    BY <1>2
  <2>3. Spread(Mine(o), w \o u) = Spread(Mine(o), w) \o Spread(Mine(o), u)
    BY JoinItems
  <2>4. Sent(o) = Spread(Mine(o), w) /\ Sent(o)' = Spread(Mine(o), w) \o Spread(Mine(o), s)
    BY <1>1, <1>3, <2>1, <2>2, <2>3, Zenon DEF Sent
  <2>5. CASE o = r
    <3>1. Spread(Mine(o), s) = s
      BY <2>5 DEF Sends, Of
    <3>. QED  BY <1>1, <1>7, <2>4, <2>5, <3>1
  <2>6. CASE o # r
    <3>1. Spread(Mine(o), s) = <<>>
      BY <2>6 DEF Sends, Of
    <3>2. Spread(Mine(o), w) \in Seq(ItemType)
      <4>1. PICK F, S : F = Mine(o) /\ S = ItemType /\ Maps(F, ItemType, S)
        BY MapFacts
      <4>2. Maps(F, ItemType, S)
        BY <4>1
      <4>3. Spread(F, w) \in Seq(S)
        BY <4>2, SpreadFacts
      <4>. QED  BY <4>1, <4>3
    <3>3. Spread(Mine(o), w) \o <<>> = Spread(Mine(o), w)
      BY <3>2, ConcatEmptySeq
    <3>. QED  BY <2>4, <2>6, <3>1, <3>3
  <2>. QED  BY <2>5, <2>6
<1>. QED  BY <1>5, <1>6, <1>7

\* What waits is sent, or a client comes or goes.
LEMMA SentCarries ==
    ASSUME ConnType, WireType, Carries, NEW o \in Requests, peer'[ConnOf(o)] # "closed"
    PROVE  Sent(o)' = Sent(o)
<1>1. PICK d \in Conns : d = ConnOf(o)
  BY ConnOfInput
<1>2. ASSUME wire'[d] \o out'[d] = wire[d] \o out[d] PROVE Sent(o)' = Sent(o)
  BY <1>1, <1>2, Zenon DEF Sent
<1>3. CASE UNCHANGED <<wire, out>>
  BY <1>2, <1>3
<1>4. ASSUME NEW c \in Conns, handleWrite(c) PROVE Sent(o)' = Sent(o)
  <2>1. peer[d] # "closed"
    BY <1>1, <1>4 DEF handleWrite
  <2>2. CASE c = d
    BY <1>2, <1>4, <2>1, <2>2, DrainFacts
  <2>3. CASE c # d
    <3>1. wire'[d] = wire[d] /\ out'[d] = out[d]
      BY <1>4, <2>3, DrainFacts
    <3>. QED  BY <1>2, <3>1
  <2>. QED  BY <2>2, <2>3
<1>5. ASSUME NEW c \in Conns, peer' = [peer EXCEPT ![c] = "closed"],
             wire' = [wire EXCEPT ![c] = <<>>], out' = out
      PROVE  Sent(o)' = Sent(o)
  <2>1. c # d
    BY <1>1, <1>5 DEF ConnType
  <2>2. wire'[d] = wire[d]
    BY <1>5, <2>1 DEF WireType
  <2>. QED  BY <1>2, <1>5, <2>2
<1>. QED  BY <1>3, <1>4, <1>5 DEF Carries

\* A step that is none of the requests'.
LEMMA FlowRests ==
    ASSUME ConnInv, Types, StageInv, [Next]_vars, Passes, NEW o \in Requests,
           peer'[ConnOf(o)] # "closed", Flow(o)
    PROVE  Flow(o)'
<1>1. Sent(o)' = Sent(o)
  BY SentCarries DEF Passes, ConnInv, Types
<1>2. Queued(o)' = Queued(o)
  BY QueueShifts DEF Passes, Types
<1>3. told' = told /\ Left(o)' = Left(o)
  BY DEF Passes, Quiet, Left
<1>4. Up(o)' => Up(o)
  BY UpFacts
<1>5. Queued(o)' \o Left(o)' = Queued(o) \o Left(o)
  BY <1>2, <1>3, Zenon
<1>. QED  BY <1>1, <1>3, <1>4, <1>5, FlowSame DEF StageInv

\* A functor writes.
LEMMA FlowCall ==
    ASSUME ConnInv, Types, StageInv, UpInv, [Next]_vars, CallWrite, NEW o \in Requests,
           peer[ConnOf(o)] # "closed", Flow(o)
    PROVE  Flow(o)'
<1>0. \A g, h, i \in Seq(ItemType) : g \o (h \o i) = (g \o h) \o i
  BY ConcatTwice
<1>1. PICK f \in WriteFunctor, b \in Seq(Issued) :
              /\ batch = <<f>> \o b /\ batch' = b /\ pending' = pending /\ f \in Issued
              /\ f.req \in Requests /\ f.item \in ItemOf(f.req) /\ told[f.req] # <<>>
              /\ Sends(f.req, IF header_sent[f.req] THEN <<f.item>>
                              ELSE <<Header(f.req)>> \o <<f.item>>)
  BY CallSends DEF StageInv
<1>2. PICK r \in Requests : r = f.req
  BY <1>1
<1>2a. PICK x, s : x = f.item /\ s = IF header_sent[r] THEN <<x>> ELSE <<Header(r)>> \o <<x>>
  OBVIOUS
<1>3. Sends(r, s) /\ x \in ItemOf(r) /\ told[r] # <<>>
  BY <1>1, <1>2, <1>2a, Zenon
<1>4. told' = told /\ Left(o)' = Left(o) /\ (Up(o)' => Up(o)) /\ Stage(o)
  BY UpFacts DEF CallWrite, Left, StageInv
<1>5. Queued(o) = Due(o)[f] \o Queued(o)'
  <2>1. f \in FunctorType /\ b \in Seq(FunctorType)
    BY SeqMonotonic DEF FunctorType, Issued
  <2>. QED  BY <1>1, <2>1, QueuePopped DEF Types
<1>6. Due(o)[f] = IF r = o THEN <<x>> ELSE <<>>
  BY <1>2, <1>2a, MapFacts
<1>7. Queued(o)' \in Seq(ItemType) /\ Left(o) \in Seq(ItemType) /\ Sent(o) \in Seq(ItemType)
  <2>1. b \in Seq(FunctorType) /\ pending \in Seq(FunctorType)
    BY SeqMonotonic DEF Issued, Types, QueueType
  <2>2. PICK p \in Seq(FunctorType), y \in Seq(FunctorType) : p = pending /\ y = b \o p
    BY <2>1, ConcatProperties
  <2>3. Spread(Due(o), y) \in Seq(ItemType)
    BY JoinDue
  <2>4. Queued(o)' = Spread(Due(o), y)
    BY <1>1, <2>2, Zenon DEF Queued, Functors
  <2>. QED  BY <1>4, <2>3, <2>4, FlowTypes
<1>8. CASE r # o
  <2>1. Sent(o)' = Sent(o)
    BY <1>3, <1>8, SentSends DEF Types
  <2>2. <<>> \o Queued(o)' = Queued(o)'
    BY <1>7, ConcatEmptySeq
  <2>3. Queued(o)' \o Left(o)' = Queued(o) \o Left(o)
    BY <1>4, <1>5, <1>6, <1>8, <2>2, Zenon
  <2>. QED  BY <1>4, <2>1, <2>3, FlowSame
<1>9. CASE r = o /\ ~connected(ConnOf(o))
  <2>1. Sent(o)' = Sent(o)
    BY <1>3, <1>9, SentSends DEF Types
  <2>2. ~Up(o)
    BY <1>3, <1>4, <1>9, UpFacts DEF Stage
  <2>. QED  BY <1>4, <2>1, <2>2, FlowSame
<1>10. CASE r = o /\ connected(ConnOf(o))
  <2>1. Up(o) /\ header_sent[o]
    BY <1>3, <1>10, UpFacts DEF UpInv, Sound
  <2>2. s = <<x>>
    BY <1>2a, <1>10, <2>1
  <2>3. PICK l \in Seq(ItemType), q \in Seq(ItemType), m \in Seq(ItemType), n \in Seq(ItemType) :
           l = <<x>> /\ q = Queued(o)' /\ m = Left(o) /\ n = Sent(o)
    BY <1>3, <1>7, OneItem
  <2>4. Sent(o)' = n \o l
    BY <1>3, <1>10, <2>2, <2>3, SentSends DEF Types
  <2>5. told[o] = n \o ((l \o q) \o m)
    <3>1. PICK t \in Seq(ItemType) : told[o] = Sent(o) \o t /\ (Up(o) => t = Queued(o) \o Left(o))
      BY DEF Flow
    <3>. QED  BY <1>5, <1>6, <1>10, <2>1, <2>3, <3>1, Zenon
  <2>6. PICK w \in Seq(ItemType) : w = q \o m
    BY ConcatProperties
  <2>7. (l \o q) \o m = l \o w
    <3>1. l \o (q \o m) = (l \o q) \o m
      BY <1>0, ZenonT(30)
    <3>. QED  BY <2>6, <3>1, Zenon
  <2>8. n \o (l \o w) = (n \o l) \o w
    BY <1>0, Zenon
  <2>9. told'[o] = Sent(o)' \o w /\ w = Queued(o)' \o Left(o)'
    BY <1>4, <2>3, <2>4, <2>5, <2>6, <2>7, <2>8, Zenon
  <2>. QED  BY <2>9, Zenon DEF Flow
<1>. QED  BY <1>8, <1>9, <1>10

\* The loop's thread writes another's response from its start.
LEMMA FlowOther ==
    ASSUME ConnInv, Types, StageInv, [Next]_vars, NEW r \in Requests, NEW items, NEW q,
           Responds(ConnOf(r), r, items, q), NEW o \in Requests, o # r,
           peer[ConnOf(o)] # "closed", Flow(o)
    PROVE  Flow(o)'
<1>1. Sent(o)' = Sent(o)
  <2>1. PICK s : Sends(r, s)
    BY RespondSends
  <2>. QED  BY <2>1, SentSends DEF Types
<1>2. Queued(o)' = Queued(o)
  BY QueueShifts DEF Types, Responds, Shifts
<1>3. told'[o] = told[o] /\ mail' = mail /\ pc'[o] = pc[o]
  BY DEF Responds, Types, AnswerType, ConnInv, WorkType
<1>4. Left(o)' = Left(o) /\ (Up(o)' => Up(o)) /\ Stage(o)
  BY <1>3, UpFacts DEF Left, StageInv
<1>5. Queued(o)' \o Left(o)' = Queued(o) \o Left(o)
  BY <1>2, <1>4, Zenon
<1>. QED  BY <1>1, <1>3, <1>4, <1>5, FlowSame

\* The request's own.
LEMMA FlowAnswer ==
    ASSUME ConnInv, Types, StageInv, [Next]_vars, NEW o \in Requests, NEW items, NEW q,
           Responds(ConnOf(o), o, items, q), pc[o] \in {"none", "ended"}, told[o] = <<>>,
           Up(o) => connected(ConnOf(o)), peer[ConnOf(o)] # "closed", Flow(o)
    PROVE  Flow(o)'
<1>1. PICK s \in Seq(ItemType) : s = <<Header(o)>> \o items
  BY RespondFacts DEF Own, Of
<1>2. Stage(o) /\ ~header_sent[o] /\ mail[o] = <<>>
  BY DEF StageInv, Stage
<1>3. Sends(o, s)
  BY <1>1, <1>2, RespondSends
<1>4. told'[o] = s /\ pc'[o] \in {"run", "ended"} /\ mail'[o] = <<>>
  BY <1>1, <1>2 DEF Responds, Types, AnswerType, ConnInv, WorkType
<1>5. Queued(o)' = Queued(o)
  BY QueueShifts DEF Types, Responds, Shifts
<1>6. Left(o)' = <<>> /\ (Up(o)' => Up(o))
  BY <1>4, UpFacts DEF Left
<1>7. PICK n \in Seq(ItemType), g \in Seq(ItemType), h \in Seq(ItemType) :
         n = Sent(o) /\ g = Queued(o) /\ h = Left(o)
  BY <1>2, FlowTypes
<1>8. PICK t \in Seq(ItemType) : <<>> = n \o t /\ (Up(o) => t = g \o h)
  BY <1>7, Zenon DEF Flow
<1>9. \A i, j \in Seq(ItemType) : i \o j = <<>> <=> i = <<>> /\ j = <<>>
  BY ConcatEqualIffEmpty
<1>10. n = <<>> /\ t = <<>>
  BY <1>8, <1>9
<1>11. Up(o) => g = <<>>
  BY <1>8, <1>9, <1>10
<1>12. <<>> \o s = s /\ s \o <<>> = s
  BY ConcatEmptySeq
<1>13. <<>> \o <<>> = <<>> /\ <<>> \in Seq(ItemType)
  OBVIOUS
<1>14. CASE connected(ConnOf(o))
  <2>1. Sent(o)' = s
    <3>1. Sent(o)' = Sent(o) \o s
      BY <1>3, <1>14, SentSends DEF Types
    <3>. QED  BY <1>7, <1>10, <1>12, <3>1, Zenon
  <2>2. told'[o] = Sent(o)' \o <<>>
    BY <1>4, <1>12, <2>1, Zenon
  <2>3. Up(o)' => <<>> = Queued(o)' \o Left(o)'
    BY <1>5, <1>6, <1>7, <1>11, <1>13, Zenon
  <2>. QED  BY <1>13, <2>2, <2>3, Zenon DEF Flow
<1>15. CASE ~connected(ConnOf(o))
  <2>1. Sent(o)' = <<>>
    <3>1. Sent(o)' = Sent(o)
      BY <1>3, <1>15, SentSends DEF Types
    <3>. QED  BY <1>7, <1>10, <3>1, Zenon
  <2>2. ~Up(o)'
    BY <1>6, <1>15
  <2>. QED  BY <1>4, <1>12, <2>1, <2>2, Zenon DEF Flow
<1>. QED  BY <1>14, <1>15

\* A worker of another request.
LEMMA FlowBeside ==
    ASSUME ConnInv, Types, StageInv, [Next]_vars, NEW r \in Requests, WorkerStep(r),
           NEW o \in Requests, o # r, Flow(o)
    PROVE  Flow(o)'
<1>0. Stage(o) /\ Stage(r) /\ WorkType /\ AnswerType /\ QueueType
  BY DEF StageInv, ConnInv, Types
<1>1. Sent(o)' = Sent(o)
  BY WorkerFrame DEF connVars, kernelVars, Sent
<1>2. Queued(o)' = Queued(o)
  <2>0. /\ batch' = batch
        /\ \/ pending' = pending
           \/ pending' = Append(pending, [op |-> "EndInLoop", req |-> r])
           \/ \E x \in ItemOf(r) :
                 pending' = Append(pending, [op |-> "WriteInLoop", req |-> r, item |-> x])
    BY <1>0, WorkerQueue
  <2>1. ASSUME NEW f \in FunctorType, pending' = Append(pending, f), Due(o)[f] = <<>>
        PROVE  Queued(o)' = Queued(o)
    <3>1. Queued(o)' = Queued(o) \o Due(o)[f]
      BY <1>0, <2>0, <2>1, QueuePushed
    <3>2. Queued(o) \in Seq(ItemType)
      BY <1>0, FlowTypes
    <3>3. Queued(o) \o <<>> = Queued(o)
      BY <3>2, ConcatEmptySeq
    <3>. QED  BY <2>1, <3>1, <3>3, Zenon
  <2>2. CASE pending' = pending
    BY <2>0, <2>2 DEF Queued, Functors
  <2>3. CASE pending' = Append(pending, [op |-> "EndInLoop", req |-> r])
    <3>1. PICK f \in OtherFunctor : f = [op |-> "EndInLoop", req |-> r]
      BY FunctorFacts
    <3>2. f \in FunctorType /\ Due(o)[f] = <<>>
      BY MapFacts DEF FunctorType
    <3>. QED  BY <2>1, <2>3, <3>1, <3>2
  <2>4. ASSUME NEW x \in ItemOf(r),
               pending' = Append(pending, [op |-> "WriteInLoop", req |-> r, item |-> x])
        PROVE  Queued(o)' = Queued(o)
    <3>1. PICK f \in WriteFunctor : f = [op |-> "WriteInLoop", req |-> r, item |-> x]
      BY FunctorFacts
    <3>2. f \in FunctorType /\ f.req = r
      BY <3>1 DEF FunctorType
    <3>3. Due(o)[f] = <<>>
      BY <3>2, MapFacts
    <3>. QED  BY <2>1, <2>4, <3>1, <3>2, <3>3
  <2>. QED  BY <2>0, <2>2, <2>3, <2>4
<1>3. told'[o] = told[o] /\ Left(o)' = Left(o)
  <2>1. CASE EmitFinish(r) \/ \E k \in 1 .. (Len(Text[r]) - at[r]) : Delta(r, k)
    <3>1. /\ pc' = [pc EXCEPT ![r] = "check"]
          /\ \E x : told' = [told EXCEPT ![r] = x]
          /\ \E x : mail' = [mail EXCEPT ![r] = x]
      BY <2>1 DEF EmitFinish, Delta
    <3>2. pc'[o] = pc[o] /\ told'[o] = told[o] /\ mail'[o] = mail[o]
      BY <1>0, <3>1 DEF WorkType, AnswerType
    <3>. QED  BY <3>2 DEF Left
  <2>2. CASE Advances(r)
    <3>1. told' = told /\ \E q, l : Goes(r, q, l)
      BY <2>2, Zenon DEF Advances, Takes, Ends, Queues, Looks
    <3>2. pc'[o] = pc[o] /\ mail'[o] = mail[o]
      BY <1>0, <3>1 DEF Goes, WorkType, AnswerType
    <3>. QED  BY <3>1, <3>2 DEF Left
  <2>. QED  BY <1>0, <2>1, <2>2, WorkerSteps
<1>4. Up(o)' => Up(o)
  BY UpFacts
<1>5. Queued(o)' \o Left(o)' = Queued(o) \o Left(o)
  BY <1>2, <1>3, Zenon
<1>. QED  BY <1>0, <1>1, <1>3, <1>4, <1>5, FlowSame

\* The request's worker emits.
LEMMA FlowEmits ==
    ASSUME ConnInv, Types, StageInv, [Next]_vars, NEW o \in Requests, WorkerStep(o),
           EmitFinish(o) \/ \E k \in 1 .. (Len(Text[o]) - at[o]) : Delta(o, k), Flow(o)
    PROVE  Flow(o)'
<1>0. Stage(o) /\ WorkType /\ AnswerType /\ QueueType
  BY DEF StageInv, ConnInv, Types
<1>1. PICK a \in Seq(ItemType) :
         told' = [told EXCEPT ![o] = told[o] \o a] /\ mail' = [mail EXCEPT ![o] = a]
  <2>1. CASE EmitFinish(o)
    <3>1. <<Finish(o), Done(o)>> \in Seq(ItemType)
      BY FinishFacts DEF Own, Of
    <3>. QED  BY <2>1, <3>1, Zenon DEF EmitFinish
  <2>2. ASSUME NEW k \in 1 .. (Len(Text[o]) - at[o]), Delta(o, k)
        PROVE  \E a \in Seq(ItemType) :
                  told' = [told EXCEPT ![o] = told[o] \o a] /\ mail' = [mail EXCEPT ![o] = a]
    <3>1. PICK u, v \in Seq(Byte), x \in ItemOf(o), e \in Nat : EmitsDelta(o, k, u, v, x, e)
      BY <1>0, <2>2, DeltaFacts
    <3>2. <<x>> \in Seq(ItemType)
      BY OneItem
    <3>. QED  BY <3>1, <3>2, Zenon DEF EmitsDelta
  <2>. QED  BY <2>1, <2>2
<1>2. /\ pc[o] = "run" /\ pc' = [pc EXCEPT ![o] = "check"] /\ UNCHANGED <<batch, pending>>
  BY DEF EmitFinish, Delta, loopVars
<1>3. told'[o] = told[o] \o a /\ mail'[o] = a /\ pc'[o] = "check"
  BY <1>0, <1>1, <1>2 DEF WorkType, AnswerType
<1>4. Sent(o)' = Sent(o)
  BY WorkerFrame DEF connVars, kernelVars, Sent
<1>5. Queued(o)' = Queued(o)
  BY <1>2 DEF Queued, Functors
<1>6. Left(o) = <<>> /\ Left(o)' = a
  BY <1>0, <1>2, <1>3 DEF Left, Stage
<1>7. PICK q \in Seq(ItemType) : q = Queued(o)
  BY <1>0, FlowTypes
<1>8. q \o <<>> = q
  BY ConcatEmptySeq
<1>9. Queued(o)' \o Left(o)' = (Queued(o) \o Left(o)) \o a
  BY <1>5, <1>6, <1>7, <1>8, Zenon
<1>10. Up(o)' => Up(o)
  BY UpFacts
<1>. QED  BY <1>0, <1>3, <1>4, <1>9, <1>10, FlowKeeps

\* The request's worker deals with an event, or is done.
LEMMA FlowAdvances ==
    ASSUME ConnInv, Types, StageInv, UpInv, [Next]_vars, NEW o \in Requests, WorkerStep(o),
           Advances(o), Flow(o)
    PROVE  Flow(o)'
<1>0. Stage(o) /\ WorkType /\ AnswerType /\ QueueType
  BY DEF StageInv, ConnInv, Types
<1>1. told' = told /\ Sent(o)' = Sent(o) /\ batch' = batch
  BY WorkerFrame DEF Advances, connVars, kernelVars, Sent
<1>2. Up(o)' => Up(o)
  BY UpFacts
<1>3. ASSUME Up(o) PROVE Queued(o)' \o Left(o)' = Queued(o) \o Left(o)
  <2>1. /\ pc[o] # "none" => connected(ConnOf(o))
        /\ closed[o] => pc[o] \in {"endwake", "ended"}
        /\ pc[o] = "endwake" => mail[o] = <<>>
        /\ pc[o] # "dead"
    BY <1>3, UpFacts DEF UpInv, Sound
  <2>2. ASSUME NEW q, NEW l, Goes(o, q, l) PROVE pc'[o] = q /\ mail'[o] = l
    BY <1>0, <2>2 DEF Goes, WorkType, AnswerType
  <2>3. ASSUME pending' = pending PROVE Queued(o)' = Queued(o)
    BY <1>1, <2>3 DEF Queued, Functors
  <2>4. CASE Takes(o)
    <3>1. pc[o] = "wake" /\ pending' = pending
      BY <2>1, <2>4 DEF Takes
    <3>2. pc'[o] \in {"check", "close", "run"} /\ mail'[o] = Tail(mail[o])
      BY <2>2, <2>4 DEF Takes
    <3>3. Left(o)' = Left(o)
      BY <3>1, <3>2 DEF Left
    <3>. QED  BY <2>3, <3>1, <3>3, Zenon
  <2>5. CASE Ends(o)
    <3>1. pc[o] = "close"
      BY <2>1, <2>5 DEF Ends
    <3>2. pc'[o] = "endwake" /\ mail'[o] = mail[o]
      BY <2>2, <2>5 DEF Ends
    <3>3. Left(o)' = Left(o)
      BY <3>1, <3>2 DEF Left
    <3>4. Queued(o)' = Queued(o)
      <4>1. PICK f \in OtherFunctor : f = [op |-> "EndInLoop", req |-> o]
        BY FunctorFacts
      <4>2. f \in FunctorType /\ Due(o)[f] = <<>>
        BY MapFacts DEF FunctorType
      <4>3. pending' = Append(pending, f)
        BY <2>5, <4>1 DEF Ends
      <4>4. Queued(o)' = Queued(o) \o Due(o)[f]
        BY <1>0, <1>1, <4>2, <4>3, QueuePushed
      <4>5. Queued(o) \in Seq(ItemType)
        BY <1>0, FlowTypes
      <4>6. Queued(o) \o <<>> = Queued(o)
        BY <4>5, ConcatEmptySeq
      <4>. QED  BY <4>2, <4>4, <4>6, Zenon
    <3>. QED  BY <3>3, <3>4, Zenon
  <2>6. CASE Queues(o)
    <3>1. pc[o] = "push" /\ pc'[o] = "wake" /\ mail'[o] = mail[o]
      BY <2>2, <2>6 DEF Queues
    <3>2. PICK m \in Seq(ItemOf(o)) : m = mail[o] /\ m # <<>>
      BY <1>0, <3>1 DEF AnswerType, Stage
    <3>3. PICK x \in ItemOf(o) : x = Head(m)
      BY <3>2, HeadTailProperties
    <3>4. PICK f \in WriteFunctor : f = [op |-> "WriteInLoop", req |-> o, item |-> x]
      BY FunctorFacts
    <3>5. f \in FunctorType /\ f.req = o /\ f.item = x
      BY <3>4 DEF FunctorType
    <3>6. Due(o)[f] = <<x>>
      BY <3>5, MapFacts
    <3>7. pending' = Append(pending, f)
      BY <2>6, <3>2, <3>3, <3>4 DEF Queues
    <3>8. Queued(o)' = Queued(o) \o <<x>>
      <4>1. Queued(o)' = Queued(o) \o Due(o)[f]
        BY <1>0, <1>1, <3>5, <3>7, QueuePushed
      <4>. QED  BY <3>6, <4>1
    <3>9. Left(o) = m /\ Left(o)' = Tail(m)
      BY <3>1, <3>2 DEF Left
    <3>10. m = <<x>> \o Tail(m)
      <4>1. m = <<Head(m)>> \o Tail(m)
        BY <3>2
      <4>. QED  BY <3>3, <4>1
    <3>11. Queued(o) \in Seq(ItemType) /\ <<x>> \in Seq(ItemType) /\ Tail(m) \in Seq(ItemType)
      <4>1. Tail(m) \in Seq(ItemOf(o))
        BY <3>2, HeadTailProperties
      <4>2. Tail(m) \in Seq(ItemType)
        BY <4>1, ItemFacts, SeqMonotonic
      <4>. QED  BY <1>0, <4>2, FlowTypes, OneItem
    <3>12. (Queued(o) \o <<x>>) \o Tail(m) = Queued(o) \o (<<x>> \o Tail(m))
      <4>1. \A g, h, i \in Seq(ItemType) : (g \o h) \o i = g \o (h \o i)
        BY ConcatAssociative
      <4>. QED  BY <3>11, <4>1, Zenon
    <3>. QED  BY <3>8, <3>9, <3>10, <3>12, Zenon
  <2>7. CASE Looks(o)
    <3>1. pending' = pending
      BY <2>7 DEF Looks
    <3>2. mail'[o] = mail[o] /\ (pc'[o] \in {"wake", "dead"} <=> pc[o] \in {"wake", "dead"})
      <4>1. CASE Goes(o, "push", mail[o]) /\ pc[o] = "check"
        BY <2>2, <4>1
      <4>2. CASE Goes(o, "dead", mail[o]) /\ pc[o] = "wake"
        BY <2>2, <4>2
      <4>3. CASE Goes(o, "ended", mail[o]) /\ pc[o] \in {"close", "endwake", "run"}
        BY <2>2, <4>3
      <4>. QED  BY <2>7, <4>1, <4>2, <4>3 DEF Looks
    <3>3. Left(o)' = Left(o)
      BY <3>2 DEF Left
    <3>. QED  BY <2>3, <3>1, <3>3, Zenon
  <2>. QED  BY <2>4, <2>5, <2>6, <2>7 DEF Advances
<1>. QED  BY <1>0, <1>1, <1>2, <1>3, FlowSame

\* Nothing is lost on the way, and nothing overtakes.
LEMMA FlowInvStep ==
    ASSUME ConnInv, AnswerType, WireType, StageInv, UpInv, FlowInv, [Next]_vars
    PROVE  FlowInv'
<1>0. LoopInv /\ ConnType /\ WorkType /\ InputInv /\ OnceInv /\ Types
  BY QueueTyped DEF ConnInv, StageInv, Types
<1>. SUFFICES ASSUME NEW o \in Requests, peer'[ConnOf(o)] # "closed" PROVE Flow(o)'
  BY DEF FlowInv
<1>1. peer[ConnOf(o)] # "closed" /\ Flow(o) /\ Stage(o)
  BY PeerStays, ConnOfInput DEF FlowInv, StageInv
<1>2. CASE Passes
  BY <1>0, <1>1, <1>2, FlowRests
<1>3. CASE CallWrite
  BY <1>0, <1>1, <1>3, FlowCall
<1>4. ASSUME NEW c \in Conns, HandleRequest(c) PROVE Flow(o)'
  <2>1. PICK r \in Requests :
           /\ ConnOf(r) = c /\ pc[r] = "none" /\ <<c, "in">> \in active
           /\ Leaves(r) \/ \E items, q : Responds(c, r, items, q)
    BY <1>0, <1>4, HandleSteps
  <2>2. CASE Leaves(r)
    <3>1. told' = told /\ Sent(o)' = Sent(o) /\ Queued(o)' = Queued(o)
      BY <2>2 DEF Leaves, Sent, Queued, Functors
    <3>2. Left(o)' = Left(o)
      <4>1. mail' = mail /\ (pc'[o] = pc[o] \/ (pc[o] = "none" /\ pc'[o] = "run"))
        BY <1>0, <2>1, <2>2 DEF Leaves, WorkType
      <4>. QED  BY <4>1 DEF Left
    <3>3. Queued(o)' \o Left(o)' = Queued(o) \o Left(o)
      BY <3>1, <3>2, Zenon
    <3>. QED  BY <1>0, <1>1, <3>1, <3>3, FlowSame, UpFacts
  <2>3. ASSUME NEW items, NEW q, Responds(c, r, items, q) PROVE Flow(o)'
    <3>1. CASE o = r
      <4>1. Responds(ConnOf(o), o, items, q) /\ pc[o] = "none" /\ <<ConnOf(o), "in">> \in active
        BY <2>1, <2>3, <3>1
      <4>2. told[o] = <<>>
        BY <1>1, <4>1 DEF Stage
      <4>3. Up(o) => connected(ConnOf(o))
        BY <4>1, AnswersConnected
      <4>. QED  BY <1>0, <1>1, <4>1, <4>2, <4>3, FlowAnswer
    <3>2. CASE o # r
      <4>1. Responds(ConnOf(r), r, items, q)
        BY <2>1, <2>3
      <4>. QED  BY <1>0, <1>1, <3>2, <4>1, FlowOther
    <3>. QED  BY <3>1, <3>2
  <2>. QED  BY <2>1, <2>2, <2>3
<1>5. ASSUME NEW r \in Requests, ResumePlain(r) PROVE Flow(o)'
  <2>1. waiting = r /\ pc[r] = "ended" /\ Responds(ConnOf(r), r, <<Body(r)>>, "ended")
    BY <1>0, <1>5, ResumeSteps
  <2>2. CASE o = r
    <3>1. told[o] = <<>>
      BY <1>1, <2>1, <2>2 DEF Stage
    <3>2. Up(o) => connected(ConnOf(o))
      BY <2>1, <2>2, AnswersConnected
    <3>3. Responds(ConnOf(o), o, <<Body(o)>>, "ended") /\ pc[o] = "ended"
      BY <2>1, <2>2
    <3>. QED  BY <1>0, <1>1, <3>1, <3>2, <3>3, FlowAnswer
  <2>3. CASE o # r
    BY <1>0, <1>1, <2>1, <2>3, FlowOther
  <2>. QED  BY <2>2, <2>3
<1>6. ASSUME NEW r \in Requests, WorkerStep(r) PROVE Flow(o)'
  <2>1. CASE o # r
    BY <1>0, <1>1, <1>6, <2>1, FlowBeside
  <2>2. CASE o = r
    BY <1>0, <1>1, <1>6, <2>2, FlowEmits, FlowAdvances, WorkerSteps DEF Types
  <2>. QED  BY <2>1, <2>2
<1>. QED  BY <1>0, <1>2, <1>3, <1>4, <1>5, <1>6, AllSteps

-----------------------------------------------------------------------------
(* The responses, from the first state on.                                 *)

ReplyInv == AnswerType /\ WireType /\ StageInv /\ TextInv /\ UpInv /\ FlowInv

\* Nothing is written, queued or sent at first.
LEMMA ReplyStarts ==
    ASSUME Init PROVE ReplyInv
<1>0. /\ \A r \in Requests : /\ told[r] = <<>> /\ mail[r] = <<>> /\ pending_bytes[r] = <<>>
                             /\ pc[r] = "none" /\ at[r] = 0
                             /\ ~header_sent[r] /\ ~closed[r]
      /\ \A c \in Conns : /\ wire[c] = <<>> /\ out[c] = <<>> /\ context[c] = None
                          /\ peer[c] = "none" /\ state[c] = "kConnecting"
      /\ batch = <<>> /\ pending = <<>> /\ waiting = None
  BY DEF Init, TcpInit, LoopInit
<1>1. AnswerType
  <2>1. /\ told = [r \in Requests |-> <<>>] /\ mail = [r \in Requests |-> <<>>]
        /\ pending_bytes = [r \in Requests |-> <<>>]
        /\ header_sent = [r \in Requests |-> FALSE] /\ closed = [r \in Requests |-> FALSE]
    BY DEF Init
  <2>2. /\ <<>> \in Seq(ItemType) /\ <<>> \in Seq(Byte)
        /\ \A r \in Requests : <<>> \in Seq(ItemOf(r))
    BY EmptySeq
  <2>. QED  BY <2>1, <2>2, Zenon DEF AnswerType
<1>2. WireType
  <2>1. wire = [c \in Conns |-> <<>>] /\ out = [c \in Conns |-> <<>>]
    BY DEF Init, TcpInit
  <2>2. <<>> \in Seq(ItemType)
    BY EmptySeq
  <2>. QED  BY <2>1, <2>2, Zenon DEF WireType
<1>3. StageInv
  <2>1. ASSUME NEW r \in Requests PROVE Stage(r)
    <3>1. waiting # r
      BY <1>0, HttpAssumption
    <3>. QED  BY <1>0, <3>1 DEF Stage
  <2>2. QueueInv
    BY <1>0, EmptySeq DEF QueueInv
  <2>. QED  BY <2>1, <2>2 DEF StageInv
<1>4. TextInv
  <2>. SUFFICES ASSUME NEW r \in Requests PROVE Chunked(r)
    BY DEF TextInv
  <2>1. PICK e \in Seq(Byte) : e = <<>> /\ Len(e) = 0
    BY EmptySeq
  <2>2. Output(r) = e
    <3>1. PICK t \in Seq(Byte) : t = Text[r]
      BY HttpAssumption
    <3>2. SubSeq(t, 1, 0) = <<>>
      BY SubSeqEmpty
    <3>. QED  BY <1>0, <2>1, <3>1, <3>2 DEF Output
  <2>3. Visible(e) = <<>>
    <3>1. PICK w \in Seq(Seq(Chars)) : w = Shows(e) /\ Len(w) = 0 /\ Visible(e) = FlattenSeq(w)
      BY <2>1, ShowsType
    <3>2. w = <<>>
      BY <3>1, EmptySeq
    <3>3. FlattenSeq(<<>>) = <<>>
      BY DEF FlattenSeq
    <3>. QED  BY <3>1, <3>2, <3>3
  <2>4. Spread(TextOf, <<>>) = <<>>
    BY SpreadFacts, MapFacts
  <2>5. Undone(r, told[r])
    BY <1>0 DEF Undone
  <2>6. Keeps(e, <<>>)
    <3>1. 1 \in 1 .. (Len(e) + 1) /\ ~(1 <= Len(e)) /\ 1 .. (1 - 1) = {}
      BY <2>1
    <3>2. IsCut(e, 1)
      BY <3>1 DEF IsCut
    <3>3. SubSeq(e, 1, Len(e)) = <<>>
      BY <2>1, SubSeqEmpty
    <3>. QED  BY <3>1, <3>2, <3>3 DEF Keeps
  <2>7. Spread(TextOf, told[r]) = Visible(Output(r))
    BY <1>0, <2>2, <2>3, <2>4, Zenon
  <2>8. Keeps(Output(r), pending_bytes[r])
    BY <1>0, <2>2, <2>6, Zenon
  <2>. QED  BY <2>5, <2>7, <2>8 DEF Chunked
<1>5. UpInv
  <2>1. \A r \in Requests : Sound(r)
    BY <1>0 DEF Sound
  <2>. QED  BY <1>0, <2>1 DEF UpInv
<1>6. FlowInv
  <2>. SUFFICES ASSUME NEW r \in Requests PROVE Flow(r)
    BY DEF FlowInv
  <2>1. PICK c \in Conns : c = ConnOf(r)
    BY ConnOfInput
  <2>2. <<>> \in Seq(ItemType) /\ <<>> \o <<>> = <<>>
    OBVIOUS
  <2>3. PICK F, S : F = Mine(r) /\ S = ItemType /\ Maps(F, ItemType, S)
    BY MapFacts
  <2>4. Spread(F, <<>>) = <<>>
    BY <2>3, SpreadFacts
  <2>5. Spread(Due(r), <<>>) = <<>>
    <3>1. Maps(Due(r), FunctorType, ItemType)
      BY MapFacts
    <3>. QED  BY <3>1, SpreadFacts
  <2>6. Sent(r) = <<>>
    BY <1>0, <2>1, <2>2, <2>3, <2>4, Zenon DEF Sent
  <2>7. Queued(r) = <<>>
    BY <1>0, <2>2, <2>5, Zenon DEF Queued, Functors
  <2>8. Left(r) = <<>>
    BY <1>0 DEF Left
  <2>9. told[r] = Sent(r) \o <<>> /\ <<>> = Queued(r) \o Left(r)
    BY <1>0, <2>2, <2>6, <2>7, <2>8, Zenon
  <2>. QED  BY <2>2, <2>9, Zenon DEF Flow
<1>. QED  BY <1>1, <1>2, <1>3, <1>4, <1>5, <1>6 DEF ReplyInv

\* Every step keeps it.
LEMMA ReplyStays ==
    ASSUME ConnInv, ReplyInv, [Next]_vars PROVE ReplyInv'
<1>1. AnswerType /\ WireType /\ StageInv /\ TextInv /\ UpInv /\ FlowInv /\ QueueInv
  BY DEF ReplyInv, StageInv
<1>2. QueueType
  BY <1>1, QueueTyped
<1>3. AnswerType'
  BY <1>1, <1>2, AnswerTypeStep
<1>4. WireType'
  BY <1>1, WireTypeStep
<1>5. StageInv'
  <2>1. \A r \in Requests : Stage(r)'
    BY <1>1, StageStep
  <2>2. QueueInv'
    BY <1>1, QueueInvStep
  <2>. QED  BY <2>1, <2>2 DEF StageInv
<1>6. TextInv'
  BY <1>1, TextInvStep
<1>7. UpInv'
  BY <1>1, UpInvStep
<1>8. FlowInv'
  BY <1>1, FlowInvStep
<1>. QED  BY <1>3, <1>4, <1>5, <1>6, <1>7, <1>8 DEF ReplyInv

\* The responses are as ReplyInv says in every state.
LEMMA ReplyHolds == Spec => []ReplyInv
<1>1. Init => ReplyInv
  BY ReplyStarts
<1>2. ConnInv /\ ReplyInv /\ [Next]_vars => ReplyInv'
  BY ReplyStays
<1>. QED  BY <1>1, <1>2, ConnHolds, PTL DEF Spec

(***************************************************************************)
(* However the engine cuts its output into deltas, the content of the      *)
(* chunks joined is the characters of the output so far                    *)
(* (split_utf8_prefix and pending_bytes_, OpenAIStreamWriter.cc:37, 107).  *)
(***************************************************************************)
THEOREM ChunksJoinToText == Spec => []ChunksAreText
<1>1. ReplyInv => ChunksAreText
  <2>. SUFFICES ASSUME ReplyInv, NEW r \in Requests, Kind[r] = "stream"
                PROVE  FlattenSeq([p \in DOMAIN told[r] |-> told[r][p].text]) =
                           Visible(SubSeq(Text[r], 1, at[r]))
    BY DEF ChunksAreText
  <2>1. Spread(TextOf, told[r]) = Visible(SubSeq(Text[r], 1, at[r]))
    BY DEF ReplyInv, TextInv, Chunked, Output
  <2>2. PICK s \in Seq(ItemType) : s = told[r]
    BY DEF ReplyInv, AnswerType
  <2>3. FlattenSeq([p \in DOMAIN s |-> s[p].text]) = Spread(TextOf, s)
    BY SpreadIs
  <2>. QED  BY <2>1, <2>2, <2>3, Zenon
<1>. QED  BY <1>1, ReplyHolds, PTL

(***************************************************************************)
(* What a client has received of a response is a prefix of what was        *)
(* written for it, in order and with nothing missing, whatever mix of      *)
(* direct writes, buffered output and queued functors carried it and       *)
(* wherever the connection died (WriteInLoop, NetworkHttpTypes.h:105;      *)
(* sendInLoop, TcpConnection.cc:86).                                       *)
(***************************************************************************)
THEOREM ClientGetsPrefix == Spec => []WireIsPrefix
<1>1. ReplyInv => WireIsPrefix
  <2>. SUFFICES ASSUME ReplyInv, NEW r \in Requests PROVE IsPrefix(Received(r), told[r])
    BY DEF WireIsPrefix
  <2>0. \A p, q, w \in Seq(ItemType) : p \o (q \o w) = (p \o q) \o w
    BY ConcatTwice
  <2>1. PICK c \in Conns : c = ConnOf(r)
    BY ConnOfInput
  <2>2. PICK a \in Seq(ItemType), b \in Seq(ItemType), s \in Seq(ItemType) :
           a = wire[c] /\ b = out[c] /\ s = told[r]
    BY DEF ReplyInv, AnswerType, WireType
  <2>3. PICK F, S : F = Mine(r) /\ S = ItemType /\ Maps(F, ItemType, S)
    BY MapFacts
  <2>4. Maps(F, ItemType, S)
    BY <2>3
  <2>5. PICK x \in Seq(ItemType), y \in Seq(ItemType) :
           x = Spread(Mine(r), a) /\ y = Spread(Mine(r), b)
    <3>1. Spread(F, a) \in Seq(S) /\ Spread(F, b) \in Seq(S)
      BY <2>4, SpreadFacts
    <3>. QED  BY <2>3, <3>1
  <2>6. Received(r) = x
    <3>1. ItemsOf(a, r) = Spread(Mine(r), a)
      BY SpreadIs
    <3>. QED  BY <2>1, <2>2, <2>5, <3>1, Zenon DEF Received
  <2>7. \E t \in Seq(ItemType) : s = x \o t
    <3>1. CASE peer[c] = "closed"
      <4>1. a = <<>>
        BY <2>1, <2>2, <3>1 DEF ReplyInv, UpInv
      <4>2. Spread(F, <<>>) = <<>>
        BY <2>4, SpreadFacts
      <4>3. x = <<>>
        BY <2>3, <2>5, <4>1, <4>2, Zenon
      <4>4. s = <<>> \o s
        OBVIOUS
      <4>. QED  BY <4>3, <4>4
    <3>2. CASE peer[c] # "closed"
      <4>1. PICK t \in Seq(ItemType) : told[r] = Sent(r) \o t
        BY <2>1, <3>2 DEF ReplyInv, FlowInv, Flow
      <4>2. Spread(Mine(r), a \o b) = x \o y
        BY <2>5, JoinItems
      <4>3. s = (x \o y) \o t
        BY <2>1, <2>2, <4>1, <4>2, Zenon DEF Sent
      <4>4. x \o (y \o t) = (x \o y) \o t
        BY <2>0, SMTT(30)
      <4>5. y \o t \in Seq(ItemType)
        BY ConcatProperties
      <4>. QED  BY <4>3, <4>4, <4>5, Zenon
    <3>. QED  BY <3>1, <3>2
  <2>8. IsPrefix(x, s)
    BY <2>7 DEF IsPrefix
  <2>. QED  BY <2>2, <2>6, <2>8, Zenon
<1>. QED  BY <1>1, ReplyHolds, PTL

\* Of a response whose connection and client are up everything is somewhere, once.
AllAccounted ==
    \A r \in Requests :
        Up(r) /\ peer[ConnOf(r)] # "closed" => told[r] = Sent(r) \o (Queued(r) \o Left(r))

(***************************************************************************)
(* While a connection and its client are up, what was written for a        *)
(* request is what the client has received and what waits in the           *)
(* connection's output, then what the queued functors will write, then     *)
(* what its worker has still to queue, in that order: nothing is lost,     *)
(* doubled or overtaken between the two threads (Write,                    *)
(* NetworkHttpTypes.h:85; doPendingFunctors, EventLoop.cc:177).            *)
(***************************************************************************)
THEOREM NothingOvertakes == Spec => []AllAccounted
<1>1. ReplyInv => AllAccounted
  BY Zenon DEF ReplyInv, FlowInv, Flow, AllAccounted
<1>. QED  BY <1>1, ReplyHolds, PTL
=============================================================================
