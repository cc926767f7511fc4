------------------------ MODULE SessionManager_proofs ------------------------
(***************************************************************************)
(* Proofs about SessionManager, for every set of ids and requests, every   *)
(* table size, batch and time-to-live.                                     *)
(***************************************************************************)
EXTENDS SessionManager, SequenceTheorems, FiniteSetTheorems, TLAPS

-----------------------------------------------------------------------------
(* The list operations.                                                    *)

\* Each element of u stands in s too, and in the same order.
Subsequence(u, s) ==
    \A p, q \in DOMAIN u : p < q => \E a, b \in DOMAIN s : a < b /\ s[a] = u[p] /\ s[b] = u[q]

\* lru_.erase of an id's node takes that id out and leaves the rest in order.
LEMMA UnlinkFacts ==
    ASSUME NEW S, NEW s \in Seq(S), NEW i \in Range(s), IsInjective(s)
    PROVE  /\ Unlink(s, i) \in Seq(S)
           /\ Len(Unlink(s, i)) = Len(s) - 1
           /\ Range(Unlink(s, i)) = Range(s) \ {i}
           /\ IsInjective(Unlink(s, i))
           /\ Subsequence(Unlink(s, i), s)
<1>. DEFINE n == Len(s)
            at == CHOOSE p \in DOMAIN s : s[p] = i
            a == SubSeq(s, 1, at - 1)
            b == SubSeq(s, at + 1, n)
            u == a \o b
<1>1. n \in Nat /\ DOMAIN s = 1 .. n /\ \A p \in 1 .. n : s[p] \in S
  BY LenProperties
<1>2. at \in 1 .. n /\ s[at] = i
  BY <1>1 DEF Range
<1>3. at \in Int /\ 1 <= at /\ at <= n
  BY <1>1, <1>2
<1>. HIDE DEF at
<1>4. a \in Seq(S) /\ Len(a) = at - 1 /\ \A p \in 1 .. at - 1 : a[p] = s[p]
  <2>1. \A p \in 1 .. at - 1 : s[p] \in S
    BY <1>1, <1>3
  <2>2. /\ a \in Seq(S)
        /\ Len(a) = IF 1 <= at - 1 THEN (at - 1) - 1 + 1 ELSE 0
        /\ \A p \in 1 .. (at - 1) - 1 + 1 : a[p] = s[1 + p - 1]
    BY <1>3, <2>1, SubSeqProperties
  <2>. QED  BY <1>3, <2>2
<1>5. b \in Seq(S) /\ Len(b) = n - at /\ \A p \in 1 .. n - at : b[p] = s[at + p]
  <2>1. \A p \in at + 1 .. n : s[p] \in S
    BY <1>1, <1>3
  <2>2. /\ b \in Seq(S)
        /\ Len(b) = IF at + 1 <= n THEN n - (at + 1) + 1 ELSE 0
        /\ \A p \in 1 .. n - (at + 1) + 1 : b[p] = s[at + 1 + p - 1]
    BY <1>1, <1>3, <2>1, SubSeqProperties
  <2>3. n - (at + 1) + 1 = n - at /\ (at + 1 <= n \/ n - at = 0)
    <3>1. n \in Int /\ at \in Int /\ at <= n
      BY <1>1, <1>3
    <3>. HIDE DEF n
    <3>. QED  BY <3>1
  <2>4. \A p \in 1 .. n - at : at + 1 + p - 1 = at + p
    BY <1>1, <1>3
  <2>. QED  BY <2>2, <2>3, <2>4
<1>. HIDE DEF a, b
<1>6. /\ u \in Seq(S)
      /\ Len(u) = n - 1
      /\ \A p \in 1 .. n - 1 : u[p] = IF p < at THEN s[p] ELSE s[p + 1]
  <2>1. /\ u \in Seq(S)
        /\ Len(u) = Len(a) + Len(b)
        /\ \A p \in 1 .. Len(a) + Len(b) : u[p] = IF p <= Len(a) THEN a[p] ELSE b[p - Len(a)]
    BY <1>4, <1>5, ConcatProperties
  <2>2. Len(a) + Len(b) = n - 1
    BY <1>1, <1>3, <1>4, <1>5
  <2>3. ASSUME NEW p \in 1 .. n - 1 PROVE u[p] = IF p < at THEN s[p] ELSE s[p + 1]
    <3>1. CASE p < at
      BY <1>1, <1>3, <1>4, <2>1, <2>2, <3>1
    <3>2. CASE ~(p < at)
      <4>1. u[p] = b[p - (at - 1)] /\ p - (at - 1) \in 1 .. n - at
        BY <1>1, <1>3, <1>4, <2>1, <2>2, <3>2
      <4>2. at + (p - (at - 1)) = p + 1
        BY <1>3
      <4>. QED  BY <1>5, <3>2, <4>1, <4>2
    <3>. QED  BY <3>1, <3>2
  <2>. QED  BY <2>1, <2>2, <2>3
<1>7. DOMAIN u = 1 .. n - 1
  BY <1>6, LenProperties
<1>8. u = Unlink(s, i)
  BY DEF Unlink, RemoveAt, at, a, b
<1>. HIDE DEF u
\* Where an element of u stood in s.
<1>. DEFINE From(p) == IF p < at THEN p ELSE p + 1
<1>9. /\ \A p \in 1 .. n - 1 : From(p) \in 1 .. n /\ From(p) # at /\ u[p] = s[From(p)]
      /\ \A p, q \in 1 .. n - 1 : p < q => From(p) < From(q)
      /\ \A p, q \in 1 .. n - 1 : From(p) = From(q) => p = q
      /\ \A p \in 1 .. n : p # at => \E q \in 1 .. n - 1 : From(q) = p
  <2>1. /\ \A p \in 1 .. n - 1 : From(p) \in 1 .. n /\ From(p) # at /\ u[p] = s[From(p)]
        /\ \A p, q \in 1 .. n - 1 : p < q => From(p) < From(q)
        /\ \A p, q \in 1 .. n - 1 : From(p) = From(q) => p = q
    BY <1>1, <1>3, <1>6
  <2>2. ASSUME NEW p \in 1 .. n, p # at PROVE \E q \in 1 .. n - 1 : From(q) = p
    <3>1. CASE p < at
      BY <1>1, <1>3, <3>1
    <3>2. CASE ~(p < at)
      <4>1. p - 1 \in 1 .. n - 1 /\ From(p - 1) = p
        BY <1>1, <1>3, <2>2, <3>2
      <4>. QED  BY <4>1
    <3>. QED  BY <3>1, <3>2
  <2>. QED  BY <2>1, <2>2
<1>. HIDE DEF From
<1>10. IsInjective(u)
  BY <1>1, <1>7, <1>9 DEF IsInjective
<1>11. Range(u) = Range(s) \ {i}
  <2>1. ASSUME NEW y \in Range(u) PROVE y \in Range(s) \ {i}
    <3>1. PICK p \in 1 .. n - 1 : y = u[p]
      BY <1>7, <2>1 DEF Range
    <3>2. From(p) \in 1 .. n /\ From(p) # at /\ y = s[From(p)]
      BY <1>9, <3>1
    <3>. QED  BY <1>1, <1>2, <3>2 DEF Range, IsInjective
  <2>2. ASSUME NEW y \in Range(s), y # i PROVE y \in Range(u)
    <3>1. PICK p \in 1 .. n : y = s[p]
      BY <1>1, <2>2 DEF Range
    <3>2. PICK q \in 1 .. n - 1 : From(q) = p
      BY <1>2, <1>9, <2>2, <3>1
    <3>. QED  BY <1>7, <1>9, <3>1, <3>2 DEF Range
  <2>. QED  BY <2>1, <2>2
<1>12. Subsequence(u, s)
  BY <1>1, <1>7, <1>9 DEF Subsequence
<1>. QED  BY <1>6, <1>8, <1>10, <1>11, <1>12

\* lru_.push_front.
LEMMA PrependFacts ==
    ASSUME NEW S, NEW s \in Seq(S), NEW i \in S
    PROVE  /\ <<i>> \o s \in Seq(S)
           /\ Len(<<i>> \o s) = Len(s) + 1
           /\ DOMAIN (<<i>> \o s) = 1 .. Len(s) + 1
           /\ (<<i>> \o s)[1] = i
           /\ \A p \in 1 .. Len(s) : (<<i>> \o s)[p + 1] = s[p]
           /\ \A p \in 1 .. Len(s) + 1 : p # 1 => p - 1 \in 1 .. Len(s) /\ (<<i>> \o s)[p] = s[p - 1]
           /\ Range(<<i>> \o s) = Range(s) \cup {i}
           /\ IsInjective(s) /\ i \notin Range(s) => IsInjective(<<i>> \o s)
<1>. DEFINE t == <<i>> \o s
            n == Len(s)
<1>1. n \in Nat /\ DOMAIN s = 1 .. n
  BY LenProperties
<1>2. <<i>> \in Seq(S) /\ Len(<<i>>) = 1 /\ <<i>>[1] = i
  OBVIOUS
<1>3. /\ t \in Seq(S)
      /\ Len(t) = 1 + n
      /\ \A p \in 1 .. 1 + n : t[p] = IF p <= 1 THEN <<i>>[p] ELSE s[p - 1]
  BY <1>2, ConcatProperties
<1>4. DOMAIN t = 1 .. n + 1
  BY <1>1, <1>3, LenProperties
<1>. HIDE DEF t
<1>5. t[1] = i /\ \A p \in 1 .. n : t[p + 1] = s[p]
  BY <1>1, <1>2, <1>3
<1>6. \A p \in 1 .. n + 1 : p # 1 => p - 1 \in 1 .. n /\ t[p] = s[p - 1]
  BY <1>1, <1>3
<1>7. Range(t) = Range(s) \cup {i}
  <2>1. ASSUME NEW y \in Range(t) PROVE y \in Range(s) \cup {i}
    BY <1>1, <1>4, <1>5, <1>6, <2>1 DEF Range
  <2>2. ASSUME NEW y \in Range(s) PROVE y \in Range(t)
    <3>1. PICK p \in 1 .. n : y = s[p]
      BY <1>1, <2>2 DEF Range
    <3>2. p + 1 \in 1 .. n + 1
      BY <1>1
    <3>. QED  BY <1>4, <1>5, <3>1, <3>2 DEF Range
  <2>3. 1 \in 1 .. n + 1
    BY <1>1
  <2>4. i \in Range(t)
    BY <1>4, <1>5, <2>3 DEF Range
  <2>. QED  BY <2>1, <2>2, <2>4
<1>8. ASSUME IsInjective(s), i \notin Range(s) PROVE IsInjective(t)
  <2>. SUFFICES ASSUME NEW p \in 1 .. n + 1, NEW q \in 1 .. n + 1, t[p] = t[q] PROVE p = q
    BY <1>4 DEF IsInjective
  <2>1. CASE p = 1 \/ q = 1
    BY <1>1, <1>5, <1>6, <1>8, <2>1 DEF Range
  <2>2. CASE p # 1 /\ q # 1
    <3>1. p - 1 = q - 1
      BY <1>1, <1>6, <1>8, <2>2 DEF IsInjective
    <3>. QED  BY <3>1
  <2>. QED  BY <2>1, <2>2
<1>9. t = <<i>> \o s
  BY DEF t
<1>. QED  BY <1>1, <1>3, <1>4, <1>5, <1>6, <1>7, <1>8, <1>9

\* evictIfNeeded_ keeps the front of the list, at most max_sessions of it.
LEMMA KeptFacts ==
    ASSUME NEW S, NEW s \in Seq(S), s # <<>>
    PROVE  /\ Kept(s) \in Seq(S)
           /\ Len(Kept(s)) <= MaxSessions
           /\ Range(Kept(s)) \subseteq Range(s)
           /\ s[1] \in Range(Kept(s))
           /\ IsInjective(s) => IsInjective(Kept(s))
           /\ Subsequence(Kept(s), s)
<1>. DEFINE n == Len(s)
            m == IF n > MaxSessions THEN MaxSessions ELSE n
            k == SubSeq(s, 1, m)
<1>1. n \in Nat \ {0} /\ DOMAIN s = 1 .. n /\ \A p \in 1 .. n : s[p] \in S
  BY LenProperties, EmptySeq
<1>2. m \in Nat /\ 1 <= m /\ m <= n /\ m <= MaxSessions
  BY <1>1, TableAssumption
<1>. HIDE DEF m
<1>3. k \in Seq(S) /\ Len(k) = m /\ \A p \in 1 .. m : k[p] = s[p]
  <2>1. \A p \in 1 .. m : s[p] \in S
    BY <1>1, <1>2
  <2>2. /\ k \in Seq(S)
        /\ Len(k) = IF 1 <= m THEN m - 1 + 1 ELSE 0
        /\ \A p \in 1 .. m - 1 + 1 : k[p] = s[1 + p - 1]
    BY <1>2, <2>1, SubSeqProperties
  <2>. QED  BY <1>2, <2>2
<1>4. DOMAIN k = 1 .. m
  BY <1>3, LenProperties
<1>5. k = Kept(s)
  BY DEF Kept, m
<1>. HIDE DEF k
<1>6. \A p \in 1 .. m : p \in 1 .. n
  BY <1>1, <1>2
<1>7. 1 \in 1 .. m
  BY <1>2
<1>8. Range(k) \subseteq Range(s) /\ s[1] \in Range(k)
  BY <1>1, <1>3, <1>4, <1>6, <1>7 DEF Range
<1>9. IsInjective(s) => IsInjective(k)
  BY <1>1, <1>3, <1>4, <1>6 DEF IsInjective
<1>10. Subsequence(k, s)
  BY <1>1, <1>3, <1>4, <1>6 DEF Subsequence
<1>. QED  BY <1>2, <1>3, <1>5, <1>8, <1>9, <1>10

-----------------------------------------------------------------------------
(* The table.                                                              *)

\* No clock reading lies in the future.
ClockInv ==
    /\ gc_now <= now
    /\ \A o \in Requests : last_active[o] <= now

\* The entry gc is about to erase is in the table, and was idle for too long when the
\* collection read the clock or has been touched since.
EraseInv ==
    gc = "erase" =>
        /\ removed < GcBatch
        /\ it \in Mapped
        /\ \/ gc_now - last_active[map[it]] > IdleTtl
           \/ last_active[map[it]] >= gc_now

\* The list fits the table.
FitInv == Len(lru) <= MaxSessions

TableInv == TypeOK /\ TableAgrees /\ FitInv /\ ClockInv /\ EraseInv

\* What moveToFront does to the list of a table in agreement.
LEMMA FrontKeeps ==
    ASSUME lru \in Seq(Ids), IsInjective(lru), NEW i \in Range(lru), moveToFront(i)
    PROVE  /\ lru' \in Seq(Ids)
           /\ Len(lru') = Len(lru)
           /\ Range(lru') = Range(lru)
           /\ IsInjective(lru')
           /\ lru'[1] = i
           /\ \A p, q \in DOMAIN lru' : p < q =>
                 /\ lru'[q] # i
                 /\ \/ lru'[p] = i
                    \/ \E a, b \in DOMAIN lru : a < b /\ lru[a] = lru'[p] /\ lru[b] = lru'[q]
<1>. DEFINE u == Unlink(lru, i)
<1>1. i \in Ids
  BY RangeOfSeq
<1>2. /\ u \in Seq(Ids)
      /\ Len(u) = Len(lru) - 1
      /\ Range(u) = Range(lru) \ {i}
      /\ IsInjective(u)
      /\ Subsequence(u, lru)
  BY UnlinkFacts
<1>. HIDE DEF u
<1>3. lru' = <<i>> \o u
  BY DEF moveToFront, u
<1>4. /\ lru' \in Seq(Ids)
      /\ Len(lru') = Len(u) + 1
      /\ DOMAIN lru' = 1 .. Len(u) + 1
      /\ lru'[1] = i
      /\ \A p \in 1 .. Len(u) + 1 : p # 1 => p - 1 \in 1 .. Len(u) /\ lru'[p] = u[p - 1]
      /\ Range(lru') = Range(u) \cup {i}
      /\ IsInjective(lru')
  <2>1. i \notin Range(u)
    BY <1>2
  <2>. QED  BY <1>1, <1>2, <1>3, <2>1, PrependFacts
<1>5. Len(lru) \in Nat /\ Len(u) \in Nat /\ DOMAIN u = 1 .. Len(u)
  BY <1>2, LenProperties
<1>6. ASSUME NEW p \in DOMAIN lru', NEW q \in DOMAIN lru', p < q
      PROVE  /\ lru'[q] # i
             /\ \/ lru'[p] = i
                \/ \E a, b \in DOMAIN lru : a < b /\ lru[a] = lru'[p] /\ lru[b] = lru'[q]
  <2>1. q # 1 /\ q - 1 \in DOMAIN u /\ lru'[q] = u[q - 1]
    BY <1>4, <1>5, <1>6
  <2>2. u[q - 1] # i
    BY <1>2, <2>1 DEF Range
  <2>3. CASE p = 1
    BY <1>4, <2>1, <2>2, <2>3
  <2>4. CASE p # 1
    <3>1. p - 1 \in DOMAIN u /\ lru'[p] = u[p - 1] /\ p - 1 < q - 1
      BY <1>4, <1>5, <1>6, <2>4
    <3>. QED  BY <1>2, <2>1, <2>2, <3>1 DEF Subsequence
  <2>. QED  BY <2>3, <2>4
<1>. QED  BY <1>2, <1>4, <1>5, <1>6

\* What a new entry and the eviction after it do to the list.
LEMMA CreateKeeps ==
    ASSUME lru \in Seq(Ids), IsInjective(lru), NEW i \in Ids \ Range(lru), lru' = Kept(<<i>> \o lru)
    PROVE  /\ lru' \in Seq(Ids)
           /\ Len(lru') <= MaxSessions
           /\ Range(lru') \subseteq Range(lru) \cup {i}
           /\ i \in Range(lru')
           /\ IsInjective(lru')
           /\ \A p, q \in DOMAIN lru' : p < q =>
                 /\ lru'[q] # i
                 /\ \/ lru'[p] = i
                    \/ \E a, b \in DOMAIN lru : a < b /\ lru[a] = lru'[p] /\ lru[b] = lru'[q]
<1>. DEFINE t == <<i>> \o lru
<1>1. /\ t \in Seq(Ids)
      /\ Len(t) = Len(lru) + 1
      /\ DOMAIN t = 1 .. Len(lru) + 1
      /\ t[1] = i
      /\ \A p \in 1 .. Len(lru) + 1 : p # 1 => p - 1 \in 1 .. Len(lru) /\ t[p] = lru[p - 1]
      /\ Range(t) = Range(lru) \cup {i}
      /\ IsInjective(t)
  BY PrependFacts
<1>. HIDE DEF t
<1>2. Len(lru) \in Nat /\ DOMAIN lru = 1 .. Len(lru)
  BY LenProperties
<1>3. t # <<>>
  BY <1>1, <1>2
<1>4. lru' = Kept(t)
  BY DEF t
<1>5. /\ lru' \in Seq(Ids)
      /\ Len(lru') <= MaxSessions
      /\ Range(lru') \subseteq Range(t)
      /\ i \in Range(lru')
      /\ IsInjective(lru')
      /\ Subsequence(lru', t)
  <2>1. /\ Kept(t) \in Seq(Ids)
        /\ Len(Kept(t)) <= MaxSessions
        /\ Range(Kept(t)) \subseteq Range(t)
        /\ t[1] \in Range(Kept(t))
        /\ IsInjective(t) => IsInjective(Kept(t))
        /\ Subsequence(Kept(t), t)
    BY <1>1, <1>3, KeptFacts
  <2>. QED  BY <1>1, <1>4, <2>1
<1>6. ASSUME NEW a \in DOMAIN t, NEW b \in DOMAIN t, a < b
      PROVE  /\ t[b] # i
             /\ t[a] = i \/ \E c, d \in DOMAIN lru : c < d /\ lru[c] = t[a] /\ lru[d] = t[b]
  <2>1. b # 1 /\ b - 1 \in DOMAIN lru /\ t[b] = lru[b - 1]
    BY <1>1, <1>2, <1>6
  <2>2. t[b] # i
    BY <2>1 DEF Range
  <2>3. CASE a = 1
    BY <1>1, <2>2, <2>3
  <2>4. CASE a # 1
    <3>1. a - 1 \in DOMAIN lru /\ t[a] = lru[a - 1] /\ a - 1 < b - 1
      BY <1>1, <1>2, <1>6, <2>4
    <3>. QED  BY <2>1, <2>2, <3>1
  <2>. QED  BY <2>3, <2>4
<1>7. ASSUME NEW p \in DOMAIN lru', NEW q \in DOMAIN lru', p < q
      PROVE  /\ lru'[q] # i
             /\ \/ lru'[p] = i
                \/ \E a, b \in DOMAIN lru : a < b /\ lru[a] = lru'[p] /\ lru[b] = lru'[q]
  <2>1. PICK a \in DOMAIN t, b \in DOMAIN t : a < b /\ t[a] = lru'[p] /\ t[b] = lru'[q]
    BY <1>5, <1>7 DEF Subsequence
  <2>. QED  BY <1>6, <2>1
<1>. QED  BY <1>1, <1>5, <1>7

\* Every operation keeps the containers in agreement and the clock readings in order.
LEMMA TableStep ==
    ASSUME TableInv, [Next]_vars
    PROVE  TableInv'
<1>. USE TableAssumption DEF TableInv, TypeOK
<1>1. /\ IsInjective(lru) /\ Range(lru) = Mapped
      /\ \A i \in Mapped : map[i] \in arrived /\ IdOf[map[i]] = i
  BY DEF TableAgrees
\* Only clocks, counters and holders change.
<1>2. ASSUME UNCHANGED <<map, lru>>, arrived \subseteq arrived' PROVE TableAgrees' /\ FitInv'
  BY <1>2 DEF TableAgrees, FitInv, Mapped
<1>3. ASSUME gc' # "erase" PROVE EraseInv'
  BY <1>3 DEF EraseInv
<1>4. ASSUME NEW i \in Ids, i \in Mapped, eraseUnlocked(i), UNCHANGED arrived
      PROVE  lru' \in Seq(Ids) /\ map' \in [Ids -> Requests \cup {None}] /\ TableAgrees' /\ FitInv'
  <2>1. lru' = Unlink(lru, i) /\ map' = [map EXCEPT ![i] = None]
    BY <1>4 DEF eraseUnlocked
  <2>2. /\ Unlink(lru, i) \in Seq(Ids)
        /\ Len(Unlink(lru, i)) = Len(lru) - 1
        /\ Range(Unlink(lru, i)) = Range(lru) \ {i}
        /\ IsInjective(Unlink(lru, i))
    BY <1>1, <1>4, UnlinkFacts
  <2>3. Mapped' = Mapped \ {i} /\ \A j \in Mapped' : map'[j] = map[j]
    BY <2>1 DEF Mapped
  <2>4. TableAgrees'
    BY <1>1, <1>4, <2>1, <2>2, <2>3 DEF TableAgrees
  <2>5. Len(lru) \in Nat
    BY LenProperties
  <2>. QED  BY <2>1, <2>2, <2>4, <2>5 DEF FitInv
<1>5. ASSUME NEW i \in Ids, i \in Mapped, moveToFront(i), UNCHANGED map, arrived \subseteq arrived'
      PROVE  lru' \in Seq(Ids) /\ TableAgrees' /\ FitInv'
  <2>1. /\ lru' \in Seq(Ids)
        /\ Len(lru') = Len(lru)
        /\ Range(lru') = Range(lru)
        /\ IsInjective(lru')
    BY <1>1, <1>5, FrontKeeps
  <2>2. Mapped' = Mapped
    BY <1>5 DEF Mapped
  <2>. QED  BY <1>1, <1>5, <2>1, <2>2 DEF TableAgrees, FitInv
<1>6. ASSUME NEW r \in Requests, getOrCreate(r) PROVE TableInv'
  <2>. DEFINE i == IdOf[r]
              o == IF map[i] # None THEN map[i] ELSE r
  <2>1. i \in Ids /\ o \in Requests
    OBVIOUS
  <2>2. /\ r \notin arrived /\ arrived' = arrived \cup {r}
        /\ holder' = [holder EXCEPT ![r] = o]
        /\ last_active' = [last_active EXCEPT ![o] = now]
        /\ used' = [used EXCEPT ![o] = now]
        /\ UNCHANGED <<now, gc, it, removed, gc_now>>
        /\ gc = "sleep"
    BY <1>6 DEF getOrCreate, Unlocked, gcVars
  <2>3. /\ arrived' \subseteq Requests
        /\ holder' \in [Requests -> Requests \cup {None}]
        /\ last_active' \in [Requests -> 0 .. MaxTime]
        /\ used' \in [Requests -> 0 .. MaxTime]
    BY <2>1, <2>2
  <2>4. ClockInv' /\ EraseInv'
    BY <1>3, <2>1, <2>2 DEF ClockInv
  <2>5. lru' \in Seq(Ids) /\ map' \in [Ids -> Requests \cup {None}] /\ TableAgrees' /\ FitInv'
    <3>1. CASE map[i] # None
      <4>1. moveToFront(i) /\ UNCHANGED map /\ i \in Mapped
        BY <1>6, <2>1, <3>1 DEF getOrCreate, Mapped
      <4>. QED  BY <1>5, <2>1, <2>2, <4>1
    <3>2. CASE map[i] = None
      <4>1. /\ lru' = Kept(<<i>> \o lru)
            /\ map' = [j \in Ids |-> IF j \in Range(lru') THEN [map EXCEPT ![i] = r][j] ELSE None]
        BY <1>6, <3>2 DEF getOrCreate, evictIfNeeded
      <4>2. i \notin Range(lru)
        BY <1>1, <3>2 DEF Mapped
      <4>3. /\ lru' \in Seq(Ids)
            /\ Len(lru') <= MaxSessions
            /\ Range(lru') \subseteq Range(lru) \cup {i}
            /\ IsInjective(lru')
        BY <1>1, <2>1, <4>1, <4>2, CreateKeeps
      <4>4. map' \in [Ids -> Requests \cup {None}]
        BY <2>1, <4>1
      <4>5. \A j \in Ids : map'[j] = IF j \in Range(lru') THEN (IF j = i THEN r ELSE map[j]) ELSE None
        BY <2>1, <4>1
      <4>6. Range(lru') \subseteq Ids
        BY <4>3, RangeOfSeq
      <4>7. Mapped' = Range(lru')
        <5>1. \A j \in Ids : map'[j] # None <=> j \in Range(lru')
          BY <1>1, <4>3, <4>5, SMTT(30) DEF Mapped
        <5>. QED  BY <4>6, <5>1 DEF Mapped
      <4>8. \A j \in Mapped' : map'[j] \in arrived' /\ IdOf[map'[j]] = j
        BY <1>1, <2>2, <4>3, <4>5, <4>6, <4>7
      <4>. QED  BY <4>3, <4>4, <4>7, <4>8 DEF TableAgrees, FitInv
    <3>. QED  BY <3>1, <3>2
  <2>. QED  BY <2>2, <2>3, <2>4, <2>5
<1>7. ASSUME NEW i \in Ids, touch(i) PROVE TableInv'
  <2>1. /\ moveToFront(i) /\ i \in Mapped
        /\ last_active' = [last_active EXCEPT ![map[i]] = now]
        /\ used' = [used EXCEPT ![map[i]] = now]
        /\ UNCHANGED <<map, holder, arrived, now, gc, it, removed, gc_now>>
        /\ gc = "sleep"
    BY <1>7 DEF touch, Unlocked, gcVars, Mapped
  <2>2. /\ last_active' \in [Requests -> 0 .. MaxTime]
        /\ used' \in [Requests -> 0 .. MaxTime]
    BY <2>1
  <2>3. ClockInv' /\ EraseInv'
    BY <1>3, <2>1 DEF ClockInv
  <2>. QED  BY <1>5, <2>1, <2>2, <2>3
<1>8. ASSUME NEW i \in Ids, close(i) PROVE TableInv'
  <2>1. /\ eraseUnlocked(i) /\ i \in Mapped
        /\ UNCHANGED <<last_active, holder, arrived, now, gc, it, removed, gc_now, used>>
        /\ gc = "sleep"
    BY <1>8 DEF close, Unlocked, gcVars, Mapped
  <2>2. ClockInv' /\ EraseInv'
    BY <1>3, <2>1 DEF ClockInv
  <2>. QED  BY <1>4, <2>1, <2>2
<1>9. ASSUME NEW r \in Requests, onFinish(r) PROVE TableInv'
  <2>1. PICK o \in Requests : o = holder[r]
    BY <1>9 DEF onFinish
  <2>2. /\ UNCHANGED <<map, lru, arrived, now, gc, it, removed, gc_now>>
        /\ holder' = [holder EXCEPT ![r] = None]
        /\ UNCHANGED used
        /\ \/ last_active' = [last_active EXCEPT ![o] = now]
           \/ UNCHANGED last_active
    BY <1>9, <2>1 DEF onFinish, tableVars, gcVars
  <2>3. \A x \in Requests : last_active'[x] \in {last_active[x], now}
    BY <2>2
  <2>4. /\ holder' \in [Requests -> Requests \cup {None}]
        /\ last_active' \in [Requests -> 0 .. MaxTime]
    <3>1. holder' \in [Requests -> Requests \cup {None}]
      BY <2>2
    <3>2. CASE last_active' = [last_active EXCEPT ![o] = now]
      BY <3>1, <3>2
    <3>3. CASE UNCHANGED last_active
      BY <3>1, <3>3
    <3>. QED  BY <2>2, <3>2, <3>3
  <2>7. used' \in [Requests -> 0 .. MaxTime]
    BY <2>2
  <2>5. ClockInv'
    BY <2>2, <2>3 DEF ClockInv
  <2>6. EraseInv'
    BY <1>1, <2>2, <2>3 DEF EraseInv, ClockInv, Mapped
  <2>. QED  BY <1>2, <2>2, <2>4, <2>5, <2>6, <2>7
<1>10. ASSUME gcBegin \/ gcReturn PROVE TableInv'
  BY <1>2, <1>3, <1>10 DEF gcBegin, gcReturn, tableVars, ClockInv
<1>11. ASSUME gcVisit PROVE TableInv'
  <2>1. Deref \in Ids
    <3>1. /\ Len(lru) \in Nat /\ DOMAIN lru = 1 .. Len(lru)
          /\ \A p \in 1 .. Len(lru) : lru[p] \in Ids
      BY LenProperties
    <3>2. CASE it = End
      <4>1. lru # <<>>
        BY <1>11, <3>2 DEF gcVisit, AtRend
      <4>2. Len(lru) \in 1 .. Len(lru)
        BY <4>1, EmptySeq
      <4>. QED  BY <3>1, <3>2, <4>2 DEF Deref, Last
    <3>3. CASE it # End
      <4>. DEFINE at == CHOOSE p \in DOMAIN lru : lru[p] = it
      <4>1. it \in Range(lru) /\ (lru # <<>> => it # lru[1])
        BY <1>11, <3>3 DEF gcVisit, ItValid, AtRend
      <4>2. at \in DOMAIN lru /\ lru[at] = it
        BY <4>1 DEF Range
      <4>. HIDE DEF at
      <4>3. at \in 1 .. Len(lru) /\ at # 1
        BY <3>1, <4>1, <4>2
      <4>4. at - 1 \in 1 .. Len(lru)
        BY <3>1, <4>3
      <4>. QED  BY <3>1, <3>3, <4>4 DEF Deref, at
    <3>. QED  BY <3>2, <3>3
  <2>2. /\ it' = Deref
        /\ UNCHANGED <<map, lru, last_active, holder, arrived, now, removed, gc_now, used>>
        /\ gc' = IF map[Deref] # None THEN "erase" ELSE "scan"
        /\ removed < GcBatch
        /\ map[Deref] # None => gc_now - last_active[map[Deref]] > IdleTtl
    BY <1>11 DEF gcVisit, tableVars, shouldExpire
  <2>3. EraseInv'
    BY <2>1, <2>2 DEF EraseInv, Mapped
  <2>. QED  BY <1>2, <2>1, <2>2, <2>3 DEF ClockInv
<1>12. ASSUME gcErase PROVE TableInv'
  <2>1. it \in Mapped /\ it \in Ids /\ removed < GcBatch
    BY <1>12 DEF gcErase, EraseInv, Mapped
  <2>2. /\ eraseUnlocked(it)
        /\ removed' = removed + 1 /\ gc' = "scan"
        /\ UNCHANGED <<last_active, holder, arrived, now, it, gc_now, used>>
    BY <1>12 DEF gcErase
  <2>3. lru' \in Seq(Ids) /\ map' \in [Ids -> Requests \cup {None}] /\ TableAgrees' /\ FitInv'
    BY <1>4, <2>1, <2>2
  <2>4. removed' \in 0 .. GcBatch
    BY <2>1, <2>2
  <2>. QED  BY <1>3, <2>2, <2>3, <2>4 DEF ClockInv
<1>13. ASSUME gcStale PROVE TableInv'
  BY <1>2, <1>3, <1>13 DEF gcStale, tableVars, ClockInv
<1>14. ASSUME Tick PROVE TableInv'
  <2>1. /\ UNCHANGED <<map, lru, last_active, holder, arrived, gc, it, removed, gc_now, used>>
        /\ now < MaxTime /\ now' = now + 1
    BY <1>14 DEF Tick, tableVars, gcVars
  <2>2. now' \in 0 .. MaxTime /\ ClockInv'
    BY <2>1 DEF ClockInv
  <2>3. EraseInv'
    BY <2>1 DEF EraseInv, Mapped
  <2>. QED  BY <1>2, <2>1, <2>2, <2>3
<1>15. CASE UNCHANGED vars
  BY <1>2, <1>15 DEF vars, ClockInv, EraseInv, Mapped
<1>. QED
  BY <1>6, <1>7, <1>8, <1>9, <1>10, <1>11, <1>12, <1>13, <1>14, <1>15 DEF Next, GcStep, Dead

\* The table's inductive invariant.
LEMMA TableHolds == Spec => []TableInv
<1>1. Init => TableInv
  <2>1. <<>> \in Seq(Ids) /\ Len(<<>>) = 0 /\ DOMAIN <<>> = {}
    OBVIOUS
  <2>. QED  BY <2>1, TableAssumption
       DEF Init, TableInv, TypeOK, TableAgrees, FitInv, ClockInv, EraseInv, Mapped, Range, IsInjective
<1>2. TableInv /\ [Next]_vars => TableInv'
  BY TableStep
<1>. QED  BY <1>1, <1>2, PTL DEF Spec

\* The state of the table, the clock readings and the GC thread keep their types.
THEOREM TypeCorrect == Spec => []TypeOK
<1>1. TableInv => TypeOK
  BY DEF TableInv
<1>. QED  BY <1>1, TableHolds, PTL

\* map_ and lru_ describe the same sessions in every state, each listed once and entered
\* under the id it was created for, also between the steps of a collection.
THEOREM ContainersAgree == Spec => []TableAgrees
<1>1. TableInv => TableAgrees
  BY DEF TableInv
<1>. QED  BY <1>1, TableHolds, PTL

\* The table never outgrows max_sessions, between the eviction and the collections.
THEOREM NeverTooMany == Spec => []SizeBounded
<1>1. TableInv => SizeBounded
  <2>. SUFFICES ASSUME TableInv PROVE Cardinality(Mapped) <= MaxSessions
    BY DEF SizeBounded
  <2>. DEFINE n == Len(lru)
  <2>1. n \in Nat /\ DOMAIN lru = 1 .. n /\ lru \in [1 .. n -> Ids]
    BY LenProperties DEF TableInv, TypeOK
  <2>2. Range(lru) = Mapped
    BY DEF TableInv, TableAgrees
  <2>3. lru \in [1 .. n -> Mapped] /\ \A i \in Mapped : \E p \in 1 .. n : lru[p] = i
    BY <2>1, <2>2 DEF Range
  <2>4. ExistsSurjection(1 .. n, Mapped)
    BY <2>3 DEF ExistsSurjection, Surjection
  <2>5. Cardinality(Mapped) <= n /\ IsFiniteSet(Mapped) /\ Cardinality(Mapped) \in Nat
    <3>1. IsFiniteSet(1 .. n) /\ Cardinality(1 .. n) = n
      BY <2>1, FS_Interval
    <3>2. PICK f \in Surjection(1 .. n, Mapped) : TRUE
      BY <2>4 DEF ExistsSurjection
    <3>3. IsFiniteSet(Mapped) /\ Cardinality(Mapped) <= Cardinality(1 .. n)
      BY <3>1, <3>2, FS_Surjection
    <3>. QED  BY <3>1, <3>3, FS_CardinalityType
  <2>6. n <= MaxSessions
    BY DEF TableInv, FitInv
  <2>. QED  BY <2>1, <2>5, <2>6, TableAssumption
<1>. QED  BY <1>1, TableHolds, PTL

-----------------------------------------------------------------------------
(* What a step may not do to the table.                                    *)

\* The steps that change map_, and what they may change of it.
LEMMA MapStep ==
    ASSUME TableInv, [Next]_vars
    PROVE  /\ gc # "sleep" /\ map' # map => gc = "erase" /\ map' = [map EXCEPT ![it] = None]
           /\ \A i \in Ids : map'[i] = map[i] \/ map'[i] = None
                             \/ \E r \in Requests \ arrived : map'[i] = r
           /\ \A r \in Requests : r \in arrived' \ arrived => map'[IdOf[r]] = holder'[r]
<1>. DEFINE Goal == /\ gc # "sleep" /\ map' # map => gc = "erase" /\ map' = [map EXCEPT ![it] = None]
                    /\ \A i \in Ids : map'[i] = map[i] \/ map'[i] = None
                                      \/ \E r \in Requests \ arrived : map'[i] = r
                    /\ \A r \in Requests : r \in arrived' \ arrived => map'[IdOf[r]] = holder'[r]
<1>. USE TableAssumption DEF TableInv, TypeOK
<1>1. ASSUME UNCHANGED <<map, arrived>> PROVE Goal
  BY <1>1
<1>2. ASSUME NEW r \in Requests, getOrCreate(r) PROVE Goal
  <2>. DEFINE i == IdOf[r]
  <2>1. /\ i \in Ids /\ gc = "sleep" /\ r \notin arrived /\ arrived' = arrived \cup {r}
        /\ holder'[r] = IF map[i] # None THEN map[i] ELSE r
    BY <1>2 DEF getOrCreate, Unlocked
  <2>2. CASE map[i] # None
    <3>1. UNCHANGED map
      BY <1>2, <2>2 DEF getOrCreate
    <3>. QED  BY <2>1, <2>2, <3>1
  <2>3. CASE map[i] = None
    <3>1. /\ lru' = Kept(<<i>> \o lru)
          /\ map' = [j \in Ids |-> IF j \in Range(lru') THEN [map EXCEPT ![i] = r][j] ELSE None]
      BY <1>2, <2>3 DEF getOrCreate, evictIfNeeded
    <3>2. i \notin Range(lru) /\ IsInjective(lru)
      BY <2>3 DEF TableAgrees, Mapped
    <3>3. i \in Range(lru')
      BY <2>1, <3>1, <3>2, CreateKeeps
    <3>4. /\ map'[i] = r
          /\ \A j \in Ids : j # i => map'[j] = map[j] \/ map'[j] = None
      BY <2>1, <3>1, <3>3
    <3>. QED  BY <2>1, <2>3, <3>4
  <2>. QED  BY <2>2, <2>3
<1>3. ASSUME NEW i \in Ids, close(i) PROVE Goal
  BY <1>3 DEF close, Unlocked, eraseUnlocked
<1>4. ASSUME gcErase PROVE Goal
  BY <1>4 DEF gcErase, eraseUnlocked
<1>5. ASSUME NEW i \in Ids, touch(i) PROVE Goal
  BY <1>1, <1>5 DEF touch
<1>6. ASSUME NEW r \in Requests, onFinish(r) PROVE Goal
  BY <1>1, <1>6 DEF onFinish, tableVars
<1>7. ASSUME gcBegin \/ gcReturn \/ gcVisit \/ gcStale \/ Tick \/ UNCHANGED vars PROVE Goal
  BY <1>1, <1>7 DEF gcBegin, gcReturn, gcVisit, gcStale, Tick, tableVars, vars
<1>. QED
  BY <1>2, <1>3, <1>4, <1>5, <1>6, <1>7 DEF Next, GcStep, Dead

\* The eviction in getOrCreate never takes the session it makes room for.
THEOREM NewcomerNotEvicted == Spec => NewcomerStays
<1>1. TableInv /\ [Next]_vars
      => [\A r \in Requests : r \in arrived' \ arrived => map'[IdOf[r]] = holder'[r]]_vars
  BY MapStep
<1>. QED  BY <1>1, TableHolds, PTL DEF Spec, NewcomerStays

\* A collection removes only sessions that were idle for longer than idle_ttl when it
\* read the clock, or that a request finished on after that reading.
THEOREM GcOnlyIdle == Spec => GcSparesFresh
<1>1. TableInv /\ [Next]_vars
      => [\A i \in Ids : gc # "sleep" /\ map[i] # None /\ map'[i] = None =>
              \/ gc_now - last_active[map[i]] > IdleTtl
              \/ last_active[map[i]] >= gc_now]_vars
  <2>. SUFFICES ASSUME TableInv, [Next]_vars, NEW i \in Ids,
                       gc # "sleep", map[i] # None, map'[i] = None
                PROVE  \/ gc_now - last_active[map[i]] > IdleTtl
                       \/ last_active[map[i]] >= gc_now
    OBVIOUS
  <2>1. gc = "erase" /\ map' = [map EXCEPT ![it] = None]
    BY MapStep
  <2>2. i = it
    BY <2>1 DEF TableInv, TypeOK
  <2>. QED  BY <2>1, <2>2 DEF TableInv, EraseInv
<1>. QED  BY <1>1, TableHolds, PTL DEF Spec, GcSparesFresh

\* A Session object that left the table never returns to it.
THEOREM DroppedNeverReturns == Spec => DroppedStaysOut
<1>1. TableInv /\ [Next]_vars
      => [\A o \in arrived : map[IdOf[o]] # o => map'[IdOf[o]] # o]_vars
  <2>. SUFFICES ASSUME TableInv, [Next]_vars, NEW o \in arrived, map[IdOf[o]] # o
                PROVE  map'[IdOf[o]] # o
    OBVIOUS
  <2>1. o \in Requests /\ IdOf[o] \in Ids /\ o # None
    BY TableAssumption DEF TableInv, TypeOK
  <2>. QED  BY <2>1, MapStep
<1>. QED  BY <1>1, TableHolds, PTL DEF Spec, DroppedStaysOut

-----------------------------------------------------------------------------
(* The list is in the order of use.                                        *)

\* Every operation keeps the order.
LEMMA OrderStep ==
    ASSUME TableInv, OrderedByUse, [Next]_vars
    PROVE  OrderedByUse'
<1>. USE TableAssumption DEF TableInv, TypeOK
<1>1. /\ IsInjective(lru) /\ Range(lru) = Mapped
      /\ \A i \in Mapped : map[i] \in arrived /\ IdOf[map[i]] = i
      /\ \A p \in DOMAIN lru : lru[p] \in Mapped
  BY DEF TableAgrees, Range
<1>2. \A o \in Requests : /\ last_active[o] \in Int /\ last_active[o] <= now
                          /\ used[o] \in Int /\ used[o] <= now
  BY DEF ClockInv, OrderedByUse
\* Entries keep their order.
<1>3. ASSUME \A p, q \in DOMAIN lru' : p < q =>
                \E a, b \in DOMAIN lru : a < b /\ lru[a] = lru'[p] /\ lru[b] = lru'[q],
             \A p \in DOMAIN lru' : map'[lru'[p]] = map[lru'[p]],
             UNCHANGED <<last_active, used>>
      PROVE  OrderedByUse'
  <2>. SUFFICES ASSUME NEW p \in DOMAIN lru', NEW q \in DOMAIN lru', p < q
                PROVE  used[map'[lru'[q]]] <= used[map'[lru'[p]]]
    BY <1>3 DEF OrderedByUse
  <2>1. PICK a \in DOMAIN lru, b \in DOMAIN lru : a < b /\ lru[a] = lru'[p] /\ lru[b] = lru'[q]
    BY <1>3
  <2>2. used[map[lru[b]]] <= used[map[lru[a]]]
    BY <2>1 DEF OrderedByUse
  <2>. QED  BY <1>3, <2>1, <2>2
\* The entry at the front is the one just used, and the others keep their order.
<1>4. ASSUME NEW i \in Ids, NEW o \in Requests, map'[i] = o, IdOf[o] = i,
             \A p, q \in DOMAIN lru' : p < q =>
                 /\ lru'[q] # i
                 /\ \/ lru'[p] = i
                    \/ \E a, b \in DOMAIN lru : a < b /\ lru[a] = lru'[p] /\ lru[b] = lru'[q],
             \A p \in DOMAIN lru' : lru'[p] = i \/ (lru'[p] \in Mapped /\ map'[lru'[p]] = map[lru'[p]]),
             last_active' = [last_active EXCEPT ![o] = now],
             used' = [used EXCEPT ![o] = now]
      PROVE  OrderedByUse'
  <2>0. \A x \in Requests : used'[x] <= last_active'[x]
    BY <1>2, <1>4 DEF OrderedByUse
  <2>. SUFFICES ASSUME NEW p \in DOMAIN lru', NEW q \in DOMAIN lru', p < q
                PROVE  used'[map'[lru'[q]]] <= used'[map'[lru'[p]]]
    BY <2>0 DEF OrderedByUse
  <2>1. PICK y \in Requests : /\ y = map'[lru'[q]] /\ y = map[lru'[q]] /\ y # o
                              /\ used'[y] = used[y]
    <3>1. lru'[q] # i /\ lru'[q] \in Mapped /\ map'[lru'[q]] = map[lru'[q]]
      BY <1>4
    <3>2. map[lru'[q]] \in Requests /\ IdOf[map[lru'[q]]] = lru'[q]
      BY <1>1, <3>1
    <3>. QED  BY <1>4, <3>1, <3>2
  <2>2. CASE lru'[p] = i
    <3>1. used'[map'[lru'[p]]] = now
      BY <1>4, <2>2
    <3>. QED  BY <1>2, <2>1, <3>1
  <2>3. CASE lru'[p] # i
    <3>1. PICK a \in DOMAIN lru, b \in DOMAIN lru : a < b /\ lru[a] = lru'[p] /\ lru[b] = lru'[q]
      BY <1>4, <2>3
    <3>2. PICK x \in Requests : x = map'[lru'[p]] /\ x = map[lru'[p]] /\ x # o
      <4>1. lru'[p] \in Mapped /\ map'[lru'[p]] = map[lru'[p]]
        BY <1>4, <2>3
      <4>2. map[lru'[p]] \in Requests /\ IdOf[map[lru'[p]]] = lru'[p]
        BY <1>1, <4>1
      <4>. QED  BY <1>4, <2>3, <4>1, <4>2
    <3>3. used[y] <= used[x]
      BY <2>1, <3>1, <3>2 DEF OrderedByUse
    <3>4. used'[x] = used[x]
      BY <1>4, <3>2
    <3>. QED  BY <1>4, <2>1, <3>2, <3>3, <3>4
  <2>. QED  BY <2>2, <2>3
<1>5. ASSUME UNCHANGED <<map, lru, last_active, used>> PROVE OrderedByUse'
  BY <1>5 DEF OrderedByUse
<1>6. ASSUME NEW i \in Ids, i \in Mapped, eraseUnlocked(i), UNCHANGED <<last_active, used>>
      PROVE  OrderedByUse'
  <2>1. lru' = Unlink(lru, i) /\ map' = [map EXCEPT ![i] = None]
    BY <1>6 DEF eraseUnlocked
  <2>2. Range(Unlink(lru, i)) = Range(lru) \ {i} /\ Subsequence(Unlink(lru, i), lru)
    BY <1>1, <1>6, UnlinkFacts
  <2>3. Range(lru') = Range(lru) \ {i} /\ Subsequence(lru', lru)
    BY <2>1, <2>2
  <2>4. \A p \in DOMAIN lru' : map'[lru'[p]] = map[lru'[p]]
    <3>1. \A p \in DOMAIN lru' : lru'[p] \in Range(lru) \ {i}
      BY <2>3 DEF Range
    <3>2. Range(lru) \subseteq Ids
      BY <1>1 DEF Range, Mapped
    <3>. QED  BY <2>1, <3>1, <3>2
  <2>. QED  BY <1>3, <1>6, <2>3, <2>4 DEF Subsequence
<1>7. ASSUME NEW i \in Ids, i \in Mapped, moveToFront(i), UNCHANGED map,
             last_active' = [last_active EXCEPT ![map[i]] = now],
             used' = [used EXCEPT ![map[i]] = now]
      PROVE  OrderedByUse'
  <2>1. map[i] \in Requests /\ IdOf[map[i]] = i
    BY <1>1, <1>7
  <2>2. /\ Range(lru') = Range(lru)
        /\ \A p, q \in DOMAIN lru' : p < q =>
               /\ lru'[q] # i
               /\ \/ lru'[p] = i
                  \/ \E a, b \in DOMAIN lru : a < b /\ lru[a] = lru'[p] /\ lru[b] = lru'[q]
    BY <1>1, <1>7, FrontKeeps
  <2>3. \A p \in DOMAIN lru' : lru'[p] \in Mapped
    BY <1>1, <2>2 DEF Range
  <2>. QED  BY <1>4, <1>7, <2>1, <2>2, <2>3
<1>8. ASSUME NEW r \in Requests, getOrCreate(r) PROVE OrderedByUse'
  <2>. DEFINE i == IdOf[r]
  <2>1. CASE map[i] # None
    <3>1. /\ moveToFront(i) /\ UNCHANGED map /\ i \in Mapped
          /\ last_active' = [last_active EXCEPT ![map[i]] = now]
          /\ used' = [used EXCEPT ![map[i]] = now]
      BY <1>8, <2>1 DEF getOrCreate, Mapped
    <3>. QED  BY <1>7, <3>1 DEF Mapped
  <2>2. CASE map[i] = None
    <3>1. /\ lru' = Kept(<<i>> \o lru)
          /\ map' = [j \in Ids |-> IF j \in Range(lru') THEN [map EXCEPT ![i] = r][j] ELSE None]
          /\ last_active' = [last_active EXCEPT ![r] = now]
          /\ used' = [used EXCEPT ![r] = now]
      BY <1>8, <2>2 DEF getOrCreate, evictIfNeeded
    <3>2. i \in Ids \ Range(lru)
      BY <1>1, <2>2 DEF Mapped
    <3>3. /\ Range(lru') \subseteq Range(lru) \cup {i}
          /\ i \in Range(lru')
          /\ \A p, q \in DOMAIN lru' : p < q =>
                 /\ lru'[q] # i
                 /\ \/ lru'[p] = i
                    \/ \E a, b \in DOMAIN lru : a < b /\ lru[a] = lru'[p] /\ lru[b] = lru'[q]
      BY <1>1, <3>1, <3>2, CreateKeeps
    <3>4. /\ map'[i] = r
          /\ \A j \in Range(lru') : j = i \/ (j \in Mapped /\ map'[j] = map[j])
      BY <1>1, <3>1, <3>2, <3>3 DEF Mapped
    <3>5. \A p \in DOMAIN lru' : lru'[p] = i \/ (lru'[p] \in Mapped /\ map'[lru'[p]] = map[lru'[p]])
      BY <3>4 DEF Range
    <3>6. IdOf[r] = i /\ i \in Ids
      BY <3>2
    <3>. HIDE DEF i
    <3>. QED  BY <1>4, <3>1, <3>3, <3>4, <3>5, <3>6
  <2>. QED  BY <2>1, <2>2
<1>9. ASSUME NEW i \in Ids, touch(i) PROVE OrderedByUse'
  BY <1>7, <1>9 DEF touch, Mapped
<1>10. ASSUME NEW i \in Ids, close(i) PROVE OrderedByUse'
  BY <1>6, <1>10 DEF close, Mapped
<1>11. ASSUME NEW r \in Requests, onFinish(r) PROVE OrderedByUse'
  <2>1. UNCHANGED <<map, lru, used>>
    BY <1>11 DEF onFinish, tableVars
  <2>2. \A o \in Requests : last_active'[o] \in {last_active[o], now}
    BY <1>11 DEF onFinish
  <2>3. \A o \in Requests : used[o] <= last_active'[o]
    BY <1>2, <2>2 DEF OrderedByUse
  <2>. QED  BY <2>1, <2>3 DEF OrderedByUse
<1>12. ASSUME gcErase PROVE OrderedByUse'
  BY <1>6, <1>12 DEF gcErase, EraseInv, Mapped
<1>13. ASSUME gcBegin \/ gcReturn \/ gcVisit \/ gcStale \/ Tick \/ UNCHANGED vars PROVE OrderedByUse'
  BY <1>5, <1>13 DEF gcBegin, gcReturn, gcVisit, gcStale, Tick, tableVars, vars
<1>. QED
  BY <1>8, <1>9, <1>10, <1>11, <1>12, <1>13 DEF Next, GcStep, Dead

\* lru_ is in the order of getOrCreate, get and touch, whatever requests finish,
\* sessions are closed, evicted or collected: an eviction drops the session that was
\* not asked for longest.
THEOREM OrderHolds == Spec => []OrderedByUse
<1>1. Init => OrderedByUse
  <2>1. DOMAIN <<>> = {}
    OBVIOUS
  <2>. QED  BY <2>1, TableAssumption DEF Init, OrderedByUse
<1>2. TableInv /\ OrderedByUse /\ [Next]_vars => OrderedByUse'
  BY OrderStep
<1>. QED  BY <1>1, <1>2, TableHolds, PTL DEF Spec

=============================================================================
