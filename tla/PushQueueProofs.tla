--------------------------- MODULE PushQueueProofs ---------------------------
(***************************************************************************)
(* Proofs about PushQueue for any limits, sizes, answers and bounds: types,*)
(* no lost wake-ups, chronological order, buffer ownership, and that the   *)
(* queue implements DropOldestFifo.                                        *)
(***************************************************************************)
EXTENDS PushQueue, SequenceTheorems, WellFoundedInduction, TLAPS

\* A set of naturals that is not empty has a least element.
LEMMA NatMin ==
  ASSUME NEW S \in SUBSET Nat, S # {}
  PROVE  \E m \in S : \A n \in S : m <= n
<1> DEFINE R == {ss \in Nat \X Nat : ss[1] < ss[2]}
<1>1. IsWellFoundedOn(R, Nat)
  BY NatLessThanWellFounded, Zenon DEF OpToRel
<1>2. PICK m \in S : \A n \in S : ~(<<n, m>> \in R)
  BY <1>1, WFMin, Zenon
<1>3. ASSUME NEW n \in S PROVE m <= n
  <2>1. n \in Nat /\ m \in Nat
    OBVIOUS
  <2>2. <<n, m>> \in R <=> n < m
    <3>1. <<n, m>> \in Nat \X Nat /\ <<n, m>>[1] = n /\ <<n, m>>[2] = m
      BY <2>1
    <3> QED  BY <3>1
  <2>3. ~(n < m)
    <3> HIDE DEF R
    <3> QED  BY <1>2, <2>2
  <2> QED  BY <2>1, <2>3
<1> QED  BY <1>3

\* Taking a prefix and dropping it.
LEMMA SplitFacts ==
  ASSUME NEW s \in Seq(Entry), NEW k \in 0..Len(s)
  PROVE  /\ Drop(s, k) \in Seq(Entry) /\ Len(Drop(s, k)) = Len(s) - k
         /\ \A i \in 1..(Len(s) - k) : Drop(s, k)[i] = s[k + i]
         /\ SubSeq(s, 1, k) \in Seq(Entry) /\ Len(SubSeq(s, 1, k)) = k
         /\ \A i \in 1..k : SubSeq(s, 1, k)[i] = s[i]
<1>1. Len(s) \in Nat /\ \A i \in 1..Len(s) : s[i] \in Entry
  BY LenProperties, ElementOfSeq
<1>2. \A i \in (k + 1)..Len(s) : s[i] \in Entry
  BY <1>1
<1>3. /\ Drop(s, k) \in Seq(Entry)
      /\ Len(Drop(s, k)) = IF k + 1 <= Len(s) THEN Len(s) - (k + 1) + 1 ELSE 0
      /\ \A i \in 1..(Len(s) - (k + 1) + 1) : Drop(s, k)[i] = s[(k + 1) + i - 1]
  BY <1>1, <1>2, SubSeqProperties DEF Drop
<1>4. \A i \in 1..k : s[i] \in Entry
  BY <1>1
<1>5. /\ SubSeq(s, 1, k) \in Seq(Entry)
      /\ Len(SubSeq(s, 1, k)) = IF 1 <= k THEN k - 1 + 1 ELSE 0
      /\ \A i \in 1..(k - 1 + 1) : SubSeq(s, 1, k)[i] = s[1 + i - 1]
  BY <1>1, <1>4, SubSeqProperties
<1>6. Len(Drop(s, k)) = Len(s) - k /\ Len(SubSeq(s, 1, k)) = k
  BY <1>1, <1>3, <1>5
<1>7. \A i \in 1..(Len(s) - k) : Drop(s, k)[i] = s[k + i]
  BY <1>1, <1>3
<1>8. \A i \in 1..k : SubSeq(s, 1, k)[i] = s[i]
  BY <1>5
<1> QED  BY <1>3, <1>5, <1>6, <1>7, <1>8

LEMMA LimitBytesRange ==
  ASSUME NEW s \in Seq(Entry)
  PROVE  limitBytes(s) \in 0..Len(s)
<1> DEFINE over == {i \in DOMAIN s : Bytes(Drop(s, i - 1)) > MaxQueuedBytes}
<1>1. Len(s) \in Nat /\ DOMAIN s = 1..Len(s)
  BY LenProperties
<1>2. CASE MaxQueuedBytes = 0 \/ over = {}
  BY <1>1, <1>2 DEF limitBytes
<1>3. CASE MaxQueuedBytes # 0 /\ over # {}
  <2> DEFINE gaps == {Len(s) - i : i \in over}
  <2>1. gaps \in SUBSET Nat /\ gaps # {}
    BY <1>1, <1>3
  <2>2. PICK m \in gaps : \A n \in gaps : m <= n
    BY <2>1, NatMin, Zenon
  <2>3. PICK i \in over : m = Len(s) - i
    BY <2>2
  <2>4. ASSUME NEW j \in over PROVE j <= i
    <3>1. Len(s) - j \in gaps
      OBVIOUS
    <3>2. i \in Nat /\ j \in Nat
      BY <1>1
    <3>3. m <= Len(s) - j /\ m = Len(s) - i
      BY <2>2, <2>3, <3>1
    <3> HIDE DEF gaps, over
    <3> QED  BY <1>1, <3>2, <3>3
  <2>5. (CHOOSE x \in over : \A j \in over : j <= x) \in over
    BY <2>3, <2>4
  <2> QED  BY <1>1, <1>3, <2>5 DEF limitBytes
<1> QED  BY <1>2, <1>3

\* Something true of the last index is first true at some index m.
LEMMA FirstIndex ==
  ASSUME NEW lo \in Nat, NEW hi \in Nat, lo <= hi, NEW T \in SUBSET (lo..hi), hi \in T
  PROVE  \E m \in T : m > lo => m - 1 \in (lo..hi) \ T
<1>1. T \in SUBSET Nat /\ T # {}
  OBVIOUS
<1>2. PICK m \in T : \A n \in T : m <= n
  BY <1>1, NatMin
<1>3. m > lo => m - 1 \in (lo..hi) \ T
  <2>1. m - 1 \notin T
    BY <1>2
  <2> QED  BY <2>1
<1> QED  BY <1>3

LEMMA SearchRange ==
  ASSUME NEW s \in Seq(Entry)
  PROVE  Search(s) \in 0..Len(s)
<1> DEFINE T == {i \in 0..Len(s) : i < Len(s) => ~Expired(s[i + 1])}
           ok(idx) == /\ idx > 0      => Expired(s[idx])
                      /\ idx < Len(s) => ~Expired(s[idx + 1])
<1>1. Len(s) \in Nat
  BY LenProperties
<1>2. PICK m \in T : m > 0 => m - 1 \in (0..Len(s)) \ T
  <2>1. T \in SUBSET (0..Len(s)) /\ Len(s) \in T /\ 0 <= Len(s) /\ 0 \in Nat
    BY <1>1
  <2> HIDE DEF T
  <2> QED  BY <1>1, <2>1, FirstIndex, Zenon
<1>3. m > 0 => Expired(s[m])
  <2>1. ASSUME m > 0 PROVE Expired(s[(m - 1) + 1])
    BY <1>1, <1>2, <2>1
  <2> QED  BY <2>1, <1>1
<1>4. m \in 0..Len(s) /\ ok(m)
  BY <1>2, <1>3
<1> HIDE DEF ok
<1>5. (CHOOSE idx \in 0..Len(s) : ok(idx)) \in 0..Len(s)
  BY <1>4
<1> QED  BY <1>5 DEF Search, ok

LEMMA BatchLenRange ==
  ASSUME NEW s \in Seq(Entry), s # <<>>
  PROVE  BatchLen(s) \in 1..Len(s)
<1> DEFINE T == {n \in 1..Len(s) : n < Len(s) => Bytes(SubSeq(s, 1, n + 1)) > MaxPushBytes}
           ok(n) == /\ n > 1 => ~(Bytes(SubSeq(s, 1, n)) > MaxPushBytes)
                    /\ n < Len(s) => Bytes(SubSeq(s, 1, n + 1)) > MaxPushBytes
<1>1. Len(s) \in Nat /\ 1 <= Len(s)
  BY LenProperties, EmptySeq
<1>2. PICK m \in T : m > 1 => m - 1 \in (1..Len(s)) \ T
  <2>1. T \in SUBSET (1..Len(s)) /\ Len(s) \in T /\ 1 \in Nat
    BY <1>1
  <2> HIDE DEF T
  <2> QED  BY <1>1, <2>1, FirstIndex, Zenon
<1>3. m > 1 => ~(Bytes(SubSeq(s, 1, m)) > MaxPushBytes)
  <2>1. ASSUME m > 1 PROVE ~(Bytes(SubSeq(s, 1, (m - 1) + 1)) > MaxPushBytes)
    BY <1>1, <1>2, <2>1
  <2> QED  BY <2>1, <1>1
<1>4. m \in 1..Len(s) /\ ok(m)
  BY <1>2, <1>3
<1> HIDE DEF ok
<1>5. (CHOOSE n \in 1..Len(s) : ok(n)) \in 1..Len(s)
  BY <1>4
<1> QED  BY <1>5 DEF BatchLen, ok

-----------------------------------------------------------------------------
(* Order and identities of records in pieces of a sequence.                *)

AllBefore(s, t) == \A i \in DOMAIN s, j \in DOMAIN t : Before(s[i], t[j])

\* Two ordered sequences, the first before the second, make an ordered one.
LEMMA ConcatOrdered ==
  ASSUME NEW s \in Seq(Entry), NEW t \in Seq(Entry)
  PROVE  Ordered(s \o t) <=> Ordered(s) /\ Ordered(t) /\ AllBefore(s, t)
<1> DEFINE m == Len(s)
           n == Len(t)
           u == s \o t
<1>1. /\ m \in Nat /\ n \in Nat /\ DOMAIN s = 1..m /\ DOMAIN t = 1..n
      /\ DOMAIN u = 1..(m + n)
      /\ \A i \in 1..(m + n) : u[i] = IF i <= m THEN s[i] ELSE t[i - m]
  BY LenProperties, ConcatProperties
<1> HIDE DEF u, m, n
<1>2. \A i \in 1..m : i \in DOMAIN u /\ u[i] = s[i]
  BY <1>1
<1>3. \A j \in 1..n : m + j \in DOMAIN u /\ m + j > m /\ u[m + j] = t[j]
  BY <1>1
<1>4. ASSUME Ordered(u) PROVE Ordered(s) /\ Ordered(t) /\ AllBefore(s, t)
  <2>1. ASSUME NEW i \in 1..m, NEW j \in 1..m, i < j PROVE Before(s[i], s[j])
    BY <1>2, <1>4, <2>1 DEF Ordered
  <2>2. ASSUME NEW i \in 1..n, NEW j \in 1..n, i < j PROVE Before(t[i], t[j])
    <3>1. m + i < m + j
      BY <1>1, <2>2
    <3> QED  BY <1>3, <1>4, <3>1 DEF Ordered
  <2>3. ASSUME NEW i \in 1..m, NEW j \in 1..n PROVE Before(s[i], t[j])
    <3>1. i < m + j
      BY <1>1
    <3> QED  BY <1>2, <1>3, <1>4, <3>1 DEF Ordered
  <2> QED  BY <1>1, <2>1, <2>2, <2>3 DEF Ordered, AllBefore
<1>5. ASSUME Ordered(s), Ordered(t), AllBefore(s, t) PROVE Ordered(u)
  <2> SUFFICES ASSUME NEW i \in 1..(m + n), NEW j \in 1..(m + n), i < j
               PROVE  Before(u[i], u[j])
    BY <1>1 DEF Ordered
  <2>1. CASE j <= m
    <3>1. i \in 1..m /\ j \in 1..m
      BY <1>1, <2>1
    <3> QED  BY <1>1, <1>2, <1>5, <3>1 DEF Ordered
  <2>2. CASE i <= m /\ j > m
    <3>1. j - m \in 1..n /\ i \in 1..m /\ u[j] = t[j - m]
      BY <1>1, <2>2
    <3> QED  BY <1>1, <1>2, <1>5, <3>1 DEF AllBefore
  <2>3. CASE i > m
    <3>1. j - m \in 1..n /\ i - m \in 1..n /\ i - m < j - m
      BY <1>1, <2>3
    <3>2. u[j] = t[j - m] /\ u[i] = t[i - m]
      BY <1>1, <2>3
    <3> QED  BY <1>1, <1>5, <3>1, <3>2, Zenon DEF Ordered
  <2> QED  BY <1>1, <2>1, <2>2, <2>3
<1> QED  BY <1>4, <1>5 DEF u

\* Concatenation of records is associative.
LEMMA ConcatAssoc ==
  ASSUME NEW r \in Seq(Entry), NEW t \in Seq(Entry), NEW u \in Seq(Entry)
  PROVE  (r \o t) \o u = r \o (t \o u)
  BY ConcatAssociative

LEMMA ConcatIds ==
  ASSUME NEW s \in Seq(Entry), NEW t \in Seq(Entry)
  PROVE  Ids(s \o t) = Ids(s) \cup Ids(t)
<1> DEFINE m == Len(s)
           n == Len(t)
           u == s \o t
<1>1. /\ m \in Nat /\ n \in Nat /\ DOMAIN s = 1..m /\ DOMAIN t = 1..n
      /\ DOMAIN u = 1..(m + n)
      /\ \A i \in 1..(m + n) : u[i] = IF i <= m THEN s[i] ELSE t[i - m]
  BY LenProperties, ConcatProperties
<1> HIDE DEF u, m, n
<1>2. (\A i \in 1..m : u[i] = s[i]) /\ (\A j \in 1..n : u[m + j] = t[j])
  BY <1>1
<1>3. ASSUME NEW x \in Ids(u) PROVE x \in Ids(s) \cup Ids(t)
  <2>1. PICK i \in 1..(m + n) : x = u[i].id
    BY <1>1, <1>3 DEF Ids
  <2>2. CASE i <= m
    <3>1. i \in 1..m /\ u[i] = s[i]
      BY <1>1, <2>2
    <3> QED  BY <1>1, <2>1, <3>1 DEF Ids
  <2>3. CASE i > m
    <3>1. i - m \in 1..n /\ u[i] = t[i - m]
      BY <1>1, <2>3
    <3> QED  BY <1>1, <2>1, <3>1 DEF Ids
  <2> QED  BY <1>1, <2>2, <2>3
<1>4. ASSUME NEW x \in Ids(s) PROVE x \in Ids(u)
  <2>1. PICK i \in 1..m : x = s[i].id
    BY <1>1, <1>4 DEF Ids
  <2>2. i \in DOMAIN u /\ u[i] = s[i]
    BY <1>1, <1>2
  <2> QED  BY <2>1, <2>2 DEF Ids
<1>5. ASSUME NEW x \in Ids(t) PROVE x \in Ids(u)
  <2>1. PICK j \in 1..n : x = t[j].id
    BY <1>1, <1>5 DEF Ids
  <2>2. m + j \in DOMAIN u /\ u[m + j] = t[j]
    BY <1>1, <1>2
  <2> QED  BY <2>1, <2>2 DEF Ids
<1>6. Ids(u) = Ids(s) \cup Ids(t)
  BY <1>3, <1>4, <1>5
<1> QED  BY <1>6 DEF u

LEMMA EntryFacts ==
  ASSUME NEW e \in Entry
  PROVE  e.id \in Nat /\ e.ts \in Nat
  BY DEF Entry

\* Records of two parts of an ordered sequence have different identities.
LEMMA PartsDisjoint ==
  ASSUME NEW s \in Seq(Entry), NEW t \in Seq(Entry), AllBefore(s, t)
  PROVE  Ids(s) \cap Ids(t) = {}
<1> SUFFICES ASSUME NEW i \in DOMAIN s, NEW j \in DOMAIN t PROVE s[i].id # t[j].id
  BY DEF Ids
<1>1. s[i].id \in Nat /\ t[j].id \in Nat
  <2>1. s[i] \in Entry /\ t[j] \in Entry
    BY LenProperties, ElementOfSeq
  <2> QED  BY <2>1, EntryFacts
<1>2. Before(s[i], t[j])
  BY DEF AllBefore
<1> QED  BY <1>1, <1>2 DEF Before

LEMMA SplitConcat ==
  ASSUME NEW s \in Seq(Entry), NEW k \in 0..Len(s)
  PROVE  SubSeq(s, 1, k) \o Drop(s, k) = s
<1>1. Len(s) \in Nat
  BY LenProperties
<1>2. /\ 1 \in 1..(Len(s) + 1) /\ k \in (1 - 1)..Len(s) /\ Len(s) \in k..Len(s)
  BY <1>1
<1>3. SubSeq(s, 1, k) \o SubSeq(s, k + 1, Len(s)) = SubSeq(s, 1, Len(s))
  BY <1>2, ConcatAdjacentSubSeq, Zenon
<1> QED  BY <1>3, SubSeqFull, Zenon DEF Drop

\* Dropping twice is dropping once, and frees the same records.
LEMMA DropTwice ==
  ASSUME NEW s \in Seq(Entry), NEW b \in 0..Len(s), NEW a \in 0..(Len(s) - b)
  PROVE  /\ b + a \in 0..Len(s)
         /\ Drop(Drop(s, b), a) = Drop(s, b + a)
         /\ Ids(SubSeq(s, 1, b)) \cup Ids(SubSeq(Drop(s, b), 1, a)) = Ids(SubSeq(s, 1, b + a))
<1> DEFINE n == Len(s)
           s1 == Drop(s, b)
           pre == SubSeq(s, 1, b)
           mid == SubSeq(s1, 1, a)
           one == SubSeq(s, 1, b + a)
           twice == Drop(s1, a)
           once == Drop(s, b + a)
           cat == pre \o mid
<1>1. n \in Nat /\ b \in 0..n /\ a \in 0..(n - b) /\ b + a \in 0..n
  BY LenProperties
<1>2. /\ s1 \in Seq(Entry) /\ Len(s1) = n - b
      /\ \A i \in 1..(n - b) : s1[i] = s[b + i]
      /\ pre \in Seq(Entry) /\ Len(pre) = b /\ \A i \in 1..b : pre[i] = s[i]
  BY SplitFacts
<1>3. a \in 0..Len(s1) /\ Len(s1) - a = n - (b + a)
  BY <1>1, <1>2
<1>4. /\ twice \in Seq(Entry) /\ Len(twice) = n - (b + a)
      /\ \A i \in 1..(n - (b + a)) : twice[i] = s1[a + i]
      /\ mid \in Seq(Entry) /\ Len(mid) = a /\ \A i \in 1..a : mid[i] = s1[i]
  <2>1. /\ twice \in Seq(Entry) /\ Len(twice) = Len(s1) - a
        /\ \A i \in 1..(Len(s1) - a) : twice[i] = s1[a + i]
        /\ mid \in Seq(Entry) /\ Len(mid) = a /\ \A i \in 1..a : mid[i] = s1[i]
    <3> HIDE DEF s1
    <3> QED  BY <1>2, <1>3, SplitFacts, Zenon
  <2> QED  BY <1>3, <2>1, Zenon
<1>5. /\ once \in Seq(Entry) /\ Len(once) = n - (b + a)
      /\ \A i \in 1..(n - (b + a)) : once[i] = s[(b + a) + i]
      /\ one \in Seq(Entry) /\ Len(one) = b + a /\ \A i \in 1..(b + a) : one[i] = s[i]
  BY <1>1, SplitFacts, Zenon
<1>6. /\ cat \in Seq(Entry) /\ Len(cat) = b + a
      /\ \A i \in 1..(b + a) : cat[i] = IF i <= b THEN pre[i] ELSE mid[i - b]
  <2> HIDE DEF pre, mid
  <2>1. /\ cat \in Seq(Entry) /\ Len(cat) = Len(pre) + Len(mid)
        /\ \A i \in 1..(Len(pre) + Len(mid)) :
             cat[i] = IF i <= Len(pre) THEN pre[i] ELSE mid[i - Len(pre)]
    <3>1. pre \in Seq(Entry) /\ mid \in Seq(Entry)
      BY <1>2, <1>4
    <3> QED  BY <3>1, ConcatProperties
  <2>2. Len(pre) = b /\ Len(mid) = a
    BY <1>2, <1>4, Zenon
  <2> HIDE DEF cat
  <2> QED  BY <2>1, <2>2, Zenon
<1> HIDE DEF n, s1, pre, mid, one, twice, once, cat
<1>7. twice = once
  <2>1. ASSUME NEW i \in 1..(n - (b + a)) PROVE twice[i] = once[i]
    <3>1. a + i \in 1..(n - b) /\ b + (a + i) = (b + a) + i
      BY <1>1
    <3>2. twice[i] = s[b + (a + i)]
      BY <1>2, <1>4, <3>1, Zenon
    <3> QED  BY <1>5, <3>1, <3>2, Zenon
  <2> QED  BY <1>4, <1>5, <2>1, SeqEqual
<1>8. cat = one
  <2>1. ASSUME NEW i \in 1..(b + a) PROVE cat[i] = one[i]
    <3>1. CASE i <= b
      <4>1. i \in 1..b
        BY <1>1, <3>1
      <4> QED  BY <1>2, <1>5, <1>6, <3>1, <4>1, Zenon
    <3>2. CASE ~(i <= b)
      <4>1. i - b \in 1..a /\ i - b \in 1..(n - b) /\ b + (i - b) = i
        BY <1>1, <3>2
      <4>2. cat[i] = mid[i - b]
        BY <1>6, <3>2, Zenon
      <4>3. cat[i] = s[b + (i - b)]
        BY <1>2, <1>4, <4>1, <4>2, Zenon
      <4> QED  BY <1>5, <4>1, <4>3, Zenon
    <3> QED  BY <3>1, <3>2
  <2> QED  BY <1>5, <1>6, <2>1, SeqEqual
<1>9. Ids(pre) \cup Ids(mid) = Ids(one)
  BY <1>2, <1>4, <1>8, ConcatIds, Zenon DEF cat
<1> QED  BY <1>1, <1>7, <1>9 DEF n, s1, pre, mid, one, twice, once

LEMMA AddType ==
  ASSUME NEW m \in Metrics, NEW C, NEW n \in Nat
  PROVE  Add(m, C, n) \in Metrics
  BY DEF Add, Metrics

\* What applyLimits and Signal amount to: some k of the oldest records go.
LEMMA LimitsKeepSuffix ==
  ASSUME NEW s \in Seq(Entry), NEW m \in Metrics, SetDataAndSignal(s, m)
  PROVE  /\ \E k \in 0..Len(s) : /\ data' = Drop(s, k)
                                  /\ freed' = Bump(freed, Ids(SubSeq(s, 1, k)))
         /\ pending' = TRUE
         /\ metrics' \in Metrics
<1> DEFINE b == limitBytes(s)
           s1 == Drop(s, b)
           a == limitAge(s1)
           r == limitAgeReported(s1)
<1>1. Len(s) \in Nat /\ b \in 0..Len(s)
  BY LenProperties, LimitBytesRange
<1>2. s1 \in Seq(Entry) /\ Len(s1) = Len(s) - b
  BY <1>1, SplitFacts
<1>3. Len(s1) \in Nat /\ Search(s1) \in 0..Len(s1)
  BY <1>2, LenProperties, SearchRange
<1>4. a \in 0..(Len(s) - b) /\ r \in Nat
  <2> HIDE DEF s1
  <2> QED  BY <1>2, <1>3 DEF limitAge, limitAgeReported
<1>5. /\ data' = Drop(s1, a)
      /\ freed' = Bump(freed, Ids(SubSeq(s, 1, b)) \cup Ids(SubSeq(s1, 1, a)))
      /\ metrics' = Add(m, {"dropped"}, b + r)
      /\ pending' = TRUE
  BY DEF SetDataAndSignal
<1>6. /\ b + a \in 0..Len(s)
      /\ Drop(s1, a) = Drop(s, b + a)
      /\ Ids(SubSeq(s, 1, b)) \cup Ids(SubSeq(s1, 1, a)) = Ids(SubSeq(s, 1, b + a))
  BY <1>1, <1>4, DropTwice
<1> HIDE DEF b, s1, a, r
<1>7. metrics' \in Metrics
  <2>1. b + r \in Nat
    BY <1>1, <1>4
  <2> QED  BY <1>5, <2>1, AddType
<1> QED  BY <1>5, <1>6, <1>7, Zenon

LEMMA BumpFacts ==
  ASSUME NEW f \in [1..MaxRecords -> Nat], NEW S
  PROVE  /\ Bump(f, S) \in [1..MaxRecords -> Nat]
         /\ \A i \in 1..MaxRecords : Bump(f, S)[i] = f[i] + (IF i \in S THEN 1 ELSE 0)
  BY DEF Bump

\* Releasing the buffers of the records that go keeps the account straight.
LEMMA Released ==
  ASSUME NEW f \in [1..MaxRecords -> Nat], NEW n \in Nat, NEW gone, NEW kept,
         gone \cap kept = {}, \A i \in gone : i <= n,
         \A i \in 1..MaxRecords : f[i] = IF i <= n /\ i \notin gone \cup kept THEN 1 ELSE 0
  PROVE  \A i \in 1..MaxRecords :
           Bump(f, gone)[i] = IF i <= n /\ i \notin kept THEN 1 ELSE 0
<1> TAKE i \in 1..MaxRecords
<1>1. Bump(f, gone)[i] = f[i] + (IF i \in gone THEN 1 ELSE 0)
  BY DEF Bump
<1>2. CASE i \in gone
  BY <1>1, <1>2
<1>3. CASE i \notin gone
  BY <1>1, <1>3
<1> QED  BY <1>2, <1>3

-----------------------------------------------------------------------------
(* Types.                                                                  *)

LEMMA InitTypes == Init => TypeOK
<1> SUFFICES ASSUME Init PROVE TypeOK
  OBVIOUS
<1>1. QueueTypeOK
  BY EmptySeq DEF Init, QueueTypeOK
<1>2. FlagTypeOK
  BY Zenon DEF Init, FlagTypeOK
<1>3. metrics \in Metrics
  BY DEF Init, Metrics, Counters
<1>4. CounterTypeOK
  BY <1>3, OptionsAssumption DEF Init, CounterTypeOK
<1> QED  BY <1>1, <1>2, <1>4 DEF TypeOK

LEMMA FlagTypes == TypeOK /\ [Next]_vars => FlagTypeOK'
<1> SUFFICES ASSUME FlagTypeOK, TypeOK, [Next]_vars PROVE FlagTypeOK'
  BY DEF TypeOK
<1>1. CASE Tick \/ Cancel \/ PushStart \/ PushStartFails \/ PushReturnsCtxErr \/ WaitC
           \/ getEmpty \/ BackoffElapsed \/ UNCHANGED vars
  BY <1>1, Zenon DEF FlagTypeOK, Tick, Cancel, PushStart, PushStartFails,
     PushReturnsCtxErr, WaitC, getEmpty, BackoffElapsed, vars
<1>2. CASE get
  BY <1>2, Zenon DEF FlagTypeOK, get, SignalRest
<1>3. ASSUME NEW size \in Sizes, insert(size) PROVE FlagTypeOK'
  BY <1>3, Zenon DEF FlagTypeOK, insert, SetDataAndSignal
<1>4. ASSUME NEW o \in Answers, StoreRetried(o) PROVE FlagTypeOK'
  BY <1>4, Zenon DEF FlagTypeOK, StoreRetried, requeue, SetDataAndSignal
<1>5. ASSUME NEW o \in Answers, StoreDone(o) PROVE FlagTypeOK'
  BY <1>5, Zenon DEF FlagTypeOK, StoreDone
<1> QED  BY <1>1, <1>2, <1>3, <1>4, <1>5 DEF Next, PushStep

\* The record an insert adds.
New(size) == [id |-> inserted + 1, size |-> size, ts |-> now]

LEMMA NewIsEntry ==
  ASSUME TypeOK, NEW size \in Sizes, inserted < MaxRecords
  PROVE  /\ New(size) \in Entry
         /\ Append(data, New(size)) \in Seq(Entry)
         /\ Append(data, New(size)) = data \o <<New(size)>>
<1>1. New(size) \in Entry
  BY OptionsAssumption DEF TypeOK, CounterTypeOK, New, Entry
<1>2. data \in Seq(Entry)
  BY DEF TypeOK, QueueTypeOK
<1>3. Append(data, New(size)) \in Seq(Entry) /\ Append(data, New(size)) = data \o <<New(size)>>
  BY <1>1, <1>2, AppendProperties, AppendIsConcat
<1> QED  BY <1>1, <1>3

LEMMA InsertFacts ==
  ASSUME TypeOK, NEW size \in Sizes, insert(size)
  PROVE  /\ inserted < MaxRecords
         /\ \E k \in 0..Len(Append(data, New(size))) :
              /\ data' = Drop(Append(data, New(size)), k)
              /\ freed' = Bump(freed, Ids(SubSeq(Append(data, New(size)), 1, k)))
         /\ metrics' \in Metrics /\ pending' = TRUE
<1>1. inserted < MaxRecords /\ SetDataAndSignal(Append(data, New(size)), metrics)
  BY DEF insert, New
<1>2. metrics \in Metrics
  BY DEF TypeOK, CounterTypeOK
<1>3. Append(data, New(size)) \in Seq(Entry)
  BY <1>1, NewIsEntry, Zenon
<1> HIDE DEF New
<1> QED  BY <1>1, <1>2, <1>3, LimitsKeepSuffix, Zenon

LEMMA RequeueFacts ==
  ASSUME TypeOK, NEW o \in Answers, StoreRetried(o)
  PROVE  /\ \E k \in 0..Len(records \o data) :
              /\ data' = Drop(records \o data, k)
              /\ freed' = Bump(freed, Ids(SubSeq(records \o data, 1, k)))
         /\ metrics' \in Metrics /\ pending' = TRUE
<1> DEFINE m == Add(metrics, {"error", "retries"}, Len(records))
<1>1. SetDataAndSignal(records \o data, m)
  BY DEF StoreRetried, requeue
<1>2. records \in Seq(Entry) /\ data \in Seq(Entry) /\ Len(records) \in Nat
  BY LenProperties DEF TypeOK, QueueTypeOK
<1>3. m \in Metrics
  <2>1. metrics \in Metrics
    BY DEF TypeOK, CounterTypeOK
  <2> QED  BY <1>2, <2>1, AddType
<1>4. records \o data \in Seq(Entry)
  BY <1>2, ConcatProperties
<1> HIDE DEF m
<1> QED  BY <1>1, <1>3, <1>4, LimitsKeepSuffix, Zenon

LEMMA QueueTypes == TypeOK /\ [Next]_vars => QueueTypeOK'
<1> SUFFICES ASSUME TypeOK, QueueTypeOK, [Next]_vars PROVE QueueTypeOK'
  BY DEF TypeOK
<1>1. CASE Tick \/ Cancel \/ PushStart \/ PushStartFails \/ PushReturnsCtxErr \/ WaitC
           \/ getEmpty \/ BackoffElapsed \/ UNCHANGED vars
  BY <1>1, Zenon DEF QueueTypeOK, Tick, Cancel, PushStart, PushStartFails,
     PushReturnsCtxErr, WaitC, getEmpty, BackoffElapsed, vars
<1>2. CASE get
  <2>1. BatchLen(data) \in 1..Len(data) /\ Len(data) \in Nat
    BY <1>2, BatchLenRange, LenProperties DEF QueueTypeOK, get
  <2>2. BatchLen(data) \in 0..Len(data)
    BY <2>1
  <2>3. records' \in Seq(Entry) /\ data' \in Seq(Entry)
    BY <1>2, <2>2, SplitFacts DEF QueueTypeOK, get
  <2> QED  BY <2>3 DEF QueueTypeOK
<1>3. ASSUME NEW size \in Sizes, insert(size) PROVE QueueTypeOK'
  <2>1. data' \in Seq(Entry)
    BY <1>3, InsertFacts, NewIsEntry, SplitFacts, Zenon
  <2>2. records' = records
    BY <1>3 DEF insert
  <2> QED  BY <2>1, <2>2 DEF QueueTypeOK
<1>4. ASSUME NEW o \in Answers, StoreRetried(o) PROVE QueueTypeOK'
  <2>1. records \o data \in Seq(Entry)
    BY ConcatProperties DEF QueueTypeOK
  <2>2. data' \in Seq(Entry)
    BY <1>4, <2>1, RequeueFacts, SplitFacts, Zenon
  <2>3. records' = <<>>
    BY <1>4 DEF StoreRetried
  <2> QED  BY <2>2, <2>3, EmptySeq DEF QueueTypeOK
<1>5. ASSUME NEW o \in Answers, StoreDone(o) PROVE QueueTypeOK'
  BY <1>5, EmptySeq DEF QueueTypeOK, StoreDone
<1> QED  BY <1>1, <1>2, <1>3, <1>4, <1>5 DEF Next, PushStep

LEMMA CounterTypes == TypeOK /\ [Next]_vars => CounterTypeOK'
<1> SUFFICES ASSUME TypeOK, CounterTypeOK, [Next]_vars PROVE CounterTypeOK'
  BY DEF TypeOK
<1> USE OptionsAssumption
<1>1. CASE Cancel \/ PushReturnsCtxErr \/ WaitC \/ getEmpty \/ BackoffElapsed
           \/ UNCHANGED vars
  BY <1>1, Zenon DEF CounterTypeOK, Cancel, PushReturnsCtxErr, WaitC, getEmpty,
     BackoffElapsed, vars
<1>2. CASE Tick
  BY <1>2 DEF CounterTypeOK, Tick
<1>3. CASE PushStart
  BY <1>3 DEF CounterTypeOK, PushStart
<1>4. CASE PushStartFails
  <2>1. metrics \in Metrics
    BY DEF CounterTypeOK
  <2>2. metrics' \in Metrics
    BY <1>4, <2>1, AddType DEF PushStartFails
  <2> QED  BY <1>4, <2>2 DEF CounterTypeOK, PushStartFails
<1>5. CASE get
  <2>1. left' \in 0..MaxRetries
    BY <1>5 DEF CounterTypeOK, get, RetriesLeft
  <2>2. sent' \in [1..MaxRecords -> Nat]
    <3> DEFINE S == Ids(SubSeq(data, 1, BatchLen(data)))
    <3>1. sent \in [1..MaxRecords -> Nat] /\ sent' = Bump(sent, S)
      BY <1>5 DEF CounterTypeOK, get
    <3> HIDE DEF S
    <3> QED  BY <3>1, BumpFacts
  <2>3. UNCHANGED <<now, inserted, runs, freed, metrics>>
    BY <1>5 DEF get
  <2> QED  BY <2>1, <2>2, <2>3 DEF CounterTypeOK
<1>6. ASSUME NEW size \in Sizes, insert(size) PROVE CounterTypeOK'
  <2>1. freed' \in [1..MaxRecords -> Nat] /\ metrics' \in Metrics /\ inserted < MaxRecords
    <3>1. freed \in [1..MaxRecords -> Nat]
      BY DEF CounterTypeOK
    <3>2. PICK k : freed' = Bump(freed, Ids(SubSeq(Append(data, New(size)), 1, k)))
      BY <1>6, InsertFacts, Zenon
    <3>3. metrics' \in Metrics /\ inserted < MaxRecords
      BY <1>6, InsertFacts, Zenon
    <3> QED  BY <3>1, <3>2, <3>3, BumpFacts
  <2>2. inserted' \in 0..MaxRecords
    BY <1>6, <2>1 DEF CounterTypeOK, insert
  <2>3. UNCHANGED <<left, now, runs, sent>>
    BY <1>6 DEF insert
  <2> QED  BY <2>1, <2>2, <2>3 DEF CounterTypeOK
<1>7. ASSUME NEW o \in Answers, StoreRetried(o) PROVE CounterTypeOK'
  <2>1. freed' \in [1..MaxRecords -> Nat] /\ metrics' \in Metrics
    <3>1. freed \in [1..MaxRecords -> Nat]
      BY DEF CounterTypeOK
    <3>2. PICK k : freed' = Bump(freed, Ids(SubSeq(records \o data, 1, k)))
      BY <1>7, RequeueFacts, Zenon
    <3>3. metrics' \in Metrics
      BY <1>7, RequeueFacts, Zenon
    <3> QED  BY <3>1, <3>2, <3>3, BumpFacts
  <2> QED  BY <1>7, <2>1 DEF CounterTypeOK, StoreRetried, CanRetry
<1>8. ASSUME NEW o \in Answers, StoreDone(o) PROVE CounterTypeOK'
  <2>1. freed' \in [1..MaxRecords -> Nat]
    BY <1>8, BumpFacts DEF CounterTypeOK, StoreDone, ReturnAll
  <2>2. Len(records) \in Nat
    BY LenProperties DEF TypeOK, QueueTypeOK
  <2>3. metrics' \in Metrics
    <3>1. metrics \in Metrics /\ metrics' = Add(metrics, ResultCounters(PushKind(o)), Len(records))
      BY <1>8 DEF CounterTypeOK, StoreDone
    <3> QED  BY <2>2, <3>1, AddType, Zenon
  <2> QED  BY <1>8, <2>1, <2>3 DEF CounterTypeOK, StoreDone
<1> QED  BY <1>1, <1>2, <1>3, <1>4, <1>5, <1>6, <1>7, <1>8 DEF Next, PushStep

LEMMA NextTypes == TypeOK /\ [Next]_vars => TypeOK'
  BY FlagTypes, QueueTypes, CounterTypes DEF TypeOK

-----------------------------------------------------------------------------
(* The inductive invariant. A batch is in flight exactly while push is in  *)
(* StoreStream, and no record is newer than the clock or the last insert.  *)

InFlight == records # <<>> <=> pc = "store"

Older(s) == \A i \in DOMAIN s : s[i].id <= inserted /\ s[i].ts <= now

QInv == TypeOK /\ NoStrandedData /\ InFlight /\ Chronological
        /\ Older(records) /\ Older(data) /\ BufferOwnership

LEMMA InitQInv == Init => QInv
<1> SUFFICES ASSUME Init PROVE QInv
  OBVIOUS
<1>1. TypeOK
  BY InitTypes
<1>2. records = <<>> /\ data = <<>> /\ records \o data = <<>>
  BY EmptySeq, ConcatEmptySeq DEF Init
<1>3. NoStrandedData /\ InFlight
  BY <1>2 DEF Init, NoStrandedData, InFlight
<1>4. Chronological /\ Older(records) /\ Older(data) /\ Ids(records \o data) = {}
  BY <1>2 DEF Chronological, Ordered, Older, Ids
<1>5. BufferOwnership
  BY <1>4 DEF Init, BufferOwnership
<1> QED  BY <1>1, <1>3, <1>4, <1>5 DEF QInv

LEMMA WakeUps == TypeOK /\ NoStrandedData /\ [Next]_vars => NoStrandedData'
<1> SUFFICES ASSUME TypeOK, NoStrandedData, [Next]_vars PROVE NoStrandedData'
  OBVIOUS
<1>1. CASE Tick \/ Cancel \/ PushStart \/ PushStartFails \/ PushReturnsCtxErr \/ WaitC
           \/ getEmpty \/ BackoffElapsed \/ UNCHANGED vars
  BY <1>1 DEF NoStrandedData, Tick, Cancel, PushStart, PushStartFails,
     PushReturnsCtxErr, WaitC, getEmpty, BackoffElapsed, vars
<1>2. CASE get
  <2>1. data \in Seq(Entry) /\ data # <<>>
    BY <1>2 DEF TypeOK, QueueTypeOK, get
  <2>2. BatchLen(data) \in 1..Len(data) /\ Len(data) \in Nat
    BY <2>1, BatchLenRange, LenProperties
  <2>3. CASE BatchLen(data) < Len(data)
    BY <1>2, <2>3, Zenon DEF NoStrandedData, get, SignalRest
  <2>4. CASE BatchLen(data) = Len(data)
    <3>1. data' = <<>>
      BY <1>2, <2>2, <2>4, SubSeqEmpty DEF get, Drop
    <3> QED  BY <3>1 DEF NoStrandedData
  <2> QED  BY <2>2, <2>3, <2>4
<1>3. ASSUME NEW size \in Sizes, insert(size) PROVE NoStrandedData'
  BY <1>3, InsertFacts, Zenon DEF NoStrandedData
<1>4. ASSUME NEW o \in Answers, StoreRetried(o) PROVE NoStrandedData'
  BY <1>4, RequeueFacts, Zenon DEF NoStrandedData
<1>5. ASSUME NEW o \in Answers, StoreDone(o) PROVE NoStrandedData'
  BY <1>5 DEF NoStrandedData, StoreDone
<1> QED  BY <1>1, <1>2, <1>3, <1>4, <1>5 DEF Next, PushStep

LEMMA BatchAway == TypeOK /\ InFlight /\ [Next]_vars => InFlight'
<1> SUFFICES ASSUME TypeOK, InFlight, [Next]_vars PROVE InFlight'
  OBVIOUS
<1>1. CASE Tick \/ Cancel \/ PushStart \/ PushStartFails \/ PushReturnsCtxErr \/ WaitC
           \/ getEmpty \/ BackoffElapsed \/ UNCHANGED vars
  BY <1>1 DEF InFlight, Tick, Cancel, PushStart, PushStartFails,
     PushReturnsCtxErr, WaitC, getEmpty, BackoffElapsed, vars
<1>2. CASE get
  <2>1. data \in Seq(Entry) /\ data # <<>>
    BY <1>2 DEF TypeOK, QueueTypeOK, get
  <2>2. BatchLen(data) \in 1..Len(data) /\ BatchLen(data) \in 0..Len(data)
    BY <2>1, BatchLenRange, LenProperties
  <2>3. records' = SubSeq(data, 1, BatchLen(data)) /\ pc' = "store"
    BY <1>2 DEF get
  <2>4. Len(records') = BatchLen(data)
    BY <2>1, <2>2, <2>3, SplitFacts
  <2>5. records' # <<>>
    BY <2>2, <2>4, EmptySeq
  <2> QED  BY <2>3, <2>5 DEF InFlight
<1>3. ASSUME NEW size \in Sizes, insert(size) PROVE InFlight'
  BY <1>3 DEF InFlight, insert
<1>4. ASSUME NEW o \in Answers, StoreRetried(o) PROVE InFlight'
  BY <1>4 DEF InFlight, StoreRetried
<1>5. ASSUME NEW o \in Answers, StoreDone(o) PROVE InFlight'
  BY <1>5 DEF InFlight, StoreDone
<1> QED  BY <1>1, <1>2, <1>3, <1>4, <1>5 DEF Next, PushStep

\* What follows for a prefix and the rest of an ordered sequence.
LEMMA SplitOrdered ==
  ASSUME NEW s \in Seq(Entry), NEW k \in 0..Len(s), Ordered(s)
  PROVE  /\ Ordered(Drop(s, k)) /\ Ordered(SubSeq(s, 1, k))
         /\ AllBefore(SubSeq(s, 1, k), Drop(s, k))
         /\ Ids(s) = Ids(SubSeq(s, 1, k)) \cup Ids(Drop(s, k))
         /\ Ids(SubSeq(s, 1, k)) \cap Ids(Drop(s, k)) = {}
<1>1. SubSeq(s, 1, k) \in Seq(Entry) /\ Drop(s, k) \in Seq(Entry)
  BY SplitFacts
<1>2. SubSeq(s, 1, k) \o Drop(s, k) = s
  BY SplitConcat
<1>3. Ordered(SubSeq(s, 1, k) \o Drop(s, k))
  BY <1>2, Zenon
<1>4. /\ Ordered(Drop(s, k)) /\ Ordered(SubSeq(s, 1, k))
      /\ AllBefore(SubSeq(s, 1, k), Drop(s, k))
  BY <1>1, <1>3, ConcatOrdered, Zenon
<1>5. Ids(SubSeq(s, 1, k) \o Drop(s, k)) = Ids(SubSeq(s, 1, k)) \cup Ids(Drop(s, k))
  BY <1>1, ConcatIds, Zenon
<1>6. Ids(SubSeq(s, 1, k)) \cap Ids(Drop(s, k)) = {}
  BY <1>1, <1>4, PartsDisjoint, Zenon
<1> QED  BY <1>2, <1>4, <1>5, <1>6, Zenon

LEMMA SplitOlder ==
  ASSUME NEW s \in Seq(Entry), NEW k \in 0..Len(s), Older(s)
  PROVE  Older(SubSeq(s, 1, k)) /\ Older(Drop(s, k))
<1>1. Len(s) \in Nat /\ DOMAIN s = 1..Len(s)
  BY LenProperties
<1>2. DOMAIN SubSeq(s, 1, k) = 1..k /\ DOMAIN Drop(s, k) = 1..(Len(s) - k)
  BY SplitFacts, LenProperties
<1>3. \A i \in 1..k : i \in DOMAIN s /\ SubSeq(s, 1, k)[i] = s[i]
  BY <1>1, SplitFacts
<1>4. \A i \in 1..(Len(s) - k) : k + i \in DOMAIN s /\ Drop(s, k)[i] = s[k + i]
  BY <1>1, SplitFacts
<1> QED  BY <1>2, <1>3, <1>4 DEF Older

\* An id of a sequence of older records is a number up to inserted.
LEMMA OlderIds ==
  ASSUME NEW s \in Seq(Entry), Older(s)
  PROVE  \A x \in Ids(s) : x <= inserted
  BY DEF Older, Ids

\* The part of the invariant that is about the contents of batch and queue.
Contents == Chronological /\ Older(records) /\ Older(data) /\ BufferOwnership

LEMMA ConcatOlder ==
  ASSUME NEW s \in Seq(Entry), NEW t \in Seq(Entry), Older(s), Older(t)
  PROVE  Older(s \o t)
<1> DEFINE m == Len(s)
           n == Len(t)
           u == s \o t
<1>1. /\ m \in Nat /\ n \in Nat /\ DOMAIN s = 1..m /\ DOMAIN t = 1..n
      /\ DOMAIN u = 1..(m + n)
      /\ \A i \in 1..(m + n) : u[i] = IF i <= m THEN s[i] ELSE t[i - m]
  BY LenProperties, ConcatProperties
<1> HIDE DEF u, m, n
<1>2. ASSUME NEW i \in 1..(m + n) PROVE u[i].id <= inserted /\ u[i].ts <= now
  <2>1. CASE i <= m
    <3>1. i \in DOMAIN s /\ u[i] = s[i]
      BY <1>1, <2>1
    <3> QED  BY <3>1 DEF Older
  <2>2. CASE i > m
    <3>1. i - m \in DOMAIN t /\ u[i] = t[i - m]
      BY <1>1, <2>2
    <3> QED  BY <3>1 DEF Older
  <2> QED  BY <1>1, <2>1, <2>2
<1>3. Older(u)
  BY <1>1, <1>2 DEF Older
<1> QED  BY <1>3 DEF u

LEMMA GetContents == QInv /\ get => Contents'
<1> SUFFICES ASSUME QInv, get PROVE Contents'
  OBVIOUS
<1> DEFINE n == BatchLen(data)
<1>1. data \in Seq(Entry) /\ data # <<>> /\ records = <<>>
  BY DEF QInv, TypeOK, QueueTypeOK, InFlight, get
<1>2. n \in 0..Len(data)
  BY <1>1, BatchLenRange, LenProperties
<1>3. /\ records' = SubSeq(data, 1, n) /\ data' = Drop(data, n)
      /\ UNCHANGED <<inserted, freed, now>>
  BY DEF get
<1> HIDE DEF n
<1>4. records' \o data' = data /\ records \o data = data
  BY <1>1, <1>2, <1>3, SplitConcat, ConcatEmptySeq
<1>5. Chronological'
  BY <1>4 DEF QInv, Chronological, Ordered
<1>6. Older(records') /\ Older(data')
  BY <1>1, <1>2, <1>3, SplitOlder DEF QInv
<1>7. Older(records)' /\ Older(data)'
  BY <1>3, <1>6, Zenon DEF Older
<1>8. BufferOwnership'
  <2>1. Ids(records \o data)' = Ids(records \o data)
    BY <1>4 DEF Ids
  <2> QED  BY <1>3, <2>1 DEF QInv, BufferOwnership
<1> QED  BY <1>5, <1>7, <1>8 DEF Contents

LEMMA DoneContents ==
  ASSUME QInv, NEW o \in Answers, StoreDone(o)
  PROVE  Contents'
<1>1. data \in Seq(Entry) /\ records \in Seq(Entry) /\ freed \in [1..MaxRecords -> Nat]
      /\ inserted \in Nat
  BY DEF QInv, TypeOK, QueueTypeOK, CounterTypeOK
<1>2. records' = <<>> /\ UNCHANGED <<data, inserted, now>> /\ freed' = Bump(freed, Ids(records))
  BY DEF StoreDone, ReturnAll
<1>3. records' \o data' = data
  BY <1>1, <1>2, ConcatEmptySeq
<1>4. Ordered(data) /\ AllBefore(records, data)
  BY <1>1, ConcatOrdered DEF QInv, Chronological
<1>5. Chronological'
  BY <1>3, <1>4 DEF Chronological, Ordered
<1>6. Older(records)' /\ Older(data)'
  BY <1>2 DEF QInv, Older
<1>7. Ids(records) \cap Ids(data) = {} /\ Ids(records \o data) = Ids(records) \cup Ids(data)
  BY <1>1, <1>4, PartsDisjoint, ConcatIds
<1>8. \A i \in Ids(records) : i <= inserted
  BY <1>1, OlderIds DEF QInv
<1>9. \A i \in 1..MaxRecords :
        freed[i] = IF i <= inserted /\ i \notin Ids(records) \cup Ids(data) THEN 1 ELSE 0
  BY <1>7 DEF QInv, BufferOwnership
<1>10. \A i \in 1..MaxRecords :
         Bump(freed, Ids(records))[i] = IF i <= inserted /\ i \notin Ids(data) THEN 1 ELSE 0
  BY <1>1, <1>7, <1>8, <1>9, Released, Zenon
<1>11. BufferOwnership'
  <2>1. Ids(records \o data)' = Ids(data)
    BY <1>3 DEF Ids
  <2> QED  BY <1>2, <1>10, <2>1 DEF BufferOwnership
<1> QED  BY <1>5, <1>6, <1>11 DEF Contents

LEMMA RetriedContents ==
  ASSUME QInv, NEW o \in Answers, StoreRetried(o)
  PROVE  Contents'
<1> DEFINE all == records \o data
<1>1. data \in Seq(Entry) /\ records \in Seq(Entry) /\ freed \in [1..MaxRecords -> Nat]
      /\ inserted \in Nat
  BY DEF QInv, TypeOK, QueueTypeOK, CounterTypeOK
<1>2. all \in Seq(Entry) /\ Older(all) /\ Ordered(all)
  BY <1>1, ConcatProperties, ConcatOlder DEF QInv, Chronological
<1>3. PICK k \in 0..Len(all) : /\ data' = Drop(all, k)
                               /\ freed' = Bump(freed, Ids(SubSeq(all, 1, k)))
  BY RequeueFacts, Zenon DEF QInv
<1>4. records' = <<>> /\ UNCHANGED <<inserted, now>>
  BY DEF StoreRetried
<1>5. \A i \in 1..MaxRecords : freed[i] = IF i <= inserted /\ i \notin Ids(all) THEN 1 ELSE 0
  BY DEF QInv, BufferOwnership
<1> HIDE DEF all
<1> DEFINE pre == SubSeq(all, 1, k)
           rest == Drop(all, k)
<1>6. pre \in Seq(Entry) /\ rest \in Seq(Entry) /\ Older(pre) /\ Older(rest)
  BY <1>2, SplitFacts, SplitOlder
<1>7. Ordered(rest) /\ Ids(all) = Ids(pre) \cup Ids(rest) /\ Ids(pre) \cap Ids(rest) = {}
  BY <1>2, SplitOrdered
<1> HIDE DEF pre, rest
<1>8. data' = rest /\ records' \o data' = rest
  BY <1>3, <1>4, <1>6, ConcatEmptySeq DEF rest
<1>9. Chronological'
  BY <1>7, <1>8 DEF Chronological, Ordered
<1>10. Older(records)' /\ Older(data)'
  BY <1>4, <1>6, <1>8 DEF Older
<1>11. \A i \in Ids(pre) : i <= inserted
  BY <1>6, OlderIds
<1>12. \A i \in 1..MaxRecords :
         Bump(freed, Ids(pre))[i] = IF i <= inserted /\ i \notin Ids(rest) THEN 1 ELSE 0
  BY <1>1, <1>5, <1>7, <1>11, Released, Zenon
<1>13. BufferOwnership'
  <2>1. Ids(records \o data)' = Ids(rest) /\ freed' = Bump(freed, Ids(pre))
    BY <1>3, <1>8 DEF Ids, pre
  <2> QED  BY <1>4, <1>12, <2>1 DEF BufferOwnership
<1> QED  BY <1>9, <1>10, <1>13 DEF Contents

LEMMA InsertContents ==
  ASSUME QInv, NEW size \in Sizes, insert(size)
  PROVE  Contents'
<1> DEFINE e == New(size)
           s == Append(data, e)
           one == <<e>>
<1>1. /\ data \in Seq(Entry) /\ records \in Seq(Entry) /\ freed \in [1..MaxRecords -> Nat]
      /\ inserted \in Nat /\ now \in Nat /\ TypeOK
  BY DEF QInv, TypeOK, QueueTypeOK, CounterTypeOK
<1>2. PICK k \in 0..Len(s) : /\ data' = Drop(s, k)
                             /\ freed' = Bump(freed, Ids(SubSeq(s, 1, k)))
  BY <1>1, InsertFacts, Zenon
<1>3. inserted < MaxRecords /\ inserted' = inserted + 1 /\ UNCHANGED <<records, now>>
  BY DEF insert
<1>4. e \in Entry /\ s \in Seq(Entry) /\ s = data \o one /\ e.id = inserted + 1 /\ e.ts = now
  BY <1>1, <1>3, NewIsEntry DEF New
<1>5. one \in Seq(Entry) /\ DOMAIN one = {1} /\ one[1] = e
  BY <1>4
<1> HIDE DEF e, s, one
<1>6. ASSUME NEW r \in Seq(Entry), Older(r) PROVE AllBefore(r, one)
  <2> SUFFICES ASSUME NEW i \in DOMAIN r PROVE Before(r[i], e)
    BY <1>5 DEF AllBefore
  <2>1. r[i].id \in Nat /\ r[i].ts \in Nat
    <3>1. r[i] \in Entry
      BY LenProperties, ElementOfSeq
    <3> QED  BY <3>1 DEF Entry
  <2> QED  BY <1>1, <1>4, <1>6, <2>1 DEF Older, Before
<1>7. Ordered(one) /\ Ids(one) = {inserted + 1}
  BY <1>4, <1>5 DEF Ordered, Ids
<1>8. Ordered(records) /\ Ordered(data) /\ AllBefore(records, data)
  BY <1>1, ConcatOrdered DEF QInv, Chronological
<1>9. Ordered(s)
  BY <1>1, <1>4, <1>5, <1>6, <1>7, <1>8, ConcatOrdered DEF QInv
<1>10. AllBefore(records, s) /\ Ordered(records \o s)
  <2>1. (records \o data) \o one = records \o s
    <3>1. /\ records \in Seq(Entry) /\ data \in Seq(Entry) /\ one \in Seq(Entry)
          /\ s = data \o one
      BY <1>1, <1>4, <1>5
    <3> QED  BY <3>1, ConcatAssoc, Zenon
  <2>2. records \o data \in Seq(Entry) /\ Older(records \o data) /\ Ordered(records \o data)
    BY <1>1, ConcatProperties, ConcatOlder DEF QInv, Chronological
  <2>3. Ordered((records \o data) \o one)
    BY <1>5, <1>6, <1>7, <2>2, ConcatOrdered, Zenon
  <2> QED  BY <1>1, <1>4, <2>1, <2>3, ConcatOrdered, Zenon
<1> DEFINE pre == SubSeq(s, 1, k)
           rest == Drop(s, k)
<1>11. pre \in Seq(Entry) /\ rest \in Seq(Entry)
  BY <1>4, SplitFacts, Zenon
<1>12. /\ Ordered(rest) /\ Ids(s) = Ids(pre) \cup Ids(rest) /\ Ids(pre) \cap Ids(rest) = {}
  BY <1>4, <1>9, SplitOrdered, Zenon
<1>13. pre \o rest = s
  BY <1>4, SplitConcat, Zenon
<1> HIDE DEF pre, rest
<1>14. AllBefore(records, pre) /\ AllBefore(records, rest)
  <2>1. records \o s = (records \o pre) \o rest
    <3>1. (records \o pre) \o rest = records \o (pre \o rest)
      <4>1. records \in Seq(Entry)
        BY <1>1
      <4> QED  BY <4>1, <1>11, ConcatAssoc, Zenon
    <3> QED  BY <1>13, <3>1
  <2>2. records \o pre \in Seq(Entry)
    BY <1>1, <1>11, ConcatProperties
  <2>3. Ordered(records \o pre) /\ AllBefore(records \o pre, rest)
    BY <1>10, <1>11, <2>1, <2>2, ConcatOrdered, Zenon
  <2>4. AllBefore(records, pre)
    BY <1>1, <1>11, <2>3, ConcatOrdered
  <2>5. /\ \A i \in DOMAIN records : i \in DOMAIN (records \o pre)
                                     /\ (records \o pre)[i] = records[i]
    BY <1>1, <1>11, ConcatProperties, LenProperties
  <2>6. AllBefore(records, rest)
    BY <2>3, <2>5 DEF AllBefore
  <2> QED  BY <2>4, <2>6
<1>15. data' = rest /\ records' \o data' = records \o rest
  BY <1>2, <1>3 DEF rest
<1>16. Ordered(records \o rest)
  BY <1>1, <1>8, <1>11, <1>12, <1>14, ConcatOrdered
<1>17. Chronological'
  BY <1>15, <1>16 DEF Chronological, Ordered
<1>18. \A i \in DOMAIN s : s[i] \in Entry /\ s[i].id <= inserted + 1 /\ s[i].ts <= now
  <2>1. /\ DOMAIN data = 1..Len(data) /\ Len(data) \in Nat /\ DOMAIN s = 1..(Len(data) + 1)
        /\ \A i \in 1..Len(data) : s[i] = data[i]
        /\ s[Len(data) + 1] = e
    BY <1>1, <1>4, AppendProperties, LenProperties DEF s
  <2> SUFFICES ASSUME NEW i \in DOMAIN s
               PROVE  s[i] \in Entry /\ s[i].id <= inserted + 1 /\ s[i].ts <= now
    OBVIOUS
  <2>2. CASE i \in 1..Len(data)
    <3>1. data[i] \in Entry /\ data[i].id <= inserted /\ data[i].ts <= now /\ s[i] = data[i]
      BY <1>1, <2>1, <2>2, ElementOfSeq DEF QInv, Older
    <3>2. data[i].id \in Nat
      BY <3>1 DEF Entry
    <3> QED  BY <1>1, <3>1, <3>2
  <2>3. CASE i = Len(data) + 1
    BY <1>1, <1>4, <2>1, <2>3
  <2> QED  BY <2>1, <2>2, <2>3
<1>19. Older(data)'
  <2>1. /\ DOMAIN rest = 1..(Len(s) - k)
        /\ \A i \in DOMAIN rest : k + i \in DOMAIN s /\ rest[i] = s[k + i]
    <3>1. Len(s) \in Nat /\ DOMAIN s = 1..Len(s)
      BY <1>4, LenProperties
    <3>2. /\ DOMAIN rest = 1..(Len(s) - k)
          /\ \A i \in 1..(Len(s) - k) : rest[i] = s[k + i]
      <4>1. /\ Len(rest) = Len(s) - k
            /\ \A i \in 1..(Len(s) - k) : rest[i] = s[k + i]
        BY <1>4, SplitFacts, Zenon DEF rest
      <4>2. DOMAIN rest = 1..Len(rest)
        BY <1>11, LenProperties
      <4> QED  BY <4>1, <4>2
    <3> QED  BY <3>1, <3>2
  <2> QED  BY <1>3, <1>15, <1>18, <2>1 DEF Older
<1>20. Older(records)'
  <2>1. ASSUME NEW i \in DOMAIN records
        PROVE  records[i].id <= inserted + 1 /\ records[i].ts <= now
    <3>1. records[i] \in Entry /\ records[i].id <= inserted /\ records[i].ts <= now
      BY <1>1, LenProperties, ElementOfSeq DEF QInv, Older
    <3>2. records[i].id \in Nat
      BY <3>1 DEF Entry
    <3> QED  BY <1>1, <3>1, <3>2
  <2> QED  BY <1>3, <2>1 DEF Older
<1>21. Ids(s) = Ids(data) \cup {inserted + 1}
  BY <1>1, <1>4, <1>5, <1>7, ConcatIds
<1> DEFINE kept == Ids(records) \cup Ids(rest)
<1>22. Ids(pre) \cap kept = {}
  BY <1>1, <1>11, <1>12, <1>14, PartsDisjoint
<1>23. \A x \in Ids(pre) : x <= inserted + 1
  <2>1. \A x \in Ids(s) : x <= inserted + 1
    BY <1>18 DEF Ids
  <2> QED  BY <1>12, <2>1
<1>24. Ids(pre) \cup kept = Ids(records \o data) \cup {inserted + 1}
  BY <1>1, <1>12, <1>21, ConcatIds
<1>25. Ids(records \o data)' = kept
  <2>1. Ids(records \o data)' = Ids(records \o rest)
    BY <1>15 DEF Ids
  <2> QED  BY <1>1, <1>11, <2>1, ConcatIds
<1> HIDE DEF kept
<1>26. \A i \in 1..MaxRecords :
         freed[i] = IF i <= inserted + 1 /\ i \notin Ids(pre) \cup kept THEN 1 ELSE 0
  <2>1. \A i \in 1..MaxRecords :
          freed[i] = IF i <= inserted /\ i \notin Ids(records \o data) THEN 1 ELSE 0
    BY DEF QInv, BufferOwnership
  <2> QED  BY <1>1, <1>24, <2>1
<1>27. \A i \in 1..MaxRecords :
         Bump(freed, Ids(pre))[i] = IF i <= inserted + 1 /\ i \notin kept THEN 1 ELSE 0
  <2>1. inserted + 1 \in Nat
    BY <1>1
  <2> QED  BY <1>1, <1>22, <1>23, <1>26, <2>1, Released, Zenon
<1>28. BufferOwnership'
  <2>1. freed' = Bump(freed, Ids(pre))
    BY <1>2 DEF pre
  <2> QED  BY <1>3, <1>25, <1>27, <2>1 DEF BufferOwnership
<1> QED  BY <1>17, <1>19, <1>20, <1>28 DEF Contents

LEMMA NextQInv == QInv /\ [Next]_vars => QInv'
<1> SUFFICES ASSUME QInv, [Next]_vars PROVE QInv'
  OBVIOUS
<1>1. TypeOK' /\ NoStrandedData' /\ InFlight'
  BY NextTypes, WakeUps, BatchAway DEF QInv
<1>2. CASE Tick
  <2>1. UNCHANGED <<records, data, inserted, freed>> /\ now' = now + 1
    BY <1>2 DEF Tick
  <2>2. Chronological' /\ BufferOwnership'
    BY <2>1 DEF QInv, Chronological, Ordered, BufferOwnership, Ids
  <2>3. now \in Nat /\ records \in Seq(Entry) /\ data \in Seq(Entry)
    BY DEF QInv, TypeOK, CounterTypeOK, QueueTypeOK
  <2>4. ASSUME NEW s \in Seq(Entry), Older(s), NEW i \in DOMAIN s
        PROVE  s[i].id <= inserted /\ s[i].ts <= now + 1
    <3>1. s[i] \in Entry /\ s[i].id <= inserted /\ s[i].ts <= now
      BY <2>4, LenProperties, ElementOfSeq DEF Older
    <3>2. s[i].ts \in Nat
      BY <3>1 DEF Entry
    <3> QED  BY <2>3, <3>1, <3>2
  <2>5. Older(records)' /\ Older(data)'
    BY <2>1, <2>3, <2>4 DEF QInv, Older
  <2> QED  BY <1>1, <2>2, <2>5 DEF QInv
<1>3. CASE Cancel \/ PushStart \/ PushStartFails \/ PushReturnsCtxErr \/ WaitC
           \/ getEmpty \/ BackoffElapsed \/ UNCHANGED vars
  <2>1. UNCHANGED <<records, data, inserted, freed, now>>
    BY <1>3 DEF Cancel, PushStart, PushStartFails, PushReturnsCtxErr, WaitC, getEmpty,
       BackoffElapsed, vars
  <2>2. Chronological' /\ BufferOwnership' /\ Older(records)' /\ Older(data)'
    BY <2>1 DEF QInv, Chronological, Ordered, BufferOwnership, Ids, Older
  <2> QED  BY <1>1, <2>2 DEF QInv
<1>4. CASE get
  BY <1>1, <1>4, GetContents DEF QInv, Contents
<1>5. ASSUME NEW size \in Sizes, insert(size) PROVE QInv'
  BY <1>1, <1>5, InsertContents DEF QInv, Contents
<1>6. ASSUME NEW o \in Answers, StoreRetried(o) PROVE QInv'
  BY <1>1, <1>6, RetriedContents DEF QInv, Contents
<1>7. ASSUME NEW o \in Answers, StoreDone(o) PROVE QInv'
  BY <1>1, <1>7, DoneContents DEF QInv, Contents
<1> QED  BY <1>2, <1>3, <1>4, <1>5, <1>6, <1>7 DEF Next, PushStep

-----------------------------------------------------------------------------
(* The theorems.                                                           *)

LEMMA Invariance == Spec => []QInv
  BY InitQInv, NextQInv, PTL DEF Spec

\* The variables of the queue have their types, the retry counter never goes
\* below zero: for any limits, sizes and answers.
THEOREM TypeCorrect == Spec => []TypeOK
<1>1. QInv => TypeOK
  BY DEF QInv
<1> QED  BY <1>1, Invariance, PTL

\* No wake-up is ever lost (NoStrandedData): queued records always have a
\* signal in q.pending or a push that is about to call get.
THEOREM NoLostWakeUp == Spec => []NoStrandedData
<1>1. QInv => NoStrandedData
  BY DEF QInv
<1> QED  BY <1>1, Invariance, PTL

\* Batch and queue stay in insertion order through every requeue: the
\* precondition of limitAge's binary search.
THEOREM StaysChronological == Spec => []Chronological
<1>1. QInv => Chronological
  BY DEF QInv
<1> QED  BY <1>1, Invariance, PTL

\* Every buffer goes back to the pool exactly once, when its record is gone.
THEOREM BuffersAreOwned == Spec => []BufferOwnership
<1>1. QInv => BufferOwnership
  BY DEF QInv
<1> QED  BY <1>1, Invariance, PTL

\* A step of the queue is a step of the abstract FIFO, or changes nothing.
LEMMA FifoStep == QInv /\ [Next]_vars => [Fifo!Next]_<<data, records>>
<1> SUFFICES ASSUME QInv, [Next]_vars, ~UNCHANGED <<data, records>> PROVE Fifo!Next
  OBVIOUS
<1>1. TypeOK /\ data \in Seq(Entry) /\ records \in Seq(Entry)
  BY DEF QInv, TypeOK, QueueTypeOK
<1>2. CASE get
  <2>1. records = <<>> /\ data # <<>>
    BY <1>2 DEF QInv, InFlight, get
  <2>2. BatchLen(data) \in 1..Len(data)
    BY <1>1, <2>1, BatchLenRange
  <2>3. Fifo!Take
    BY <1>2, <2>1, <2>2, Zenon DEF get, Drop, Fifo!Take
  <2> QED  BY <2>3 DEF Fifo!Next
<1>3. ASSUME NEW size \in Sizes, insert(size) PROVE Fifo!Next
  <2>1. PICK k \in 0..Len(Append(data, New(size))) : data' = Drop(Append(data, New(size)), k)
    BY <1>1, <1>3, InsertFacts, Zenon
  <2>2. New(size) \in Entry
    BY <1>1, <1>3, InsertFacts, NewIsEntry, Zenon
  <2>3. records' = records
    BY <1>3 DEF insert
  <2> HIDE DEF New
  <2>4. Fifo!IsSuffixOf(data', Append(data, New(size)))
    BY <2>1, Zenon DEF Fifo!IsSuffixOf, Drop
  <2>5. Fifo!Accept
    BY <2>2, <2>3, <2>4 DEF Fifo!Accept
  <2> QED  BY <2>5 DEF Fifo!Next
<1>4. ASSUME NEW o \in Answers, StoreRetried(o) PROVE Fifo!Next
  <2>1. PICK k \in 0..Len(records \o data) : data' = Drop(records \o data, k)
    BY <1>1, <1>4, RequeueFacts, Zenon
  <2>2. records # <<>> /\ records' = <<>>
    BY <1>4 DEF QInv, InFlight, StoreRetried
  <2>3. Fifo!IsSuffixOf(data', records \o data)
    BY <2>1 DEF Fifo!IsSuffixOf, Drop
  <2>4. Fifo!GiveBack
    BY <2>2, <2>3 DEF Fifo!GiveBack
  <2> QED  BY <2>4 DEF Fifo!Next
<1>5. ASSUME NEW o \in Answers, StoreDone(o) PROVE Fifo!Next
  <2>1. Fifo!Settle
    BY <1>5 DEF QInv, InFlight, StoreDone, Fifo!Settle
  <2> QED  BY <2>1 DEF Fifo!Next
<1>6. CASE Tick \/ Cancel \/ PushStart \/ PushStartFails \/ PushReturnsCtxErr \/ WaitC
           \/ getEmpty \/ BackoffElapsed \/ UNCHANGED vars
  BY <1>6 DEF Tick, Cancel, PushStart, PushStartFails, PushReturnsCtxErr, WaitC,
     getEmpty, BackoffElapsed, vars
<1> QED  BY <1>2, <1>3, <1>4, <1>5, <1>6 DEF Next, PushStep

\* The queue implements the drop-oldest FIFO, whatever its limits.
THEOREM ImplementsFifo == Spec => FifoSpec
<1>1. Init => Fifo!Init
  BY DEF Init, Fifo!Init
<1> QED  BY <1>1, Invariance, FifoStep, PTL DEF Spec, FifoSpec, Fifo!Spec
=============================================================================
