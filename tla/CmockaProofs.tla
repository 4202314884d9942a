---------------------------- MODULE CmockaProofs ----------------------------
(***************************************************************************)
(* Proofs about Cmocka, for every set of functions, parameters, checks,    *)
(* values, counts, addresses and groups, any number of groups and any      *)
(* number of calls.                                                        *)
(***************************************************************************)
EXTENDS Cmocka, TLAPS, FiniteSetTheorems, SequenceTheorems, WellFoundedInduction

-----------------------------------------------------------------------------
(* Sets of natural numbers and sequences.                                  *)

LEMMA Least ==
  ASSUME NEW S, S \subseteq Nat, S # {}
  PROVE  Min(S) \in S /\ \A x \in S : Min(S) <= x
<1>1. \E x \in S : \A y \in S : ~ (<<y, x>> \in OpToRel(<, Nat))
  BY NatLessThanWellFounded, WFMin
<1>2. PICK x \in S : \A y \in S : ~ (<<y, x>> \in OpToRel(<, Nat)) BY <1>1
<1>3. ASSUME NEW y \in S PROVE x <= y
  <2>1. <<y, x>> \in OpToRel(<, Nat) <=> y < x BY DEF OpToRel
  <2>2. ~ (y < x) BY <1>2, <2>1
  <2>3. QED BY <2>2
<1>4. QED BY <1>3 DEF Min

\* A sequence without its elements from a to b - 1.
Without(s, a, b) == SubSeq(s, 1, a - 1) \o SubSeq(s, b, Len(s))

LEMMA CutOut ==
  ASSUME NEW S, NEW s \in Seq(S), NEW a \in 1 .. Len(s), NEW b \in a .. Len(s) + 1
  PROVE  /\ Without(s, a, b) \in Seq(S)
         /\ Len(Without(s, a, b)) = Len(s) - (b - a)
         /\ \A k \in 1 .. Len(s) - (b - a) :
              Without(s, a, b)[k] = IF k < a THEN s[k] ELSE s[k + (b - a)]
<1> DEFINE r == Without(s, a, b)
           u == SubSeq(s, 1, a - 1)
           w == SubSeq(s, b, Len(s))
<1>0. Len(s) \in Nat BY LenProperties
<1>1. /\ u \in Seq(S) /\ Len(u) = a - 1
      /\ \A k \in 1 .. a - 1 : u[k] = s[k]
  <2>1. \A k \in 1 .. a - 1 : s[k] \in S BY <1>0, ElementOfSeq
  <2>2. 1 \in Int /\ a - 1 \in Int OBVIOUS
  <2>3. QED BY <2>1, <2>2, SubSeqProperties
<1>2. /\ w \in Seq(S) /\ Len(w) = Len(s) - b + 1
      /\ \A k \in 1 .. Len(s) - b + 1 : w[k] = s[b + k - 1]
  <2>1. \A k \in b .. Len(s) : s[k] \in S BY <1>0, ElementOfSeq
  <2>2. b \in Int /\ Len(s) \in Int BY <1>0
  <2>3. /\ w \in Seq(S) /\ Len(w) = IF b <= Len(s) THEN Len(s) - b + 1 ELSE 0
        /\ \A k \in 1 .. Len(s) - b + 1 : w[k] = s[b + k - 1]
    BY <2>1, <2>2, SubSeqProperties
  <2> HIDE DEF w
  <2>4. (IF b <= Len(s) THEN Len(s) - b + 1 ELSE 0) = Len(s) - b + 1 BY <1>0
  <2>5. QED BY <2>3, <2>4
<1>3. /\ u \o w \in Seq(S) /\ Len(u \o w) = Len(u) + Len(w)
      /\ \A k \in 1 .. Len(u) + Len(w) :
           (u \o w)[k] = IF k <= Len(u) THEN u[k] ELSE w[k - Len(u)]
  BY <1>1, <1>2, ConcatProperties
<1>4. r = u \o w BY DEF Without
<1> HIDE DEF r, u, w
<1>5. Len(u) + Len(w) = Len(s) - (b - a) BY <1>0, <1>1, <1>2
<1>6. ASSUME NEW k \in 1 .. Len(u) + Len(w)
      PROVE  r[k] = IF k < a THEN s[k] ELSE s[k + (b - a)]
  <2>1. CASE k < a
    <3>1. k <= Len(u) /\ k \in 1 .. a - 1 BY <1>1, <2>1
    <3>2. QED BY <1>1, <1>3, <1>4, <2>1, <3>1
  <2>2. CASE ~ (k < a)
    <3>1. ~ (k <= Len(u)) /\ k - Len(u) \in 1 .. Len(s) - b + 1
          /\ b + (k - Len(u)) - 1 = k + (b - a)
      BY <1>0, <1>1, <1>5, <2>2
    <3>2. QED BY <1>2, <1>3, <1>4, <2>2, <3>1
  <2>3. QED BY <2>1, <2>2
<1>7. QED BY <1>3, <1>4, <1>5, <1>6 DEF r

LEMMA Removed ==
  ASSUME NEW S, NEW s \in Seq(S), NEW i \in 1 .. Len(s)
  PROVE  /\ RemoveAt(s, i) \in Seq(S)
         /\ Len(RemoveAt(s, i)) = Len(s) - 1
         /\ \A k \in 1 .. Len(s) - 1 :
              RemoveAt(s, i)[k] = IF k < i THEN s[k] ELSE s[k + 1]
<1>0. Len(s) \in Nat BY LenProperties
<1>1. i + 1 \in i .. Len(s) + 1 /\ i + 1 - i = 1 BY <1>0
<1>2. PICK b \in i .. Len(s) + 1 : b = i + 1 BY <1>1
<1>3. RemoveAt(s, i) = Without(s, i, b) BY <1>2 DEF RemoveAt, Without
<1>4. /\ Without(s, i, b) \in Seq(S) /\ Len(Without(s, i, b)) = Len(s) - (b - i)
      /\ \A k \in 1 .. Len(s) - (b - i) :
           Without(s, i, b)[k] = IF k < i THEN s[k] ELSE s[k + (b - i)]
  BY CutOut
<1>5. b - i = 1 BY <1>2
<1>6. QED BY <1>3, <1>4, <1>5

-----------------------------------------------------------------------------
(* The checks do what their kinds mean.                                    *)

LEMMA FirstNul ==
  ASSUME NEW s \in Seq(Int), NUL \in ToSet(s)
  PROVE  \E n \in 1 .. Len(s) : /\ s[n] = NUL /\ \A m \in 1 .. n - 1 : s[m] # NUL
                                /\ CString(s) = SubSeq(s, 1, n - 1)
<1> DEFINE D == {k \in 1 .. Len(s) : s[k] = NUL}
           Ends(k) == s[k] = NUL /\ \A m \in 1 .. k - 1 : s[m] # NUL
<1>1. DOMAIN s = 1 .. Len(s) /\ Len(s) \in Nat BY LenProperties
<1>2. D \subseteq Nat /\ D # {} BY <1>1 DEF ToSet
<1>3. Min(D) \in D /\ \A x \in D : Min(D) <= x BY <1>2, Least
<1>4. Ends(Min(D)) /\ Min(D) \in DOMAIN s
  <2>1. ASSUME NEW m \in 1 .. Min(D) - 1 PROVE s[m] # NUL
    <3>1. Min(D) \in 1 .. Len(s) BY <1>3
    <3>2. m \in 1 .. Len(s) /\ ~ (Min(D) <= m) BY <1>1, <3>1
    <3>3. m \notin D BY <1>3, <3>2
    <3>4. QED BY <3>2, <3>3
  <2>2. QED BY <1>1, <1>3, <2>1
<1>5. PICK n : n = CHOOSE k \in DOMAIN s : Ends(k) OBVIOUS
<1>6. n \in DOMAIN s /\ Ends(n) BY <1>4, <1>5
<1>7. CString(s) = SubSeq(s, 1, n - 1) BY <1>5 DEF CString
<1>8. QED BY <1>1, <1>6, <1>7

LEMMA StringMeans ==
  ASSUME NEW s \in Seq(Int), NEW t \in Seq(Int), NUL \in ToSet(s), NUL \in ToSet(t)
  PROVE  string_equal(s, t) <=> SameUpToNul(s, t)
<1>1. PICK n \in 1 .. Len(s) : /\ s[n] = NUL /\ \A m \in 1 .. n - 1 : s[m] # NUL
                               /\ CString(s) = SubSeq(s, 1, n - 1)
  BY FirstNul
<1>2. PICK k \in 1 .. Len(t) : /\ t[k] = NUL /\ \A m \in 1 .. k - 1 : t[m] # NUL
                               /\ CString(t) = SubSeq(t, 1, k - 1)
  BY FirstNul
<1>3. /\ DOMAIN s = 1 .. Len(s) /\ Len(s) \in Nat
      /\ DOMAIN t = 1 .. Len(t) /\ Len(t) \in Nat
  BY LenProperties
<1>4. /\ Len(CString(s)) = n - 1 /\ \A m \in 1 .. n - 1 : CString(s)[m] = s[m]
      /\ CString(s) \in Seq(Int)
  <2>1. \A m \in 1 .. n - 1 : s[m] \in Int BY <1>3, ElementOfSeq
  <2>2. 1 \in Int /\ n - 1 \in Int OBVIOUS
  <2>3. QED BY <1>1, <2>1, <2>2, SubSeqProperties
<1>5. /\ Len(CString(t)) = k - 1 /\ \A m \in 1 .. k - 1 : CString(t)[m] = t[m]
      /\ CString(t) \in Seq(Int)
  <2>1. \A m \in 1 .. k - 1 : t[m] \in Int BY <1>3, ElementOfSeq
  <2>2. 1 \in Int /\ k - 1 \in Int OBVIOUS
  <2>3. QED BY <1>2, <2>1, <2>2, SubSeqProperties
<1>6. ASSUME string_equal(s, t) PROVE SameUpToNul(s, t)
  <2>1. CString(s) = CString(t) BY <1>6 DEF string_equal
  <2>2. n = k BY <1>4, <1>5, <2>1
  <2>3. \A m \in 1 .. n - 1 : s[m] = t[m] BY <1>4, <1>5, <2>1, <2>2
  <2>4. \A m \in 1 .. n : s[m] = t[m] BY <1>1, <1>2, <2>2, <2>3
  <2>5. n \in DOMAIN s \cap DOMAIN t BY <1>3, <2>2
  <2>6. QED BY <1>1, <1>2, <2>2, <2>4, <2>5 DEF SameUpToNul
<1>7. ASSUME SameUpToNul(s, t) PROVE string_equal(s, t)
  <2>1. PICK e \in DOMAIN s \cap DOMAIN t :
          s[e] = NUL /\ t[e] = NUL /\ \A m \in 1 .. e : s[m] = t[m]
    BY <1>7 DEF SameUpToNul
  <2>2. e \in 1 .. Len(s) /\ e \in 1 .. Len(t) BY <1>3, <2>1
  <2>3. n <= e /\ k <= e BY <1>1, <1>2, <2>1, <2>2
  <2>4. t[n] = NUL /\ s[k] = NUL BY <1>1, <1>2, <2>1, <2>3
  <2>5. n = k
    <3>1. ~ (n < k) BY <1>2, <2>4
    <3>2. ~ (k < n) BY <1>1, <2>4
    <3>3. QED BY <3>1, <3>2
  <2>6. \A m \in 1 .. Len(CString(s)) : CString(s)[m] = CString(t)[m]
    <3>1. ASSUME NEW m \in 1 .. Len(CString(s)) PROVE CString(s)[m] = CString(t)[m]
      <4>1. m \in 1 .. n - 1 /\ m \in 1 .. k - 1 /\ m \in 1 .. e BY <1>4, <2>3, <2>5
      <4>2. QED BY <1>4, <1>5, <2>1, <4>1
    <3>2. QED BY <3>1
  <2>7. CString(s) = CString(t) BY <1>4, <1>5, <2>5, <2>6, SeqEqual
  <2>8. QED BY <2>7 DEF string_equal
<1>8. QED BY <1>6, <1>7

LEMMA MemoryMeans ==
  ASSUME NEW d \in Seq(Int), NEW v \in Seq(Int), Len(d) <= Len(v)
  PROVE  /\ memory_equal(v, d, Len(d)) <=> IsPrefix(d, v)
         /\ memory_not_equal(v, d, Len(d)) <=> ~ IsPrefix(d, v)
<1> DEFINE n == Len(d)
           Same == {i \in 1 .. n : v[i] = d[i]}
           Other == {i \in 1 .. n : v[i] # d[i]}
<1>1. n \in Nat /\ Len(v) \in Nat BY LenProperties
<1>2. IsPrefix(d, v) <=> \A i \in 1 .. n : v[i] = d[i]
  <2>1. SubSeq(d, 1, n) = d BY SubSeqFull
  <2>2. /\ SubSeq(v, 1, n) \in Seq(Int) /\ Len(SubSeq(v, 1, n)) = n
        /\ \A i \in 1 .. n : SubSeq(v, 1, n)[i] = v[i]
    <3>1. \A i \in 1 .. n : v[i] \in Int BY <1>1, ElementOfSeq
    <3>2. 1 \in Int /\ n \in Int BY <1>1
    <3>3. /\ SubSeq(v, 1, n) \in Seq(Int)
          /\ Len(SubSeq(v, 1, n)) = IF 1 <= n THEN n - 1 + 1 ELSE 0
          /\ \A i \in 1 .. n - 1 + 1 : SubSeq(v, 1, n)[i] = v[1 + i - 1]
      BY <3>1, <3>2, SubSeqProperties
    <3>4. \A i \in 1 .. n : i \in 1 .. n - 1 + 1 /\ 1 + i - 1 = i BY <1>1
    <3>5. (IF 1 <= n THEN n - 1 + 1 ELSE 0) = n BY <1>1
    <3> HIDE DEF n
    <3>6. QED BY <3>3, <3>4, <3>5
  <2>3. IsPrefix(d, v) <=> d = SubSeq(v, 1, n)
    BY <2>1, <1>1 DEF IsPrefix
  <2>4. ASSUME \A i \in 1 .. n : v[i] = d[i] PROVE d = SubSeq(v, 1, n)
    <3>1. Len(d) = Len(SubSeq(v, 1, n)) BY <2>2
    <3>2. \A i \in 1 .. Len(d) : d[i] = SubSeq(v, 1, n)[i] BY <2>2, <2>4
    <3>3. QED BY <2>2, <3>1, <3>2, SeqEqual
  <2>5. QED BY <2>2, <2>3, <2>4
<1>3. memory_equal(v, d, n) <=> \A i \in 1 .. n : v[i] = d[i]
  BY DEF memory_equal
<1>4. memory_not_equal(v, d, n) <=> ~ \A i \in 1 .. n : v[i] = d[i]
  <2>1. IsFiniteSet(1 .. n) /\ Cardinality(1 .. n) = n
    <3>1. 1 \in Int /\ n \in Int BY <1>1
    <3>2. IsFiniteSet(1 .. n) /\ Cardinality(1 .. n) = IF 1 > n THEN 0 ELSE n - 1 + 1
      BY <3>1, FS_Interval
    <3>3. (IF 1 > n THEN 0 ELSE n - 1 + 1) = n BY <1>1
    <3>4. QED BY <3>2, <3>3
  <2>2. Same \in SUBSET (1 .. n) OBVIOUS
  <2>3. Cardinality(Same) = n <=> Same = 1 .. n BY <2>1, <2>2, FS_Subset
  <2>4. memory_not_equal(v, d, n) <=> Cardinality(Same) # n BY DEF memory_not_equal
  <2>5. QED BY <2>3, <2>4
<1>5. QED BY <1>2, <1>3, <1>4

LEMMA CheckMeans ==
  ASSUME NEW c, NEW v, Fits(c, v), c.kind # "return_code", ~ Odd(c, v)
  PROVE  CheckPasses(c, v) <=> Means(c, v)
<1>1. c.data \in Seq(Int) /\ v \in Seq(Int) BY DEF Fits
<1>2. DOMAIN c.data = 1 .. Len(c.data) /\ Len(c.data) \in Nat
      /\ \A i \in 1 .. Len(c.data) : c.data[i] \in Int
  BY <1>1, LenProperties, ElementOfSeq
<1>3. v[1] \in Int BY <1>1, EmptySeq, LenProperties, ElementOfSeq DEF Fits
<1>4. CASE c.kind \in {"value", "not_value"}
  <2>1. Len(c.data) = 1 BY <1>4 DEF Fits
  <2>2. v[1] \in ToSet(c.data) <=> v[1] = c.data[1] BY <1>2, <2>1 DEF ToSet
  <2>3. QED BY <1>4, <2>2 DEF CheckPasses, AnyCheck, ValueCheck, SetCheck, RangeCheck,
                              StringCheck, MemoryCheck, Means, values_equal
<1>5. CASE c.kind \in {"in_set", "not_in_set"}
  <2>1. v[1] \in ToSet(c.data) <=> \E i \in DOMAIN c.data : c.data[i] = v[1] BY DEF ToSet
  <2>2. QED BY <1>5, <2>1 DEF CheckPasses, AnyCheck, ValueCheck, SetCheck, RangeCheck,
                              StringCheck, MemoryCheck, Means, value_in_set
<1>6. CASE c.kind \in {"in_range", "not_in_range"}
  <2>1. Len(c.data) = 2 BY <1>6 DEF Fits
  <2>2. c.data[1] \in Int /\ c.data[2] \in Int BY <1>2, <2>1
  <2>3. (c.data[1] < 0) = (v[1] < 0) /\ (c.data[2] < 0) = (v[1] < 0)
    <3>1. 1 \in DOMAIN c.data /\ 2 \in DOMAIN c.data BY <1>2, <2>1
    <3>2. QED BY <1>6, <3>1 DEF Odd
  <2>4. /\ integer_in_range(v[1], c.data[1], c.data[2]) <=> v[1] \in c.data[1] .. c.data[2]
        /\ integer_not_in_range(v[1], c.data[1], c.data[2]) <=> v[1] \notin c.data[1] .. c.data[2]
    BY <1>3, <2>2, <2>3 DEF integer_in_range, integer_not_in_range, AtMost
  <2>5. QED BY <1>6, <2>4 DEF CheckPasses, AnyCheck, ValueCheck, SetCheck, RangeCheck,
                              StringCheck, MemoryCheck, Means
<1>7. CASE c.kind \in {"string", "not_string"}
  <2>1. string_equal(v, c.data) <=> SameUpToNul(v, c.data)
    BY <1>1, <1>7, StringMeans DEF Fits
  <2>2. QED BY <1>7, <2>1 DEF CheckPasses, AnyCheck, ValueCheck, SetCheck, RangeCheck,
                              StringCheck, MemoryCheck, Means
<1>8. CASE c.kind \in {"memory", "not_memory"}
  <2>1. /\ memory_equal(v, c.data, Len(c.data)) <=> IsPrefix(c.data, v)
        /\ memory_not_equal(v, c.data, Len(c.data)) <=> ~ IsPrefix(c.data, v)
    BY <1>1, <1>8, MemoryMeans DEF Fits
  <2>2. QED BY <1>8, <2>1 DEF CheckPasses, AnyCheck, ValueCheck, SetCheck, RangeCheck,
                              StringCheck, MemoryCheck, Means
<1>9. CASE c.kind = "any"
  BY <1>9 DEF CheckPasses, AnyCheck, Means
<1>10. QED BY <1>4, <1>5, <1>6, <1>7, <1>8, <1>9 DEF Fits, Kinds

LEMMA AssertMeans ==
  ASSUME NEW c \in Checks, NEW v \in Values, ~ Odd(c, v)
  PROVE  AssertHolds(c, v) <=> Means(c, v)
<1>1. Fits(c, v) BY CmockaAssumption
<1>2. CASE c.kind = "return_code"
  <2>1. v[1] \in Int BY <1>1, EmptySeq, LenProperties, ElementOfSeq DEF Fits
  <2>2. ReturnLimit(c.data[1]) \in Int
    <3>1. 32768 * 65536 * 65536 * 65536 - 1 \in Int OBVIOUS
    <3>2. QED BY <3>1 DEF ReturnLimit
  <2>3. Means(c, v) <=> v[1] >= 0 BY <1>2 DEF Means
  <2>4. AssertHolds(c, v) <=> v[1] >= 0 /\ v[1] <= ReturnLimit(c.data[1]) - 1
    BY <1>2 DEF AssertHolds, ReturnCodeHolds
  <2>5. v[1] < ReturnLimit(c.data[1]) BY <1>2, <2>1, <2>2 DEF Odd
  <2>6. QED BY <2>1, <2>2, <2>3, <2>4, <2>5
<1>3. CASE c.kind # "return_code"
  BY <1>1, <1>3, CheckMeans DEF AssertHolds
<1>4. QED BY <1>2, <1>3
-----------------------------------------------------------------------------
(* The queues.  An entry's count says what is left of what was asked.      *)

Counted(entry) ==
  /\ (entry.asked < 0 <=> entry.count < 0)
  /\ (entry.asked = 0 <=> entry.count = 0)
  /\ (entry.asked = Maybe => entry.count = Maybe)
  /\ (entry.asked = Always => entry.count = IF entry.used > 0 THEN Maybe ELSE Always)

\* The queues whose entries were used at most n times each.
Sound(What, n) ==
  {q \in Seq(Entries(What, Counts, MaxCalls)) :
     \A i \in 1 .. Len(q) : Counted(q[i]) /\ q[i].used <= n}

\* An entry behind one that is still owed a call was not used.
InOrder(q) ==
  \A j \in 1 .. Len(q) : \A i \in 1 .. j - 1 : q[j].used > 0 => q[i].count = Maybe

\* Nothing is announced for no call at all.
NoZero(q) == \A j \in 1 .. Len(q) : q[j].count # 0

Ordered(q) == InOrder(q) /\ NoZero(q)

LEMMA SoundGrows ==
  ASSUME NEW What, NEW n \in Nat, NEW m \in Nat, n <= m, NEW q \in Sound(What, n)
  PROVE  q \in Sound(What, m)
<1>1. q \in Seq(Entries(What, Counts, MaxCalls))
      /\ \A i \in 1 .. Len(q) : Counted(q[i]) /\ q[i].used <= n
  BY DEF Sound
<1>2. \A i \in 1 .. Len(q) : q[i] \in Entries(What, Counts, MaxCalls) BY <1>1, ElementOfSeq
<1>3. \A i \in 1 .. Len(q) : q[i].used \in Nat BY <1>2 DEF Entries
<1>4. \A i \in 1 .. Len(q) : q[i].used <= m BY <1>1, <1>3
<1>5. QED BY <1>1, <1>4 DEF Sound

LEMMA NoneSound == ASSUME NEW What, NEW n PROVE <<>> \in Sound(What, n) /\ Ordered(<<>>)
BY EmptySeq DEF Sound, Ordered, InOrder, NoZero

LEMMA Added ==
  ASSUME NEW What, NEW n \in Nat, NEW q \in Sound(What, n), NEW w \in What, NEW k \in Counts
  PROVE  /\ list_add_value(q, w, k) \in Sound(What, n)
         /\ Ordered(q) /\ k # 0 => Ordered(list_add_value(q, w, k))
<1> DEFINE entry == [what |-> w, count |-> k, asked |-> k, used |-> 0]
           r == list_add_value(q, w, k)
<1>1. k \in {Always, Maybe} \cup Nat BY CmockaAssumption
<1>2. entry \in Entries(What, Counts, MaxCalls)
  <2>1. 0 \in 0 .. MaxCalls BY CmockaAssumption
  <2>2. QED BY <1>1, <2>1 DEF Entries
<1>3. Counted(entry) /\ entry.used = 0 /\ entry.count = k BY <1>1 DEF Counted, Always, Maybe
<1>4. q \in Seq(Entries(What, Counts, MaxCalls)) /\ Len(q) \in Nat
  BY LenProperties DEF Sound
<1>5. /\ r \in Seq(Entries(What, Counts, MaxCalls)) /\ Len(r) = Len(q) + 1
      /\ \A i \in 1 .. Len(q) : r[i] = q[i]
      /\ r[Len(q) + 1] = entry
  BY <1>2, <1>4, AppendProperties DEF list_add_value
<1> HIDE DEF entry, r
<1>6. \A i \in 1 .. Len(q) : Counted(q[i]) /\ q[i].used <= n BY DEF Sound
<1>7. \A i \in 1 .. Len(r) : Counted(r[i]) /\ r[i].used <= n
  <2>1. \A i \in 1 .. Len(r) : i \in 1 .. Len(q) \/ i = Len(q) + 1 BY <1>4, <1>5
  <2>2. QED BY <1>3, <1>5, <1>6, <2>1
<1>8. ASSUME InOrder(q), NEW j \in 1 .. Len(r), NEW i \in 1 .. j - 1, r[j].used > 0
      PROVE  r[i].count = Maybe
  <2>1. j # Len(q) + 1 BY <1>3, <1>5, <1>8
  <2>2. j \in 1 .. Len(q) /\ i \in 1 .. Len(q) BY <1>4, <1>5, <2>1
  <2>3. QED BY <1>5, <1>8, <2>2 DEF InOrder
<1>9. ASSUME NoZero(q), k # 0 PROVE NoZero(r)
  <2>1. \A i \in 1 .. Len(r) : i \in 1 .. Len(q) \/ i = Len(q) + 1 BY <1>4, <1>5
  <2>2. QED BY <1>3, <1>5, <1>9, <2>1 DEF NoZero
<1>10. QED BY <1>5, <1>7, <1>8, <1>9 DEF Sound, Ordered, InOrder, r

\* An entry that is used and stays in its queue.
Using(entry) ==
  [entry EXCEPT !.used = @ + 1, !.count = IF @ > Maybe THEN @ - 1 ELSE @]

LEMMA OneUse ==
  ASSUME NEW What, NEW n \in Nat, n < MaxCalls, NEW x \in Entries(What, Counts, MaxCalls),
         Counted(x), x.used <= n, x.count \notin {0, 1}
  PROVE  /\ Using(x) \in Entries(What, Counts, MaxCalls)
         /\ Counted(Using(x)) /\ Using(x).used <= n + 1 /\ Using(x).count # 0
         /\ x.count = Maybe => Using(x).count = Maybe
<1> DEFINE y == Using(x)
<1>1. /\ x.count \in {Always, Maybe} \cup Nat /\ x.asked \in Counts
      /\ x.used \in Nat /\ x.what \in What
      /\ x.asked \in {Always, Maybe} \cup Nat
  BY CmockaAssumption DEF Entries
<1>2. y = [what |-> x.what, count |-> IF x.count > Maybe THEN x.count - 1 ELSE x.count,
           asked |-> x.asked, used |-> x.used + 1]
  <2>1. x \in [what : What, count : {Always, Maybe} \cup Nat,
                asked : Counts, used : 0 .. MaxCalls]
    BY DEF Entries
  <2>2. y = [x EXCEPT !.used = x.used + 1,
                      !.count = IF x.count > Maybe THEN x.count - 1 ELSE x.count]
    BY DEF Using
  <2> HIDE DEF y
  <2>3. QED BY <2>1, <2>2
<1> HIDE DEF y
<1>3. x.used + 1 \in 0 .. MaxCalls BY <1>1, CmockaAssumption
<1>4. y.count \in {Always, Maybe} \cup Nat
  BY <1>1, <1>2 DEF Always, Maybe
<1>5. y \in Entries(What, Counts, MaxCalls) BY <1>1, <1>2, <1>3, <1>4 DEF Entries
<1>6. Counted(y)
  BY <1>1, <1>2 DEF Counted, Always, Maybe
<1>7. y.used <= n + 1 /\ y.count # 0 /\ (x.count = Maybe => y.count = Maybe)
  BY <1>1, <1>2 DEF Always, Maybe
<1>8. QED BY <1>5, <1>6, <1>7 DEF y

LEMMA UsedSound ==
  ASSUME NEW What, NEW n \in Nat, n < MaxCalls, NEW q \in Sound(What, n),
         NEW j \in 1 .. Len(q), q[j].count # 0
  PROVE  UseAt(q, j) \in Sound(What, n + 1)
<1> DEFINE E == Entries(What, Counts, MaxCalls)
           r == UseAt(q, j)
           y == Using(q[j])
<1>1. q \in Seq(E) /\ Len(q) \in Nat BY LenProperties DEF Sound
<1>2. \A i \in 1 .. Len(q) : q[i] \in E /\ Counted(q[i]) /\ q[i].used <= n
  BY <1>1, ElementOfSeq DEF Sound
<1>3. \A i \in 1 .. Len(q) : q[i].used <= n + 1
  <2>1. \A i \in 1 .. Len(q) : q[i].used \in Nat BY <1>2 DEF Entries
  <2>2. QED BY <1>2, <2>1
<1>4. CASE q[j].count = 1
  <2>1. r = RemoveAt(q, j) BY <1>4 DEF UseAt, list_remove_free
  <2>2. /\ r \in Seq(E) /\ Len(r) = Len(q) - 1
        /\ \A k \in 1 .. Len(q) - 1 : r[k] = IF k < j THEN q[k] ELSE q[k + 1]
    BY <1>1, <2>1, Removed
  <2> HIDE DEF r
  <2>3. \A k \in 1 .. Len(r) : Counted(r[k]) /\ r[k].used <= n + 1
    <3>1. ASSUME NEW k \in 1 .. Len(r) PROVE Counted(r[k]) /\ r[k].used <= n + 1
      <4>1. k \in 1 .. Len(q) /\ k + 1 \in 1 .. Len(q) BY <1>1, <2>2
      <4>2. r[k] = q[k] \/ r[k] = q[k + 1] BY <2>2
      <4>3. QED BY <1>2, <1>3, <4>1, <4>2
    <3>2. QED BY <3>1
  <2>4. QED BY <2>2, <2>3 DEF Sound, r
<1>5. CASE q[j].count # 1
  <2>1. q[j] \in E /\ Counted(q[j]) /\ q[j].used <= n BY <1>2
  <2>2. y \in E /\ Counted(y) /\ y.used <= n + 1 BY <1>5, <2>1, OneUse
  <2>3. r = [q EXCEPT ![j] = y]
    BY <1>1, <1>5, <2>1, LenProperties DEF UseAt, Entries, Using
  <2> HIDE DEF y, r
  <2>4. /\ r \in Seq(E) /\ Len(r) = Len(q)
        /\ \A i \in 1 .. Len(q) : r[i] = IF i = j THEN y ELSE q[i]
    BY <1>1, <2>2, <2>3, ExceptSeq
  <2>5. \A i \in 1 .. Len(r) : Counted(r[i]) /\ r[i].used <= n + 1
    BY <1>2, <1>3, <2>2, <2>4
  <2>6. QED BY <2>4, <2>5 DEF Sound, r
<1>6. QED BY <1>4, <1>5

\* The call that is served comes after entries that may be passed over.
LEMMA Served ==
  ASSUME NEW What, NEW n, NEW q \in Sound(What, n), NEW f, Serving(q, f) # 0
  PROVE  /\ Serving(q, f) \in 1 .. Len(q)
         /\ \A i \in 1 .. Serving(q, f) - 1 : q[i].count = Maybe
<1> DEFINE stops == {j \in DOMAIN q : q[j].count > Maybe \/ q[j].what = f}
           j == Serving(q, f)
<1>1. q \in Seq(Entries(What, Counts, MaxCalls)) BY DEF Sound
<1>2. DOMAIN q = 1 .. Len(q) /\ Len(q) \in Nat BY <1>1, LenProperties
<1>3. stops # {} /\ j = Min(stops) BY DEF Serving
<1>4. stops \subseteq Nat BY <1>2
<1>5. j \in stops /\ \A i \in stops : j <= i BY <1>3, <1>4, Least
<1>6. ASSUME NEW i \in 1 .. j - 1 PROVE q[i].count = Maybe
  <2>1. i \in 1 .. Len(q) /\ ~ (j <= i) BY <1>2, <1>5
  <2>2. i \notin stops BY <1>5, <2>1
  <2>3. ~ (q[i].count > Maybe) BY <1>2, <2>1, <2>2
  <2>4. q[i].count \in {Always, Maybe} \cup Nat
    <3>1. q[i] \in Entries(What, Counts, MaxCalls) BY <1>1, <2>1, ElementOfSeq
    <3>2. QED BY <3>1 DEF Entries
  <2>5. QED BY <2>3, <2>4 DEF Always, Maybe
<1>7. QED BY <1>2, <1>5, <1>6

LEMMA UsedOrdered ==
  ASSUME NEW What, NEW n \in Nat, n < MaxCalls, NEW q \in Sound(What, n),
         NEW j \in 1 .. Len(q), \A i \in 1 .. j - 1 : q[i].count = Maybe, Ordered(q)
  PROVE  Ordered(UseAt(q, j))
<1> DEFINE E == Entries(What, Counts, MaxCalls)
           r == UseAt(q, j)
           y == Using(q[j])
<1>1. q \in Seq(E) /\ Len(q) \in Nat BY LenProperties DEF Sound
<1>2. \A i \in 1 .. Len(q) : q[i] \in E /\ Counted(q[i]) /\ q[i].used <= n
  BY <1>1, ElementOfSeq DEF Sound
<1>3. CASE q[j].count = 1
  <2>1. r = RemoveAt(q, j) BY <1>3 DEF UseAt, list_remove_free
  <2>2. /\ r \in Seq(E) /\ Len(r) = Len(q) - 1
        /\ \A k \in 1 .. Len(q) - 1 : r[k] = IF k < j THEN q[k] ELSE q[k + 1]
    BY <1>1, <2>1, Removed
  <2> HIDE DEF r
  <2>3. ASSUME NEW k \in 1 .. Len(r), NEW i \in 1 .. k - 1, r[k].used > 0
        PROVE  r[i].count = Maybe
    <3> DEFINE kk == IF k < j THEN k ELSE k + 1
               ii == IF i < j THEN i ELSE i + 1
    <3>1. kk \in 1 .. Len(q) /\ ii \in 1 .. kk - 1 /\ i \in 1 .. Len(q) - 1
      BY <1>1, <2>2
    <3>2. r[k] = q[kk] /\ r[i] = q[ii] BY <2>2, <3>1
    <3>3. QED BY <2>3, <3>1, <3>2 DEF Ordered, InOrder
  <2>4. ASSUME NEW k \in 1 .. Len(r) PROVE r[k].count # 0
    <3>1. k \in 1 .. Len(q) /\ k + 1 \in 1 .. Len(q) BY <1>1, <2>2
    <3>2. r[k] = q[k] \/ r[k] = q[k + 1] BY <2>2
    <3>3. QED BY <3>1, <3>2 DEF Ordered, NoZero
  <2>5. QED BY <2>3, <2>4 DEF Ordered, InOrder, NoZero, r
<1>4. CASE q[j].count # 1
  <2>1. q[j] \in E /\ Counted(q[j]) /\ q[j].used <= n BY <1>2
  <2>2. y \in E /\ y.count # 0 /\ (q[j].count = Maybe => y.count = Maybe)
    <3>1. q[j].count # 0 BY DEF Ordered, NoZero
    <3>2. QED BY <1>4, <2>1, <3>1, OneUse
  <2>3. r = [q EXCEPT ![j] = y]
    BY <1>1, <1>4, <2>1, LenProperties DEF UseAt, Entries, Using
  <2> HIDE DEF y, r
  <2>4. /\ r \in Seq(E) /\ Len(r) = Len(q)
        /\ \A i \in 1 .. Len(q) : r[i] = IF i = j THEN y ELSE q[i]
    BY <1>1, <2>2, <2>3, ExceptSeq
  <2>5. ASSUME NEW k \in 1 .. Len(r), NEW i \in 1 .. k - 1, r[k].used > 0
        PROVE  r[i].count = Maybe
    <3>1. k \in 1 .. Len(q) /\ i \in 1 .. Len(q) BY <1>1, <2>4
    <3>2. q[i].count = Maybe
      <4>1. CASE k = j BY <4>1
      <4>2. CASE k # j BY <2>4, <2>5, <3>1, <4>2 DEF Ordered, InOrder
      <4>3. QED BY <4>1, <4>2
    <3>3. QED BY <2>2, <2>4, <3>1, <3>2
  <2>6. \A k \in 1 .. Len(r) : r[k].count # 0
    BY <2>2, <2>4 DEF Ordered, NoZero
  <2>7. QED BY <2>5, <2>6 DEF Ordered, InOrder, NoZero, r
<1>5. QED BY <1>3, <1>4

\* Nothing is left over exactly if every use announced was made and nothing is
\* queued that no use can reach.
LEMMA NothingLeft ==
  ASSUME NEW What, NEW n, NEW q \in Sound(What, n)
  PROVE  /\ remove_always_return_values(q) = <<>> <=> Met(q) /\ Reachable(q)
         /\ NoZero(q) => (check_for_leftover_values_list(q) <=> ~ Met(q))
<1> DEFINE E == Entries(What, Counts, MaxCalls)
<1>1. q \in Seq(E) /\ Len(q) \in Nat /\ DOMAIN q = 1 .. Len(q)
  BY LenProperties DEF Sound
<1>2. \A i \in 1 .. Len(q) : q[i] \in E /\ Counted(q[i])
  BY <1>1, ElementOfSeq DEF Sound
<1>3. \A i \in 1 .. Len(q) :
        /\ Honoured(q[i]) /\ q[i].asked # 0 <=> q[i].count = Maybe
        /\ q[i].count # 0 <=> q[i].asked # 0
        /\ q[i].count < Always <=> q[i].count = Maybe
        /\ q[i].count >= Always <=> q[i].count # Maybe
        /\ q[i].count = Maybe => q[i].asked < 0
  <2>1. ASSUME NEW i \in 1 .. Len(q)
        PROVE  /\ Honoured(q[i]) /\ q[i].asked # 0 <=> q[i].count = Maybe
               /\ q[i].count # 0 <=> q[i].asked # 0
               /\ q[i].count < Always <=> q[i].count = Maybe
               /\ q[i].count >= Always <=> q[i].count # Maybe
               /\ q[i].count = Maybe => q[i].asked < 0
    <3>1. /\ q[i].count \in {Always, Maybe} \cup Nat
          /\ q[i].asked \in {Always, Maybe} \cup Nat /\ q[i].used \in Nat
          /\ Counted(q[i])
      BY <1>2, CmockaAssumption DEF Entries
    <3>2. QED BY <3>1 DEF Counted, Honoured, Always, Maybe
  <2>2. QED BY <2>1
<1>4. q # <<>> => 1 \in 1 .. Len(q) /\ Head(q) = q[1] BY <1>1, EmptySeq
<1>5. ASSUME remove_always_return_values(q) = <<>>, q # <<>> PROVE Met(q) /\ Reachable(q)
  <2>1. Head(q).count < Always /\ RemoveAt(q, 1) = <<>>
    BY <1>5 DEF remove_always_return_values, list_remove_free
  <2>2. Len(q) = 1
    <3>1. Len(RemoveAt(q, 1)) = Len(q) - 1 BY <1>1, <1>4, <1>5, Removed
    <3>2. Len(q) - 1 = 0 BY <2>1, <3>1, EmptySeq
    <3>3. Len(q) \in Nat BY <1>1
    <3>4. QED BY <3>2, <3>3
  <2>3. Honoured(q[1]) /\ q[1].asked # 0 BY <1>3, <1>4, <1>5, <2>1
  <2>4. QED BY <1>1, <2>2, <2>3 DEF Met, Reachable
<1>6. ASSUME Met(q), Reachable(q), q # <<>> PROVE remove_always_return_values(q) = <<>>
  <2>1. Honoured(q[1]) /\ q[1].asked # 0 BY <1>1, <1>4, <1>6 DEF Met, Reachable
  <2>2. q[1].asked < 0 /\ q[1].count < Always BY <1>3, <1>4, <1>6, <2>1
  <2>3. Len(q) = 1 BY <1>1, <1>4, <1>6, <2>2 DEF Reachable
  <2>4. remove_always_return_values(q) = RemoveAt(q, 1)
    BY <1>4, <1>6, <2>2 DEF remove_always_return_values, list_remove_free
  <2>5. RemoveAt(q, 1) \in Seq(E) /\ Len(RemoveAt(q, 1)) = 0
    BY <1>1, <1>4, <1>6, <2>3, Removed
  <2>6. RemoveAt(q, 1) = <<>> BY <2>5, EmptySeq
  <2>7. QED BY <2>4, <2>6
<1>7. q = <<>> => Met(q) /\ Reachable(q) /\ remove_always_return_values(q) = <<>>
  BY DEF Met, Reachable, remove_always_return_values
<1>8. ASSUME NoZero(q) PROVE check_for_leftover_values_list(q) <=> ~ Met(q)
  <2>1. \A i \in 1 .. Len(q) : q[i].count >= Always <=> ~ Honoured(q[i])
    BY <1>3, <1>8 DEF NoZero
  <2>2. QED
    BY <1>1, <2>1 DEF check_for_leftover_values_list, remove_always_return_values_from_list, Met
<1>9. QED BY <1>5, <1>6, <1>7, <1>8
-----------------------------------------------------------------------------
(* The heap.                                                               *)

\* No two blocks have one address.
Heaps ==
  {h \in Seq(Blocks(Addresses)) : \A i, j \in 1 .. Len(h) : h[i].at = h[j].at => i = j}

Corrupt(h) == \E i \in 1 .. Len(h) : ~ h[i].intact

\* The blocks behind a check point are those the function that runs allocated.
Mine(h, point) ==
  \E k \in 0 .. Len(h) : /\ point = IF k = 0 THEN ListHead ELSE h[k].at
                         /\ \A i \in 1 .. Len(h) : h[i].mine <=> i > k

LEMMA HeapIs ==
  ASSUME NEW h \in Heaps
  PROVE  /\ h \in Seq(Blocks(Addresses)) /\ Len(h) \in Nat /\ DOMAIN h = 1 .. Len(h)
         /\ \A i \in 1 .. Len(h) : /\ h[i] \in Blocks(Addresses) /\ h[i].at \in Addresses
                                   /\ h[i].at # ListHead
         /\ \A i, j \in 1 .. Len(h) : h[i].at = h[j].at => i = j
<1>1. h \in Seq(Blocks(Addresses)) BY DEF Heaps
<1>2. Len(h) \in Nat /\ DOMAIN h = 1 .. Len(h) BY <1>1, LenProperties
<1>3. \A i \in 1 .. Len(h) : h[i] \in Blocks(Addresses) BY <1>1, ElementOfSeq
<1>4. \A i \in 1 .. Len(h) : h[i].at \in Addresses BY <1>3 DEF Blocks
<1>5. ListHead \notin Addresses BY CmockaAssumption
<1>6. QED BY <1>1, <1>2, <1>3, <1>4, <1>5 DEF Heaps

LEMMA NoBlock == <<>> \in Heaps /\ ~ Corrupt(<<>>)
BY EmptySeq DEF Heaps, Corrupt

LEMMA Allocated ==
  ASSUME NEW h \in Heaps, NEW a \in Unused(h, Addresses)
  PROVE  /\ Allocate(h, a) \in Heaps /\ Len(Allocate(h, a)) = Len(h) + 1
         /\ \A i \in 1 .. Len(h) : Allocate(h, a)[i] = h[i]
         /\ Corrupt(h) => Corrupt(Allocate(h, a))
         /\ \A point : Mine(h, point) => Mine(Allocate(h, a), point)
<1> DEFINE block == [at |-> a, intact |-> TRUE, mine |-> TRUE]
           r == Allocate(h, a)
<1>1. /\ h \in Seq(Blocks(Addresses)) /\ Len(h) \in Nat /\ DOMAIN h = 1 .. Len(h)
      /\ \A i, j \in 1 .. Len(h) : h[i].at = h[j].at => i = j
  BY HeapIs
<1>2. a \in Addresses /\ \A i \in 1 .. Len(h) : h[i].at # a BY <1>1 DEF Unused
<1>3. block \in Blocks(Addresses) /\ block.at = a /\ block.mine BY <1>2 DEF Blocks
<1>4. /\ r \in Seq(Blocks(Addresses)) /\ Len(r) = Len(h) + 1
      /\ \A i \in 1 .. Len(h) : r[i] = h[i]
      /\ r[Len(h) + 1] = block
  BY <1>1, <1>3, AppendProperties DEF Allocate
<1> HIDE DEF block, r
<1>5. \A i \in 1 .. Len(r) : i \in 1 .. Len(h) \/ i = Len(h) + 1 BY <1>1, <1>4
<1>6. \A i, j \in 1 .. Len(r) : r[i].at = r[j].at => i = j
  BY <1>1, <1>2, <1>3, <1>4, <1>5
<1>7. r \in Heaps BY <1>4, <1>6 DEF Heaps
<1>8. ASSUME Corrupt(h) PROVE Corrupt(r)
  <2>1. PICK i \in 1 .. Len(h) : ~ h[i].intact BY <1>8 DEF Corrupt
  <2>2. i \in 1 .. Len(r) /\ r[i] = h[i] BY <1>1, <1>4
  <2>3. QED BY <2>1, <2>2 DEF Corrupt
<1>9. ASSUME NEW point, Mine(h, point) PROVE Mine(r, point)
  <2>1. PICK k \in 0 .. Len(h) : /\ point = IF k = 0 THEN ListHead ELSE h[k].at
                                 /\ \A i \in 1 .. Len(h) : h[i].mine <=> i > k
    BY <1>9 DEF Mine
  <2>2. k \in 0 .. Len(r) /\ point = IF k = 0 THEN ListHead ELSE r[k].at
    BY <1>1, <1>4, <2>1
  <2>3. ASSUME NEW i \in 1 .. Len(r) PROVE r[i].mine <=> i > k
    <3>1. CASE i \in 1 .. Len(h) BY <1>4, <2>1, <3>1
    <3>2. CASE i = Len(h) + 1 BY <1>1, <1>3, <1>4, <2>1, <3>2
    <3>3. QED BY <1>5, <3>1, <3>2
  <2>4. QED BY <2>2, <2>3 DEF Mine
<1>10. QED BY <1>4, <1>7, <1>8, <1>9 DEF r

LEMMA Freed ==
  ASSUME NEW h \in Heaps, NEW i \in 1 .. Len(h), h[i].intact
  PROVE  /\ RemoveAt(h, i) \in Heaps
         /\ Corrupt(h) => Corrupt(RemoveAt(h, i))
         /\ \A point : Mine(h, point) /\ h[i].at # point => Mine(RemoveAt(h, i), point)
<1> DEFINE r == RemoveAt(h, i)
<1>1. /\ h \in Seq(Blocks(Addresses)) /\ Len(h) \in Nat
      /\ \A x, y \in 1 .. Len(h) : h[x].at = h[y].at => x = y
  BY HeapIs
<1>2. /\ r \in Seq(Blocks(Addresses)) /\ Len(r) = Len(h) - 1
      /\ \A k \in 1 .. Len(h) - 1 : r[k] = IF k < i THEN h[k] ELSE h[k + 1]
  BY <1>1, Removed
<1> HIDE DEF r
<1>3. ASSUME NEW x \in 1 .. Len(r), NEW y \in 1 .. Len(r), r[x].at = r[y].at PROVE x = y
  <2> DEFINE xx == IF x < i THEN x ELSE x + 1
             yy == IF y < i THEN y ELSE y + 1
  <2>1. xx \in 1 .. Len(h) /\ yy \in 1 .. Len(h) BY <1>1, <1>2
  <2>2. r[x] = h[xx] /\ r[y] = h[yy] BY <1>2
  <2>3. xx = yy BY <1>1, <1>3, <2>1, <2>2
  <2>4. QED BY <2>3
<1>4. r \in Heaps BY <1>2, <1>3 DEF Heaps
<1>5. ASSUME Corrupt(h) PROVE Corrupt(r)
  <2>1. PICK x \in 1 .. Len(h) : ~ h[x].intact BY <1>5 DEF Corrupt
  <2>2. x # i BY <2>1
  <2>3. CASE x < i
    <3>1. x \in 1 .. Len(r) /\ r[x] = h[x] BY <1>1, <1>2, <2>3
    <3>2. QED BY <2>1, <3>1 DEF Corrupt
  <2>4. CASE x > i
    <3>1. x - 1 \in 1 .. Len(h) - 1 /\ ~ (x - 1 < i) /\ x - 1 + 1 = x BY <1>1, <2>4
    <3>2. x - 1 \in 1 .. Len(r) /\ r[x - 1] = h[x] BY <1>2, <3>1
    <3>3. QED BY <2>1, <3>2 DEF Corrupt
  <2>5. QED BY <2>2, <2>3, <2>4
<1>6. ASSUME NEW point, Mine(h, point), h[i].at # point PROVE Mine(r, point)
  <2>1. PICK k \in 0 .. Len(h) : /\ point = IF k = 0 THEN ListHead ELSE h[k].at
                                 /\ \A x \in 1 .. Len(h) : h[x].mine <=> x > k
    BY <1>6 DEF Mine
  <2>2. k # i BY <1>6, <2>1
  <2> DEFINE n == IF i < k THEN k - 1 ELSE k
  <2>3. n \in 0 .. Len(r) BY <1>1, <1>2, <2>2
  <2>4. point = IF n = 0 THEN ListHead ELSE r[n].at
    <3>1. CASE k = 0 BY <2>1, <3>1
    <3>2. CASE k # 0 /\ k < i
      <4>1. n = k /\ n \in 1 .. Len(h) - 1 BY <1>1, <3>2
      <4>2. r[n] = h[k] BY <1>2, <3>2, <4>1
      <4>3. QED BY <2>1, <3>2, <4>1, <4>2
    <3>3. CASE k # 0 /\ i < k
      <4>1. n = k - 1 /\ n \in 1 .. Len(h) - 1 /\ ~ (n < i) /\ n + 1 = k BY <1>1, <3>3
      <4>2. r[n] = h[k] BY <1>2, <4>1
      <4>3. QED BY <2>1, <3>3, <4>1, <4>2
    <3>4. QED BY <2>2, <3>1, <3>2, <3>3
  <2>5. ASSUME NEW x \in 1 .. Len(r) PROVE r[x].mine <=> x > n
    <3> DEFINE xx == IF x < i THEN x ELSE x + 1
    <3>1. xx \in 1 .. Len(h) /\ r[x] = h[xx] BY <1>1, <1>2
    <3>2. xx > k <=> x > n BY <2>2
    <3>3. QED BY <2>1, <3>1, <3>2
  <2> HIDE DEF n
  <2>6. QED BY <2>3, <2>4, <2>5 DEF Mine
<1>7. QED BY <1>4, <1>5, <1>6 DEF r

LEMMA CorruptHeap ==
  ASSUME NEW h \in Heaps, NEW i \in 1 .. Len(h)
  PROVE  /\ [h EXCEPT ![i].intact = FALSE] \in Heaps
         /\ Corrupt([h EXCEPT ![i].intact = FALSE])
         /\ \A point : Mine(h, point) => Mine([h EXCEPT ![i].intact = FALSE], point)
<1> DEFINE block == [h[i] EXCEPT !.intact = FALSE]
           r == [h EXCEPT ![i] = block]
<1>1. /\ h \in Seq(Blocks(Addresses)) /\ Len(h) \in Nat
      /\ h[i] \in Blocks(Addresses)
      /\ \A x, y \in 1 .. Len(h) : h[x].at = h[y].at => x = y
  BY HeapIs
<1>2. /\ block \in Blocks(Addresses) /\ block.at = h[i].at /\ block.mine = h[i].mine
      /\ block.intact = FALSE
  BY <1>1 DEF Blocks
<1>3. r = [h EXCEPT ![i].intact = FALSE] OBVIOUS
<1> HIDE DEF block
<1>4. /\ r \in Seq(Blocks(Addresses)) /\ Len(r) = Len(h)
      /\ \A x \in 1 .. Len(h) : r[x] = IF x = i THEN block ELSE h[x]
  BY <1>1, <1>2, ExceptSeq
<1> HIDE DEF r
<1>5. \A x \in 1 .. Len(h) : r[x].at = h[x].at /\ r[x].mine = h[x].mine BY <1>2, <1>4
<1>6. r \in Heaps BY <1>1, <1>4, <1>5 DEF Heaps
<1>7. Corrupt(r) BY <1>2, <1>4 DEF Corrupt
<1>8. \A point : Mine(h, point) => Mine(r, point)
  <2>1. ASSUME NEW point, Mine(h, point) PROVE Mine(r, point)
    <3>1. PICK k \in 0 .. Len(h) : /\ point = IF k = 0 THEN ListHead ELSE h[k].at
                                   /\ \A x \in 1 .. Len(h) : h[x].mine <=> x > k
      BY <2>1 DEF Mine
    <3>2. k # 0 => k \in 1 .. Len(h) BY <1>1
    <3>3. point = IF k = 0 THEN ListHead ELSE r[k].at BY <1>5, <3>1, <3>2
    <3>4. QED BY <1>4, <1>5, <3>1, <3>3 DEF Mine
  <2>2. QED BY <2>1
<1>9. QED BY <1>3, <1>6, <1>7, <1>8

\* When a function is called, nothing is behind the check point taken.
LEMMA Disowning ==
  ASSUME NEW h \in Heaps
  PROVE  /\ Disowned(h) \in Heaps
         /\ Corrupt(h) => Corrupt(Disowned(h))
         /\ Mine(Disowned(h), CheckPoint(h))
         /\ h = <<>> => Disowned(h) = <<>>
         /\ CheckPoint(h) \in Addresses \cup {ListHead}
<1> DEFINE n == Len(h)
           r == Disowned(h)
<1>1. /\ n \in Nat /\ DOMAIN h = 1 .. n
      /\ \A i \in 1 .. n : h[i] \in Blocks(Addresses) /\ h[i].at \in Addresses
      /\ \A x, y \in 1 .. n : h[x].at = h[y].at => x = y
  BY HeapIs
<1>2. r = [i \in 1 .. n |-> [h[i] EXCEPT !.mine = FALSE]] BY <1>1 DEF Disowned
<1>3. \A i \in 1 .. n : /\ [h[i] EXCEPT !.mine = FALSE] \in Blocks(Addresses)
                        /\ [h[i] EXCEPT !.mine = FALSE].at = h[i].at
                        /\ [h[i] EXCEPT !.mine = FALSE].intact = h[i].intact
                        /\ [h[i] EXCEPT !.mine = FALSE].mine = FALSE
  BY <1>1 DEF Blocks
<1>4. r \in [1 .. n -> Blocks(Addresses)] BY <1>2, <1>3
<1>5. r \in Seq(Blocks(Addresses)) /\ Len(r) = n
  <2>1. r \in Seq(Blocks(Addresses)) BY <1>1, <1>4, SeqDef
  <2>2. DOMAIN r = 1 .. n /\ DOMAIN r = 1 .. Len(r) /\ Len(r) \in Nat BY <1>4, <2>1, LenProperties
  <2> HIDE DEF n, r
  <2>3. QED BY <1>1, <2>1, <2>2
<1>6. \A i \in 1 .. n : r[i].at = h[i].at /\ r[i].intact = h[i].intact /\ r[i].mine = FALSE
  BY <1>2, <1>3
<1> HIDE DEF r
<1>7. r \in Heaps BY <1>1, <1>5, <1>6 DEF Heaps
<1>8. Corrupt(h) => Corrupt(r) BY <1>5, <1>6 DEF Corrupt
<1>9. /\ CheckPoint(h) = IF n = 0 THEN ListHead ELSE h[n].at
      /\ CheckPoint(h) \in Addresses \cup {ListHead}
  <2>1. h = <<>> <=> n = 0
    <3>1. h \in Seq(Blocks(Addresses)) BY HeapIs
    <3>2. QED BY <3>1, EmptySeq
  <2>2. n # 0 => n \in 1 .. n BY <1>1
  <2>3. QED BY <1>1, <2>1, <2>2 DEF CheckPoint, Last
<1>10. Mine(r, CheckPoint(h))
  <2>1. n \in 0 .. Len(r) BY <1>1, <1>5
  <2>2. n # 0 => n \in 1 .. n BY <1>1
  <2>3. CheckPoint(h) = IF n = 0 THEN ListHead ELSE r[n].at BY <1>6, <1>9, <2>2
  <2>4. \A i \in 1 .. Len(r) : r[i].mine <=> i > n BY <1>1, <1>5, <1>6
  <2>5. QED BY <2>1, <2>3, <2>4 DEF Mine
<1>11. ASSUME h = <<>> PROVE r = <<>>
  <2>1. n = 0 BY <1>11, EmptySeq
  <2>2. QED BY <1>5, <2>1, EmptySeq
<1>12. QED BY <1>7, <1>8, <1>9, <1>10, <1>11 DEF r

\* Freeing what is behind a check point stops at the first corrupt block.
LEMMA FreedBehind ==
  ASSUME NEW h \in Heaps, NEW point
  PROVE  /\ FreeBehind(h, point) \in Heaps
         /\ Corrupt(h) => Corrupt(FreeBehind(h, point))
         /\ Behind(h, point) = {} => FreeBehind(h, point) = h
<1> DEFINE behind == Behind(h, point)
           bad == {i \in behind : ~ h[i].intact}
           stop == Min(bad \cup {Len(h) + 1})
           m == Min(behind)
           r == FreeBehind(h, point)
<1>1. /\ h \in Seq(Blocks(Addresses)) /\ Len(h) \in Nat /\ DOMAIN h = 1 .. Len(h)
      /\ \A x, y \in 1 .. Len(h) : h[x].at = h[y].at => x = y
  BY HeapIs
<1>2. CASE behind = {}
  BY <1>2 DEF FreeBehind
<1>3. CASE behind # {}
  <2>1. behind \subseteq 1 .. Len(h) BY <1>1 DEF Behind
  <2>2. m \in behind /\ \A i \in behind : m <= i
    <3>1. behind \subseteq Nat BY <2>1
    <3>2. QED BY <1>3, <3>1, Least
  <2>3. stop \in bad \cup {Len(h) + 1} /\ \A i \in bad \cup {Len(h) + 1} : stop <= i
    <3>1. bad \cup {Len(h) + 1} \subseteq Nat BY <1>1, <2>1
    <3>2. QED BY <3>1, Least
  <2>4. m \in 1 .. Len(h) BY <2>1, <2>2
  <2>5. stop \in m .. Len(h) + 1
    <3>1. CASE stop \in bad BY <1>1, <2>1, <2>2, <3>1
    <3>2. CASE stop = Len(h) + 1 BY <1>1, <2>4, <3>2
    <3>3. QED BY <2>3, <3>1, <3>2
  <2>6. r = Without(h, m, stop) BY <1>3 DEF FreeBehind, Without
  <2>7. /\ r \in Seq(Blocks(Addresses)) /\ Len(r) = Len(h) - (stop - m)
        /\ \A k \in 1 .. Len(h) - (stop - m) :
             r[k] = IF k < m THEN h[k] ELSE h[k + (stop - m)]
    <3> HIDE DEF r, m, stop, behind
    <3>1. PICK a \in 1 .. Len(h) : a = m BY <2>4
    <3>2. PICK b \in a .. Len(h) + 1 : b = stop BY <2>5, <3>1
    <3>3. h \in Seq(Blocks(Addresses)) BY <1>1
    <3>4. /\ Without(h, a, b) \in Seq(Blocks(Addresses))
          /\ Len(Without(h, a, b)) = Len(h) - (b - a)
          /\ \A k \in 1 .. Len(h) - (b - a) :
               Without(h, a, b)[k] = IF k < a THEN h[k] ELSE h[k + (b - a)]
      BY <3>3, CutOut
    <3>5. QED BY <2>6, <3>1, <3>2, <3>4
  <2>8. \A i \in 1 .. Len(h) : i >= m => i \in behind
    <3>1. ASSUME NEW i \in 1 .. Len(h), i >= m PROVE i \in behind
      <4>1. CASE point = ListHead BY <1>1, <4>1 DEF Behind
      <4>2. CASE point # ListHead
        <5>1. PICK j \in 1 .. m - 1 : h[j].at = point BY <2>2, <4>2 DEF Behind
        <5>2. j \in 1 .. i - 1 BY <2>4, <3>1
        <5>3. QED BY <1>1, <5>1, <5>2 DEF Behind
      <4>3. QED BY <4>1, <4>2
    <3>2. QED BY <3>1
  <2> HIDE DEF r, m, stop, behind
  <2>9. ASSUME NEW x \in 1 .. Len(r), NEW y \in 1 .. Len(r), r[x].at = r[y].at PROVE x = y
    <3> DEFINE xx == IF x < m THEN x ELSE x + (stop - m)
               yy == IF y < m THEN y ELSE y + (stop - m)
    <3>1. xx \in 1 .. Len(h) /\ yy \in 1 .. Len(h) BY <1>1, <2>4, <2>5, <2>7
    <3>2. r[x] = h[xx] /\ r[y] = h[yy] BY <2>7
    <3>3. xx = yy BY <1>1, <2>9, <3>1, <3>2
    <3>4. QED BY <2>4, <2>5, <3>3
  <2>10. r \in Heaps BY <2>7, <2>9 DEF Heaps
  <2>11. ASSUME Corrupt(h) PROVE Corrupt(r)
    <3>1. PICK i \in 1 .. Len(h) : ~ h[i].intact BY <2>11 DEF Corrupt
    <3>2. CASE i < m
      <4>1. i \in 1 .. Len(r) BY <1>1, <2>4, <2>5, <2>7, <3>2
      <4>2. r[i] = h[i] BY <2>7, <3>2, <4>1
      <4>3. QED BY <3>1, <4>1, <4>2 DEF Corrupt
    <3>3. CASE i >= m
      <4>1. i \in bad BY <2>8, <3>1, <3>3
      <4>2. stop <= i /\ stop # Len(h) + 1 BY <1>1, <2>3, <2>5, <4>1
      <4>3. stop \in bad /\ stop \in 1 .. Len(h) BY <1>1, <2>3, <2>4, <2>5, <4>2
      <4>4. m \in 1 .. Len(r) /\ m + (stop - m) = stop /\ ~ (m < m)
        BY <1>1, <2>4, <2>7, <4>3
      <4>5. r[m] = h[stop] BY <2>7, <4>4
      <4>6. QED BY <4>3, <4>4, <4>5 DEF Corrupt
    <3>4. QED BY <2>4, <3>2, <3>3
  <2>12. QED BY <1>3, <2>10, <2>11 DEF r, behind
<1>4. QED BY <1>1, <1>2, <1>3

\* What is behind the check point of a test is what it allocated itself.
LEMMA BehindIsMine ==
  ASSUME NEW h \in Heaps, NEW point, Mine(h, point)
  PROVE  /\ ~ LostPoint(h, point)
         /\ Behind(h, point) = {i \in DOMAIN h : h[i].mine}
<1>1. /\ Len(h) \in Nat /\ DOMAIN h = 1 .. Len(h)
      /\ \A i \in 1 .. Len(h) : h[i].at # ListHead
      /\ \A x, y \in 1 .. Len(h) : h[x].at = h[y].at => x = y
  BY HeapIs
<1>2. PICK k \in 0 .. Len(h) : /\ point = IF k = 0 THEN ListHead ELSE h[k].at
                               /\ \A i \in 1 .. Len(h) : h[i].mine <=> i > k
  BY DEF Mine
<1>3. CASE k = 0
  BY <1>1, <1>2, <1>3 DEF LostPoint, Behind
<1>4. CASE k # 0
  <2>1. k \in 1 .. Len(h) /\ point = h[k].at /\ point # ListHead BY <1>1, <1>2, <1>4
  <2>2. \A i \in 1 .. Len(h) : (\E j \in 1 .. i - 1 : h[j].at = point) <=> i > k
    <3>1. ASSUME NEW i \in 1 .. Len(h), NEW j \in 1 .. i - 1, h[j].at = point PROVE i > k
      <4>1. j \in 1 .. Len(h) BY <1>1
      <4>2. j = k BY <1>1, <2>1, <3>1, <4>1
      <4>3. QED BY <4>2
    <3>2. ASSUME NEW i \in 1 .. Len(h), i > k PROVE k \in 1 .. i - 1
      BY <2>1, <3>2
    <3>3. QED BY <2>1, <3>1, <3>2
  <2>3. QED BY <1>1, <1>2, <2>1, <2>2 DEF LostPoint, Behind
<1>5. QED BY <1>3, <1>4
-----------------------------------------------------------------------------
(* What a call of the program to cmocka does.                              *)

Used == MaxCalls - budget

\* The queues are sound, and calls were accepted in order.
Queues ==
  /\ results \in [Functions -> Sound({None}, Used)]
  /\ params \in [Parameters -> Sound(Queued, Used)]
  /\ calls \in Sound(Functions, Used) /\ Ordered(calls)

\* The heap h and the truth t after a call that comes back.
Handles(h, t) ==
  \/ h = heap /\ t \in {truth, "misled"}
  \/ \E a \in Unused(heap, Addresses) : h = Allocate(heap, a) /\ t = truth
  \/ \E i \in DOMAIN heap : /\ heap[i].intact /\ t = Losing(i)
                            /\ \/ h = RemoveAt(heap, i)
                               \/ \E a \in Unused(heap, Addresses) :
                                    h = RemoveAt(Allocate(heap, a), i)

Goes ==
  /\ Calling /\ Handles(heap', truth')
  /\ UNCHANGED <<pc, inside, skip_test, rc, overrun, runner, history>>

Leaves ==
  /\ Calling /\ inside' = "back" /\ rc' = -1
  /\ heap' = heap \/ \E a \in Unused(heap, Addresses) : heap' = Allocate(heap, a)
  /\ \/ skip_test' = TRUE /\ truth' = "skip"
     \/ skip_test' = skip_test /\ truth' \in {"bad", "misled"}
  /\ UNCHANGED <<pc, overrun, runner, history>>

LEMMA FailLeaves == Calling /\ fail => Leaves
BY DEF fail, exit_test, Leaves

LEMMA CheckMoves ==
  ASSUME Queues, Calling, NEW p \in Parameters, params[p] # <<>>, NEW v \in Values
  PROVE  LET c == Head(params[p]).what
         IN  Checked(c, v) = IF Odd(c, v) THEN "misled"
                             ELSE IF CheckPasses(c, v) THEN truth ELSE "bad"
<1>1. params[p] \in Seq(Entries(Queued, Counts, MaxCalls)) BY DEF Queues, Sound
<1>2. Head(params[p]) \in Entries(Queued, Counts, MaxCalls)
  BY <1>1, HeadTailProperties
<1>3. Head(params[p]).what \in Queued BY <1>2 DEF Entries
<1>4. QED BY <1>3, CmockaAssumption, CheckMeans DEF Checked

LEMMA ProgramMoves ==
  ASSUME Queues, Program
  PROVE  Goes \/ Leaves \/ Overrun \/ ReturnFromTest \/ ReturnFromFixture
<1>1. CASE Fail BY <1>1, FailLeaves DEF Fail
<1>2. CASE Skip BY <1>2 DEF Skip, exit_test, Leaves
<1>3. CASE AssertThat
  <2>1. Calling BY <1>3 DEF AssertThat
  <2>2. PICK c \in Checks, v \in Values :
          IF AssertHolds(c, v)
          THEN Continue(queued, heap, Checked(c, v))
          ELSE exit_test(heap, Checked(c, v)) /\ UNCHANGED skip_test
    BY <1>3 DEF AssertThat
  <2>3. Checked(c, v) = IF Odd(c, v) THEN "misled"
                        ELSE IF AssertHolds(c, v) THEN truth ELSE "bad"
    BY AssertMeans DEF Checked
  <2>4. CASE AssertHolds(c, v)
    <3>1. Continue(queued, heap, truth) \/ Continue(queued, heap, "misled")
      BY <2>2, <2>3, <2>4
    <3>2. QED BY <2>1, <3>1 DEF Continue, Goes, Handles
  <2>5. CASE ~ AssertHolds(c, v)
    <3>1. /\ exit_test(heap, "bad") \/ exit_test(heap, "misled")
          /\ UNCHANGED skip_test
      BY <2>2, <2>3, <2>5
    <3>2. QED BY <2>1, <3>1 DEF exit_test, Leaves
  <2>6. QED BY <2>4, <2>5
<1>4. CASE WillReturn BY <1>4, FailLeaves DEF WillReturn, Continue, Goes, Handles
<1>5. CASE Mock BY <1>5, FailLeaves DEF Mock, Continue, Goes, Handles
<1>6. CASE ExpectCheck BY <1>6, FailLeaves DEF ExpectCheck, Continue, Goes, Handles
<1>7. CASE CheckExpected
  <2>1. Calling BY <1>7 DEF CheckExpected
  <2>2. PICK p \in Parameters, v \in Values :
          IF ~ Found(params, p) THEN fail
          ELSE LET c == Head(params[p]).what
               IN  IF CheckPasses(c, v)
                   THEN Continue([queued EXCEPT !.params = get_symbol_value(@, p)], heap,
                                 Checked(c, v))
                   ELSE exit_test(heap, Checked(c, v)) /\ UNCHANGED skip_test
    BY <1>7 DEF CheckExpected
  <2>3. CASE ~ Found(params, p) BY <2>1, <2>2, <2>3, FailLeaves
  <2>4. CASE Found(params, p)
    <3> DEFINE c == Head(params[p]).what
    <3>1. Checked(c, v) = IF Odd(c, v) THEN "misled"
                          ELSE IF CheckPasses(c, v) THEN truth ELSE "bad"
      BY <2>1, <2>4, CheckMoves DEF Found
    <3>2. CASE CheckPasses(c, v)
      <4>1. \E t \in {truth, "misled"} :
              Continue([queued EXCEPT !.params = get_symbol_value(@, p)], heap, t)
        BY <2>2, <2>4, <3>1, <3>2
      <4>2. QED BY <2>1, <4>1 DEF Continue, Goes, Handles
    <3>3. CASE ~ CheckPasses(c, v)
      <4>1. /\ exit_test(heap, "bad") \/ exit_test(heap, "misled")
            /\ UNCHANGED skip_test
        BY <2>2, <2>4, <3>1, <3>3
      <4>2. QED BY <2>1, <4>1 DEF exit_test, Leaves
    <3>4. QED BY <3>2, <3>3
  <2>5. QED BY <2>3, <2>4
<1>8. CASE ExpectFunctionCall
  BY <1>8, FailLeaves DEF ExpectFunctionCall, Continue, Goes, Handles
<1>9. CASE FunctionCalled BY <1>9, FailLeaves DEF FunctionCalled, Continue, Goes, Handles
<1>10. CASE Malloc BY <1>10, FailLeaves DEF Malloc, Continue, Goes, Handles
<1>11. CASE Free BY <1>11, FailLeaves DEF Free, Continue, Goes, Handles
<1>12. CASE Realloc
  <2>1. Calling BY <1>12 DEF Realloc
  <2>2. PICK i \in DOMAIN heap :
          IF Unused(heap, Addresses) = {} THEN fail
          ELSE \E a \in Unused(heap, Addresses) :
                 IF heap[i].intact
                 THEN Continue(queued, RemoveAt(Allocate(heap, a), i), Losing(i))
                 ELSE exit_test(Allocate(heap, a), "bad") /\ UNCHANGED skip_test
    BY <1>12 DEF Realloc
  <2>3. CASE Unused(heap, Addresses) = {} BY <2>1, <2>2, <2>3, FailLeaves
  <2>4. CASE Unused(heap, Addresses) # {}
    <3>1. PICK a \in Unused(heap, Addresses) :
            IF heap[i].intact
            THEN Continue(queued, RemoveAt(Allocate(heap, a), i), Losing(i))
            ELSE exit_test(Allocate(heap, a), "bad") /\ UNCHANGED skip_test
      BY <2>2, <2>4
    <3>2. CASE heap[i].intact BY <2>1, <3>1, <3>2 DEF Continue, Goes, Handles
    <3>3. CASE ~ heap[i].intact BY <2>1, <3>1, <3>3 DEF exit_test, Leaves
    <3>4. QED BY <3>2, <3>3
  <2>5. QED BY <2>3, <2>4
<1>13. QED BY <1>1, <1>2, <1>3, <1>4, <1>5, <1>6, <1>7, <1>8, <1>9, <1>10, <1>11, <1>12
         DEF Program

-----------------------------------------------------------------------------
(* The queues.                                                             *)

LEMMA Emptied == ASSUME teardown_testing PROVE Queues'
<1>1. \A What : <<>> \in Sound(What, Used') BY NoneSound
<1>2. Ordered(<<>>) BY NoneSound
<1>3. QED BY <1>1, <1>2 DEF teardown_testing, Queues, NoResults, NoParams

\* One call later every queue that was left alone is sound still.
LEMMA QueuesLater ==
  ASSUME Queues, budget \in 0 .. MaxCalls, Calling
  PROVE  /\ Used \in Nat /\ Used' = Used + 1 /\ Used < MaxCalls
         /\ results \in [Functions -> Sound({None}, Used')]
         /\ params \in [Parameters -> Sound(Queued, Used')]
         /\ calls \in Sound(Functions, Used')
<1>1. Used \in Nat /\ Used' = Used + 1 /\ Used < MaxCalls
  BY CmockaAssumption DEF Calling, Used
<1>2. ASSUME NEW What, NEW q \in Sound(What, Used) PROVE q \in Sound(What, Used')
  <2>1. Used' \in Nat /\ Used <= Used' BY <1>1
  <2>2. QED BY <1>1, <2>1, SoundGrows
<1>3. QED BY <1>1, <1>2 DEF Queues

LEMMA QueuesKept ==
  ASSUME Queues, budget \in 0 .. MaxCalls, [Next]_vars
  PROVE  Queues'
<1> DEFINE Same == UNCHANGED <<results, params, calls>>
<1>0. ASSUME Calling
      PROVE  /\ Used \in Nat /\ Used' = Used + 1 /\ Used < MaxCalls
             /\ results \in [Functions -> Sound({None}, Used')]
             /\ params \in [Parameters -> Sound(Queued, Used')]
             /\ calls \in Sound(Functions, Used')
  BY <1>0, QueuesLater
<1>1. ASSUME Calling, Same PROVE Queues'
  BY <1>0, <1>1 DEF Queues
<1>2. ASSUME UNCHANGED budget, Same PROVE Queues'
  BY <1>2 DEF Queues, Used
<1>3. ASSUME Calling, fail PROVE Queues'
  BY <1>3, Emptied DEF fail, exit_test
<1>4. CASE Call BY <1>4, Emptied DEF Call, teardown_testing
<1>5. CASE Fail BY <1>3, <1>5 DEF Fail
<1>6. CASE Skip BY <1>6, Emptied DEF Skip, exit_test
<1>7. CASE AssertThat
  <2>1. Calling /\ (Same \/ teardown_testing)
    BY <1>7 DEF AssertThat, Continue, exit_test, queued
  <2>2. QED BY <1>1, <2>1, Emptied
<1>8. CASE WillReturn
  <2>1. PICK f \in Functions, n \in Counts :
          IF n = 0 THEN fail
          ELSE Continue([queued EXCEPT !.results = add_symbol_value(@, f, None, n)], heap, truth)
    BY <1>8 DEF WillReturn
  <2>2. Calling BY <1>8 DEF WillReturn
  <2>3. CASE n = 0 BY <1>3, <2>1, <2>2, <2>3
  <2>4. CASE n # 0
    <3>1. /\ results' = [results EXCEPT ![f] = list_add_value(@, None, n)]
          /\ params' = params /\ calls' = calls
      BY <2>1, <2>4 DEF Continue, queued, add_symbol_value
    <3>2. list_add_value(results[f], None, n) \in Sound({None}, Used')
      <4>1. results[f] \in Sound({None}, Used') /\ None \in {None} /\ Used' \in Nat
        BY <1>0, <2>2
      <4>2. QED BY <4>1, Added
    <3>3. QED BY <1>0, <2>2, <3>1, <3>2 DEF Queues
  <2>5. QED BY <2>3, <2>4
<1>9. CASE Mock
  <2>1. PICK f \in Functions : IF ~ Found(results, f) THEN fail
          ELSE Continue([queued EXCEPT !.results = get_symbol_value(@, f)], heap, truth)
    BY <1>9 DEF Mock
  <2>2. Calling BY <1>9 DEF Mock
  <2>3. CASE ~ Found(results, f) BY <1>3, <2>1, <2>2, <2>3
  <2>4. CASE Found(results, f)
    <3>1. /\ results' = [results EXCEPT ![f] = UseAt(@, 1)]
          /\ params' = params /\ calls' = calls
      BY <2>1, <2>4 DEF Continue, queued, get_symbol_value
    <3>2. results[f] \in Sound({None}, Used) BY DEF Queues
    <3>3. 1 \in 1 .. Len(results[f])
      <4>1. results[f] \in Seq(Entries({None}, Counts, MaxCalls)) BY <3>2 DEF Sound
      <4>2. Len(results[f]) \in Nat \ {0} BY <2>4, <4>1, EmptySeq DEF Found
      <4>3. QED BY <4>2
    <3>4. UseAt(results[f], 1) \in Sound({None}, Used + 1)
      <4>1. results[f][1].count # 0 BY <2>4 DEF Found
      <4>2. QED BY <1>0, <2>2, <3>2, <3>3, <4>1, UsedSound
    <3>5. UseAt(results[f], 1) \in Sound({None}, Used') BY <1>0, <2>2, <3>4
    <3>6. QED BY <1>0, <2>2, <3>1, <3>5 DEF Queues
  <2>5. QED BY <2>3, <2>4
<1>10. CASE ExpectCheck
  <2>1. PICK p \in Parameters, c \in Queued, n \in Counts :
          IF Queueable(c)
          THEN Continue([queued EXCEPT !.params = add_symbol_value(@, p, c, n)], heap, truth)
          ELSE fail
    BY <1>10 DEF ExpectCheck
  <2>2. Calling BY <1>10 DEF ExpectCheck
  <2>3. CASE ~ Queueable(c) BY <1>3, <2>1, <2>2, <2>3
  <2>4. CASE Queueable(c)
    <3>1. /\ params' = [params EXCEPT ![p] = list_add_value(@, c, n)]
          /\ results' = results /\ calls' = calls
      BY <2>1, <2>4 DEF Continue, queued, add_symbol_value
    <3>2. list_add_value(params[p], c, n) \in Sound(Queued, Used')
      BY <1>0, <2>2, Added
    <3>3. QED BY <1>0, <2>2, <3>1, <3>2 DEF Queues
  <2>5. QED BY <2>3, <2>4
<1>11. CASE CheckExpected
  <2>1. Calling BY <1>11 DEF CheckExpected
  <2>2. PICK p \in Parameters :
          \/ teardown_testing
          \/ /\ Found(params, p) /\ params' = [params EXCEPT ![p] = UseAt(@, 1)]
             /\ results' = results /\ calls' = calls
    BY <1>11 DEF CheckExpected, fail, exit_test, Continue, queued, get_symbol_value
  <2>3. CASE teardown_testing BY <2>3, Emptied
  <2>4. CASE ~ teardown_testing
    <3>1. /\ Found(params, p) /\ params' = [params EXCEPT ![p] = UseAt(@, 1)]
          /\ results' = results /\ calls' = calls
      BY <2>2, <2>4
    <3>2. params[p] \in Sound(Queued, Used) BY DEF Queues
    <3>3. 1 \in 1 .. Len(params[p])
      <4>1. params[p] \in Seq(Entries(Queued, Counts, MaxCalls)) BY <3>2 DEF Sound
      <4>2. Len(params[p]) \in Nat \ {0} BY <3>1, <4>1, EmptySeq DEF Found
      <4>3. QED BY <4>2
    <3>4. UseAt(params[p], 1) \in Sound(Queued, Used + 1)
      <4>1. params[p][1].count # 0 BY <3>1 DEF Found
      <4>2. QED BY <1>0, <2>1, <3>2, <3>3, <4>1, UsedSound
    <3>5. UseAt(params[p], 1) \in Sound(Queued, Used') BY <1>0, <2>1, <3>4
    <3>6. QED BY <1>0, <2>1, <3>1, <3>5 DEF Queues
  <2>5. QED BY <2>3, <2>4
<1>12. CASE ExpectFunctionCall
  <2>1. PICK f \in Functions, n \in Counts :
          IF n = 0 THEN fail
          ELSE Continue([queued EXCEPT !.calls = list_add_value(@, f, n)], heap, truth)
    BY <1>12 DEF ExpectFunctionCall
  <2>2. Calling BY <1>12 DEF ExpectFunctionCall
  <2>3. CASE n = 0 BY <1>3, <2>1, <2>2, <2>3
  <2>4. CASE n # 0
    <3>1. /\ calls' = list_add_value(calls, f, n)
          /\ results' = results /\ params' = params
      BY <2>1, <2>4 DEF Continue, queued
    <3>2. list_add_value(calls, f, n) \in Sound(Functions, Used')
          /\ Ordered(list_add_value(calls, f, n))
      BY <1>0, <2>2, <2>4, Added DEF Queues
    <3>3. QED BY <1>0, <2>2, <3>1, <3>2 DEF Queues
  <2>5. QED BY <2>3, <2>4
<1>13. CASE FunctionCalled
  <2>1. PICK f \in Functions :
          IF Serving(calls, f) = 0 THEN fail
          ELSE Continue([queued EXCEPT !.calls = UseAt(@, Serving(@, f))], heap, truth)
    BY <1>13 DEF FunctionCalled
  <2>2. Calling BY <1>13 DEF FunctionCalled
  <2>3. CASE Serving(calls, f) = 0 BY <1>3, <2>1, <2>2, <2>3
  <2>4. CASE Serving(calls, f) # 0
    <3>1. /\ calls' = UseAt(calls, Serving(calls, f))
          /\ results' = results /\ params' = params
      BY <2>1, <2>4 DEF Continue, queued
    <3>2. calls \in Sound(Functions, Used) /\ Ordered(calls) BY DEF Queues
    <3>3. /\ Serving(calls, f) \in 1 .. Len(calls)
          /\ \A i \in 1 .. Serving(calls, f) - 1 : calls[i].count = Maybe
      BY <2>4, <3>2, Served
    <3>4. PICK j \in 1 .. Len(calls) : j = Serving(calls, f) BY <3>3
    <3>5. UseAt(calls, j) \in Sound(Functions, Used + 1)
      <4>1. calls[j].count # 0 BY <3>2 DEF Ordered, NoZero
      <4>2. QED BY <1>0, <2>2, <3>2, <4>1, UsedSound
    <3>6. Ordered(UseAt(calls, j))
      BY <1>0, <2>2, <3>2, <3>3, <3>4, UsedOrdered
    <3>7. QED BY <1>0, <2>2, <3>1, <3>4, <3>5, <3>6 DEF Queues
  <2>5. QED BY <2>3, <2>4
<1>14. CASE Malloc
  <2>1. Calling /\ (Same \/ teardown_testing)
    BY <1>14 DEF Malloc, fail, Continue, exit_test, queued
  <2>2. QED BY <1>1, <2>1, Emptied
<1>15. CASE Free
  <2>1. Calling /\ (Same \/ teardown_testing)
    BY <1>15 DEF Free, fail, Continue, exit_test, queued
  <2>2. QED BY <1>1, <2>1, Emptied
<1>16. CASE Realloc
  <2>1. Calling /\ (Same \/ teardown_testing)
    BY <1>16 DEF Realloc, fail, Continue, exit_test, queued
  <2>2. QED BY <1>1, <2>1, Emptied
<1>17. CASE Overrun BY <1>1, <1>17 DEF Overrun
<1>18. CASE ReturnFromTest BY <1>18, Emptied DEF ReturnFromTest, Return
<1>19. CASE ReturnFromFixture BY <1>19, Emptied DEF ReturnFromFixture, Return
<1>20. CASE Runner
  BY <1>2, <1>20 DEF Runner, StartGroup, NoMemory, AfterGroupSetup, NextTest, AfterSetup,
       AfterTest, AfterTeardown, Record, AfterGroupTeardown, Finish, Quiet
<1>21. CASE UNCHANGED vars BY <1>2, <1>21 DEF vars, program
<1>22. QED
  BY <1>4, <1>5, <1>6, <1>7, <1>8, <1>9, <1>10, <1>11, <1>12, <1>13, <1>14, <1>15,
     <1>16, <1>17, <1>18, <1>19, <1>20, <1>21
  DEF Next, Program
-----------------------------------------------------------------------------
(* Types, and what is true of each step of the runner.                     *)

InTest == {"setup", "test", "teardown", "record"}
Recorded == total.passed + total.failed + total.errors + total.skipped

\* All of TypeOK but the heap and the queues.
Shape ==
  /\ pc \in Fixtures \cup {"start", "next", "test", "record", "finish", "over"}
  /\ inside \in {"call", "body", "back"}
  /\ budget \in 0 .. MaxCalls /\ round \in 0 .. NumGroups
  /\ group \in Groups /\ test \in 0 .. Len(group.tests)
  /\ points \in [group : {ListHead}, setup : Addresses \cup {ListHead, NoPoint},
                function : Addresses \cup {ListHead}]
  /\ skip_test \in BOOLEAN /\ rc \in {-1, 0, 1}
  /\ truth \in Truths /\ log \in Seq(Truths) /\ Len(log) = test
  /\ cm_tests \in Seq(Statuses) /\ Len(cm_tests) = test
  /\ overrun \in BOOLEAN /\ stale \in BOOLEAN
  /\ total \in [passed : Nat, failed : Nat, errors : Nat, skipped : Nat]
  /\ returned \in Int

\* A function of the program runs only where the runner waits for one, every
\* test is counted once, and a group whose setup failed starts none.
Stages ==
  /\ inside # "back" => pc \in Fixtures \cup {"test"}
  /\ pc \in InTest => test >= 1
  /\ pc = "teardown" => group.tests[test].teardown
  /\ pc \in InTest => Recorded <= test - 1
  /\ pc \in {"group_setup", "next"} => Recorded <= test
  /\ Recorded <= test + 1

\* The heap is sound, empty between two groups, and no corrupt block leaves it.
Blocked ==
  /\ heap \in Heaps
  /\ pc = "start" => heap = <<>>
  /\ overrun => Corrupt(heap)

\* The verdict of a test.  A function that runs has done nothing wrong yet; a
\* test that did nothing wrong owns what is behind its check point.
Final == {"passed", "skipped", "failed"}

Trusted ==
  /\ inside = "body" => truth \in {"good", "lost", "misled"}
  /\ inside = "body" /\ pc = "test" /\ truth = "good" => Mine(heap, points.function)
  /\ Back("test") => /\ truth # None
                     /\ (rc = 0 => truth \in {"good", "lost", "misled"})
                     /\ (truth = "good" => rc = 0)
  /\ pc = "setup" => log[test] = None
  /\ pc = "teardown" => cm_tests[test] \in Final
  /\ pc = "record" /\ rc = 0 => cm_tests[test] \in Final

\* A bad test is or will be counted as failed, unless the flag of a skip was
\* set by a fixture that was itself counted as an error.
Skipping ==
  skip_test /\ ~ stale =>
    \/ total.errors > 0
    \/ pc \in {"group_teardown", "finish", "start", "over"}
    \/ pc \in Fixtures \cup {"record"} /\ inside = "back" /\ rc # 0
    \/ Back("test") /\ truth = "skip"

Shown ==
  ~ stale => \A i \in DOMAIN log : log[i] = "bad" =>
    \/ total.failed + total.errors > 0
    \/ i = test /\ pc \in {"teardown", "record"} /\ cm_tests[test] \in {"failed", "error"}

Complete ==
  /\ pc \in {"group_teardown", "finish"} => total.errors > 0 \/ test = Len(group.tests)
  /\ pc = "start" /\ round > 0 /\ returned = 0 => Results = 0 /\ test = Len(group.tests)

Totals == [passed : Nat, failed : Nat, errors : Nat, skipped : Nat]

AllOf(t) == t.passed + t.failed + t.errors + t.skipped

LEMMA OneMore ==
  ASSUME NEW t \in Totals, NEW u,
         \/ u = [t EXCEPT !.errors = @ + 1]
         \/ u = [t EXCEPT !.passed = @ + 1]
         \/ u = [t EXCEPT !.skipped = @ + 1]
         \/ u = [t EXCEPT !.failed = @ + 1]
  PROVE  u \in Totals /\ AllOf(u) = AllOf(t) + 1
<1>1. /\ t.passed \in Nat /\ t.failed \in Nat /\ t.errors \in Nat /\ t.skipped \in Nat
      /\ t = [passed |-> t.passed, failed |-> t.failed, errors |-> t.errors,
              skipped |-> t.skipped]
  BY DEF Totals
<1>2. \/ u = [passed |-> t.passed, failed |-> t.failed, errors |-> t.errors + 1,
             skipped |-> t.skipped]
      \/ u = [passed |-> t.passed + 1, failed |-> t.failed, errors |-> t.errors,
             skipped |-> t.skipped]
      \/ u = [passed |-> t.passed, failed |-> t.failed, errors |-> t.errors,
             skipped |-> t.skipped + 1]
      \/ u = [passed |-> t.passed, failed |-> t.failed + 1, errors |-> t.errors,
             skipped |-> t.skipped]
  BY DEF Totals
<1>3. u \in Totals BY <1>1, <1>2 DEF Totals
<1>4. AllOf(u) = AllOf(t) + 1 BY <1>1, <1>2 DEF AllOf
<1>5. QED BY <1>3, <1>4

LEMMA TypeParts == Shape /\ Stages /\ Queues /\ heap \in Heaps => TypeOK
<1> SUFFICES ASSUME Shape, Stages, Queues, heap \in Heaps PROVE TypeOK
  OBVIOUS
<1>1. \A What, n : Sound(What, n) \subseteq Seq(Entries(What, Counts, MaxCalls))
  BY DEF Sound
<1>2. /\ results \in [Functions -> Seq(Entries({None}, Counts, MaxCalls))]
      /\ params \in [Parameters -> Seq(Entries(Queued, Counts, MaxCalls))]
      /\ calls \in Seq(Entries(Functions, Counts, MaxCalls))
  BY <1>1 DEF Queues
<1>3. heap \in Seq(Blocks(Addresses)) /\ \A i, j \in DOMAIN heap : heap[i].at = heap[j].at => i = j
  BY HeapIs
<1>4. QED BY <1>2, <1>3 DEF TypeOK, Shape, Stages, Recorded

LEMMA GroupIs ==
  ASSUME NEW g \in Groups
  PROVE  /\ g.setup \in BOOLEAN /\ g.teardown \in BOOLEAN /\ Len(g.tests) \in Nat
         /\ \A i \in 1 .. Len(g.tests) :
              g.tests[i].setup \in BOOLEAN /\ g.tests[i].teardown \in BOOLEAN
<1> DEFINE T == [setup : BOOLEAN, teardown : BOOLEAN]
<1>1. g \in [setup : BOOLEAN, teardown : BOOLEAN, tests : Seq(T)] BY CmockaAssumption
<1>2. g.tests \in Seq(T) BY <1>1
<1>3. \A i \in 1 .. Len(g.tests) : g.tests[i] \in T BY <1>2, ElementOfSeq
<1>4. QED BY <1>1, <1>2, <1>3, LenProperties

\* What the program can change.
LEMMA ProgramFrame ==
  ASSUME Queues, Shape, Program
  PROVE  /\ UNCHANGED <<pc, runner, history>>
         /\ inside = "body" /\ inside' \in {"body", "back"}
         /\ budget' \in 0 .. MaxCalls /\ rc' \in {-1, 0, 1}
         /\ truth' \in Truths /\ skip_test' \in BOOLEAN /\ overrun' \in BOOLEAN
<1>0. Calling => budget' \in 0 .. MaxCalls
  <2>1. budget \in 0 .. MaxCalls /\ MaxCalls \in Nat BY CmockaAssumption DEF Shape
  <2>2. QED BY <2>1 DEF Calling
<1>1. CASE Goes
  <2>1. truth' \in Truths BY <1>1 DEF Goes, Handles, Losing, Shape, Truths
  <2>2. QED BY <1>0, <1>1, <2>1 DEF Goes, Calling, Shape
<1>2. CASE Leaves
  BY <1>0, <1>2 DEF Leaves, Calling, Shape, Truths
<1>3. CASE Overrun
  BY <1>0, <1>3 DEF Overrun, Calling, Shape
<1>4. CASE ReturnFromTest
  BY <1>4 DEF ReturnFromTest, Return, Shape, Truths
<1>5. CASE ReturnFromFixture
  <2>1. PICK r \in {0, 1} : Return(r) BY <1>5 DEF ReturnFromFixture
  <2>2. QED BY <2>1 DEF Return, Shape, Truths
<1>6. QED BY <1>1, <1>2, <1>3, <1>4, <1>5, ProgramMoves

LEMMA ShapeKept ==
  ASSUME Queues, Blocked, Shape, Stages, Trusted, [Next]_vars
  PROVE  Shape' /\ Stages'
<1>0. heap \in Heaps BY DEF Blocked
<1>1. CASE Program
  <2>1. /\ UNCHANGED <<pc, runner, history>>
        /\ inside = "body" /\ inside' \in {"body", "back"}
        /\ budget' \in 0 .. MaxCalls /\ rc' \in {-1, 0, 1}
        /\ truth' \in Truths /\ skip_test' \in BOOLEAN /\ overrun' \in BOOLEAN
    BY <1>1, ProgramFrame
  <2>2. QED BY <2>1 DEF Shape, Stages, Recorded, runner, history
<1>2. CASE Call
  <2>1. FunctionPoint \in Addresses \cup {ListHead}
    BY <1>0, Disowning DEF FunctionPoint, Shape
  <2>2. points' \in [group : {ListHead}, setup : Addresses \cup {ListHead, NoPoint},
                     function : Addresses \cup {ListHead}]
    BY <1>2, <2>1 DEF Call, Shape
  <2>3. QED BY <1>2, <2>2 DEF Call, Shape, Stages, Recorded, Truths, history
<1>3. CASE UNCHANGED vars
  BY <1>3 DEF vars, program, runner, history, Shape, Stages, Recorded
<1>4. CASE StartGroup
  <2>1. CheckPoint(heap) = ListHead BY <1>4 DEF StartGroup, Blocked, CheckPoint
  <2>2. points' \in [group : {ListHead}, setup : Addresses \cup {ListHead, NoPoint},
                     function : Addresses \cup {ListHead}]
    BY <1>4, <2>1 DEF StartGroup, Shape
  <2>3. Len(group'.tests) \in Nat /\ group' \in Groups BY <1>4, GroupIs DEF StartGroup
  <2>4. round' \in 0 .. NumGroups BY <1>4, CmockaAssumption DEF StartGroup, Shape
  <2>5. /\ cm_tests' = <<>> /\ log' = <<>> /\ Len(<<>>) = 0
        /\ <<>> \in Seq(Statuses) /\ <<>> \in Seq(Truths)
    BY <1>4, EmptySeq DEF StartGroup
  <2>6. total' = Nothing /\ test' = 0 BY <1>4 DEF StartGroup
  <2>7. /\ total' \in [passed : Nat, failed : Nat, errors : Nat, skipped : Nat]
        /\ Recorded' = 0 /\ test' \in 0 .. Len(group'.tests)
    BY <2>3, <2>6 DEF Nothing, Recorded
  <2>8. /\ pc' \in {"group_setup", "next"} /\ inside' \in {"call", "back"}
        /\ inside' # "back" => pc' = "group_setup"
    BY <1>4 DEF StartGroup, ThenCall, ThenStep
  <2>9. /\ rc' = 0 /\ stale' = skip_test
        /\ UNCHANGED <<skip_test, returned, budget, truth, overrun>>
    BY <1>4 DEF StartGroup, Quiet
  <2>10. Shape' BY <2>2, <2>3, <2>4, <2>5, <2>6, <2>7, <2>8, <2>9 DEF Shape, Fixtures
  <2>11. Stages' BY <2>6, <2>7, <2>8 DEF Stages, Fixtures, InTest
  <2>12. QED BY <2>10, <2>11
<1>5. CASE NoMemory
  <2>1. round' \in 0 .. NumGroups BY <1>5, CmockaAssumption DEF NoMemory, Shape
  <2>2. QED BY <1>5, <2>1 DEF NoMemory, Quiet, Shape, Stages, Recorded
<1>6. CASE AfterGroupSetup
  <2>1. /\ pc = "group_setup" /\ UNCHANGED <<group, test>>
        /\ Recorded <= test /\ test \in Nat
    BY <1>6, GroupIs DEF AfterGroupSetup, Back, Stages, Shape
  <2>2. /\ total' \in [passed : Nat, failed : Nat, errors : Nat, skipped : Nat]
        /\ \/ Recorded' = Recorded /\ pc' = "next" /\ inside' = "back"
           \/ /\ Recorded' = Recorded + 1
              /\ \/ pc' = "group_teardown" /\ inside' = "call"
                 \/ pc' = "finish" /\ inside' = "back"
    <3>1. \/ UNCHANGED total /\ pc' = "next" /\ inside' = "back"
          \/ /\ total' = [total EXCEPT !.errors = @ + 1]
             /\ \/ pc' = "group_teardown" /\ inside' = "call"
                \/ pc' = "finish" /\ inside' = "back"
      BY <1>6 DEF AfterGroupSetup, ThenStep, ThenTeardown, ThenCall
    <3>2. total \in Totals BY DEF Shape, Totals
    <3>3. total' = [total EXCEPT !.errors = @ + 1] =>
            total' \in Totals /\ AllOf(total') = AllOf(total) + 1
      BY <3>2, OneMore
    <3>4. QED BY <3>1, <3>2, <3>3 DEF Totals, AllOf, Recorded
  <2>3. Recorded \in Int BY DEF Recorded, Shape
  <2>4. Shape' BY <1>6, <2>2 DEF AfterGroupSetup, Quiet, Shape, history, Fixtures
  <2>5. Stages' BY <2>1, <2>2, <2>3 DEF Stages, Fixtures, InTest
  <2>6. QED BY <2>4, <2>5
<1>7. CASE NextTest
  <2>0. /\ Recorded \in Int /\ Recorded' = Recorded /\ test \in Nat /\ Recorded <= test
        /\ Len(group.tests) \in Nat /\ test <= Len(group.tests)
    BY <1>7, GroupIs DEF NextTest, Shape, Recorded, Stages
  <2>1. CASE test = Len(group.tests)
    <3>1. /\ UNCHANGED <<test, cm_tests, points, log, group>>
          /\ \/ pc' = "group_teardown" /\ inside' = "call"
             \/ pc' = "finish" /\ inside' = "back"
      BY <1>7, <2>1 DEF NextTest, ThenTeardown, ThenCall, ThenStep
    <3>2. Shape' BY <1>7, <3>1 DEF NextTest, Quiet, Shape, Fixtures
    <3>3. Stages' BY <2>0, <3>1 DEF Stages, Fixtures, InTest
    <3>4. QED BY <3>2, <3>3
  <2>2. CASE test # Len(group.tests)
    <3>1. /\ test' = test + 1 /\ UNCHANGED group
          /\ cm_tests' = Append(cm_tests, "not_started")
          /\ log' = Append(log, None)
          /\ pc' \in {"setup", "test"} /\ inside' = "call"
      BY <1>7, <2>2 DEF NextTest, ThenCall
    <3>2. test' \in 0 .. Len(group'.tests) BY <2>0, <2>2, <3>1
    <3>3. cm_tests' \in Seq(Statuses) /\ Len(cm_tests') = test'
      BY <3>1, AppendProperties DEF Shape, Statuses
    <3>4. log' \in Seq(Truths) /\ Len(log') = test'
      BY <3>1, AppendProperties DEF Shape, Truths
    <3>5. points' \in [group : {ListHead}, setup : Addresses \cup {ListHead, NoPoint},
                       function : Addresses \cup {ListHead}]
      BY <1>0, <1>7, <2>2, Disowning DEF NextTest, Shape
    <3>6. Shape'
      BY <1>7, <3>1, <3>2, <3>3, <3>4, <3>5 DEF NextTest, Quiet, Shape, Fixtures
    <3>7. Stages' BY <2>0, <3>1 DEF Stages, Fixtures, InTest
    <3>8. QED BY <3>6, <3>7
  <2>3. QED BY <2>1, <2>2
<1>8. CASE AfterSetup
  <2>1. /\ pc = "setup" /\ UNCHANGED <<group, test, total>>
        /\ \/ pc' = "test" /\ inside' = "call" /\ cm_tests' = cm_tests
           \/ /\ pc' = "record" /\ inside' = "back"
              /\ cm_tests' = [cm_tests EXCEPT ![test] = "error"]
    BY <1>8 DEF AfterSetup, Back, ThenCall, ThenStep
  <2>2. test \in 1 .. Len(cm_tests) /\ Recorded <= test - 1 /\ test \in Nat /\ Recorded \in Int
    BY <2>1, GroupIs DEF Stages, InTest, Shape, Recorded
  <2>3. cm_tests' \in Seq(Statuses) /\ Len(cm_tests') = Len(cm_tests)
    <3>1. "error" \in Statuses /\ cm_tests \in Seq(Statuses) BY DEF Statuses, Shape
    <3>2. QED BY <2>1, <2>2, <3>1, ExceptSeq
  <2>4. Shape' BY <1>8, <2>1, <2>3 DEF AfterSetup, Quiet, Shape, history
  <2>5. Recorded' = Recorded BY <2>1 DEF Recorded
  <2>6. Stages' BY <2>1, <2>2, <2>5 DEF Stages, Fixtures, InTest
  <2>7. QED BY <2>4, <2>6
<1>9. CASE AfterTest
  <2>1. /\ pc = "test" /\ UNCHANGED <<group, test, total>>
        /\ cm_tests' = [cm_tests EXCEPT ![test] = Verdict]
        /\ log' = [log EXCEPT ![test] = truth]
        /\ \/ pc' = "teardown" /\ inside' = "call" /\ group.tests[test].teardown
           \/ pc' = "record" /\ inside' = "back"
    BY <1>9 DEF AfterTest, Back, ThenCall, ThenStep
  <2>2. test \in 1 .. Len(cm_tests) /\ Recorded <= test - 1 /\ test \in Nat /\ Recorded \in Int
        /\ Len(log) = Len(cm_tests)
    BY <2>1, GroupIs DEF Stages, InTest, Shape, Recorded
  <2>3. cm_tests' \in Seq(Statuses) /\ Len(cm_tests') = Len(cm_tests)
    <3>1. Verdict \in Statuses /\ cm_tests \in Seq(Statuses) BY DEF Verdict, Statuses, Shape
    <3>2. QED BY <2>1, <2>2, <3>1, ExceptSeq
  <2>4. log' \in Seq(Truths) /\ Len(log') = Len(log)
    <3>1. truth \in Truths /\ log \in Seq(Truths) BY DEF Shape
    <3>2. QED BY <2>1, <2>2, <3>1, ExceptSeq
  <2>5. skip_test' \in BOOLEAN BY <1>9 DEF AfterTest, Shape
  <2>6. Shape' BY <1>9, <2>1, <2>3, <2>4, <2>5 DEF AfterTest, Quiet, Shape, Fixtures
  <2>7. Recorded' = Recorded BY <2>1 DEF Recorded
  <2>8. Stages' BY <2>1, <2>2, <2>7 DEF Stages, Fixtures, InTest
  <2>9. QED BY <2>6, <2>8
<1>10. CASE AfterTeardown
  <2>1. /\ pc = "teardown" /\ UNCHANGED <<group, test, total>>
        /\ pc' = "record" /\ inside' = "back"
        /\ cm_tests' = cm_tests \/ cm_tests' = [cm_tests EXCEPT ![test] = "error"]
    BY <1>10 DEF AfterTeardown, Back, ThenStep
  <2>2. test \in 1 .. Len(cm_tests) /\ Recorded <= test - 1 /\ test \in Nat /\ Recorded \in Int
    BY <2>1, GroupIs DEF Stages, InTest, Shape, Recorded
  <2>3. cm_tests' \in Seq(Statuses) /\ Len(cm_tests') = Len(cm_tests)
    <3>1. "error" \in Statuses /\ cm_tests \in Seq(Statuses) BY DEF Statuses, Shape
    <3>2. QED BY <2>1, <2>2, <3>1, ExceptSeq
  <2>4. Shape' BY <1>10, <2>1, <2>3 DEF AfterTeardown, Quiet, Shape, history
  <2>5. Recorded' = Recorded BY <2>1 DEF Recorded
  <2>6. Stages' BY <2>1, <2>2, <2>5 DEF Stages, Fixtures, InTest
  <2>7. QED BY <2>4, <2>6
<1>11. CASE Record
  <2>1. /\ pc = "record" /\ UNCHANGED <<group, test, cm_tests, log>>
        /\ pc' = "next" /\ inside' = "back"
    BY <1>11 DEF Record, ThenStep
  <2>2. Recorded <= test - 1 /\ test \in Nat /\ Recorded \in Int
    BY <2>1, GroupIs DEF Stages, InTest, Shape, Recorded
  <2>3. \/ total' = [total EXCEPT !.errors = @ + 1]
        \/ total' = [total EXCEPT !.passed = @ + 1]
        \/ total' = [total EXCEPT !.skipped = @ + 1]
        \/ total' = [total EXCEPT !.failed = @ + 1]
    BY <1>11, <2>1 DEF Record, Trusted, Final
  <2>4. /\ total' \in [passed : Nat, failed : Nat, errors : Nat, skipped : Nat]
        /\ Recorded' = Recorded + 1
    <3>1. total \in Totals BY DEF Shape, Totals
    <3>2. total' \in Totals /\ AllOf(total') = AllOf(total) + 1 BY <2>3, <3>1, OneMore
    <3>3. QED BY <3>2 DEF Totals, AllOf, Recorded
  <2>5. Shape' BY <1>11, <2>1, <2>4 DEF Record, Quiet, Shape
  <2>6. Stages' BY <2>1, <2>2, <2>4 DEF Stages, Fixtures, InTest
  <2>7. QED BY <2>5, <2>6
<1>12. CASE AfterGroupTeardown
  <2>1. /\ pc' = "finish" /\ inside' = "back" /\ UNCHANGED <<group, test, total>>
    BY <1>12 DEF AfterGroupTeardown, ThenStep
  <2>2. Shape' BY <1>12, <2>1 DEF AfterGroupTeardown, Quiet, Shape, history
  <2>3. Stages' BY <2>1 DEF Stages, Recorded, Fixtures, InTest
  <2>4. QED BY <2>2, <2>3
<1>13. CASE Finish
  <2>1. /\ pc' \in {"over", "start"} /\ inside' = "back" /\ UNCHANGED <<group, test, total>>
        /\ returned' \in Int
    BY <1>13 DEF Finish, ThenStep, Results, Shape
  <2>2. Shape' BY <1>13, <2>1 DEF Finish, Shape, history
  <2>3. Stages' BY <2>1 DEF Stages, Recorded, Fixtures, InTest
  <2>4. QED BY <2>2, <2>3
<1>14. QED
  BY <1>1, <1>2, <1>3, <1>4, <1>5, <1>6, <1>7, <1>8, <1>9, <1>10, <1>11, <1>12, <1>13
  DEF Next, Runner
-----------------------------------------------------------------------------
(* The heap.                                                               *)

\* What the program can do to the heap.
LEMMA HandlesHeap ==
  ASSUME heap \in Heaps, NEW h, NEW t, Handles(h, t)
  PROVE  /\ h \in Heaps /\ (Corrupt(heap) => Corrupt(h))
         /\ t = truth \/ t \in {"lost", "misled"}
         /\ t # "lost" /\ Mine(heap, points.function) => Mine(h, points.function)
<1>1. DOMAIN heap = 1 .. Len(heap) /\ Len(heap) \in Nat BY HeapIs
<1>2. CASE h = heap /\ t \in {truth, "misled"} BY <1>2
<1>3. ASSUME NEW a \in Unused(heap, Addresses), h = Allocate(heap, a), t = truth
      PROVE  /\ h \in Heaps /\ (Corrupt(heap) => Corrupt(h))
             /\ Mine(heap, points.function) => Mine(h, points.function)
  BY <1>3, Allocated
<1>4. ASSUME NEW i \in 1 .. Len(heap), heap[i].intact, t = Losing(i), h = RemoveAt(heap, i)
      PROVE  /\ h \in Heaps /\ (Corrupt(heap) => Corrupt(h))
             /\ t # "lost" /\ Mine(heap, points.function) => Mine(h, points.function)
  <2>1. t # "lost" => heap[i].at # points.function BY <1>4 DEF Losing
  <2>2. QED BY <1>4, <2>1, Freed
<1>5. ASSUME NEW i \in 1 .. Len(heap), heap[i].intact, t = Losing(i),
             NEW a \in Unused(heap, Addresses), h = RemoveAt(Allocate(heap, a), i)
      PROVE  /\ h \in Heaps /\ (Corrupt(heap) => Corrupt(h))
             /\ t # "lost" /\ Mine(heap, points.function) => Mine(h, points.function)
  <2>1. PICK g : g = Allocate(heap, a) OBVIOUS
  <2>2. /\ g \in Heaps /\ Len(g) = Len(heap) + 1 /\ g[i] = heap[i]
        /\ Corrupt(heap) => Corrupt(g)
        /\ Mine(heap, points.function) => Mine(g, points.function)
    BY <2>1, Allocated
  <2>3. i \in 1 .. Len(g) /\ g[i].intact /\ h = RemoveAt(g, i) BY <1>1, <1>5, <2>1, <2>2
  <2>4. t # "lost" => g[i].at # points.function BY <1>5, <2>2 DEF Losing
  <2>5. QED BY <2>2, <2>3, <2>4, Freed
<1>6. t = truth \/ t \in {"lost", "misled"} BY DEF Handles, Losing
<1>7. QED BY <1>1, <1>2, <1>3, <1>4, <1>5, <1>6 DEF Handles

LEMMA BlockedKept ==
  ASSUME Queues, Shape, Stages, Blocked, [Next]_vars
  PROVE  Blocked'
<1>0. heap \in Heaps /\ (pc = "start" => heap = <<>>) /\ (overrun => Corrupt(heap))
  BY DEF Blocked
<1>1. CASE Program
  <2>1. pc' = pc /\ pc # "start"
    BY <1>1, ProgramFrame DEF Stages, Fixtures
  <2>2. heap' \in Heaps /\ (overrun' => Corrupt(heap'))
    <3>1. CASE Goes
      <4>1. Handles(heap', truth') /\ overrun' = overrun BY <3>1 DEF Goes
      <4>2. QED BY <1>0, <4>1, HandlesHeap
    <3>2. CASE Leaves
      <4>1. /\ overrun' = overrun
            /\ heap' = heap \/ \E a \in Unused(heap, Addresses) : heap' = Allocate(heap, a)
        BY <3>2 DEF Leaves
      <4>2. QED BY <1>0, <4>1, Allocated
    <3>3. CASE Overrun
      <4>1. PICK i \in DOMAIN heap : heap' = [heap EXCEPT ![i].intact = FALSE]
        BY <3>3 DEF Overrun
      <4>2. i \in 1 .. Len(heap) BY <1>0, HeapIs
      <4>3. QED BY <1>0, <4>1, <4>2, CorruptHeap
    <3>4. CASE ReturnFromTest \/ ReturnFromFixture
      <4>1. PICK r : Return(r) BY <3>4 DEF ReturnFromTest, ReturnFromFixture
      <4>2. /\ heap' = heap \/ heap' = FreeBehind(heap, points.function)
            /\ overrun' = overrun
        BY <4>1 DEF Return
      <4>3. QED BY <1>0, <4>2, FreedBehind
    <3>5. QED BY <1>1, <3>1, <3>2, <3>3, <3>4, ProgramMoves
  <2>3. QED BY <2>1, <2>2 DEF Blocked
<1>2. CASE Call
  <2>1. /\ pc' = pc /\ pc # "start" /\ heap' = Disowned(heap) /\ overrun' = overrun
    BY <1>2 DEF Call, Stages, Fixtures
  <2>2. QED BY <1>0, <2>1, Disowning DEF Blocked
<1>3. CASE NoMemory BY <1>3 DEF NoMemory, Quiet, Blocked
<1>4. CASE Finish
  <2>1. /\ heap' = FreeBehind(heap, points.group) /\ overrun' = overrun
        /\ points.group = ListHead
        /\ pc' = "start" => Behind(heap, points.group) = {}
    BY <1>4 DEF Finish, ThenStep, Shape
  <2>2. heap' \in Heaps /\ (overrun' => Corrupt(heap')) BY <1>0, <2>1, FreedBehind
  <2>3. ASSUME pc' = "start" PROVE heap' = <<>>
    <3>1. Behind(heap, ListHead) = {} BY <2>1, <2>3
    <3>2. Behind(heap, ListHead) = DOMAIN heap BY DEF Behind
    <3>3. heap \in Seq(Blocks(Addresses)) /\ DOMAIN heap = 1 .. Len(heap) /\ Len(heap) \in Nat
      BY <1>0, HeapIs
    <3>4. Len(heap) = 0 BY <3>1, <3>2, <3>3
    <3>5. heap = <<>> BY <3>3, <3>4, EmptySeq
    <3>6. heap' = heap BY <1>0, <2>1, <2>3, FreedBehind
    <3>7. QED BY <3>5, <3>6
  <2>4. QED BY <2>2, <2>3 DEF Blocked
<1>5. ASSUME UNCHANGED <<heap, overrun>>, pc' # "start" PROVE Blocked'
  BY <1>0, <1>5 DEF Blocked
<1>6. CASE Runner /\ ~ NoMemory /\ ~ Finish
  <2>1. UNCHANGED <<heap, overrun>> /\ pc' # "start"
    BY <1>6 DEF Runner, StartGroup, AfterGroupSetup, NextTest, AfterSetup,
       AfterTest, AfterTeardown, Record, AfterGroupTeardown, Quiet, ThenCall, ThenStep, ThenTeardown
  <2>2. QED BY <1>5, <2>1
<1>7. CASE UNCHANGED vars BY <1>0, <1>7 DEF vars, program, Blocked
<1>8. QED BY <1>1, <1>2, <1>3, <1>4, <1>6, <1>7 DEF Next

-----------------------------------------------------------------------------
(* Verdicts.                                                               *)

\* When a test returns, what it owns is what is charged to it, and its queues
\* are met exactly if nothing is left over.
LEMMA TestReturns ==
  ASSUME Queues, Shape, heap \in Heaps, Trusted, ReturnFromTest
  PROVE  /\ pc' = "test" /\ inside' = "back"
         /\ truth' \in {"good", "bad", "lost", "misled", "unfair"}
         /\ rc' = 0 => truth' \notin {"bad", "unfair"}
         /\ truth' = "good" => rc' = 0
<1> DEFINE kept == \/ \E i \in DOMAIN heap : heap[i].mine
                   \/ ~ \A f \in Functions : Met(results[f])
                   \/ ~ \A p \in Parameters : Met(params[p])
                   \/ ~ Met(calls)
           fair == /\ \A f \in Functions : Reachable(results[f])
                   /\ \A p \in Parameters : Reachable(params[p])
           charge == \/ fail_if_blocks_allocated(heap, points.function)
                     \/ fail_if_leftover_values(results, params, calls)
<1>1. /\ pc = "test" /\ inside = "body" /\ pc' = "test" /\ inside' = "back"
      /\ rc' = IF charge THEN -1 ELSE 0
      /\ truth' = IF truth = "good" /\ kept THEN "bad"
                  ELSE IF truth = "good" /\ ~ fair THEN "unfair" ELSE truth
  BY DEF ReturnFromTest, Return
<1>2. truth \in {"good", "lost", "misled"} BY <1>1 DEF Trusted
<1>3. ASSUME truth = "good"
      PROVE  fail_if_blocks_allocated(heap, points.function) <=> \E i \in DOMAIN heap : heap[i].mine
  <2>1. Mine(heap, points.function) BY <1>1, <1>3 DEF Trusted
  <2>2. /\ ~ LostPoint(heap, points.function)
        /\ Behind(heap, points.function) = {i \in DOMAIN heap : heap[i].mine}
    BY <2>1, BehindIsMine
  <2>3. QED BY <2>2 DEF fail_if_blocks_allocated
<1>4. /\ DOMAIN results = Functions /\ DOMAIN params = Parameters
      /\ \A f \in Functions : results[f] \in Sound({None}, Used)
      /\ \A p \in Parameters : params[p] \in Sound(Queued, Used)
      /\ calls \in Sound(Functions, Used)
  BY DEF Queues
<1>5. \A f \in Functions :
        remove_always_return_values(results[f]) = <<>> <=> Met(results[f]) /\ Reachable(results[f])
  BY <1>4, NothingLeft
<1>6. \A p \in Parameters :
        remove_always_return_values(params[p]) = <<>> <=> Met(params[p]) /\ Reachable(params[p])
  BY <1>4, NothingLeft
<1>7. check_for_leftover_values_list(calls) <=> ~ Met(calls)
  BY <1>4, NothingLeft DEF Queues, Ordered
<1>8. fail_if_leftover_values(results, params, calls) <=>
        \/ \E f \in Functions : remove_always_return_values(results[f]) # <<>>
        \/ \E p \in Parameters : remove_always_return_values(params[p]) # <<>>
        \/ ~ Met(calls)
  BY <1>4, <1>7 DEF fail_if_leftover_values, check_for_leftover_values
<1>9. truth = "good" /\ (kept \/ ~ fair) => charge BY <1>3, <1>5, <1>6, <1>8
<1>10. truth = "good" /\ ~ kept /\ fair => ~ charge BY <1>3, <1>5, <1>6, <1>8
<1> HIDE DEF kept, fair, charge
<1>11. QED BY <1>1, <1>2, <1>9, <1>10

LEMMA TrustedKept ==
  ASSUME Queues, Shape, Stages, Blocked, Trusted, [Next]_vars
  PROVE  Trusted'
<1>0. heap \in Heaps BY DEF Blocked
<1>1. CASE Goes
  <2>1. /\ Handles(heap', truth') /\ inside = "body"
        /\ UNCHANGED <<pc, inside, rc, points, log, test, cm_tests>>
    BY <1>1 DEF Goes, Calling, runner, history
  <2>2. truth \in {"good", "lost", "misled"} BY <2>1 DEF Trusted
  <2>3. truth' \in {"good", "lost", "misled"} BY <1>0, <2>1, <2>2, HandlesHeap
  <2>4. ASSUME pc = "test", truth' = "good" PROVE Mine(heap', points'.function)
    <3>1. truth = "good" BY <1>0, <2>1, <2>4, HandlesHeap
    <3>2. Mine(heap, points.function) BY <2>1, <2>4, <3>1 DEF Trusted
    <3>3. Mine(heap', points.function) BY <1>0, <2>1, <2>4, <3>2, HandlesHeap
    <3>4. QED BY <2>1, <3>3
  <2>5. QED BY <2>1, <2>3, <2>4 DEF Trusted, Back, Final
<1>2. CASE Leaves
  <2>1. /\ inside = "body" /\ inside' = "back" /\ rc' = -1
        /\ UNCHANGED <<pc, points, log, test, cm_tests>>
        /\ truth' \in {"skip", "bad", "misled"}
    BY <1>2 DEF Leaves, Calling, runner, history
  <2>2. pc \in Fixtures \cup {"test"} BY <2>1 DEF Stages
  <2>3. QED BY <2>1, <2>2 DEF Trusted, Back, Final, None, Fixtures
<1>3. CASE Overrun
  <2>1. /\ inside = "body" /\ UNCHANGED <<pc, inside, rc, points, log, test, cm_tests, truth>>
        /\ \E i \in DOMAIN heap : heap' = [heap EXCEPT ![i].intact = FALSE]
    BY <1>3 DEF Overrun, Calling, runner, history
  <2>2. PICK i \in 1 .. Len(heap) : heap' = [heap EXCEPT ![i].intact = FALSE]
    BY <1>0, <2>1, HeapIs
  <2>3. Mine(heap, points.function) => Mine(heap', points'.function)
    BY <1>0, <2>1, <2>2, CorruptHeap
  <2>4. QED BY <2>1, <2>3 DEF Trusted, Back, Final
<1>4. CASE ReturnFromTest
  <2>1. /\ pc' = "test" /\ inside' = "back"
        /\ truth' \in {"good", "bad", "lost", "misled", "unfair"}
        /\ rc' = 0 => truth' \notin {"bad", "unfair"}
        /\ truth' = "good" => rc' = 0
    BY <1>0, <1>4, TestReturns
  <2>2. QED BY <2>1 DEF Trusted, Back, Final, None
<1>5. CASE ReturnFromFixture
  <2>1. /\ pc \in Fixtures /\ inside = "body" /\ inside' = "back"
        /\ UNCHANGED <<pc, log, test, cm_tests>>
    BY <1>5 DEF ReturnFromFixture, Return, runner, history
  <2>2. QED BY <2>1 DEF Trusted, Back, Final, Fixtures
<1>6. CASE Call
  <2>1. /\ inside' = "body" /\ truth' = "good" /\ UNCHANGED <<pc, log, test, cm_tests>>
        /\ heap' = Disowned(heap) /\ points' = [points EXCEPT !.function = FunctionPoint]
    BY <1>6 DEF Call, history
  <2>2. ASSUME pc = "test" PROVE Mine(heap', points'.function)
    <3>1. FunctionPoint = CheckPoint(heap) BY <2>2 DEF FunctionPoint
    <3>2. points'.function = CheckPoint(heap) BY <2>1, <3>1 DEF Shape
    <3>3. QED BY <1>0, <2>1, <3>2, Disowning
  <2>3. pc' = "test" => Mine(heap, points.function)' BY <2>1, <2>2
  <2>4. /\ pc' = "setup" => log'[test'] = None
        /\ pc' = "teardown" => cm_tests'[test'] \in Final
    BY <2>1 DEF Trusted
  <2>5. pc' # "record" /\ inside' # "back"
    BY <1>6 DEF Call, Stages, Fixtures
  <2>6. QED BY <2>1, <2>3, <2>4, <2>5 DEF Trusted, Back, Final
<1>7. CASE UNCHANGED vars
  BY <1>7 DEF vars, program, runner, history, Trusted, Back, Final
<1>8. CASE StartGroup
  <2>1. pc' \in {"group_setup", "next"} /\ inside' \in {"call", "back"}
    BY <1>8 DEF StartGroup, ThenCall, ThenStep
  <2>2. QED BY <2>1 DEF Trusted, Back
<1>9. CASE NoMemory
  <2>1. pc' = "start" /\ pc = "start" /\ inside' = inside BY <1>9 DEF NoMemory
  <2>2. inside = "back" BY <2>1 DEF Stages, Shape, Fixtures
  <2>3. QED BY <2>1, <2>2 DEF Trusted, Back
<1>10. CASE AfterGroupSetup
  <2>1. pc' \in {"group_teardown", "next", "finish"} /\ inside' \in {"call", "back"}
    BY <1>10 DEF AfterGroupSetup, ThenCall, ThenStep, ThenTeardown
  <2>2. QED BY <2>1 DEF Trusted, Back
<1>11. CASE NextTest
  <2>1. CASE test = Len(group.tests)
    <3>1. pc' \in {"group_teardown", "finish"} /\ inside' \in {"call", "back"}
      BY <1>11, <2>1 DEF NextTest, ThenCall, ThenStep, ThenTeardown
    <3>2. QED BY <3>1 DEF Trusted, Back
  <2>2. CASE test # Len(group.tests)
    <3>1. /\ pc' \in {"setup", "test"} /\ inside' = "call"
          /\ test' = test + 1 /\ log' = Append(log, None)
      BY <1>11, <2>2 DEF NextTest, ThenCall
    <3>2. log'[test'] = None
      <4>1. log \in Seq(Truths) /\ None \in Truths /\ Len(log) = test BY DEF Shape, Truths
      <4>2. QED BY <3>1, <4>1, AppendProperties
    <3>3. QED BY <3>1, <3>2 DEF Trusted, Back
  <2>3. QED BY <2>1, <2>2
<1>12. CASE AfterSetup
  <2>1. \/ pc' = "test" /\ inside' = "call"
        \/ pc' = "record" /\ inside' = "back" /\ rc' = rc /\ rc # 0
    BY <1>12 DEF AfterSetup, ThenCall, ThenStep
  <2>2. QED BY <2>1 DEF Trusted, Back
<1>13. CASE AfterTest
  <2>1. \/ pc' = "teardown" /\ inside' = "call"
        \/ pc' = "record" /\ inside' = "back"
    BY <1>13 DEF AfterTest, ThenCall, ThenStep, Back
  <2>2. cm_tests' = [cm_tests EXCEPT ![test] = Verdict] /\ test' = test /\ pc = "test"
    BY <1>13 DEF AfterTest, Back
  <2>3. test \in 1 .. Len(cm_tests) /\ cm_tests \in Seq(Statuses) /\ Verdict \in Statuses
    BY <2>2, GroupIs DEF Stages, InTest, Shape, Verdict, Statuses
  <2>4. cm_tests'[test'] = Verdict BY <2>2, <2>3, ExceptSeq
  <2>5. Verdict \in Final BY DEF Verdict, Final
  <2>6. QED BY <2>1, <2>4, <2>5 DEF Trusted, Back, Final
<1>14. CASE AfterTeardown
  <2>1. /\ pc = "teardown" /\ pc' = "record" /\ inside' = "back" /\ rc' = rc /\ test' = test
        /\ rc = 0 => cm_tests' = cm_tests
    BY <1>14 DEF AfterTeardown, ThenStep, Back
  <2>2. QED BY <2>1 DEF Trusted, Back, Final
<1>15. CASE Record \/ AfterGroupTeardown \/ Finish
  <2>1. pc' \in {"next", "finish", "over", "start"} /\ inside' = "back"
    BY <1>15 DEF Record, AfterGroupTeardown, Finish, ThenStep
  <2>2. QED BY <2>1 DEF Trusted, Back
<1>16. QED
  BY <1>1, <1>2, <1>3, <1>4, <1>5, <1>6, <1>7, <1>8, <1>9, <1>10, <1>11, <1>12, <1>13,
     <1>14, <1>15, ProgramMoves DEF Next, Runner
-----------------------------------------------------------------------------
(* What is recorded of the tests.                                          *)

\* The log and the statuses change together with the runner only.
LEMMA LogMoves ==
  ASSUME Queues, Shape, [Next]_vars
  PROVE  \/ UNCHANGED <<log, cm_tests, group, test>>
         \/ StartGroup \/ NextTest \/ AfterSetup \/ AfterTest \/ AfterTeardown
<1>1. CASE Program BY <1>1, ProgramFrame DEF runner, history
<1>2. CASE Call BY <1>2 DEF Call, history
<1>3. CASE UNCHANGED vars BY <1>3 DEF vars, runner, history
<1>4. CASE Runner
  BY <1>4 DEF Runner, NoMemory, AfterGroupSetup, Record, AfterGroupTeardown, Finish, history
<1>5. QED BY <1>1, <1>2, <1>3, <1>4 DEF Next

\* The verdict of a test that returned or was left.
LEMMA VerdictIs ==
  ASSUME Shape, Stages, Trusted, AfterTest
  PROVE  /\ test \in 1 .. Len(log) /\ test' = test /\ Len(log') = Len(log)
         /\ \A i \in 1 .. Len(log) :
              /\ cm_tests'[i] = IF i = test THEN Verdict ELSE cm_tests[i]
              /\ log'[i] = IF i = test THEN truth ELSE log[i]
         /\ Verdict = "passed" <=> rc = 0
         /\ rc = 0 => truth \in {"good", "lost", "misled"}
         /\ truth = "good" => rc = 0
<1>1. /\ pc = "test" /\ inside = "back" /\ test' = test
      /\ cm_tests' = [cm_tests EXCEPT ![test] = Verdict]
      /\ log' = [log EXCEPT ![test] = truth]
  BY DEF AfterTest, Back
<1>2. /\ test \in 1 .. Len(log) /\ Len(cm_tests) = Len(log)
      /\ cm_tests \in Seq(Statuses) /\ log \in Seq(Truths)
      /\ Verdict \in Statuses /\ truth \in Truths
  BY <1>1, GroupIs DEF Stages, InTest, Shape, Verdict, Statuses
<1>3. \A i \in 1 .. Len(log) : cm_tests'[i] = IF i = test THEN Verdict ELSE cm_tests[i]
  BY <1>1, <1>2, ExceptSeq
<1>4. /\ \A i \in 1 .. Len(log) : log'[i] = IF i = test THEN truth ELSE log[i]
      /\ Len(log') = Len(log)
  BY <1>1, <1>2, ExceptSeq
<1>5. Verdict = "passed" <=> rc = 0 BY DEF Verdict
<1>6. QED BY <1>1, <1>2, <1>3, <1>4, <1>5 DEF Trusted, Back

\* A new test, and what an error of a fixture changes.
LEMMA NextIs ==
  ASSUME Shape, NextTest, test # Len(group.tests)
  PROVE  /\ group' = group /\ Len(log') = Len(log) + 1 /\ log'[Len(log) + 1] = None
         /\ cm_tests'[Len(log) + 1] = "not_started"
         /\ \A i \in 1 .. Len(log) : cm_tests'[i] = cm_tests[i] /\ log'[i] = log[i]
<1>1. /\ cm_tests' = Append(cm_tests, "not_started") /\ log' = Append(log, None)
      /\ group' = group
  BY DEF NextTest
<1>2. /\ cm_tests \in Seq(Statuses) /\ log \in Seq(Truths) /\ Len(cm_tests) = Len(log)
      /\ None \in Truths /\ "not_started" \in Statuses
  BY DEF Shape, Truths, Statuses
<1>3. QED BY <1>1, <1>2, AppendProperties

LEMMA ErrorIs ==
  ASSUME Shape, Stages, Trusted, AfterSetup \/ AfterTeardown
  PROVE  /\ log' = log /\ group' = group /\ test' = test /\ test \in 1 .. Len(log)
         /\ \A i \in 1 .. Len(log) :
              \/ cm_tests'[i] = cm_tests[i]
              \/ i = test /\ cm_tests'[i] = "error"
         /\ AfterSetup => log[test] = None
         /\ AfterTeardown => group.tests[test].teardown
         /\ AfterTeardown /\ rc = 0 => cm_tests' = cm_tests
         /\ AfterTeardown /\ rc # 0 => cm_tests'[test] = "error"
<1>1. /\ log' = log /\ group' = group /\ test' = test
      /\ cm_tests' = cm_tests \/ cm_tests' = [cm_tests EXCEPT ![test] = "error"]
      /\ AfterTeardown => cm_tests' = IF rc = 0 THEN cm_tests ELSE [cm_tests EXCEPT ![test] = "error"]
      /\ pc \in {"setup", "teardown"}
      /\ AfterSetup => pc = "setup"
      /\ AfterTeardown => pc = "teardown"
  BY DEF AfterSetup, AfterTeardown, Back, history
<1>2. /\ test \in 1 .. Len(log) /\ Len(cm_tests) = Len(log)
      /\ cm_tests \in Seq(Statuses) /\ "error" \in Statuses
  BY <1>1, GroupIs DEF Stages, InTest, Shape, Statuses
<1>3. \A i \in 1 .. Len(log) : [cm_tests EXCEPT ![test] = "error"][i]
                                 = IF i = test THEN "error" ELSE cm_tests[i]
  BY <1>2, ExceptSeq
<1>4. \A i \in 1 .. Len(log) : cm_tests'[i] = cm_tests[i] \/ (i = test /\ cm_tests'[i] = "error")
  BY <1>1, <1>3
<1>5. AfterTeardown /\ rc # 0 => cm_tests'[test] = "error" BY <1>1, <1>2, <1>3
<1>6. QED BY <1>1, <1>2, <1>4, <1>5 DEF Trusted, Stages

LEMMA VerdictsKept ==
  ASSUME Queues, Shape, Stages, Trusted, PassedIsGood, GoodIsPassed, [Next]_vars
  PROVE  PassedIsGood' /\ GoodIsPassed'
<1> DEFINE Good(l, c, g) == l = "good" => c = "passed" \/ (c = "error" /\ g)
           Pass(l, c) == c = "passed" => l \in {"good", "lost", "misled"}
<1>0. DOMAIN log = 1 .. Len(log) /\ Len(log) \in Nat BY LenProperties DEF Shape
<1>1. /\ \A i \in 1 .. Len(log) : Pass(log[i], cm_tests[i])
      /\ \A i \in 1 .. Len(log) : Good(log[i], cm_tests[i], group.tests[i].teardown)
  BY <1>0 DEF PassedIsGood, GoodIsPassed
<1>2. SUFFICES
        /\ \A i \in 1 .. Len(log') : Pass(log'[i], cm_tests'[i])
        /\ \A i \in 1 .. Len(log') : Good(log'[i], cm_tests'[i], group'.tests[i].teardown)
  <2>2. DOMAIN log' = 1 .. Len(log')
    <3>1. CASE UNCHANGED log BY <1>0, <3>1
    <3>2. CASE StartGroup BY <3>2 DEF StartGroup
    <3>3. CASE NextTest BY <1>0, <3>3, AppendProperties, LenProperties DEF NextTest, Shape, Truths
    <3>4. CASE AfterTest
      <4>1. log' = [log EXCEPT ![test] = truth] BY <3>4 DEF AfterTest
      <4>2. Len(log') = Len(log) BY <3>4, VerdictIs
      <4>3. QED BY <1>0, <4>1, <4>2
    <3>5. QED BY <3>1, <3>2, <3>3, <3>4, LogMoves DEF AfterSetup, AfterTeardown, history
  <2>3. QED BY <2>2 DEF PassedIsGood, GoodIsPassed
<1>3. CASE UNCHANGED <<log, cm_tests, group, test>> BY <1>1, <1>3
<1>4. CASE StartGroup
  <2>1. log' = <<>> BY <1>4 DEF StartGroup
  <2>2. QED BY <2>1, EmptySeq
<1>5. CASE NextTest
  <2>1. CASE test = Len(group.tests)
    <3>1. UNCHANGED <<log, cm_tests, group, test>> BY <1>5, <2>1 DEF NextTest
    <3>2. QED BY <1>3, <3>1
  <2>2. CASE test # Len(group.tests)
    <3>1. \A i \in 1 .. Len(log') : i \in 1 .. Len(log) \/ i = Len(log) + 1
      BY <1>0, <1>5, <2>2, NextIs
    <3>2. QED BY <1>1, <1>5, <2>2, <3>1, NextIs DEF None
  <2>3. QED BY <2>1, <2>2
<1>6. CASE AfterSetup \/ AfterTeardown
  <2>1. \A i \in 1 .. Len(log) : cm_tests'[i] = "error" => Pass(log[i], cm_tests'[i])
    OBVIOUS
  <2>2. AfterSetup => ~ (log[test] = "good") BY ErrorIs DEF None
  <2>3. QED BY <1>1, <1>6, <2>1, <2>2, ErrorIs
<1>7. CASE AfterTest
  <2>1. group' = group BY <1>7 DEF AfterTest
  <2>2. QED BY <1>1, <1>7, <2>1, VerdictIs
<1>8. QED BY <1>3, <1>4, <1>5, <1>6, <1>7, LogMoves

-----------------------------------------------------------------------------
(* What a group gives its caller.                                          *)

\* The counts of a group only grow, and what failed is counted as failed.
LEMMA TotalsGrow ==
  ASSUME Queues, Shape, Trusted, [Next]_vars, ~ StartGroup
  PROVE  /\ total.errors \in Nat /\ total.failed \in Nat
         /\ total'.errors \in Nat /\ total'.failed \in Nat
         /\ total'.errors >= total.errors /\ total'.failed >= total.failed
         /\ AfterGroupSetup /\ rc # 0 => total'.errors > 0
         /\ Record /\ rc # 0 => total'.errors > 0
         /\ Record /\ rc = 0 /\ cm_tests[test] = "failed" => total'.failed > 0
<1> DEFINE Plus(u, k) == u = [total EXCEPT ![k] = @ + 1]
<1>1. total \in Totals BY DEF Shape, Totals
<1>2. total.errors \in Nat /\ total.failed \in Nat BY <1>1 DEF Totals
<1>3. ASSUME NEW u, NEW k \in {"passed", "failed", "errors", "skipped"}, Plus(u, k)
      PROVE  /\ u.errors = IF k = "errors" THEN total.errors + 1 ELSE total.errors
             /\ u.failed = IF k = "failed" THEN total.failed + 1 ELSE total.failed
  BY <1>1, <1>3 DEF Totals
<1>4. CASE total' = total
  <2>1. ~ (AfterGroupSetup /\ rc # 0) /\ ~ (Record /\ rc # 0)
        /\ ~ (Record /\ rc = 0 /\ cm_tests[test] = "failed")
    <3>1. ~ Plus(total, "errors") /\ ~ Plus(total, "failed") BY <1>2, <1>3
    <3>2. QED BY <1>4, <3>1 DEF AfterGroupSetup, Record
  <2>2. QED BY <1>2, <1>4, <2>1
<1>5. CASE AfterGroupSetup
  <2>1. ~ Record BY <1>5 DEF AfterGroupSetup, Record, Back
  <2>2. rc # 0 => Plus(total', "errors") BY <1>5 DEF AfterGroupSetup
  <2>3. rc = 0 => total' = total BY <1>5 DEF AfterGroupSetup
  <2>4. rc # 0 => total'.errors = total.errors + 1 /\ total'.failed = total.failed
    BY <1>3, <2>2
  <2>5. QED BY <1>2, <2>1, <2>3, <2>4
<1>6. CASE Record /\ total' # total
  <2>1. ~ AfterGroupSetup BY <1>6 DEF AfterGroupSetup, Record, Back
  <2>2. CASE rc # 0
    <3>1. Plus(total', "errors") BY <1>6, <2>2 DEF Record
    <3>2. total'.errors = total.errors + 1 /\ total'.failed = total.failed BY <1>3, <3>1
    <3>3. QED BY <1>2, <2>1, <2>2, <3>2
  <2>3. CASE rc = 0
    <3>1. PICK n : n = cm_tests[test] OBVIOUS
    <3>2. /\ n = "passed" => Plus(total', "passed")
          /\ n = "skipped" => Plus(total', "skipped")
          /\ n = "failed" => Plus(total', "failed")
      BY <1>6, <2>3, <3>1 DEF Record
    <3>3. n \in {"passed", "skipped", "failed"}
      BY <1>6, <2>3, <3>1 DEF Record, Trusted, Final
    <3>4. /\ total'.errors = total.errors
          /\ total'.failed = IF n = "failed" THEN total.failed + 1 ELSE total.failed
      BY <1>3, <3>2, <3>3
    <3>5. QED BY <1>2, <2>1, <2>3, <3>1, <3>4
  <2>4. QED BY <2>2, <2>3
<1>7. QED
  <2>1. CASE Program BY <1>4, <2>1, ProgramFrame DEF runner
  <2>2. CASE Call BY <1>4, <2>2 DEF Call
  <2>3. CASE UNCHANGED vars BY <1>4, <2>3 DEF vars, runner
  <2>4. CASE NoMemory \/ NextTest \/ AfterSetup \/ AfterTest \/ AfterTeardown \/ AfterGroupTeardown \/ Finish
    BY <1>4, <2>4 DEF NoMemory, NextTest, AfterSetup, AfterTest, AfterTeardown, AfterGroupTeardown, Finish
  <2>5. QED BY <1>4, <1>5, <1>6, <2>1, <2>2, <2>3, <2>4 DEF Next, Runner

LEMMA SkippingKept ==
  ASSUME Queues, Shape, Stages, Trusted, Skipping, [Next]_vars
  PROVE  Skipping'
<1>0. ~ StartGroup =>
        /\ total.errors > 0 => total'.errors > 0
        /\ AfterGroupSetup /\ rc # 0 => total'.errors > 0
        /\ Record /\ rc # 0 => total'.errors > 0
  BY TotalsGrow
<1>1. CASE Program
  <2>1. /\ inside = "body" /\ UNCHANGED <<pc, stale>> /\ ~ StartGroup
        /\ pc \in Fixtures \cup {"test"}
    BY <1>1, ProgramFrame DEF history, StartGroup, ThenCall, ThenStep, Stages, Fixtures
  <2>2. \/ skip_test' = skip_test
        \/ inside' = "back" /\ rc' = -1 /\ truth' = "skip"
    BY <1>1, ProgramMoves DEF Goes, Leaves, Overrun, ReturnFromTest, ReturnFromFixture, Return
  <2>3. ASSUME inside' = "back", rc' = -1, truth' = "skip" PROVE Skipping'
    BY <2>1, <2>3 DEF Skipping, Back, Fixtures
  <2>4. ASSUME skip_test' = skip_test PROVE Skipping'
    BY <1>0, <2>1, <2>4 DEF Skipping, Back
  <2>5. QED BY <2>2, <2>3, <2>4
<1>2. CASE Call
  <2>1. inside = "call" /\ UNCHANGED <<pc, stale, skip_test>> /\ ~ StartGroup
    BY <1>2 DEF Call, history, StartGroup, ThenCall, ThenStep, Stages, Fixtures
  <2>2. QED BY <1>0, <2>1 DEF Skipping, Back
<1>3. CASE UNCHANGED vars BY <1>3 DEF vars, program, runner, history, Skipping, Back
<1>4. CASE StartGroup BY <1>4 DEF StartGroup, Quiet, Skipping
<1>5. CASE NoMemory
  <2>1. UNCHANGED <<pc, inside, rc, total, truth, skip_test, stale>>
    BY <1>5 DEF NoMemory, Quiet
  <2>2. QED BY <2>1 DEF Skipping, Back
<1>6. CASE AfterGroupSetup
  <2>1. UNCHANGED <<stale, skip_test, rc>> /\ ~ StartGroup /\ pc = "group_setup"
    BY <1>6 DEF AfterGroupSetup, Back, StartGroup, history
  <2>2. QED BY <1>0, <1>6, <2>1 DEF Skipping, Back, Fixtures
<1>7. CASE NextTest
  <2>1. UNCHANGED <<stale, skip_test, total>> /\ pc = "next"
    BY <1>7 DEF NextTest
  <2>2. QED BY <2>1 DEF Skipping, Back, Fixtures
<1>8. CASE AfterSetup
  <2>1. /\ UNCHANGED <<stale, skip_test, total, rc>> /\ pc = "setup"
        /\ rc # 0 => pc' = "record" /\ inside' = "back"
    BY <1>8 DEF AfterSetup, Back, ThenStep, history
  <2>2. QED BY <2>1 DEF Skipping, Back, Fixtures
<1>9. CASE AfterTest
  <2>1. /\ UNCHANGED <<stale, total>> /\ Back("test")
        /\ skip_test' => skip_test /\ rc = 0
    BY <1>9 DEF AfterTest
  <2>2. rc = 0 => truth # "skip" BY <2>1 DEF Trusted
  <2>3. QED BY <2>1, <2>2 DEF Skipping, Back, Fixtures
<1>10. CASE AfterTeardown
  <2>1. /\ UNCHANGED <<stale, skip_test, total, rc>> /\ pc = "teardown"
        /\ pc' = "record" /\ inside' = "back"
    BY <1>10 DEF AfterTeardown, Back, ThenStep, history
  <2>2. QED BY <2>1 DEF Skipping, Back, Fixtures
<1>11. CASE Record
  <2>1. UNCHANGED <<stale, skip_test, rc>> /\ ~ StartGroup /\ pc = "record"
    BY <1>11 DEF Record, StartGroup
  <2>2. QED BY <1>0, <1>11, <2>1 DEF Skipping, Back, Fixtures
<1>12. CASE AfterGroupTeardown \/ Finish
  <2>1. pc' \in {"finish", "start", "over"}
    BY <1>12 DEF AfterGroupTeardown, Finish, ThenStep
  <2>2. QED BY <2>1 DEF Skipping
<1>13. QED
  BY <1>1, <1>2, <1>3, <1>4, <1>5, <1>6, <1>7, <1>8, <1>9, <1>10, <1>11, <1>12
  DEF Next, Runner

LEMMA ShownKept ==
  ASSUME Queues, Shape, Stages, Trusted, Skipping, Shown, [Next]_vars
  PROVE  Shown'
<1> DEFINE Told == total.failed + total.errors > 0
           Bad(i) == i = test /\ pc \in {"teardown", "record"} /\ cm_tests[test] \in {"failed", "error"}
<1>0. DOMAIN log = 1 .. Len(log) /\ Len(log) \in Nat BY LenProperties DEF Shape
<1>1. ~ stale => \A i \in 1 .. Len(log) : log[i] = "bad" => Told \/ Bad(i)
  BY <1>0 DEF Shown
<1>2. ~ StartGroup =>
        /\ Told => Told'
        /\ AfterGroupSetup /\ rc # 0 => Told'
        /\ Record /\ rc # 0 => Told'
        /\ Record /\ rc = 0 /\ cm_tests[test] = "failed" => Told'
  BY TotalsGrow
<1>3. SUFFICES ASSUME ~ stale', NEW i \in DOMAIN log', log'[i] = "bad"
               PROVE  Told' \/ Bad(i)'
  BY DEF Shown
<1> HIDE DEF Told
<1>4. CASE UNCHANGED <<log, cm_tests, group, test>>
  <2>1. i \in 1 .. Len(log) /\ log[i] = "bad" BY <1>0, <1>3, <1>4
  <2>2. CASE StartGroup BY <2>2, <2>1, EmptySeq, <1>3 DEF StartGroup
  <2>3. CASE ~ StartGroup
    <3>1. ~ stale /\ (Told \/ Bad(i))
      <4>1. stale' = stale
        BY <2>3, ProgramFrame DEF Next, Runner, Call, vars, history, NoMemory, AfterGroupSetup,
           NextTest, AfterSetup, AfterTest, AfterTeardown, Record, AfterGroupTeardown, Finish
      <4>2. QED BY <1>1, <1>3, <2>1, <4>1
    <3>2. CASE Told BY <1>2, <2>3, <3>2
    <3>3. CASE Bad(i)
      <4>1. CASE pc' = pc BY <1>4, <3>3, <4>1
      <4>2. CASE AfterTeardown
        BY <1>4, <3>3, <4>2 DEF AfterTeardown, ThenStep
      <4>3. CASE Record
        <5>1. rc = 0 => cm_tests[test] \in Final BY <4>3 DEF Record, Trusted
        <5>2. rc = 0 => cm_tests[test] = "failed" BY <3>3, <5>1 DEF Final
        <5>3. QED BY <1>2, <2>3, <4>3, <5>2
      <4>4. QED
        BY <3>3, <2>3, <4>1, <4>2, <4>3, ProgramFrame
        DEF Next, Runner, Call, vars, NoMemory, AfterGroupSetup,
            NextTest, AfterSetup, AfterTest, AfterGroupTeardown, Finish, Back
    <3>4. QED BY <3>1, <3>2, <3>3
  <2>4. QED BY <2>2, <2>3
<1>5. CASE StartGroup
  <2>1. log' = <<>> BY <1>5 DEF StartGroup
  <2>2. QED BY <1>3, <2>1, EmptySeq
<1>6. CASE NextTest /\ test # Len(group.tests)
  <2>1. /\ pc = "next" /\ UNCHANGED <<stale, total>> /\ log' = Append(log, None)
    BY <1>6 DEF NextTest
  <2>2. i \in 1 .. Len(log) \/ i = Len(log) + 1
    BY <1>0, <1>3, <2>1, AppendProperties, LenProperties DEF Shape, Truths
  <2>3. i \in 1 .. Len(log) /\ log[i] = "bad" BY <1>3, <1>6, <2>2, NextIs DEF None
  <2>4. Told BY <1>1, <1>3, <2>1, <2>3
  <2>5. QED BY <2>1, <2>4 DEF Told
<1>7. CASE NextTest /\ test = Len(group.tests)
  BY <1>4, <1>7 DEF NextTest
<1>8. CASE AfterSetup
  <2>1. pc = "setup" /\ UNCHANGED <<stale, total, log>>
    BY <1>8 DEF AfterSetup, Back, history
  <2>2. QED BY <1>0, <1>1, <1>3, <2>1 DEF Told
<1>9. CASE AfterTeardown
  <2>1. /\ UNCHANGED <<stale, total, log, test>> /\ pc' = "record"
        /\ cm_tests' = cm_tests \/ cm_tests'[test] = "error"
    BY <1>9, ErrorIs DEF AfterTeardown, ThenStep, history
  <2>2. Told \/ Bad(i) BY <1>0, <1>1, <1>3, <2>1
  <2>3. Told => Told' BY <2>1 DEF Told
  <2>4. Bad(i) => Bad(i)' BY <2>1
  <2>5. QED BY <2>2, <2>3, <2>4
<1>10. CASE AfterTest
  <2>1. /\ Back("test") /\ UNCHANGED <<stale, total, test>> /\ pc' \in {"teardown", "record"}
        /\ i \in 1 .. Len(log)
    <3>1. log' = [log EXCEPT ![test] = truth] BY <1>10 DEF AfterTest
    <3>2. QED BY <1>0, <1>3, <1>10, <3>1 DEF AfterTest, ThenCall, ThenStep
  <2>2. /\ cm_tests'[i] = IF i = test THEN Verdict ELSE cm_tests[i]
        /\ log'[i] = IF i = test THEN truth ELSE log[i]
        /\ rc = 0 => truth # "bad"
    BY <1>10, <2>1, VerdictIs
  <2>3. CASE i # test
    <3>1. Told BY <1>1, <1>3, <2>1, <2>2, <2>3
    <3>2. QED BY <2>1, <3>1 DEF Told
  <2>4. CASE i = test
    <3>1. rc # 0 /\ truth = "bad" BY <1>3, <2>2, <2>4
    <3>2. CASE skip_test
      <4>1. total.errors > 0 BY <1>3, <2>1, <3>1, <3>2 DEF Skipping, Back, Fixtures
      <4>2. total.errors \in Nat /\ total.failed \in Nat BY DEF Shape
      <4>3. Told BY <4>1, <4>2 DEF Told
      <4>4. QED BY <2>1, <4>3 DEF Told
    <3>3. CASE ~ skip_test
      <4>1. Verdict = "failed" BY <3>1, <3>3 DEF Verdict
      <4>2. QED BY <2>1, <2>2, <2>4, <4>1
    <3>4. QED BY <3>2, <3>3
  <2>5. QED BY <2>3, <2>4
<1>11. QED BY <1>4, <1>5, <1>6, <1>7, <1>8, <1>9, <1>10, LogMoves

LEMMA CompleteKept ==
  ASSUME Queues, Shape, Stages, Trusted, Complete, [Next]_vars
  PROVE  Complete'
<1>0. ~ StartGroup =>
        /\ total.errors > 0 => total'.errors > 0
        /\ AfterGroupSetup /\ rc # 0 => total'.errors > 0
  BY TotalsGrow
<1>1. CASE Program
  <2>1. UNCHANGED <<pc, total, test, group, round, returned>>
    BY <1>1, ProgramFrame DEF runner
  <2>2. QED BY <2>1 DEF Complete, Results
<1>2. CASE Call
  <2>1. UNCHANGED <<pc, total, test, group, round, returned>> BY <1>2 DEF Call
  <2>2. QED BY <2>1 DEF Complete, Results
<1>3. CASE UNCHANGED vars BY <1>3 DEF vars, runner, Complete, Results
<1>4. CASE NoMemory BY <1>4 DEF NoMemory, Complete
<1>5. CASE StartGroup \/ AfterSetup \/ AfterTest \/ AfterTeardown \/ Record
  <2>1. pc' \notin {"group_teardown", "finish", "start"}
    BY <1>5 DEF StartGroup, AfterSetup, AfterTest, AfterTeardown, Record, ThenCall, ThenStep
  <2>2. QED BY <2>1 DEF Complete
<1>6. CASE AfterGroupSetup
  <2>1. pc' # "start" /\ ~ StartGroup /\ (rc = 0 => pc' = "next")
    BY <1>6 DEF AfterGroupSetup, StartGroup, Back, ThenCall, ThenStep, ThenTeardown
  <2>2. QED BY <1>0, <1>6, <2>1 DEF Complete
<1>7. CASE NextTest
  <2>1. /\ pc' # "start" /\ UNCHANGED <<group>>
        /\ pc' \in {"group_teardown", "finish"} => test' = Len(group.tests)
    BY <1>7 DEF NextTest, ThenCall, ThenStep, ThenTeardown
  <2>2. QED BY <2>1 DEF Complete
<1>8. CASE AfterGroupTeardown
  <2>1. pc = "group_teardown" /\ pc' = "finish" /\ UNCHANGED <<total, test, group>>
    BY <1>8 DEF AfterGroupTeardown, Back, ThenStep
  <2>2. QED BY <2>1 DEF Complete
<1>9. CASE Finish
  <2>1. /\ pc = "finish" /\ pc' \in {"over", "start"} /\ UNCHANGED <<total, test, group>>
        /\ pc' = "start" => returned' = Results
    BY <1>9 DEF Finish, ThenStep
  <2>2. total.errors \in Nat /\ total.failed \in Nat BY DEF Shape
  <2>3. Results = 0 => ~ (total.errors > 0) BY <2>2 DEF Results
  <2>4. QED BY <2>1, <2>3 DEF Complete, Results
<1>10. QED
  BY <1>1, <1>2, <1>3, <1>4, <1>5, <1>6, <1>7, <1>8, <1>9 DEF Next, Runner
-----------------------------------------------------------------------------
(* The inductive invariant and the theorems.                               *)

Sane == Queues /\ Shape /\ Stages /\ Blocked /\ Trusted
Judged == PassedIsGood /\ GoodIsPassed
Reported == Skipping /\ Shown /\ Complete

LEMMA Initially == Init => Sane /\ Judged /\ Reported
<1> SUFFICES ASSUME Init PROVE Sane /\ Judged /\ Reported
  OBVIOUS
<1>1. Queues
  <2>1. \A What : <<>> \in Sound(What, Used) BY NoneSound
  <2>2. Ordered(<<>>) BY NoneSound
  <2>3. QED BY <2>1, <2>2 DEF Init, Queues, NoResults, NoParams
<1>2. /\ <<>> \in Seq(Truths) /\ <<>> \in Seq(Statuses)
      /\ Len(<<>>) = 0 /\ Len(group.tests) \in Nat /\ group \in Groups
  BY GroupIs, EmptySeq DEF Init
<1>3. Shape
  <2>1. budget \in 0 .. MaxCalls /\ round \in 0 .. NumGroups /\ test \in 0 .. Len(group.tests)
    BY <1>2, CmockaAssumption DEF Init
  <2>2. points \in [group : {ListHead}, setup : Addresses \cup {ListHead, NoPoint},
                    function : Addresses \cup {ListHead}]
    BY DEF Init
  <2>3. total \in [passed : Nat, failed : Nat, errors : Nat, skipped : Nat]
    BY DEF Init, Nothing
  <2>4. truth \in Truths /\ log \in Seq(Truths) /\ cm_tests \in Seq(Statuses)
        /\ Len(log) = test /\ Len(cm_tests) = test
    BY <1>2 DEF Init, Truths
  <2>5. /\ pc \in Fixtures \cup {"start", "next", "test", "record", "finish", "over"}
        /\ inside \in {"call", "body", "back"} /\ rc \in {-1, 0, 1} /\ returned \in Int
    <3>1. pc = "start" /\ inside = "back" /\ rc = 0 /\ returned = 0 BY DEF Init
    <3>2. QED BY <3>1
  <2>6. skip_test \in BOOLEAN /\ overrun \in BOOLEAN /\ stale \in BOOLEAN
    <3>1. skip_test = FALSE /\ overrun = FALSE /\ stale = FALSE BY DEF Init
    <3>2. QED BY <3>1
  <2>7. group \in Groups BY <1>2
  <2>8. QED BY <2>1, <2>2, <2>3, <2>4, <2>5, <2>6, <2>7 DEF Shape
<1>4. Stages BY DEF Init, Stages, Recorded, Nothing, InTest, Fixtures
<1>5. Blocked BY NoBlock DEF Init, Blocked
<1>6. Trusted BY DEF Init, Trusted, Back
<1>7. Judged BY <1>2 DEF Init, Judged, PassedIsGood, GoodIsPassed
<1>8. Reported BY <1>2 DEF Init, Reported, Skipping, Shown, Complete
<1>9. QED BY <1>1, <1>3, <1>4, <1>5, <1>6, <1>7, <1>8 DEF Sane

LEMMA SaneKept == Sane /\ [Next]_vars => Sane'
<1> SUFFICES ASSUME Sane, [Next]_vars PROVE Sane'
  OBVIOUS
<1>1. Queues /\ Shape /\ Stages /\ Blocked /\ Trusted BY DEF Sane
<1>2. budget \in 0 .. MaxCalls BY <1>1 DEF Shape
<1>3. Queues' BY <1>1, <1>2, QueuesKept
<1>4. Shape' /\ Stages' BY <1>1, ShapeKept
<1>5. Blocked' BY <1>1, BlockedKept
<1>6. Trusted' BY <1>1, TrustedKept
<1>7. QED BY <1>3, <1>4, <1>5, <1>6 DEF Sane

LEMMA AlwaysSane == Spec => []Sane
<1>1. Init => Sane BY Initially
<1>2. QED BY <1>1, SaneKept, PTL DEF Spec

\* The state of the runner, its heap, its queues and its counts keep their
\* types, and no group counts more outcomes than the tests it started and the
\* one its setup stands for.
THEOREM CmockaTypeCorrect == Spec => []TypeOK
<1>1. Sane => TypeOK BY TypeParts DEF Sane, Blocked
<1>2. QED BY <1>1, AlwaysSane, PTL

\* function_called() accepts calls in the order in which expect_function_call()
\* announced them, whatever the counts, the functions and the number of calls.
THEOREM CallsAreInOrder == Spec => []CallsInOrder
<1>1. Sane => CallsInOrder
  <2> SUFFICES ASSUME Sane PROVE CallsInOrder
    OBVIOUS
  <2>1. /\ calls \in Seq(Entries(Functions, Counts, MaxCalls))
        /\ \A i \in 1 .. Len(calls) : Counted(calls[i])
        /\ Ordered(calls)
    BY DEF Sane, Queues, Sound
  <2>2. DOMAIN calls = 1 .. Len(calls) /\ Len(calls) \in Nat BY <2>1, LenProperties
  <2>3. SUFFICES ASSUME NEW j \in 1 .. Len(calls), NEW i \in 1 .. j - 1, calls[j].used > 0
                 PROVE  calls[i].asked < 0 /\ Honoured(calls[i])
    BY <2>2 DEF CallsInOrder
  <2>4. i \in 1 .. Len(calls) BY <2>2
  <2>5. calls[i].count = Maybe /\ Counted(calls[i])
    BY <2>1, <2>3, <2>4 DEF Ordered, InOrder
  <2>6. /\ calls[i].asked \in {Always, Maybe} \cup Nat
        /\ calls[i].used \in 0 .. MaxCalls
    <3>1. calls[i] \in Entries(Functions, Counts, MaxCalls) BY <2>1, <2>4, ElementOfSeq
    <3>2. QED BY <3>1, CmockaAssumption DEF Entries
  <2>7. MaxCalls \in Nat BY CmockaAssumption
  <2>8. QED BY <2>5, <2>6, <2>7 DEF Counted, Honoured, Always, Maybe
<1>2. QED BY <1>1, AlwaysSane, PTL

\* cmocka reports a test as passed only if its assertions and checks held by
\* their meaning, what it announced was used and its blocks were freed: for
\* every check, string and area, for every range on one side of zero, and for
\* any order of calls.  A test that checked a range across zero, or freed the
\* block of its check point, may pass without (PassedIsGood says why).
THEOREM PassedTestsAreGood == Spec => []PassedIsGood
<1>1. Init => Sane /\ Judged BY Initially
<1>2. Sane /\ Judged /\ [Next]_vars => Sane' /\ Judged'
  <2>1. Sane /\ Judged /\ [Next]_vars => Judged'
    BY VerdictsKept DEF Sane, Judged
  <2>2. QED BY <2>1, SaneKept
<1>3. Judged => PassedIsGood BY DEF Judged
<1>4. QED BY <1>1, <1>2, <1>3, PTL DEF Spec

\* A good test is reported as passed, unless its own teardown fails: it is not
\* charged with blocks, announcements or a skip of others.  What is not called
\* good is said at GoodIsPassed.
THEOREM GoodTestsPass == Spec => []GoodIsPassed
<1>1. Init => Sane /\ Judged BY Initially
<1>2. Sane /\ Judged /\ [Next]_vars => Sane' /\ Judged'
  <2>1. Sane /\ Judged /\ [Next]_vars => Judged'
    BY VerdictsKept DEF Sane, Judged
  <2>2. QED BY <2>1, SaneKept
<1>3. Judged => GoodIsPassed BY DEF Judged
<1>4. QED BY <1>1, <1>2, <1>3, PTL DEF Spec

\* A group that gives 0 to its caller started every test and none was bad,
\* unless the flag of a skip was left over from the group before.  A test that
\* checked a range across zero, or freed the block of its check point, is not
\* called bad.
THEOREM FailuresShow == Spec => []FailureShows
<1>1. Init => Sane /\ Reported BY Initially
<1>2. Sane /\ Reported /\ [Next]_vars => Sane' /\ Reported'
  <2>1. Sane /\ Reported /\ [Next]_vars => Reported'
    <3> SUFFICES ASSUME Sane, Reported, [Next]_vars PROVE Reported'
      OBVIOUS
    <3>1. /\ Queues /\ Shape /\ Stages /\ Trusted
          /\ Skipping /\ Shown /\ Complete
      BY DEF Sane, Reported
    <3>2. Skipping' BY <3>1, SkippingKept
    <3>3. Shown' BY <3>1, ShownKept
    <3>4. Complete' BY <3>1, CompleteKept
    <3>5. QED BY <3>2, <3>3, <3>4 DEF Reported
  <2>2. QED BY <2>1, SaneKept
<1>3. Sane /\ Reported => FailureShows
  <2> SUFFICES ASSUME Sane, Reported, pc = "start", round > 0, returned = 0, ~ stale
               PROVE  Len(log) = Len(group.tests) /\ \A i \in DOMAIN log : log[i] # "bad"
    BY DEF FailureShows
  <2>1. Results = 0 /\ test = Len(group.tests) BY DEF Reported, Complete
  <2>2. Len(log) = test /\ total.errors \in Nat /\ total.failed \in Nat
    BY DEF Sane, Shape
  <2>3. ~ (total.failed + total.errors > 0) BY <2>1, <2>2 DEF Results
  <2>4. \A i \in DOMAIN log : log[i] # "bad" BY <2>3 DEF Reported, Shown
  <2>5. QED BY <2>1, <2>2, <2>4
<1>4. QED BY <1>1, <1>2, <1>3, PTL DEF Spec

\* A group that returns leaves no block allocated and no block was corrupted.
THEOREM ReturnsAreClean == Spec => []CleanReturn
<1>1. Sane => CleanReturn BY NoBlock DEF Sane, Blocked, CleanReturn
<1>2. QED BY <1>1, AlwaysSane, PTL
=============================================================================
