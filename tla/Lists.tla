------------------------------- MODULE Lists --------------------------------
(***************************************************************************)
(* The lists that the modules of this directory keep (ngx_queue_t, or a    *)
(* pool of items): sequences, head first, in which nothing is twice.  What *)
(* the operations of nginx on them do to the set of the members.  A list   *)
(* is searched from its head, for the least position that will do.         *)
(***************************************************************************)
EXTENDS Integers, SequencesExt, FiniteSetTheorems, TLAPS

List(S) == {s \in Seq(S) : \A i, j \in DOMAIN s : s[i] = s[j] => i = j}

\* Every non-empty set of naturals has a least element.
LEMMA HasLeast ==
    ASSUME NEW S, S \subseteq Nat, S # {}
    PROVE  \E n \in S : \A m \in S : n <= m
<1>1. IsWellFoundedOn(OpToRel(<, Nat), Nat)
  BY NatLessThanWellFounded, Zenon
<1>2. PICK n \in S : \A m \in S : ~(<<m, n>> \in OpToRel(<, Nat))
  BY <1>1, WFMin, Zenon
<1>3. \A m \in S : ~(m < n)
  BY <1>2, Zenon DEF OpToRel
<1> QED
  BY <1>3

\* And every non-empty set of naturals up to n a greatest.
LEMMA HasMost ==
    ASSUME NEW n \in Nat, NEW S, S \subseteq 0 .. n, S # {}
    PROVE  \E k \in S : \A m \in S : m <= k
<1>. DEFINE D == {n - k : k \in S}
<1>1. D \subseteq Nat /\ D # {}
  <2>1. ASSUME NEW k \in S PROVE n - k \in Nat
    OBVIOUS
  <2>2. PICK k : k \in S
    OBVIOUS
  <2>3. n - k \in D
    BY <2>2
  <2>. QED BY <2>1, <2>3
<1>2. PICK d \in D : \A m \in D : d <= m
  <2>. HIDE DEF D
  <2>. QED BY <1>1, HasLeast
<1>3. PICK k \in S : d = n - k
  OBVIOUS
<1>4. \A m \in S : n - k <= n - m
  BY <1>2, <1>3
<1>. QED BY <1>4

\* Min chooses it.
LEMMA MinIsMember ==
    ASSUME NEW S \in SUBSET Nat, S # {}
    PROVE  Min(S) \in S
BY HasLeast DEF Min

\* An empty list has no member.
LEMMA EmptyList ==
    ASSUME NEW S
    PROVE  <<>> \in List(S) /\ Range(<<>>) = {} /\ Len(<<>>) = 0
BY DEF List, Range

\* A list without members is empty.
LEMMA NoMemberNoList ==
    ASSUME NEW S, NEW s \in List(S)
    PROVE  Range(s) = {} <=> s = <<>>
<1>1. s \in Seq(S) /\ Len(s) \in Nat /\ DOMAIN s = 1 .. Len(s)
  BY DEF List
<1>2. CASE s # <<>>
  <2>1. 1 \in DOMAIN s
    BY <1>1, <1>2
  <2>. QED BY <1>2, <2>1 DEF Range
<1>3. CASE s = <<>>
  BY <1>3, EmptyList
<1>. QED BY <1>2, <1>3

LEMMA MembersInSet ==
    ASSUME NEW S, NEW s \in List(S)
    PROVE  Range(s) \subseteq S
BY DEF List, Range

\* ngx_queue_insert_head of an item that is in no list.
LEMMA PushHead ==
    ASSUME NEW S, NEW s \in List(S), NEW e \in S, e \notin Range(s)
    PROVE  /\ <<e>> \o s \in List(S)
           /\ Range(<<e>> \o s) = Range(s) \cup {e}
<1>. DEFINE t == <<e>> \o s
<1>1. /\ s \in Seq(S) /\ Len(s) \in Nat /\ DOMAIN s = 1 .. Len(s)
      /\ \A i, j \in 1 .. Len(s) : s[i] = s[j] => i = j
      /\ \A i \in 1 .. Len(s) : s[i] # e
  BY DEF List, Range
<1>2. /\ t \in Seq(S) /\ Len(t) = Len(s) + 1 /\ DOMAIN t = 1 .. Len(s) + 1
      /\ t[1] = e
      /\ \A i \in 2 .. Len(s) + 1 : t[i] = s[i - 1] /\ i - 1 \in 1 .. Len(s)
      /\ \A i \in 1 .. Len(s) : t[i + 1] = s[i] /\ i + 1 \in 2 .. Len(s) + 1
  BY <1>1
<1>. HIDE DEF t
<1>3. ASSUME NEW i \in DOMAIN t, NEW j \in DOMAIN t, t[i] = t[j] PROVE i = j
  <2>1. CASE i = 1 \/ j = 1
    BY <1>1, <1>2, <1>3, <2>1
  <2>2. CASE i # 1 /\ j # 1
    <3>1. s[i - 1] = s[j - 1] /\ i - 1 \in 1 .. Len(s) /\ j - 1 \in 1 .. Len(s)
      BY <1>2, <1>3, <2>2
    <3>2. i - 1 = j - 1
      BY <1>1, <3>1
    <3>. QED BY <1>2, <3>2
  <2>. QED BY <2>1, <2>2
<1>4. ASSUME NEW i \in DOMAIN t PROVE t[i] \in Range(s) \cup {e}
  BY <1>1, <1>2 DEF Range
<1>5. ASSUME NEW x \in Range(s) \cup {e} PROVE \E i \in DOMAIN t : t[i] = x
  <2>1. CASE x = e
    BY <1>1, <1>2, <2>1
  <2>2. CASE x # e
    <3>1. PICK i \in 1 .. Len(s) : s[i] = x
      BY <1>1, <2>2 DEF Range
    <3>2. i + 1 \in DOMAIN t /\ t[i + 1] = x
      BY <1>1, <1>2, <3>1
    <3>. QED BY <3>2
  <2>. QED BY <2>1, <2>2
<1>6. t \in List(S)
  BY <1>2, <1>3 DEF List
<1>7. Range(t) = Range(s) \cup {e}
  BY <1>4, <1>5 DEF Range
<1>. QED BY <1>6, <1>7 DEF t

\* The head of a list and what is left without it.
LEMMA TakeFromHead ==
    ASSUME NEW S, NEW s \in List(S), s # <<>>
    PROVE  /\ Head(s) \in Range(s) /\ Head(s) \in S
           /\ Tail(s) \in List(S)
           /\ Range(Tail(s)) = Range(s) \ {Head(s)}
<1>. DEFINE t == Tail(s)
            h == Head(s)
<1>1. /\ s \in Seq(S) /\ Len(s) \in Nat /\ Len(s) > 0 /\ DOMAIN s = 1 .. Len(s)
      /\ \A i, j \in 1 .. Len(s) : s[i] = s[j] => i = j
  BY DEF List
<1>2. /\ t \in Seq(S) /\ Len(t) = Len(s) - 1 /\ DOMAIN t = 1 .. Len(s) - 1
      /\ h = s[1] /\ h \in S /\ 1 \in 1 .. Len(s)
      /\ \A i \in 1 .. Len(s) - 1 : t[i] = s[i + 1] /\ i + 1 \in 1 .. Len(s)
  BY <1>1
<1>. HIDE DEF t, h
<1>3. ASSUME NEW i \in DOMAIN t, NEW j \in DOMAIN t, t[i] = t[j] PROVE i = j
  <2>1. i + 1 = j + 1
    BY <1>1, <1>2, <1>3
  <2>. QED BY <1>2, <2>1
<1>4. ASSUME NEW i \in DOMAIN t PROVE t[i] \in Range(s) \ {h}
  <2>1. t[i] = s[i + 1] /\ i + 1 \in 1 .. Len(s) /\ i + 1 # 1
    BY <1>2
  <2>. QED BY <1>1, <1>2, <2>1 DEF Range
<1>5. ASSUME NEW x \in Range(s) \ {h} PROVE \E i \in DOMAIN t : t[i] = x
  <2>1. PICK i \in 1 .. Len(s) : s[i] = x
    BY <1>1 DEF Range
  <2>2. i - 1 \in DOMAIN t /\ t[i - 1] = s[i]
    BY <1>1, <1>2, <2>1
  <2>. QED BY <2>1, <2>2
<1>6. t \in List(S)
  BY <1>2, <1>3 DEF List
<1>7. Range(t) = Range(s) \ {h}
  BY <1>4, <1>5 DEF Range
<1>8. h \in Range(s)
  BY <1>1, <1>2 DEF Range
<1>. QED BY <1>2, <1>6, <1>7, <1>8 DEF t, h

\* A list is as long as it has members.
LEMMA LengthCounts ==
    ASSUME NEW S, NEW s \in List(S)
    PROVE  IsFiniteSet(Range(s)) /\ Cardinality(Range(s)) = Len(s) /\ Len(s) \in Nat
<1>1. s \in Seq(S) /\ Len(s) \in Nat /\ DOMAIN s = 1 .. Len(s)
  BY DEF List
<1>2. s \in Bijection(1 .. Len(s), Range(s))
  <2>1. s \in [1 .. Len(s) -> Range(s)] /\ \A x \in Range(s) : \E i \in 1 .. Len(s) : s[i] = x
    BY <1>1 DEF Range
  <2>2. \A i, j \in 1 .. Len(s) : s[i] = s[j] => i = j
    BY <1>1 DEF List
  <2>. QED BY <2>1, <2>2 DEF Bijection, Injection, Surjection, IsInjective
<1>3. ExistsBijection(1 .. Len(s), Range(s))
  BY <1>2 DEF ExistsBijection
<1>4. IsFiniteSet(1 .. Len(s)) /\ Cardinality(1 .. Len(s)) = Len(s)
  BY <1>1, FS_Interval
<1>. QED BY <1>1, <1>3, <1>4, FS_Bijection

\* Where the others are when the k-th item is unlinked.
LEMMA Unlinked ==
    ASSUME NEW S, NEW s \in List(S), NEW e, NEW k \in 1 .. Len(s), s[k] = e
    PROVE  LET t == RemoveFirst(s, e)
           IN  /\ t \in Seq(S) /\ Len(t) = Len(s) - 1 /\ DOMAIN t = 1 .. Len(s) - 1
               /\ \A i \in DOMAIN t : t[i] = s[IF i < k THEN i ELSE i + 1]
<1>1. /\ s \in Seq(S) /\ Len(s) \in Nat /\ DOMAIN s = 1 .. Len(s)
      /\ \A i, j \in 1 .. Len(s) : s[i] = s[j] => i = j
  BY DEF List
<1>2. {i \in 1 .. Len(s) : s[i] = e} = {k}
  BY <1>1
<1>3. Min({k}) = k
  BY DEF Min
<1>4. RemoveFirst(s, e) = RemoveAt(s, k)
  BY <1>2, <1>3 DEF RemoveFirst, SelectInSeq
<1>. DEFINE t == RemoveAt(s, k)
            a == SubSeq(s, 1, k - 1)
            b == SubSeq(s, k + 1, Len(s))
<1>5. a \in Seq(S) /\ Len(a) = k - 1 /\ \A i \in 1 .. k - 1 : a[i] = s[i]
  BY <1>1
<1>6. b \in Seq(S) /\ Len(b) = Len(s) - k /\ \A i \in 1 .. Len(s) - k : b[i] = s[i + k]
  <2>. DEFINE l == k + 1
  <2>1. l \in Nat /\ 1 <= l /\ l <= Len(s) + 1
    BY <1>1
  <2>2. /\ SubSeq(s, l, Len(s)) \in Seq(S)
        /\ Len(SubSeq(s, l, Len(s))) = Len(s) - l + 1
        /\ \A i \in 1 .. Len(s) - l + 1 : SubSeq(s, l, Len(s))[i] = s[l + i - 1]
    <3>. HIDE DEF l
    <3>. QED BY <1>1, <2>1
  <2>3. Len(s) - l + 1 = Len(s) - k /\ \A i \in 1 .. Len(s) - k : l + i - 1 = i + k
    BY <1>1
  <2>. QED BY <2>2, <2>3
<1>7. t = a \o b
  BY DEF RemoveAt
<1>. HIDE DEF a, b, t
<1>8. t \in Seq(S) /\ Len(t) = (k - 1) + (Len(s) - k) /\ DOMAIN t = 1 .. Len(t)
  <2>1. a \in Seq(S) /\ b \in Seq(S)
    BY <1>5, <1>6
  <2>2. a \o b \in Seq(S) /\ Len(a \o b) = Len(a) + Len(b)
    BY <2>1
  <2>. QED BY <1>5, <1>6, <1>7, <2>2
<1>9. ASSUME NEW i \in 1 .. k - 1 PROVE t[i] = s[i]
  BY <1>1, <1>5, <1>6, <1>7
<1>10. ASSUME NEW i \in k .. Len(s) - 1 PROVE t[i] = s[i + 1]
  <2>1. t[i] = b[i - (k - 1)] /\ i - (k - 1) \in 1 .. Len(s) - k
    BY <1>1, <1>5, <1>6, <1>7
  <2>2. (i - (k - 1)) + k = i + 1
    OBVIOUS
  <2>. QED BY <1>6, <2>1, <2>2
<1>11. Len(t) = Len(s) - 1
  BY <1>1, <1>8
<1>12. ASSUME NEW i \in DOMAIN t PROVE t[i] = s[IF i < k THEN i ELSE i + 1]
  <2>1. CASE i < k
    <3>1. i \in 1 .. k - 1
      BY <1>1, <1>8, <1>11, <2>1
    <3>. QED BY <1>9, <2>1, <3>1
  <2>2. CASE ~(i < k)
    <3>1. i \in k .. Len(s) - 1
      BY <1>1, <1>8, <1>11, <2>2
    <3>. QED BY <1>10, <2>2, <3>1
  <2>. QED BY <2>1, <2>2
<1>. QED BY <1>4, <1>8, <1>11, <1>12 DEF t

\* ngx_queue_remove, for an item that may be in another list.
LEMMA Unlink ==
    ASSUME NEW S, NEW s \in List(S), NEW e
    PROVE  /\ RemoveFirst(s, e) \in List(S)
           /\ Range(RemoveFirst(s, e)) = Range(s) \ {e}
<1>1. /\ s \in Seq(S) /\ Len(s) \in Nat /\ DOMAIN s = 1 .. Len(s)
      /\ \A i, j \in 1 .. Len(s) : s[i] = s[j] => i = j
  BY DEF List
<1>2. CASE e \notin Range(s)
  <2>1. ~\E i \in 1 .. Len(s) : s[i] = e
    BY <1>1, <1>2 DEF Range
  <2>2. RemoveFirst(s, e) = s
    BY <2>1 DEF RemoveFirst
  <2>. QED BY <1>2, <2>2
<1>3. CASE e \in Range(s)
  <2>1. PICK k \in 1 .. Len(s) : s[k] = e
    BY <1>1, <1>3 DEF Range
  <2>. DEFINE t == RemoveFirst(s, e)
  <2>2. /\ t \in Seq(S) /\ DOMAIN t = 1 .. Len(s) - 1
        /\ \A i \in DOMAIN t : t[i] = s[IF i < k THEN i ELSE i + 1]
    BY <2>1, Unlinked
  <2>. HIDE DEF t
  <2>3. ASSUME NEW i \in DOMAIN t
        PROVE  \E m \in 1 .. Len(s) : t[i] = s[m] /\ m # k /\ m = IF i < k THEN i ELSE i + 1
    BY <1>1, <2>1, <2>2
  <2>4. ASSUME NEW i \in DOMAIN t, NEW j \in DOMAIN t, t[i] = t[j] PROVE i = j
    <3>1. (IF i < k THEN i ELSE i + 1) = (IF j < k THEN j ELSE j + 1)
      BY <1>1, <2>3, <2>4
    <3>. QED BY <2>1, <2>2, <3>1
  <2>5. ASSUME NEW i \in DOMAIN t PROVE t[i] \in Range(s) \ {e}
    BY <1>1, <2>1, <2>3 DEF Range
  <2>6. ASSUME NEW x \in Range(s) \ {e} PROVE \E i \in DOMAIN t : t[i] = x
    <3>1. PICK m \in 1 .. Len(s) : s[m] = x
      BY <1>1 DEF Range
    <3>2. m # k
      BY <2>1, <3>1
    <3>3. CASE m < k
      <4>1. m \in DOMAIN t
        BY <1>1, <2>1, <2>2, <3>3
      <4>. QED BY <2>2, <3>1, <3>3, <4>1
    <3>4. CASE m > k
      <4>1. m - 1 \in DOMAIN t /\ (m - 1) + 1 = m /\ ~(m - 1 < k)
        BY <1>1, <2>1, <2>2, <3>4
      <4>. QED BY <2>2, <3>1, <4>1
    <3>. QED BY <2>1, <3>2, <3>3, <3>4
  <2>7. t \in List(S)
    BY <2>2, <2>4 DEF List
  <2>8. Range(t) = Range(s) \ {e}
    BY <2>5, <2>6 DEF Range
  <2>. QED BY <2>7, <2>8 DEF t
<1>. QED BY <1>2, <1>3

\* ngx_queue_insert_tail of an item that is in no list.
LEMMA PushTail ==
    ASSUME NEW S, NEW s \in List(S), NEW e \in S, e \notin Range(s)
    PROVE  /\ Append(s, e) \in List(S)
           /\ Range(Append(s, e)) = Range(s) \cup {e}
<1>. DEFINE t == Append(s, e)
<1>1. /\ s \in Seq(S) /\ Len(s) \in Nat /\ DOMAIN s = 1 .. Len(s)
      /\ \A i, j \in 1 .. Len(s) : s[i] = s[j] => i = j
      /\ \A i \in 1 .. Len(s) : s[i] # e
  BY DEF List, Range
<1>2. /\ t \in Seq(S) /\ Len(t) = Len(s) + 1 /\ DOMAIN t = 1 .. Len(s) + 1
      /\ t[Len(s) + 1] = e
      /\ \A i \in 1 .. Len(s) : t[i] = s[i]
  BY <1>1
<1>. HIDE DEF t
<1>3. ASSUME NEW i \in DOMAIN t, NEW j \in DOMAIN t, t[i] = t[j] PROVE i = j
  <2>1. CASE i \in 1 .. Len(s) /\ j \in 1 .. Len(s)
    BY <1>1, <1>2, <1>3, <2>1
  <2>2. CASE i = Len(s) + 1 \/ j = Len(s) + 1
    BY <1>1, <1>2, <1>3, <2>2
  <2>. QED BY <1>1, <1>2, <2>1, <2>2
<1>4. ASSUME NEW i \in DOMAIN t PROVE t[i] \in Range(s) \cup {e}
  BY <1>1, <1>2 DEF Range
<1>5. ASSUME NEW x \in Range(s) \cup {e} PROVE \E i \in DOMAIN t : t[i] = x
  <2>1. CASE x = e
    BY <1>1, <1>2, <2>1
  <2>2. CASE x # e
    <3>1. PICK i \in 1 .. Len(s) : s[i] = x
      BY <1>1, <2>2 DEF Range
    <3>. QED BY <1>1, <1>2, <3>1
  <2>. QED BY <2>1, <2>2
<1>6. t \in List(S)
  BY <1>2, <1>3 DEF List
<1>7. Range(t) = Range(s) \cup {e}
  BY <1>4, <1>5 DEF Range
<1>. QED BY <1>6, <1>7 DEF t

\* A list that is cut after n items: the members of the front are those at the
\* first n positions, and the rest is the list without them.
LEMMA CutList ==
    ASSUME NEW S, NEW s \in List(S), NEW n \in 0 .. Len(s)
    PROVE  LET front == SubSeq(s, 1, n)
               rest == SubSeq(s, n + 1, Len(s))
           IN  /\ rest \in List(S)
               /\ Range(front) \subseteq Range(s)
               /\ Range(rest) = Range(s) \ Range(front)
               /\ \A i \in DOMAIN s : s[i] \in Range(front) <=> i <= n
<1>. DEFINE a == SubSeq(s, 1, n)
            b == SubSeq(s, n + 1, Len(s))
<1>1. /\ s \in Seq(S) /\ Len(s) \in Nat /\ DOMAIN s = 1 .. Len(s) /\ n \in Nat /\ n <= Len(s)
      /\ \A i, j \in 1 .. Len(s) : s[i] = s[j] => i = j
  BY DEF List
<1>2. DOMAIN a = 1 .. n /\ \A i \in 1 .. n : a[i] = s[i]
  BY <1>1
<1>3. b \in Seq(S) /\ DOMAIN b = 1 .. Len(s) - n /\ \A i \in 1 .. Len(s) - n : b[i] = s[i + n]
  <2>. DEFINE l == n + 1
  <2>1. l \in Nat /\ 1 <= l /\ l <= Len(s) + 1
    BY <1>1
  <2>2. /\ SubSeq(s, l, Len(s)) \in Seq(S)
        /\ DOMAIN SubSeq(s, l, Len(s)) = 1 .. Len(s) - l + 1
        /\ \A i \in 1 .. Len(s) - l + 1 : SubSeq(s, l, Len(s))[i] = s[l + i - 1]
    <3>. HIDE DEF l
    <3>. QED BY <1>1, <2>1
  <2>3. Len(s) - l + 1 = Len(s) - n /\ \A i \in 1 .. Len(s) - n : l + i - 1 = i + n
    BY <1>1
  <2>. QED BY <2>2, <2>3
<1>. HIDE DEF a, b
<1>4. ASSUME NEW i \in DOMAIN s PROVE s[i] \in Range(a) <=> i <= n
  BY <1>1, <1>2 DEF Range
<1>5. ASSUME NEW i \in DOMAIN s PROVE s[i] \in Range(b) <=> n < i
  <2>1. ASSUME NEW j \in DOMAIN b, b[j] = s[i] PROVE n < i
    <3>1. j + n \in 1 .. Len(s) /\ s[j + n] = s[i]
      BY <1>1, <1>3, <2>1
    <3>2. j + n = i
      BY <1>1, <3>1
    <3>. QED BY <1>1, <1>3, <3>2
  <2>2. ASSUME n < i PROVE \E j \in DOMAIN b : b[j] = s[i]
    <3>1. i - n \in DOMAIN b /\ (i - n) + n = i
      BY <1>1, <1>3, <2>2
    <3>2. b[i - n] = s[i]
      BY <1>3, <3>1
    <3>. QED BY <3>1, <3>2
  <2>. QED BY <2>1, <2>2 DEF Range
<1>6. Range(a) \subseteq Range(s) /\ Range(b) \subseteq Range(s)
  <2>1. \A i \in DOMAIN a : i \in DOMAIN s
    BY <1>1, <1>2
  <2>2. \A i \in DOMAIN b : i + n \in DOMAIN s
    BY <1>1, <1>3
  <2>. QED BY <1>2, <1>3, <2>1, <2>2 DEF Range
<1>7. Range(b) = Range(s) \ Range(a)
  <2>1. ASSUME NEW x \in Range(s) PROVE x \in Range(b) <=> x \notin Range(a)
    <3>1. PICK i \in DOMAIN s : x = s[i]
      BY DEF Range
    <3>. QED BY <1>1, <1>4, <1>5, <3>1
  <2>. QED BY <1>6, <2>1
<1>8. b \in List(S)
  <2>1. ASSUME NEW i \in DOMAIN b, NEW j \in DOMAIN b, b[i] = b[j] PROVE i = j
    <3>1. /\ s[i + n] = s[j + n] /\ i + n \in 1 .. Len(s) /\ j + n \in 1 .. Len(s)
          /\ i \in Int /\ j \in Int
      BY <1>1, <1>3, <2>1
    <3>2. i + n = j + n
      BY <1>1, <3>1
    <3>. QED BY <1>1, <3>1, <3>2
  <2>. QED BY <1>3, <2>1 DEF List
<1>. QED BY <1>4, <1>6, <1>7, <1>8 DEF a, b

\* The last of a list and what is before it.
LEMMA TakeFromTail ==
    ASSUME NEW S, NEW s \in List(S), s # <<>>
    PROVE  /\ Last(s) \in Range(s) /\ Last(s) \in S
           /\ Front(s) \in List(S)
           /\ Range(Front(s)) = Range(s) \ {Last(s)}
<1>. DEFINE n == Len(s)
            m == n - 1
            t == SubSeq(s, 1, m)
<1>1. /\ s \in Seq(S) /\ n \in Nat /\ n > 0 /\ DOMAIN s = 1 .. n
      /\ \A i, j \in 1 .. n : s[i] = s[j] => i = j
  BY DEF List
<1>2. /\ t \in Seq(S) /\ DOMAIN t = 1 .. m /\ n \in 1 .. n
      /\ \A i \in 1 .. m : t[i] = s[i] /\ i \in 1 .. n /\ i # n
  <2>1. m \in Nat /\ m < n
    BY <1>1
  <2>. HIDE DEF m
  <2>2. t \in Seq(S) /\ DOMAIN t = 1 .. m /\ \A i \in 1 .. m : t[i] = s[i]
    BY <1>1, <2>1
  <2>. HIDE DEF t, n
  <2>. QED BY <1>1, <2>1, <2>2
<1>3. Front(s) = t /\ Last(s) = s[n]
  BY DEF Front, Last
<1>. HIDE DEF t, n
<1>4. t \in List(S)
  BY <1>1, <1>2 DEF List
<1>5. ASSUME NEW i \in DOMAIN t PROVE t[i] \in Range(s) \ {s[n]}
  BY <1>1, <1>2 DEF Range
<1>6. ASSUME NEW x \in Range(s) \ {s[n]} PROVE \E i \in DOMAIN t : t[i] = x
  <2>1. PICK i \in 1 .. n : s[i] = x
    BY <1>1 DEF Range
  <2>2. i \in 1 .. n - 1
    BY <1>1, <2>1
  <2>. QED BY <1>2, <2>1, <2>2
<1>7. Range(t) = Range(s) \ {s[n]}
  BY <1>5, <1>6 DEF Range
<1>8. s[n] \in Range(s) /\ s[n] \in S
  BY <1>1, <1>2 DEF Range
<1>. QED BY <1>3, <1>4, <1>7, <1>8

\* A finite set, as the list it is first put into.
LEMMA SetAsList ==
    ASSUME NEW S, IsFiniteSet(S)
    PROVE  SetToSeq(S) \in List(S) /\ Range(SetToSeq(S)) = S
<1>. DEFINE n == Cardinality(S)
            s == SetToSeq(S)
<1>1. n \in Nat /\ ExistsBijection(1 .. n, S)
  BY FS_CardinalityType
<1>2. \E f \in [1 .. n -> S] : IsInjective(f)
  BY <1>1 DEF ExistsBijection, Bijection, Injection
<1>3. s \in [1 .. n -> S] /\ IsInjective(s)
  BY <1>2 DEF SetToSeq
<1>. HIDE DEF s
<1>4. {s[i] : i \in 1 .. n} = S
  <2>. DEFINE T == {s[i] : i \in 1 .. n}
  <2>1. s \in Bijection(1 .. n, T)
    BY <1>3 DEF Bijection, Injection, Surjection, IsInjective
  <2>2. Cardinality(T) = n
    BY <1>1, <2>1, FS_CountingElements DEF ExistsBijection
  <2>3. T \in SUBSET S
    BY <1>3
  <2>. HIDE DEF T
  <2>. QED BY <2>2, <2>3, FS_Subset DEF T
<1>5. s \in List(S)
  BY <1>1, <1>3 DEF List, IsInjective
<1>6. Range(s) = S
  BY <1>3, <1>4 DEF Range
<1>. QED BY <1>5, <1>6 DEF s

\* Induction up to n: the numbers for which something holds are a set.
LEMMA Ascends ==
    ASSUME NEW n \in Nat, NEW Good,
           0 \in Good, \A i \in 1 .. n : i - 1 \in Good => i \in Good
    PROVE  \A i \in 0 .. n : i \in Good
<1>. DEFINE Bad == {i \in 0 .. n : i \notin Good}
<1>1. ASSUME Bad # {} PROVE FALSE
  <2>1. PICK m \in Bad : \A k \in Bad : m <= k
    <3>1. Bad \subseteq Nat
      OBVIOUS
    <3>. HIDE DEF Bad
    <3>. QED BY <1>1, <3>1, HasLeast
  <2>2. m \in 0 .. n /\ m \notin Good /\ m # 0
    OBVIOUS
  <2>3. m - 1 \in 0 .. n /\ m - 1 \notin Bad /\ m \in 1 .. n
    BY <2>1, <2>2
  <2>. QED BY <2>2, <2>3
<1>. QED BY <1>1

\* f is what a recursive function makes of x in n steps.
Steps(n, S) == [1 .. n -> [S -> S]]
Follows(f, n, S, x, step) ==
    f \in [0 .. n -> S] /\ f[0] = x /\ \A i \in 1 .. n : f[i] = step[i][f[i - 1]]

\* Such a function exists.
LEMMA Recursion ==
    ASSUME NEW n \in Nat, NEW S, NEW x \in S, NEW step \in Steps(n, S)
    PROVE  \E f : Follows(f, n, S, x, step)
<1>. DEFINE Part(f, m) == /\ f \in [0 .. m -> S] /\ f[0] = x
                          /\ \A i \in 1 .. m : f[i] = step[i][f[i - 1]]
            Good == {m \in 0 .. n : \E f : Part(f, m)}
<1>. USE DEF Steps
<1>1. 0 \in Good
  <2>1. Part([i \in 0 .. 0 |-> x], 0)
    OBVIOUS
  <2>. HIDE DEF Part
  <2>. QED BY <2>1
<1>2. ASSUME NEW m \in 1 .. n, m - 1 \in Good PROVE m \in Good
  <2>1. PICK f : Part(f, m - 1)
    BY <1>2
  <2>. DEFINE g == [i \in 0 .. m |-> IF i = m THEN step[m][f[m - 1]] ELSE f[i]]
  <2>2. f[m - 1] \in S
    BY <2>1
  <2>3. step[m][f[m - 1]] \in S
    BY <2>2
  <2>4. g \in [0 .. m -> S]
    BY <2>1, <2>3
  <2>5. g[0] = x
    BY <2>1
  <2>6. ASSUME NEW i \in 1 .. m PROVE g[i] = step[i][g[i - 1]]
    <3>1. i - 1 \in 0 .. m /\ i - 1 # m /\ g[i - 1] = f[i - 1]
      OBVIOUS
    <3>2. CASE i = m
      BY <3>1, <3>2
    <3>3. CASE i # m
      <4>1. g[i] = f[i] /\ i \in 1 .. m - 1
        BY <3>3
      <4>. QED BY <2>1, <3>1, <4>1
    <3>. QED BY <3>2, <3>3
  <2>7. Part(g, m)
    <3>. HIDE DEF g
    <3>. QED BY <2>4, <2>5, <2>6
  <2>. HIDE DEF g, Part
  <2>. QED BY <2>7
<1>3. n \in Good
  <2>. HIDE DEF Good
  <2>1. \A i \in 0 .. n : i \in Good
    BY <1>1, <1>2, Ascends
  <2>. QED BY <2>1
<1>. QED BY <1>3 DEF Follows

\* x stands before y.
Ahead(s, x, y) == \E i, j \in DOMAIN s : i < j /\ s[i] = x /\ s[j] = y

LEMMA AheadIsStrict ==
    ASSUME NEW S, NEW s \in List(S), NEW x, NEW y, Ahead(s, x, y)
    PROVE  x # y /\ ~Ahead(s, y, x) /\ x \in Range(s) /\ y \in Range(s)
<1>1. s \in Seq(S) /\ Len(s) \in Nat /\ DOMAIN s = 1 .. Len(s)
      /\ \A i, j \in DOMAIN s : s[i] = s[j] => i = j
  BY DEF List
<1>2. PICK i, j \in DOMAIN s : i < j /\ s[i] = x /\ s[j] = y
  BY DEF Ahead
<1>3. x # y /\ x \in Range(s) /\ y \in Range(s)
  BY <1>1, <1>2 DEF Range
<1>4. ASSUME NEW a \in DOMAIN s, NEW b \in DOMAIN s, a < b, s[a] = y, s[b] = x PROVE FALSE
  <2>1. a = j /\ b = i
    BY <1>1, <1>2, <1>4
  <2>. QED BY <1>1, <1>2, <1>4, <2>1
<1>. QED BY <1>3, <1>4 DEF Ahead

LEMMA AheadIsTotal ==
    ASSUME NEW S, NEW s \in List(S), NEW x \in Range(s), NEW y \in Range(s), x # y
    PROVE  Ahead(s, x, y) \/ Ahead(s, y, x)
<1>1. s \in Seq(S) /\ Len(s) \in Nat /\ DOMAIN s = 1 .. Len(s)
  BY DEF List
<1>2. PICK i \in DOMAIN s : s[i] = x
  BY DEF Range
<1>3. PICK j \in DOMAIN s : s[j] = y
  BY DEF Range
<1>4. i < j \/ j < i
  BY <1>1, <1>2, <1>3
<1>. QED BY <1>2, <1>3, <1>4 DEF Ahead

\* The head comes first, the others keep their order.
LEMMA PushKeepsOrder ==
    ASSUME NEW S, NEW s \in List(S), NEW e, NEW x, NEW y, Ahead(<<e>> \o s, x, y)
    PROVE  y \in Range(s) /\ (x = e \/ Ahead(s, x, y))
<1>. DEFINE t == <<e>> \o s
<1>1. s \in Seq(S) /\ Len(s) \in Nat /\ DOMAIN s = 1 .. Len(s)
  BY DEF List
<1>2. /\ DOMAIN t = 1 .. Len(s) + 1 /\ t[1] = e
      /\ \A i \in 2 .. Len(s) + 1 : t[i] = s[i - 1] /\ i - 1 \in 1 .. Len(s)
  <2>1. <<e>> \in Seq({e}) /\ s \in Seq(S \cup {e}) /\ <<e>> \in Seq(S \cup {e})
    BY <1>1
  <2>. QED BY <1>1, <2>1
<1>. HIDE DEF t
<1>3. PICK i, j \in DOMAIN t : i < j /\ t[i] = x /\ t[j] = y
  BY DEF Ahead, t
<1>4. j \in 2 .. Len(s) + 1 /\ j - 1 \in DOMAIN s /\ s[j - 1] = y
  BY <1>1, <1>2, <1>3
<1>5. CASE i = 1
  BY <1>2, <1>3, <1>4, <1>5 DEF Range
<1>6. CASE i # 1
  <2>1. i - 1 \in DOMAIN s /\ s[i - 1] = x /\ i - 1 < j - 1
    BY <1>1, <1>2, <1>3, <1>6
  <2>. QED BY <1>4, <2>1 DEF Ahead, Range
<1>. QED BY <1>5, <1>6

\* The first n of a list: what is in front stays, and nothing else.
LEMMA FrontOfList ==
    ASSUME NEW S, NEW s \in List(S), NEW n \in 0 .. Len(s)
    PROVE  LET t == SubSeq(s, 1, n)
           IN  /\ t \in List(S)
               /\ Range(t) = {s[i] : i \in 1 .. n}
               /\ \A x, y : Ahead(t, x, y) => Ahead(s, x, y)
               /\ \A x \in Range(t), y \in Range(s) \ Range(t) : Ahead(s, x, y)
<1>. DEFINE t == SubSeq(s, 1, n)
<1>1. s \in Seq(S) /\ Len(s) \in Nat /\ DOMAIN s = 1 .. Len(s) /\ n \in Nat /\ n <= Len(s)
      /\ \A i, j \in DOMAIN s : s[i] = s[j] => i = j
  BY DEF List
<1>2. t \in Seq(S) /\ Len(t) = n /\ DOMAIN t = 1 .. n /\ \A i \in 1 .. n : t[i] = s[i] /\ i \in DOMAIN s
  BY <1>1
<1>. HIDE DEF t
<1>3. t \in List(S)
  BY <1>1, <1>2 DEF List
<1>4. Range(t) = {s[i] : i \in 1 .. n}
  BY <1>2 DEF Range
<1>5. \A x, y : Ahead(t, x, y) => Ahead(s, x, y)
  BY <1>2 DEF Ahead
<1>6. ASSUME NEW x \in Range(t), NEW y \in Range(s) \ Range(t) PROVE Ahead(s, x, y)
  <2>1. PICK i \in 1 .. n : s[i] = x
    BY <1>4
  <2>2. PICK j \in DOMAIN s : s[j] = y
    BY DEF Range
  <2>3. j \notin 1 .. n
    BY <1>4, <2>2
  <2>4. i \in DOMAIN s /\ i < j
    BY <1>1, <2>1, <2>2, <2>3
  <2>. QED BY <2>1, <2>2, <2>4 DEF Ahead
<1>. QED BY <1>3, <1>4, <1>5, <1>6 DEF t

\* ngx_queue_remove: the others keep their order.
LEMMA UnlinkKeepsOrder ==
    ASSUME NEW S, NEW s \in List(S), NEW e, NEW x, NEW y, Ahead(RemoveFirst(s, e), x, y)
    PROVE  Ahead(s, x, y)
<1>1. s \in Seq(S) /\ Len(s) \in Nat /\ DOMAIN s = 1 .. Len(s)
  BY DEF List
<1>2. CASE e \notin Range(s)
  <2>1. ~\E i \in 1 .. Len(s) : s[i] = e
    BY <1>1, <1>2 DEF Range
  <2>. QED BY <2>1 DEF RemoveFirst
<1>3. CASE e \in Range(s)
  <2>1. PICK k \in 1 .. Len(s) : s[k] = e
    BY <1>1, <1>3 DEF Range
  <2>. DEFINE t == RemoveFirst(s, e)
  <2>2. /\ DOMAIN t = 1 .. Len(s) - 1
        /\ \A i \in DOMAIN t : t[i] = s[IF i < k THEN i ELSE i + 1]
    BY <2>1, Unlinked
  <2>. HIDE DEF t
  <2>3. PICK i, j \in DOMAIN t : i < j /\ t[i] = x /\ t[j] = y
    BY DEF Ahead, t
  <2>. DEFINE At(m) == IF m < k THEN m ELSE m + 1
  <2>4. At(i) \in DOMAIN s /\ At(j) \in DOMAIN s /\ At(i) < At(j)
    BY <1>1, <2>1, <2>2, <2>3
  <2>5. s[At(i)] = x /\ s[At(j)] = y
    BY <2>2, <2>3
  <2>. HIDE DEF At
  <2>. QED BY <2>4, <2>5 DEF Ahead
<1>. QED BY <1>2, <1>3

\* The new tail comes last.
LEMMA AppendKeepsOrder ==
    ASSUME NEW S, NEW s \in List(S), NEW e \in S, NEW x, NEW y, Ahead(Append(s, e), x, y)
    PROVE  Ahead(s, x, y) \/ (x \in Range(s) /\ y = e)
<1>. DEFINE t == Append(s, e)
<1>1. s \in Seq(S) /\ Len(s) \in Nat /\ DOMAIN s = 1 .. Len(s)
  BY DEF List
<1>2. /\ DOMAIN t = 1 .. Len(s) + 1 /\ t[Len(s) + 1] = e
      /\ \A i \in DOMAIN s : t[i] = s[i]
  BY <1>1
<1>. HIDE DEF t
<1>3. PICK i, j \in DOMAIN t : i < j /\ t[i] = x /\ t[j] = y
  BY DEF Ahead, t
<1>4. i \in DOMAIN s /\ s[i] = x
  BY <1>1, <1>2, <1>3
<1>5. CASE j = Len(s) + 1
  BY <1>2, <1>3, <1>4, <1>5 DEF Range
<1>6. CASE j # Len(s) + 1
  <2>1. j \in DOMAIN s /\ s[j] = y
    BY <1>1, <1>2, <1>3, <1>6
  <2>. QED BY <1>3, <1>4, <2>1 DEF Ahead
<1>. QED BY <1>5, <1>6
=============================================================================
