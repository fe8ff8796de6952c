-------------------------- MODULE HaSetTableProofs --------------------------
(***************************************************************************)
(* hustdbha's table and its replacement.  First, what the check of a table *)
(* file guarantees, for any number of hosts and elements: the ranges of a  *)
(* table that is checked leave out no hash, and the next instance builds   *)
(* with its own backends what the running one accepted with others.        *)
(*                                                                         *)
(* Then the replacement, for any number of workers and any tables: who     *)
(* holds the lock, what is on the disk, and what the next instance finds   *)
(* there.  The inductive invariant says of each worker, by the place where *)
(* it is, what it has put into the files so far; that stays true of it     *)
(* since nobody else has the lock.  Last, the pool of identifiers.         *)
(***************************************************************************)
EXTENDS HaSetTable, Lists

\* Two of each are there, and they are positions and hosts.
LEMMA PairShape ==
    ASSUME NEW pair \in Pair, TwoOfEach(pair)
    PROVE  /\ From(pair) \in 0 .. TableSize /\ To(pair) \in 0 .. TableSize
           /\ Master1(pair) \in Hosts /\ Master2(pair) \in Hosts
           /\ HostsOf(pair.val) = Masters(pair)
<1>1. ASSUME NEW S, NEW s \in Seq(S), Len(s) = 2
      PROVE  s[1] \in S /\ s[2] \in S /\ {s[k] : k \in DOMAIN s} = {s[1], s[2]}
  <2>1. DOMAIN s = {1, 2}
    BY <1>1
  <2>2. \A k \in DOMAIN s : s[k] \in S
    BY <1>1
  <2> QED
    BY <2>1, <2>2
<1>2. pair.key \in Seq(0 .. TableSize) /\ pair.val \in Seq(Hosts)
  BY DEF Pair
<1>3. Len(pair.key) = 2 /\ Len(pair.val) = 2
  BY DEF TwoOfEach
<1>4. pair.key[1] \in 0 .. TableSize /\ pair.key[2] \in 0 .. TableSize
  BY <1>1, <1>2, <1>3
<1>5. /\ pair.val[1] \in Hosts /\ pair.val[2] \in Hosts
      /\ {pair.val[k] : k \in DOMAIN pair.val} = {pair.val[1], pair.val[2]}
  BY <1>1, <1>2, <1>3
<1> QED
  BY <1>4, <1>5 DEF From, To, Master1, Master2, Masters, HostsOf

\* The parts an element adds are its range, cut at one place at most.
LEMMA PartRanges ==
    ASSUME NEW t \in Table, NEW i \in DOMAIN t, CheckItem(t, i)
    PROVE  LET range(k) == PartAt(t, <<i, k>>).range
           IN  /\ <<i, 1>> \in PartIds(t)
               /\ From(range(1)) = From(t[i].item)
               /\ \/ <<i, 2>> \notin PartIds(t) /\ To(range(1)) = To(t[i].item)
                  \/ /\ <<i, 2>> \in PartIds(t)
                     /\ To(range(1)) \in Nat
                     /\ From(range(1)) < To(range(1))
                     /\ From(range(2)) = To(range(1))
                     /\ To(range(2)) = To(t[i].item)
<1>1. \A k \in {1, 2} : <<i, k>> \in PartIds(t) <=> k \in DOMAIN Parts(t, i)
  BY DEF PartIds
<1>2. \A k \in {1, 2} : PartAt(t, <<i, k>>) = Parts(t, i)[k]
  BY DEF PartAt
<1>3. CASE Decreases(t, i)
  <2>1. Parts(t, i) = <<DecrPart(t[i])>> /\ DecrPart(t[i]).range = t[i].item
    BY <1>3 DEF Parts, DecrPart
  <2> QED
    BY <1>1, <1>2, <2>1
<1>4. CASE ~Decreases(t, i) /\ ~Increases(t, i)
  <2>1. Parts(t, i) = <<PlainPart(t[i].item)>> /\ PlainPart(t[i].item).range = t[i].item
    BY <1>4 DEF Parts, PlainPart
  <2> QED
    BY <1>1, <1>2, <2>1
<1>5. CASE ~Decreases(t, i) /\ Increases(t, i)
  <2>1. /\ Parts(t, i) = <<PlainPart(Low(t[i])), HighPart(t[i])>>
        /\ PlainPart(Low(t[i])).range = Low(t[i])
        /\ HighPart(t[i]).range = High(t[i])
    BY <1>5 DEF Parts, PlainPart, HighPart
  <2>2. CheckIncrItem(t[i])
    BY <1>5 DEF CheckItem
  <2>3. Low(t[i]) \in Pair
    <3>1. t[i] \in Elem
      BY DEF Table
    <3>2. t[i].increase \in Pair \X Pair
      BY <1>5, <3>1 DEF Elem, Increases
    <3> QED
      BY <3>2 DEF Low
  <2>4. To(Low(t[i])) \in 0 .. TableSize
    BY <2>2, <2>3, PairShape DEF CheckIncrItem
  <2>5. DOMAIN Parts(t, i) = {1, 2}
    BY <2>1
  <2> QED
    BY <1>1, <1>2, <2>1, <2>2, <2>4, <2>5 DEF CheckIncrItem
<1> QED
  BY <1>3, <1>4, <1>5

\* The element before the first that begins above a hash has it, whatever way
\* the ranges step.
LEMMA LastBelow ==
    ASSUME NEW t \in Table, t # <<>>, \A i \in DOMAIN t : CheckItem(t, i),
           To(t[Len(t)].item) = TableSize, NEW h \in Hashes
    PROVE  \E i \in DOMAIN t :
              /\ From(t[i].item) <= h /\ h < To(t[i].item)
              /\ \A j \in DOMAIN t : From(t[j].item) <= h => j <= i
<1> DEFINE from(i) == From(t[i].item)
           to(i) == To(t[i].item)
           below == {i \in DOMAIN t : from(i) <= h}
<1>1. DOMAIN t = 1 .. Len(t) /\ Len(t) \in Nat \ {0}
  BY DEF Table
<1>2. \A i \in DOMAIN t : from(i) \in Nat /\ to(i) \in Nat
  <2> SUFFICES ASSUME NEW i \in DOMAIN t PROVE from(i) \in Nat /\ to(i) \in Nat
    OBVIOUS
  <2>1. t[i].item \in Pair
    <3>1. t[i] \in Elem
      BY DEF Table
    <3> QED
      BY <3>1 DEF Elem
  <2>2. TwoOfEach(t[i].item)
    BY DEF CheckItem
  <2> QED
    BY <2>1, <2>2, PairShape, TableAssumption
<1>3. 1 \in below
  <2>1. from(1) = 0
    BY <1>1 DEF CheckItem, Connected
  <2> QED
    BY <1>1, <2>1 DEF Hashes
<1>4. PICK i \in below : \A j \in below : j <= i
  <2> DEFINE distances == {Len(t) - j : j \in below}
  <2>1. distances \subseteq Nat /\ distances # {}
    BY <1>1, <1>3
  <2>2. PICK n \in distances : \A m \in distances : n <= m
    BY <2>1, HasLeast
  <2>3. PICK i \in below : n = Len(t) - i
    OBVIOUS
  <2>4. \A j \in below : Len(t) - i <= Len(t) - j
    BY <2>2, <2>3
  <2> QED
    BY <1>1, <2>4
<1>5. h < to(i)
  <2>1. CASE i = Len(t)
    BY <2>1, TableAssumption DEF Hashes
  <2>2. CASE i # Len(t)
    <3>1. i + 1 \in DOMAIN t /\ i + 1 # 1 /\ (i + 1) - 1 = i
      BY <1>1, <2>2
    <3>2. to(i) = from(i + 1)
      <4>1. Connected(t, i + 1)
        BY <3>1 DEF CheckItem
      <4> QED
        BY <3>1, <4>1 DEF Connected
    <3>3. ~(from(i + 1) <= h)
      BY <1>1, <1>4, <3>1
    <3> QED
      BY <1>2, <3>1, <3>2, <3>3 DEF Hashes
  <2> QED
    BY <2>1, <2>2
<1> QED
  BY <1>4, <1>5

\* A part begins at a position.
LEMMA PartBeginsAt ==
    ASSUME NEW t \in Table, \A i \in DOMAIN t : CheckItem(t, i), NEW p \in PartIds(t)
    PROVE  From(PartAt(t, p).range) \in Nat
<1>1. PICK i \in DOMAIN t, k \in {1, 2} : p = <<i, k>>
  <2>1. p \in (DOMAIN t) \X {1, 2}
    BY DEF PartIds
  <2> QED
    BY <2>1
<1>2. From(t[i].item) \in Nat
  <2>1. t[i] \in Elem
    BY DEF Table
  <2>2. t[i].item \in Pair /\ TwoOfEach(t[i].item)
    BY <2>1 DEF Elem, CheckItem
  <2> QED
    BY <2>2, PairShape, TableAssumption
<1>3. /\ From(PartAt(t, <<i, 1>>).range) = From(t[i].item)
      /\ <<i, 2>> \in PartIds(t) => From(PartAt(t, <<i, 2>>).range) \in Nat
  BY PartRanges
<1> QED
  BY <1>1, <1>2, <1>3

\* A part that is begun later than every other part that begins at the hash or
\* below it.
LastBegun(t, h, p) ==
    /\ p \in Owners(t, h)
    /\ \A q \in PartIds(t) : From(PartAt(t, q).range) <= h => Later(p, q)

\* Every hash has a part that overwrites all others.
LEMMA OwnerExists ==
    ASSUME NEW t \in Table, t # <<>>, \A i \in DOMAIN t : CheckItem(t, i),
           To(t[Len(t)].item) = TableSize, NEW h \in Hashes
    PROVE  \E p \in PartIds(t) : LastBegun(t, h, p)
<1> DEFINE range(i, k) == PartAt(t, <<i, k>>).range
<1>1. PICK i \in DOMAIN t :
          /\ From(t[i].item) <= h /\ h < To(t[i].item)
          /\ \A j \in DOMAIN t : From(t[j].item) <= h => j <= i
  BY LastBelow
<1>2. i \in Nat /\ h \in Nat /\ DOMAIN t \subseteq Nat
  <2>1. DOMAIN t = 1 .. Len(t) /\ Len(t) \in Nat
    BY DEF Table
  <2> QED
    BY <2>1 DEF Hashes
<1>3. \A j \in DOMAIN t : From(t[j].item) \in Nat
  <2> SUFFICES ASSUME NEW j \in DOMAIN t PROVE From(t[j].item) \in Nat
    OBVIOUS
  <2>1. t[j] \in Elem
    BY DEF Table
  <2>2. t[j].item \in Pair /\ TwoOfEach(t[j].item)
    BY <2>1 DEF Elem, CheckItem
  <2> QED
    BY <2>2, PairShape, TableAssumption
<1>r. \A j \in DOMAIN t :
          /\ <<j, 1>> \in PartIds(t)
          /\ From(range(j, 1)) = From(t[j].item)
          /\ \/ <<j, 2>> \notin PartIds(t) /\ To(range(j, 1)) = To(t[j].item)
             \/ /\ <<j, 2>> \in PartIds(t)
                /\ To(range(j, 1)) \in Nat
                /\ From(range(j, 1)) < To(range(j, 1))
                /\ From(range(j, 2)) = To(range(j, 1))
                /\ To(range(j, 2)) = To(t[j].item)
  BY PartRanges
<1>4. ASSUME NEW j \in DOMAIN t, NEW k \in {1, 2}, <<j, k>> \in PartIds(t),
             From(range(j, k)) <= h
      PROVE  j <= i
  <2>1. CASE k = 1
    <3>1. From(t[j].item) <= h
      BY <1>r, <1>4, <2>1
    <3> QED
      BY <1>1, <3>1
  <2>2. CASE k = 2
    <3>1. From(t[j].item) < From(range(j, 2)) /\ From(range(j, 2)) \in Nat
      BY <1>r, <1>4, <2>2
    <3>2. From(t[j].item) <= h
      BY <1>2, <1>3, <1>4, <2>2, <3>1
    <3> QED
      BY <1>1, <3>2
  <2> QED
    BY <2>1, <2>2
<1>5. PICK k \in {1, 2} :
          /\ <<i, k>> \in PartIds(t)
          /\ Within(h, range(i, k))
          /\ k = 1 => ~(<<i, 2>> \in PartIds(t) /\ From(range(i, 2)) <= h)
  <2>1. CASE <<i, 2>> \notin PartIds(t)
    <3>1. <<i, 1>> \in PartIds(t) /\ Within(h, range(i, 1))
      BY <1>1, <1>r, <2>1 DEF Within
    <3> QED
      BY <2>1, <3>1
  <2>2. CASE <<i, 2>> \in PartIds(t) /\ h < From(range(i, 2))
    <3>1. <<i, 1>> \in PartIds(t) /\ From(range(i, 1)) <= h /\ h < To(range(i, 1))
      BY <1>1, <1>r, <2>2
    <3>2. ~(From(range(i, 2)) <= h)
      <4>1. From(range(i, 2)) \in Nat
        BY <1>r, <2>2
      <4> QED
        BY <1>2, <2>2, <4>1
    <3> QED
      BY <3>1, <3>2 DEF Within
  <2>3. CASE <<i, 2>> \in PartIds(t) /\ ~(h < From(range(i, 2)))
    <3>1. From(range(i, 2)) \in Nat /\ To(range(i, 2)) = To(t[i].item)
      BY <1>r, <2>3
    <3>2. From(range(i, 2)) <= h
      BY <1>2, <2>3, <3>1
    <3>3. Within(h, range(i, 2))
      BY <1>1, <3>1, <3>2 DEF Within
    <3> QED
      BY <2>3, <3>3
  <2> QED
    BY <2>1, <2>2, <2>3
<1>6. <<i, k>> \in Owners(t, h)
  BY <1>5 DEF Owners
<1>7. ASSUME NEW q \in PartIds(t), From(PartAt(t, q).range) <= h
      PROVE  Later(<<i, k>>, q)
  <2>1. PICK j \in DOMAIN t, l \in {1, 2} : q = <<j, l>>
    <3>1. q \in (DOMAIN t) \X {1, 2}
      BY DEF PartIds
    <3> QED
      BY <3>1
  <2>2. j <= i /\ j \in Nat
    BY <1>2, <1>4, <1>7, <2>1
  <2>3. j = i => k >= l
    BY <1>5, <1>7, <2>1
  <2> QED
    BY <1>2, <2>1, <2>2, <2>3 DEF Later
<1> QED
  BY <1>5, <1>6, <1>7 DEF LastBegun

\* A table whose elements pass hustdb_ha_check_table_item one by one, and which
\* ends where the hashes end, gives every hash to an element, also if a range
\* steps back or is empty: hustdb_ha_review_table finds nothing to object to.
THEOREM CheckedTableCovers ==
    ASSUME NEW t \in Table, t # <<>>, \A i \in DOMAIN t : CheckItem(t, i),
           To(t[Len(t)].item) = TableSize
    PROVE  Reviewed(t)
<1> SUFFICES ASSUME NEW h \in Hashes PROVE Owners(t, h) # {}
  BY DEF Reviewed
<1> QED
  BY OwnerExists DEF LastBegun

\* Of two parts that come after each other both ways there is one.
LEMMA LaterIsOrder ==
    ASSUME NEW t \in Table, NEW p \in PartIds(t), NEW q \in PartIds(t), NEW r \in PartIds(t)
    PROVE  /\ Later(p, q) /\ Later(q, p) => p = q
           /\ Later(p, q) /\ Later(q, r) => Later(p, r)
<1>1. DOMAIN t \subseteq Nat
  BY DEF Table
<1>2. p \in Nat \X {1, 2} /\ q \in Nat \X {1, 2} /\ r \in Nat \X {1, 2}
  BY <1>1 DEF PartIds
<1>3. ASSUME Later(p, q), Later(q, p) PROVE p = q
  <2>1. p[1] = q[1] /\ p[2] = q[2]
    BY <1>2, <1>3 DEF Later
  <2>2. p = <<p[1], p[2]>> /\ q = <<q[1], q[2]>>
    BY <1>2
  <2> QED
    BY <2>1, <2>2
<1>4. ASSUME Later(p, q), Later(q, r) PROVE Later(p, r)
  BY <1>2, <1>4 DEF Later
<1> QED
  BY <1>3, <1>4

\* The hash table has the part that was begun last.
LEMMA HashTableIs ==
    ASSUME NEW t \in Table, NEW h \in Hashes, NEW p \in PartIds(t), LastBegun(t, h, p)
    PROVE  HashTable(t, h) = PartAt(t, p)
<1> DEFINE top(o) == \A q \in Owners(t, h) : Later(o, q)
<1>1. \A q \in Owners(t, h) : q \in PartIds(t) /\ From(PartAt(t, q).range) <= h
  BY DEF Owners, Within
<1>2. p \in Owners(t, h) /\ top(p)
  BY <1>1 DEF LastBegun
<1>3. \A o \in Owners(t, h) : top(o) => o = p
  BY <1>1, <1>2, LaterIsOrder
<1>4. (CHOOSE o \in Owners(t, h) : top(o)) = p
  BY <1>2, <1>3
<1> QED
  BY <1>4 DEF HashTable

\* __build_bucket_table never runs out of the buckets it allocates, one for each
\* part: the hashes of one part lie next to each other.
THEOREM BucketsAlwaysFit ==
    ASSUME NEW t \in Table, t # <<>>, \A i \in DOMAIN t : CheckItem(t, i),
           To(t[Len(t)].item) = TableSize
    PROVE  BucketsFit(t)
<1> DEFINE owner == [h \in BucketStarts(t) |-> CHOOSE p \in PartIds(t) : LastBegun(t, h, p)]
<1>1. \A h \in BucketStarts(t) : owner[h] \in PartIds(t) /\ LastBegun(t, h, owner[h])
  BY OwnerExists DEF BucketStarts
<1>2. ASSUME NEW h \in BucketStarts(t), NEW g \in BucketStarts(t), owner[h] = owner[g], h < g
      PROVE  FALSE
  <2>1. h \in Hashes /\ g \in Hashes /\ g - 1 \in Hashes /\ h <= g - 1 /\ g # 0
    <3>1. h \in Hashes /\ g \in Hashes
      BY DEF BucketStarts
    <3> QED
      BY <1>2, <3>1, TableAssumption DEF Hashes
  <2>2. PICK p \in PartIds(t) : LastBegun(t, g - 1, p)
    BY <2>1, OwnerExists
  <2>3. Later(p, owner[h])
    <3>1. From(PartAt(t, owner[h]).range) <= h
      BY <1>1 DEF LastBegun, Owners, Within
    <3>2. From(PartAt(t, owner[h]).range) \in Int
      BY <1>1, PartBeginsAt
    <3>3. From(PartAt(t, owner[h]).range) <= g - 1
      BY <2>1, <3>1, <3>2 DEF Hashes
    <3> QED
      BY <1>1, <2>2, <3>3 DEF LastBegun
  <2>4. Later(owner[g], p)
    <3>1. From(PartAt(t, p).range) <= g - 1
      BY <2>2 DEF LastBegun, Owners, Within
    <3>2. From(PartAt(t, p).range) \in Int
      BY PartBeginsAt
    <3>3. From(PartAt(t, p).range) <= g
      BY <2>1, <3>1, <3>2 DEF Hashes
    <3> QED
      BY <1>1, <3>3 DEF LastBegun
  <2>5. p = owner[g]
    BY <1>1, <1>2, <2>3, <2>4, LaterIsOrder
  <2>6. HashTable(t, g) = PartAt(t, p) /\ HashTable(t, g - 1) = PartAt(t, p)
    BY <1>1, <2>1, <2>2, <2>5, HashTableIs
  <2> QED
    BY <2>1, <2>6 DEF BucketStarts
<1>3. owner \in Injection(BucketStarts(t), PartIds(t))
  <2>1. owner \in [BucketStarts(t) -> PartIds(t)]
    BY <1>1
  <2>2. ASSUME NEW h \in BucketStarts(t), NEW g \in BucketStarts(t), owner[h] = owner[g]
        PROVE  h = g
    <3>1. ~(h < g) /\ ~(g < h)
      BY <1>2, <2>2
    <3> QED
      BY <3>1 DEF BucketStarts, Hashes
  <2>3. IsInjective(owner)
    BY <2>2 DEF IsInjective
  <2> QED
    BY <2>1, <2>3 DEF Injection
<1>4. IsFiniteSet(PartIds(t))
  <2>1. DOMAIN t = 1 .. Len(t) /\ Len(t) \in Nat
    BY DEF Table
  <2>2. IsFiniteSet(DOMAIN t) /\ IsFiniteSet(1 .. 2)
    <3>1. IsFiniteSet(1 .. Len(t))
      BY <2>1, FS_Interval
    <3>2. IsFiniteSet(1 .. 2)
      <4>1. 1 \in Int /\ 2 \in Int
        OBVIOUS
      <4>2. \A a, b \in Int : IsFiniteSet(a .. b)
        BY FS_Interval
      <4> QED
        BY <4>1, <4>2
    <3> QED
      BY <2>1, <3>1, <3>2
  <2>3. IsFiniteSet((DOMAIN t) \X (1 .. 2))
    BY <2>2, FS_Product
  <2>4. PartIds(t) \in SUBSET ((DOMAIN t) \X (1 .. 2))
    BY DEF PartIds
  <2> QED
    BY <2>3, <2>4, FS_Subset
<1> QED
  BY <1>3, <1>4, FS_Injection DEF BucketsFit

\* What the running instance accepts with its own peers, the next one builds with
\* the backends of the table: nothing is needed that the table does not name, as
\* long as no list names a host that leaves.
THEOREM AcceptedTableStarts ==
    ASSUME NEW t \in Table, NEW mine, Vouched(t), TRUE \in CheckTable(t, mine)
    PROVE  Builds(t, Backends(t))
<1>1. Buildable(t, mine) /\ Reviewed(t) /\ BucketsFit(t) /\ ~IncludeIncrease(t)
  BY DEF CheckTable, Vouched
<1>2. ASSUME NEW p \in PartIds(t)
      PROVE  /\ HostsOf(PartAt(t, p).writelist) = HostsOf(PartAt(t, p).readlist)
             /\ HostsOf(PartAt(t, p).readlist) \subseteq UNION {NamedHosts(t[i]) : i \in DOMAIN t}
  <2>1. PICK i \in DOMAIN t, k \in {1, 2} : p = <<i, k>> /\ k \in DOMAIN Parts(t, i)
    <3>1. p \in (DOMAIN t) \X {1, 2} /\ p[2] \in DOMAIN Parts(t, p[1])
      BY DEF PartIds
    <3> QED
      BY <3>1
  <2>2. t[i].increase = None /\ ~Increases(t, i)
    BY <1>1 DEF IncludeIncrease, Increases
  <2>3. t[i].item \in Pair /\ TwoOfEach(t[i].item)
    <3>1. t[i] \in Elem
      BY DEF Table
    <3> QED
      BY <1>1, <3>1 DEF Elem, Buildable, CheckItem
  <2>4. CASE Decreases(t, i)
    <3> DEFINE list == <<Remaining(t[i]), ReplacedBy(t[i])>>
    <3>1. Parts(t, i) = <<DecrPart(t[i])>> /\ k = 1
      BY <2>1, <2>4 DEF Parts
    <3>2. PartAt(t, p).readlist = list /\ PartAt(t, p).writelist = list
      BY <2>1, <3>1 DEF PartAt, DecrPart
    <3>3. HostsOf(list) \subseteq Masters(t[i].item) \cup {ReplacedBy(t[i])}
      BY DEF HostsOf, Remaining, Masters
    <3>4. HostsOf(list) \subseteq NamedHosts(t[i])
      BY <2>2, <2>4, <3>3 DEF NamedHosts, Decreases
    <3> QED
      BY <3>2, <3>4
  <2>5. CASE ~Decreases(t, i)
    <3>1. Parts(t, i) = <<PlainPart(t[i].item)>> /\ k = 1
      BY <2>1, <2>2, <2>5 DEF Parts
    <3>2. PartAt(t, p).readlist = t[i].item.val /\ PartAt(t, p).writelist = t[i].item.val
      BY <2>1, <3>1 DEF PartAt, PlainPart
    <3>3. HostsOf(t[i].item.val) \subseteq NamedHosts(t[i])
      BY <2>2, <2>3, PairShape DEF NamedHosts
    <3> QED
      BY <3>2, <3>3
  <2> QED
    BY <2>4, <2>5
<1>3. Known(t, Backends(t))
  <2> SUFFICES ASSUME NEW p \in PartIds(t)
               PROVE  HostsOf(PartAt(t, p).readlist) \cup HostsOf(PartAt(t, p).writelist)
                         \subseteq Backends(t)
    BY DEF Known
  <2>1. HostsOf(PartAt(t, p).readlist) \cap RemovedHosts(t) = {}
    BY DEF Vouched, RemovedEverywhere
  <2> QED
    BY <1>2, <2>1 DEF Backends
<1> QED
  BY <1>1, <1>3 DEF Builds, Buildable

\* Whatever a table asks for, a range that joins or leaves masters included, an
\* instance that builds it writes each range to one of the masters the range had,
\* and reads it wherever it writes it.
THEOREM BuiltTableKeepsAMaster ==
    ASSUME NEW t \in Table, NEW mine, Builds(t, mine)
    PROVE  KeepsAMaster(t, mine)
<1> SUFFICES ASSUME NEW p \in PartIds(t)
             PROVE  /\ HostsOf(PartAt(t, p).writelist) \cap Masters(t[p[1]].item) \cap mine # {}
                    /\ HostsOf(PartAt(t, p).writelist) \subseteq HostsOf(PartAt(t, p).readlist)
  BY DEF KeepsAMaster
<1>1. PICK i \in DOMAIN t, k \in {1, 2} : p = <<i, k>> /\ k \in DOMAIN Parts(t, i)
  <2>1. p \in (DOMAIN t) \X {1, 2} /\ p[2] \in DOMAIN Parts(t, p[1])
    BY DEF PartIds
  <2> QED
    BY <2>1
<1>2. CheckItem(t, i) /\ HostsOf(PartAt(t, p).writelist) \subseteq mine
  BY <1>1 DEF Builds, Buildable, Known
<1>3. t[i] \in Elem /\ t[i].item \in Pair /\ TwoOfEach(t[i].item)
  <2>1. t[i] \in Elem
    BY DEF Table
  <2> QED
    BY <1>2, <2>1 DEF Elem, CheckItem
<1>4. CASE Decreases(t, i)
  <2> DEFINE list == <<Remaining(t[i]), ReplacedBy(t[i])>>
  <2>1. Parts(t, i) = <<DecrPart(t[i])>> /\ k = 1
    BY <1>1, <1>4 DEF Parts
  <2>2. PartAt(t, p).readlist = list /\ PartAt(t, p).writelist = list
    BY <1>1, <2>1 DEF PartAt, DecrPart
  <2>3. Remaining(t[i]) \in HostsOf(list) /\ Remaining(t[i]) \in Masters(t[i].item)
    BY DEF HostsOf, Remaining, Masters
  <2> QED
    BY <1>1, <1>2, <2>2, <2>3
<1>5. CASE ~Decreases(t, i) /\ ~Increases(t, i)
  <2>1. Parts(t, i) = <<PlainPart(t[i].item)>> /\ k = 1
    BY <1>1, <1>5 DEF Parts
  <2>2. PartAt(t, p).readlist = t[i].item.val /\ PartAt(t, p).writelist = t[i].item.val
    BY <1>1, <2>1 DEF PartAt, PlainPart
  <2>3. HostsOf(t[i].item.val) = Masters(t[i].item)
    BY <1>3, PairShape
  <2>4. Masters(t[i].item) # {}
    BY DEF Masters
  <2> QED
    BY <1>1, <1>2, <2>2, <2>3, <2>4
<1>6. CASE ~Decreases(t, i) /\ Increases(t, i)
  <2>1. Parts(t, i) = <<PlainPart(Low(t[i])), HighPart(t[i])>>
    BY <1>6 DEF Parts
  <2>2. CheckIncrItem(t[i])
    BY <1>2, <1>6 DEF CheckItem
  <2>3. CASE k = 1
    <3>1. PartAt(t, p).readlist = Low(t[i]).val /\ PartAt(t, p).writelist = Low(t[i]).val
      BY <1>1, <2>1, <2>3 DEF PartAt, PlainPart
    <3>2. Low(t[i]) \in Pair
      <4>1. t[i].increase \in Pair \X Pair
        BY <1>3, <1>6 DEF Elem, Increases
      <4> QED
        BY <4>1 DEF Low
    <3>3. HostsOf(Low(t[i]).val) = Masters(Low(t[i]))
      BY <2>2, <3>2, PairShape DEF CheckIncrItem
    <3>4. Master1(t[i].item) \in Masters(Low(t[i])) /\ Master1(t[i].item) \in Masters(t[i].item)
      BY <2>2 DEF CheckIncrItem, Masters
    <3> QED
      BY <1>1, <1>2, <3>1, <3>3, <3>4
  <2>4. CASE k = 2
    <3> DEFINE wlist == <<Master1(High(t[i])), Master2(High(t[i]))>>
               rlist == <<Master1(High(t[i])), Master2(High(t[i])),
                          Master2(Low(t[i])), Master2(Low(t[i]))>>
    <3>1. PartAt(t, p).writelist = wlist /\ PartAt(t, p).readlist = rlist
      BY <1>1, <2>1, <2>4 DEF PartAt, HighPart
    <3>2. HostsOf(wlist) = Masters(High(t[i]))
      BY DEF HostsOf, Masters
    <3>3. HostsOf(rlist) = Masters(High(t[i])) \cup {Master2(Low(t[i]))}
      BY DEF HostsOf, Masters
    <3>4. Master2(t[i].item) \in Masters(High(t[i])) /\ Master2(t[i].item) \in Masters(t[i].item)
      BY <2>2 DEF CheckIncrItem, Masters
    <3> QED
      BY <1>1, <1>2, <3>1, <3>2, <3>3, <3>4
  <2> QED
    BY <2>3, <2>4
<1> QED
  BY <1>4, <1>5, <1>6

\* Every part of a table is read first from the two masters it is written to,
\* in that order: what the reads of both masters (HaCommand) rest on.
THEOREM MastersAreReadFirst ==
    ASSUME NEW t \in Table, NEW p \in PartIds(t), NEW n \in {1, 2}
    PROVE  PartAt(t, p).readlist[n] = PartAt(t, p).writelist[n]
<1>1. PICK i \in DOMAIN t, k \in {1, 2} : p = <<i, k>> /\ k \in DOMAIN Parts(t, i)
  <2>1. p \in (DOMAIN t) \X {1, 2} /\ p[2] \in DOMAIN Parts(t, p[1])
    BY DEF PartIds
  <2> QED
    BY <2>1
<1>2. CASE Decreases(t, i)
  <2>1. Parts(t, i) = <<DecrPart(t[i])>> /\ k = 1
    BY <1>1, <1>2 DEF Parts
  <2> QED
    BY <1>1, <2>1 DEF PartAt, DecrPart
<1>3. CASE ~Decreases(t, i) /\ ~Increases(t, i)
  <2>1. Parts(t, i) = <<PlainPart(t[i].item)>> /\ k = 1
    BY <1>1, <1>3 DEF Parts
  <2> QED
    BY <1>1, <2>1 DEF PartAt, PlainPart
<1>4. CASE ~Decreases(t, i) /\ Increases(t, i)
  <2>1. Parts(t, i) = <<PlainPart(Low(t[i])), HighPart(t[i])>>
    BY <1>4 DEF Parts
  <2>2. CASE k = 1
    BY <1>1, <2>1, <2>2 DEF PartAt, PlainPart
  <2>3. CASE k = 2
    <3> DEFINE wlist == <<Master1(High(t[i])), Master2(High(t[i]))>>
               rlist == <<Master1(High(t[i])), Master2(High(t[i])),
                          Master2(Low(t[i])), Master2(Low(t[i]))>>
    <3>1. PartAt(t, p).writelist = wlist /\ PartAt(t, p).readlist = rlist
      BY <1>1, <2>1, <2>3 DEF PartAt, HighPart
    <3>2. wlist[n] = rlist[n]
      OBVIOUS
    <3> QED
      BY <3>1, <3>2
  <2> QED
    BY <2>2, <2>3
<1> QED
  BY <1>2, <1>3, <1>4

-----------------------------------------------------------------------------

Holding == Writing \cup {"failed"}

\* hustdb_ha_overwrite_table has got past __check_table.
Checked == {"keep", "place", "rollback", "backends", "keepconf", "placeconf", "signal"}

\* The posted table is the table file.
Placed == {"backends", "keepconf", "placeconf", "signal"}

\* Some instance accepted the table.
Accepted(t) == t \in Tables /\ \E some : TRUE \in CheckTable(t, some)

JobType == [pc : Pcs, slot : Slots \cup {NoJob.slot}, id : Int, table : Tables \cup {Missing}]

Types ==
    /\ job \in [Workers -> JobType]
    /\ last \in Nat
    /\ crashes \in Nat

LockInv ==
    /\ \A v, w \in Workers : job[v].pc \in Holding /\ job[w].pc \in Holding => v = w
    /\ \A w \in Workers : job[w].pc \in Holding => locked /\ ~signalled
    /\ signalled => locked
    /\ LockNotLeaked

\* What a worker's place says of its table and of the files.
JobInv(w) ==
    /\ job[w].pc \in {"matched", "freed", "write"} => job[w].table \in Tables
    /\ job[w].pc \in Checked => Accepted(job[w].table)
    /\ job[w].pc \in Placed => table = job[w].table
    /\ job[w].pc \in {"place", "rollback"} => table = Missing
    /\ job[w].pc = "signal" => conf = Upstream(table)

FileInv ==
    /\ FilesSurvive
    /\ \A w \in Workers : JobInv(w)
    /\ signalled => Accepted(table) /\ conf = Upstream(table)

IInv == Types /\ LockInv /\ FileInv

\* There is something in a table that an instance accepts.
LEMMA AcceptedIsThere ==
    ASSUME NEW t, Accepted(t)
    PROVE  t \in Table /\ t # Missing
<1>1. t \in Table
  BY SetTableAssumption DEF Accepted
<1>2. PICK some : TRUE \in CheckTable(t, some)
  BY DEF Accepted
<1>3. t # <<>>
  <2>1. CASE IncludeIncrease(t)
    <3>1. \E i \in DOMAIN t : TRUE
      BY <2>1 DEF IncludeIncrease
    <3> QED
      BY <1>1, <3>1 DEF Table
  <2>2. CASE ~IncludeIncrease(t)
    BY <1>2, <2>2 DEF CheckTable, Buildable
  <2> QED
    BY <2>1, <2>2
<1> QED
  BY <1>1, <1>3 DEF Missing

LEMMA UpstreamIsThere == \A t : Upstream(t) # Missing
BY DEF Upstream, Missing

LEMMA NoJobShape ==
    /\ NoJob \in JobType /\ NoJob.pc = "idle"
    /\ [NoJob EXCEPT !.pc = "gone"] \in JobType
    /\ [NoJob EXCEPT !.pc = "gone"].pc = "gone"
<1> DEFINE any == CHOOSE s \in Slots : TRUE
<1>1. NoJob = [pc |-> "idle", slot |-> any, id |-> 0, table |-> Missing]
  BY DEF NoJob
<1> HIDE DEF any
<1>2. NoJob.slot = any /\ NoJob.pc = "idle"
  BY <1>1
<1>3. [NoJob EXCEPT !.pc = "gone"] = [pc |-> "gone", slot |-> any, id |-> 0, table |-> Missing]
  BY <1>1
<1> QED
  BY <1>1, <1>2, <1>3 DEF JobType, Pcs

LEMMA InitHolds == Init => IInv
<1> SUFFICES ASSUME Init PROVE IInv
  OBVIOUS
<1>1. Types
  BY NoJobShape DEF Init, Types
<1>2. LockInv
  BY NoJobShape DEF Init, LockInv, LockNotLeaked, Holding, Writing
<1>3. FilesSurvive
  <2>1. FirstTable # Missing
    BY SetTableAssumption DEF Builds, Buildable, Missing
  <2> QED
    BY <2>1, UpstreamIsThere DEF Init, FilesSurvive
<1>4. \A w \in Workers : JobInv(w)
  BY NoJobShape DEF Init, JobInv, Checked, Placed
<1> QED
  BY <1>1, <1>2, <1>3, <1>4 DEF Init, IInv, FileInv

\* One worker's job changes, in its place only.
LEMMA GoToShape ==
    ASSUME Types, NEW w \in Workers, NEW pc \in Pcs, GoTo(w, pc)
    PROVE  /\ job' \in [Workers -> JobType]
           /\ job'[w].pc = pc /\ job'[w].table = job[w].table
           /\ \A v \in Workers \ {w} : job'[v] = job[v]
<1>1. job[w] \in JobType /\ job' = [job EXCEPT ![w] = [job[w] EXCEPT !.pc = pc]]
  BY DEF Types, GoTo
<1>2. /\ [job[w] EXCEPT !.pc = pc] \in JobType
      /\ [job[w] EXCEPT !.pc = pc].pc = pc
      /\ [job[w] EXCEPT !.pc = pc].table = job[w].table
  BY <1>1 DEF JobType
<1> QED
  BY <1>1, <1>2 DEF Types

\* A worker is done with its request, or dies.
LEMMA LeaveShape ==
    ASSUME Types, NEW w \in Workers, job' = [job EXCEPT ![w] = NoJob]
    PROVE  /\ job' \in [Workers -> JobType]
           /\ job'[w].pc = "idle"
           /\ \A v \in Workers \ {w} : job'[v] = job[v]
BY NoJobShape DEF Types

\* A worker that has the lock moves on and keeps it.
LEMMA LockStays ==
    ASSUME LockInv, NEW w \in Workers, NEW pc \in Holding,
           job[w].pc \in Holding, job'[w].pc = pc,
           \A v \in Workers \ {w} : job'[v] = job[v],
           UNCHANGED <<locked, signalled, crashes>>
    PROVE  LockInv'
<1>1. \A v \in Workers : job'[v].pc \in Holding => job[v].pc \in Holding
  OBVIOUS
<1>2. locked => \E v \in Workers : job'[v].pc \in Writing \cup {"failed"}
  BY DEF Holding
<1> QED
  BY <1>1, <1>2 DEF LockInv, LockNotLeaked

\* What the others have in the files is not disturbed: they have nothing there.
LEMMA OthersStay ==
    ASSUME LockInv, FileInv, NEW w \in Workers, job[w].pc \in Holding,
           \A v \in Workers \ {w} : job'[v] = job[v]
    PROVE  \A v \in Workers \ {w} : JobInv(v)'
<1> SUFFICES ASSUME NEW v \in Workers \ {w} PROVE JobInv(v)'
  OBVIOUS
<1>1. job[v].pc \notin Holding /\ job'[v] = job[v] /\ JobInv(v)
  BY DEF LockInv, FileInv
<1> QED
  BY <1>1 DEF JobInv, Holding, Writing, Checked, Placed

\* Nor by a step that leaves the files alone.
LEMMA OthersSame ==
    ASSUME FileInv, NEW w, UNCHANGED files, \A v \in Workers \ {w} : job'[v] = job[v]
    PROVE  \A v \in Workers \ {w} : JobInv(v)'
BY DEF FileInv, JobInv, files, Accepted

\* A worker without the lock stays without it.
LEMMA LockLeft ==
    ASSUME LockInv, NEW w \in Workers, job[w].pc \notin Holding, job'[w].pc \notin Holding,
           \A v \in Workers \ {w} : job'[v] = job[v],
           UNCHANGED <<locked, signalled, crashes>>
    PROVE  LockInv'
<1>1. \A v \in Workers : job'[v].pc \in Holding <=> job[v].pc \in Holding
  OBVIOUS
<1> QED
  BY <1>1 DEF LockInv, LockNotLeaked, Holding

LEMMA PostTableKeeps ==
    ASSUME IInv, NEW w \in Workers, PostTable(w)
    PROVE  IInv'
<1>1. PICK id \in 1 .. last, s \in Slots, t \in Tables :
          job' = [job EXCEPT ![w] = [pc |-> "matched", slot |-> s, id |-> id, table |-> t]]
  BY DEF PostTable
<1>2. [pc |-> "matched", slot |-> s, id |-> id, table |-> t] \in JobType
  BY DEF IInv, Types, JobType, Pcs
<1>3. /\ job' \in [Workers -> JobType]
      /\ job'[w] = [pc |-> "matched", slot |-> s, id |-> id, table |-> t]
      /\ \A v \in Workers \ {w} : job'[v] = job[v]
  BY <1>1, <1>2 DEF IInv, Types
<1>4. UNCHANGED <<locked, files, signalled, last, crashes>> /\ job[w].pc = "idle"
  BY DEF PostTable
<1>5. LockInv'
  BY <1>3, <1>4, LockLeft DEF IInv, Holding, Writing
<1>6. \A v \in Workers : JobInv(v)'
  <2>1. JobInv(w)'
    BY <1>3 DEF JobInv, Checked, Placed
  <2> QED
    BY <1>3, <1>4, <2>1, OthersSame DEF IInv
<1> QED
  BY <1>3, <1>4, <1>5, <1>6 DEF IInv, Types, FileInv, FilesSurvive, files, Accepted

\* The steps of a worker that has not taken the lock, and of one that takes it.
LEMMA BeforeLockKeeps ==
    ASSUME IInv, NEW w \in Workers, FreeIdentifier(w) \/ LockTable(w)
    PROVE  IInv'
<1>1. UNCHANGED <<files, signalled, last, crashes>>
  BY DEF FreeIdentifier, LockTable, counts
<1>2. job[w].pc \in {"matched", "freed"} /\ job[w].table \in Tables
  BY DEF FreeIdentifier, LockTable, IInv, FileInv, JobInv
<1>3. CASE FreeIdentifier(w)
  <2>1. GoTo(w, "freed") /\ UNCHANGED locked
    BY <1>3 DEF FreeIdentifier
  <2>2. /\ job' \in [Workers -> JobType]
        /\ job'[w].pc = "freed" /\ job'[w].table = job[w].table
        /\ \A v \in Workers \ {w} : job'[v] = job[v]
    BY <2>1, GoToShape DEF IInv, Pcs
  <2>3. LockInv'
    BY <1>1, <1>2, <2>1, <2>2, LockLeft DEF IInv, Holding, Writing
  <2>4. JobInv(w)'
    BY <1>2, <2>2 DEF JobInv, Checked, Placed
  <2>5. \A v \in Workers : JobInv(v)'
    BY <1>1, <2>2, <2>4, OthersSame DEF IInv
  <2> QED
    BY <1>1, <2>2, <2>3, <2>5 DEF IInv, Types, FileInv, FilesSurvive, files, Accepted
<1>4. CASE LockTable(w) /\ ~locked
  <2>1. GoTo(w, "write") /\ locked'
    BY <1>4 DEF LockTable, MayLock
  <2>2. /\ job' \in [Workers -> JobType]
        /\ job'[w].pc = "write" /\ job'[w].table = job[w].table
        /\ \A v \in Workers \ {w} : job'[v] = job[v]
    BY <2>1, GoToShape DEF IInv, Pcs
  <2>3. LockInv'
    <3>1. \A v \in Workers : job[v].pc \notin Holding /\ ~signalled
      BY <1>4 DEF IInv, LockInv
    <3> QED
      BY <1>1, <2>1, <2>2, <3>1 DEF LockInv, LockNotLeaked, Holding, Writing
  <2>4. JobInv(w)'
    BY <1>2, <2>2 DEF JobInv, Checked, Placed
  <2>5. \A v \in Workers : JobInv(v)'
    BY <1>1, <2>2, <2>4, OthersSame DEF IInv
  <2> QED
    BY <1>1, <2>2, <2>3, <2>5 DEF IInv, Types, FileInv, FilesSurvive, files, Accepted
<1>5. CASE LockTable(w) /\ locked
  <2>1. job' = [job EXCEPT ![w] = NoJob] /\ UNCHANGED locked
    BY <1>5 DEF LockTable, MayLock
  <2>2. /\ job' \in [Workers -> JobType] /\ job'[w].pc = "idle"
        /\ \A v \in Workers \ {w} : job'[v] = job[v]
    BY <2>1, LeaveShape DEF IInv
  <2>3. LockInv'
    BY <1>1, <1>2, <2>1, <2>2, LockLeft DEF IInv, Holding, Writing
  <2>4. JobInv(w)'
    BY <2>2 DEF JobInv, Checked, Placed
  <2>5. \A v \in Workers : JobInv(v)'
    BY <1>1, <2>2, <2>4, OthersSame DEF IInv
  <2> QED
    BY <1>1, <2>2, <2>3, <2>5 DEF IInv, Types, FileInv, FilesSurvive, files, Accepted
<1> QED
  BY <1>3, <1>4, <1>5

\* The steps of a worker that has the lock and keeps it need only be looked at
\* for what they do to the files.
LEMMA HolderKeeps ==
    ASSUME IInv, NEW w \in Workers, NEW pc \in Holding, job[w].pc \in Holding,
           GoTo(w, pc), UNCHANGED <<locked, signalled, last, crashes>>,
           FilesSurvive',
           job'[w].pc = pc /\ job'[w].table = job[w].table => JobInv(w)'
    PROVE  IInv'
<1>1. pc \in Pcs
  BY DEF Holding, Writing, Pcs
<1>2. /\ job' \in [Workers -> JobType]
      /\ job'[w].pc = pc /\ job'[w].table = job[w].table
      /\ \A v \in Workers \ {w} : job'[v] = job[v]
  BY <1>1, GoToShape DEF IInv
<1>3. LockInv'
  BY <1>2, LockStays DEF IInv
<1>4. \A v \in Workers : JobInv(v)'
  BY <1>2, OthersStay DEF IInv
<1>5. ~signalled'
  BY DEF IInv, LockInv
<1> QED
  BY <1>2, <1>3, <1>4, <1>5 DEF IInv, Types, FileInv

\* hustdb_ha_overwrite_table.
LEMMA OverwriteTableKeeps ==
    ASSUME IInv, NEW w \in Workers,
           WriteTmp(w) \/ KeepTable(w) \/ PlaceTable(w) \/ Rollback(w)
    PROVE  IInv'
<1>1. UNCHANGED <<locked, signalled, last, crashes, conf, confDel>>
  BY DEF WriteTmp, KeepTable, PlaceTable, Rollback, counts, files
<1>2. FilesSurvive /\ JobInv(w)
  BY DEF IInv, FileInv
<1>3. {"write", "keep", "place", "rollback", "backends", "failed"} \subseteq Holding
  BY DEF Holding, Writing
<1>4. CASE WriteTmp(w)
  <2>1. job[w].pc = "write" /\ UNCHANGED files
    BY <1>4 DEF WriteTmp
  <2>2. FilesSurvive'
    BY <1>2, <2>1 DEF FilesSurvive, files
  <2>3. CASE GoTo(w, "failed")
    <3>1. job'[w].pc = "failed" => JobInv(w)'
      BY DEF JobInv, Checked, Placed
    <3> QED
      BY <1>1, <1>3, <2>1, <2>2, <2>3, <3>1, HolderKeeps
  <2>4. CASE TRUE \in CheckTable(job[w].table, peers) /\ GoTo(w, "keep")
    <3>1. Accepted(job[w].table)
      BY <1>2, <2>1, <2>4 DEF JobInv, Accepted
    <3>2. job'[w].pc = "keep" /\ job'[w].table = job[w].table => JobInv(w)'
      BY <3>1 DEF JobInv, Accepted, Placed
    <3> QED
      BY <1>1, <1>3, <2>1, <2>2, <2>4, <3>2, HolderKeeps
  <2> QED
    BY <1>4, <2>3, <2>4 DEF WriteTmp
<1>5. CASE KeepTable(w)
  <2>1. job[w].pc = "keep" /\ Accepted(job[w].table)
    BY <1>2, <1>5 DEF KeepTable, JobInv, Checked
  <2>2. CASE Kept /\ GoTo(w, "place")
    <3>1. table' = Missing /\ tableDel' # Missing
      BY <2>2 DEF Kept, Missing
    <3>2. FilesSurvive'
      BY <1>1, <1>2, <3>1 DEF FilesSurvive, Missing
    <3>3. job'[w].pc = "place" /\ job'[w].table = job[w].table => JobInv(w)'
      BY <2>1, <3>1 DEF JobInv, Accepted, Placed, Missing
    <3> QED
      BY <1>1, <1>3, <2>1, <2>2, <3>2, <3>3, HolderKeeps
  <2>3. CASE GoTo(w, "failed") /\ UNCHANGED <<table, tableDel>>
    <3>1. FilesSurvive'
      BY <1>1, <1>2, <2>3 DEF FilesSurvive, Missing
    <3>2. job'[w].pc = "failed" => JobInv(w)'
      BY DEF JobInv, Checked, Placed
    <3> QED
      BY <1>1, <1>3, <2>1, <2>3, <3>1, <3>2, HolderKeeps
  <2> QED
    BY <1>5, <2>2, <2>3 DEF KeepTable
<1>6. CASE PlaceTable(w)
  <2>1. /\ job[w].pc = "place" /\ UNCHANGED tableDel
        /\ table = Missing /\ Accepted(job[w].table)
    BY <1>2, <1>6 DEF PlaceTable, JobInv, Checked
  <2>2. CASE table' = job[w].table /\ GoTo(w, "backends")
    <3>1. FilesSurvive'
      BY <1>1, <1>2, <2>1, <2>2, AcceptedIsThere DEF FilesSurvive, Missing
    <3>2. job'[w].pc = "backends" /\ job'[w].table = job[w].table => JobInv(w)'
      BY <2>1, <2>2 DEF JobInv, Accepted
    <3> QED
      BY <1>1, <1>3, <2>1, <2>2, <3>1, <3>2, HolderKeeps
  <2>3. CASE GoTo(w, "rollback") /\ UNCHANGED table
    <3>1. FilesSurvive'
      BY <1>1, <1>2, <2>1, <2>3 DEF FilesSurvive, Missing
    <3>2. job'[w].pc = "rollback" /\ job'[w].table = job[w].table => JobInv(w)'
      BY <2>1, <2>3 DEF JobInv, Accepted, Placed, Missing
    <3> QED
      BY <1>1, <1>3, <2>1, <2>3, <3>1, <3>2, HolderKeeps
  <2> QED
    BY <1>6, <2>2, <2>3 DEF PlaceTable
<1>7. CASE Rollback(w)
  <2>1. job[w].pc = "rollback" /\ GoTo(w, "failed") /\ table = Missing
    BY <1>2, <1>7 DEF Rollback, JobInv
  <2>2. FilesSurvive'
    BY <1>1, <1>2, <1>7, <2>1 DEF Rollback, FilesSurvive, Missing
  <2>3. job'[w].pc = "failed" => JobInv(w)'
    BY DEF JobInv, Checked, Placed
  <2> QED
    BY <1>1, <1>3, <2>1, <2>2, <2>3, HolderKeeps
<1> QED
  BY <1>4, <1>5, <1>6, <1>7

\* hustdb_ha_load_backends and hustdb_ha_overwrite_backends.
LEMMA OverwriteBackendsKeeps ==
    ASSUME IInv, NEW w \in Workers, LoadBackends(w) \/ KeepConf(w) \/ PlaceConf(w)
    PROVE  IInv'
<1>1. UNCHANGED <<locked, signalled, last, crashes, table, tableDel>>
  BY DEF LoadBackends, KeepConf, PlaceConf, counts, files
<1>2. /\ FilesSurvive
      /\ job[w].pc \in {"backends", "keepconf", "placeconf"}
      /\ Accepted(job[w].table) /\ table = job[w].table
  BY DEF IInv, FileInv, JobInv, LoadBackends, KeepConf, PlaceConf, Checked, Placed
<1>3. {"backends", "keepconf", "placeconf", "signal", "failed"} \subseteq Holding
  BY DEF Holding, Writing
<1>4. FilesSurvive'
  <2>1. CASE LoadBackends(w) \/ UNCHANGED <<conf, confDel>>
    BY <1>1, <1>2, <2>1 DEF FilesSurvive, LoadBackends, files, Missing
  <2>2. CASE KeepConf(w) /\ confDel' = conf /\ conf # Missing
    BY <1>1, <1>2, <2>2 DEF FilesSurvive, Missing
  <2>3. CASE PlaceConf(w) /\ conf' = Upstream(job[w].table)
    BY <1>1, <1>2, <2>3, UpstreamIsThere DEF FilesSurvive, Missing
  <2> QED
    BY <2>1, <2>2, <2>3 DEF LoadBackends, KeepConf, PlaceConf
<1>5. ASSUME NEW pc \in {"keepconf", "placeconf", "failed"}, job'[w].pc = pc,
             job'[w].table = job[w].table
      PROVE  JobInv(w)'
  BY <1>1, <1>2, <1>5 DEF JobInv, Accepted, Placed
<1>6. CASE GoTo(w, "keepconf") \/ GoTo(w, "placeconf") \/ GoTo(w, "failed")
  <2>1. PICK pc \in {"keepconf", "placeconf", "failed"} : GoTo(w, pc)
    BY <1>6
  <2>2. pc \in Holding /\ job[w].pc \in Holding
    BY <1>2, <1>3
  <2> QED
    BY <1>1, <1>4, <1>5, <2>1, <2>2, HolderKeeps
<1>7. CASE PlaceConf(w) /\ conf' = Upstream(job[w].table) /\ GoTo(w, "signal")
  <2>1. conf' = Upstream(table')
    BY <1>1, <1>2, <1>7
  <2>2. job'[w].pc = "signal" /\ job'[w].table = job[w].table => JobInv(w)'
    BY <1>1, <1>2, <2>1 DEF JobInv, Accepted
  <2> QED
    BY <1>1, <1>2, <1>3, <1>4, <1>7, <2>2, HolderKeeps
<1> QED
  BY <1>6, <1>7 DEF LoadBackends, KeepConf, PlaceConf, AfterFailedConf

\* A worker that has the lock is done: it hands the lock over, releases it, or
\* dies; or one without the lock dies.
LEMMA LeavingKeeps ==
    ASSUME IInv, NEW w \in Workers, job' = [job EXCEPT ![w] = NoJob],
           UNCHANGED <<files, last>>, crashes' \in Nat,
           \/ RestartInstance(w) /\ signalled'
           \/ Fail(w)
           \/ Crash(w)
    PROVE  IInv'
<1>1. /\ job' \in [Workers -> JobType] /\ job'[w].pc = "idle"
      /\ \A v \in Workers \ {w} : job'[v] = job[v]
  BY LeaveShape DEF IInv
<1>2. Types'
  BY <1>1 DEF IInv, Types
<1>3. \A v \in Workers : JobInv(v)'
  <2>1. JobInv(w)'
    BY <1>1 DEF JobInv, Checked, Placed
  <2> QED
    BY <1>1, <2>1, OthersSame DEF IInv
<1>4. FilesSurvive'
  BY DEF IInv, FileInv, FilesSurvive, files, Missing
<1>5. \A v \in Workers : job'[v].pc \in Holding => job[v].pc \in Holding /\ v # w
  BY <1>1 DEF Holding, Writing
<1>6. CASE RestartInstance(w) /\ signalled'
  <2>1. job[w].pc = "signal" /\ UNCHANGED <<locked, crashes>>
    BY <1>6 DEF RestartInstance, counts
  <2>2. job[w].pc \in Holding /\ locked
    BY <2>1 DEF IInv, LockInv, Holding, Writing
  <2>3. \A v \in Workers : job'[v].pc \notin Holding
    BY <1>5, <2>2 DEF IInv, LockInv
  <2>4. LockInv'
    BY <1>6, <2>1, <2>2, <2>3 DEF LockInv, LockNotLeaked
  <2>5. Accepted(table) /\ conf = Upstream(table)
    BY <2>1 DEF IInv, FileInv, JobInv, Checked, Placed
  <2> QED
    BY <1>2, <1>3, <1>4, <2>4, <2>5 DEF IInv, FileInv, files, Accepted
<1>7. CASE Fail(w)
  <2>1. job[w].pc = "failed" /\ ~locked' /\ UNCHANGED signalled
    BY <1>7 DEF Fail, Release
  <2>2. job[w].pc \in Holding /\ ~signalled
    BY <2>1 DEF IInv, LockInv, Holding
  <2>3. \A v \in Workers : job'[v].pc \notin Holding
    BY <1>5, <2>2 DEF IInv, LockInv
  <2>4. LockInv'
    BY <2>1, <2>2, <2>3 DEF LockInv, LockNotLeaked
  <2> QED
    BY <1>2, <1>3, <1>4, <2>1, <2>2, <2>4 DEF IInv, FileInv
<1>8. CASE Crash(w)
  <2>1. UNCHANGED <<locked, signalled>> /\ crashes' > 0
    BY <1>8 DEF Crash, IInv, Types
  <2>2. LockInv'
    BY <1>5, <2>1 DEF IInv, LockInv, LockNotLeaked
  <2> QED
    BY <1>2, <1>3, <1>4, <2>1, <2>2 DEF IInv, FileInv, files, Accepted
<1> QED
  BY <1>6, <1>7, <1>8

\* The new instance, or none: all jobs are gone.
LEMMA InstanceKeeps ==
    ASSUME IInv, TakeOver \/ Outage
    PROVE  IInv'
<1>1. PICK j \in JobType : j.pc \in {"idle", "gone"} /\ job' = [w \in Workers |-> j]
  BY NoJobShape DEF TakeOver, Outage
<1>2. UNCHANGED <<files, last, crashes>> /\ signalled
  BY DEF TakeOver, Outage, counts
<1>3. \A w \in Workers : job'[w].pc \in {"idle", "gone"}
  BY <1>1
<1>4. Types'
  BY <1>1, <1>2 DEF IInv, Types
<1>5. LockInv'
  <2>1. \A w \in Workers : job'[w].pc \notin Holding
    BY <1>3 DEF Holding, Writing
  <2>2. signalled' => locked'
    BY DEF TakeOver, Outage, IInv, LockInv
  <2>3. locked' => signalled'
    BY <1>2 DEF TakeOver, Outage
  <2> QED
    BY <2>1, <2>2, <2>3 DEF LockInv, LockNotLeaked
<1>6. \A w \in Workers : JobInv(w)'
  BY <1>3 DEF JobInv, Checked, Placed
<1> QED
  BY <1>2, <1>4, <1>5, <1>6 DEF IInv, FileInv, FilesSurvive, files, Accepted, Missing

\* A step that has nothing to do with jobs, lock and files.
LEMMA AsideKeeps ==
    ASSUME IInv, UNCHANGED <<job, files, locked, signalled, crashes>>, last' \in Nat
    PROVE  IInv'
<1>1. Types' /\ LockInv'
  BY DEF IInv, Types, LockInv, LockNotLeaked
<1>2. \A w \in Workers : JobInv(w)'
  BY DEF IInv, FileInv, JobInv, files, Accepted
<1> QED
  BY <1>1, <1>2 DEF IInv, FileInv, FilesSurvive, files, Accepted, Missing

LEMMA StepKeeps == IInv /\ [Next]_vars => IInv'
<1> SUFFICES ASSUME IInv, [Next]_vars PROVE IInv'
  OBVIOUS
<1>1. CASE GenerateIdentifier
  <2>1. PICK id \in {last, last + 1} \ {0} : last' = id
    BY <1>1, Zenon DEF GenerateIdentifier
  <2>2. last' \in Nat
    BY <2>1 DEF IInv, Types
  <2>3. UNCHANGED <<job, files, locked, signalled, crashes>>
    BY <1>1, Zenon DEF GenerateIdentifier
  <2> QED
    BY <2>2, <2>3, AsideKeeps
<1>2. ASSUME NEW w \in Workers, PostTable(w) PROVE IInv'
  BY <1>2, PostTableKeeps
<1>3. ASSUME NEW w \in Workers, SetTable(w) PROVE IInv'
  <2>1. CASE RestartInstance(w)
    <3>1. CASE signalled' = TRUE /\ job' = [job EXCEPT ![w] = NoJob]
      BY <2>1, <3>1, LeavingKeeps DEF RestartInstance, counts, IInv, Types
    <3>2. CASE GoTo(w, "failed") /\ UNCHANGED signalled
      <4>1. UNCHANGED <<locked, files, last, crashes>> /\ job[w].pc = "signal"
        BY <2>1 DEF RestartInstance, counts
      <4>2. FilesSurvive'
        BY <4>1 DEF IInv, FileInv, FilesSurvive, files, Missing
      <4>3. job'[w].pc = "failed" => JobInv(w)'
        BY DEF JobInv, Checked, Placed
      <4> QED
        BY <3>2, <4>1, <4>2, <4>3, HolderKeeps DEF Holding, Writing
    <3> QED
      BY <2>1, <3>1, <3>2 DEF RestartInstance
  <2>2. CASE Fail(w)
    BY <2>2, LeavingKeeps DEF Fail, counts, IInv, Types
  <2> QED
    BY <1>3, <2>1, <2>2, BeforeLockKeeps, OverwriteTableKeeps, OverwriteBackendsKeeps,
       Zenon DEF SetTable
<1>4. ASSUME NEW w \in Workers, Crash(w) PROVE IInv'
  <2>1. job' = [job EXCEPT ![w] = NoJob] /\ UNCHANGED <<files, last>>
    BY <1>4 DEF Crash
  <2>2. crashes' \in Nat
    BY <1>4 DEF Crash, IInv, Types
  <2> QED
    BY <1>4, <2>1, <2>2, LeavingKeeps
<1>5. CASE TakeOver \/ Outage
  BY <1>5, InstanceKeeps
<1>6. CASE Tick
  BY <1>6, AsideKeeps DEF Tick, IInv, Types
<1>7. CASE UNCHANGED vars
  BY <1>7, AsideKeeps DEF vars, counts, IInv, Types
<1> QED
  BY <1>1, <1>2, <1>3, <1>4, <1>5, <1>6, <1>7 DEF Next

LEMMA Inductive == Spec => []IInv
BY InitHolds, StepKeeps, PTL DEF Spec

\* Whatever workers die and whatever operations on files fail, table file and
\* nginx.conf are written by one set_table request at a time, and by none once a
\* new instance was asked for: hustdb_ha_lock_table is enough, without a mutex.
THEOREM OneWriterAlways == Spec => []OneWriter
<1>1. IInv => OneWriter
  BY DEF IInv, LockInv, OneWriter, Holding
<1> QED
  BY <1>1, Inductive, PTL

\* The flag in shared memory has an owner who will clear it, or is the new
\* instance's, unless a process died: no error path of __set_hash_table keeps it.
THEOREM LockNotLeakedAlways == Spec => []LockNotLeaked
<1>1. IInv => LockNotLeaked
  BY DEF IInv, LockInv
<1> QED
  BY <1>1, Inductive, PTL

\* Table and nginx.conf are each on the disk in one of two names, at every point
\* where an operation may fail or a process may die.
THEOREM FilesSurviveAlways == Spec => []FilesSurvive
<1>1. IInv => FilesSurvive
  BY DEF IInv, FileInv
<1> QED
  BY <1>1, Inductive, PTL

\* The instance that is asked for finds both files, and they agree; it builds what
\* the old one accepted with other peers, if the check could vouch for it, and
\* leaves each range with a master that has its data.
THEOREM InstanceCanStartAlways == Spec => []InstanceCanStart
<1>1. ASSUME IInv, signalled PROVE
        /\ table # Missing /\ conf = Upstream(table)
        /\ Vouched(table) => Builds(table, conf[1]) /\ KeepsAMaster(table, conf[1])
  <2>1. Accepted(table) /\ conf = Upstream(table)
    BY <1>1 DEF IInv, FileInv
  <2>2. table \in Table /\ table # Missing
    BY <2>1, AcceptedIsThere
  <2>3. PICK some : TRUE \in CheckTable(table, some)
    BY <2>1 DEF Accepted
  <2>4. conf[1] = Backends(table)
    BY <2>1 DEF Upstream
  <2>5. Vouched(table) => Builds(table, conf[1])
    BY <2>2, <2>3, <2>4, AcceptedTableStarts
  <2>6. Builds(table, conf[1]) => KeepsAMaster(table, conf[1])
    BY <2>2, BuiltTableKeepsAMaster
  <2> QED
    BY <2>1, <2>2, <2>5, <2>6
<1>2. IInv => InstanceCanStart
  BY <1>1 DEF InstanceCanStart
<1> QED
  BY <1>2, Inductive, PTL

-----------------------------------------------------------------------------

Ident == [id : Nat, exptime : Nat]

\* Every slot is in one of the two lists, once.
ListsInv(c, f) ==
    /\ c \in List(Slots) /\ f \in List(Slots)
    /\ Range(c) \cap Range(f) = {}
    /\ Range(c) \cup Range(f) = Slots

\* The inductive invariant of the identifiers: what is in the cache was not used
\* since it was given out, and who looked one up has a slot.
IdentInv ==
    /\ ListsInv(cache, free)
    /\ ident \in [Slots -> Ident]
    /\ now \in Nat
    /\ \A s \in Range(cache) : <<s, ident[s].id>> \notin spent
    /\ \A w \in Workers : job[w].pc = "matched" => job[w].slot \in Slots

\* Two lists that share the slots are as long as there are slots.
LEMMA ListsConserve ==
    ASSUME NEW c, NEW f, ListsInv(c, f)
    PROVE  /\ Len(c) + Len(f) = Cardinality(Slots)
           /\ Range(c) \cup Range(f) = Slots
<1>1. /\ IsFiniteSet(Range(c)) /\ Cardinality(Range(c)) = Len(c) /\ Len(c) \in Nat
      /\ IsFiniteSet(Range(f)) /\ Cardinality(Range(f)) = Len(f) /\ Len(f) \in Nat
  BY LengthCounts DEF ListsInv
<1>2. Cardinality(Range(c) \cup Range(f)) = Len(c) + Len(f) - Cardinality(Range(c) \cap Range(f))
  BY <1>1, FS_Union
<1>3. Cardinality(Range(c) \cap Range(f)) = 0
  BY FS_EmptySet DEF ListsInv
<1>4. Range(c) \cup Range(f) = Slots
  BY DEF ListsInv
<1>5. Cardinality(Slots) = Len(c) + Len(f) - 0
  BY <1>2, <1>3, <1>4
<1> QED
  BY <1>1, <1>4, <1>5

\* __free_identifier keeps every slot in one list, whichever list it was in.
LEMMA FreeKeepsLists ==
    ASSUME NEW c, NEW f, ListsInv(c, f), NEW s \in Slots
    PROVE  /\ ListsInv(RemoveFirst(c, s), <<s>> \o RemoveFirst(f, s))
           /\ Range(RemoveFirst(c, s)) = Range(c) \ {s}
<1> DEFINE c2 == RemoveFirst(c, s)
           f2 == RemoveFirst(f, s)
<1>1. /\ c2 \in List(Slots) /\ Range(c2) = Range(c) \ {s}
      /\ f2 \in List(Slots) /\ Range(f2) = Range(f) \ {s}
  BY Unlink DEF ListsInv
<1> HIDE DEF c2, f2
<1>2. <<s>> \o f2 \in List(Slots) /\ Range(<<s>> \o f2) = Range(f2) \cup {s}
  BY <1>1, PushHead
<1>3. ListsInv(c2, <<s>> \o f2)
  BY <1>1, <1>2 DEF ListsInv
<1> QED
  BY <1>1, <1>3 DEF c2, f2

\* __refresh_expired frees one slot or none, and no identifier changes.
LEMMA RefreshKeepsLists ==
    ASSUME IdentInv
    PROVE  LET l == Refreshed
           IN  /\ ListsInv(l.cache, l.free)
               /\ Range(l.cache) \subseteq Range(cache)
               /\ l.ident \in [Slots -> Ident]
               /\ \A s \in Slots : l.ident[s].id = ident[s].id
<1>1. CASE Expired = {}
  BY <1>1 DEF Refreshed, IdentInv
<1>2. CASE Expired # {}
  <2> DEFINE i == CHOOSE i \in Expired : \A j \in Expired : i <= j
             s == cache[i]
  <2>1. Expired \subseteq Nat /\ Expired \subseteq DOMAIN cache
    BY DEF Expired, IdentInv, ListsInv, List
  <2>2. i \in Expired
    <3>1. \E k \in Expired : \A j \in Expired : k <= j
      BY <1>2, <2>1, HasLeast
    <3> QED
      BY <3>1
  <2>3. s \in Range(cache) /\ s \in Slots
    <3> HIDE DEF i
    <3>1. s \in Range(cache)
      BY <2>1, <2>2 DEF Range
    <3> QED
      BY <3>1, MembersInSet DEF IdentInv, ListsInv
  <2>4. Refreshed = [cache |-> RemoveFirst(cache, s), free |-> <<s>> \o free,
                     ident |-> [ident EXCEPT ![s].exptime = 0]]
    BY <1>2 DEF Refreshed
  <2> HIDE DEF s
  <2>5. /\ RemoveFirst(cache, s) \in List(Slots)
        /\ Range(RemoveFirst(cache, s)) = Range(cache) \ {s}
    BY Unlink DEF IdentInv, ListsInv
  <2>6. <<s>> \o free \in List(Slots) /\ Range(<<s>> \o free) = Range(free) \cup {s}
    BY <2>3, PushHead DEF IdentInv, ListsInv
  <2>7. ListsInv(RemoveFirst(cache, s), <<s>> \o free)
    BY <2>3, <2>5, <2>6 DEF IdentInv, ListsInv
  <2>8. /\ [ident EXCEPT ![s].exptime = 0] \in [Slots -> Ident]
        /\ \A r \in Slots : [ident EXCEPT ![s].exptime = 0][r].id = ident[r].id
    BY <2>3 DEF IdentInv, Ident
  <2> QED
    BY <2>4, <2>5, <2>7, <2>8
<1> QED
  BY <1>1, <1>2

\* A slot leaves the free list with a new identifier that nobody has used.
LEMMA GenerateKeepsIdents ==
    ASSUME IInv, IdentInv, GenerateIdentifier
    PROVE  IdentInv'
<1> DEFINE l == Refreshed
<1>1. /\ ListsInv(l.cache, l.free)
      /\ Range(l.cache) \subseteq Range(cache)
      /\ l.ident \in [Slots -> Ident]
      /\ \A s \in Slots : l.ident[s].id = ident[s].id
  BY RefreshKeepsLists
<1>2. UNCHANGED <<job, now>>
  BY Zenon DEF GenerateIdentifier
<1>3. \/ cache' = l.cache /\ free' = l.free /\ ident' = l.ident /\ spent' = spent
      \/ \E id \in {last, last + 1} \ {0} :
            /\ l.free # <<>>
            /\ cache' = <<Head(l.free)>> \o l.cache
            /\ free' = Tail(l.free)
            /\ ident' = [l.ident EXCEPT ![Head(l.free)] = [id |-> id, exptime |-> now + Timeout]]
            /\ spent' = spent \ {<<Head(l.free), id>>}
  BY Zenon DEF GenerateIdentifier
<1> HIDE DEF l
<1>4. \A s \in Range(l.cache) : s \in Slots /\ <<s, l.ident[s].id>> \notin spent
  BY <1>1, MembersInSet DEF IdentInv, ListsInv
<1>5. CASE cache' = l.cache /\ free' = l.free /\ ident' = l.ident /\ spent' = spent
  BY <1>1, <1>2, <1>4, <1>5 DEF IdentInv
<1>6. ASSUME NEW id \in {last, last + 1} \ {0}, l.free # <<>>,
             cache' = <<Head(l.free)>> \o l.cache, free' = Tail(l.free),
             ident' = [l.ident EXCEPT ![Head(l.free)] = [id |-> id, exptime |-> now + Timeout]],
             spent' = spent \ {<<Head(l.free), id>>}
      PROVE  IdentInv'
  <2>1. PICK s \in Slots : /\ s = Head(l.free) /\ s \in Range(l.free)
                           /\ free' \in List(Slots) /\ Range(free') = Range(l.free) \ {s}
    BY <1>1, <1>6, TakeFromHead DEF ListsInv
  <2>2. s \notin Range(l.cache)
    BY <1>1, <2>1 DEF ListsInv
  <2>3. cache' \in List(Slots) /\ Range(cache') = Range(l.cache) \cup {s}
    BY <1>1, <1>6, <2>1, <2>2, PushHead DEF ListsInv
  <2>4. ListsInv(cache', free')
    BY <1>1, <2>1, <2>2, <2>3 DEF ListsInv
  <2>5. id \in Nat /\ now + Timeout \in Nat
    BY SetTableAssumption DEF IInv, Types, IdentInv
  <2>6. /\ ident' \in [Slots -> Ident]
        /\ ident'[s].id = id /\ \A r \in Slots \ {s} : ident'[r] = l.ident[r]
    BY <1>1, <1>6, <2>1, <2>5 DEF Ident
  <2>7. spent' = spent \ {<<s, id>>}
    BY <1>6, <2>1
  <2>8. ASSUME NEW r \in Range(cache') PROVE <<r, ident'[r].id>> \notin spent'
    <3>1. CASE r = s
      BY <2>6, <2>7, <3>1
    <3>2. CASE r # s
      BY <1>4, <2>3, <2>6, <2>7, <2>8, <3>2
    <3> QED
      BY <3>1, <3>2
  <2> QED
    BY <1>2, <2>4, <2>6, <2>8 DEF IdentInv
<1> QED
  BY <1>3, <1>5, <1>6

\* The slot of a used identifier is free, in whatever list it was meanwhile.
LEMMA FreeKeepsIdents ==
    ASSUME IInv, IdentInv, NEW w \in Workers, FreeIdentifier(w)
    PROVE  IdentInv'
<1>1. /\ job[w].pc = "matched" /\ job[w].slot \in Slots /\ now' = now
      /\ GoTo(w, "freed")
  BY DEF FreeIdentifier, IdentInv, counts
<1>2. PICK s \in Slots : s = job[w].slot
  BY <1>1
<1>3. /\ cache' = RemoveFirst(cache, s) /\ free' = <<s>> \o RemoveFirst(free, s)
      /\ ident' = [ident EXCEPT ![s].exptime = 0]
      /\ spent' = spent \cup {<<s, job[w].id>>}
  BY <1>2 DEF FreeIdentifier, MoveToFree
<1>4. ListsInv(cache', free') /\ Range(cache') = Range(cache) \ {s}
  BY <1>3, FreeKeepsLists DEF IdentInv
<1>5. ident' \in [Slots -> Ident] /\ \A r \in Slots : ident'[r].id = ident[r].id
  BY <1>3 DEF IdentInv, Ident
<1>6. ASSUME NEW r \in Range(cache') PROVE <<r, ident'[r].id>> \notin spent'
  <2>1. r \in Range(cache) /\ r # s /\ r \in Slots
    BY <1>4, <1>6, MembersInSet DEF IdentInv, ListsInv
  <2> QED
    BY <1>3, <1>5, <2>1 DEF IdentInv
<1>7. ASSUME NEW v \in Workers, job'[v].pc = "matched" PROVE job'[v].slot \in Slots
  <2>1. job'[w].pc = "freed" /\ \A u \in Workers \ {w} : job'[u] = job[u]
    BY <1>1, GoToShape DEF IInv, Pcs
  <2> QED
    BY <1>7, <2>1 DEF IdentInv
<1> QED
  BY <1>1, <1>4, <1>5, <1>6, <1>7 DEF IdentInv

\* No other step than PostTable looks an identifier up.
LEMMA OnlyPostMatches ==
    ASSUME IInv, [Next]_vars, NEW w \in Workers, ~PostTable(w), job'[w].pc = "matched"
    PROVE  job'[w] = job[w]
<1>1. ASSUME NEW v \in Workers, NEW pc \in Pcs \ {"matched"},
             GoTo(v, pc) \/ job' = [job EXCEPT ![v] = NoJob]
      PROVE  job'[w] = job[w]
  <2>1. CASE GoTo(v, pc)
    <3>1. job'[v].pc = pc /\ \A u \in Workers \ {v} : job'[u] = job[u]
      BY <2>1, GoToShape DEF IInv
    <3> QED
      BY <3>1
  <2>2. CASE job' = [job EXCEPT ![v] = NoJob]
    <3>1. job'[v].pc = "idle" /\ \A u \in Workers \ {v} : job'[u] = job[u]
      BY <2>2, LeaveShape DEF IInv
    <3> QED
      BY <3>1
  <2> QED
    BY <1>1, <2>1, <2>2
<1>2. ASSUME NEW v \in Workers, PostTable(v) PROVE job'[w] = job[w]
  <2>1. v # w
    BY <1>2
  <2>2. \E j : job' = [job EXCEPT ![v] = j]
    BY <1>2 DEF PostTable
  <2> QED
    BY <2>1, <2>2 DEF IInv, Types
<1>3. ASSUME NEW v \in Workers, SetTable(v)
      PROVE  \E pc \in Pcs \ {"matched"} : GoTo(v, pc) \/ job' = [job EXCEPT ![v] = NoJob]
  <2>1. {"idle", "freed", "write", "keep", "place", "rollback", "backends", "keepconf",
         "placeconf", "signal", "failed"} \subseteq Pcs \ {"matched"}
    BY DEF Pcs
  <2>2. CASE FreeIdentifier(v) \/ LockTable(v) \/ WriteTmp(v) \/ KeepTable(v)
    BY <2>1, <2>2 DEF FreeIdentifier, LockTable, WriteTmp, KeepTable
  <2>3. CASE PlaceTable(v) \/ Rollback(v) \/ LoadBackends(v) \/ KeepConf(v)
    BY <2>1, <2>3 DEF PlaceTable, Rollback, LoadBackends, KeepConf
  <2>4. CASE PlaceConf(v) \/ RestartInstance(v) \/ Fail(v)
    BY <2>1, <2>4 DEF PlaceConf, AfterFailedConf, RestartInstance, Fail
  <2> QED
    BY <1>3, <2>2, <2>3, <2>4 DEF SetTable
<1>4. ASSUME NEW v \in Workers, Crash(v) PROVE job'[w] = job[w]
  <2>1. job' = [job EXCEPT ![v] = NoJob] /\ "idle" \in Pcs \ {"matched"}
    BY <1>4 DEF Crash, Pcs
  <2> QED
    BY <1>1, <2>1
<1>5. CASE TakeOver \/ Outage
  <2>1. job'[w].pc \in {"idle", "gone"}
    BY <1>5, NoJobShape DEF TakeOver, Outage
  <2> QED
    BY <2>1
<1>6. CASE UNCHANGED job
  BY <1>6
<1>7. GenerateIdentifier \/ Tick \/ UNCHANGED vars => UNCHANGED job
  BY Zenon DEF GenerateIdentifier, Tick, vars
<1> QED
  BY <1>1, <1>2, <1>3, <1>4, <1>5, <1>6, <1>7 DEF Next

LEMMA IdentInit == Init => IdentInv
<1> SUFFICES ASSUME Init PROVE IdentInv
  OBVIOUS
<1>1. cache \in List(Slots) /\ Range(cache) = {}
  BY EmptyList DEF Init
<1>2. free \in List(Slots) /\ Range(free) = Slots
  BY SetAsList, SetTableAssumption DEF Init
<1>3. ListsInv(cache, free)
  BY <1>1, <1>2 DEF ListsInv
<1>4. ident \in [Slots -> Ident] /\ now \in Nat
  BY DEF Init, Ident
<1>5. \A w \in Workers : job[w].pc # "matched"
  BY NoJobShape DEF Init
<1> QED
  BY <1>1, <1>3, <1>4, <1>5 DEF IdentInv

\* The steps that leave the identifiers alone.
LEMMA IdentsStay ==
    ASSUME IdentInv, UNCHANGED <<pool, spent>>, now' \in Nat,
           \A w \in Workers : job'[w].pc = "matched" => job'[w].slot \in Slots
    PROVE  IdentInv'
BY DEF IdentInv, pool

LEMMA IdentStep == IInv /\ IdentInv /\ [Next]_vars => IdentInv'
<1> SUFFICES ASSUME IInv, IdentInv, [Next]_vars PROVE IdentInv'
  OBVIOUS
<1>1. \A w \in Workers : job'[w].pc = "matched" => job'[w].slot \in Slots
  <2> SUFFICES ASSUME NEW w \in Workers, job'[w].pc = "matched" PROVE job'[w].slot \in Slots
    OBVIOUS
  <2>1. CASE PostTable(w)
    BY <2>1 DEF PostTable, IInv, Types
  <2>2. CASE ~PostTable(w)
    BY <2>2, OnlyPostMatches DEF IdentInv
  <2> QED
    BY <2>1, <2>2
<1>2. CASE GenerateIdentifier
  BY <1>2, GenerateKeepsIdents
<1>3. ASSUME NEW w \in Workers, PostTable(w) PROVE IdentInv'
  BY <1>1, <1>3, IdentsStay DEF PostTable, IdentInv
<1>4. ASSUME NEW w \in Workers, SetTable(w) PROVE IdentInv'
  <2>1. CASE FreeIdentifier(w)
    BY <2>1, FreeKeepsIdents
  <2>2. CASE ~FreeIdentifier(w)
    <3>1. UNCHANGED <<pool, spent, now>>
      BY <1>4, <2>2 DEF SetTable, LockTable, WriteTmp, KeepTable, PlaceTable, Rollback,
         LoadBackends, KeepConf, PlaceConf, RestartInstance, Fail, counts
    <3> QED
      BY <1>1, <3>1, IdentsStay DEF IdentInv
  <2> QED
    BY <2>1, <2>2
<1>5. ASSUME NEW w \in Workers, Crash(w) PROVE IdentInv'
  BY <1>1, <1>5, IdentsStay DEF Crash, IdentInv
<1>6. CASE TakeOver
  <2>1. cache' \in List(Slots) /\ Range(cache') = {}
    BY <1>6, EmptyList DEF TakeOver
  <2>2. free' \in List(Slots) /\ Range(free') = Slots
    BY <1>6, SetAsList, SetTableAssumption DEF TakeOver
  <2>3. ListsInv(cache', free')
    BY <2>1, <2>2 DEF ListsInv
  <2>4. ident' \in [Slots -> Ident] /\ now' \in Nat
    BY <1>6 DEF TakeOver, IdentInv, Ident, counts
  <2> QED
    BY <1>1, <2>1, <2>3, <2>4 DEF IdentInv
<1>7. CASE Outage
  BY <1>1, <1>7, IdentsStay DEF Outage, IdentInv, counts
<1>8. CASE Tick
  BY <1>1, <1>8, IdentsStay DEF Tick, IdentInv
<1>9. CASE UNCHANGED vars
  BY <1>1, <1>9, IdentsStay DEF vars, counts, IdentInv
<1> QED
  BY <1>2, <1>3, <1>4, <1>5, <1>6, <1>7, <1>8, <1>9 DEF Next

\* For any number of workers and slots, the pool loses no slot and lists none
\* twice, although workers free slots they looked up in another locked section;
\* and nothing is let through with an identifier that was used and not given out
\* since (__check_uuid, __free_identifier, __refresh_expired).
THEOREM IdentifiersKeptAlways == Spec => IdentifiersKept
<1>1. IInv /\ IdentInv /\ [Next]_vars =>
        [/\ PoolConserved'
         /\ \A w \in Workers : job[w].pc = "idle" /\ job'[w].pc = "matched" =>
              <<job'[w].slot, job'[w].id>> \notin spent]_vars
  <2> SUFFICES ASSUME IInv, IdentInv, [Next]_vars
               PROVE  /\ PoolConserved'
                      /\ \A w \in Workers : job[w].pc = "idle" /\ job'[w].pc = "matched" =>
                           <<job'[w].slot, job'[w].id>> \notin spent
    OBVIOUS
  <2>1. PoolConserved'
    BY IdentStep, ListsConserve DEF IdentInv, PoolConserved
  <2>2. ASSUME NEW w \in Workers, job[w].pc = "idle", job'[w].pc = "matched"
        PROVE  <<job'[w].slot, job'[w].id>> \notin spent
    <3>1. PostTable(w)
      BY <2>2, OnlyPostMatches
    <3>2. PICK id \in 1 .. last, s \in Slots, t \in Tables :
            /\ s \in Match(id)
            /\ job' = [job EXCEPT ![w] = [pc |-> "matched", slot |-> s, id |-> id, table |-> t]]
      BY <3>1 DEF PostTable
    <3>3. job'[w].slot = s /\ job'[w].id = id /\ s \in Range(cache) /\ ident[s].id = id
      BY <3>2 DEF IInv, Types, Match
    <3> QED
      BY <3>3 DEF IdentInv
  <2> QED
    BY <2>1, <2>2
<1> QED
  BY <1>1, IdentInit, IdentStep, Inductive, PTL DEF Spec, IdentifiersKept
=============================================================================
