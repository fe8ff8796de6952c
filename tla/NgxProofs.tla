----------------------------- MODULE NgxProofs -----------------------------
(***************************************************************************)
(* Proofs about what the processes of an instance share: the dictionary in *)
(* shared memory (ShmDict) and the table of the master (NgxCycle).         *)
(*                                                                         *)
(* ShmDict: DictInv says that the queue is a list of entries of different  *)
(* keys, that a worker outside the lock points into the zone, and that of  *)
(* two entries the one nearer the head was used more recently; by the last *)
(* the entry an insertion swaps out is older than all that stay.           *)
(*                                                                         *)
(* NgxCycle: CycleInv says that the table is sound, that the pid files     *)
(* follow new_binary, and that `live' is FALSE only when nobody is left;   *)
(* CrewInv, that there are as many processes of the generation that serves *)
(* as the configuration has workers, or a flag is set that starts them.    *)
(* A pass of the loop is proved part by part, in the order of the code.    *)
(***************************************************************************)
EXTENDS ShmDict, NgxCycle, Lists

\* The recursion of Kept goes through a list of which `kept[i]' keeps the first i.
KeptUpto(kept, q, E) ==
    kept = [i \in 0 .. Len(q) |->
              IF i = 0 THEN <<>>
              ELSE IF q[i] \in E THEN Append(kept[i - 1], q[i]) ELSE kept[i - 1]]

LEMMA KeptExists ==
    ASSUME NEW S, NEW q \in List(S), NEW E
    PROVE  \E kept : KeptUpto(kept, q, E) /\ Kept(q, E) = kept[Len(q)]
<1>. DEFINE n == Len(q)
            T == Seq(S)
            step == [i \in 1 .. n |-> [p \in T |-> IF q[i] \in E THEN Append(p, q[i]) ELSE p]]
<1>1. n \in Nat /\ \A i \in 1 .. n : q[i] \in S
  BY DEF List
<1>2. step \in Steps(n, T)
  <2>1. \A i \in 1 .. n, p \in T : Append(p, q[i]) \in T
    BY <1>1
  <2>. QED BY <2>1 DEF Steps
<1>3. <<>> \in T
  OBVIOUS
<1>. HIDE DEF n, T, step
<1>4. PICK f : Follows(f, n, T, <<>>, step)
  BY <1>1, <1>2, <1>3, Recursion
<1>5. KeptUpto(f, q, E)
  <2>1. ASSUME NEW i \in 0 .. n
        PROVE  f[i] = IF i = 0 THEN <<>>
                      ELSE IF q[i] \in E THEN Append(f[i - 1], q[i]) ELSE f[i - 1]
    <3>1. CASE i = 0
      BY <1>4, <3>1 DEF Follows
    <3>2. CASE i # 0
      <4>1. i \in 1 .. n /\ i - 1 \in 0 .. n
        BY <1>1, <3>2
      <4>2. f[i - 1] \in T /\ f[i] = step[i][f[i - 1]]
        BY <1>4, <4>1 DEF Follows
      <4>. QED BY <3>2, <4>1, <4>2 DEF step
    <3>. QED BY <3>1, <3>2
  <2>. QED BY <1>4, <2>1 DEF KeptUpto, Follows, n
<1>. DEFINE g == CHOOSE kept : KeptUpto(kept, q, E)
<1>6. KeptUpto(g, q, E)
  BY <1>5
<1>7. Kept(q, E) = g[Len(q)]
  BY DEF Kept, KeptUpto
<1>. QED BY <1>6, <1>7

\* What stays of a list is the members of E, in their order.
LEMMA KeptIsList ==
    ASSUME NEW S, NEW q \in List(S), NEW E
    PROVE  /\ Kept(q, E) \in List(S)
           /\ Range(Kept(q, E)) = Range(q) \cap E
           /\ \A x, y : Ahead(Kept(q, E), x, y) => Ahead(q, x, y)
<1>. DEFINE n == Len(q)
<1>1. q \in Seq(S) /\ n \in Nat /\ DOMAIN q = 1 .. n /\ (\A i \in 1 .. n : q[i] \in S)
      /\ (\A i, j \in DOMAIN q : q[i] = q[j] => i = j)
  BY DEF List
<1>2. PICK kept : KeptUpto(kept, q, E) /\ Kept(q, E) = kept[n]
  BY KeptExists
<1>. DEFINE Part(i) == /\ kept[i] \in List(S)
                       /\ Range(kept[i]) = {q[m] : m \in 1 .. i} \cap E
                       /\ \A x, y : Ahead(kept[i], x, y) => Ahead(q, x, y)
            Good == {i \in 0 .. n : Part(i)}
<1>. HIDE DEF n
<1>3. /\ kept[0] = <<>>
      /\ \A i \in 1 .. n : kept[i] = IF q[i] \in E THEN Append(kept[i - 1], q[i]) ELSE kept[i - 1]
  <2>1. kept = [i \in 0 .. n |->
                  IF i = 0 THEN <<>>
                  ELSE IF q[i] \in E THEN Append(kept[i - 1], q[i]) ELSE kept[i - 1]]
    BY <1>2 DEF KeptUpto, n
  <2>2. 0 \in 0 .. n /\ \A i \in 1 .. n : i \in 0 .. n /\ i # 0
    BY <1>1
  <2>. QED BY <2>1, <2>2
<1>4. 0 \in Good
  <2>1. Part(0)
    BY <1>3, EmptyList DEF Ahead
  <2>. HIDE DEF Part
  <2>. QED BY <1>1, <2>1
<1>5. ASSUME NEW i \in 1 .. n, i - 1 \in Good PROVE i \in Good
  <2>1. Part(i - 1)
    BY <1>5
  <2>2. {q[m] : m \in 1 .. i} = {q[m] : m \in 1 .. i - 1} \cup {q[i]}
    BY <1>1
  <2>3. CASE q[i] \notin E
    <3>1. kept[i] = kept[i - 1]
      BY <1>3, <2>3
    <3>. QED BY <1>1, <2>1, <2>2, <2>3, <3>1
  <2>4. CASE q[i] \in E
    <3>1. kept[i] = Append(kept[i - 1], q[i])
      BY <1>3, <2>4
    <3>2. q[i] \in S /\ i \in DOMAIN q
      BY <1>1
    <3>3. q[i] \notin {q[m] : m \in 1 .. i - 1}
      BY <1>1, <3>2
    <3>4. q[i] \notin Range(kept[i - 1])
      BY <2>1, <3>3
    <3>5. kept[i] \in List(S) /\ Range(kept[i]) = Range(kept[i - 1]) \cup {q[i]}
      BY <2>1, <3>1, <3>2, <3>4, PushTail
    <3>6. ASSUME NEW x, NEW y, Ahead(kept[i], x, y) PROVE Ahead(q, x, y)
      <4>1. Ahead(kept[i - 1], x, y) \/ (x \in Range(kept[i - 1]) /\ y = q[i])
        BY <2>1, <3>1, <3>2, <3>6, AppendKeepsOrder
      <4>2. CASE x \in Range(kept[i - 1]) /\ y = q[i]
        <5>1. PICK m \in 1 .. i - 1 : x = q[m]
          BY <2>1, <4>2
        <5>2. m \in DOMAIN q /\ m < i
          BY <1>1
        <5>. QED BY <3>2, <4>2, <5>1, <5>2 DEF Ahead
      <4>. QED BY <2>1, <4>1, <4>2
    <3>. QED BY <2>1, <2>2, <2>4, <3>5, <3>6
  <2>. QED BY <2>3, <2>4
<1>6. \A i \in 0 .. n : i \in Good
  <2>. HIDE DEF Good
  <2>. QED BY <1>1, <1>4, <1>5, Ascends
<1>7. Part(n)
  <2>1. n \in 0 .. n
    BY <1>1
  <2>2. n \in Good
    <3>. HIDE DEF Good
    <3>. QED BY <1>6, <2>1
  <2>. QED BY <2>2
<1>8. {q[m] : m \in 1 .. n} = Range(q)
  BY <1>1 DEF Range
<1>. QED BY <1>2, <1>7, <1>8

-----------------------------------------------------------------------------
\* p is the front of q: what is missing was at the tail.
IsFront(p, q) ==
    /\ p \in List(Slots)
    /\ Range(p) \subseteq Range(q)
    /\ \A x, y : Ahead(p, x, y) => Ahead(q, x, y)
    /\ \A x \in Range(p), y \in Range(q) \ Range(p) : Ahead(q, x, y)

LEMMA FrontIsReflexive ==
    ASSUME NEW q \in List(Slots)
    PROVE  IsFront(q, q)
BY DEF IsFront

LEMMA FrontIsTransitive ==
    ASSUME NEW p, NEW q, NEW r, IsFront(p, q), IsFront(q, r)
    PROVE  IsFront(p, r)
<1>1. ASSUME NEW x \in Range(p), NEW y \in Range(r) \ Range(p) PROVE Ahead(r, x, y)
  <2>1. CASE y \in Range(q)
    BY <2>1 DEF IsFront
  <2>2. CASE y \notin Range(q)
    BY <2>2 DEF IsFront
  <2>. QED BY <2>1, <2>2
<1>. QED BY <1>1 DEF IsFront

\* ngx_shm_dict_expire cuts the tail off: stale entries, and one more if it was
\* told to make room.
LEMMA ExpireCuts ==
    ASSUME NEW m, NEW q \in List(Slots), NEW n \in {0, 1}, NEW t
    PROVE  /\ IsFront(Expire(m, q, n, t), q)
           /\ n = 1 => \A s \in Range(q) \ Range(Expire(m, q, n, t)) : Stale(m[s], t)
<1>. DEFINE l == Len(q)
            Goes(k) == \A i \in 1 .. k : ~Stops(n, i, m[q[l + 1 - i]], t)
            may == {k \in 0 .. l : k <= 3 - n /\ Goes(k)}
            freed == CHOOSE k \in may : \A j \in may : j <= k
            p == SubSeq(q, 1, l - freed)
<1>1. q \in Seq(Slots) /\ l \in Nat /\ DOMAIN q = 1 .. l
  BY DEF List
<1>2. freed \in may
  <2>1. 0 \in may
    BY <1>1
  <2>2. may \subseteq 0 .. l
    OBVIOUS
  <2>. HIDE DEF may, l
  <2>3. \E k \in may : \A j \in may : j <= k
    BY <1>1, <2>1, <2>2, HasMost
  <2>. QED BY <2>3
<1>3. freed \in 0 .. l /\ Goes(freed)
  BY <1>2
<1>4. Expire(m, q, n, t) = p
  BY DEF Expire
<1>. HIDE DEF freed
<1>5. l - freed \in 0 .. Len(q)
  BY <1>1, <1>3
<1>6. /\ p \in List(Slots) /\ Range(p) = {q[i] : i \in 1 .. l - freed}
      /\ \A x, y : Ahead(p, x, y) => Ahead(q, x, y)
      /\ \A x \in Range(p), y \in Range(q) \ Range(p) : Ahead(q, x, y)
  BY <1>5, FrontOfList
<1>7. IsFront(p, q)
  <2>1. Range(p) \subseteq Range(q)
    BY <1>1, <1>3, <1>6 DEF Range
  <2>. HIDE DEF p
  <2>. QED BY <1>6, <2>1 DEF IsFront
<1>8. ASSUME n = 1, NEW s \in Range(q) \ Range(p) PROVE Stale(m[s], t)
  <2>1. PICK i \in 1 .. l : s = q[i]
    BY <1>1 DEF Range
  <2>2. i \notin 1 .. l - freed
    BY <1>6, <1>8, <2>1
  <2>. DEFINE j == l + 1 - i
  <2>3. j \in 1 .. freed /\ l + 1 - j = i /\ n + j # 1
    BY <1>1, <1>3, <1>8, <2>1, <2>2
  <2>4. ~Stops(n, j, m[q[l + 1 - j]], t)
    BY <1>3, <2>3
  <2>. HIDE DEF j
  <2>5. ~Stops(n, j, m[s], t)
    BY <2>1, <2>3, <2>4
  <2>. QED BY <2>3, <2>5 DEF Stops
<1>. QED BY <1>4, <1>7, <1>8

\* ngx_shm_dict_lookup takes the entry of the key to the head, and nothing away.
LEMMA LookupFinds ==
    ASSUME NEW q \in List(Slots), NEW k, NEW t
    PROVE  LET seen == Lookup(q, k, t)
           IN  /\ seen.q \in List(Slots) /\ Range(seen.q) = Range(q)
               /\ \A x, y : Ahead(seen.q, x, y) =>
                     (x = seen.slot /\ seen.slot \in Range(q)) \/ Ahead(q, x, y)
               /\ \/ /\ seen.rc = "DECLINED" /\ seen.slot = NoSlot /\ seen.q = q
                     /\ \A s \in Range(q) : mem[s].key # k
                  \/ /\ seen.rc = IF Done(mem[seen.slot], t) THEN "DONE" ELSE "OK"
                     /\ seen.slot \in Range(q) /\ mem[seen.slot].key = k
                     /\ \A x : ~Ahead(seen.q, x, seen.slot)
<1>. DEFINE seen == Lookup(q, k, t)
<1>1. CASE Indexed(q, k) = {}
  <2>1. seen = [rc |-> "DECLINED", slot |-> NoSlot, q |-> q]
    BY <1>1 DEF Lookup
  <2>2. \A s \in Range(q) : mem[s].key # k
    BY <1>1 DEF Indexed, Held
  <2>. HIDE DEF seen
  <2>. QED BY <2>1, <2>2 DEF seen
<1>2. CASE Indexed(q, k) # {}
  <2>. DEFINE s == CHOOSE s \in Indexed(q, k) : TRUE
  <2>1. s \in Range(q) /\ mem[s].key = k
    <3>1. s \in Indexed(q, k)
      BY <1>2
    <3>. HIDE DEF s
    <3>. QED BY <3>1 DEF Indexed, Held
  <2>2. seen = [rc |-> IF Done(mem[s], t) THEN "DONE" ELSE "OK", slot |-> s, q |-> ToHead(q, s)]
    BY <1>2 DEF Lookup
  <2>. HIDE DEF s, seen
  <2>3. s \in Slots
    BY <2>1 DEF List, Range
  <2>. DEFINE rest == RemoveFirst(q, s)
  <2>4. rest \in List(Slots) /\ Range(rest) = Range(q) \ {s}
    BY Unlink
  <2>5. \A x, y : Ahead(rest, x, y) => Ahead(q, x, y)
    BY UnlinkKeepsOrder
  <2>. HIDE DEF rest
  <2>6. /\ <<s>> \o rest \in List(Slots)
        /\ Range(<<s>> \o rest) = Range(q)
    BY <2>1, <2>3, <2>4, PushHead
  <2>7. ASSUME NEW x, NEW y, Ahead(<<s>> \o rest, x, y)
        PROVE  y # s /\ (x = s \/ Ahead(q, x, y))
    BY <2>4, <2>5, <2>7, PushKeepsOrder
  <2>8. seen.q = <<s>> \o rest /\ seen.slot = s
        /\ seen.rc = IF Done(mem[s], t) THEN "DONE" ELSE "OK"
    BY <2>2 DEF ToHead, rest
  <2>9. /\ seen.q \in List(Slots) /\ Range(seen.q) = Range(q)
        /\ \A x, y : Ahead(seen.q, x, y) => x = s \/ Ahead(q, x, y)
        /\ \A x : ~Ahead(seen.q, x, s)
    BY <2>6, <2>7, <2>8
  <2>. QED BY <2>1, <2>8, <2>9 DEF seen
<1>. QED BY <1>1, <1>2

\* The evictions of a store: a front of the queue after each of them.
EvictedUpto(left, q, t) ==
    left = [i \in 0 .. Tries |->
              IF i = 0 THEN q
              ELSE IF left[i - 1] = <<>> THEN <<>> ELSE Expire(mem, left[i - 1], 0, t)]

LEMMA EvictedExists ==
    ASSUME NEW q \in List(Slots), NEW t, Tries \in Nat
    PROVE  EvictedUpto(Evicted(q, t), q, t)
<1>. DEFINE T == List(Slots)
            step == [i \in 1 .. Tries |-> [p \in T |-> IF p = <<>> THEN <<>> ELSE Expire(mem, p, 0, t)]]
<1>1. step \in Steps(Tries, T)
  <2>1. ASSUME NEW p \in T PROVE Expire(mem, p, 0, t) \in T
    BY ExpireCuts DEF IsFront
  <2>2. <<>> \in T
    BY EmptyList
  <2>. HIDE DEF T
  <2>. QED BY <2>1, <2>2 DEF Steps
<1>. HIDE DEF T, step
<1>2. q \in T
  BY DEF T
<1>3. PICK f : Follows(f, Tries, T, q, step)
  BY <1>1, <1>2, Recursion
<1>4. EvictedUpto(f, q, t)
  <2>1. ASSUME NEW i \in 0 .. Tries
        PROVE  f[i] = IF i = 0 THEN q
                      ELSE IF f[i - 1] = <<>> THEN <<>> ELSE Expire(mem, f[i - 1], 0, t)
    <3>1. CASE i = 0
      BY <1>3, <3>1 DEF Follows
    <3>2. CASE i # 0
      <4>1. i \in 1 .. Tries /\ i - 1 \in 0 .. Tries
        BY <3>2
      <4>2. f[i - 1] \in T /\ f[i] = step[i][f[i - 1]]
        BY <1>3, <4>1 DEF Follows
      <4>. QED BY <3>2, <4>1, <4>2 DEF step
    <3>. QED BY <3>1, <3>2
  <2>. QED BY <1>3, <2>1 DEF EvictedUpto, Follows
<1>. DEFINE g == CHOOSE left : EvictedUpto(left, q, t)
<1>5. EvictedUpto(g, q, t)
  BY <1>4
<1>6. Evicted(q, t) = g
  BY DEF Evicted, EvictedUpto
<1>. QED BY <1>5, <1>6

LEMMA EvictedIsFront ==
    ASSUME NEW q \in List(Slots), NEW t, Tries \in Nat, NEW i \in 0 .. Tries
    PROVE  IsFront(Evicted(q, t)[i], q)
<1>. DEFINE left == Evicted(q, t)
            Good == {j \in 0 .. Tries : IsFront(left[j], q)}
<1>1. EvictedUpto(left, q, t)
  BY EvictedExists
<1>. HIDE DEF left
<1>2. 0 \in Good
  <2>1. left[0] = q
    BY <1>1 DEF EvictedUpto
  <2>. QED BY <2>1, FrontIsReflexive
<1>3. ASSUME NEW j \in 1 .. Tries, j - 1 \in Good PROVE j \in Good
  <2>1. left[j] = IF left[j - 1] = <<>> THEN <<>> ELSE Expire(mem, left[j - 1], 0, t)
    BY <1>1 DEF EvictedUpto
  <2>2. IsFront(left[j - 1], q)
    BY <1>3
  <2>3. IsFront(left[j], left[j - 1])
    <3>1. left[j - 1] \in List(Slots)
      BY <2>2 DEF IsFront
    <3>2. CASE left[j - 1] = <<>>
      BY <2>1, <3>1, <3>2, FrontIsReflexive
    <3>3. CASE left[j - 1] # <<>>
      BY <2>1, <3>1, <3>3, ExpireCuts
    <3>. QED BY <3>2, <3>3
  <2>4. IsFront(left[j], q)
    BY <2>2, <2>3, FrontIsTransitive
  <2>. QED BY <2>4
<1>4. i \in Good
  <2>. HIDE DEF Good
  <2>1. \A j \in 0 .. Tries : j \in Good
    BY <1>2, <1>3, Ascends
  <2>. QED BY <2>1
<1>. QED BY <1>4 DEF left

-----------------------------------------------------------------------------
\* No two entries in use are of one key.
OneKey == \A s, r \in Range(queue) : mem[s].key = mem[r].key => s = r

\* A worker that has left the lock with a pointer has one into the zone.
PointersSound == \A w \in Workers : job[w].pc \in {"copy", "add"} => job[w].slot \in Slots

\* What a worker serves was offered; what is in two halves is an incr or a decr.
AsOffered ==
    \A w \in Workers :
        /\ job[w].req \in load.offered
        /\ job[w].pc \in {"add", "absent"} => job[w].req.op \in {"incr", "decr"}

\* The keys looked up or stored last stand in front in the queue.
RecentAgrees ==
    \A s, r : Ahead(queue, s, r) => ~Ahead(recent, mem[r].key, mem[s].key)

DictInv ==
    /\ TypeOK
    /\ queue \in List(Slots)
    /\ recent \in List(Keys)
    /\ PointersSound
    /\ AsOffered
    /\ OneKey
    /\ RecentAgrees

\* What a section that looks key k up leaves: the entry of k in front or gone, the
\* others as they were and in their order.  What else went was stale, or, if the
\* request may swap, behind all that stayed.
Served(k, t, swap) ==
    /\ queue' \in List(Slots)
    /\ \A s \in Range(queue') : mem'[s].key = k \/ (s \in Range(queue) /\ mem'[s] = mem[s])
    /\ \A s, r \in Range(queue') : mem'[s].key = k /\ mem'[r].key = k => s = r
    /\ \A s, r : Ahead(queue', s, r) =>
          mem'[r].key # k /\ (mem'[s].key = k \/ Ahead(queue, s, r))
    /\ \A s \in Range(queue) :
          \/ mem[s].key = k
          \/ s \in Range(queue') /\ mem'[s] = mem[s]
          \/ Stale(mem[s], t)
          \/ swap /\ \A x \in Range(queue') : mem'[x].key = k \/ Ahead(queue, x, s)

Base(t) == Expire(mem, queue, 1, t)
Seen(k, t) == Lookup(Base(t), k, t)
Rest(k, t) == Without(Seen(k, t).q, Seen(k, t).slot)

\* The queue after the look-up, and without the entry it found.
LEMMA SeenAndRest ==
    ASSUME queue \in List(Slots), OneKey, NEW k, NEW t
    PROVE  LET seen == Seen(k, t)
               rest == Rest(k, t)
           IN  /\ seen.q \in List(Slots) /\ Range(seen.q) \subseteq Range(queue)
               /\ \A s \in Range(queue) \ Range(seen.q) : Stale(mem[s], t)
               /\ \A s, r : Ahead(seen.q, s, r) =>
                     mem[r].key # k /\ (mem[s].key = k \/ Ahead(queue, s, r))
               /\ rest \in List(Slots) /\ Range(rest) \subseteq Range(queue)
               /\ \A s \in Range(queue) \ Range(rest) : Stale(mem[s], t) \/ mem[s].key = k
               /\ \A s \in Range(rest) : mem[s].key # k
               /\ \A s, r : Ahead(rest, s, r) => Ahead(queue, s, r)
               /\ seen.slot \notin Range(rest)
               /\ seen.rc # "DECLINED" => seen.slot \in Slots
<1>. DEFINE base == Base(t)
            seen == Seen(k, t)
            rest == Rest(k, t)
<1>1. IsFront(base, queue) /\ \A s \in Range(queue) \ Range(base) : Stale(mem[s], t)
  BY ExpireCuts DEF Base
<1>2. base \in List(Slots) /\ Range(base) \subseteq Range(queue) /\ Range(queue) \subseteq Slots
  BY <1>1, MembersInSet DEF IsFront
<1>3. \A x, y : Ahead(base, x, y) => Ahead(queue, x, y)
  BY <1>1 DEF IsFront
<1>. HIDE DEF base
<1>4. /\ seen.q \in List(Slots) /\ Range(seen.q) = Range(base)
      /\ \A x, y : Ahead(seen.q, x, y) =>
            (x = seen.slot /\ seen.slot \in Range(base)) \/ Ahead(base, x, y)
      /\ \/ /\ seen.rc = "DECLINED" /\ seen.slot = NoSlot /\ seen.q = base
            /\ \A s \in Range(base) : mem[s].key # k
         \/ /\ seen.rc = IF Done(mem[seen.slot], t) THEN "DONE" ELSE "OK"
            /\ seen.slot \in Range(base) /\ mem[seen.slot].key = k
            /\ \A x : ~Ahead(seen.q, x, seen.slot)
  BY <1>2, LookupFinds DEF Seen, base
<1>. HIDE DEF seen
<1>5. ASSUME NEW s \in Range(seen.q), mem[s].key = k PROVE s = seen.slot
  BY <1>2, <1>4, <1>5 DEF OneKey
<1>5a. seen.slot \in Range(base) => mem[seen.slot].key = k /\ \A x : ~Ahead(seen.q, x, seen.slot)
  BY <1>2, <1>4, ShmDictAssumption
<1>6. ASSUME NEW s, NEW r, Ahead(seen.q, s, r)
      PROVE  mem[r].key # k /\ (mem[s].key = k \/ Ahead(queue, s, r))
  <2>1. r \in Range(seen.q) /\ s \in Range(seen.q)
    BY <1>4, <1>6, AheadIsStrict
  <2>2. mem[r].key # k
    <3>1. SUFFICES ASSUME mem[r].key = k PROVE FALSE
      OBVIOUS
    <3>2. r = seen.slot
      BY <1>5, <2>1, <3>1
    <3>. QED BY <1>5a, <1>4, <1>6, <2>1, <3>2
  <2>3. mem[s].key = k \/ Ahead(queue, s, r)
    <3>1. CASE s = seen.slot /\ seen.slot \in Range(base)
      BY <1>5a, <3>1
    <3>2. CASE Ahead(base, s, r)
      BY <1>3, <3>2
    <3>. QED BY <1>4, <1>6, <3>1, <3>2
  <2>. QED BY <2>2, <2>3
<1>7. rest = RemoveFirst(seen.q, seen.slot)
  BY DEF Rest, Without, seen
<1>. HIDE DEF rest
<1>8. /\ rest \in List(Slots) /\ Range(rest) = Range(seen.q) \ {seen.slot}
      /\ \A x, y : Ahead(rest, x, y) => Ahead(seen.q, x, y)
  BY <1>4, <1>7, Unlink, UnlinkKeepsOrder
<1>9. \A s \in Range(rest) : mem[s].key # k
  BY <1>5, <1>8
<1>10. ASSUME NEW s \in Range(queue) \ Range(rest) PROVE Stale(mem[s], t) \/ mem[s].key = k
  <2>1. CASE s \notin Range(base)
    BY <1>1, <2>1
  <2>2. CASE s \in Range(base)
    <3>1. s = seen.slot
      BY <1>4, <1>8, <1>10, <2>2
    <3>. QED BY <1>5a, <2>2, <3>1
  <2>. QED BY <2>1, <2>2
<1>11. ASSUME NEW s, NEW r, Ahead(rest, s, r) PROVE Ahead(queue, s, r)
  <2>1. s \in Range(rest)
    BY <1>8, <1>11, AheadIsStrict
  <2>. QED BY <1>6, <1>8, <1>9, <1>11, <2>1
<1>12. /\ Range(seen.q) \subseteq Range(queue)
       /\ \A s \in Range(queue) \ Range(seen.q) : Stale(mem[s], t)
       /\ Range(rest) \subseteq Range(queue)
       /\ seen.slot \notin Range(rest)
       /\ seen.rc # "DECLINED" => seen.slot \in Slots
  BY <1>1, <1>2, <1>4, <1>8
<1>13. seen.q \in List(Slots)
  BY <1>4
<1>. QED BY <1>6, <1>8, <1>9, <1>10, <1>11, <1>12, <1>13 DEF seen, rest

\* A look-up without more.
LEMMA LookServes ==
    ASSUME queue \in List(Slots), OneKey, NEW k, NEW t, queue' = Seen(k, t).q, mem' = mem
    PROVE  Served(k, t, FALSE)
<1>. DEFINE q == Seen(k, t).q
<1>1. /\ q \in List(Slots) /\ Range(q) \subseteq Range(queue)
      /\ \A s \in Range(queue) \ Range(q) : Stale(mem[s], t)
      /\ \A s, r : Ahead(q, s, r) =>
            mem[r].key # k /\ (mem[s].key = k \/ Ahead(queue, s, r))
  BY SeenAndRest
<1>. HIDE DEF q
<1>2. queue' = q
  BY DEF q
<1>. QED BY <1>1, <1>2 DEF Served, OneKey

\* A part of the rest: the entry is deleted, or there is no chunk for a new one.
LEMMA LessServes ==
    ASSUME queue \in List(Slots), OneKey, NEW k, NEW t, NEW swap \in BOOLEAN,
           IsFront(queue', Rest(k, t)), ~swap => queue' = Rest(k, t), mem' = mem
    PROVE  Served(k, t, swap)
<1>. DEFINE rest == Rest(k, t)
<1>1. /\ rest \in List(Slots) /\ Range(rest) \subseteq Range(queue)
      /\ \A s \in Range(queue) \ Range(rest) : Stale(mem[s], t) \/ mem[s].key = k
      /\ \A s \in Range(rest) : mem[s].key # k
      /\ \A s, r : Ahead(rest, s, r) => Ahead(queue, s, r)
  BY SeenAndRest
<1>2. IsFront(queue', rest) /\ (~swap => queue' = rest)
  OBVIOUS
<1>. HIDE DEF rest
<1>3. ASSUME NEW s, NEW r, Ahead(queue', s, r) PROVE mem[r].key # k /\ Ahead(queue, s, r)
  <2>1. Ahead(rest, s, r)
    BY <1>2, <1>3 DEF IsFront
  <2>. QED BY <1>1, <2>1, AheadIsStrict
<1>4. ASSUME NEW s \in Range(queue), mem[s].key # k, s \notin Range(queue'), ~Stale(mem[s], t)
      PROVE  swap /\ \A x \in Range(queue') : Ahead(queue, x, s)
  <2>1. s \in Range(rest)
    BY <1>1, <1>4
  <2>2. swap
    BY <1>2, <1>4, <2>1
  <2>. QED BY <1>1, <1>2, <1>4, <2>1, <2>2 DEF IsFront
<1>5. queue' \in List(Slots) /\ Range(queue') \subseteq Range(rest)
  BY <1>2 DEF IsFront
<1>. QED BY <1>1, <1>3, <1>4, <1>5 DEF Served

\* A chunk that is not in use for the entry, in front of a part of the rest.
LEMMA StoreServes ==
    ASSUME queue \in List(Slots), OneKey, NEW k, NEW t, NEW swap \in BOOLEAN,
           mem \in [Slots -> Entry],
           NEW left, IsFront(left, Rest(k, t)), ~swap => left = Rest(k, t),
           NEW s0 \in Slots, s0 \notin Range(left), NEW e, e.key = k,
           queue' = <<s0>> \o left, mem' = [mem EXCEPT ![s0] = e]
    PROVE  Served(k, t, swap)
<1>. DEFINE rest == Rest(k, t)
<1>1. /\ rest \in List(Slots) /\ Range(rest) \subseteq Range(queue)
      /\ \A s \in Range(queue) \ Range(rest) : Stale(mem[s], t) \/ mem[s].key = k
      /\ \A s \in Range(rest) : mem[s].key # k
      /\ \A s, r : Ahead(rest, s, r) => Ahead(queue, s, r)
  BY SeenAndRest
<1>2. IsFront(left, rest) /\ (~swap => left = rest)
  OBVIOUS
<1>. HIDE DEF rest
<1>3. left \in List(Slots) /\ Range(left) \subseteq Range(rest)
  BY <1>2 DEF IsFront
<1>4. queue' \in List(Slots) /\ Range(queue') = Range(left) \cup {s0}
  BY <1>3, PushHead
<1>5. mem'[s0].key = k /\ \A s \in Range(left) : mem'[s] = mem[s] /\ s # s0
  <2>1. Range(left) \subseteq Slots
    BY <1>3, MembersInSet
  <2>. QED BY <2>1
<1>6. ASSUME NEW s, NEW r, Ahead(queue', s, r)
      PROVE  mem'[r].key # k /\ (mem'[s].key = k \/ Ahead(queue, s, r))
  <2>1. r \in Range(left) /\ (s = s0 \/ Ahead(left, s, r))
    BY <1>3, <1>6, PushKeepsOrder
  <2>2. mem'[r].key # k
    BY <1>1, <1>3, <1>5, <2>1
  <2>3. Ahead(left, s, r) => Ahead(queue, s, r)
    BY <1>1, <1>2 DEF IsFront
  <2>. QED BY <1>5, <2>1, <2>2, <2>3
<1>7. ASSUME NEW s \in Range(queue), mem[s].key # k, s \notin Range(left), ~Stale(mem[s], t)
      PROVE  swap /\ \A x \in Range(left) : Ahead(queue, x, s)
  <2>1. s \in Range(rest)
    BY <1>1, <1>7
  <2>2. swap
    BY <1>2, <1>7, <2>1
  <2>. QED BY <1>1, <1>2, <1>7, <2>1, <2>2 DEF IsFront
<1>8. \A s \in Range(queue') : mem'[s].key = k \/ (s \in Range(queue) /\ mem'[s] = mem[s])
  BY <1>1, <1>3, <1>4, <1>5
<1>9. \A s, r \in Range(queue') : mem'[s].key = k /\ mem'[r].key = k => s = r
  BY <1>1, <1>3, <1>4, <1>5
<1>10. ASSUME NEW s \in Range(queue)
       PROVE  \/ mem[s].key = k
              \/ s \in Range(queue') /\ mem'[s] = mem[s]
              \/ Stale(mem[s], t)
              \/ swap /\ \A x \in Range(queue') : mem'[x].key = k \/ Ahead(queue, x, s)
  BY <1>4, <1>5, <1>7
<1>. QED BY <1>4, <1>6, <1>8, <1>9, <1>10 DEF Served

\* Chunks the slab returns are not in the queue.
LEMMA FreeIsNotHeld ==
    ASSUME NEW q, NEW type, NEW s \in Free(q, type)
    PROVE  s \in Slots /\ s \notin Range(q)
BY DEF Free, Held

LEMMA SetImplServes ==
    ASSUME DictInv, NEW w \in Workers, NEW r \in Request, NEW flags, SetImpl(w, r, flags)
    PROVE  Served(r.key, clock[w], flags \cap {"DELETE", "SAFE"} = {})
<1>. DEFINE k == r.key
            t == clock[w]
            seen == Seen(k, t)
            rest == Rest(k, t)
            swap == flags \cap {"DELETE", "SAFE"} = {}
            accepted == ~Refuses(flags, seen.rc) /\ "DELETE" \notin flags
            Reuses == seen.rc # "DECLINED" /\ Size[mem[seen.slot].type] = Size[r.type]
<1>1. queue \in List(Slots) /\ OneKey /\ mem \in [Slots -> Entry] /\ Tries \in Nat
  BY ShmDictAssumption DEF DictInv, TypeOK
<1>2. /\ rest \in List(Slots)
      /\ seen.slot \notin Range(rest)
      /\ seen.rc # "DECLINED" => seen.slot \in Slots
  BY <1>1, SeenAndRest
<1>3. \/ Refuses(flags, seen.rc) /\ queue' = seen.q /\ mem' = mem
      \/ "DELETE" \in flags /\ queue' = rest /\ mem' = mem
      \/ accepted /\ Reuses /\ Insert(w, r, seen.slot, rest)
      \/ accepted /\ Allocate(w, r, flags, rest)
  BY DEF SetImpl, Seen, Base, Rest
<1>. HIDE DEF seen
<1>4. NewEntry(r, t).key = k
  BY DEF NewEntry
<1>5. IsFront(rest, rest)
  BY <1>2, FrontIsReflexive
<1>. HIDE DEF rest
<1>6. CASE queue' = seen.q /\ mem' = mem
  <2>1. Served(k, t, FALSE)
    BY <1>1, <1>6, LookServes DEF seen
  <2>. QED BY <2>1 DEF Served
<1>7. CASE queue' = rest /\ mem' = mem
  BY <1>1, <1>5, <1>7, LessServes DEF rest
<1>8. ASSUME NEW s \in Slots, NEW left, s \notin Range(left), IsFront(left, rest),
             ~swap => left = rest, Insert(w, r, s, left)
      PROVE  Served(k, t, swap)
  <2>1. queue' = <<s>> \o left /\ mem' = [mem EXCEPT ![s] = NewEntry(r, t)]
    BY <1>8 DEF Insert
  <2>. HIDE DEF k, t, swap
  <2>2. swap \in BOOLEAN
    BY DEF swap
  <2>. QED BY <1>1, <1>4, <1>8, <2>1, <2>2, StoreServes DEF rest
<1>9. CASE accepted /\ Allocate(w, r, flags, rest)
  <2>. DEFINE left == Evicted(rest, t)
  <2>1. \A i \in 0 .. Tries : IsFront(left[i], rest)
    BY <1>1, <1>2, EvictedIsFront
  <2>2. "SAFE" \notin flags => swap
    BY <1>9
  <2>3. \/ \E s \in Free(rest, r.type) : Insert(w, r, s, rest)
        \/ queue' = rest /\ mem' = mem
        \/ "SAFE" \notin flags
           /\ \E i \in 1 .. Tries : \E s \in Free(left[i], r.type) : Insert(w, r, s, left[i])
        \/ "SAFE" \notin flags /\ queue' = left[Tries] /\ mem' = mem
    BY <1>9 DEF Allocate
  <2>. HIDE DEF left, k, t, swap
  <2>4. CASE \E s \in Free(rest, r.type) : Insert(w, r, s, rest)
    BY <1>5, <1>8, <2>4, FreeIsNotHeld DEF k, t, swap
  <2>5. CASE "SAFE" \notin flags
             /\ \E i \in 1 .. Tries : \E s \in Free(left[i], r.type) : Insert(w, r, s, left[i])
    <3>1. PICK i \in 1 .. Tries : \E s \in Free(left[i], r.type) : Insert(w, r, s, left[i])
      BY <2>5
    <3>2. i \in 0 .. Tries
      BY <1>1
    <3>3. IsFront(left[i], rest)
      BY <2>1, <3>2
    <3>. QED BY <1>8, <2>2, <2>5, <3>1, <3>3, FreeIsNotHeld DEF k, t, swap
  <2>6. CASE "SAFE" \notin flags /\ queue' = left[Tries] /\ mem' = mem
    <3>1. Tries \in 0 .. Tries
      BY <1>1
    <3>2. IsFront(queue', rest) /\ swap /\ swap \in BOOLEAN
      BY <2>1, <2>2, <2>6, <3>1
    <3>. QED BY <1>1, <2>6, <3>2, LessServes DEF rest, k, t, swap
  <2>. QED BY <1>7, <2>3, <2>4, <2>5, <2>6
<1>10. CASE accepted /\ Reuses /\ Insert(w, r, seen.slot, rest)
  BY <1>2, <1>5, <1>8, <1>10
<1>. QED BY <1>3, <1>6, <1>7, <1>9, <1>10

\* A live key is found.
LEMMA LiveIsFound ==
    ASSUME DictInv, NEW w \in Workers, NEW k \in Live(queue, mem, clock[w])
    PROVE  Seen(k, clock[w]).rc = "OK"
<1>. DEFINE t == clock[w]
            base == Base(t)
            seen == Seen(k, t)
<1>1. queue \in List(Slots) /\ OneKey /\ mem \in [Slots -> Entry] /\ t \in Nat
  BY DEF DictInv, TypeOK
<1>2. IsFront(base, queue) /\ \A s \in Range(queue) \ Range(base) : Stale(mem[s], t)
  BY <1>1, ExpireCuts DEF Base
<1>3. base \in List(Slots) /\ Range(base) \subseteq Range(queue) /\ Range(queue) \subseteq Slots
  BY <1>1, <1>2, MembersInSet DEF IsFront
<1>4. PICK s \in Range(queue) : mem[s].key = k /\ (mem[s].expires = 0 \/ mem[s].expires > t)
  BY DEF Live, Held
<1>5. mem[s].expires \in Nat
  BY <1>1, <1>3 DEF Entry
<1>6. ~Stale(mem[s], t) /\ ~Done(mem[s], t)
  BY <1>1, <1>4, <1>5 DEF Stale, Done
<1>7. s \in Range(base)
  BY <1>2, <1>6
<1>8. \/ \A x \in Range(base) : mem[x].key # k
      \/ /\ seen.rc = IF Done(mem[seen.slot], t) THEN "DONE" ELSE "OK"
         /\ seen.slot \in Range(base) /\ mem[seen.slot].key = k
  <2>. HIDE DEF base
  <2>. QED BY <1>3, LookupFinds DEF Seen, base
<1>. HIDE DEF base, seen, t
<1>9. seen.slot = s
  BY <1>1, <1>3, <1>4, <1>7, <1>8 DEF OneKey
<1>. QED BY <1>4, <1>6, <1>7, <1>8, <1>9 DEF seen, t

\* A key that is not there is not found.
LEMMA AbsentIsDeclined ==
    ASSUME DictInv, NEW k, NEW t, k \notin Present(queue, mem)
    PROVE  Seen(k, t).rc = "DECLINED"
<1>. DEFINE base == Base(t)
<1>1. IsFront(base, queue)
  BY ExpireCuts DEF Base, DictInv
<1>2. Range(base) \subseteq Range(queue)
  BY <1>1 DEF IsFront
<1>3. Indexed(base, k) = {}
  BY <1>2 DEF Indexed, Present, Held
<1>. QED BY <1>3 DEF Seen, Lookup

\* A request that ngx_shm_dict_set_impl refuses makes no room.
LEMMA RefusedServes ==
    ASSUME DictInv, NEW w \in Workers, Store(w), MakesNoRoom(w)
    PROVE  Served(job[w].req.key, clock[w], FALSE)
<1>. DEFINE r == job[w].req
            k == r.key
            t == clock[w]
            seen == Seen(k, t)
<1>1. r \in Request /\ queue \in List(Slots) /\ OneKey
  BY DEF DictInv, TypeOK, Job
<1>2. CASE r.op \in {"get", "del", "safe_set", "safe_add", "flush_expired"}
  <2>1. Served(k, t, Flags(r.op) \cap {"DELETE", "SAFE"} = {})
    BY <1>1, SetImplServes DEF Store
  <2>2. ~(Flags(r.op) \cap {"DELETE", "SAFE"} = {})
    BY <1>2 DEF Store, Flags
  <2>. QED BY <2>1, <2>2 DEF Served
<1>3. ASSUME Refuses(Flags(r.op), seen.rc) PROVE Served(k, t, FALSE)
  <2>1. queue' = seen.q /\ mem' = mem
    BY <1>3 DEF Store, SetImpl, Seen, Base
  <2>. QED BY <1>1, <2>1, LookServes
<1>4. CASE r.op = "add" /\ k \in Live(queue, mem, t)
  <2>1. seen.rc = "OK"
    BY <1>4, LiveIsFound
  <2>. HIDE DEF seen
  <2>2. "ADD" \in Flags(r.op)
    BY <1>4 DEF Flags
  <2>. QED BY <1>3, <2>1, <2>2 DEF Refuses
<1>5. CASE r.op = "replace" /\ k \notin Present(queue, mem)
  <2>1. seen.rc = "DECLINED"
    BY <1>5, AbsentIsDeclined
  <2>. HIDE DEF seen
  <2>2. Flags(r.op) \cap {"DELETE", "REPLACE"} # {}
    BY <1>5 DEF Flags
  <2>. QED BY <1>3, <2>1, <2>2 DEF Refuses
<1>. QED BY <1>2, <1>4, <1>5 DEF MakesNoRoom

\* ngx_shm_dict_get makes no room.
LEMMA GetServes ==
    ASSUME DictInv, NEW w \in Workers, Get(w)
    PROVE  Served(job[w].req.key, clock[w], FALSE)
BY LookServes DEF DictInv, Get, Seen, Base

-----------------------------------------------------------------------------
\* The key looked up moves to the front of the auxiliary list.
LEMMA TouchOrders ==
    ASSUME recent \in List(Keys), NEW k \in Keys, Touch(k)
    PROVE  /\ recent' \in List(Keys)
           /\ \A x, y : Ahead(recent', x, y) => y # k /\ (x = k \/ Ahead(recent, x, y))
<1>. DEFINE rest == RemoveFirst(recent, k)
<1>1. rest \in List(Keys) /\ Range(rest) = Range(recent) \ {k}
      /\ \A x, y : Ahead(rest, x, y) => Ahead(recent, x, y)
  BY Unlink, UnlinkKeepsOrder
<1>2. recent' = Kept(<<k>> \o rest, Present(queue', mem'))
  BY DEF Touch
<1>. HIDE DEF rest
<1>3. <<k>> \o rest \in List(Keys)
  BY <1>1, PushHead
<1>4. /\ recent' \in List(Keys)
      /\ \A x, y : Ahead(recent', x, y) => Ahead(<<k>> \o rest, x, y)
  BY <1>2, <1>3, KeptIsList
<1>5. ASSUME NEW x, NEW y, Ahead(<<k>> \o rest, x, y) PROVE y # k /\ (x = k \/ Ahead(recent, x, y))
  BY <1>1, <1>5, PushKeepsOrder
<1>. QED BY <1>4, <1>5

LEMMA ForgetOrders ==
    ASSUME recent \in List(Keys), Forget
    PROVE  /\ recent' \in List(Keys)
           /\ \A x, y : Ahead(recent', x, y) => Ahead(recent, x, y)
BY KeptIsList DEF Forget

\* What a section that looks a key up leaves is a dictionary in its order.
LEMMA ServedKeeps ==
    ASSUME DictInv, NEW k \in Keys, NEW t, NEW swap, Served(k, t, swap), Touch(k)
    PROVE  queue' \in List(Slots) /\ recent' \in List(Keys) /\ OneKey' /\ RecentAgrees'
<1>1. queue' \in List(Slots) /\ recent \in List(Keys) /\ recent' \in List(Keys)
  BY TouchOrders DEF Served, DictInv
<1>2. OneKey'
  <2>1. ASSUME NEW s \in Range(queue'), NEW r \in Range(queue'), mem'[s].key = mem'[r].key
        PROVE  s = r
    BY <2>1 DEF Served, DictInv, OneKey
  <2>. QED BY <2>1 DEF OneKey
<1>3. ASSUME NEW s, NEW r, Ahead(queue', s, r), Ahead(recent', mem'[r].key, mem'[s].key)
      PROVE  FALSE
  <2>1. mem'[r].key # k /\ (mem'[s].key = k \/ Ahead(queue, s, r))
    BY <1>3 DEF Served
  <2>2. mem'[s].key # k /\ Ahead(recent, mem'[r].key, mem'[s].key)
    BY <1>1, <1>3, <2>1, TouchOrders
  <2>3. s \in Range(queue') /\ r \in Range(queue')
    BY <1>1, <1>3, AheadIsStrict
  <2>4. mem'[s] = mem[s] /\ mem'[r] = mem[r]
    BY <2>1, <2>2, <2>3 DEF Served
  <2>. QED BY <2>1, <2>2, <2>4 DEF RecentAgrees, DictInv
<1>. QED BY <1>1, <1>2, <1>3 DEF RecentAgrees

\* Sections that take entries away, and no more than that.
LEMMA LessKeeps ==
    ASSUME DictInv, queue' \in List(Slots), Range(queue') \subseteq Range(queue),
           \A s, r : Ahead(queue', s, r) => Ahead(queue, s, r),
           \A s \in Slots : mem'[s].key = mem[s].key,
           recent' \in List(Keys), \A x, y : Ahead(recent', x, y) => Ahead(recent, x, y)
    PROVE  OneKey' /\ RecentAgrees'
<1>1. Range(queue) \subseteq Slots /\ queue \in List(Slots)
  BY MembersInSet DEF DictInv
<1>2. OneKey'
  BY <1>1 DEF OneKey, DictInv
<1>3. ASSUME NEW s, NEW r, Ahead(queue', s, r) PROVE ~Ahead(recent', mem'[r].key, mem'[s].key)
  <2>1. Ahead(queue, s, r) /\ s \in Slots /\ r \in Slots
    BY <1>1, <1>3, AheadIsStrict
  <2>. QED BY <2>1 DEF RecentAgrees, DictInv
<1>. QED BY <1>2, <1>3 DEF RecentAgrees

LEMMA RequestsAreTyped ==
    ASSUME TypeOK
    PROVE  /\ load.offered \subseteq Request
           /\ (CHOOSE r \in load.offered : TRUE) \in load.offered
           /\ Modulus \in Nat /\ Modulus > 0 /\ Slots \subseteq Slots \cup {NoSlot}
           /\ \A n \in Int : n % Modulus \in 0 .. Modulus - 1
BY ShmDictAssumption DEF TypeOK

\* A worker answers and is idle again.
LEMMA AnswerKeeps ==
    ASSUME DictInv, load' = load, NEW w \in Workers, NEW rc \in {"OK", "ERROR"},
           NEW val \in 0 .. Modulus - 1, Answer(w, rc, val)
    PROVE  /\ job' \in [Workers -> Job] /\ reply' \in [Workers -> Reply]
           /\ PointersSound' /\ AsOffered'
<1>1. TypeOK
  BY DEF DictInv
<1>2. Idle \in Job /\ Idle.pc = "idle" /\ Idle.req \in load.offered
  BY <1>1, RequestsAreTyped DEF Idle, Job
<1>3. [rc |-> rc, val |-> val] \in Reply
  BY DEF Reply
<1>4. job' = [job EXCEPT ![w] = Idle] /\ reply' = [reply EXCEPT ![w] = [rc |-> rc, val |-> val]]
  BY DEF Answer
<1>5. job \in [Workers -> Job] /\ reply \in [Workers -> Reply]
  BY <1>1 DEF TypeOK
<1>6. \A v \in Workers : job'[v] = IF v = w THEN Idle ELSE job[v]
  BY <1>4, <1>5
<1>7. PointersSound' /\ AsOffered'
  BY <1>2, <1>6 DEF DictInv, PointersSound, AsOffered
<1>. QED BY <1>2, <1>3, <1>4, <1>5, <1>7

LEMMA NewEntryIsTyped ==
    ASSUME NEW r \in Request, NEW t \in Nat
    PROVE  NewEntry(r, t) \in Entry
<1>1. Second \in Nat /\ Wrap \in Nat /\ Wrap > 0
  BY ShmDictAssumption
<1>2. r.exp \in Nat /\ r.key \in Keys /\ r.type \in Types /\ r.val \in 0 .. Modulus - 1
  BY DEF Request
<1>3. r.exp * Second \in Nat
  BY <1>1, <1>2
<1>. DEFINE n == r.exp * Second
<1>. HIDE DEF n
<1>4. n % Wrap \in Nat
  BY <1>1, <1>3 DEF n
<1>5. Expires(r.exp, t) \in Nat
  BY <1>4 DEF Expires, n
<1>. QED BY <1>2, <1>5 DEF NewEntry, Entry

\* What a worker that stores may do to the chunks and the counters.
LEMMA SetImplWrites ==
    ASSUME DictInv, NEW w \in Workers, NEW r \in Request, NEW flags, SetImpl(w, r, flags)
    PROVE  /\ \/ mem' = mem /\ counted' = counted
              \/ \E s \in Slots : /\ mem' = [mem EXCEPT ![s] = NewEntry(r, clock[w])]
                                  /\ counted' = [counted EXCEPT ![r.key] = r.val]
           /\ \E rc \in {"OK", "ERROR"}, val \in 0 .. Modulus - 1 : Answer(w, rc, val)
           /\ Touch(r.key) /\ locked' = FALSE /\ clock' = clock
<1>. DEFINE seen == Seen(r.key, clock[w])
            rest == Rest(r.key, clock[w])
            Reuses == seen.rc # "DECLINED" /\ Size[mem[seen.slot].type] = Size[r.type]
            Adds == \E s \in Slots : \E left : Insert(w, r, s, left)
            Leaves == mem' = mem /\ counted' = counted
                      /\ \E rc \in {"OK", "ERROR"} : Answer(w, rc, 0)
<1>1. seen.rc # "DECLINED" => seen.slot \in Slots
  BY SeenAndRest DEF DictInv
<1>2. \/ Leaves
      \/ Reuses /\ Insert(w, r, seen.slot, rest)
      \/ Allocate(w, r, flags, rest)
  BY DEF SetImpl, Seen, Base, Rest
<1>. HIDE DEF seen, rest
<1>3. Allocate(w, r, flags, rest) => Adds \/ Leaves
  <2>1. SUFFICES ASSUME Allocate(w, r, flags, rest) PROVE Adds \/ Leaves
    OBVIOUS
  <2>. DEFINE left == Evicted(rest, clock[w])
  <2>2. \/ \E s \in Free(rest, r.type) : Insert(w, r, s, rest)
        \/ Leaves
        \/ \E i \in 1 .. Tries : \E s \in Free(left[i], r.type) : Insert(w, r, s, left[i])
    BY <2>1 DEF Allocate
  <2>. HIDE DEF left
  <2>. QED BY <2>2, FreeIsNotHeld
<1>4. Adds \/ Leaves
  BY <1>1, <1>2, <1>3
<1>5. 0 \in 0 .. Modulus - 1 /\ r.val \in 0 .. Modulus - 1
  BY ShmDictAssumption DEF Request
<1>6. Touch(r.key) /\ locked' = FALSE /\ clock' = clock
  BY DEF SetImpl, Unlock
<1>. QED BY <1>4, <1>5, <1>6 DEF Insert

LEMMA SetImplKeeps ==
    ASSUME DictInv, load' = load, NEW w \in Workers, NEW r \in Request, NEW flags,
           SetImpl(w, r, flags)
    PROVE  DictInv'
<1>1. Served(r.key, clock[w], flags \cap {"DELETE", "SAFE"} = {})
  BY SetImplServes
<1>2. r.key \in Keys /\ r.val \in 0 .. Modulus - 1
  BY DEF Request
<1>3. /\ \/ mem' = mem /\ counted' = counted
         \/ \E s \in Slots : /\ mem' = [mem EXCEPT ![s] = NewEntry(r, clock[w])]
                             /\ counted' = [counted EXCEPT ![r.key] = r.val]
      /\ \E rc \in {"OK", "ERROR"}, val \in 0 .. Modulus - 1 : Answer(w, rc, val)
      /\ Touch(r.key) /\ locked' = FALSE /\ clock' = clock
  BY SetImplWrites
<1>4. queue' \in List(Slots) /\ recent' \in List(Keys) /\ OneKey' /\ RecentAgrees'
  BY <1>1, <1>2, <1>3, ServedKeeps
<1>5. /\ job' \in [Workers -> Job] /\ reply' \in [Workers -> Reply]
      /\ PointersSound' /\ AsOffered'
  BY <1>3, AnswerKeeps
<1>6. TypeOK
  BY DEF DictInv
<1>7. NewEntry(r, clock[w]) \in Entry
  BY <1>6, NewEntryIsTyped DEF TypeOK
<1>8. mem' \in [Slots -> Entry] /\ counted' \in [Keys -> 0 .. Modulus - 1]
  BY <1>2, <1>3, <1>6, <1>7 DEF TypeOK
<1>9. queue' \in Seq(Slots) /\ recent' \in Seq(Keys)
  BY <1>4 DEF List
<1>10. TypeOK'
  BY <1>3, <1>5, <1>6, <1>8, <1>9 DEF TypeOK
<1>. QED BY <1>4, <1>5, <1>10 DEF DictInv

LEMMA GetKeeps ==
    ASSUME DictInv, load' = load, NEW w \in Workers, Get(w)
    PROVE  DictInv'
<1>. DEFINE r == job[w].req
            seen == Seen(r.key, clock[w])
<1>1. TypeOK /\ job \in [Workers -> Job] /\ r \in Request /\ r.key \in Keys
  BY DEF DictInv, TypeOK, Job, Request
<1>2. queue' \in List(Slots) /\ recent' \in List(Keys) /\ OneKey' /\ RecentAgrees'
  <2>1. Served(r.key, clock[w], FALSE) /\ Touch(r.key)
    BY GetServes DEF Get
  <2>. QED BY <1>1, <2>1, ServedKeeps
<1>3. seen.rc # "DECLINED" => seen.slot \in Slots
  BY SeenAndRest DEF DictInv
<1>4. /\ mem' = mem /\ counted' = counted /\ clock' = clock /\ locked' = FALSE
      /\ \/ /\ seen.rc = "OK"
            /\ job' = [job EXCEPT ![w].slot = seen.slot,
                           ![w].pc = IF r.op = "get" THEN "copy" ELSE "add"]
            /\ reply' = reply
         \/ Answer(w, "ERROR", 0)
         \/ r.op # "get" /\ job' = [job EXCEPT ![w].pc = "absent"] /\ reply' = reply
      /\ r.op \in {"get", "incr", "decr"}
  BY DEF Get, Unlock, Seen, Base
<1>. HIDE DEF seen
<1>5. /\ job' \in [Workers -> Job] /\ reply' \in [Workers -> Reply]
      /\ PointersSound' /\ AsOffered'
  <2>1. CASE Answer(w, "ERROR", 0)
    <3>1. 0 \in 0 .. Modulus - 1
      BY ShmDictAssumption
    <3>. QED BY <2>1, <3>1, AnswerKeeps
  <2>. DEFINE j1 == [job[w] EXCEPT !.slot = seen.slot,
                                   !.pc = IF r.op = "get" THEN "copy" ELSE "add"]
              j2 == [job[w] EXCEPT !.pc = "absent"]
  <2>2. CASE /\ seen.rc = "OK"
             /\ job' = [job EXCEPT ![w].slot = seen.slot,
                           ![w].pc = IF r.op = "get" THEN "copy" ELSE "add"]
             /\ reply' = reply
    <3>1. seen.slot \in Slots
      BY <1>3, <2>2
    <3>2. job[w] \in Job
      BY <1>1
    <3>3. j1 \in Job /\ j1.req = r /\ j1.slot = seen.slot /\ (j1.pc = "add" => r.op # "get")
          /\ j1.pc # "absent"
      BY <3>1, <3>2 DEF Job
    <3>4. job' = [job EXCEPT ![w] = j1]
      BY <1>1, <2>2, <3>2 DEF Job
    <3>. HIDE DEF j1
    <3>5. \A v \in Workers : job'[v] = IF v = w THEN j1 ELSE job[v]
      BY <1>1, <3>4
    <3>6. PointersSound' /\ AsOffered'
      BY <1>4, <3>1, <3>3, <3>5 DEF DictInv, PointersSound, AsOffered
    <3>7. job' \in [Workers -> Job]
      BY <1>1, <3>3, <3>4
    <3>. QED BY <1>1, <2>2, <3>6, <3>7 DEF TypeOK
  <2>3. CASE r.op # "get" /\ job' = [job EXCEPT ![w].pc = "absent"] /\ reply' = reply
    <3>1. job[w] \in Job
      BY <1>1
    <3>2. j2 \in Job /\ j2.req = r /\ j2.pc = "absent"
      BY <3>1 DEF Job
    <3>3. job' = [job EXCEPT ![w] = j2]
      BY <1>1, <2>3, <3>1 DEF Job
    <3>. HIDE DEF j2
    <3>4. \A v \in Workers : job'[v] = IF v = w THEN j2 ELSE job[v]
      BY <1>1, <3>3
    <3>5. PointersSound' /\ AsOffered'
      BY <1>4, <2>3, <3>2, <3>4 DEF DictInv, PointersSound, AsOffered
    <3>6. job' \in [Workers -> Job]
      BY <1>1, <3>2, <3>3
    <3>. QED BY <1>1, <2>3, <3>5, <3>6 DEF TypeOK
  <2>. QED BY <1>4, <2>1, <2>2, <2>3
<1>6. queue' \in Seq(Slots) /\ recent' \in Seq(Keys)
  BY <1>2 DEF List
<1>7. TypeOK'
  BY <1>1, <1>4, <1>5, <1>6 DEF TypeOK
<1>. QED BY <1>2, <1>5, <1>7 DEF DictInv

LEMMA ArriveKeeps ==
    ASSUME DictInv, load' = load, NEW w \in Workers, Arrive(w)
    PROVE  DictInv'
<1>1. TypeOK /\ job \in [Workers -> Job] /\ load.offered \subseteq Request
  BY RequestsAreTyped DEF DictInv, TypeOK
<1>2. PICK r \in load.offered : job' = [job EXCEPT ![w].pc = "call", ![w].req = r]
  BY DEF Arrive
<1>. DEFINE j == [job[w] EXCEPT !.pc = "call", !.req = r]
<1>3. job[w] \in Job /\ r \in Request
  BY <1>1
<1>4. j \in Job /\ j.req = r /\ j.pc = "call"
  BY <1>3 DEF Job
<1>5. job' = [job EXCEPT ![w] = j]
  BY <1>1, <1>2, <1>3 DEF Job
<1>. HIDE DEF j
<1>6. \A v \in Workers : job'[v] = IF v = w THEN j ELSE job[v]
  BY <1>1, <1>5
<1>7. PointersSound' /\ AsOffered'
  BY <1>2, <1>4, <1>6 DEF DictInv, PointersSound, AsOffered
<1>8. job' \in [Workers -> Job]
  BY <1>1, <1>4, <1>5
<1>9. reply' \in [Workers -> Reply]
  <2>1. NoReply \in Reply
    BY ShmDictAssumption DEF NoReply, Reply
  <2>. QED BY <1>1, <2>1 DEF TypeOK, Arrive
<1>10. UNCHANGED <<locked, clock, queue, mem, counted, recent>>
  BY DEF Arrive
<1>11. TypeOK'
  BY <1>1, <1>8, <1>9, <1>10 DEF TypeOK
<1>12. OneKey' /\ RecentAgrees'
  BY <1>10 DEF DictInv, OneKey, RecentAgrees
<1>. QED BY <1>7, <1>10, <1>11, <1>12 DEF DictInv

LEMMA TickKeeps ==
    ASSUME DictInv, load' = load, NEW w \in Workers, Tick(w)
    PROVE  DictInv'
<1>1. UNCHANGED <<locked, queue, mem, job, reply, counted, recent>>
  BY DEF Tick
<1>2. clock' \in [Workers -> Nat]
  BY DEF Tick, DictInv, TypeOK
<1>. QED BY <1>1, <1>2 DEF DictInv, TypeOK, PointersSound, AsOffered, OneKey, RecentAgrees

\* Steps that answer and leave the queue as it is, or shorten it.
LEMMA AnswersKeep ==
    ASSUME DictInv, load' = load, NEW w \in Workers, NEW val \in 0 .. Modulus - 1,
           Answer(w, "OK", val), locked' \in BOOLEAN, clock' = clock,
           queue' \in List(Slots), Range(queue') \subseteq Range(queue),
           \A s, r : Ahead(queue', s, r) => Ahead(queue, s, r),
           mem' \in [Slots -> Entry], \A s \in Slots : mem'[s].key = mem[s].key,
           counted' \in [Keys -> 0 .. Modulus - 1],
           recent' \in List(Keys), \A x, y : Ahead(recent', x, y) => Ahead(recent, x, y)
    PROVE  DictInv'
<1>1. OneKey' /\ RecentAgrees'
  BY LessKeeps
<1>2. /\ job' \in [Workers -> Job] /\ reply' \in [Workers -> Reply]
      /\ PointersSound' /\ AsOffered'
  BY AnswerKeeps
<1>3. queue' \in Seq(Slots) /\ recent' \in Seq(Keys)
  BY DEF List
<1>4. TypeOK'
  BY <1>2, <1>3 DEF TypeOK, DictInv
<1>. QED BY <1>1, <1>2, <1>4 DEF DictInv

LEMMA CopyKeeps ==
    ASSUME DictInv, load' = load, NEW w \in Workers, Copy(w)
    PROVE  DictInv'
<1>1. job[w].slot \in Slots /\ mem \in [Slots -> Entry]
  BY DEF Copy, DictInv, PointersSound, TypeOK
<1>2. mem[job[w].slot].val \in 0 .. Modulus - 1
  BY <1>1 DEF Entry
<1>. QED BY <1>2, AnswersKeep DEF Copy, DictInv, TypeOK

LEMMA AddAndFetchKeeps ==
    ASSUME DictInv, load' = load, NEW w \in Workers, AddAndFetch(w)
    PROVE  DictInv'
<1>. DEFINE s0 == job[w].slot
            r == job[w].req
            sum == Add(mem[s0].val, Delta(r))
<1>1. TypeOK /\ s0 \in Slots /\ mem \in [Slots -> Entry] /\ r \in Request
      /\ counted \in [Keys -> 0 .. Modulus - 1]
  BY DEF AddAndFetch, DictInv, PointersSound, TypeOK, Job
<1>2. mem[s0] \in Entry /\ mem[s0].val \in 0 .. Modulus - 1
      /\ r.val \in 0 .. Modulus - 1 /\ r.key \in Keys
  BY <1>1 DEF Entry, Request
<1>3. Modulus \in Nat /\ \A n \in Int : n % Modulus \in 0 .. Modulus - 1
  BY <1>1, RequestsAreTyped
<1>4. Delta(r) \in 0 .. Modulus - 1
  BY <1>2, <1>3 DEF Delta
<1>5. sum \in 0 .. Modulus - 1
  BY <1>2, <1>3, <1>4 DEF Add
<1>6. (counted[r.key] + Delta(r)) % Modulus \in 0 .. Modulus - 1
  <2>1. counted[r.key] \in 0 .. Modulus - 1
    BY <1>1, <1>2
  <2>2. counted[r.key] + Delta(r) \in Int
    BY <1>3, <1>4, <2>1
  <2>. QED BY <1>3, <2>2
<1>7. /\ mem' = [mem EXCEPT ![s0].val = sum]
      /\ counted' = [counted EXCEPT ![r.key] = (@ + Delta(r)) % Modulus]
      /\ Answer(w, "OK", sum) /\ UNCHANGED <<locked, clock, queue, recent>>
  BY DEF AddAndFetch
<1>. HIDE DEF s0, sum, r
<1>8. counted' \in [Keys -> 0 .. Modulus - 1]
  BY <1>1, <1>2, <1>6, <1>7
<1>. DEFINE e == [mem[s0] EXCEPT !.val = sum]
<1>9. e \in Entry /\ e.key = mem[s0].key
  BY <1>2, <1>5 DEF Entry
<1>10. mem' = [mem EXCEPT ![s0] = e]
  BY <1>1, <1>2, <1>7 DEF Entry
<1>. HIDE DEF e
<1>11. mem' \in [Slots -> Entry] /\ \A s \in Slots : mem'[s].key = mem[s].key
  BY <1>1, <1>9, <1>10
<1>. QED BY <1>5, <1>7, <1>8, <1>11, AnswersKeep DEF DictInv, TypeOK

LEMMA FlushAllKeeps ==
    ASSUME DictInv, load' = load, NEW w \in Workers, FlushAll(w)
    PROVE  DictInv'
<1>. DEFINE flushed == [s \in Slots |-> IF s \in Held(queue)
                                        THEN [mem[s] EXCEPT !.expires = 1]
                                        ELSE mem[s]]
<1>1. /\ mem' = flushed /\ queue' = Expire(flushed, queue, 0, clock[w]) /\ Forget
      /\ Answer(w, "OK", 0) /\ locked' = FALSE /\ clock' = clock /\ counted' = counted
  BY DEF FlushAll, Unlock
<1>2. mem \in [Slots -> Entry] /\ queue \in List(Slots) /\ recent \in List(Keys)
      /\ 0 \in 0 .. Modulus - 1
  BY ShmDictAssumption DEF DictInv, TypeOK
<1>3. flushed \in [Slots -> Entry] /\ \A s \in Slots : flushed[s].key = mem[s].key
  <2>1. ASSUME NEW s \in Slots
        PROVE  [mem[s] EXCEPT !.expires = 1] \in Entry /\ [mem[s] EXCEPT !.expires = 1].key = mem[s].key
    <3>1. mem[s] \in Entry
      BY <1>2
    <3>. QED BY <3>1 DEF Entry
  <2>. QED BY <1>2, <2>1
<1>. HIDE DEF flushed
<1>4. IsFront(queue', queue)
  BY <1>1, <1>2, ExpireCuts
<1>5. queue' \in List(Slots) /\ Range(queue') \subseteq Range(queue)
      /\ \A s, r : Ahead(queue', s, r) => Ahead(queue, s, r)
  BY <1>4 DEF IsFront
<1>6. recent' \in List(Keys) /\ \A x, y : Ahead(recent', x, y) => Ahead(recent, x, y)
  BY <1>1, <1>2, ForgetOrders
<1>7. counted' \in [Keys -> 0 .. Modulus - 1] /\ locked' \in BOOLEAN
  BY <1>1 DEF DictInv, TypeOK
<1>. QED BY <1>1, <1>2, <1>3, <1>5, <1>6, <1>7, AnswersKeep

\* What ngx_shm_dict_flush_expired takes away is stale, and it keeps the order.
LEMMA FlushExpiredTakesStale ==
    ASSUME DictInv, NEW w \in Workers, FlushExpired(w)
    PROVE  /\ queue' \in List(Slots) /\ Range(queue') \subseteq Range(queue)
           /\ \A s, r : Ahead(queue', s, r) => Ahead(queue, s, r)
           /\ \A s \in Range(queue) \ Range(queue') : Stale(mem[s], clock[w])
           /\ mem' = mem /\ counted' = counted /\ clock' = clock
           /\ Answer(w, "OK", 0) /\ Forget /\ locked' = (queue = <<>>)
<1>. DEFINE StaleAt(i) == Stale(mem[queue[i]], clock[w])
            Behind(i) == Cardinality({j \in i + 1 .. Len(queue) : StaleAt(j)})
            goes == {queue[i] : i \in {j \in DOMAIN queue :
                        StaleAt(j) /\ (job[w].req.exp = 0 \/ Behind(j) < job[w].req.exp)}}
<1>1. \A s \in goes : Stale(mem[s], clock[w])
  OBVIOUS
<1>2. /\ queue' = Kept(queue, Held(queue) \ goes) /\ mem' = mem /\ counted' = counted
      /\ clock' = clock /\ Answer(w, "OK", 0) /\ Forget /\ locked' = (queue = <<>>)
  BY DEF FlushExpired
<1>. HIDE DEF goes
<1>3. /\ queue' \in List(Slots)
      /\ Range(queue') = Range(queue) \cap (Range(queue) \ goes)
      /\ \A s, r : Ahead(queue', s, r) => Ahead(queue, s, r)
  BY <1>2, KeptIsList DEF DictInv, Held
<1>. QED BY <1>1, <1>2, <1>3

LEMMA FlushExpiredKeeps ==
    ASSUME DictInv, load' = load, NEW w \in Workers, FlushExpired(w)
    PROVE  DictInv'
<1>1. /\ queue' \in List(Slots) /\ Range(queue') \subseteq Range(queue)
      /\ \A s, r : Ahead(queue', s, r) => Ahead(queue, s, r)
      /\ mem' = mem /\ counted' = counted /\ clock' = clock
      /\ Answer(w, "OK", 0) /\ Forget /\ locked' = (queue = <<>>)
  BY FlushExpiredTakesStale
<1>2. recent' \in List(Keys) /\ \A x, y : Ahead(recent', x, y) => Ahead(recent, x, y)
  BY <1>1, ForgetOrders DEF DictInv
<1>3. 0 \in 0 .. Modulus - 1
  BY ShmDictAssumption
<1>. QED BY <1>1, <1>2, <1>3, AnswersKeep DEF DictInv, TypeOK

LEMMA GetTotalKeysKeeps ==
    ASSUME DictInv, load' = load, NEW w \in Workers, GetTotalKeys(w)
    PROVE  DictInv'
<1>. DEFINE T == {s \in Held(queue) : job[w].req.exp = 1 \/ ~Stale(mem[s], clock[w])}
<1>1. T \subseteq Slots /\ IsFiniteSet(Slots)
  BY MembersInSet, ShmDictAssumption DEF DictInv, Held
<1>2. /\ Answer(w, "OK", Cardinality(T) % Modulus) /\ locked' = FALSE
      /\ UNCHANGED <<clock, queue, mem, counted, recent>>
  BY DEF GetTotalKeys, Unlock
<1>. HIDE DEF T
<1>3. Cardinality(T) \in Nat
  BY <1>1, FS_Subset, FS_CardinalityType
<1>4. Cardinality(T) % Modulus \in 0 .. Modulus - 1
  BY <1>3, RequestsAreTyped DEF DictInv
<1>. QED BY <1>2, <1>4, AnswersKeep DEF DictInv, TypeOK

LEMMA NextKeeps ==
    ASSUME DictInv, [Next]_vars
    PROVE  DictInv'
<1>1. CASE UNCHANGED vars
  BY <1>1 DEF vars, DictInv, TypeOK, PointersSound, AsOffered, OneKey, RecentAgrees, Idle
<1>2. CASE Next
  <2>1. load' = load
    BY <1>2 DEF Next
  <2>2. PICK w \in Workers : Arrive(w) \/ Tick(w) \/ Run(w)
    BY <1>2 DEF Next
  <2>3. job[w].req \in Request
    BY DEF DictInv, TypeOK, Job
  <2>4. CASE Store(w) \/ StoreDelta(w)
    BY <2>1, <2>3, <2>4, SetImplKeeps DEF Store, StoreDelta
  <2>. QED BY <2>1, <2>2, <2>4, ArriveKeeps, TickKeeps, GetKeeps, CopyKeeps, AddAndFetchKeeps,
              FlushAllKeeps, FlushExpiredKeeps, GetTotalKeysKeeps DEF Run
<1>. QED BY <1>1, <1>2

\* The zone as the run finds it: each entry of the load is queued once.
LEMMA QueueAtFirst ==
    ASSUME Init
    PROVE  /\ queue \in List(Slots) /\ Range(queue) = DOMAIN load.preset
           /\ mem \in [Slots -> Entry]
           /\ \A s \in DOMAIN load.preset : mem[s] = load.preset[s]
           /\ OneKey
<1>. DEFINE S == DOMAIN load.preset
            n == Cardinality(S)
<1>1. load \in Loads
  BY DEF Init
<1>2. /\ load.offered # {} /\ load.offered \subseteq Request /\ S \subseteq Slots
      /\ \A s \in S : load.preset[s] \in Entry
      /\ \A s, r \in S : load.preset[s].key = load.preset[r].key => s = r
  BY <1>1, ShmDictAssumption
<1>3. IsFiniteSet(S) /\ n \in Nat
  BY <1>2, ShmDictAssumption, FS_Subset, FS_CardinalityType
<1>4. queue \in [1 .. n -> S] /\ \A i, j \in 1 .. n : i # j => queue[i] # queue[j]
  BY DEF Init, SetToSeqs
<1>. HIDE DEF n, S
<1>5. queue \in Seq(Slots) /\ DOMAIN queue = 1 .. n /\ Len(queue) = n /\ queue \in Seq(S)
  BY <1>2, <1>3, <1>4
<1>6. queue \in List(Slots) /\ queue \in List(S)
  BY <1>4, <1>5 DEF List
<1>7. Range(queue) \subseteq S
  BY <1>6, MembersInSet
<1>8. Range(queue) = S
  <2>1. Cardinality(Range(queue)) = Cardinality(S)
    BY <1>5, <1>6, LengthCounts DEF n
  <2>. QED BY <1>3, <1>7, <2>1, FS_Subset
<1>9. mem \in [Slots -> Entry] /\ \A s \in S : mem[s] = load.preset[s]
  <2>1. mem = [s \in Slots |-> IF s \in S THEN load.preset[s] ELSE Blank]
    BY DEF Init, S
  <2>2. ASSUME NEW s \in Slots, s \notin S PROVE Blank \in Entry
    <3>1. PICK r \in load.offered : r \in Request
      BY <1>2
    <3>2. Keys # {} /\ Types # {} /\ 0 \in 0 .. Modulus - 1
      BY <3>1, ShmDictAssumption DEF Request
    <3>. QED BY <3>2 DEF Blank, Entry
  <2>. QED BY <1>2, <2>1, <2>2
<1>10. OneKey
  BY <1>2, <1>8, <1>9 DEF OneKey
<1>. QED BY <1>6, <1>8, <1>9, <1>10 DEF S

LEMMA InitKeeps ==
    ASSUME Init
    PROVE  DictInv
<1>1. /\ queue \in List(Slots) /\ mem \in [Slots -> Entry] /\ OneKey
  BY QueueAtFirst
<1>2. queue \in Seq(Slots) /\ DOMAIN queue = 1 .. Len(queue) /\ Len(queue) \in Nat
      /\ \A i, j \in DOMAIN queue : queue[i] = queue[j] => i = j
  BY <1>1 DEF List
<1>3. recent = [i \in DOMAIN queue |-> mem[queue[i]].key]
  BY DEF Init
<1>4. \A i \in DOMAIN queue : mem[queue[i]].key \in Keys /\ queue[i] \in Range(queue)
  BY <1>1, <1>2 DEF Entry, Range
<1>5. recent \in Seq(Keys) /\ DOMAIN recent = DOMAIN queue
  BY <1>2, <1>3, <1>4
<1>6. \A i, j \in DOMAIN recent : recent[i] = recent[j] => i = j
  BY <1>1, <1>2, <1>3, <1>4, <1>5 DEF OneKey
<1>7. recent \in List(Keys)
  BY <1>5, <1>6 DEF List
<1>8. RecentAgrees
  <2>1. ASSUME NEW s, NEW r, Ahead(queue, s, r), Ahead(recent, mem[r].key, mem[s].key)
        PROVE  FALSE
    <3>1. PICK i, j \in DOMAIN queue : i < j /\ queue[i] = s /\ queue[j] = r
      BY <2>1 DEF Ahead
    <3>2. PICK a, b \in DOMAIN queue : a < b /\ recent[a] = mem[r].key /\ recent[b] = mem[s].key
      BY <1>5, <2>1 DEF Ahead
    <3>3. recent[i] = mem[s].key /\ recent[j] = mem[r].key
      BY <1>3, <3>1
    <3>4. a = j /\ b = i
      BY <1>5, <1>6, <3>1, <3>2, <3>3
    <3>. QED BY <1>2, <3>1, <3>2, <3>4
  <2>. QED BY <2>1 DEF RecentAgrees
<1>9. load \in Loads /\ load.offered # {} /\ load.offered \subseteq Request
      /\ \A s \in DOMAIN load.preset : load.preset[s] \in Entry
  BY ShmDictAssumption DEF Init
<1>10. Idle \in Job /\ Idle.pc = "idle" /\ Idle.req \in load.offered
  BY <1>9 DEF Idle, Job
<1>11. job \in [Workers -> Job] /\ PointersSound /\ AsOffered
  BY <1>10 DEF Init, PointersSound, AsOffered
<1>12. 0 \in 0 .. Modulus - 1
  BY ShmDictAssumption
<1>13. reply \in [Workers -> Reply]
  BY <1>12 DEF Init, NoReply, Reply
<1>14. counted \in [Keys -> 0 .. Modulus - 1]
  <2>. DEFINE at(k) == {s \in DOMAIN load.preset : load.preset[s].key = k}
              first(k) == IF at(k) = {} THEN 0 ELSE load.preset[CHOOSE s \in at(k) : TRUE].val
  <2>1. ASSUME NEW k \in Keys PROVE first(k) \in 0 .. Modulus - 1
    <3>1. CASE at(k) # {}
      <4>1. (CHOOSE s \in at(k) : TRUE) \in at(k)
        BY <3>1
      <4>. QED BY <1>9, <3>1, <4>1 DEF Entry
    <3>. QED BY <1>12, <3>1
  <2>2. counted = [k \in Keys |-> first(k)]
    BY DEF Init
  <2>. HIDE DEF first
  <2>. QED BY <2>1, <2>2
<1>15. locked \in BOOLEAN /\ clock \in [Workers -> Nat]
  BY DEF Init
<1>16. TypeOK
  BY <1>1, <1>2, <1>5, <1>9, <1>11, <1>13, <1>14, <1>15 DEF TypeOK
<1>. QED BY <1>1, <1>7, <1>8, <1>11, <1>16 DEF DictInv

\* The zone is sound at every moment: the queue and the index hold the same
\* chunks, each once, whatever the workers of nginx do between the locks.
THEOREM DictInvAlways == Spec => []DictInv
<1>1. Init => DictInv
  BY InitKeeps
<1>2. DictInv /\ [Next]_vars => DictInv'
  BY NextKeeps
<1>. QED BY <1>1, <1>2, PTL DEF Spec

\* No chunk is queued twice and no key has two entries.
THEOREM OneEntryPerKeyAlways == Spec => []OneEntryPerKey
<1>1. DictInv => OneEntryPerKey
  <2>1. SUFFICES ASSUME DictInv, NEW i \in DOMAIN queue, NEW j \in DOMAIN queue,
                        mem[queue[i]].key = mem[queue[j]].key
                 PROVE  i = j
    BY DEF OneEntryPerKey
  <2>2. queue[i] \in Range(queue) /\ queue[j] \in Range(queue)
    BY DEF Range
  <2>3. queue[i] = queue[j]
    BY <2>1, <2>2 DEF DictInv, OneKey
  <2>. QED BY <2>1, <2>3 DEF DictInv, List
<1>. QED BY <1>1, DictInvAlways, PTL

-----------------------------------------------------------------------------
LEMMA LiveSame ==
    ASSUME DictInv, queue' = queue, NEW t,
           \A s \in Slots : mem'[s].key = mem[s].key /\ mem'[s].expires = mem[s].expires
    PROVE  Live(queue', mem', t) = Live(queue, mem, t)
<1>1. Range(queue) \subseteq Slots
  BY MembersInSet DEF DictInv
<1>. QED BY <1>1 DEF Live, Held

LEMMA ServedIsFair ==
    ASSUME DictInv, NEW w \in Workers, NEW swap,
           Served(job[w].req.key, clock[w], swap),
           MakesNoRoom(w) => ~swap
    PROVE  EvictsOldest(w) /\ SafeDoesNotSwap(w)
<1>. DEFINE k == job[w].req.key
            t == clock[w]
<1>. HIDE DEF k, t
<1>1. Served(k, t, swap)
  BY DEF k, t
<1>2. ASSUME NEW kk \in Live(queue, mem, t) \ {k}, kk \notin Live(queue', mem', t)
      PROVE  swap /\ \A l \in Live(queue', mem', t) \ {k} : Older(kk, l)
  <2>1. PICK s \in Range(queue) : mem[s].key = kk /\ (mem[s].expires = 0 \/ mem[s].expires > t)
    BY DEF Live, Held
  <2>2. kk # k
    OBVIOUS
  <2>3. ~Stale(mem[s], t)
    <3>1. mem[s] \in Entry /\ t \in Nat
      BY MembersInSet DEF DictInv, TypeOK, t
    <3>2. mem[s].expires \in Nat
      BY <3>1 DEF Entry
    <3>. QED BY <2>1, <3>1, <3>2 DEF Stale
  <2>4. ~(s \in Range(queue') /\ mem'[s] = mem[s])
    BY <1>2, <2>1 DEF Live, Held
  <2>5. swap /\ \A x \in Range(queue') : mem'[x].key = k \/ Ahead(queue, x, s)
    BY <1>1, <2>1, <2>2, <2>3, <2>4 DEF Served
  <2>6. ASSUME NEW l \in Live(queue', mem', t) \ {k} PROVE Older(kk, l)
    <3>1. PICK x \in Range(queue') : mem'[x].key = l
      BY DEF Live, Held
    <3>2. l # k
      OBVIOUS
    <3>3. Ahead(queue, x, s) /\ mem'[x] = mem[x] /\ x \in Range(queue)
      BY <1>1, <2>5, <3>1, <3>2 DEF Served
    <3>4. ~Ahead(recent, kk, l)
      BY <2>1, <3>1, <3>3 DEF DictInv, RecentAgrees
    <3>5. kk # l
      <4>1. x # s
        BY <3>3, AheadIsStrict DEF DictInv
      <4>. QED BY <2>1, <3>1, <3>3, <4>1 DEF DictInv, OneKey
    <3>6. ASSUME NEW i \in DOMAIN recent, NEW j \in DOMAIN recent, recent[i] = kk, recent[j] = l
          PROVE  j < i
      <4>1. i \in Nat /\ j \in Nat
        BY DEF DictInv, List
      <4>2. i # j /\ ~(i < j)
        BY <3>4, <3>5, <3>6 DEF Ahead
      <4>. QED BY <4>1, <4>2
    <3>. QED BY <3>6 DEF Older
  <2>. QED BY <2>5, <2>6
<1>3. EvictsOldest(w)
  BY <1>2 DEF EvictsOldest, k, t
<1>4. SafeDoesNotSwap(w)
  BY <1>2 DEF SafeDoesNotSwap, k, t
<1>. QED BY <1>3, <1>4

LEMMA RunIsFair ==
    ASSUME DictInv, NEW w \in Workers, Run(w)
    PROVE  EvictsOldest(w) /\ SafeDoesNotSwap(w)
<1>. DEFINE r == job[w].req
<1>1. r \in Request
  BY DEF DictInv, TypeOK, Job
<1>2. CASE Store(w)
  <2>1. Served(r.key, clock[w], Flags(r.op) \cap {"DELETE", "SAFE"} = {})
    BY <1>1, <1>2, SetImplServes DEF Store
  <2>2. MakesNoRoom(w) => Served(r.key, clock[w], FALSE)
    BY <1>2, RefusedServes
  <2>3. CASE MakesNoRoom(w)
    BY <2>2, <2>3, ServedIsFair
  <2>4. CASE ~MakesNoRoom(w)
    BY <2>1, <2>4, ServedIsFair
  <2>. QED BY <2>3, <2>4
<1>3. CASE Get(w)
  BY <1>3, GetServes, ServedIsFair
<1>4. ASSUME Live(queue', mem', clock[w]) = Live(queue, mem, clock[w])
      PROVE  EvictsOldest(w) /\ SafeDoesNotSwap(w)
  BY <1>4 DEF EvictsOldest, SafeDoesNotSwap
<1>5. CASE Copy(w) \/ GetTotalKeys(w)
  BY <1>4, <1>5, LiveSame DEF Copy, GetTotalKeys
<1>6. CASE AddAndFetch(w)
  <2>1. queue' = queue
    BY <1>6 DEF AddAndFetch
  <2>2. \A s \in Slots : mem'[s].key = mem[s].key /\ mem'[s].expires = mem[s].expires
    <3>. DEFINE sum == Add(mem[job[w].slot].val, Delta(job[w].req))
    <3>1. mem' = [mem EXCEPT ![job[w].slot].val = sum]
      BY <1>6 DEF AddAndFetch
    <3>. HIDE DEF sum
    <3>2. mem \in [Slots -> Entry]
      BY DEF DictInv, TypeOK
    <3>. QED BY <3>1, <3>2 DEF Entry
  <2>. QED BY <1>4, <2>1, <2>2, LiveSame
<1>7. CASE StoreDelta(w)
  <2>. DEFINE swap == {} \cap {"DELETE", "SAFE"} = {}
  <2>1. Served(r.key, clock[w], swap)
    BY <1>1, <1>7, SetImplServes DEF StoreDelta
  <2>2. job[w].req.op \in {"incr", "decr"}
    BY <1>7 DEF StoreDelta, DictInv, AsOffered
  <2>. HIDE DEF swap
  <2>3. ~MakesNoRoom(w)
    BY <2>2 DEF MakesNoRoom
  <2>. QED BY <2>1, <2>3, ServedIsFair
<1>8. CASE FlushAll(w)
  BY <1>8 DEF FlushAll, EvictsOldest, SafeDoesNotSwap, MakesNoRoom
<1>9. CASE FlushExpired(w)
  <2>. DEFINE t == clock[w]
  <2>1. queue' \in List(Slots) /\ mem' = mem
        /\ \A s \in Range(queue) \ Range(queue') : Stale(mem[s], t)
    BY <1>9, FlushExpiredTakesStale
  <2>2. Live(queue, mem, t) \subseteq Live(queue', mem', t)
    <3>1. ASSUME NEW s \in Range(queue), mem[s].expires = 0 \/ mem[s].expires > t
          PROVE  s \in Range(queue')
      <4>1. mem[s] \in Entry /\ t \in Nat
        BY MembersInSet DEF DictInv, TypeOK
      <4>2. mem[s].expires \in Nat
        BY <4>1 DEF Entry
      <4>. QED BY <2>1, <3>1, <4>1, <4>2 DEF Stale
    <3>. QED BY <2>1, <3>1 DEF Live, Held
  <2>. QED BY <2>2 DEF EvictsOldest, SafeDoesNotSwap
<1>. QED BY <1>2, <1>3, <1>5, <1>6, <1>7, <1>8, <1>9 DEF Run

\* A step of one worker is no step of another one.
LEMMA OthersWait ==
    ASSUME DictInv, NEW v \in Workers, NEW w \in Workers, v # w,
           Arrive(v) \/ Tick(v) \/ Run(v)
    PROVE  job'[w] = job[w]
<1>1. job \in [Workers -> Job] /\ job[v].req \in Request
  BY DEF DictInv, TypeOK, Job
<1>2. ASSUME NEW rc, NEW val, Answer(v, rc, val) PROVE job'[w] = job[w]
  BY <1>1, <1>2 DEF Answer
<1>3. CASE Store(v) \/ StoreDelta(v)
  <2>1. \E rc \in {"OK", "ERROR"}, val \in 0 .. Modulus - 1 : Answer(v, rc, val)
    BY <1>1, <1>3, SetImplWrites DEF Store, StoreDelta
  <2>. QED BY <1>2, <2>1
<1>4. CASE Get(v)
  BY <1>1, <1>2, <1>4 DEF Get
<1>5. CASE Arrive(v) \/ Tick(v)
  BY <1>1, <1>5 DEF Arrive, Tick
<1>6. CASE Copy(v)
  BY <1>2, <1>6 DEF Copy
<1>7. CASE AddAndFetch(v)
  BY <1>2, <1>7 DEF AddAndFetch
<1>8. CASE FlushAll(v)
  BY <1>2, <1>8 DEF FlushAll
<1>9. CASE FlushExpired(v)
  BY <1>2, <1>9 DEF FlushExpired
<1>10. CASE GetTotalKeys(v)
  BY <1>2, <1>10 DEF GetTotalKeys
<1>. QED BY <1>3, <1>4, <1>5, <1>6, <1>7, <1>8, <1>9, <1>10 DEF Run

\* Room is made at the expense of the least recently used entries, and only for
\* requests that may swap.
THEOREM RoomIsFairAlways == Spec => RoomIsFair
<1>1. ASSUME DictInv, [Next]_vars, NEW w \in Workers, Acts(w)
      PROVE  EvictsOldest(w) /\ SafeDoesNotSwap(w)
  <2>1. PICK v \in Workers : Arrive(v) \/ Tick(v) \/ Run(v)
    BY <1>1 DEF Next, vars, Acts
  <2>2. v = w
    BY <1>1, <2>1, OthersWait DEF Acts
  <2>3. Run(w)
    BY <1>1, <2>1, <2>2 DEF Acts, Arrive, Tick
  <2>. QED BY <1>1, <2>3, RunIsFair
<1>2. DictInv /\ [Next]_vars => [\A w \in Workers : Acts(w) => EvictsOldest(w) /\ SafeDoesNotSwap(w)]_vars
  BY <1>1
<1>. QED BY <1>2, DictInvAlways, PTL DEF Spec, RoomIsFair

-----------------------------------------------------------------------------
Counters == {load.preset[s].key : s \in DOMAIN load.preset}

\* A counter has its entry, the entry has the value it was told to hold, and who
\* is about to add holds a pointer to that entry.
CountersHeld ==
    LeavesCounters =>
        /\ \A k \in Counters : \E s \in Range(queue) :
              mem[s].key = k /\ mem[s].expires = 0 /\ mem[s].val = counted[k]
        /\ \A w \in Workers :
              /\ job[w].pc # "absent"
              /\ job[w].pc = "add" =>
                    job[w].slot \in Range(queue) /\ mem[job[w].slot].key = job[w].req.key

LEMMA OffersLeaveCounters ==
    ASSUME DictInv, LeavesCounters, NEW w \in Workers
    PROVE  /\ job[w].req.op \notin {"set", "add", "replace", "flush_all"}
           /\ job[w].req.op \in {"del", "safe_set"} => job[w].req.key \notin Counters
           /\ job[w].req.op \in {"incr", "decr"} => job[w].req.key \in Counters
BY DEF DictInv, AsOffered, LeavesCounters, Counters

\* A look-up finds a counter.
LEMMA CounterIsSeen ==
    ASSUME DictInv, NEW s \in Range(queue), mem[s].expires = 0, NEW t
    PROVE  LET seen == Seen(mem[s].key, t)
           IN  seen.rc = "OK" /\ seen.slot = s /\ s \in Range(seen.q)
<1>. DEFINE k == mem[s].key
            base == Base(t)
            seen == Seen(k, t)
<1>1. /\ base \in List(Slots) /\ Range(base) \subseteq Range(queue)
      /\ \A r \in Range(queue) \ Range(base) : Stale(mem[r], t)
  BY ExpireCuts DEF Base, IsFront, DictInv
<1>. HIDE DEF base
<1>2. s \in Range(base)
  BY <1>1 DEF Stale
<1>3. /\ Range(seen.q) = Range(base)
      /\ \/ \A r \in Range(base) : mem[r].key # k
         \/ /\ seen.rc = IF Done(mem[seen.slot], t) THEN "DONE" ELSE "OK"
            /\ seen.slot \in Range(base) /\ mem[seen.slot].key = k
  BY <1>1, LookupFinds DEF Seen, base
<1>. HIDE DEF seen
<1>4. seen.slot = s
  BY <1>1, <1>2, <1>3 DEF DictInv, OneKey
<1>5. seen.rc = "OK"
  BY <1>2, <1>3, <1>4 DEF Done
<1>. QED BY <1>2, <1>3, <1>4, <1>5 DEF seen

\* The entries that do not expire are where they were.
LEMMA CountersStay ==
    ASSUME DictInv, LeavesCounters, CountersHeld, load' = load,
           \A s \in Range(queue) : mem[s].expires = 0 /\ mem[s].key \in Counters =>
               s \in Range(queue') /\ mem'[s] = mem[s],
           \A k \in Counters : counted'[k] = counted[k],
           \A v \in Workers :
               \/ job'[v] = job[v]
               \/ job'[v].pc \notin {"add", "absent"}
               \/ /\ job'[v].pc = "add"
                  /\ job'[v].slot \in Range(queue')
                  /\ mem'[job'[v].slot].key = job'[v].req.key
    PROVE  CountersHeld'
<1>1. Counters' = Counters
  BY DEF Counters
<1>2. ASSUME NEW k \in Counters
      PROVE  \E s \in Range(queue') :
                mem'[s].key = k /\ mem'[s].expires = 0 /\ mem'[s].val = counted'[k]
  BY DEF CountersHeld
<1>3. ASSUME NEW v \in Workers
      PROVE  /\ job'[v].pc # "absent"
             /\ job'[v].pc = "add" =>
                   job'[v].slot \in Range(queue') /\ mem'[job'[v].slot].key = job'[v].req.key
  <2>1. CASE job'[v] = job[v] /\ job[v].pc = "add"
    <3>1. job[v].req.key \in Counters
      BY <2>1, OffersLeaveCounters DEF DictInv, AsOffered
    <3>2. PICK s \in Range(queue) : mem[s].key = job[v].req.key /\ mem[s].expires = 0
      BY <3>1 DEF CountersHeld
    <3>3. job[v].slot = s
      BY <2>1, <3>2 DEF CountersHeld, DictInv, OneKey
    <3>. QED BY <2>1, <3>1, <3>2, <3>3
  <2>. QED BY <2>1 DEF CountersHeld
<1>. QED BY <1>1, <1>2, <1>3 DEF CountersHeld

LEMMA AnswerLeavesOthers ==
    ASSUME DictInv, NEW w \in Workers, NEW rc, NEW val, Answer(w, rc, val), NEW v \in Workers
    PROVE  job'[v] = job[v] \/ job'[v].pc \notin {"add", "absent"}
<1>1. job \in [Workers -> Job] /\ Idle.pc = "idle"
  BY DEF DictInv, TypeOK, Idle
<1>. QED BY <1>1 DEF Answer

LEMMA StoreLeavesCounters ==
    ASSUME DictInv, LeavesCounters, CountersHeld, load' = load, NEW w \in Workers, Store(w)
    PROVE  CountersHeld'
<1>. DEFINE r == job[w].req
            k == r.key
            t == clock[w]
            flags == Flags(r.op)
<1>1. r \in Request /\ SetImpl(w, r, flags)
  BY DEF DictInv, TypeOK, Job, Store
<1>2. r.op \in {"safe_set", "safe_add", "del"} /\ (k \in Counters => r.op = "safe_add")
  BY OffersLeaveCounters DEF Store
<1>3. flags \cap {"DELETE", "SAFE"} # {} /\ (r.op = "safe_add" => flags = {"ADD", "SAFE"})
  BY <1>2 DEF Flags
<1>. HIDE DEF flags
<1>4. \A v \in Workers : job'[v] = job[v] \/ job'[v].pc \notin {"add", "absent"}
  BY <1>1, SetImplWrites, AnswerLeavesOthers
<1>5. CASE k \notin Counters
  <2>1. Served(k, t, flags \cap {"DELETE", "SAFE"} = {})
    BY <1>1, SetImplServes
  <2>2. ASSUME NEW s \in Range(queue), mem[s].expires = 0, mem[s].key \in Counters
        PROVE  s \in Range(queue') /\ mem'[s] = mem[s]
    BY <1>3, <1>5, <2>1, <2>2 DEF Served, Stale
  <2>3. counted' = counted \/ counted' = [counted EXCEPT ![k] = r.val]
    BY <1>1, SetImplWrites
  <2>4. \A c \in Counters : counted'[c] = counted[c]
    <3>1. Counters \subseteq Keys
      BY ShmDictAssumption DEF Counters, Entry, DictInv, TypeOK
    <3>2. DOMAIN counted = Keys
      BY DEF DictInv, TypeOK
    <3>. QED BY <1>5, <2>3, <3>1, <3>2
  <2>. QED BY <1>4, <2>2, <2>4, CountersStay
<1>6. CASE k \in Counters
  <2>. DEFINE seen == Seen(k, t)
  <2>1. PICK s0 \in Range(queue) : mem[s0].key = k /\ mem[s0].expires = 0
    BY <1>6 DEF CountersHeld
  <2>2. seen.rc = "OK"
    BY <2>1, CounterIsSeen
  <2>3. \A s \in Range(queue) \ Range(seen.q) : Stale(mem[s], t)
    BY SeenAndRest DEF DictInv
  <2>4. Refuses(flags, seen.rc)
    BY <1>2, <1>3, <1>6, <2>2 DEF Refuses
  <2>5. queue' = seen.q /\ mem' = mem /\ counted' = counted
    BY <1>1, <1>2, <1>3, <1>6, <2>4 DEF SetImpl, Seen, Base
  <2>. HIDE DEF seen
  <2>6. ASSUME NEW s \in Range(queue), mem[s].expires = 0 PROVE s \in Range(queue')
    BY <2>3, <2>5, <2>6 DEF Stale
  <2>. QED BY <1>4, <2>5, <2>6, CountersStay
<1>. QED BY <1>5, <1>6

LEMMA GetLeavesCounters ==
    ASSUME DictInv, LeavesCounters, CountersHeld, load' = load, NEW w \in Workers, Get(w)
    PROVE  CountersHeld'
<1>. DEFINE r == job[w].req
            seen == Seen(r.key, clock[w])
<1>1. /\ r.op \in {"get", "incr", "decr"}
      /\ queue' = seen.q /\ mem' = mem /\ counted' = counted
      /\ \/ /\ seen.rc = "OK"
            /\ job' = [job EXCEPT ![w].slot = seen.slot,
                           ![w].pc = IF r.op = "get" THEN "copy" ELSE "add"]
         \/ Answer(w, "ERROR", 0)
         \/ /\ seen.rc # "OK" /\ r.op # "get"
            /\ job' = [job EXCEPT ![w].pc = "absent"]
  BY DEF Get, Seen, Base
<1>2. \A s \in Range(queue) \ Range(seen.q) : Stale(mem[s], clock[w])
  BY SeenAndRest DEF DictInv
<1>3. ASSUME r.op # "get"
      PROVE  /\ seen.rc = "OK" /\ seen.slot \in Range(seen.q)
             /\ mem[seen.slot].key = r.key
  <2>1. r.key \in Counters
    BY <1>1, <1>3, OffersLeaveCounters
  <2>2. PICK s0 \in Range(queue) : mem[s0].key = r.key /\ mem[s0].expires = 0
    BY <2>1 DEF CountersHeld
  <2>. QED BY <2>2, CounterIsSeen
<1>. HIDE DEF seen
<1>4. ASSUME NEW s \in Range(queue), mem[s].expires = 0 PROVE s \in Range(queue')
  BY <1>1, <1>2, <1>4 DEF Stale
<1>5. ASSUME NEW v \in Workers
      PROVE  \/ job'[v] = job[v]
             \/ job'[v].pc \notin {"add", "absent"}
             \/ /\ job'[v].pc = "add"
                /\ job'[v].slot \in Range(queue')
                /\ mem'[job'[v].slot].key = job'[v].req.key
  <2>1. job \in [Workers -> Job]
    BY DEF DictInv, TypeOK
  <2>2. CASE Answer(w, "ERROR", 0)
    BY <2>2, AnswerLeavesOthers
  <2>3. CASE /\ seen.rc = "OK"
             /\ job' = [job EXCEPT ![w].slot = seen.slot,
                           ![w].pc = IF r.op = "get" THEN "copy" ELSE "add"]
    <3>1. CASE v = w
      <4>1. job[w] \in Job
        BY <2>1
      <4>2. job'[w].slot = seen.slot /\ job'[w].req = r
            /\ job'[w].pc = IF r.op = "get" THEN "copy" ELSE "add"
        BY <2>1, <2>3, <4>1 DEF Job
      <4>3. CASE r.op = "get"
        BY <3>1, <4>2, <4>3
      <4>4. CASE r.op # "get"
        BY <1>1, <1>3, <3>1, <4>2, <4>4
      <4>. QED BY <4>3, <4>4
    <3>2. CASE v # w
      BY <2>1, <2>3, <3>2
    <3>. QED BY <3>1, <3>2
  <2>. QED BY <1>1, <1>3, <2>2, <2>3
<1>. QED BY <1>1, <1>4, <1>5, CountersStay

LEMMA AddKeepsCount ==
    ASSUME DictInv, LeavesCounters, CountersHeld, load' = load, NEW w \in Workers,
           AddAndFetch(w)
    PROVE  CountersHeld'
<1>. DEFINE r == job[w].req
            k == r.key
            s0 == job[w].slot
            sum == Add(mem[s0].val, Delta(r))
<1>1. /\ job[w].pc = "add" /\ queue' = queue
      /\ mem' = [mem EXCEPT ![s0].val = sum]
      /\ counted' = [counted EXCEPT ![k] = (@ + Delta(r)) % Modulus]
      /\ Answer(w, "OK", sum)
  BY DEF AddAndFetch
<1>2. /\ mem \in [Slots -> Entry] /\ counted \in [Keys -> 0 .. Modulus - 1]
      /\ s0 \in Slots /\ r \in Request /\ Counters' = Counters
  BY <1>1 DEF DictInv, TypeOK, PointersSound, Job, Counters
<1>3. k \in Keys /\ k \in Counters /\ s0 \in Range(queue) /\ mem[s0].key = k
  BY <1>1, <1>2, OffersLeaveCounters DEF Request, DictInv, AsOffered, CountersHeld
<1>4. mem[s0].expires = 0 /\ mem[s0].val = counted[k]
  <2>1. PICK s \in Range(queue) : mem[s].key = k /\ mem[s].expires = 0 /\ mem[s].val = counted[k]
    BY <1>3 DEF CountersHeld
  <2>2. s = s0
    BY <1>3, <2>1 DEF DictInv, OneKey
  <2>. QED BY <2>1, <2>2
<1>5. sum = (counted[k] + Delta(r)) % Modulus
  BY <1>4 DEF Add
<1>. HIDE DEF sum, s0, k
<1>6. /\ \A s \in Slots : mem'[s].key = mem[s].key /\ mem'[s].expires = mem[s].expires
      /\ \A s \in Slots : s # s0 => mem'[s] = mem[s]
      /\ mem'[s0].val = sum
  BY <1>1, <1>2 DEF Entry
<1>7. Range(queue) \subseteq Slots
  BY MembersInSet DEF DictInv
<1>8. ASSUME NEW c \in Counters
      PROVE  \E s \in Range(queue') :
                mem'[s].key = c /\ mem'[s].expires = 0 /\ mem'[s].val = counted'[c]
  <2>1. CASE c = k
    <3>1. counted'[k] = sum
      BY <1>1, <1>2, <1>3, <1>5
    <3>. QED BY <1>1, <1>2, <1>3, <1>4, <1>6, <2>1, <3>1
  <2>2. CASE c # k
    <3>1. PICK s \in Range(queue) : mem[s].key = c /\ mem[s].expires = 0 /\ mem[s].val = counted[c]
      BY DEF CountersHeld
    <3>2. s # s0 /\ s \in Slots
      BY <1>3, <1>7, <2>2, <3>1
    <3>3. counted'[c] = counted[c]
      BY <1>1, <1>2, <2>2
    <3>. QED BY <1>1, <1>6, <3>1, <3>2, <3>3
  <2>. QED BY <2>1, <2>2
<1>9. ASSUME NEW v \in Workers
      PROVE  /\ job'[v].pc # "absent"
             /\ job'[v].pc = "add" =>
                   job'[v].slot \in Range(queue') /\ mem'[job'[v].slot].key = job'[v].req.key
  BY <1>1, <1>6, <1>7, AnswerLeavesOthers DEF CountersHeld
<1>. QED BY <1>2, <1>8, <1>9 DEF CountersHeld

LEMMA NextKeepsCount ==
    ASSUME DictInv, CountersHeld, [Next]_vars
    PROVE  CountersHeld'
<1>1. CASE UNCHANGED vars
  BY <1>1 DEF vars, CountersHeld, LeavesCounters, Counters
<1>2. CASE Next /\ ~LeavesCounters
  BY <1>2 DEF Next, LeavesCounters, CountersHeld
<1>3. CASE Next /\ LeavesCounters
  <2>1. load' = load /\ LeavesCounters
    BY <1>3 DEF Next
  <2>2. PICK w \in Workers : Arrive(w) \/ Tick(w) \/ Run(w)
    BY <1>3 DEF Next
  <2>3. CASE Arrive(w)
    <3>1. UNCHANGED <<queue, mem, counted>>
      BY <2>3 DEF Arrive
    <3>2. ASSUME NEW v \in Workers
          PROVE  job'[v] = job[v] \/ job'[v].pc \notin {"add", "absent"}
      <4>1. job \in [Workers -> Job]
        BY DEF DictInv, TypeOK
      <4>2. v = w => job'[v].pc = "call"
        BY <2>3, <4>1 DEF Arrive, Job
      <4>3. v # w => job'[v] = job[v]
        BY <2>3, <4>1 DEF Arrive
      <4>. QED BY <4>2, <4>3
    <3>. QED BY <2>1, <3>1, <3>2, CountersStay
  <2>4. CASE Tick(w)
    BY <2>1, <2>4, CountersStay DEF Tick
  <2>5. CASE Store(w)
    BY <2>1, <2>5, StoreLeavesCounters
  <2>6. CASE Get(w)
    BY <2>1, <2>6, GetLeavesCounters
  <2>7. CASE Copy(w) \/ GetTotalKeys(w)
    <3>1. UNCHANGED <<queue, mem, counted>>
      BY <2>7 DEF Copy, GetTotalKeys
    <3>2. \A v \in Workers : job'[v] = job[v] \/ job'[v].pc \notin {"add", "absent"}
      BY <2>7, AnswerLeavesOthers DEF Copy, GetTotalKeys
    <3>. QED BY <2>1, <3>1, <3>2, CountersStay
  <2>8. CASE AddAndFetch(w)
    BY <2>1, <2>8, AddKeepsCount
  <2>9. CASE StoreDelta(w)
    BY <2>1, <2>9 DEF StoreDelta, CountersHeld
  <2>10. CASE FlushAll(w)
    BY <2>1, <2>10, OffersLeaveCounters DEF FlushAll
  <2>11. CASE FlushExpired(w)
    <3>1. /\ \A s \in Range(queue) \ Range(queue') : Stale(mem[s], clock[w])
          /\ mem' = mem /\ counted' = counted /\ Answer(w, "OK", 0)
      BY <2>11, FlushExpiredTakesStale
    <3>2. \A v \in Workers : job'[v] = job[v] \/ job'[v].pc \notin {"add", "absent"}
      BY <3>1, AnswerLeavesOthers
    <3>3. ASSUME NEW s \in Range(queue), mem[s].expires = 0 PROVE s \in Range(queue')
      BY <3>1, <3>3 DEF Stale
    <3>. QED BY <2>1, <3>1, <3>2, <3>3, CountersStay
  <2>. QED BY <2>2, <2>3, <2>4, <2>5, <2>6, <2>7, <2>8, <2>9, <2>10, <2>11 DEF Run
<1>. QED BY <1>1, <1>2, <1>3

LEMMA InitCounts ==
    ASSUME Init
    PROVE  CountersHeld
<1>1. /\ Range(queue) = DOMAIN load.preset
      /\ \A s \in DOMAIN load.preset : mem[s] = load.preset[s]
  BY QueueAtFirst
<1>2. \A w \in Workers : job[w].pc = "idle"
  BY DEF Init, Idle
<1>3. ASSUME LeavesCounters, NEW k \in Counters
      PROVE  \E s \in Range(queue) : mem[s].key = k /\ mem[s].expires = 0 /\ mem[s].val = counted[k]
  <2>. DEFINE at == {s \in DOMAIN load.preset : load.preset[s].key = k}
              s0 == CHOOSE s \in at : TRUE
  <2>1. at # {}
    BY DEF Counters
  <2>2. s0 \in at
    BY <2>1
  <2>3. k \in Keys
    <3>1. load.preset[s0] \in Entry
      BY <2>2, ShmDictAssumption DEF Init
    <3>. QED BY <2>2, <3>1 DEF Entry
  <2>4. counted[k] = load.preset[s0].val
    BY <2>1, <2>3 DEF Init
  <2>. HIDE DEF s0
  <2>5. load.preset[s0].expires = 0
    BY <1>3, <2>2 DEF LeavesCounters
  <2>. QED BY <1>1, <2>2, <2>4, <2>5
<1>. QED BY <1>2, <1>3 DEF CountersHeld

\* A counter that no request deletes or replaces keeps every increment of every
\* worker, added through a pointer that outlives the lock.
THEOREM CountedAlways == Spec => []Counted
<1>1. Init => CountersHeld
  BY InitCounts
<1>2. DictInv /\ CountersHeld /\ [Next]_vars => CountersHeld'
  BY NextKeepsCount
<1>3. CountersHeld => Counted
  <2>1. SUFFICES ASSUME CountersHeld, LeavesCounters, NEW s \in DOMAIN load.preset
                 PROVE  \E r \in Held(queue) :
                          /\ mem[r].key = load.preset[s].key
                          /\ mem[r].val = counted[load.preset[s].key]
    BY DEF Counted
  <2>2. load.preset[s].key \in Counters
    BY DEF Counters
  <2>. QED BY <2>1, <2>2 DEF CountersHeld, Held
<1>. QED BY <1>1, <1>2, <1>3, DictInvAlways, PTL DEF Spec

-----------------------------------------------------------------------------
(* The master process                                                      *)

ChildKinds == {"worker", "manager", "loader"}
Stages == {"none", "init", "up", "shutting", "hung", "dead", "fatal"}
Commands == {"term", "quit", "kill"}
Pid == Places \cup {Nobody, Self}

Process == [kind : ChildKinds \cup {"free", "binary"}, conf : Nat, respawn : BOOLEAN,
            just_spawn : BOOLEAN, exited : BOOLEAN, exiting : BOOLEAN, stage : Stages,
            told : SUBSET Commands]

Config == [workers : Nat \ {0}, manager : BOOLEAN, loader : BOOLEAN]

Master == [ccf : Config, reap : BOOLEAN, terminate : BOOLEAN, quit : BOOLEAN,
           reconfigure : BOOLEAN, restart : BOOLEAN, change_binary : BOOLEAN,
           noaccept : BOOLEAN, noaccepting : BOOLEAN, sigalrm : BOOLEAN,
           new_binary : Places \cup {0, Invalid}, delay : Nat, sigio : Nat, live : BOOLEAN,
           conf : Nat, handler : {"sigalrm", "change_binary", "noaccept"}, armed : BOOLEAN,
           procs : [Places -> Process], pid : Pid, oldpid : Pid, gone : BOOLEAN]

\* A free place has nothing in it, what was waited for is dead, and a new binary
\* is not respawned.
SoundTable(procs) ==
    \A i \in Places : LET c == procs[i] IN
        /\ c.kind = "free" => c = NoProcess
        /\ c.exited => ~Alive(c)
        /\ Detached(c) => ~c.respawn

Sound(x) == x \in Master /\ SoundTable(x.procs)

\* Where the pids are is known from new_binary, and so is who the new binary is.
PidsTell(x) ==
    /\ \A i \in Places : Detached(x.procs[i]) => x.new_binary = i
    /\ x.new_binary \in {0, Invalid} => x.oldpid = Nobody /\ (~x.gone => x.pid = Self)
    /\ x.new_binary \in Places => x.pid # Self /\ (~x.gone => x.oldpid = Self)
    /\ x.gone /\ x.new_binary = 0 => x.pid # Self
    /\ x.gone /\ x.new_binary \in Places => x.oldpid # Self

\* `live' is not FALSE while a child lives.
LiveTells(x) == ~x.live => \A i \in Places : Alive(x.procs[i]) => Detached(x.procs[i])

\* y has the pid files of x, and no other new binary.
SamePids(x, y) ==
    /\ y.new_binary = x.new_binary /\ y.pid = x.pid /\ y.oldpid = x.oldpid /\ y.gone = x.gone
    /\ \A i \in Places : Detached(y.procs[i]) => Detached(x.procs[i])

\* Who lives in y did in x.
SameLives(x, y) ==
    /\ y.live = x.live
    /\ \A i \in Places : /\ Alive(y.procs[i]) => Alive(x.procs[i])
                         /\ Detached(y.procs[i]) = Detached(x.procs[i])

\* y has the configuration of x and is under the same orders.
SameOrders(x, y) ==
    /\ y.ccf = x.ccf /\ y.conf = x.conf /\ y.terminate = x.terminate /\ y.quit = x.quit
    /\ y.noaccepting = x.noaccepting /\ y.restart = x.restart

LEMMA SamePidsTell ==
    ASSUME NEW x, NEW y, SamePids(x, y), PidsTell(x)
    PROVE  PidsTell(y)
BY DEF SamePids, PidsTell

LEMMA SameLivesTell ==
    ASSUME NEW x, NEW y, SameLives(x, y), LiveTells(x)
    PROVE  LiveTells(y)
BY DEF SameLives, LiveTells

LEMMA SameTable ==
    ASSUME NEW x, NEW y, Sound(x), y \in Master, y.procs = x.procs
    PROVE  Sound(y)
BY DEF Sound

LEMMA SuspendKeeps ==
    ASSUME NEW x, Sound(x)
    PROVE  /\ Sound(Suspend(x)) /\ SamePids(x, Suspend(x)) /\ SameLives(x, Suspend(x))
           /\ SameOrders(x, Suspend(x)) /\ Suspend(x).procs = x.procs
<1>. DEFINE sigio == IF x.sigalrm THEN 0 ELSE x.sigio
            delay == IF x.sigalrm /\ x.delay <= 1000 THEN 2 * x.delay ELSE x.delay
            y == [x EXCEPT !.sigio = sigio, !.delay = delay, !.sigalrm = FALSE, !.armed = TRUE]
<1>1. x \in Master
  BY DEF Sound
<1>4. sigio \in Nat /\ delay \in Nat
  <2>1. x.sigio \in Nat /\ x.delay \in Nat
    BY <1>1 DEF Master
  <2>. QED BY <2>1
<1>5. Suspend(x) = x \/ Suspend(x) = y
  BY DEF Suspend
<1>. HIDE DEF sigio, delay
<1>2. y \in Master /\ y.procs = x.procs /\ y.live = x.live /\ y.new_binary = x.new_binary
      /\ y.pid = x.pid /\ y.oldpid = x.oldpid /\ y.gone = x.gone
  BY <1>1, <1>4 DEF Master
<1>3. SameOrders(x, y)
  BY <1>1 DEF Master, SameOrders
<1>6. SameOrders(x, x)
  BY DEF SameOrders
<1>. HIDE DEF y
<1>. QED BY <1>1, <1>2, <1>3, <1>5, <1>6, SameTable DEF SamePids, SameLives

-----------------------------------------------------------------------------
\* A command is sent: who had no process has none, and only kill ends one.
LEMMA SignalWorkersKeeps ==
    ASSUME NEW x, Sound(x), NEW sig \in Commands
    PROVE  LET y == SignalWorkers(x, sig)
           IN  /\ Sound(y) /\ SamePids(x, y) /\ SameLives(x, y) /\ SameOrders(x, y)
               /\ y.change_binary = x.change_binary
<1>. DEFINE Skipped(c) == c.kind = "free" \/ Detached(c) \/ (c.exiting /\ sig = "quit")
            Lost(c) == c.exited /\ ~c.just_spawn /\ ~Skipped(c)
            Signalled(c) ==
                IF c.kind = "free" \/ Detached(c) THEN c
                ELSE IF c.just_spawn THEN [c EXCEPT !.just_spawn = FALSE]
                ELSE IF Skipped(c) THEN c
                ELSE IF Lost(c) THEN [c EXCEPT !.exiting = FALSE]
                ELSE IF sig = "kill"
                     THEN [c EXCEPT !.exiting = TRUE,
                                    !.stage = IF Alive(c) THEN "dead" ELSE @,
                                    !.told = {}]
                ELSE [c EXCEPT !.exiting = TRUE,
                               !.told = IF c.stage \in {"init", "up", "shutting"}
                                        THEN @ \cup {sig} ELSE @]
            procs == [i \in Places |-> Signalled(x.procs[i])]
            lost == \E i \in Places : Lost(x.procs[i])
            y == [x EXCEPT !.procs = procs, !.reap = @ \/ lost]
<1>1. x \in Master /\ x.procs \in [Places -> Process] /\ SoundTable(x.procs)
  BY DEF Sound, Master
<1>2. ASSUME NEW c \in Process
      PROVE  /\ Signalled(c) \in Process
             /\ Signalled(c).kind = c.kind /\ Signalled(c).exited = c.exited
             /\ Signalled(c).respawn = c.respawn
             /\ c.kind = "free" => Signalled(c) = c
             /\ Alive(Signalled(c)) => Alive(c)
  <2>1. \A t \in SUBSET Commands : t \cup {sig} \in SUBSET Commands
    OBVIOUS
  <2>2. CASE Signalled(c) = c
    BY <2>2
  <2>7. c.kind = "free" => Signalled(c) = c
    OBVIOUS
  <2>3. CASE Signalled(c) = [c EXCEPT !.just_spawn = FALSE]
    BY <2>7, <2>3 DEF Process, Alive
  <2>4. CASE Signalled(c) = [c EXCEPT !.exiting = FALSE]
    BY <2>7, <2>4 DEF Process, Alive
  <2>5. CASE Signalled(c) = [c EXCEPT !.exiting = TRUE,
                                      !.stage = IF Alive(c) THEN "dead" ELSE @, !.told = {}]
    BY <2>7, <2>5 DEF Process, Alive, Stages
  <2>6. CASE Signalled(c) = [c EXCEPT !.exiting = TRUE,
                               !.told = IF c.stage \in {"init", "up", "shutting"}
                                        THEN @ \cup {sig} ELSE @]
    BY <2>7, <2>1, <2>6 DEF Process, Alive
  <2>. QED BY <2>2, <2>3, <2>4, <2>5, <2>6
<1>3. \A i \in Places : procs[i] = Signalled(x.procs[i]) /\ x.procs[i] \in Process
  BY <1>1
<1>. HIDE DEF Signalled
<1>4. /\ procs \in [Places -> Process]
      /\ \A i \in Places : /\ procs[i].kind = x.procs[i].kind
                           /\ procs[i].exited = x.procs[i].exited
                           /\ procs[i].respawn = x.procs[i].respawn
                           /\ x.procs[i].kind = "free" => procs[i] = x.procs[i]
                           /\ Alive(procs[i]) => Alive(x.procs[i])
  BY <1>2, <1>3
<1>5. SignalWorkers(x, sig) = y
  BY DEF SignalWorkers, Signalled
<1>. HIDE DEF procs, lost
<1>6. (x.reap \/ lost) \in BOOLEAN
  OBVIOUS
<1>7. y \in Master /\ y.procs = procs /\ y.live = x.live /\ y.new_binary = x.new_binary
      /\ y.pid = x.pid /\ y.oldpid = x.oldpid /\ y.gone = x.gone
      /\ y.change_binary = x.change_binary
  BY <1>1, <1>4, <1>6 DEF Master
<1>9. SameOrders(x, y)
  BY <1>1 DEF Master, SameOrders
<1>. HIDE DEF y
<1>8. SoundTable(procs)
  BY <1>1, <1>4 DEF SoundTable, Detached
<1>. QED BY <1>4, <1>5, <1>7, <1>8, <1>9 DEF Sound, SamePids, SameLives, Detached

-----------------------------------------------------------------------------
LEMMA SpawnFills ==
    ASSUME NEW procs \in [Places -> Process], NEW child \in Process
    PROVE  /\ Spawn(procs, child) \in [Places -> Process]
           /\ \A i \in Places :
                 \/ Spawn(procs, child)[i] = procs[i]
                 \/ procs[i].kind = "free" /\ Spawn(procs, child)[i] = child
           /\ \A i, j \in Places :
                 Spawn(procs, child)[i] # procs[i] /\ Spawn(procs, child)[j] # procs[j] => i = j
           /\ (\E i \in Places : procs[i].kind = "free") =>
                 \E j \in Places : /\ procs[j].kind = "free"
                                   /\ Spawn(procs, child) = [procs EXCEPT ![j] = child]
<1>. DEFINE free == {i \in Places : procs[i].kind = "free"}
<1>1. CASE free = {}
  BY <1>1 DEF Spawn
<1>2. CASE free # {}
  <2>1. free \subseteq Nat
    BY CycleAssumption
  <2>2. Spawn(procs, child) = [procs EXCEPT ![Min(free)] = child]
    BY <1>2 DEF Spawn
  <2>. HIDE DEF free
  <2>3. Min(free) \in free
    BY <1>2, <2>1, MinIsMember
  <2>4. Min(free) \in Places /\ procs[Min(free)].kind = "free"
    BY <2>3 DEF free
  <2>. QED BY <2>2, <2>4
<1>. QED BY <1>1, <1>2

\* The children of a list are spawned one after the other: g[k] is the table after k.
LEMMA SpawnEachRuns ==
    ASSUME NEW procs \in [Places -> Process], NEW children \in Seq(Process)
    PROVE  \E g : /\ g[0] = procs
                  /\ \A k \in 1 .. Len(children) : g[k] = Spawn(g[k - 1], children[k])
                  /\ SpawnEach(procs, children) = g[Len(children)]
<1>. DEFINE n == Len(children)
            T == [Places -> Process]
            step == [k \in 1 .. n |-> [p \in T |-> Spawn(p, children[k])]]
            Each(table) == table = [k \in 0 .. n |->
                              IF k = 0 THEN procs ELSE Spawn(table[k - 1], children[k])]
<1>1. n \in Nat /\ \A k \in 1 .. n : children[k] \in Process
  OBVIOUS
<1>2. step \in Steps(n, T)
  <2>1. \A k \in 1 .. n, p \in T : Spawn(p, children[k]) \in T
    BY <1>1, SpawnFills
  <2>. HIDE DEF T
  <2>. QED BY <2>1 DEF Steps
<1>. HIDE DEF n, T, step
<1>3. procs \in T
  BY DEF T
<1>4. PICK f : Follows(f, n, T, procs, step)
  BY <1>1, <1>2, <1>3, Recursion
<1>5. Each(f)
  <2>1. ASSUME NEW k \in 0 .. n
        PROVE  f[k] = IF k = 0 THEN procs ELSE Spawn(f[k - 1], children[k])
    <3>1. CASE k = 0
      BY <1>4, <3>1 DEF Follows
    <3>2. CASE k # 0
      <4>1. k \in 1 .. n /\ k - 1 \in 0 .. n
        BY <1>1, <3>2
      <4>2. f[k - 1] \in T /\ f[k] = step[k][f[k - 1]]
        BY <1>4, <4>1 DEF Follows
      <4>. QED BY <3>2, <4>1, <4>2 DEF step
    <3>. QED BY <3>1, <3>2
  <2>. QED BY <1>4, <2>1 DEF Follows
<1>. DEFINE g == CHOOSE table : Each(table)
<1>6. Each(g)
  BY <1>5
<1>7. SpawnEach(procs, children) = g[n]
  BY DEF SpawnEach, n
<1>. HIDE DEF g
<1>8. g[0] = procs /\ \A k \in 1 .. n : g[k] = Spawn(g[k - 1], children[k])
  BY <1>1, <1>6
<1>. QED BY <1>7, <1>8 DEF n

\* Children take places that were free, and no others.
LEMMA SpawnEachFills ==
    ASSUME NEW procs \in [Places -> Process], NEW C \in SUBSET Process, NEW children \in Seq(C)
    PROVE  LET table == SpawnEach(procs, children)
           IN  /\ table \in [Places -> Process]
               /\ \A i \in Places : \/ table[i] = procs[i]
                                    \/ procs[i].kind = "free" /\ table[i] \in C
<1>. DEFINE n == Len(children)
            T == [Places -> Process]
            Filled(table) == \A i \in Places : \/ table[i] = procs[i]
                                               \/ procs[i].kind = "free" /\ table[i] \in C
<1>1. n \in Nat /\ \A k \in 1 .. n : children[k] \in C /\ children[k] \in Process
  OBVIOUS
<1>2. children \in Seq(Process)
  OBVIOUS
<1>6. PICK g : /\ g[0] = procs
               /\ \A k \in 1 .. Len(children) : g[k] = Spawn(g[k - 1], children[k])
               /\ SpawnEach(procs, children) = g[Len(children)]
  BY <1>2, SpawnEachRuns
<1>3. /\ g[0] = procs
      /\ \A k \in 1 .. n : g[k] = Spawn(g[k - 1], children[k])
      /\ SpawnEach(procs, children) = g[n]
  BY <1>6
<1>. HIDE DEF n, T, Filled
<1>. DEFINE Good == {k \in 0 .. n : g[k] \in T /\ Filled(g[k])}
<1>8. 0 \in Good
  BY <1>1, <1>3 DEF T, Filled
<1>9. ASSUME NEW k \in 1 .. n, k - 1 \in Good PROVE k \in Good
  <2>1. g[k] = Spawn(g[k - 1], children[k]) /\ k \in 0 .. n
    BY <1>1, <1>3
  <2>2. g[k - 1] \in T /\ Filled(g[k - 1])
    BY <1>9
  <2>3. g[k] \in T /\ \A i \in Places :
          g[k][i] = g[k - 1][i] \/ (g[k - 1][i].kind = "free" /\ g[k][i] = children[k])
    BY <1>1, <2>1, <2>2, SpawnFills DEF T
  <2>4. Filled(g[k])
    BY <1>1, <2>2, <2>3 DEF Filled
  <2>. QED BY <2>1, <2>3, <2>4
<1>10. n \in Good
  <2>. HIDE DEF Good
  <2>1. \A k \in 0 .. n : k \in Good
    BY <1>1, <1>8, <1>9, Ascends
  <2>2. n \in 0 .. n
    BY <1>1
  <2>. QED BY <2>1, <2>2
<1>. QED BY <1>3, <1>10 DEF T, Filled

\* With room for n, n like children find as many places.
LEMMA SpawnEachCounts ==
    ASSUME NEW procs \in [Places -> Process], NEW child \in Process, child.kind # "free",
           NEW n \in Nat, Cardinality({i \in Places : procs[i].kind = "free"}) >= n
    PROVE  LET table == SpawnEach(procs, [k \in 1 .. n |-> child])
           IN  Cardinality({i \in Places : procs[i].kind = "free" /\ table[i] = child}) >= n
<1>. DEFINE children == [k \in 1 .. n |-> child]
            T == [Places -> Process]
            F == {i \in Places : procs[i].kind = "free"}
            Taken(table) == {i \in Places : procs[i].kind = "free" /\ table[i] = child}
            Grown(table) == \A i \in Places : \/ table[i] = procs[i]
                                              \/ procs[i].kind = "free" /\ table[i] = child
<1>1. children \in Seq(Process) /\ Len(children) = n /\ \A k \in 1 .. n : children[k] = child
  OBVIOUS
<1>. HIDE DEF children
<1>2. PICK g : /\ g[0] = procs
               /\ \A k \in 1 .. n : g[k] = Spawn(g[k - 1], children[k])
               /\ SpawnEach(procs, children) = g[n]
  <2>1. PICK g : /\ g[0] = procs
                 /\ \A k \in 1 .. Len(children) : g[k] = Spawn(g[k - 1], children[k])
                 /\ SpawnEach(procs, children) = g[Len(children)]
    BY <1>1, SpawnEachRuns
  <2>. QED BY <1>1, <2>1
<1>3. \A k \in 1 .. n : g[k] = Spawn(g[k - 1], child)
  BY <1>1, <1>2
<1>4. IsFiniteSet(F) /\ Cardinality(F) >= n
  <2>1. F \in SUBSET Places
    OBVIOUS
  <2>. QED BY <2>1, CycleAssumption, FS_Subset
<1>. HIDE DEF T
<1>. DEFINE Good == {k \in 0 .. n : /\ g[k] \in T /\ Grown(g[k])
                                    /\ Cardinality(Taken(g[k])) = k}
<1>5. 0 \in Good
  <2>1. Taken(procs) = {}
    OBVIOUS
  <2>2. Cardinality(Taken(procs)) = 0
    <3>. HIDE DEF Taken
    <3>. QED BY <2>1, FS_EmptySet
  <2>3. procs \in T /\ Grown(procs)
    BY DEF T
  <2>. HIDE DEF Taken, Grown
  <2>. QED BY <1>2, <2>2, <2>3
<1>6. ASSUME NEW k \in 1 .. n, k - 1 \in Good PROVE k \in Good
  <2>. DEFINE p == g[k - 1]
              q == g[k]
  <2>1. p \in T /\ Grown(p) /\ Cardinality(Taken(p)) = k - 1
    BY <1>6
  <2>2. q = Spawn(p, child)
    BY <1>3
  <2>. HIDE DEF p, q
  <2>3. Taken(p) \in SUBSET F
    OBVIOUS
  <2>4. IsFiniteSet(Taken(p))
    BY <1>4, <2>3, FS_Subset
  <2>5. PICK i \in F : i \notin Taken(p)
    <3>. HIDE DEF F, Taken
    <3>1. CASE Taken(p) = F
      BY <1>4, <2>1, <3>1, FS_CardinalityType
    <3>2. CASE Taken(p) # F
      BY <2>3, <3>2
    <3>. QED BY <3>1, <3>2
  <2>6. i \in Places /\ p[i].kind = "free"
    BY <2>1, <2>5
  <2>7. PICK j \in Places : p[j].kind = "free" /\ q = [p EXCEPT ![j] = child]
    <3>1. (\E l \in Places : p[l].kind = "free") =>
            \E j \in Places : p[j].kind = "free" /\ Spawn(p, child) = [p EXCEPT ![j] = child]
      <4>1. p \in [Places -> Process]
        BY <2>1 DEF T
      <4>. QED BY <4>1, SpawnFills
    <3>. QED BY <2>2, <2>6, <3>1
  <2>8. /\ q \in T /\ q[j] = child /\ \A l \in Places : l # j => q[l] = p[l]
    BY <2>1, <2>7 DEF T
  <2>9. procs[j].kind = "free" /\ j \notin Taken(p)
    BY <2>1, <2>7
  <2>10. Grown(q)
    BY <2>1, <2>8, <2>9
  <2>11. Taken(q) = Taken(p) \cup {j}
    BY <2>8, <2>9
  <2>12. Cardinality(Taken(q)) = k
    <3>. HIDE DEF Taken
    <3>1. Cardinality(Taken(p) \cup {j}) = Cardinality(Taken(p)) + 1
      BY <2>4, <2>9, FS_AddElement
    <3>2. k - 1 + 1 = k
      OBVIOUS
    <3>. QED BY <2>1, <2>11, <3>1, <3>2
  <2>. QED BY <2>8, <2>10, <2>12 DEF q
<1>7. n \in Good
  <2>. HIDE DEF Good
  <2>1. \A k \in 0 .. n : k \in Good
    BY <1>5, <1>6, Ascends
  <2>. QED BY <2>1
<1>8. Cardinality(Taken(g[n])) = n
  BY <1>7
<1>9. Cardinality(Taken(SpawnEach(procs, children))) >= n
  <2>. HIDE DEF Taken
  <2>. QED BY <1>2, <1>8
<1>. QED BY <1>9 DEF children

\* Children of this master that were just started.
Fresh == {c \in Process : c.kind \in ChildKinds /\ ~c.exited /\ c.stage = "init"}

LEMMA ChildIsFresh ==
    ASSUME NEW kind \in ChildKinds, NEW conf \in Nat, NEW respawn \in BOOLEAN, NEW just \in BOOLEAN
    PROVE  Child(kind, conf, respawn, just) \in Fresh
BY DEF Child, NoProcess, Fresh, Process, ChildKinds, Stages

\* y has more children than x, and is x in all that matters else.
Started(x, y) ==
    /\ Sound(y) /\ SamePids(x, y) /\ y.live = x.live
    /\ y.change_binary = x.change_binary /\ SameOrders(x, y)
    /\ \A i \in Places : \/ y.procs[i] = x.procs[i]
                         \/ x.procs[i].kind = "free" /\ y.procs[i] \in Fresh

LEMMA StartEach ==
    ASSUME NEW x, Sound(x), NEW children \in Seq(Fresh)
    PROVE  Started(x, [x EXCEPT !.procs = SpawnEach(@, children)])
<1>. DEFINE procs == SpawnEach(x.procs, children)
            y == [x EXCEPT !.procs = procs]
<1>1. x \in Master /\ x.procs \in [Places -> Process] /\ SoundTable(x.procs)
  BY DEF Sound, Master
<1>2. Fresh \in SUBSET Process
  BY DEF Fresh
<1>3. /\ procs \in [Places -> Process]
      /\ \A i \in Places : \/ procs[i] = x.procs[i]
                           \/ x.procs[i].kind = "free" /\ procs[i] \in Fresh
  BY <1>1, <1>2, SpawnEachFills
<1>. HIDE DEF procs
<1>4. y \in Master /\ y.procs = procs /\ y.live = x.live /\ y.new_binary = x.new_binary
      /\ y.pid = x.pid /\ y.oldpid = x.oldpid /\ y.gone = x.gone
      /\ y.change_binary = x.change_binary
  BY <1>1, <1>3 DEF Master
<1>9. SameOrders(x, y)
  BY <1>1 DEF Master, SameOrders
<1>. HIDE DEF y
<1>5. \A i \in Places : procs[i] \in Fresh =>
          ~Detached(procs[i]) /\ procs[i].kind # "free" /\ ~procs[i].exited
  BY DEF Fresh, ChildKinds, Detached
<1>6. SoundTable(procs)
  BY <1>1, <1>3, <1>5 DEF SoundTable
<1>7. \A i \in Places : Detached(procs[i]) => Detached(x.procs[i])
  BY <1>3, <1>5
<1>8. Started(x, y)
  BY <1>3, <1>4, <1>6, <1>7, <1>9 DEF Started, Sound, SamePids
<1>. QED BY <1>8 DEF y, procs

LEMMA StartWorkersStarts ==
    ASSUME NEW x, Sound(x), NEW just \in BOOLEAN, NEW lost \in {0, 1}
    PROVE  Started(x, StartWorkers(x, just, lost))
<1>. DEFINE n == x.ccf.workers - lost
            children == [i \in 1 .. n |-> Child("worker", x.conf, TRUE, just)]
<1>1. x.ccf.workers \in Nat \ {0} /\ x.conf \in Nat
  BY DEF Sound, Master, Config
<1>2. n \in Nat
  BY <1>1
<1>3. Child("worker", x.conf, TRUE, just) \in Fresh
  BY <1>1, ChildIsFresh DEF ChildKinds
<1>. DEFINE child == Child("worker", x.conf, TRUE, just)
<1>5. child \in Fresh
  BY <1>3
<1>. HIDE DEF n, child
<1>4. [i \in 1 .. n |-> child] \in Seq(Fresh)
  BY <1>2, <1>5
<1>. QED BY <1>4, StartEach DEF StartWorkers, n, child

LEMMA StartCacheManagersStarts ==
    ASSUME NEW x, Sound(x), NEW respawn \in BOOLEAN
    PROVE  Started(x, StartCacheManagers(x, respawn))
<1>. DEFINE manager == Child("manager", x.conf, TRUE, respawn)
            loader == Child("loader", x.conf, FALSE, respawn)
            children == <<manager>> \o IF x.ccf.loader THEN <<loader>> ELSE <<>>
<1>1. x.conf \in Nat
  BY DEF Sound, Master
<1>2. manager \in Fresh /\ loader \in Fresh
  BY <1>1, ChildIsFresh DEF ChildKinds
<1>3. Started(x, x)
  BY DEF Started, SamePids, SameOrders
<1>. HIDE DEF manager, loader
<1>4. children \in Seq(Fresh)
  BY <1>2
<1>5. StartCacheManagers(x, respawn) = x
      \/ StartCacheManagers(x, respawn) = [x EXCEPT !.procs = SpawnEach(@, children)]
  BY DEF StartCacheManagers, manager, loader
<1>. HIDE DEF children
<1>. QED BY <1>3, <1>4, <1>5, StartEach

LEMMA StartedIsTransitive ==
    ASSUME NEW x, NEW y, NEW z, Started(x, y), Started(y, z)
    PROVE  Started(x, z)
<1>1. \A i \in Places : y.procs[i] \in Fresh => y.procs[i].kind # "free"
  BY DEF Fresh, ChildKinds
<1>2. Sound(z) /\ SamePids(x, z) /\ SameOrders(x, z) /\ z.live = x.live
      /\ z.change_binary = x.change_binary
  BY DEF Started, SamePids, SameOrders
<1>. QED BY <1>1, <1>2 DEF Started

-----------------------------------------------------------------------------
\* Reaping tells who lives, and gives the pid file back when the new binary went.
LEMMA ReapChildrenTells ==
    ASSUME NEW x, Sound(x), NEW forks \in BOOLEAN
    PROVE  LET y == ReapChildren(x, forks)
           IN  /\ Sound(y) /\ LiveTells(y)
               /\ y.gone = x.gone
               /\ ~x.gone /\ PidsTell(x) => PidsTell(y)
<1>. DEFINE Again(c) == c.respawn /\ ~c.exiting /\ ~x.terminate /\ ~x.quit
            anew(c) == [c EXCEPT !.conf = x.conf, !.exited = FALSE, !.stage = "init", !.told = {}]
            reaped(c) == IF ~c.exited THEN c ELSE IF ~Again(c) THEN NoProcess
                         ELSE IF ~forks THEN c ELSE anew(c)
            procs == [i \in Places |-> reaped(x.procs[i])]
            back == x.new_binary \in Places /\ x.procs[x.new_binary].exited
            lives == \E i \in Places : LET c == procs[i] IN
                        /\ c.kind # "free" /\ ~c.exited
                        /\ c.exiting \/ ~Detached(c)
            y == ReapChildren(x, forks)
<1>1. x \in Master /\ x.procs \in [Places -> Process] /\ SoundTable(x.procs)
      /\ x.conf \in Nat
  BY DEF Sound, Master
<1>2. NoProcess \in Process /\ NoProcess.kind = "free" /\ ~NoProcess.exited /\ ~Alive(NoProcess)
      /\ ~Detached(NoProcess)
  BY DEF NoProcess, Process, Stages, Alive, Detached
<1>3. ASSUME NEW c \in Process, c.kind = "free" => c = NoProcess, c.exited => ~Alive(c),
             Detached(c) => ~c.respawn
      PROVE  /\ reaped(c) \in Process
             /\ reaped(c).kind = "free" => reaped(c) = NoProcess
             /\ reaped(c).exited => ~Alive(reaped(c))
             /\ Detached(reaped(c)) => Detached(c) /\ ~c.exited /\ ~reaped(c).respawn
  <2>2. CASE reaped(c) = c /\ ~c.exited
    BY <1>3, <2>2
  <2>3. CASE reaped(c) = NoProcess
    BY <1>2, <2>3
  <2>4. CASE c.exited /\ c.respawn /\ reaped(c) = c
    BY <1>3, <2>4
  <2>5. CASE c.exited /\ c.respawn /\ reaped(c) = anew(c)
    <3>1. c.kind # "free"
      BY <1>2, <1>3, <2>5
    <3>2. anew(c) \in Process /\ anew(c).kind = c.kind /\ ~anew(c).exited
          /\ anew(c).respawn = c.respawn
      BY <1>1, <1>3 DEF Process, Stages
    <3>. HIDE DEF anew, reaped
    <3>. QED BY <1>3, <2>5, <3>1, <3>2 DEF Detached
  <2>. QED BY <2>2, <2>3, <2>4, <2>5
<1>10. \A i \in Places : LET c == x.procs[i] IN
          /\ c \in Process /\ (c.kind = "free" => c = NoProcess) /\ (c.exited => ~Alive(c))
          /\ Detached(c) => ~c.respawn
  BY <1>1 DEF SoundTable
<1>. HIDE DEF reaped
<1>4. procs \in [Places -> Process] /\ SoundTable(procs)
      /\ \A i \in Places : Detached(procs[i]) => Detached(x.procs[i]) /\ ~x.procs[i].exited
  <2>1. \A i \in Places : procs[i] = reaped(x.procs[i])
    OBVIOUS
  <2>. QED BY <1>3, <1>10, <2>1 DEF SoundTable
<1>6. ~lives => \A i \in Places : Alive(procs[i]) => Detached(procs[i])
  <2>1. \A i \in Places : procs[i].kind = "free" \/ procs[i].exited => ~Alive(procs[i])
    BY <1>2, <1>4 DEF SoundTable
  <2>. QED BY <2>1
<1>. DEFINE z == [x EXCEPT !.reap = FALSE, !.procs = procs, !.live = lives]
            pid == IF x.oldpid # Nobody THEN x.oldpid ELSE x.pid
            restart == z.restart \/ x.noaccepting
            u == [z EXCEPT !.pid = pid, !.oldpid = Nobody, !.new_binary = 0,
                           !.restart = restart, !.noaccepting = FALSE]
<1>5. z.pid = x.pid /\ y = IF back THEN u ELSE z
  BY <1>1 DEF ReapChildren, reaped, Master
<1>7. lives \in BOOLEAN
  OBVIOUS
<1>. HIDE DEF procs, lives
<1>8. /\ z \in Master /\ z.procs = procs /\ z.live = lives /\ z.gone = x.gone
      /\ z.oldpid = x.oldpid /\ z.new_binary = x.new_binary
  BY <1>1, <1>4, <1>7 DEF Master
<1>9. pid \in Pid /\ restart \in BOOLEAN
  BY <1>1, <1>8 DEF Master
<1>. HIDE DEF y, z, pid, restart
<1>11. /\ u \in Master /\ u.procs = procs /\ u.live = lives /\ u.gone = x.gone
       /\ u.pid = pid /\ u.oldpid = Nobody /\ u.new_binary = 0
  BY <1>8, <1>9 DEF Master, Pid
<1>. HIDE DEF u, back
<1>12. ASSUME back, ~x.gone, PidsTell(x) PROVE PidsTell(u)
  <2>1. x.new_binary \in Places /\ x.procs[x.new_binary].exited
    BY <1>12 DEF back
  <2>2. pid = Self
    BY <1>12, <2>1 DEF PidsTell, pid, Self, Nobody
  <2>3. \A i \in Places : ~Detached(procs[i])
    BY <1>4, <1>12, <2>1 DEF PidsTell
  <2>4. 0 \notin Places
    BY CycleAssumption
  <2>. QED BY <1>11, <1>12, <2>2, <2>3, <2>4 DEF PidsTell
<1>13. ASSUME PidsTell(x) PROVE PidsTell(z)
  BY <1>4, <1>5, <1>8, <1>13 DEF PidsTell
<1>. QED BY <1>4, <1>5, <1>6, <1>8, <1>11, <1>12, <1>13 DEF Sound, LiveTells, y

\* The new binary is what takes the master's name; when it is not executed the name
\* stays.
LEMMA ExecNewBinaryTells ==
    ASSUME NEW x, Sound(x), NEW works \in BOOLEAN
    PROVE  LET y == ExecNewBinary(x, works)
           IN  /\ Sound(y) /\ y.live = x.live /\ y.gone = x.gone
               /\ LiveTells(x) => LiveTells(y)
               /\ ~x.gone /\ x.new_binary = 0 /\ PidsTell(x) => PidsTell(y)
<1>. DEFINE child == Child("binary", 0, FALSE, FALSE)
            procs == Spawn(x.procs, child)
            new_binary == CHOOSE i \in Places : procs[i] # x.procs[i]
            y == ExecNewBinary(x, works)
            lost == [x EXCEPT !.new_binary = Invalid]
            z == [x EXCEPT !.procs = procs, !.new_binary = new_binary,
                           !.oldpid = x.pid, !.pid = Nobody]
<1>1. x \in Master /\ x.procs \in [Places -> Process] /\ SoundTable(x.procs) /\ x.pid \in Pid
  BY DEF Sound, Master
<1>2. child \in Process /\ child.kind = "binary" /\ ~child.exited /\ ~child.respawn
  BY DEF Child, NoProcess, Process, Stages
<1>3. y = lost \/ (y = z /\ procs # x.procs)
  BY DEF ExecNewBinary
<1>. HIDE DEF child
<1>4. /\ procs \in [Places -> Process]
      /\ \A i \in Places : \/ procs[i] = x.procs[i]
                           \/ x.procs[i].kind = "free" /\ procs[i] = child
      /\ \A i, j \in Places : procs[i] # x.procs[i] /\ procs[j] # x.procs[j] => i = j
  BY <1>1, <1>2, SpawnFills
<1>5. 0 \notin Places /\ Self \notin Places /\ Invalid \notin Places
  BY CycleAssumption DEF Self, Invalid
<1>6. CASE y = lost
  <2>1. /\ lost \in Master /\ lost.procs = x.procs /\ lost.live = x.live
        /\ lost.gone = x.gone /\ lost.pid = x.pid /\ lost.oldpid = x.oldpid
        /\ lost.new_binary = Invalid
    BY <1>1 DEF Master, Invalid
  <2>. HIDE DEF lost
  <2>2. x.new_binary = 0 /\ PidsTell(x) => \A i \in Places : ~Detached(x.procs[i])
    BY <1>5 DEF PidsTell
  <2>3. ~x.gone /\ x.new_binary = 0 /\ PidsTell(x) => PidsTell(lost)
    BY <1>5, <2>1, <2>2 DEF PidsTell, Invalid
  <2>4. Sound(lost) /\ (LiveTells(x) => LiveTells(lost))
    BY <1>1, <2>1 DEF Sound, LiveTells
  <2>. HIDE DEF y
  <2>5. /\ Sound(y) /\ y.live = x.live /\ y.gone = x.gone
        /\ LiveTells(x) => LiveTells(y)
        /\ ~x.gone /\ x.new_binary = 0 /\ PidsTell(x) => PidsTell(y)
    BY <1>6, <2>1, <2>3, <2>4
  <2>. QED BY <2>5 DEF y
<1>7. CASE y = z /\ procs # x.procs
  <2>. HIDE DEF procs
  <2>1. \E i \in Places : procs[i] # x.procs[i]
    BY <1>1, <1>4, <1>7
  <2>2. new_binary \in Places /\ procs[new_binary] # x.procs[new_binary]
    BY <2>1
  <2>. HIDE DEF new_binary
  <2>3. /\ procs[new_binary] = child /\ x.procs[new_binary].kind = "free"
        /\ \A i \in Places : i # new_binary => procs[i] = x.procs[i]
    BY <1>4, <2>2
  <2>4. /\ z \in Master /\ z.procs = procs /\ z.live = x.live /\ z.gone = x.gone
        /\ z.pid = Nobody /\ z.oldpid = x.pid /\ z.new_binary = new_binary
    BY <1>1, <1>4, <2>2 DEF Master, Pid
  <2>. HIDE DEF z
  <2>5. SoundTable(procs)
    BY <1>1, <1>2, <1>4 DEF SoundTable
  <2>6. LiveTells(x) => LiveTells(z)
    <3>1. Detached(child)
      BY <1>2 DEF Detached
    <3>. QED BY <1>4, <2>4, <3>1 DEF LiveTells
  <2>7. ~x.gone /\ x.new_binary = 0 /\ PidsTell(x) => PidsTell(z)
    <3>. SUFFICES ASSUME ~x.gone, x.new_binary = 0, PidsTell(x) PROVE PidsTell(z)
      OBVIOUS
    <3>1. \A i \in Places : ~Detached(x.procs[i])
      BY <1>5 DEF PidsTell
    <3>2. x.pid = Self
      BY DEF PidsTell
    <3>. QED BY <1>5, <2>2, <2>3, <2>4, <3>1, <3>2 DEF PidsTell, Self, Nobody
  <2>. HIDE DEF y
  <2>8. /\ Sound(y) /\ y.live = x.live /\ y.gone = x.gone
        /\ LiveTells(x) => LiveTells(y)
        /\ ~x.gone /\ x.new_binary = 0 /\ PidsTell(x) => PidsTell(y)
    BY <1>7, <2>4, <2>5, <2>6, <2>7 DEF Sound
  <2>. QED BY <2>8 DEF y
<1>. QED BY <1>3, <1>6, <1>7

\* The master removes the file that has its name.
LEMMA MasterProcessExitTells ==
    ASSUME NEW x, Sound(x), ~x.gone
    PROVE  LET y == MasterProcessExit(x)
           IN  /\ Sound(y) /\ y.live = x.live
               /\ LiveTells(x) => LiveTells(y)
               /\ PidsTell(x) => PidsTell(y)
<1>. DEFINE y == MasterProcessExit(x)
            pid == IF x.new_binary # 0 THEN x.pid ELSE Nobody
            oldpid == IF x.new_binary # 0 THEN Nobody ELSE x.oldpid
<1>1. x \in Master /\ SoundTable(x.procs)
  BY DEF Sound
<1>2. DeletePidFile(x) \in Master /\ DeletePidFile(x).pid = pid
      /\ DeletePidFile(x).oldpid = oldpid
      /\ DeletePidFile(x).procs = x.procs /\ DeletePidFile(x).live = x.live
      /\ DeletePidFile(x).new_binary = x.new_binary
  BY <1>1 DEF DeletePidFile, Master, Pid
<1>3. y = [DeletePidFile(x) EXCEPT !.gone = TRUE, !.armed = FALSE]
  BY DEF MasterProcessExit
<1>4. /\ y \in Master /\ y.procs = x.procs /\ y.live = x.live /\ y.gone
      /\ y.pid = pid /\ y.oldpid = oldpid /\ y.new_binary = x.new_binary
  BY <1>2, <1>3 DEF Master
<1>5. 0 \notin Places /\ Self \notin Places /\ Invalid \notin Places
  BY CycleAssumption DEF Self, Invalid
<1>6. x.new_binary \in Places \cup {0, Invalid}
  BY <1>1 DEF Master
<1>. HIDE DEF y
<1>7. PidsTell(x) => PidsTell(y)
  BY <1>4, <1>5, <1>6 DEF PidsTell, Self, Nobody, Invalid
<1>. QED BY <1>1, <1>4, <1>7 DEF y, Sound, LiveTells

-----------------------------------------------------------------------------
\* A pass of the loop from x, the state after the reap, to y.
Passed(x, y) ==
    /\ Sound(y)
    /\ PidsTell(x) /\ ~(Staying(x) /\ x.change_binary /\ x.new_binary # 0) => PidsTell(y)
    /\ LiveTells(x) /\ ~(Staying(x) /\ x.reconfigure /\ x.new_binary # 0) => LiveTells(y)
    /\ y.gone => ~y.live

\* What keeps names and lives.
Undisturbed(x, y) == Sound(y) /\ SamePids(x, y) /\ SameLives(x, y)

LEMMA UndisturbedIsTransitive ==
    ASSUME NEW x, NEW y, NEW z, Undisturbed(x, y), Undisturbed(y, z)
    PROVE  Undisturbed(x, z)
BY DEF Undisturbed, SamePids, SameLives

LEMMA UndisturbedPasses ==
    ASSUME NEW x, NEW y, Undisturbed(x, y), ~x.gone
    PROVE  Passed(x, y)
BY SamePidsTell, SameLivesTell DEF Undisturbed, Passed, SamePids

LEMMA TerminatingPasses ==
    ASSUME NEW x, Sound(x), ~x.gone, Terminating(x)
    PROVE  Passed(x, master')
<1>. DEFINE delay == IF x.delay = 0 THEN FirstDelay ELSE x.delay
            y == [x EXCEPT !.delay = delay]
            z == [y EXCEPT !.sigio = y.ccf.workers + 2]
            less == [y EXCEPT !.sigio = @ - 1]
            sig == IF y.delay > 1000 THEN "kill" ELSE "term"
            after == IF y.sigio > 0 THEN less ELSE SignalWorkers(z, sig)
<1>1. x \in Master
  BY DEF Sound
<1>2. delay \in Nat
  BY <1>1, CycleAssumption DEF Master
<1>. HIDE DEF delay
<1>3. y \in Master /\ y.procs = x.procs /\ y.live = x.live /\ y.new_binary = x.new_binary
      /\ y.pid = x.pid /\ y.oldpid = x.oldpid /\ y.gone = x.gone
  BY <1>1, <1>2 DEF Master
<1>. HIDE DEF y
<1>4. y.ccf.workers + 2 \in Nat /\ y.sigio \in Nat
  BY <1>3 DEF Master, Config
<1>5. z \in Master /\ z.procs = x.procs /\ z.live = x.live /\ z.new_binary = x.new_binary
      /\ z.pid = x.pid /\ z.oldpid = x.oldpid /\ z.gone = x.gone
  BY <1>3, <1>4 DEF Master
<1>6. ASSUME y.sigio > 0
      PROVE  less \in Master /\ less.procs = x.procs /\ less.live = x.live
             /\ less.new_binary = x.new_binary /\ less.pid = x.pid /\ less.oldpid = x.oldpid
             /\ less.gone = x.gone
  <2>1. y.sigio - 1 \in Nat
    BY <1>4, <1>6
  <2>. QED BY <1>3, <2>1 DEF Master
<1>7. sig \in Commands
  BY DEF Commands
<1>. HIDE DEF z, less, sig
<1>8. y.sigio > 0 => Undisturbed(x, less)
  BY <1>6, SameTable DEF Undisturbed, SamePids, SameLives
<1>9. Undisturbed(x, z)
  BY <1>5, SameTable DEF Undisturbed, SamePids, SameLives
<1>10. Undisturbed(x, SignalWorkers(z, sig))
  BY <1>7, <1>9, SignalWorkersKeeps, UndisturbedIsTransitive DEF Undisturbed
<1>11. Undisturbed(x, after)
  BY <1>8, <1>10
<1>12. master' = Suspend(after)
  BY DEF Terminating, delay, y, z, less, sig
<1>. HIDE DEF after
<1>13. Undisturbed(x, Suspend(after))
  BY <1>11, SuspendKeeps, UndisturbedIsTransitive DEF Undisturbed
<1>. QED BY <1>12, <1>13, UndisturbedPasses

LEMMA QuittingPasses ==
    ASSUME NEW x, Sound(x), ~x.gone, Quitting(x)
    PROVE  Passed(x, master')
<1>. DEFINE y == SignalWorkers(x, "quit")
<1>1. Undisturbed(x, y)
  BY SignalWorkersKeeps DEF Undisturbed, Commands
<1>2. master' = Suspend(y)
  BY DEF Quitting
<1>. HIDE DEF y
<1>3. Undisturbed(x, Suspend(y))
  BY <1>1, SuspendKeeps, UndisturbedIsTransitive DEF Undisturbed
<1>. QED BY <1>2, <1>3, UndisturbedPasses

LEMMA WorkersAgainPasses ==
    ASSUME NEW x, NEW fault, Sound(x), ~x.gone, WorkersAgain(x, fault)
    PROVE  Passed(x, master')
<1>. DEFINE lost == IF fault = "fork" THEN 1 ELSE 0
            y == StartWorkers(x, FALSE, lost)
            z == StartCacheManagers(y, FALSE)
            u == [z EXCEPT !.reconfigure = FALSE, !.noaccepting = FALSE]
<1>1. lost \in {0, 1}
  OBVIOUS
<1>2. master' = Suspend(u)
  BY DEF WorkersAgain
<1>. HIDE DEF lost
<1>3. Started(x, y)
  BY <1>1, StartWorkersStarts
<1>. HIDE DEF y
<1>4. Started(y, z)
  BY <1>3, StartCacheManagersStarts DEF Started
<1>. HIDE DEF z
<1>5. Started(x, z)
  BY <1>3, <1>4, StartedIsTransitive
<1>6. u \in Master /\ u.procs = z.procs /\ u.live = z.live /\ u.new_binary = z.new_binary
      /\ u.pid = z.pid /\ u.oldpid = z.oldpid /\ u.gone = z.gone
  BY <1>5 DEF Started, Sound, Master
<1>. HIDE DEF u
<1>7. Sound(u) /\ SamePids(x, u)
  BY <1>5, <1>6 DEF Started, Sound, SamePids
<1>8. Sound(Suspend(u)) /\ SamePids(x, Suspend(u))
  BY <1>7, SuspendKeeps DEF SamePids
<1>. QED BY <1>2, <1>8, SamePidsTell DEF Passed, WorkersAgain, SamePids

LEMMA ReloadFailsPasses ==
    ASSUME NEW x, NEW fault, Sound(x), ~x.gone, ReloadFails(x, fault)
    PROVE  Passed(x, master')
<1>. DEFINE y == [x EXCEPT !.reconfigure = FALSE]
<1>1. y \in Master /\ y.procs = x.procs /\ y.live = x.live /\ y.new_binary = x.new_binary
      /\ y.pid = x.pid /\ y.oldpid = x.oldpid /\ y.gone = x.gone
  BY DEF Sound, Master
<1>2. master' = Suspend(y)
  BY DEF ReloadFails
<1>. HIDE DEF y
<1>3. Undisturbed(x, y)
  BY <1>1, SameTable DEF Undisturbed, SamePids, SameLives
<1>4. Undisturbed(x, Suspend(y))
  BY <1>3, SuspendKeeps, UndisturbedIsTransitive DEF Undisturbed
<1>. QED BY <1>2, <1>4, UndisturbedPasses

LEMMA LeavePasses ==
    ASSUME NEW x, Sound(x), ~x.gone, Leave(x)
    PROVE  Passed(x, master')
BY MasterProcessExitTells DEF Passed, Leave

-----------------------------------------------------------------------------
\* From one part of the pass to the next: names are kept, whoever is started is
\* believed to live, and nobody asks for a new binary in between.
Carried(x, y) ==
    /\ Sound(y) /\ SamePids(x, y) /\ y.change_binary = x.change_binary
    /\ LiveTells(x) => LiveTells(y)

LEMMA ReconfiguredCarries ==
    ASSUME NEW x, NEW fault, Sound(x)
    PROVE  Carried(x, Reconfigured(x, fault))
<1>. DEFINE lost == IF fault = "fork" THEN 1 ELSE 0
            y == [x EXCEPT !.reconfigure = FALSE, !.conf = @ + 1, !.live = TRUE]
            z == StartWorkers(y, TRUE, lost)
            u == StartCacheManagers(z, TRUE)
            v == SignalWorkers(u, "quit")
<1>1. lost \in {0, 1}
  OBVIOUS
<1>2. Reconfigured(x, fault) = IF x.reconfigure THEN v ELSE x
  BY DEF Reconfigured
<1>3. y \in Master /\ y.procs = x.procs /\ y.live /\ y.new_binary = x.new_binary
      /\ y.pid = x.pid /\ y.oldpid = x.oldpid /\ y.gone = x.gone
      /\ y.change_binary = x.change_binary
  <2>1. x \in Master /\ x.conf + 1 \in Nat
    BY DEF Sound, Master
  <2>. QED BY <2>1 DEF Master
<1>. HIDE DEF lost, y
<1>4. Sound(y)
  BY <1>3, SameTable
<1>5. Started(y, z)
  BY <1>1, <1>4, StartWorkersStarts
<1>. HIDE DEF z
<1>6. Started(z, u)
  BY <1>5, StartCacheManagersStarts DEF Started
<1>. HIDE DEF u
<1>7. Sound(u) /\ SamePids(x, u) /\ u.live /\ u.change_binary = x.change_binary
  BY <1>3, <1>5, <1>6, StartedIsTransitive DEF Started, SamePids
<1>8. Sound(v) /\ SamePids(u, v) /\ v.live /\ v.change_binary = u.change_binary
  BY <1>7, SignalWorkersKeeps DEF Commands, SameLives
<1>. HIDE DEF v
<1>. QED BY <1>2, <1>7, <1>8 DEF Carried, SamePids, LiveTells

LEMMA RestartedCarries ==
    ASSUME NEW x, NEW fault, Sound(x)
    PROVE  Carried(x, Restarted(x, fault))
<1>. DEFINE lost == IF fault = "fork" THEN 1 ELSE 0
            y == [x EXCEPT !.restart = FALSE, !.live = TRUE]
            z == StartWorkers(y, FALSE, lost)
            u == StartCacheManagers(z, FALSE)
<1>1. lost \in {0, 1}
  OBVIOUS
<1>2. Restarted(x, fault) = IF x.restart THEN u ELSE x
  BY DEF Restarted
<1>3. y \in Master /\ y.procs = x.procs /\ y.live /\ y.new_binary = x.new_binary
      /\ y.pid = x.pid /\ y.oldpid = x.oldpid /\ y.gone = x.gone
      /\ y.change_binary = x.change_binary
  BY DEF Sound, Master
<1>. HIDE DEF lost, y
<1>4. Sound(y)
  BY <1>3, SameTable
<1>5. Started(y, z)
  BY <1>1, <1>4, StartWorkersStarts
<1>. HIDE DEF z
<1>6. Started(z, u)
  BY <1>5, StartCacheManagersStarts DEF Started
<1>. HIDE DEF u
<1>7. Sound(u) /\ SamePids(x, u) /\ u.live /\ u.change_binary = x.change_binary
  BY <1>3, <1>5, <1>6, StartedIsTransitive DEF Started, SamePids
<1>. QED BY <1>2, <1>7 DEF Carried, SamePids, LiveTells

LEMMA AcceptingStoppedKeeps ==
    ASSUME NEW x, Sound(x)
    PROVE  Undisturbed(x, AcceptingStopped(x))
<1>. DEFINE y == [x EXCEPT !.noaccept = FALSE, !.noaccepting = TRUE]
            z == SignalWorkers(y, "quit")
<1>1. y \in Master /\ y.procs = x.procs /\ y.live = x.live /\ y.new_binary = x.new_binary
      /\ y.pid = x.pid /\ y.oldpid = x.oldpid /\ y.gone = x.gone
  BY DEF Sound, Master
<1>2. AcceptingStopped(x) = IF x.noaccept THEN z ELSE x
  BY DEF AcceptingStopped
<1>. HIDE DEF y
<1>3. Undisturbed(x, y)
  BY <1>1, SameTable DEF Undisturbed, SamePids, SameLives
<1>4. Undisturbed(x, z)
  BY <1>3, SignalWorkersKeeps, UndisturbedIsTransitive DEF Undisturbed, Commands
<1>5. Undisturbed(x, x)
  BY DEF Undisturbed, SamePids, SameLives
<1>. QED BY <1>2, <1>4, <1>5

LEMMA CarryOnPasses ==
    ASSUME NEW x, NEW fault, Sound(x), ~x.gone, CarryOn(x, fault)
    PROVE  Passed(x, master')
<1>. DEFINE a == Reconfigured(x, fault)
            b == Restarted(a, fault)
            asked == [b EXCEPT !.change_binary = FALSE]
            c == BinaryChanged(b, fault)
            d == AcceptingStopped(c)
<1>1. master' = Suspend(d) /\ Staying(x)
  BY DEF CarryOn
<1>2. Carried(x, a)
  BY ReconfiguredCarries
<1>. HIDE DEF a
<1>3. Carried(a, b)
  BY <1>2, RestartedCarries DEF Carried
<1>. HIDE DEF b
<1>4. Carried(x, b)
  BY <1>2, <1>3 DEF Carried, SamePids
<1>5. asked \in Master /\ asked.procs = b.procs /\ asked.live = b.live
      /\ asked.new_binary = b.new_binary
      /\ asked.pid = b.pid /\ asked.oldpid = b.oldpid /\ asked.gone = b.gone
  BY <1>4 DEF Carried, Sound, Master
<1>6. c = IF b.change_binary THEN ExecNewBinary(asked, fault # "exec") ELSE b
  BY DEF BinaryChanged
<1>. HIDE DEF asked, c
<1>7. Sound(asked) /\ SamePids(b, asked) /\ SameLives(b, asked)
  BY <1>4, <1>5, SameTable DEF Carried, SamePids, SameLives
<1>8. /\ Sound(c) /\ ~c.gone
      /\ LiveTells(b) => LiveTells(c)
      /\ PidsTell(b) /\ ~(b.change_binary /\ b.new_binary # 0) => PidsTell(c)
  <2>1. (fault # "exec") \in BOOLEAN
    OBVIOUS
  <2>2. ~asked.gone /\ ~b.gone
    BY <1>4, <1>5 DEF Carried, SamePids
  <2>3. (LiveTells(b) => LiveTells(asked)) /\ (PidsTell(b) => PidsTell(asked))
    BY <1>7, SamePidsTell, SameLivesTell
  <2>. HIDE DEF Sound
  <2>. QED BY <1>4, <1>5, <1>6, <1>7, <2>1, <2>2, <2>3, ExecNewBinaryTells DEF Carried
<1>9. Undisturbed(c, d)
  BY <1>8, AcceptingStoppedKeeps
<1>. HIDE DEF d
<1>10. Undisturbed(c, Suspend(d))
  BY <1>9, SuspendKeeps, UndisturbedIsTransitive DEF Undisturbed
<1>11. (PidsTell(x) => PidsTell(b)) /\ (LiveTells(x) => LiveTells(b))
       /\ b.new_binary = x.new_binary /\ b.change_binary = x.change_binary
  BY <1>4, SamePidsTell DEF Carried, SamePids
<1>. QED BY <1>1, <1>8, <1>10, <1>11, SamePidsTell, SameLivesTell
        DEF Passed, Undisturbed, SamePids

-----------------------------------------------------------------------------
\* A handler sets flags and marks who died; it changes no name and starts nobody.
LEMMA ProcessGetStatusKeeps ==
    ASSUME NEW x, Sound(x)
    PROVE  Undisturbed(x, ProcessGetStatus(x))
<1>. DEFINE waited(c) == [c EXCEPT !.exited = TRUE, !.respawn = @ /\ c.stage # "fatal"]
            looked(c) == IF ~Dead(c) \/ c.exited THEN c ELSE waited(c)
            procs == [i \in Places |-> looked(x.procs[i])]
            y == [x EXCEPT !.reap = TRUE, !.procs = procs]
<1>1. x \in Master /\ x.procs \in [Places -> Process] /\ SoundTable(x.procs)
  BY DEF Sound, Master
<1>2. ASSUME NEW c \in Process
      PROVE  /\ looked(c) \in Process /\ looked(c).kind = c.kind /\ looked(c).stage = c.stage
             /\ looked(c).exited /\ ~c.exited => Dead(c)
             /\ looked(c).respawn => c.respawn
             /\ c.kind = "free" /\ c = NoProcess => looked(c) = c
  <2>1. NoProcess.stage = "none"
    BY DEF NoProcess
  <2>2. CASE ~Dead(c) \/ c.exited
    BY <2>2
  <2>3. CASE Dead(c) /\ ~c.exited
    <3>1. (c.respawn /\ c.stage # "fatal") \in BOOLEAN
      BY DEF Process
    <3>. DEFINE again == c.respawn /\ c.stage # "fatal"
    <3>2. looked(c) = [c EXCEPT !.exited = TRUE, !.respawn = again]
      BY <2>3
    <3>. HIDE DEF again
    <3>3. looked(c) \in Process /\ looked(c).kind = c.kind /\ looked(c).stage = c.stage
          /\ looked(c).respawn = again
      BY <3>1, <3>2 DEF Process, again
    <3>. QED BY <2>1, <2>3, <3>3 DEF again, Dead
  <2>. QED BY <2>2, <2>3
<1>3. ProcessGetStatus(x) = y
  BY DEF ProcessGetStatus
<1>4. \A i \in Places : procs[i] = looked(x.procs[i]) /\ x.procs[i] \in Process
  BY <1>1
<1>. HIDE DEF looked
<1>5. /\ procs \in [Places -> Process]
      /\ \A i \in Places :
            /\ procs[i].kind = x.procs[i].kind /\ procs[i].stage = x.procs[i].stage
            /\ procs[i].exited /\ ~x.procs[i].exited => Dead(x.procs[i])
            /\ procs[i].respawn => x.procs[i].respawn
            /\ x.procs[i].kind = "free" => procs[i] = x.procs[i]
  <2>1. \A i \in Places : x.procs[i].kind = "free" => x.procs[i] = NoProcess
    BY <1>1 DEF SoundTable
  <2>. QED BY <1>2, <1>4, <2>1
<1>. HIDE DEF procs
<1>6. y \in Master /\ y.procs = procs /\ y.live = x.live /\ y.new_binary = x.new_binary
      /\ y.pid = x.pid /\ y.oldpid = x.oldpid /\ y.gone = x.gone
  BY <1>1, <1>5 DEF Master
<1>. HIDE DEF y
<1>7. \A i \in Places : Dead(x.procs[i]) => ~Alive(x.procs[i])
  BY DEF Dead, Alive
<1>8. \A i \in Places : /\ Alive(procs[i]) = Alive(x.procs[i])
                        /\ Detached(procs[i]) = Detached(x.procs[i])
  BY <1>5 DEF Alive, Detached
<1>9. SoundTable(procs)
  BY <1>1, <1>5, <1>7, <1>8 DEF SoundTable
<1>. QED BY <1>3, <1>6, <1>8, <1>9 DEF Undisturbed, Sound, SamePids, SameLives

\* y differs from x in flags, or in what is done with the alarm.
FlagsOnly(x, y) ==
    /\ y \in Master /\ y.procs = x.procs /\ y.live = x.live /\ y.new_binary = x.new_binary
    /\ y.pid = x.pid /\ y.oldpid = x.oldpid /\ y.gone = x.gone

LEMMA FlagsKeep ==
    ASSUME NEW x, NEW y, Sound(x), FlagsOnly(x, y)
    PROVE  Undisturbed(x, y)
BY SameTable DEF FlagsOnly, Undisturbed, SamePids, SameLives

LEMMA FlagsDiffer ==
    ASSUME NEW x, x \in Master, NEW flag \in BOOLEAN
    PROVE  /\ FlagsOnly(x, [x EXCEPT !.reconfigure = flag])
           /\ FlagsOnly(x, [x EXCEPT !.terminate = flag])
           /\ FlagsOnly(x, [x EXCEPT !.quit = flag])
           /\ FlagsOnly(x, [x EXCEPT !.noaccept = flag])
           /\ FlagsOnly(x, [x EXCEPT !.change_binary = flag])
           /\ FlagsOnly(x, [x EXCEPT !.sigalrm = flag])
           /\ FlagsOnly(x, [x EXCEPT !.armed = flag])
<1>1. FlagsOnly(x, [x EXCEPT !.reconfigure = flag])
  BY DEF Master, FlagsOnly
<1>2. FlagsOnly(x, [x EXCEPT !.terminate = flag])
  BY DEF Master, FlagsOnly
<1>3. FlagsOnly(x, [x EXCEPT !.quit = flag])
  BY DEF Master, FlagsOnly
<1>4. FlagsOnly(x, [x EXCEPT !.noaccept = flag])
  BY DEF Master, FlagsOnly
<1>5. FlagsOnly(x, [x EXCEPT !.change_binary = flag])
  BY DEF Master, FlagsOnly
<1>6. FlagsOnly(x, [x EXCEPT !.sigalrm = flag])
  BY DEF Master, FlagsOnly
<1>7. FlagsOnly(x, [x EXCEPT !.armed = flag])
  BY DEF Master, FlagsOnly
<1>. QED BY <1>1, <1>2, <1>3, <1>4, <1>5, <1>6, <1>7

LEMMA TimersDiffer ==
    ASSUME NEW x, x \in Master, NEW handler \in {"change_binary", "noaccept"}
    PROVE  FlagsOnly(x, [x EXCEPT !.handler = handler, !.armed = TRUE])
BY DEF Master, FlagsOnly

LEMMA SignalHandlerKeeps ==
    ASSUME NEW x, NEW sig \in Stock \cup {"chld", "alrm"}, Sound(x)
    PROVE  Undisturbed(x, SignalHandler(x, sig))
<1>1. x \in Master
  BY DEF Sound
<1>2. CASE sig = "chld"
  BY <1>2, ProcessGetStatusKeeps DEF SignalHandler
<1>3. CASE sig \in {"hup", "term", "quit", "winch", "alrm"}
  <2>1. \/ SignalHandler(x, sig) = [x EXCEPT !.reconfigure = TRUE]
        \/ SignalHandler(x, sig) = [x EXCEPT !.terminate = TRUE]
        \/ SignalHandler(x, sig) = [x EXCEPT !.quit = TRUE]
        \/ SignalHandler(x, sig) = [x EXCEPT !.noaccept = TRUE]
        \/ SignalHandler(x, sig) = [x EXCEPT !.sigalrm = TRUE]
    BY <1>3 DEF SignalHandler
  <2>2. FlagsOnly(x, SignalHandler(x, sig))
    BY <1>1, <2>1, FlagsDiffer
  <2>. QED BY <2>2, FlagsKeep
<1>4. CASE sig = "usr2"
  <2>. DEFINE change_binary == x.change_binary \/ x.new_binary <= 0
  <2>1. SignalHandler(x, sig) = [x EXCEPT !.change_binary = change_binary]
    BY <1>4 DEF SignalHandler
  <2>2. change_binary \in BOOLEAN
    OBVIOUS
  <2>. HIDE DEF change_binary
  <2>3. FlagsOnly(x, SignalHandler(x, sig))
    BY <1>1, <2>1, <2>2, FlagsDiffer
  <2>. QED BY <2>3, FlagsKeep
<1>. QED BY <1>2, <1>3, <1>4 DEF Stock

LEMMA HandledKeeps ==
    ASSUME Sound(master), NEW sig \in Signals
    PROVE  Undisturbed(master, Handled(sig))
<1>1. master \in Master
  BY DEF Sound
<1>2. FlagsOnly(master, master)
  BY <1>1 DEF FlagsOnly
<1>3. CASE sig \in User1
  <2>. DEFINE y == [master EXCEPT !.change_binary = TRUE]
              z == [y EXCEPT !.handler = "change_binary", !.armed = TRUE]
  <2>1. Handled(sig) = SigUser1(master, sig)
    BY <1>3 DEF Handled, User1
  <2>2. \/ Handled(sig) = [master EXCEPT !.reconfigure = TRUE]
        \/ Handled(sig) = master
        \/ Handled(sig) = z
    BY <2>1 DEF SigUser1, AddTimer
  <2>3. FlagsOnly(master, y)
    BY <1>1, FlagsDiffer
  <2>. HIDE DEF y
  <2>4. FlagsOnly(y, z)
    BY <2>3, TimersDiffer DEF FlagsOnly
  <2>5. FlagsOnly(master, [master EXCEPT !.reconfigure = TRUE])
    BY <1>1, FlagsDiffer
  <2>. HIDE DEF z
  <2>6. FlagsOnly(master, z)
    BY <2>3, <2>4 DEF FlagsOnly
  <2>7. FlagsOnly(master, Handled(sig))
    BY <1>2, <2>2, <2>5, <2>6
  <2>. QED BY <2>7, FlagsKeep
<1>4. CASE sig = "alrm" /\ master.handler = "change_binary"
  <2>. DEFINE y == [master EXCEPT !.noaccept = TRUE]
              z == [y EXCEPT !.handler = "noaccept", !.armed = TRUE]
  <2>1. Handled(sig) = IF master.noaccept THEN master ELSE z
    BY <1>4 DEF Handled, User1, OnChangeBinary, AddTimer
  <2>2. FlagsOnly(master, y)
    BY <1>1, FlagsDiffer
  <2>. HIDE DEF y
  <2>3. FlagsOnly(y, z)
    BY <2>2, TimersDiffer DEF FlagsOnly
  <2>. HIDE DEF z
  <2>4. FlagsOnly(master, z)
    BY <2>2, <2>3 DEF FlagsOnly
  <2>. QED BY <1>2, <2>1, <2>4, FlagsKeep
<1>5. CASE sig = "alrm" /\ master.handler = "noaccept"
  <2>1. Handled(sig) = [master EXCEPT !.terminate = TRUE]
    BY <1>5 DEF Handled, User1, OnNoAccept
  <2>2. FlagsOnly(master, Handled(sig))
    BY <1>1, <2>1, FlagsDiffer
  <2>. QED BY <2>2, FlagsKeep
<1>6. CASE sig \notin User1 /\ ~(sig = "alrm" /\ master.handler = "change_binary")
           /\ ~(sig = "alrm" /\ master.handler = "noaccept")
  <2>1. Handled(sig) = SignalHandler(master, sig)
    BY <1>6 DEF Handled
  <2>2. sig \in Stock \cup {"chld", "alrm"}
    BY <1>6 DEF Signals
  <2>. QED BY <2>1, <2>2, SignalHandlerKeeps
<1>. QED BY <1>3, <1>4, <1>5, <1>6

-----------------------------------------------------------------------------
\* A child that lives moves on, or dies: its place stays what it is.
LEMMA ChildMoves ==
    ASSUME NEW x, Sound(x), NEW i \in Places, NEW c \in Process, Alive(x.procs[i]),
           c.kind = x.procs[i].kind, c.respawn = x.procs[i].respawn,
           c.exited = x.procs[i].exited
    PROVE  LET procs == [x.procs EXCEPT ![i] = c]
           IN  /\ procs \in [Places -> Process] /\ SoundTable(procs)
               /\ \A j \in Places : /\ Alive(procs[j]) => Alive(x.procs[j])
                                    /\ Detached(procs[j]) = Detached(x.procs[j])
<1>. DEFINE procs == [x.procs EXCEPT ![i] = c]
<1>1. x.procs \in [Places -> Process] /\ SoundTable(x.procs)
  BY DEF Sound, Master
<1>2. procs \in [Places -> Process] /\ procs[i] = c
      /\ \A j \in Places : j # i => procs[j] = x.procs[j]
  BY <1>1
<1>3. x.procs[i].kind # "free" /\ ~x.procs[i].exited
  BY <1>1 DEF SoundTable, NoProcess, Alive
<1>. HIDE DEF procs
<1>4. SoundTable(procs)
  BY <1>1, <1>2, <1>3 DEF SoundTable, Detached
<1>5. \A j \in Places : /\ Alive(procs[j]) => Alive(x.procs[j])
                        /\ Detached(procs[j]) = Detached(x.procs[j])
  BY <1>2 DEF Detached
<1>. QED BY <1>2, <1>4, <1>5 DEF procs

LEMMA StageKeeps ==
    ASSUME NEW x, Sound(x), NEW i \in Places, Alive(x.procs[i]), NEW stage \in Stages,
           NEW told \in SUBSET Commands
    PROVE  Undisturbed(x, [x EXCEPT !.procs[i] = [@ EXCEPT !.stage = stage, !.told = told]])
<1>. DEFINE c == [x.procs[i] EXCEPT !.stage = stage, !.told = told]
            procs == [x.procs EXCEPT ![i] = c]
            y == [x EXCEPT !.procs = procs]
<1>1. x \in Master /\ x.procs[i] \in Process
  BY DEF Sound, Master
<1>2. c \in Process /\ c.kind = x.procs[i].kind /\ c.respawn = x.procs[i].respawn
      /\ c.exited = x.procs[i].exited
  BY <1>1 DEF Process
<1>. HIDE DEF c
<1>3. /\ procs \in [Places -> Process] /\ SoundTable(procs)
      /\ \A j \in Places : /\ Alive(procs[j]) => Alive(x.procs[j])
                           /\ Detached(procs[j]) = Detached(x.procs[j])
  BY <1>2, ChildMoves
<1>. HIDE DEF procs
<1>4. y \in Master /\ y.procs = procs /\ y.live = x.live /\ y.new_binary = x.new_binary
      /\ y.pid = x.pid /\ y.oldpid = x.oldpid /\ y.gone = x.gone
  BY <1>1, <1>3 DEF Master
<1>. HIDE DEF y
<1>5. Undisturbed(x, y)
  BY <1>3, <1>4 DEF Undisturbed, Sound, SamePids, SameLives
<1>. QED BY <1>5 DEF y, procs, c

\* The new binary writes the pid file under its own name, and takes it with it.
LEMMA NewBinaryKeeps ==
    ASSUME NEW x, Sound(x), ~x.gone, NEW i \in Places, Detached(x.procs[i]), Alive(x.procs[i]),
           NEW stage \in Stages, NEW pid \in {i, Nobody}
    PROVE  LET y == [x EXCEPT !.procs[i] = [@ EXCEPT !.stage = stage], !.pid = pid]
           IN  /\ Sound(y) /\ SameLives(x, y) /\ y.gone = x.gone
               /\ PidsTell(x) => PidsTell(y)
<1>. DEFINE c == [x.procs[i] EXCEPT !.stage = stage]
            procs == [x.procs EXCEPT ![i] = c]
            y == [x EXCEPT !.procs = procs, !.pid = pid]
<1>1. x \in Master /\ x.procs[i] \in Process
  BY DEF Sound, Master
<1>2. c \in Process /\ c.kind = x.procs[i].kind /\ c.respawn = x.procs[i].respawn
      /\ c.exited = x.procs[i].exited
  BY <1>1 DEF Process
<1>. HIDE DEF c
<1>3. /\ procs \in [Places -> Process] /\ SoundTable(procs)
      /\ \A j \in Places : /\ Alive(procs[j]) => Alive(x.procs[j])
                           /\ Detached(procs[j]) = Detached(x.procs[j])
  BY <1>2, ChildMoves
<1>. HIDE DEF procs
<1>4. y \in Master /\ y.procs = procs /\ y.live = x.live /\ y.new_binary = x.new_binary
      /\ y.pid = pid /\ y.oldpid = x.oldpid /\ y.gone = x.gone
  BY <1>1, <1>3 DEF Master, Pid
<1>. HIDE DEF y
<1>5. 0 \notin Places /\ Self \notin Places /\ Invalid \notin Places
  BY CycleAssumption DEF Self, Invalid
<1>6. PidsTell(x) => PidsTell(y)
  BY <1>3, <1>4, <1>5 DEF PidsTell, Self, Nobody
<1>7. Sound(y) /\ SameLives(x, y)
  BY <1>3, <1>4 DEF Sound, SameLives
<1>. QED BY <1>4, <1>6, <1>7 DEF y, procs, c

-----------------------------------------------------------------------------
Fields == {"asks", "said", "left", "ill", "again", "twice"}

\* The strengthening: the table is sound; the names tell as long as no second new
\* binary was executed next to a first, and `live' as long as no workers were started
\* next to a new binary.
CycleInv ==
    /\ Sound(master)
    /\ hist = [asks |-> hist.asks, said |-> hist.said, left |-> hist.left, ill |-> hist.ill,
               again |-> hist.again, twice |-> hist.twice]
    /\ ~hist.twice => PidsTell(master)
    /\ ~hist.again => LiveTells(master)
    /\ master.gone => ~master.live

LEMMA CycleInitInv ==
    ASSUME CycleInit PROVE CycleInv
<1>1. PICK c \in Cases :
         /\ master = MasterProcessCycle([workers |-> c.workers, manager |-> c.manager,
                                         loader |-> c.loader])
         /\ hist = [asks |-> c.asks, said |-> {}, left |-> MaxMishaps, ill |-> {},
                    again |-> FALSE, twice |-> FALSE]
  BY DEF CycleInit
<1>. DEFINE ccf == [workers |-> c.workers, manager |-> c.manager, loader |-> c.loader]
            x == Main(ccf)
            y == StartWorkers(x, FALSE, 0)
<1>2. ccf \in Config
  BY CycleAssumption DEF Config
<1>3. master = StartCacheManagers(y, FALSE)
  BY <1>1 DEF MasterProcessCycle
<1>. HIDE DEF ccf
<1>4. NoProcess \in Process
  BY DEF NoProcess, Process, Stages
<1>. DEFINE empty == [i \in Places |-> NoProcess]
<1>5. empty \in [Places -> Process] /\ \A i \in Places : empty[i] = NoProcess
  BY <1>4
<1>6. x.procs = empty /\ x.live /\ ~x.gone /\ x.pid = Self /\ x.oldpid = Nobody
      /\ x.new_binary = 0
  BY DEF Main
<1>. HIDE DEF empty
<1>7. x \in Master
  BY <1>2, <1>5, <1>6 DEF Main, Master, Pid, empty
<1>. HIDE DEF x
<1>8. Sound(x) /\ \A i \in Places : ~Detached(x.procs[i])
  BY <1>5, <1>6, <1>7 DEF Sound, SoundTable, NoProcess, Alive, Detached
<1>9. Started(x, y)
  BY <1>8, StartWorkersStarts
<1>. HIDE DEF y
<1>10. Started(y, master)
  BY <1>3, <1>9, StartCacheManagersStarts DEF Started
<1>11. Started(x, master)
  BY <1>9, <1>10, StartedIsTransitive
<1>12. PidsTell(x)
  BY <1>6, <1>8, CycleAssumption DEF PidsTell
<1>13. PidsTell(master) /\ Sound(master) /\ master.live /\ ~master.gone
  BY <1>6, <1>11, <1>12, SamePidsTell DEF Started, SamePids
<1>. QED BY <1>1, <1>13 DEF CycleInv, LiveTells

LEMMA WakeKeepsInv ==
    ASSUME CycleInv, Wake PROVE CycleInv'
<1>. DEFINE Before(fault) == IF master.reap THEN ReapChildren(master, fault # "respawn")
                             ELSE master
            Branch(x, fault) == \/ Leave(x)
                                \/ Terminating(x)
                                \/ Quitting(x)
                                \/ WorkersAgain(x, fault)
                                \/ ReloadFails(x, fault)
                                \/ CarryOn(x, fault)
            Noted(x, fault) ==
                hist' = [hist EXCEPT
                          !.left = IF fault = "none" THEN @ ELSE @ - 1,
                          !.ill = @ \cup ({fault} \ {"none"}),
                          !.again = @ \/ (Staying(x) /\ x.reconfigure /\ x.new_binary # 0),
                          !.twice = @ \/ (Staying(x) /\ x.change_binary /\ x.new_binary # 0)]
<1>7. PICK fault \in Faults : \E x \in {Before(fault)} : Branch(x, fault) /\ Noted(x, fault)
  BY DEF Wake
<1>1. PICK x \in {Before(fault)} : Branch(x, fault) /\ Noted(x, fault)
  BY <1>7
<1>2. ~master.gone
  BY DEF Wake
<1>3. x = IF master.reap THEN ReapChildren(master, fault # "respawn") ELSE master
  BY <1>1
<1>4. /\ Sound(x) /\ ~x.gone
      /\ ~hist.twice => PidsTell(x)
      /\ ~hist.again => LiveTells(x)
  <2>1. (fault # "respawn") \in BOOLEAN
    OBVIOUS
  <2>. QED BY <1>2, <1>3, <2>1, ReapChildrenTells DEF CycleInv
<1>5. Passed(x, master')
  BY <1>1, <1>4, LeavePasses, TerminatingPasses, QuittingPasses, WorkersAgainPasses,
     ReloadFailsPasses, CarryOnPasses
<1>. DEFINE again == Staying(x) /\ x.reconfigure /\ x.new_binary # 0
            twice == Staying(x) /\ x.change_binary /\ x.new_binary # 0
<1>6. /\ hist' = [asks |-> hist'.asks, said |-> hist'.said, left |-> hist'.left,
                  ill |-> hist'.ill, again |-> hist'.again, twice |-> hist'.twice]
      /\ ~hist'.again => ~hist.again /\ ~again
      /\ ~hist'.twice => ~hist.twice /\ ~twice
  <2>. HIDE DEF again, twice
  <2>1. hist' = [hist EXCEPT
                      !.left = IF fault = "none" THEN @ ELSE @ - 1,
                      !.ill = @ \cup ({fault} \ {"none"}),
                      !.again = @ \/ again,
                      !.twice = @ \/ twice]
    BY <1>1 DEF again, twice
  <2>. QED BY <2>1 DEF CycleInv
<1>. QED BY <1>4, <1>5, <1>6 DEF CycleInv, Passed

LEMMA UndisturbedKeepsInv ==
    ASSUME CycleInv, ~master.gone, Undisturbed(master, master'),
           hist' = [asks |-> hist'.asks, said |-> hist'.said, left |-> hist'.left,
                    ill |-> hist'.ill, again |-> hist'.again, twice |-> hist'.twice],
           hist'.again = hist.again, hist'.twice = hist.twice
    PROVE  CycleInv'
BY SamePidsTell, SameLivesTell DEF CycleInv, Undisturbed, SamePids

LEMMA DeliverKeepsInv ==
    ASSUME CycleInv, NEW sig \in Signals, Deliver(sig) PROVE CycleInv'
<1>1. master' = Handled(sig) /\ hist' = hist /\ ~master.gone
  BY DEF Deliver
<1>2. Undisturbed(master, master')
  BY <1>1, HandledKeeps DEF CycleInv
<1>. QED BY <1>1, <1>2, UndisturbedKeepsInv DEF CycleInv

LEMMA BecomesKeepsInv ==
    ASSUME CycleInv, ~master.gone, NEW i \in Places, NEW stage \in Stages,
           Alive(master.procs[i]), Becomes(i, stage)
    PROVE  CycleInv'
<1>. DEFINE told == IF stage = "dead" THEN {} ELSE master.procs[i].told
<1>1. told \in SUBSET Commands
  BY DEF CycleInv, Sound, Master, Process
<1>2. master' = [master EXCEPT !.procs[i] = [@ EXCEPT !.stage = stage, !.told = told]]
      /\ hist' = hist
  BY DEF Becomes
<1>. HIDE DEF told
<1>3. Undisturbed(master, master')
  BY <1>1, <1>2, StageKeeps DEF CycleInv
<1>. QED BY <1>2, <1>3, UndisturbedKeepsInv DEF CycleInv

LEMMA MisfortuneKeepsInv ==
    ASSUME CycleInv, NEW i \in Places, NEW stage \in {"dead", "hung", "fatal"},
           Misfortune(i, stage)
    PROVE  CycleInv'
<1>1. /\ master' = [master EXCEPT !.procs[i] = [@ EXCEPT !.stage = stage, !.told = {}]]
      /\ hist' = [hist EXCEPT !.left = @ - 1, !.ill = @ \cup {stage}]
      /\ ~master.gone /\ Alive(master.procs[i])
  BY DEF Misfortune, Alive
<1>2. stage \in Stages /\ {} \in SUBSET Commands
  BY DEF Stages
<1>3. Undisturbed(master, master')
  BY <1>1, <1>2, StageKeeps DEF CycleInv
<1>4. /\ hist' = [asks |-> hist'.asks, said |-> hist'.said, left |-> hist'.left,
                  ill |-> hist'.ill, again |-> hist'.again, twice |-> hist'.twice]
      /\ hist'.again = hist.again /\ hist'.twice = hist.twice
  BY <1>1 DEF CycleInv
<1>. QED BY <1>1, <1>3, <1>4, UndisturbedKeepsInv

LEMMA AskedLeavesMarks ==
    ASSUME CycleInv, NEW sig, Asked(sig)
    PROVE  /\ hist' = [asks |-> hist'.asks, said |-> hist'.said, left |-> hist'.left,
                       ill |-> hist'.ill, again |-> hist'.again, twice |-> hist'.twice]
           /\ hist'.again = hist.again /\ hist'.twice = hist.twice /\ ~master.gone
BY DEF CycleInv, Asked

LEMMA SendKeepsInv ==
    ASSUME CycleInv, NEW sig, Send(sig) PROVE CycleInv'
<1>1. Asked(sig) /\ master' = master
  BY DEF Send
<1>2. Undisturbed(master, master)
  BY DEF CycleInv, Undisturbed, SamePids, SameLives
<1>. QED BY <1>1, <1>2, AskedLeavesMarks, UndisturbedKeepsInv

LEMMA NewBinaryUpKeepsInv ==
    ASSUME CycleInv, ~master.gone, NEW i \in Places, NewBinaryUp(i) PROVE CycleInv'
<1>1. /\ master' = [master EXCEPT !.procs[i] = [@ EXCEPT !.stage = "up"], !.pid = i]
      /\ Detached(master.procs[i]) /\ Alive(master.procs[i]) /\ hist' = hist
      /\ "up" \in Stages
  BY DEF NewBinaryUp, Alive, Stages
<1>2. /\ Sound(master') /\ SameLives(master, master') /\ master'.gone = master.gone
      /\ PidsTell(master) => PidsTell(master')
  BY <1>1, NewBinaryKeeps DEF CycleInv
<1>. QED BY <1>1, <1>2, SameLivesTell DEF CycleInv

LEMMA NewBinaryQuitsKeepsInv ==
    ASSUME CycleInv, NEW i \in Places, NewBinaryQuits(i) PROVE CycleInv'
<1>1. /\ master' = [master EXCEPT !.procs[i] = [@ EXCEPT !.stage = "dead"], !.pid = Nobody]
      /\ Detached(master.procs[i]) /\ Alive(master.procs[i]) /\ Asked("back")
      /\ "dead" \in Stages
  BY DEF NewBinaryQuits, Alive, Stages
<1>2. /\ hist' = [asks |-> hist'.asks, said |-> hist'.said, left |-> hist'.left,
                  ill |-> hist'.ill, again |-> hist'.again, twice |-> hist'.twice]
      /\ hist'.again = hist.again /\ hist'.twice = hist.twice /\ ~master.gone
  BY <1>1, AskedLeavesMarks
<1>3. /\ Sound(master') /\ SameLives(master, master') /\ master'.gone = master.gone
      /\ PidsTell(master) => PidsTell(master')
  BY <1>1, <1>2, NewBinaryKeeps DEF CycleInv
<1>. QED BY <1>2, <1>3, SameLivesTell DEF CycleInv

LEMMA TimerExpiresKeepsInv ==
    ASSUME CycleInv, TimerExpires PROVE CycleInv'
<1>1. master' = [master EXCEPT !.armed = FALSE] /\ hist' = hist
  BY DEF TimerExpires
<1>2. FlagsOnly(master, master')
  BY <1>1, FlagsDiffer DEF CycleInv, Sound
<1>3. Undisturbed(master, master')
  BY <1>2, FlagsKeep DEF CycleInv
<1>4. master'.gone = master.gone /\ master'.live = master.live
  BY <1>2 DEF FlagsOnly
<1>. QED BY <1>1, <1>3, <1>4, SamePidsTell, SameLivesTell DEF CycleInv, Undisturbed

LEMMA ChildStepKeepsInv ==
    ASSUME CycleInv, NEW i \in Places, ChildStep(i) PROVE CycleInv'
<1>1. ~master.gone
  BY DEF ChildStep
<1>2. \A stage \in {"up", "shutting", "dead"} : stage \in Stages
  BY DEF Stages
<1>3. CASE NewBinaryUp(i)
  BY <1>1, <1>3, NewBinaryUpKeepsInv
<1>4. CASE ~NewBinaryUp(i)
  <2>1. \E stage \in {"up", "shutting", "dead"} :
            Becomes(i, stage) /\ Alive(master.procs[i])
    BY <1>4 DEF ChildStep, WorkerProcessInit, WorkerProcessCycle, CacheManagerProcessCycle,
            CacheLoaderProcessHandler, Alive
  <2>. QED BY <1>1, <1>2, <2>1, BecomesKeepsInv
<1>. QED BY <1>3, <1>4

LEMMA CycleNextInv ==
    ASSUME CycleInv, [CycleNext]_cycleVars PROVE CycleInv'
<1>1. CASE Wake
  BY <1>1, WakeKeepsInv
<1>2. ASSUME NEW sig \in Signals, Deliver(sig) PROVE CycleInv'
  BY <1>2, DeliverKeepsInv
<1>3. ASSUME NEW sig, Send(sig) PROVE CycleInv'
  BY <1>3, SendKeepsInv
<1>4. CASE TimerExpires
  BY <1>4, TimerExpiresKeepsInv
<1>5. ASSUME NEW i \in Places, ChildStep(i) PROVE CycleInv'
  BY <1>5, ChildStepKeepsInv
<1>6. ASSUME NEW i \in Places, NewBinaryQuits(i) PROVE CycleInv'
  BY <1>6, NewBinaryQuitsKeepsInv
<1>7. ASSUME NEW i \in Places, NEW stage \in {"dead", "hung", "fatal"}, Misfortune(i, stage)
      PROVE CycleInv'
  BY <1>7, MisfortuneKeepsInv
<1>8. CASE UNCHANGED cycleVars
  <2>1. master' = master /\ hist' = hist
    BY <1>8 DEF cycleVars
  <2>. QED BY <2>1 DEF CycleInv
<1>. QED BY <1>1, <1>2, <1>3, <1>4, <1>5, <1>6, <1>7, <1>8
        DEF CycleNext, MasterStep, RestartInstance, ReloadConfiguration, Operator

LEMMA CycleInvAlways == CycleSpec => []CycleInv
<1>1. CycleInit => CycleInv
  BY CycleInitInv
<1>2. CycleInv /\ [CycleNext]_cycleVars => CycleInv'
  BY CycleNextInv
<1>. QED BY <1>1, <1>2, PTL DEF CycleSpec

\* However often the instance is reloaded, executed anew, killed or taken back, the pid
\* files lead to the master that answers, for a table of any size and any number of
\* workers (ngx_exec_new_binary, ngx_reap_children, ngx_master_process_exit).
THEOREM PidFilesTellAlways == CycleSpec => []PidFilesTell
<1>1. CycleInv => PidFilesTell
  <2>. SUFFICES ASSUME CycleInv, ~hist.twice PROVE PidFilesTell
    BY DEF PidFilesTell
  <2>1. PidsTell(master) /\ master \in Master
    BY DEF CycleInv, Sound
  <2>2. master.new_binary \in Places \cup {0, Invalid}
    BY <2>1 DEF Master
  <2>3. 0 \notin Places /\ Self \notin Places /\ Invalid \notin Places
    BY CycleAssumption DEF Self, Invalid
  <2>. QED BY <2>1, <2>2, <2>3 DEF PidsTell, PidFilesTell, Self, Nobody, Invalid
<1>. QED BY <1>1, CycleInvAlways, PTL

\* A master that goes leaves no child of its own (the head of ngx_master_process_cycle's
\* loop trusts `live', which is as old as the last reap).
THEOREM NoneLeftBehindAlways == CycleSpec => []NoneLeftBehind
<1>1. CycleInv => NoneLeftBehind
  BY DEF CycleInv, LiveTells, NoneLeftBehind
<1>. QED BY <1>1, CycleInvAlways, PTL

-----------------------------------------------------------------------------
\* A place of a worker of the configuration in force that nobody sent away: if it
\* dies, it is respawned there.
Manned(x, i) ==
    LET c == x.procs[i] IN c.kind = "worker" /\ c.respawn /\ ~c.exiting /\ c.conf = x.conf
Crew(x) == {i \in Places : Manned(x, i)}
Enough(x) == Cardinality(Crew(x)) >= x.ccf.workers

\* The master stays and accepts, and owes nobody a start.
Steady(x) == Staying(x) /\ ~x.noaccepting /\ ~x.restart
Full(x) == Steady(x) => Enough(x)

\* There is a free place for each worker of a configuration.
Room(x) == Cardinality({i \in Places : x.procs[i].kind = "free"}) >= x.ccf.workers

\* Nobody waits to be reaped.
Quiet(x) == \A i \in Places : ~Dead(x.procs[i]) /\ ~x.procs[i].exited

\* Who is in the crew of x is in that of y.
Retains(x, y) == y.ccf = x.ccf /\ \A i \in Places : Manned(x, i) => Manned(y, i)

LEMMA RetainedIsEnough ==
    ASSUME NEW x, NEW y, Retains(x, y), x \in Master, Enough(x)
    PROVE  Enough(y)
<1>1. Crew(x) \in SUBSET Crew(y) /\ Crew(y) \in SUBSET Places
  BY DEF Retains, Crew
<1>2. IsFiniteSet(Crew(y))
  BY <1>1, CycleAssumption, FS_Subset
<1>3. IsFiniteSet(Crew(x)) /\ Cardinality(Crew(x)) <= Cardinality(Crew(y))
  BY <1>1, <1>2, FS_Subset
<1>4. Cardinality(Crew(x)) \in Nat /\ Cardinality(Crew(y)) \in Nat
  BY <1>2, <1>3, FS_CardinalityType
<1>5. x.ccf.workers \in Nat
  BY DEF Master, Config
<1>. HIDE DEF Crew
<1>. QED BY <1>3, <1>4, <1>5 DEF Enough, Retains

\* Places that are taken keep who has them.
LEMMA StartedRetains ==
    ASSUME NEW x, NEW y, Sound(x), Started(x, y)
    PROVE  Retains(x, y) /\ (Quiet(x) => Quiet(y))
<1>1. \A i \in Places : x.procs[i].kind = "free" => ~Manned(x, i)
  BY DEF Manned
<1>2. \A i \in Places : Manned(x, i) => Manned(y, i)
  BY <1>1 DEF Started, Manned, SameOrders
<1>3. \A c \in Fresh : ~Dead(c) /\ ~c.exited
  BY DEF Fresh, Dead
<1>. QED BY <1>2, <1>3 DEF Retains, Started, SameOrders, Quiet

\* With room, and if no fork fails, all workers of a configuration start.
LEMMA StartWorkersCounts ==
    ASSUME NEW x, Sound(x), Room(x), NEW just \in BOOLEAN
    PROVE  LET y == StartWorkers(x, just, 0)
               New == {i \in Places : y.procs[i] = Child("worker", x.conf, TRUE, just)}
           IN  Cardinality(New) >= x.ccf.workers
<1>. DEFINE n == x.ccf.workers
            child == Child("worker", x.conf, TRUE, just)
            table == SpawnEach(x.procs, [k \in 1 .. n |-> child])
            Taken == {i \in Places : x.procs[i].kind = "free" /\ table[i] = child}
            New == {i \in Places : table[i] = child}
            y == StartWorkers(x, just, 0)
<1>1. x \in Master /\ n \in Nat /\ x.procs \in [Places -> Process] /\ x.conf \in Nat
  BY DEF Sound, Master, Config
<1>2. child \in Process /\ child.kind # "free"
  BY <1>1, ChildIsFresh DEF Fresh, ChildKinds
<1>. HIDE DEF child
<1>3. Cardinality(Taken) >= n
  BY <1>1, <1>2, SpawnEachCounts DEF Room
<1>4. y.procs = table
  <2>1. n - 0 = n
    BY <1>1
  <2>. HIDE DEF n, table
  <2>2. y = [x EXCEPT !.procs = table]
    BY <2>1 DEF StartWorkers, n, table, child
  <2>. QED BY <1>1, <2>2 DEF Master
<1>5. Taken \in SUBSET New /\ New \in SUBSET Places
  OBVIOUS
<1>. HIDE DEF Taken, New, n, y, table
<1>6. IsFiniteSet(New) /\ IsFiniteSet(Taken) /\ Cardinality(Taken) <= Cardinality(New)
  BY <1>5, CycleAssumption, FS_Subset
<1>7. Cardinality(New) >= n
  <2>1. Cardinality(New) \in Nat /\ Cardinality(Taken) \in Nat
    BY <1>6, FS_CardinalityType
  <2>. QED BY <1>1, <1>3, <1>6, <2>1
<1>. QED BY <1>4, <1>7 DEF New, n, y, child

\* So do the cache helpers; the crew that started is enough, and if it was marked as
\* just spawned the QUIT of a reload passes it by.
LEMMA CrewStarts ==
    ASSUME NEW x, Sound(x), Room(x), NEW just \in BOOLEAN
    PROVE  LET y == StartCacheManagers(StartWorkers(x, just, 0), just)
           IN  /\ Started(x, y)
               /\ Cardinality({i \in Places : Manned(y, i) /\ (y.procs[i].just_spawn = just)})
                     >= x.ccf.workers
<1>. DEFINE z == StartWorkers(x, just, 0)
            y == StartCacheManagers(z, just)
            child == Child("worker", x.conf, TRUE, just)
            New == {i \in Places : z.procs[i] = child}
            Old == {i \in Places : Manned(y, i) /\ (y.procs[i].just_spawn = just)}
            n == x.ccf.workers
<1>1. Started(x, z)
  BY StartWorkersStarts
<1>2. Cardinality(New) >= n
  BY StartWorkersCounts
<1>. HIDE DEF z
<1>3. Started(z, y)
  BY <1>1, StartCacheManagersStarts DEF Started
<1>. HIDE DEF y
<1>4. child.kind = "worker" /\ child.respawn /\ ~child.exiting /\ child.conf = x.conf
      /\ child.just_spawn = just
  BY DEF Child, NoProcess
<1>. HIDE DEF child
<1>5. New \in SUBSET Old
  <2>1. y.conf = x.conf
    BY <1>1, <1>3 DEF Started, SameOrders
  <2>2. ASSUME NEW i \in Places, z.procs[i] = child PROVE y.procs[i] = child
    BY <1>3, <1>4, <2>2 DEF Started
  <2>. QED BY <1>4, <2>1, <2>2 DEF Manned
<1>6. Old \in SUBSET Places
  OBVIOUS
<1>. HIDE DEF New, Old
<1>7. IsFiniteSet(Old) /\ IsFiniteSet(New) /\ Cardinality(New) <= Cardinality(Old)
  BY <1>5, <1>6, CycleAssumption, FS_Subset
<1>8. Cardinality(Old) \in Nat /\ Cardinality(New) \in Nat /\ n \in Nat
  <2>1. n \in Nat
    BY DEF Sound, Master, Config
  <2>. QED BY <1>7, <2>1, FS_CardinalityType
<1>. HIDE DEF n
<1>9. Cardinality(Old) >= n
  BY <1>2, <1>7, <1>8
<1>. QED BY <1>1, <1>3, <1>9, StartedIsTransitive DEF Old, y, z, n

LEMMA CrewIsEnough ==
    ASSUME NEW x, NEW y, x.ccf.workers \in Nat, y.ccf = x.ccf, NEW S \in SUBSET Crew(y),
           Cardinality(S) >= x.ccf.workers
    PROVE  Enough(y)
<1>1. Crew(y) \in SUBSET Places
  BY DEF Crew
<1>. HIDE DEF Crew
<1>2. IsFiniteSet(Crew(y))
  BY <1>1, CycleAssumption, FS_Subset
<1>3. IsFiniteSet(S) /\ Cardinality(S) <= Cardinality(Crew(y))
  BY <1>2, FS_Subset
<1>4. Cardinality(S) \in Nat /\ Cardinality(Crew(y)) \in Nat
  BY <1>2, <1>3, FS_CardinalityType
<1>. QED BY <1>3, <1>4 DEF Enough

\* A QUIT ends nobody at once, and is not for who was just spawned.
LEMMA QuitSpares ==
    ASSUME NEW x, Sound(x)
    PROVE  LET y == SignalWorkers(x, "quit")
           IN  \A i \in Places : LET c == x.procs[i]
                                     d == y.procs[i]
                                 IN  /\ d.kind = c.kind /\ d.conf = c.conf /\ d.respawn = c.respawn
                                     /\ d.stage = c.stage /\ d.exited = c.exited
                                     /\ c.just_spawn => d.exiting = c.exiting
<1>. DEFINE Skipped(c) == c.kind = "free" \/ Detached(c) \/ c.exiting
            Lost(c) == c.exited /\ ~c.just_spawn /\ ~Skipped(c)
            told(c) == IF c.stage \in {"init", "up", "shutting"}
                       THEN c.told \cup {"quit"} ELSE c.told
            Signalled(c) ==
                IF c.kind = "free" \/ Detached(c) THEN c
                ELSE IF c.just_spawn THEN [c EXCEPT !.just_spawn = FALSE]
                ELSE IF Skipped(c) THEN c
                ELSE IF Lost(c) THEN [c EXCEPT !.exiting = FALSE]
                ELSE [c EXCEPT !.exiting = TRUE, !.told = told(c)]
            procs == [i \in Places |-> Signalled(x.procs[i])]
            y == SignalWorkers(x, "quit")
<1>1. x \in Master /\ x.procs \in [Places -> Process]
  BY DEF Sound, Master
<1>2. ASSUME NEW c \in Process
      PROVE  LET d == Signalled(c)
             IN  /\ d.kind = c.kind /\ d.conf = c.conf /\ d.respawn = c.respawn
                 /\ d.stage = c.stage /\ d.exited = c.exited
                 /\ c.just_spawn => d.exiting = c.exiting
  BY DEF Process
<1>3. y.procs = procs
  BY <1>1 DEF SignalWorkers, Master
<1>4. \A i \in Places : y.procs[i] = Signalled(x.procs[i]) /\ x.procs[i] \in Process
  BY <1>1, <1>3
<1>. HIDE DEF Signalled, y
<1>5. \A i \in Places : LET c == x.procs[i]
                            d == y.procs[i]
                        IN  /\ d.kind = c.kind /\ d.conf = c.conf /\ d.respawn = c.respawn
                            /\ d.stage = c.stage /\ d.exited = c.exited
                            /\ c.just_spawn => d.exiting = c.exiting
  BY <1>2, <1>4
<1>. QED BY <1>5 DEF y

-----------------------------------------------------------------------------
\* While the master stays, the parts of a pass leave nobody to be reaped, and the crew is
\* enough unless somebody is owed a start.
Tended(x, y) == Sound(y) /\ Quiet(y) /\ Full(y) /\ y.ccf = x.ccf

\* Reaping puts who died back into its place, and a new binary that went leaves a
\* restart owed if the workers had been sent away for it.
LEMMA ReapChildrenMans ==
    ASSUME NEW x, Sound(x), Staying(x), Full(x), Room(x),
           \A i \in Places : Dead(x.procs[i]) => x.procs[i].exited
    PROVE  LET y == ReapChildren(x, TRUE)
           IN  Quiet(y) /\ Full(y) /\ Room(y) /\ Staying(y)
<1>. DEFINE Again(c) == c.respawn /\ ~c.exiting /\ ~x.terminate /\ ~x.quit
            anew(c) == [c EXCEPT !.conf = x.conf, !.exited = FALSE, !.stage = "init", !.told = {}]
            reaped(c) == IF ~c.exited THEN c ELSE IF ~Again(c) THEN NoProcess ELSE anew(c)
            procs == [i \in Places |-> reaped(x.procs[i])]
            back == x.new_binary \in Places /\ x.procs[x.new_binary].exited
            y == ReapChildren(x, TRUE)
<1>1. x \in Master /\ x.procs \in [Places -> Process] /\ SoundTable(x.procs)
  BY DEF Sound, Master
<1>2. ~Dead(NoProcess) /\ ~NoProcess.exited /\ NoProcess.kind = "free"
  BY DEF NoProcess, Dead
<1>3. ASSUME NEW c \in Process, Dead(c) => c.exited
      PROVE  /\ ~Dead(reaped(c)) /\ ~reaped(c).exited
             /\ c.kind = "free" /\ c = NoProcess => reaped(c).kind = "free"
             /\ c.respawn /\ ~c.exiting =>
                   /\ reaped(c).kind = c.kind /\ reaped(c).respawn /\ ~reaped(c).exiting
                   /\ reaped(c).conf \in {c.conf, x.conf}
  <2>1. CASE ~c.exited
    BY <1>3, <2>1
  <2>2. CASE c.exited /\ ~Again(c)
    BY <1>2, <2>2 DEF Staying
  <2>3. CASE c.exited /\ Again(c)
    <3>1. ~Dead(anew(c)) /\ ~anew(c).exited /\ anew(c).kind = c.kind
          /\ anew(c).respawn = c.respawn /\ anew(c).exiting = c.exiting /\ anew(c).conf = x.conf
      BY DEF Process, Dead
    <3>2. reaped(c) = anew(c)
      BY <2>3
    <3>3. c # NoProcess
      BY <1>2, <2>3
    <3>. HIDE DEF anew, reaped
    <3>. QED BY <3>1, <3>2, <3>3
  <2>. QED BY <2>1, <2>2, <2>3
<1>. DEFINE z == [x EXCEPT !.reap = FALSE, !.procs = procs,
                           !.live = \E i \in Places : LET c == procs[i] IN
                                      /\ c.kind # "free" /\ ~c.exited
                                      /\ c.exiting \/ ~Detached(c)]
<1>4. /\ y.procs = procs /\ y.ccf = x.ccf /\ y.conf = x.conf
      /\ y.terminate = x.terminate /\ y.quit = x.quit
      /\ ~y.noaccepting /\ ~y.restart => ~x.noaccepting /\ ~x.restart
  <2>. DEFINE u == [z EXCEPT !.pid = IF x.oldpid # Nobody THEN x.oldpid ELSE @,
                             !.oldpid = Nobody, !.new_binary = 0,
                             !.restart = @ \/ x.noaccepting, !.noaccepting = FALSE]
  <2>1. y = u \/ y = z
    BY DEF ReapChildren
  <2>. HIDE DEF procs
  <2>2. /\ z.procs = procs /\ z.ccf = x.ccf /\ z.conf = x.conf
        /\ z.terminate = x.terminate /\ z.quit = x.quit
        /\ z.noaccepting = x.noaccepting /\ z.restart = x.restart
    BY <1>1 DEF Master
  <2>3. /\ u.procs = procs /\ u.ccf = x.ccf /\ u.conf = x.conf
        /\ u.terminate = x.terminate /\ u.quit = x.quit
        /\ u.restart = (x.restart \/ x.noaccepting)
    BY <1>1 DEF Master
  <2>. HIDE DEF z, u, y
  <2>. QED BY <2>1, <2>2, <2>3
<1>. HIDE DEF y, reaped
<1>5. \A i \in Places : procs[i] = reaped(x.procs[i]) /\ x.procs[i] \in Process
  BY <1>1
<1>. HIDE DEF procs
<1>6. Quiet(y)
  BY <1>3, <1>4, <1>5 DEF Quiet
<1>7. Retains(x, y)
  BY <1>3, <1>4, <1>5 DEF Retains, Manned
<1>8. Full(y)
  BY <1>1, <1>4, <1>7, RetainedIsEnough DEF Full, Steady
<1>9. Room(y)
  <2>. DEFINE F == {i \in Places : x.procs[i].kind = "free"}
              G == {i \in Places : y.procs[i].kind = "free"}
  <2>1. F \in SUBSET G /\ G \in SUBSET Places
    BY <1>1, <1>3, <1>4, <1>5 DEF SoundTable
  <2>. HIDE DEF F, G
  <2>2. IsFiniteSet(G) /\ IsFiniteSet(F) /\ Cardinality(F) <= Cardinality(G)
    BY <2>1, CycleAssumption, FS_Subset
  <2>3. Cardinality(F) \in Nat /\ Cardinality(G) \in Nat /\ x.ccf.workers \in Nat
    <3>1. x.ccf.workers \in Nat
      BY <1>1 DEF Master, Config
    <3>. QED BY <2>2, <3>1, FS_CardinalityType
  <2>4. Cardinality(F) >= x.ccf.workers
    BY DEF Room, F
  <2>5. Cardinality(G) >= y.ccf.workers
    BY <1>4, <2>2, <2>3, <2>4
  <2>. QED BY <2>5 DEF Room, G
<1>. QED BY <1>4, <1>6, <1>8, <1>9 DEF y, Staying

LEMMA SuspendKeepsCrew ==
    ASSUME NEW x, Sound(x), Quiet(x), Full(x)
    PROVE  Tended(x, Suspend(x))
<1>1. Sound(Suspend(x)) /\ SameOrders(x, Suspend(x)) /\ Suspend(x).procs = x.procs
  BY SuspendKeeps
<1>2. Retains(x, Suspend(x))
  BY <1>1 DEF Retains, SameOrders, Manned
<1>3. x \in Master
  BY DEF Sound
<1>. QED BY <1>1, <1>2, <1>3, RetainedIsEnough DEF Tended, Quiet, Full, Steady, Staying, SameOrders

\* A reload starts its crew before it sends the others away.
LEMMA ReconfiguredMans ==
    ASSUME NEW x, NEW fault, fault # "fork", Sound(x), Quiet(x), Full(x), Room(x)
    PROVE  LET y == Reconfigured(x, fault)
           IN  Tended(x, y) /\ (y = x \/ Enough(y))
<1>. DEFINE y == [x EXCEPT !.reconfigure = FALSE, !.conf = @ + 1, !.live = TRUE]
            u == StartCacheManagers(StartWorkers(y, TRUE, 0), TRUE)
            v == SignalWorkers(u, "quit")
            New == {i \in Places : Manned(u, i) /\ (u.procs[i].just_spawn = TRUE)}
<1>1. Reconfigured(x, fault) = IF x.reconfigure THEN v ELSE x
  BY DEF Reconfigured
<1>2. x \in Master
  BY DEF Sound
<1>3. y \in Master /\ y.procs = x.procs /\ y.ccf = x.ccf
  <2>1. x.conf + 1 \in Nat
    BY <1>2 DEF Master
  <2>. QED BY <1>2, <2>1 DEF Master
<1>. HIDE DEF y
<1>4. Sound(y) /\ Room(y) /\ Quiet(y)
  BY <1>3, SameTable DEF Room, Quiet
<1>5. Started(y, u) /\ Cardinality(New) >= y.ccf.workers
  BY <1>4, CrewStarts
<1>. HIDE DEF u
<1>6. Sound(u) /\ Quiet(u) /\ u.ccf = x.ccf
  BY <1>3, <1>4, <1>5, StartedRetains DEF Started, SameOrders
<1>7. Sound(v) /\ SameOrders(u, v)
  BY <1>6, SignalWorkersKeeps DEF Commands
<1>8. \A i \in Places : LET c == u.procs[i]
                            d == v.procs[i]
                        IN  /\ d.kind = c.kind /\ d.conf = c.conf /\ d.respawn = c.respawn
                            /\ d.stage = c.stage /\ d.exited = c.exited
                            /\ c.just_spawn => d.exiting = c.exiting
  BY <1>6, QuitSpares
<1>. HIDE DEF v
<1>9. New \in SUBSET Crew(v)
  BY <1>7, <1>8 DEF Crew, Manned, SameOrders
<1>10. Quiet(v)
  BY <1>6, <1>8 DEF Quiet, Dead
<1>. HIDE DEF New
<1>11. v.ccf.workers \in Nat /\ v.ccf = x.ccf
  BY <1>6, <1>7 DEF Sound, Master, Config, SameOrders
<1>12. Enough(v)
  BY <1>3, <1>5, <1>9, <1>11, CrewIsEnough
<1>13. Tended(x, v)
  BY <1>7, <1>10, <1>11, <1>12 DEF Tended, Full
<1>14. Tended(x, x)
  BY DEF Tended
<1>. QED BY <1>1, <1>12, <1>13, <1>14

LEMMA RestartedMans ==
    ASSUME NEW x, NEW fault, fault # "fork", Sound(x), Quiet(x), Full(x), Room(x) \/ Enough(x)
    PROVE  Tended(x, Restarted(x, fault))
<1>. DEFINE y == [x EXCEPT !.restart = FALSE, !.live = TRUE]
            z == StartWorkers(y, FALSE, 0)
            u == StartCacheManagers(z, FALSE)
            New == {i \in Places : Manned(u, i) /\ (u.procs[i].just_spawn = FALSE)}
<1>1. Restarted(x, fault) = IF x.restart THEN u ELSE x
  BY DEF Restarted
<1>2. x \in Master
  BY DEF Sound
<1>3. y \in Master /\ y.procs = x.procs /\ y.ccf = x.ccf /\ y.conf = x.conf
  BY <1>2 DEF Master
<1>. HIDE DEF y
<1>4. Sound(y) /\ Quiet(y)
  BY <1>3, SameTable DEF Quiet
<1>5. Started(y, u)
  <2>1. Started(y, z)
    BY <1>4, StartWorkersStarts
  <2>. HIDE DEF z
  <2>2. Started(z, u)
    BY <2>1, StartCacheManagersStarts DEF Started
  <2>. HIDE DEF u
  <2>. QED BY <2>1, <2>2, StartedIsTransitive
<1>6. Enough(u)
  <2>1. CASE Room(x)
    <3>1. Room(y)
      BY <1>3, <2>1 DEF Room
    <3>2. Cardinality(New) >= y.ccf.workers
      BY <1>4, <3>1, CrewStarts
    <3>. HIDE DEF u
    <3>3. New \in SUBSET Crew(u)
      BY DEF Crew
    <3>4. y.ccf.workers \in Nat /\ u.ccf = y.ccf
      BY <1>3, <1>5 DEF Master, Config, Started, SameOrders
    <3>. HIDE DEF New
    <3>. QED BY <3>2, <3>3, <3>4, CrewIsEnough
  <2>2. CASE Enough(x)
    <3>. HIDE DEF u
    <3>1. Retains(x, y)
      BY <1>3 DEF Retains, Manned
    <3>2. Enough(y)
      BY <1>2, <2>2, <3>1, RetainedIsEnough
    <3>. QED BY <1>3, <1>4, <1>5, <3>2, StartedRetains, RetainedIsEnough
  <2>. QED BY <2>1, <2>2
<1>. HIDE DEF u
<1>7. Sound(u) /\ Quiet(u) /\ u.ccf = x.ccf
  BY <1>3, <1>4, <1>5, StartedRetains DEF Started, SameOrders
<1>. QED BY <1>1, <1>6, <1>7 DEF Tended, Full

LEMMA BinaryChangedMans ==
    ASSUME NEW x, NEW fault, Sound(x), Quiet(x), Full(x), Sound(BinaryChanged(x, fault))
    PROVE  Tended(x, BinaryChanged(x, fault))
<1>. DEFINE child == Child("binary", 0, FALSE, FALSE)
            procs == Spawn(x.procs, child)
            y == [x EXCEPT !.change_binary = FALSE]
            lost == [y EXCEPT !.new_binary = Invalid]
            new_binary == CHOOSE i \in Places : procs[i] # x.procs[i]
            z == [y EXCEPT !.procs = procs, !.new_binary = new_binary,
                           !.oldpid = x.pid, !.pid = Nobody]
            u == BinaryChanged(x, fault)
<1>1. x \in Master /\ x.procs \in [Places -> Process]
  BY DEF Sound, Master
<1>2. child \in Process /\ child.kind = "binary" /\ child.stage = "init" /\ ~child.exited
  BY DEF Child, NoProcess, Process, Stages
<1>3. y.procs = x.procs /\ y.pid = x.pid
  BY <1>1 DEF Master
<1>4. u = x \/ u = lost \/ u = z
  BY <1>3 DEF BinaryChanged, ExecNewBinary
<1>. HIDE DEF child, u
<1>5. \A i \in Places : \/ procs[i] = x.procs[i]
                        \/ x.procs[i].kind = "free" /\ procs[i] = child
  BY <1>1, <1>2, SpawnFills
<1>. HIDE DEF procs, new_binary
<1>6. SameOrders(x, u) /\ (u.procs = x.procs \/ u.procs = procs)
  <2>1. SameOrders(x, x)
    BY DEF SameOrders
  <2>2. SameOrders(x, lost) /\ lost.procs = x.procs
    BY <1>1 DEF Master, SameOrders
  <2>3. SameOrders(x, z) /\ z.procs = procs
    BY <1>1 DEF Master, SameOrders
  <2>. HIDE DEF y, lost, z
  <2>. QED BY <1>4, <2>1, <2>2, <2>3
<1>7. \A i \in Places : \/ u.procs[i] = x.procs[i]
                        \/ x.procs[i].kind = "free" /\ u.procs[i] = child
  BY <1>5, <1>6
<1>8. Quiet(u)
  BY <1>2, <1>7 DEF Quiet, Dead
<1>9. Retains(x, u)
  BY <1>6, <1>7 DEF Retains, Manned, SameOrders
<1>10. Full(u)
  BY <1>1, <1>6, <1>9, RetainedIsEnough DEF Full, Steady, Staying, SameOrders
<1>. QED BY <1>6, <1>8, <1>10 DEF Tended, u, SameOrders

LEMMA AcceptingStoppedMans ==
    ASSUME NEW x, Sound(x), Quiet(x), Full(x)
    PROVE  Tended(x, AcceptingStopped(x))
<1>. DEFINE y == [x EXCEPT !.noaccept = FALSE, !.noaccepting = TRUE]
            z == SignalWorkers(y, "quit")
<1>1. y \in Master /\ y.procs = x.procs /\ y.ccf = x.ccf /\ y.noaccepting
  BY DEF Sound, Master
<1>2. AcceptingStopped(x) = IF x.noaccept THEN z ELSE x
  BY DEF AcceptingStopped
<1>. HIDE DEF y
<1>3. Sound(y)
  BY <1>1, SameTable
<1>4. Sound(z) /\ SameOrders(y, z)
  BY <1>3, SignalWorkersKeeps DEF Commands
<1>5. \A i \in Places : z.procs[i].stage = y.procs[i].stage /\ z.procs[i].exited = y.procs[i].exited
  BY <1>3, QuitSpares
<1>. HIDE DEF z
<1>6. Quiet(z) /\ ~Steady(z)
  BY <1>1, <1>4, <1>5 DEF Quiet, Dead, Steady, SameOrders
<1>7. Tended(x, z)
  BY <1>1, <1>4, <1>6 DEF Tended, Full, SameOrders
<1>8. Tended(x, x)
  BY DEF Tended
<1>. QED BY <1>2, <1>7, <1>8

LEMMA WorkersAgainMans ==
    ASSUME NEW x, NEW fault, fault # "fork", Sound(x), Quiet(x), Room(x), WorkersAgain(x, fault)
    PROVE  Tended(x, master')
<1>. DEFINE z == StartCacheManagers(StartWorkers(x, FALSE, 0), FALSE)
            u == [z EXCEPT !.reconfigure = FALSE, !.noaccepting = FALSE]
            New == {i \in Places : Manned(z, i) /\ (z.procs[i].just_spawn = FALSE)}
<1>1. master' = Suspend(u)
  BY DEF WorkersAgain
<1>2. Started(x, z) /\ Cardinality(New) >= x.ccf.workers
  BY CrewStarts
<1>. HIDE DEF z
<1>3. Sound(z) /\ Quiet(z) /\ z.ccf = x.ccf
  BY <1>2, StartedRetains DEF Started, SameOrders
<1>4. u \in Master /\ u.procs = z.procs /\ u.ccf = z.ccf /\ u.conf = z.conf
  BY <1>3 DEF Sound, Master
<1>. HIDE DEF u
<1>5. New \in SUBSET Crew(u)
  BY <1>4 DEF Crew, Manned
<1>6. Sound(u) /\ Quiet(u) /\ u.ccf = x.ccf /\ u.ccf.workers \in Nat
  BY <1>3, <1>4, SameTable DEF Quiet, Master, Config
<1>. HIDE DEF New
<1>7. Enough(u)
  BY <1>2, <1>5, <1>6, CrewIsEnough
<1>. QED BY <1>1, <1>6, <1>7, SuspendKeepsCrew DEF Full, Tended

LEMMA ReloadFailsMans ==
    ASSUME NEW x, NEW fault, Sound(x), Quiet(x), Full(x), ReloadFails(x, fault)
    PROVE  Tended(x, master')
<1>. DEFINE y == [x EXCEPT !.reconfigure = FALSE]
<1>1. master' = Suspend(y)
  BY DEF ReloadFails
<1>2. x \in Master
  BY DEF Sound
<1>3. y \in Master /\ y.procs = x.procs /\ SameOrders(x, y)
  BY <1>2 DEF Master, SameOrders
<1>. HIDE DEF y
<1>4. Sound(y) /\ Quiet(y) /\ Retains(x, y)
  BY <1>3, SameTable DEF Quiet, Retains, Manned, SameOrders
<1>5. Full(y)
  BY <1>2, <1>3, <1>4, RetainedIsEnough DEF Full, Steady, Staying, SameOrders
<1>6. Tended(y, Suspend(y))
  BY <1>4, <1>5, SuspendKeepsCrew
<1>. QED BY <1>1, <1>3, <1>6 DEF Tended, SameOrders

LEMMA CarryOnMans ==
    ASSUME NEW x, NEW fault, fault # "fork", Sound(x), ~x.gone, Quiet(x), Full(x), Room(x),
           CarryOn(x, fault)
    PROVE  Tended(x, master')
<1>. DEFINE a == Reconfigured(x, fault)
            b == Restarted(a, fault)
            c == BinaryChanged(b, fault)
            d == AcceptingStopped(c)
<1>1. master' = Suspend(d)
  BY DEF CarryOn
<1>2. Tended(x, a) /\ (a = x \/ Enough(a))
  BY ReconfiguredMans
<1>3. Room(a) \/ Enough(a)
  BY <1>2
<1>. HIDE DEF a
<1>4. Tended(a, b)
  BY <1>2, <1>3, RestartedMans DEF Tended
<1>. HIDE DEF b
<1>5. Sound(c)
  <2>. DEFINE asked == [b EXCEPT !.change_binary = FALSE]
  <2>1. c = IF b.change_binary THEN ExecNewBinary(asked, fault # "exec") ELSE b
    BY DEF BinaryChanged
  <2>2. asked \in Master /\ asked.procs = b.procs
    BY <1>4 DEF Tended, Sound, Master
  <2>3. (fault # "exec") \in BOOLEAN
    OBVIOUS
  <2>. HIDE DEF asked, c
  <2>4. Sound(asked)
    BY <1>4, <2>2, SameTable DEF Tended
  <2>. QED BY <1>4, <2>1, <2>3, <2>4, ExecNewBinaryTells DEF Tended
<1>6. Tended(b, c)
  BY <1>4, <1>5, BinaryChangedMans DEF Tended
<1>. HIDE DEF c
<1>7. Tended(c, d)
  BY <1>6, AcceptingStoppedMans DEF Tended
<1>. HIDE DEF d
<1>8. Tended(d, Suspend(d))
  BY <1>7, SuspendKeepsCrew DEF Tended
<1>. QED BY <1>1, <1>2, <1>4, <1>6, <1>7, <1>8 DEF Tended

\* A master that is to end, ends: no pass takes the order back.
LEMMA EndingIsKept ==
    ASSUME NEW x, Sound(x), ~Staying(x), Leave(x) \/ Terminating(x) \/ Quitting(x)
    PROVE  ~Staying(master')
<1>1. x \in Master
  BY DEF Sound
<1>2. CASE Leave(x)
  <2>1. master'.terminate = x.terminate /\ master'.quit = x.quit
    BY <1>1, <1>2 DEF Leave, MasterProcessExit, DeletePidFile, Master
  <2>. QED BY <2>1 DEF Staying
<1>3. CASE Quitting(x)
  <2>. DEFINE y == SignalWorkers(x, "quit")
  <2>1. master' = Suspend(y)
    BY <1>3 DEF Quitting
  <2>2. Sound(y) /\ SameOrders(x, y)
    BY SignalWorkersKeeps DEF Commands
  <2>. HIDE DEF y
  <2>3. SameOrders(y, Suspend(y))
    BY <2>2, SuspendKeeps
  <2>. QED BY <2>1, <2>2, <2>3 DEF SameOrders, Staying
<1>4. CASE Terminating(x)
  <2>. DEFINE delay == IF x.delay = 0 THEN FirstDelay ELSE x.delay
              y == [x EXCEPT !.delay = delay]
              z == [y EXCEPT !.sigio = y.ccf.workers + 2]
              less == [y EXCEPT !.sigio = @ - 1]
              sig == IF y.delay > 1000 THEN "kill" ELSE "term"
              after == IF y.sigio > 0 THEN less ELSE SignalWorkers(z, sig)
  <2>1. master' = Suspend(after)
    BY <1>4 DEF Terminating
  <2>2. delay \in Nat
    BY <1>1, CycleAssumption DEF Master
  <2>. HIDE DEF delay
  <2>3. y \in Master /\ y.procs = x.procs /\ y.terminate = x.terminate /\ y.quit = x.quit
    BY <1>1, <2>2 DEF Master
  <2>. HIDE DEF y
  <2>4. y.ccf.workers + 2 \in Nat /\ y.sigio \in Nat
    BY <2>3 DEF Master, Config
  <2>5. z \in Master /\ z.procs = x.procs /\ z.terminate = x.terminate /\ z.quit = x.quit
    BY <2>3, <2>4 DEF Master
  <2>6. ASSUME y.sigio > 0
        PROVE  less \in Master /\ less.procs = x.procs /\ less.terminate = x.terminate
               /\ less.quit = x.quit
    <3>1. y.sigio - 1 \in Nat
      BY <2>4, <2>6
    <3>. QED BY <2>3, <3>1 DEF Master
  <2>7. sig \in Commands
    BY DEF Commands
  <2>. HIDE DEF z, less, sig
  <2>8. Sound(z) /\ (y.sigio > 0 => Sound(less))
    BY <2>5, <2>6, SameTable
  <2>9. Sound(SignalWorkers(z, sig)) /\ SameOrders(z, SignalWorkers(z, sig))
    BY <2>7, <2>8, SignalWorkersKeeps
  <2>10. Sound(after) /\ after.terminate = x.terminate /\ after.quit = x.quit
    BY <2>5, <2>6, <2>8, <2>9 DEF SameOrders
  <2>. HIDE DEF after
  <2>11. SameOrders(after, Suspend(after))
    BY <2>10, SuspendKeeps
  <2>. QED BY <2>1, <2>10, <2>11 DEF SameOrders, Staying
<1>. QED BY <1>2, <1>3, <1>4

\* A handler sets flags, and takes back no order to end; only that of SIGCHLD looks at
\* the table.
Heeds(x, y) ==
    /\ y.procs = x.procs /\ y.reap = x.reap /\ y.ccf = x.ccf /\ y.conf = x.conf
    /\ y.noaccepting = x.noaccepting /\ y.restart = x.restart
    /\ x.terminate => y.terminate
    /\ x.quit => y.quit

LEMMA FlagsHeed ==
    ASSUME NEW x, x \in Master, NEW flag \in BOOLEAN
    PROVE  /\ Heeds(x, x)
           /\ Heeds(x, [x EXCEPT !.reconfigure = flag])
           /\ Heeds(x, [x EXCEPT !.terminate = TRUE])
           /\ Heeds(x, [x EXCEPT !.quit = TRUE])
           /\ Heeds(x, [x EXCEPT !.noaccept = flag])
           /\ Heeds(x, [x EXCEPT !.change_binary = flag])
           /\ Heeds(x, [x EXCEPT !.sigalrm = flag])
           /\ Heeds(x, [x EXCEPT !.armed = flag])
BY DEF Master, Heeds

LEMMA TimersHeed ==
    ASSUME NEW x, x \in Master, NEW handler
    PROVE  /\ Heeds(x, [[x EXCEPT !.change_binary = TRUE]
                          EXCEPT !.handler = handler, !.armed = TRUE])
           /\ Heeds(x, [[x EXCEPT !.noaccept = TRUE]
                          EXCEPT !.handler = handler, !.armed = TRUE])
BY DEF Master, Heeds

LEMMA HandledHeeds ==
    ASSUME master \in Master, NEW sig \in Signals, sig # "chld"
    PROVE  Heeds(master, Handled(sig))
<1>1. CASE sig \in User1
  <2>1. \/ Handled(sig) = [master EXCEPT !.reconfigure = TRUE]
        \/ Handled(sig) = master
        \/ Handled(sig) = [[master EXCEPT !.change_binary = TRUE]
                              EXCEPT !.handler = "change_binary", !.armed = TRUE]
    BY <1>1 DEF Handled, User1, SigUser1, AddTimer
  <2>2. /\ Heeds(master, master)
        /\ Heeds(master, [master EXCEPT !.reconfigure = TRUE])
    BY FlagsHeed
  <2>3. Heeds(master, [[master EXCEPT !.change_binary = TRUE]
                          EXCEPT !.handler = "change_binary", !.armed = TRUE])
    BY TimersHeed
  <2>. QED BY <2>1, <2>2, <2>3
<1>2. CASE sig = "alrm" /\ master.handler = "change_binary"
  <2>1. \/ Handled(sig) = master
        \/ Handled(sig) = [[master EXCEPT !.noaccept = TRUE]
                              EXCEPT !.handler = "noaccept", !.armed = TRUE]
    BY <1>2 DEF Handled, User1, OnChangeBinary, AddTimer
  <2>2. Heeds(master, master)
    BY FlagsHeed
  <2>3. Heeds(master, [[master EXCEPT !.noaccept = TRUE]
                          EXCEPT !.handler = "noaccept", !.armed = TRUE])
    BY TimersHeed
  <2>. QED BY <2>1, <2>2, <2>3
<1>3. CASE sig = "alrm" /\ master.handler = "noaccept"
  <2>1. Handled(sig) = [master EXCEPT !.terminate = TRUE]
    BY <1>3 DEF Handled, User1, OnNoAccept
  <2>. QED BY <2>1, FlagsHeed
<1>4. CASE sig \notin User1 /\ ~(sig = "alrm" /\ master.handler = "change_binary")
           /\ ~(sig = "alrm" /\ master.handler = "noaccept")
  <2>. DEFINE change_binary == master.change_binary \/ master.new_binary <= 0
  <2>1. Handled(sig) = SignalHandler(master, sig)
    BY <1>4 DEF Handled
  <2>2. sig \in {"hup", "term", "quit", "winch", "usr2", "alrm"}
    BY <1>4 DEF Signals, Stock
  <2>3. \/ SignalHandler(master, sig) = [master EXCEPT !.reconfigure = TRUE]
        \/ SignalHandler(master, sig) = [master EXCEPT !.terminate = TRUE]
        \/ SignalHandler(master, sig) = [master EXCEPT !.quit = TRUE]
        \/ SignalHandler(master, sig) = [master EXCEPT !.noaccept = TRUE]
        \/ SignalHandler(master, sig) = [master EXCEPT !.sigalrm = TRUE]
        \/ SignalHandler(master, sig) = [master EXCEPT !.change_binary = change_binary]
    BY <2>2 DEF SignalHandler
  <2>4. change_binary \in BOOLEAN
    OBVIOUS
  <2>. HIDE DEF change_binary
  <2>5. /\ Heeds(master, [master EXCEPT !.reconfigure = TRUE])
        /\ Heeds(master, [master EXCEPT !.terminate = TRUE])
        /\ Heeds(master, [master EXCEPT !.quit = TRUE])
        /\ Heeds(master, [master EXCEPT !.noaccept = TRUE])
        /\ Heeds(master, [master EXCEPT !.sigalrm = TRUE])
    BY FlagsHeed
  <2>6. Heeds(master, [master EXCEPT !.change_binary = change_binary])
    BY <2>4, FlagsHeed
  <2>. QED BY <2>1, <2>3, <2>5, <2>6
<1>. QED BY <1>1, <1>2, <1>3, <1>4

\* Whoever died and is not in need of a second chance is noted as exited.
LEMMA ProcessGetStatusNotes ==
    ASSUME NEW x, Sound(x), \A i \in Places : x.procs[i].stage # "fatal"
    PROVE  LET y == ProcessGetStatus(x)
           IN  /\ SameOrders(x, y) /\ y.reap
               /\ \A i \in Places :
                     LET c == x.procs[i]
                         d == y.procs[i]
                     IN  /\ d.kind = c.kind /\ d.conf = c.conf /\ d.respawn = c.respawn
                         /\ d.exiting = c.exiting /\ d.stage = c.stage
                         /\ Dead(d) => d.exited
<1>. DEFINE noted(c) == [c EXCEPT !.exited = TRUE, !.respawn = @ /\ c.stage # "fatal"]
            looked(c) == IF ~Dead(c) \/ c.exited THEN c ELSE noted(c)
            procs == [i \in Places |-> looked(x.procs[i])]
            y == [x EXCEPT !.reap = TRUE, !.procs = procs]
<1>1. x \in Master /\ x.procs \in [Places -> Process]
  BY DEF Sound, Master
<1>2. ASSUME NEW c \in Process, c.stage # "fatal"
      PROVE  /\ looked(c).kind = c.kind /\ looked(c).conf = c.conf
             /\ looked(c).respawn = c.respawn /\ looked(c).exiting = c.exiting
             /\ looked(c).stage = c.stage
             /\ Dead(looked(c)) => looked(c).exited
  <2>1. CASE ~Dead(c) \/ c.exited
    BY <2>1
  <2>2. CASE ~(~Dead(c) \/ c.exited)
    <3>1. (c.respawn /\ c.stage # "fatal") = c.respawn
      BY <1>2 DEF Process
    <3>2. looked(c) = [c EXCEPT !.exited = TRUE, !.respawn = c.respawn]
      BY <2>2, <3>1
    <3>. HIDE DEF looked
    <3>. QED BY <3>2 DEF Process
  <2>. QED BY <2>1, <2>2
<1>3. ProcessGetStatus(x) = y
  BY DEF ProcessGetStatus
<1>. HIDE DEF looked
<1>4. \A i \in Places : procs[i] = looked(x.procs[i]) /\ x.procs[i] \in Process
  BY <1>1
<1>. HIDE DEF procs
<1>5. y.procs = procs /\ y.reap /\ SameOrders(x, y)
  BY <1>1 DEF Master, SameOrders
<1>. HIDE DEF y
<1>. QED BY <1>2, <1>3, <1>4, <1>5

LEMMA ReapChildrenObeys ==
    ASSUME NEW x, Sound(x), NEW forks \in BOOLEAN
    PROVE  Staying(ReapChildren(x, forks)) = Staying(x)
<1>. DEFINE y == ReapChildren(x, forks)
<1>1. y.terminate = x.terminate /\ y.quit = x.quit
  BY DEF ReapChildren, Sound, Master
<1>. QED BY <1>1 DEF Staying

-----------------------------------------------------------------------------
RoomLeft == Room(master)

Hopeless == {"fatal", "fork", "respawn"}

\* While the master stays and nothing hopeless happened: the crew is enough or a start is
\* owed; whoever died is waited for, and who was waited for will be reaped.
CrewInv ==
    Staying(master) /\ hist.ill \cap Hopeless = {} =>
        /\ Full(master)
        /\ \A i \in Places :
              LET c == master.procs[i]
              IN  /\ c.stage # "fatal"
                  /\ Dead(c) => c.exited \/ "chld" \in pending
                  /\ c.exited => master.reap

\* Steps that leave each place to whoever has it, and keep SIGCHLD until it is handled.
LEMMA CrewStays ==
    ASSUME CycleInv, CrewInv, Staying(master') => Staying(master),
           master'.ccf = master.ccf, master'.conf = master.conf,
           master'.noaccepting = master.noaccepting, master'.restart = master.restart,
           master'.reap = master.reap,
           "chld" \in pending => "chld" \in pending',
           hist.ill \subseteq hist'.ill,
           \A j \in Places :
              LET c == master.procs[j]
                  d == master'.procs[j]
              IN  /\ d.kind = c.kind /\ d.conf = c.conf /\ d.respawn = c.respawn
                  /\ d.exiting = c.exiting /\ d.exited = c.exited
                  /\ \/ d.stage = c.stage
                     \/ d.stage # "fatal" /\ (d.stage = "dead" => "chld" \in pending')
    PROVE  CrewInv'
<1>. SUFFICES ASSUME Staying(master'), hist'.ill \cap Hopeless = {} PROVE CrewInv'
  BY DEF CrewInv
<1>1. Staying(master) /\ hist.ill \cap Hopeless = {}
  OBVIOUS
<1>2. master \in Master
  BY DEF CycleInv, Sound
<1>3. Retains(master, master')
  BY DEF Retains, Manned
<1>4. Full(master)
  BY <1>1 DEF CrewInv
<1>5. Full(master')
  BY <1>2, <1>3, <1>4, RetainedIsEnough DEF Full, Steady
<1>6. \A i \in Places :
         LET c == master'.procs[i]
         IN  /\ c.stage # "fatal"
             /\ Dead(c) => c.exited \/ "chld" \in pending'
             /\ c.exited => master'.reap
  BY <1>1 DEF CrewInv, Dead
<1>. QED BY <1>5, <1>6 DEF CrewInv

LEMMA CrewInitInv ==
    ASSUME CycleInit, CycleInv, RoomLeft PROVE CrewInv
<1>1. PICK c \in Cases : master = MasterProcessCycle([workers |-> c.workers,
                                      manager |-> c.manager, loader |-> c.loader])
  BY DEF CycleInit
<1>. DEFINE ccf == [workers |-> c.workers, manager |-> c.manager, loader |-> c.loader]
            x == Main(ccf)
            F == {i \in Places : master.procs[i].kind = "free"}
            New == {i \in Places : Manned(master, i) /\ (master.procs[i].just_spawn = FALSE)}
<1>2. ccf \in Config
  BY CycleAssumption DEF Config
<1>3. master = StartCacheManagers(StartWorkers(x, FALSE, 0), FALSE)
  BY <1>1 DEF MasterProcessCycle
<1>. HIDE DEF ccf
<1>4. NoProcess \in Process
  BY DEF NoProcess, Process, Stages
<1>. DEFINE empty == [i \in Places |-> NoProcess]
<1>5. empty \in [Places -> Process] /\ \A i \in Places : empty[i] = NoProcess
  BY <1>4
<1>6. x.procs = empty /\ x.ccf = ccf
  BY DEF Main
<1>. HIDE DEF empty
<1>7. x \in Master
  BY <1>2, <1>5, <1>6 DEF Main, Master, Pid, empty
<1>. HIDE DEF x
<1>8. Sound(x)
  BY <1>5, <1>6, <1>7 DEF Sound, SoundTable, NoProcess, Alive, Detached
<1>9. master.ccf = x.ccf
  <2>1. Started(x, StartWorkers(x, FALSE, 0))
    BY <1>8, StartWorkersStarts
  <2>2. Started(StartWorkers(x, FALSE, 0), master)
    BY <1>3, <2>1, StartCacheManagersStarts DEF Started
  <2>. QED BY <2>1, <2>2 DEF Started, SameOrders
<1>10. Room(x)
  <2>1. F \in SUBSET {i \in Places : x.procs[i].kind = "free"}
    BY <1>5, <1>6 DEF NoProcess
  <2>. DEFINE G == {i \in Places : x.procs[i].kind = "free"}
  <2>2. G \in SUBSET Places
    OBVIOUS
  <2>3. Cardinality(F) >= x.ccf.workers
    BY <1>9 DEF RoomLeft, Room
  <2>. HIDE DEF F, G
  <2>4. F \in SUBSET G
    BY <2>1 DEF G
  <2>5. IsFiniteSet(G) /\ IsFiniteSet(F) /\ Cardinality(F) <= Cardinality(G)
    BY <2>2, <2>4, CycleAssumption, FS_Subset
  <2>6. Cardinality(F) \in Nat /\ Cardinality(G) \in Nat /\ x.ccf.workers \in Nat
    <3>1. x.ccf.workers \in Nat
      BY <1>7 DEF Master, Config
    <3>. QED BY <2>5, <3>1, FS_CardinalityType
  <2>7. Cardinality(G) >= x.ccf.workers
    BY <2>3, <2>5, <2>6
  <2>. QED BY <2>7 DEF Room, G
<1>11. Started(x, master) /\ Cardinality(New) >= x.ccf.workers
  BY <1>3, <1>8, <1>10, CrewStarts
<1>12. Quiet(x)
  BY <1>5, <1>6 DEF Quiet, NoProcess, Dead
<1>13. Quiet(master)
  BY <1>8, <1>11, <1>12, StartedRetains
<1>14. Enough(master)
  <2>1. New \in SUBSET Crew(master)
    BY DEF Crew
  <2>2. x.ccf.workers \in Nat
    BY <1>7 DEF Master, Config
  <2>. HIDE DEF New
  <2>. QED BY <1>9, <1>11, <2>1, <2>2, CrewIsEnough
<1>. QED BY <1>13, <1>14 DEF CrewInv, Full, Quiet, Dead

LEMMA WakeKeepsCrew ==
    ASSUME CycleInv, CrewInv, RoomLeft, Wake PROVE CrewInv'
<1>. SUFFICES ASSUME Staying(master'), hist'.ill \cap Hopeless = {} PROVE CrewInv'
  BY DEF CrewInv
<1>. DEFINE Before(fault) == IF master.reap THEN ReapChildren(master, fault # "respawn")
                             ELSE master
            Branch(x, fault) == \/ Leave(x)
                                \/ Terminating(x)
                                \/ Quitting(x)
                                \/ WorkersAgain(x, fault)
                                \/ ReloadFails(x, fault)
                                \/ CarryOn(x, fault)
            Noted(x, fault) ==
                hist' = [hist EXCEPT
                          !.left = IF fault = "none" THEN @ ELSE @ - 1,
                          !.ill = @ \cup ({fault} \ {"none"}),
                          !.again = @ \/ (Staying(x) /\ x.reconfigure /\ x.new_binary # 0),
                          !.twice = @ \/ (Staying(x) /\ x.change_binary /\ x.new_binary # 0)]
<1>1. PICK fault \in Faults : \E x \in {Before(fault)} : Branch(x, fault) /\ Noted(x, fault)
  BY DEF Wake
<1>2. PICK x \in {Before(fault)} : Branch(x, fault) /\ Noted(x, fault)
  BY <1>1
<1>3. x = IF master.reap THEN ReapChildren(master, fault # "respawn") ELSE master
  BY <1>2
<1>4. hist.ill \subseteq hist'.ill /\ fault \notin {"fork", "respawn"}
  <2>. DEFINE again == hist.again \/ (Staying(x) /\ x.reconfigure /\ x.new_binary # 0)
              twice == hist.twice \/ (Staying(x) /\ x.change_binary /\ x.new_binary # 0)
              left == IF fault = "none" THEN hist.left ELSE hist.left - 1
  <2>1. hist' = [hist EXCEPT !.left = left, !.ill = @ \cup ({fault} \ {"none"}),
                             !.again = again, !.twice = twice]
    BY <1>2
  <2>. HIDE DEF again, twice, left
  <2>2. hist'.ill = hist.ill \cup ({fault} \ {"none"})
    BY <2>1 DEF CycleInv
  <2>. QED BY <2>2 DEF Hopeless
<1>5. Sound(master) /\ ~master.gone /\ pending = {}
  BY DEF CycleInv, Wake
<1>6. Sound(x) /\ ~x.gone
  BY <1>3, <1>4, <1>5, ReapChildrenTells
<1>7. CASE ~Staying(x)
  <2>1. Leave(x) \/ Terminating(x) \/ Quitting(x)
    BY <1>2, <1>7 DEF WorkersAgain, ReloadFails, CarryOn
  <2>. QED BY <1>6, <1>7, <2>1, EndingIsKept
<1>8. CASE Staying(x)
  <2>1. Staying(master)
    <3>1. (fault # "respawn") \in BOOLEAN
      OBVIOUS
    <3>. QED BY <1>3, <1>5, <1>8, <3>1, ReapChildrenObeys
  <2>2. /\ Full(master)
        /\ \A i \in Places : /\ Dead(master.procs[i]) => master.procs[i].exited
                             /\ master.procs[i].exited => master.reap
    BY <1>4, <1>5, <2>1 DEF CrewInv
  <2>3. Quiet(x) /\ Full(x) /\ Room(x)
    <3>1. CASE master.reap
      <4>1. x = ReapChildren(master, TRUE)
        BY <1>3, <1>4, <3>1
      <4>. QED BY <1>5, <2>1, <2>2, <4>1, ReapChildrenMans DEF RoomLeft
    <3>2. CASE ~master.reap
      BY <1>3, <2>2, <3>2 DEF RoomLeft, Quiet
    <3>. QED BY <3>1, <3>2
  <2>4. WorkersAgain(x, fault) \/ ReloadFails(x, fault) \/ CarryOn(x, fault)
    BY <1>2, <1>8 DEF Leave, Terminating, Quitting, Staying
  <2>5. Tended(x, master')
    BY <1>4, <1>6, <2>3, <2>4, WorkersAgainMans, ReloadFailsMans, CarryOnMans
  <2>. QED BY <2>5 DEF Tended, CrewInv, Quiet, Dead
<1>. QED BY <1>7, <1>8

LEMMA DeliverKeepsCrew ==
    ASSUME CycleInv, CrewInv, NEW sig \in Signals, Deliver(sig) PROVE CrewInv'
<1>1. master' = Handled(sig) /\ hist' = hist /\ pending' = pending \ {sig}
  BY DEF Deliver
<1>2. Sound(master) /\ master \in Master
  BY DEF CycleInv, Sound
<1>3. CASE sig # "chld"
  <2>1. Heeds(master, master')
    BY <1>1, <1>2, <1>3, HandledHeeds
  <2>2. Staying(master') => Staying(master)
    BY <2>1 DEF Heeds, Staying
  <2>. QED BY <1>1, <1>3, <2>1, <2>2, CrewStays DEF Heeds
<1>4. CASE sig = "chld"
  <2>. SUFFICES ASSUME Staying(master'), hist.ill \cap Hopeless = {} PROVE CrewInv'
    BY <1>1 DEF CrewInv
  <2>1. master' = ProcessGetStatus(master)
    BY <1>1, <1>4 DEF Handled, SignalHandler, User1
  <2>2. SameOrders(master, ProcessGetStatus(master))
    <3>1. ProcessGetStatus(master).terminate = master.terminate
          /\ ProcessGetStatus(master).quit = master.quit
          /\ ProcessGetStatus(master).ccf = master.ccf
          /\ ProcessGetStatus(master).conf = master.conf
          /\ ProcessGetStatus(master).noaccepting = master.noaccepting
          /\ ProcessGetStatus(master).restart = master.restart
      BY <1>2 DEF ProcessGetStatus, Master
    <3>. QED BY <3>1 DEF SameOrders
  <2>3. Staying(master)
    BY <2>1, <2>2 DEF SameOrders, Staying
  <2>4. Full(master) /\ \A i \in Places : master.procs[i].stage # "fatal"
    BY <2>3 DEF CrewInv
  <2>5. /\ master'.reap
        /\ \A i \in Places :
              LET c == master.procs[i]
                  d == master'.procs[i]
              IN  /\ d.kind = c.kind /\ d.conf = c.conf /\ d.respawn = c.respawn
                  /\ d.exiting = c.exiting /\ d.stage = c.stage
                  /\ Dead(d) => d.exited
    BY <1>2, <2>1, <2>4, ProcessGetStatusNotes
  <2>6. Retains(master, master')
    BY <2>1, <2>2, <2>5 DEF Retains, Manned, SameOrders
  <2>7. Full(master')
    BY <1>2, <2>1, <2>2, <2>4, <2>6, RetainedIsEnough DEF Full, Steady, Staying, SameOrders
  <2>. QED BY <2>4, <2>5, <2>7 DEF CrewInv
<1>. QED BY <1>3, <1>4

LEMMA MovedKeepsCrew ==
    ASSUME CycleInv, CrewInv, NEW i \in Places, NEW stage \in Stages \ {"fatal"}, NEW told,
           master' = [master EXCEPT !.procs[i] = [@ EXCEPT !.stage = stage, !.told = told]],
           pending \subseteq pending', stage = "dead" => "chld" \in pending',
           hist.ill \subseteq hist'.ill
    PROVE  CrewInv'
<1>. DEFINE c == [master.procs[i] EXCEPT !.stage = stage, !.told = told]
<1>1. master \in Master /\ master.procs \in [Places -> Process]
  BY DEF CycleInv, Sound, Master
<1>2. master' = [master EXCEPT !.procs = [master.procs EXCEPT ![i] = c]]
  OBVIOUS
<1>3. /\ c.kind = master.procs[i].kind /\ c.conf = master.procs[i].conf
      /\ c.respawn = master.procs[i].respawn /\ c.exiting = master.procs[i].exiting
      /\ c.exited = master.procs[i].exited /\ c.stage = stage
  BY <1>1 DEF Process
<1>. HIDE DEF c
<1>4. master'.procs = [master.procs EXCEPT ![i] = c] /\ master'.reap = master.reap
      /\ SameOrders(master, master')
  BY <1>1, <1>2 DEF Master, SameOrders
<1>5. \A j \in Places : master'.procs[j] = IF j = i THEN c ELSE master.procs[j]
  BY <1>1, <1>4
<1>. QED BY <1>3, <1>4, <1>5, CrewStays DEF SameOrders, Staying

LEMMA BecomesKeepsCrew ==
    ASSUME CycleInv, CrewInv, NEW i \in Places, NEW stage \in {"up", "shutting", "dead"},
           Becomes(i, stage)
    PROVE  CrewInv'
<1>. DEFINE told == IF stage = "dead" THEN {} ELSE master.procs[i].told
<1>1. /\ master' = [master EXCEPT !.procs[i] = [@ EXCEPT !.stage = stage, !.told = told]]
      /\ hist' = hist /\ pending \subseteq pending' /\ (stage = "dead" => "chld" \in pending')
  BY DEF Becomes
<1>. HIDE DEF told
<1>2. stage \in Stages \ {"fatal"}
  BY DEF Stages
<1>. QED BY <1>1, <1>2, MovedKeepsCrew

LEMMA MisfortuneKeepsCrew ==
    ASSUME CycleInv, CrewInv, NEW i \in Places, NEW stage \in {"dead", "hung", "fatal"},
           Misfortune(i, stage)
    PROVE  CrewInv'
<1>1. /\ master' = [master EXCEPT !.procs[i] = [@ EXCEPT !.stage = stage, !.told = {}]]
      /\ hist' = [hist EXCEPT !.left = @ - 1, !.ill = @ \cup {stage}]
      /\ pending \subseteq pending' /\ (stage = "dead" => "chld" \in pending')
  BY DEF Misfortune
<1>2. hist'.ill = hist.ill \cup {stage}
  BY <1>1 DEF CycleInv
<1>3. CASE stage = "fatal"
  BY <1>2, <1>3 DEF CrewInv, Hopeless
<1>4. CASE stage # "fatal"
  <2>1. stage \in Stages \ {"fatal"}
    BY <1>4 DEF Stages
  <2>. QED BY <1>1, <1>2, <2>1, MovedKeepsCrew
<1>. QED BY <1>3, <1>4

\* The new binary moves on, in its own place.
LEMMA NewBinaryKeepsCrew ==
    ASSUME CycleInv, CrewInv, NEW i \in Places, NEW stage \in {"up", "dead"}, NEW pid,
           master' = [master EXCEPT !.procs[i] = [@ EXCEPT !.stage = stage], !.pid = pid],
           pending \subseteq pending', stage = "dead" => "chld" \in pending',
           hist.ill \subseteq hist'.ill
    PROVE  CrewInv'
<1>. DEFINE c == [master.procs[i] EXCEPT !.stage = stage]
<1>1. master \in Master /\ master.procs \in [Places -> Process]
  BY DEF CycleInv, Sound, Master
<1>2. master' = [master EXCEPT !.procs = [master.procs EXCEPT ![i] = c], !.pid = pid]
  OBVIOUS
<1>3. /\ c.kind = master.procs[i].kind /\ c.conf = master.procs[i].conf
      /\ c.respawn = master.procs[i].respawn /\ c.exiting = master.procs[i].exiting
      /\ c.exited = master.procs[i].exited /\ c.stage = stage
  BY <1>1 DEF Process
<1>. HIDE DEF c
<1>4. master'.procs = [master.procs EXCEPT ![i] = c] /\ master'.reap = master.reap
      /\ SameOrders(master, master')
  BY <1>1, <1>2 DEF Master, SameOrders
<1>5. \A j \in Places : master'.procs[j] = IF j = i THEN c ELSE master.procs[j]
  BY <1>1, <1>4
<1>. QED BY <1>3, <1>4, <1>5, CrewStays DEF SameOrders, Staying

LEMMA AskedLeavesIll ==
    ASSUME CycleInv, NEW sig, Asked(sig)
    PROVE  hist'.ill = hist.ill
BY DEF CycleInv, Asked

LEMMA CycleNextCrew ==
    ASSUME CycleInv, CrewInv, RoomLeft, [CycleNext]_cycleVars PROVE CrewInv'
<1>1. CASE Wake
  BY <1>1, WakeKeepsCrew
<1>2. ASSUME NEW sig \in Signals, Deliver(sig) PROVE CrewInv'
  BY <1>2, DeliverKeepsCrew
<1>3. ASSUME NEW sig, Send(sig) PROVE CrewInv'
  <2>1. hist'.ill = hist.ill /\ master' = master /\ pending \subseteq pending'
    BY <1>3, AskedLeavesIll DEF Send, Queued
  <2>. QED BY <2>1, CrewStays
<1>4. CASE TimerExpires
  <2>1. /\ master' = [master EXCEPT !.armed = FALSE] /\ hist' = hist
        /\ pending \subseteq pending'
    BY <1>4 DEF TimerExpires
  <2>2. Heeds(master, [master EXCEPT !.armed = FALSE])
    BY FlagsHeed DEF CycleInv, Sound
  <2>3. Heeds(master, master')
    BY <2>1, <2>2
  <2>. QED BY <2>1, <2>3, CrewStays DEF Heeds, Staying
<1>5. ASSUME NEW i \in Places, ChildStep(i) PROVE CrewInv'
  <2>1. CASE NewBinaryUp(i)
    BY <2>1, NewBinaryKeepsCrew DEF NewBinaryUp
  <2>2. CASE ~NewBinaryUp(i)
    <3>1. \E stage \in {"up", "shutting", "dead"} : Becomes(i, stage)
      BY <1>5, <2>2 DEF ChildStep, WorkerProcessInit, WorkerProcessCycle,
              CacheManagerProcessCycle, CacheLoaderProcessHandler
    <3>. QED BY <3>1, BecomesKeepsCrew
  <2>. QED BY <2>1, <2>2
<1>6. ASSUME NEW i \in Places, NewBinaryQuits(i) PROVE CrewInv'
  <2>1. /\ master' = [master EXCEPT !.procs[i] = [@ EXCEPT !.stage = "dead"], !.pid = Nobody]
        /\ Asked("back") /\ pending' = pending \cup {"chld"}
    BY <1>6 DEF NewBinaryQuits
  <2>2. hist'.ill = hist.ill
    BY <2>1, AskedLeavesIll
  <2>. QED BY <2>1, <2>2, NewBinaryKeepsCrew
<1>7. ASSUME NEW i \in Places, NEW stage \in {"dead", "hung", "fatal"}, Misfortune(i, stage)
      PROVE CrewInv'
  BY <1>7, MisfortuneKeepsCrew
<1>8. CASE UNCHANGED cycleVars
  BY <1>8, CrewStays DEF cycleVars
<1>. QED BY <1>1, <1>2, <1>3, <1>4, <1>5, <1>6, <1>7, <1>8
        DEF CycleNext, MasterStep, RestartInstance, ReloadConfiguration, Operator

LEMMA CrewServes ==
    ASSUME CycleInv, CrewInv PROVE NeverShort
<1>. SUFFICES ASSUME Settled, ~master.noaccepting,
                     hist.ill \cap {"fatal", "fork", "respawn"} = {}
              PROVE  Cardinality(Serving) >= master.ccf.workers
  BY DEF NeverShort
<1>1. master \in Master
  BY DEF CycleInv, Sound
<1>2. /\ Enough(master)
      /\ \A i \in Places : ~Dead(master.procs[i])
  BY DEF CrewInv, Hopeless, Settled, Full, Steady
<1>3. Crew(master) \in SUBSET Serving /\ Serving \in SUBSET Places
  BY <1>2 DEF Crew, Manned, Serving
<1>. HIDE DEF Crew, Serving
<1>4. IsFiniteSet(Serving) /\ IsFiniteSet(Crew(master))
      /\ Cardinality(Crew(master)) <= Cardinality(Serving)
  BY <1>3, CycleAssumption, FS_Subset
<1>5. Cardinality(Serving) \in Nat /\ Cardinality(Crew(master)) \in Nat
  BY <1>4, FS_CardinalityType
<1>6. master.ccf.workers \in Nat
  BY <1>1 DEF Master, Config
<1>. QED BY <1>2, <1>4, <1>5, <1>6 DEF Enough

\* As long as the table has a free place for each worker of a configuration, no crash,
\* reload, restart or new binary that comes back leaves a master at rest with fewer workers
\* than it was configured with (ngx_reap_children, ngx_start_worker_processes; a full table,
\* where ngx_spawn_process refuses, is left out: nobody looks at the result).
THEOREM NeverShortAlways == CycleSpec /\ []RoomLeft => []NeverShort
<1>1. CycleInit /\ CycleInv /\ RoomLeft => CrewInv
  BY CrewInitInv
<1>2. CycleInv /\ CrewInv /\ RoomLeft /\ [CycleNext]_cycleVars => CrewInv'
  BY CycleNextCrew
<1>3. CycleInv /\ CrewInv => NeverShort
  BY CrewServes
<1>. QED BY <1>1, <1>2, <1>3, CycleInvAlways, PTL DEF CycleSpec

=============================================================================
