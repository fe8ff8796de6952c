------------------------------ MODULE HaTable -------------------------------
(***************************************************************************)
(* What hustdbha does with the content of its table file: the check of a   *)
(* posted table (hustdb_ha_table_setter.c), the hash table an instance     *)
(* builds from it at its start (hustdb_ha_table_def.c and _checker.c), and *)
(* the list of backends written to nginx.conf.                             *)
(*                                                                         *)
(* A table is a sequence of elements that give a range of hashes to two    *)
(* masters.  An element may carry an increase, which splits its range, or  *)
(* a decrease, which replaces a master.  A posted table is checked by the  *)
(* instance that runs, with its own peers; the next instance builds it     *)
(* with the backends the table names.                                      *)
(***************************************************************************)
EXTENDS Integers, Sequences, FiniteSets

CONSTANTS
    Hosts,      \* addresses of backends
    TableSize   \* HUSTDB_TABLE_SIZE

ASSUME TableAssumption == TableSize \in Nat \ {0}

Hashes == 0 .. TableSize - 1

\* A field that the JSON object does not have.
None == <<>>

\* HustDbHaTablePair; the arrays have any length.
Pair == [key : Seq(0 .. TableSize), val : Seq(Hosts)]

\* HustDbHaTableElem; an increase is a pair of a low and a high part, a
\* decrease the host to remove and the one that replaces it.
Elem == [item : Pair, increase : {None} \cup (Pair \X Pair),
         decrease : {None} \cup (Hosts \X Hosts)]

Table == Seq(Elem)

From(pair) == pair.key[1]
To(pair) == pair.key[2]
Master1(pair) == pair.val[1]
Master2(pair) == pair.val[2]
Masters(pair) == {Master1(pair), Master2(pair)}
Within(h, pair) == From(pair) <= h /\ h < To(pair)

Low(e) == e.increase[1]
High(e) == e.increase[2]
Removed(e) == e.decrease[1]
ReplacedBy(e) == e.decrease[2]

\* __include_increase, __include_incr.
IncludeIncrease(t) == \E i \in DOMAIN t : t[i].increase # None

\* __include_decrease.
IncludeDecrease(t) == \E i \in DOMAIN t : t[i].decrease # None

\* The element is built as a decrease, or as an increase.  A table with
\* both is refused before that is asked.
Decreases(t, i) == IncludeDecrease(t) /\ t[i].decrease # None
Increases(t, i) == ~IncludeDecrease(t) /\ t[i].increase # None

-----------------------------------------------------------------------------
(* The check of one element.                                               *)

TwoOfEach(pair) == Len(pair.key) = 2 /\ Len(pair.val) = 2

\* __check_incr_item: the parts are two halves of the range, each keeps one
\* of the masters and they get new ones besides.
CheckIncrItem(e) ==
    /\ TwoOfEach(Low(e)) /\ TwoOfEach(High(e))
    /\ From(Low(e)) = From(e.item)
    /\ To(High(e)) = To(e.item)
    /\ To(Low(e)) = From(High(e))
    /\ From(Low(e)) < To(Low(e)) /\ From(High(e)) < To(High(e))
    /\ Master1(Low(e)) = Master1(e.item) /\ Master2(High(e)) = Master2(e.item)
    /\ Master2(Low(e)) \notin Masters(e.item)
    /\ Master1(High(e)) \notin Masters(e.item)

\* __check_decr_item.
CheckDecrItem(e) == Removed(e) # ReplacedBy(e) /\ Removed(e) \in Masters(e.item)

\* The place of an element in the table.  A first element that is the last
\* one too need not end where the table ends.
Connected(t, i) ==
    IF i = 1 THEN From(t[i].item) = 0 /\ 1 <= To(t[i].item) /\ To(t[i].item) <= TableSize
    ELSE /\ i = Len(t) => To(t[i].item) = TableSize
         /\ To(t[i - 1].item) = From(t[i].item)

\* hustdb_ha_check_table_item.
CheckItem(t, i) ==
    /\ TwoOfEach(t[i].item)
    /\ Connected(t, i)
    /\ Decreases(t, i) => CheckDecrItem(t[i])
    /\ Increases(t, i) => CheckIncrItem(t[i])

\* hustdb_ha_check_decrease: no host replaces one and is removed itself.
CheckDecrease(t) ==
    LET decreased == {i \in DOMAIN t : t[i].decrease # None}
    IN  {Removed(t[i]) : i \in decreased} \cap {ReplacedBy(t[i]) : i \in decreased} = {}

-----------------------------------------------------------------------------
(* The hash table of an instance.                                          *)

\* __append_table_item.
PlainPart(pair) == [range |-> pair, readlist |-> pair.val, writelist |-> pair.val]

\* __append_incr_item for the high half of a range.
HighPart(e) ==
    [range |-> High(e),
     readlist |-> <<Master1(High(e)), Master2(High(e)), Master2(Low(e)), Master2(Low(e))>>,
     writelist |-> <<Master1(High(e)), Master2(High(e))>>]

\* __get_remained_idx.
Remaining(e) == IF Removed(e) = Master1(e.item) THEN Master2(e.item) ELSE Master1(e.item)

\* __append_decr_item.
DecrPart(e) ==
    LET list == <<Remaining(e), ReplacedBy(e)>>
    IN  [range |-> e.item, readlist |-> list, writelist |-> list]

\* __build_table_item: the parts an element adds, in this order.
Parts(t, i) ==
    IF Decreases(t, i) THEN <<DecrPart(t[i])>>
    ELSE IF Increases(t, i) THEN <<PlainPart(Low(t[i])), HighPart(t[i])>>
    ELSE <<PlainPart(t[i].item)>>

\* The parts of a table, by element and position.
PartIds(t) == {p \in (DOMAIN t) \X {1, 2} : p[2] \in DOMAIN Parts(t, p[1])}
PartAt(t, p) == Parts(t, p[1])[p[2]]

Later(p, q) == p[1] > q[1] \/ (p[1] = q[1] /\ p[2] >= q[2])

\* __set_table_item for each hash in the range of a part: the last one stays.
Owners(t, h) == {p \in PartIds(t) : Within(h, PartAt(t, p).range)}
HashTable(t, h) == PartAt(t, CHOOSE p \in Owners(t, h) : \A q \in Owners(t, h) : Later(p, q))

\* hustdb_ha_review_table: no hash is left out.
Reviewed(t) == \A h \in Hashes : Owners(t, h) # {}

\* __build_bucket_table: a bucket begins where the range changes, and there
\* is room for as many as there are parts.
BucketStarts(t) ==
    {h \in Hashes : h = 0 \/ HashTable(t, h).range.key # HashTable(t, h - 1).range.key}
BucketsFit(t) == Cardinality(BucketStarts(t)) <= Cardinality(PartIds(t))

HostsOf(list) == {list[k] : k \in DOMAIN list}

\* __build_peer_list finds every host of every list.
Known(t, peers) ==
    \A p \in PartIds(t) :
        HostsOf(PartAt(t, p).readlist) \cup HostsOf(PartAt(t, p).writelist) \subseteq peers

\* Everything that hustdb_ha_build_hash_table asks before the review.
Buildable(t, peers) ==
    /\ t # <<>>
    /\ ~(IncludeIncrease(t) /\ IncludeDecrease(t))
    /\ \A i \in DOMAIN t : CheckItem(t, i)
    /\ Known(t, peers)
    /\ IncludeDecrease(t) => CheckDecrease(t)

\* hustdb_ha_build_hash_table on the zeroed table of a new instance.
Builds(t, peers) == Buildable(t, peers) /\ Reviewed(t) /\ BucketsFit(t)

\* __check_table's answers.  A table with an increase is not checked, since it
\* names hosts that are not peers yet.  The hash table of the check is on the
\* stack: what a table leaves out is what happens to be there.
CheckTable(t, peers) ==
    IF IncludeIncrease(t) THEN {TRUE}
    ELSE IF ~Buildable(t, peers) THEN {FALSE}
    ELSE IF Reviewed(t) THEN {BucketsFit(t)}
    ELSE BOOLEAN

-----------------------------------------------------------------------------
(* The backends of nginx.conf.                                             *)

\* Faulty variant: the host that replaces another one is not added.
NamedMasters(e) ==
    IF e.increase # None THEN Masters(Low(e)) \cup Masters(High(e)) ELSE Masters(e.item)

NamedHosts(e) ==
    IF e.increase # None THEN Masters(Low(e)) \cup Masters(High(e))
    ELSE IF e.decrease # None THEN Masters(e.item) \cup {ReplacedBy(e)}
    ELSE Masters(e.item)

RemovedHosts(t) ==
    {Removed(t[i]) : i \in {j \in DOMAIN t : t[j].increase = None /\ t[j].decrease # None}}

\* hustdb_ha_load_backends.
Backends(t) == (UNION {NamedHosts(t[i]) : i \in DOMAIN t}) \ RemovedHosts(t)

-----------------------------------------------------------------------------
(* What a table can be relied on for.                                      *)

\* A host that is removed somewhere is a master of no other element.
RemovedEverywhere(t) ==
    \A p \in PartIds(t) : HostsOf(PartAt(t, p).readlist) \cap RemovedHosts(t) = {}

\* What the check can vouch for: it was asked, it did not look at what was on
\* the stack, and no list names a host that leaves.
Vouched(t) == ~IncludeIncrease(t) /\ Reviewed(t) /\ RemovedEverywhere(t)

\* Whatever hash a key has, it is written to a host that had it under the
\* element's own masters and stays, and read from every host it is written to.
KeepsAMaster(t, peers) ==
    \A p \in PartIds(t) :
        LET part == PartAt(t, p)
        IN  /\ HostsOf(part.writelist) \cap Masters(t[p[1]].item) \cap peers # {}
            /\ HostsOf(part.writelist) \subseteq HostsOf(part.readlist)
=============================================================================
