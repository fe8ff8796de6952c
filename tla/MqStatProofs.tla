---------------------------- MODULE MqStatProofs ----------------------------
(***************************************************************************)
(* First, that the dictionary of a worker holds nothing but what the hosts *)
(* said last, and that the cleaning of it spares the queues that live, for *)
(* any number of hosts, queues and rounds.                                 *)
(*                                                                         *)
(* Then, of the requests that wait until it shows messages, that each      *)
(* waits in one line, that the counts beside the lines agree with them,    *)
(* and that nobody is activated before who came first.                     *)
(*                                                                         *)
(* Last, of the requests that go from host to host, that they give up only *)
(* when no host is left, and that the answer tells what the hosts said.    *)
(* For that the dictionary of workers is followed through a round: what it *)
(* counts was told in the round, and if there is room, all that was told.  *)
(***************************************************************************)
EXTENDS MqLongPoll, MqRoute, Lists

\* The inductive invariant: what the dictionary is about, and ItemsAsSaid.
StatInv ==
    /\ \A q \in DOMAIN dict : q \in Queues /\ DOMAIN dict[q] \subseteq Hosts
    /\ \A q \in DOMAIN dict : \A h \in DOMAIN dict[q] : dict[q][h] \in Item
    /\ said \in [Hosts -> Report]
    /\ ItemsAsSaid

\* Where a silent host is believed and no two hosts are alike, a mark stands
\* only on what the host has dropped.
MarkedInv ==
    \A q \in DOMAIN dict : \A h \in DOMAIN dict[q] : q \in DOMAIN said[h] => dict[q][h].valid

-----------------------------------------------------------------------------

\* The hosts that answer are hosts, and each says a report.
LEMMA AnsweredType ==
    ASSUME NEW reports \in Answered
    PROVE  /\ DOMAIN reports \subseteq Hosts
           /\ \A h \in DOMAIN reports : reports[h] \in Report
BY DEF Answered

\* A merge changes an item as Updated says, or takes its queue out, or leaves
\* a queue it does not know out.
LEMMA MergeUpdates ==
    ASSUME NEW reports \in Answered, MergeReports(reports)
    PROVE  /\ DOMAIN dict' \subseteq
                DOMAIN dict \cup UNION {DOMAIN reports[h] : h \in DOMAIN reports}
           /\ \A q \in DOMAIN dict' : dict'[q] = Updated(q, reports)
           /\ \A q \in DOMAIN dict : q \notin DOMAIN dict' => IsInvalid(Updated(q, reports))
<1>. DEFINE brought == (UNION {DOMAIN reports[h] : h \in DOMAIN reports}) \ DOMAIN dict
            room == Min({Cardinality(brought), MaxQueues})
            New(added) == [q \in DOMAIN dict \cup added |-> Updated(q, reports)]
<1>1. PICK added \in kSubset(room, brought) :
        \/ room < MaxQueues /\ dict' = New(added)
        \/ \E removed \in SUBSET DOMAIN New(added) :
              /\ Cleaned(New(added), removed)
              /\ dict' = Restrict(New(added), DOMAIN New(added) \ removed)
  BY DEF MergeReports
<1>2. added \subseteq brought
  BY DEF kSubset
<1>3. CASE dict' = New(added)
  BY <1>2, <1>3
<1>4. CASE \E removed \in SUBSET DOMAIN New(added) :
              /\ Cleaned(New(added), removed)
              /\ dict' = Restrict(New(added), DOMAIN New(added) \ removed)
  <2>1. PICK removed \in SUBSET DOMAIN New(added) :
              /\ Cleaned(New(added), removed)
              /\ dict' = Restrict(New(added), DOMAIN New(added) \ removed)
    BY <1>4
  <2>2. \A q \in removed : IsInvalid(New(added)[q])
    BY <2>1 DEF Cleaned
  <2>3. DOMAIN dict' = (DOMAIN dict \cup added) \ removed
    BY <2>1 DEF Restrict
  <2>4. \A q \in DOMAIN dict' : dict'[q] = Updated(q, reports)
    BY <2>1, <2>3 DEF Restrict
  <2>. QED BY <1>2, <2>2, <2>3, <2>4
<1>. QED BY <1>1, <1>3, <1>4

\* What a host says in a round is what it said last; a silent one keeps its word.
LEMMA SaidAfter ==
    ASSUME said \in [Hosts -> Report], NEW reports \in Answered, MergeOf(reports)
    PROVE  /\ said' \in [Hosts -> Report]
           /\ \A h \in Hosts : said'[h] = IF h \in DOMAIN reports THEN reports[h] ELSE said[h]
BY AnsweredType DEF MergeOf, Value

\* An item is what its host says in the round, or what it was, perhaps marked.
LEMMA UpdatedItem ==
    ASSUME NEW reports \in Answered, NEW q, NEW h \in DOMAIN Updated(q, reports)
    PROVE  \/ /\ h \in DOMAIN reports /\ q \in DOMAIN reports[h]
              /\ Updated(q, reports)[h] = [valid |-> TRUE, ready |-> reports[h][q]]
           \/ /\ ~(h \in DOMAIN reports /\ q \in DOMAIN reports[h])
              /\ q \in DOMAIN dict /\ h \in DOMAIN dict[q]
              /\ Updated(q, reports)[h] = ResetStatus(dict[q][h], h, DOMAIN reports)
<1>. DEFINE hosts == DOMAIN reports
            old == Value(dict, q, <<>>)
            saying == {g \in hosts : q \in DOMAIN reports[g]}
<1>1. Updated(q, reports) =
        [g \in DOMAIN old \cup saying |->
            IF g \in saying THEN [valid |-> TRUE, ready |-> reports[g][q]]
            ELSE ResetStatus(old[g], g, hosts)]
  BY DEF Updated
<1>2. h \notin saying => q \in DOMAIN dict /\ old = dict[q]
  BY <1>1 DEF Value
<1>. QED BY <1>1, <1>2

\* A report is about queues, and says how many messages are ready.
LEMMA ReportType ==
    ASSUME NEW r \in Report
    PROVE  /\ DOMAIN r \subseteq Queues
           /\ \A q \in DOMAIN r : r[q] \in 0 .. MaxReady
BY DEF Report

\* A mark leaves the number, and what is not marked is left alone.
LEMMA Marking ==
    ASSUME NEW item \in Item, NEW h, NEW hosts
    PROVE  /\ ResetStatus(item, h, hosts) \in Item
           /\ ResetStatus(item, h, hosts).valid =>
                StatusCache /\ ~InArray(h, hosts) /\ ResetStatus(item, h, hosts) = item
BY DEF ResetStatus, Item

\* Nothing was said yet, and nothing is kept.
LEMMA NothingKept == ASSUME StatInit PROVE StatInv /\ MarkedInv
<1>1. DOMAIN dict = {}
  BY DEF StatInit
<1>2. said \in [Hosts -> Report]
  BY DEF StatInit, Report
<1>. QED BY <1>1, <1>2 DEF StatInv, MarkedInv, ItemsAsSaid

\* A merge keeps the invariant.
LEMMA MergeKeepsStatInv ==
    ASSUME StatInv, Merge
    PROVE  StatInv'
<1>1. PICK reports \in Answered : MergeOf(reports)
  BY DEF Merge
<1>2. MergeReports(reports)
  BY <1>1 DEF MergeOf
<1>3. /\ said' \in [Hosts -> Report]
      /\ \A h \in Hosts : said'[h] = IF h \in DOMAIN reports THEN reports[h] ELSE said[h]
  BY <1>1, SaidAfter DEF StatInv
<1>4. ASSUME NEW q \in DOMAIN dict'
      PROVE  q \in Queues /\ DOMAIN dict'[q] \subseteq Hosts
  <2>1. q \in Queues
    BY <1>2, <1>4, MergeUpdates, AnsweredType, ReportType DEF StatInv
  <2>2. dict'[q] = Updated(q, reports)
    BY <1>2, <1>4, MergeUpdates
  <2>3. DOMAIN dict'[q] \subseteq Hosts
    BY <2>2, UpdatedItem, AnsweredType DEF StatInv
  <2>. QED BY <2>1, <2>3
<1>5. ASSUME NEW q \in DOMAIN dict', NEW h \in DOMAIN dict'[q], dict'[q][h].valid
      PROVE  q \in DOMAIN said'[h] /\ dict'[q][h].ready = said'[h][q]
  <2>1. dict'[q] = Updated(q, reports)
    BY <1>2, <1>5, MergeUpdates
  <2>2. h \in Hosts
    BY <1>4, <1>5
  <2>3. CASE /\ h \in DOMAIN reports /\ q \in DOMAIN reports[h]
             /\ dict'[q][h] = [valid |-> TRUE, ready |-> reports[h][q]]
    BY <1>3, <2>2, <2>3
  <2>4. CASE /\ ~(h \in DOMAIN reports /\ q \in DOMAIN reports[h])
             /\ q \in DOMAIN dict /\ h \in DOMAIN dict[q]
             /\ dict'[q][h] = ResetStatus(dict[q][h], h, DOMAIN reports)
    <3>1. h \notin DOMAIN reports /\ dict'[q][h] = dict[q][h]
      BY <1>5, <2>4, Marking DEF StatInv, InArray
    <3>. QED BY <1>3, <1>5, <2>2, <2>4, <3>1 DEF StatInv, ItemsAsSaid
  <2>. QED BY <1>2, <1>5, <2>1, <2>3, <2>4, UpdatedItem
<1>6. ASSUME NEW q \in DOMAIN dict', NEW h \in DOMAIN dict'[q]
      PROVE  dict'[q][h] \in Item
  <2>1. dict'[q] = Updated(q, reports)
    BY <1>2, MergeUpdates
  <2>2. CASE /\ h \in DOMAIN reports /\ q \in DOMAIN reports[h]
             /\ dict'[q][h] = [valid |-> TRUE, ready |-> reports[h][q]]
    BY <2>2, AnsweredType, ReportType DEF Item
  <2>3. CASE /\ q \in DOMAIN dict /\ h \in DOMAIN dict[q]
             /\ dict'[q][h] = ResetStatus(dict[q][h], h, DOMAIN reports)
    BY <2>3, Marking DEF StatInv
  <2>. QED BY <2>1, <2>2, <2>3, UpdatedItem
<1>7. ItemsAsSaid'
  BY <1>5 DEF ItemsAsSaid
<1>. QED BY <1>3, <1>4, <1>6, <1>7 DEF StatInv

\* Nothing a host has dropped is offered, and every number is what the host
\* said last (hustmq_ha_update_queue_dict).
THEOREM DictionaryAsSaid == StatSpec => []ItemsAsSaid
<1>1. StatInit => StatInv
  BY NothingKept
<1>2. StatInv /\ [Merge]_statVars => StatInv'
  <2>1. StatInv /\ UNCHANGED statVars => StatInv'
    BY DEF StatInv, ItemsAsSaid, statVars
  <2>. QED BY <2>1, MergeKeepsStatInv
<1>3. StatInv => ItemsAsSaid
  BY DEF StatInv
<1>. QED BY <1>1, <1>2, <1>3, PTL DEF StatSpec

\* The same of the marks, where a silent host is believed and its name is the
\* beginning of no other's.
LEMMA MergeKeepsMarked ==
    ASSUME Resembles = {}, StatusCache, StatInv, MarkedInv, Merge
    PROVE  MarkedInv'
<1>1. PICK reports \in Answered : MergeOf(reports)
  BY DEF Merge
<1>2. MergeReports(reports)
  BY <1>1 DEF MergeOf
<1>3. \A h \in Hosts : said'[h] = IF h \in DOMAIN reports THEN reports[h] ELSE said[h]
  BY <1>1, SaidAfter DEF StatInv
<1>4. SUFFICES ASSUME NEW q \in DOMAIN dict', NEW h \in DOMAIN dict'[q], q \in DOMAIN said'[h]
               PROVE  dict'[q][h].valid
  BY DEF MarkedInv
<1>5. dict'[q] = Updated(q, reports)
  BY <1>2, MergeUpdates
<1>6. CASE dict'[q][h] = [valid |-> TRUE, ready |-> reports[h][q]]
  BY <1>6
<1>7. CASE /\ ~(h \in DOMAIN reports /\ q \in DOMAIN reports[h])
           /\ q \in DOMAIN dict /\ h \in DOMAIN dict[q]
           /\ dict'[q][h] = ResetStatus(dict[q][h], h, DOMAIN reports)
  <2>1. h \in Hosts
    BY <1>7 DEF StatInv
  <2>2. h \notin DOMAIN reports /\ q \in DOMAIN said[h]
    BY <1>3, <1>4, <1>7, <2>1
  <2>3. dict'[q][h] = dict[q][h]
    BY <1>7, <2>2 DEF ResetStatus, InArray
  <2>. QED BY <1>7, <2>2, <2>3 DEF MarkedInv
<1>. QED BY <1>5, <1>6, <1>7, UpdatedItem

\* A merge takes no queue away that all its hosts still have.
LEMMA MergeSparesLive ==
    ASSUME Resembles = {}, StatInv, StatusCache => MarkedInv, Merge, NEW q \in DOMAIN dict,
           \A h \in DOMAIN dict[q] : q \in DOMAIN said'[h]
                                  /\ (StatusCache \/ said'[h] # said[h])
    PROVE  q \in DOMAIN dict'
<1>1. PICK reports \in Answered : MergeOf(reports)
  BY DEF Merge
<1>2. MergeReports(reports)
  BY <1>1 DEF MergeOf
<1>3. \A h \in Hosts : said'[h] = IF h \in DOMAIN reports THEN reports[h] ELSE said[h]
  BY <1>1, SaidAfter DEF StatInv
<1>4. ASSUME NEW h \in DOMAIN Updated(q, reports)
      PROVE  Updated(q, reports)[h].valid
  <2>1. CASE Updated(q, reports)[h] = [valid |-> TRUE, ready |-> reports[h][q]]
    BY <2>1
  <2>2. CASE /\ ~(h \in DOMAIN reports /\ q \in DOMAIN reports[h])
             /\ h \in DOMAIN dict[q]
             /\ Updated(q, reports)[h] = ResetStatus(dict[q][h], h, DOMAIN reports)
    <3>1. h \in Hosts
      BY <2>2 DEF StatInv
    <3>2. h \notin DOMAIN reports /\ StatusCache /\ q \in DOMAIN said[h]
      BY <1>3, <2>2, <3>1
    <3>3. Updated(q, reports)[h] = dict[q][h]
      BY <2>2, <3>2 DEF ResetStatus, InArray
    <3>. QED BY <2>2, <3>2, <3>3 DEF MarkedInv
  <2>. QED BY <2>1, <2>2, UpdatedItem
<1>5. ~IsInvalid(Updated(q, reports))
  BY <1>4 DEF IsInvalid
<1>. QED BY <1>2, <1>5, MergeUpdates

\* A queue that all its hosts still have stays, however many others a round
\* brings and however the count of them wraps (hustmq_ha_clean_invalid_items).
\* Hosts whose names begin alike are left out: a silent one is taken for the
\* other there, and may lose its queues.
THEOREM LiveQueuesAreSpared ==
    ASSUME Resembles = {}
    PROVE  StatSpec => LiveQueueStays
<1>. DEFINE Inv == StatInv /\ (StatusCache => MarkedInv)
            Spared ==
              \A q \in DOMAIN dict :
                  (\A h \in DOMAIN dict[q] : q \in DOMAIN said'[h]
                                         /\ (StatusCache \/ said'[h] # said[h]))
                     => q \in DOMAIN dict'
<1>1. StatInit => Inv
  BY NothingKept
<1>2. Inv /\ [Merge]_statVars => Inv'
  <2>1. Inv /\ UNCHANGED statVars => Inv'
    BY DEF StatInv, MarkedInv, ItemsAsSaid, statVars
  <2>. QED BY <2>1, MergeKeepsStatInv, MergeKeepsMarked
<1>3. Inv /\ [Merge]_statVars => [Spared]_statVars
  BY MergeSparesLive
<1>. QED BY <1>1, <1>2, <1>3, PTL DEF StatSpec, LiveQueueStays

-----------------------------------------------------------------------------

Waiters == {c \in Clients : answer[c] = "wait"}

\* The inductive invariant of the lines: nobody is in two, and those in a line
\* are those that wait.
LineInv ==
    /\ DOMAIN waiting \subseteq Queues
    /\ \A q \in DOMAIN waiting : waiting[q] \in List(Clients)
    /\ \A p, q \in DOMAIN waiting : p # q => Range(waiting[p]) \cap Range(waiting[q]) = {}
    /\ answer \in [Clients -> Answers]
    /\ \A c \in Clients : answer[c] = "wait" <=> \E q \in DOMAIN waiting : c \in Range(waiting[q])
    /\ CountsAgree

LEMMA FiniteLines ==
    ASSUME LineInv
    PROVE  /\ IsFiniteSet(Waiters) /\ Cardinality(Waiters) \in Nat
           /\ IsFiniteSet(DOMAIN waiting) /\ Cardinality(DOMAIN waiting) \in Nat
           /\ timers = Cardinality(Waiters) /\ timers \in Nat /\ timers <= MaxTimers
           /\ evsize = Cardinality(DOMAIN waiting) /\ evsize \in Nat /\ evsize <= MaxQueues
<1>1. IsFiniteSet(Clients) /\ IsFiniteSet(Queues) /\ MaxTimers \in Nat /\ MaxQueues \in Nat
  BY StatAssumption, PollAssumption
<1>2. IsFiniteSet(Waiters) /\ IsFiniteSet(DOMAIN waiting)
  BY <1>1, FS_Subset DEF Waiters, LineInv
<1>. QED BY <1>1, <1>2, FS_CardinalityType DEF LineInv, CountsAgree, Waiters

\* A request that is no longer in a line, or joined one, waits or waits not.
LEMMA JoinKeepsLines ==
    ASSUME LineInv, NEW c \in Clients, NEW q \in Queues, answer[c] # "wait",
           timers < MaxTimers, ~Full(q),
           answer' = [answer EXCEPT ![c] = "wait"],
           waiting' = [p \in (DOMAIN waiting) \cup {q} |->
                         IF p = q THEN Append(Value(waiting, q, <<>>), c) ELSE waiting[p]],
           evsize' = IF q \in DOMAIN waiting THEN evsize ELSE evsize + 1,
           timers' = timers + 1
    PROVE  LineInv'
<1>1. \A p \in DOMAIN waiting : c \notin Range(waiting[p])
  BY DEF LineInv
<1>2. PICK line \in List(Clients) :
        /\ line = Value(waiting, q, <<>>)
        /\ q \in DOMAIN waiting => line = waiting[q]
        /\ q \notin DOMAIN waiting => Range(line) = {}
  BY EmptyList DEF LineInv, Value
<1>3. Append(line, c) \in List(Clients) /\ Range(Append(line, c)) = Range(line) \cup {c}
  BY <1>1, <1>2, PushTail
<1>4. /\ DOMAIN waiting' = (DOMAIN waiting) \cup {q}
      /\ waiting'[q] = Append(line, c)
      /\ \A p \in DOMAIN waiting \ {q} : waiting'[p] = waiting[p]
  BY <1>2
<1>5. /\ answer' \in [Clients -> Answers] /\ answer'[c] = "wait"
      /\ \A d \in Clients \ {c} : answer'[d] = answer[d]
  BY DEF LineInv, Answers
<1>6. \A p \in DOMAIN waiting' : waiting'[p] \in List(Clients)
  BY <1>3, <1>4 DEF LineInv
<1>7. ASSUME NEW p \in DOMAIN waiting'
      PROVE  Range(waiting'[p]) = (IF p \in DOMAIN waiting THEN Range(waiting[p]) ELSE {})
                                  \cup (IF p = q THEN {c} ELSE {})
  BY <1>2, <1>3, <1>4
<1>8. \A p, r \in DOMAIN waiting' : p # r => Range(waiting'[p]) \cap Range(waiting'[r]) = {}
  <2>1. SUFFICES ASSUME NEW p \in DOMAIN waiting', NEW r \in DOMAIN waiting', p # r
                 PROVE  Range(waiting'[p]) \cap Range(waiting'[r]) = {}
    OBVIOUS
  <2>2. p \in DOMAIN waiting /\ r \in DOMAIN waiting =>
           Range(waiting[p]) \cap Range(waiting[r]) = {}
    BY <2>1 DEF LineInv
  <2>3. CASE p = q
    <3>1. r # q /\ r \in DOMAIN waiting /\ waiting'[r] = waiting[r]
      BY <1>4, <2>1, <2>3
    <3>2. Range(waiting'[p]) \subseteq {c} \cup (IF p \in DOMAIN waiting THEN Range(waiting[p]) ELSE {})
      BY <1>7, <2>3
    <3>. QED BY <1>1, <2>2, <3>1, <3>2
  <2>4. CASE r = q
    <3>1. p # q /\ p \in DOMAIN waiting /\ waiting'[p] = waiting[p]
      BY <1>4, <2>1, <2>4
    <3>2. Range(waiting'[r]) \subseteq {c} \cup (IF r \in DOMAIN waiting THEN Range(waiting[r]) ELSE {})
      BY <1>7, <2>4
    <3>. QED BY <1>1, <2>2, <3>1, <3>2
  <2>5. CASE p # q /\ r # q
    <3>1. /\ p \in DOMAIN waiting /\ waiting'[p] = waiting[p]
          /\ r \in DOMAIN waiting /\ waiting'[r] = waiting[r]
      BY <1>4, <2>5
    <3>. QED BY <2>2, <3>1
  <2>. QED BY <2>3, <2>4, <2>5
<1>9. \A d \in Clients : answer'[d] = "wait" <=> \E p \in DOMAIN waiting' : d \in Range(waiting'[p])
  <2>1. SUFFICES ASSUME NEW d \in Clients
                 PROVE  answer'[d] = "wait" <=> \E p \in DOMAIN waiting' : d \in Range(waiting'[p])
    OBVIOUS
  <2>2. CASE d = c
    BY <1>4, <1>5, <1>7, <2>2
  <2>3. CASE d # c
    <3>1. answer[d] = "wait" <=> \E p \in DOMAIN waiting : d \in Range(waiting[p])
      BY DEF LineInv
    <3>2. \A p \in DOMAIN waiting' :
             d \in Range(waiting'[p]) <=> p \in DOMAIN waiting /\ d \in Range(waiting[p])
      <4> SUFFICES ASSUME NEW p \in DOMAIN waiting'
                   PROVE  d \in Range(waiting'[p]) <=> p \in DOMAIN waiting /\ d \in Range(waiting[p])
        OBVIOUS
      <4>1. Range(waiting'[p]) = (IF p \in DOMAIN waiting THEN Range(waiting[p]) ELSE {})
                                 \cup (IF p = q THEN {c} ELSE {})
        BY <1>7
      <4>. QED BY <2>3, <4>1
    <3>3. (\E p \in DOMAIN waiting' : d \in Range(waiting'[p]))
            <=> (\E p \in DOMAIN waiting : d \in Range(waiting[p]))
      <4>1. DOMAIN waiting \subseteq DOMAIN waiting'
        BY <1>4
      <4>. QED BY <3>2, <4>1
    <3>4. answer'[d] = answer[d]
      BY <1>5, <2>3
    <3>. QED BY <3>1, <3>3, <3>4
  <2>. QED BY <2>2, <2>3
<1>10. CountsAgree'
  <2>1. Waiters' = Waiters \cup {c} /\ c \notin Waiters
    BY <1>5 DEF Waiters
  <2>2. timers' = Cardinality(Waiters') /\ timers' \in 0 .. MaxTimers
    <3>1. Cardinality(Waiters \cup {c}) = Cardinality(Waiters) + 1
      BY <2>1, FiniteLines, FS_AddElement
    <3>2. MaxTimers \in Nat
      BY PollAssumption
    <3>. QED BY <2>1, <3>1, <3>2, FiniteLines
  <2>3. evsize' = Cardinality(DOMAIN waiting')
    BY <1>4, FiniteLines, FS_AddElement
  <2>4. evsize' \in 0 .. MaxQueues
    BY FiniteLines, StatAssumption DEF Full
  <2>. QED BY <2>2, <2>3, <2>4 DEF CountsAgree, Waiters
<1>. QED BY <1>4, <1>5, <1>6, <1>8, <1>9, <1>10 DEF LineInv

LEMMA EvGetKeepsLines ==
    ASSUME LineInv, NEW c \in Clients, NEW q \in Queues, EvGet(c, q)
    PROVE  LineInv'
<1>1. CASE answer' = [answer EXCEPT ![c] = "error"] /\ UNCHANGED <<waiting, evsize, timers>>
  <2>1. /\ answer' \in [Clients -> Answers]
        /\ \A d \in Clients : answer'[d] = "wait" <=> answer[d] = "wait"
    BY <1>1 DEF EvGet, LineInv, Answers
  <2>2. Waiters' = Waiters
    BY <2>1 DEF Waiters
  <2>3. CountsAgree'
    BY <1>1, <2>2 DEF LineInv, CountsAgree, Waiters
  <2>. QED BY <1>1, <2>1, <2>3 DEF LineInv
<1>2. CASE timers < MaxTimers /\ ~Full(q)
  BY <1>2, JoinKeepsLines, PollAssumption, FiniteLines DEF EvGet
<1>. QED BY <1>1, <1>2 DEF EvGet

\* The timer of a request takes it out of the one line it is in.
LEMMA EvTimeoutKeepsLines ==
    ASSUME LineInv, NEW c \in Clients, EvTimeout(c)
    PROVE  LineInv'
<1>1. /\ answer[c] = "wait" /\ answer' = [answer EXCEPT ![c] = "not_found"]
      /\ waiting' = [q \in DOMAIN waiting |-> RemoveFirst(waiting[q], c)]
      /\ timers' = timers - 1 /\ evsize' = evsize
  BY DEF EvTimeout
<1>2. DOMAIN waiting' = DOMAIN waiting
  BY <1>1
<1>3. \A q \in DOMAIN waiting : /\ waiting'[q] \in List(Clients)
                                /\ Range(waiting'[q]) = Range(waiting[q]) \ {c}
  BY <1>1, Unlink DEF LineInv
<1>4. /\ answer' \in [Clients -> Answers] /\ answer'[c] # "wait"
      /\ \A d \in Clients \ {c} : answer'[d] = answer[d]
  BY <1>1 DEF LineInv, Answers
<1>5. Waiters' = Waiters \ {c} /\ c \in Waiters
  BY <1>1, <1>4 DEF Waiters
<1>6. Cardinality(Waiters') = Cardinality(Waiters) - 1 /\ Cardinality(Waiters') \in Nat
  <2>1. IsFiniteSet(Waiters')
    BY <1>5, FiniteLines, FS_RemoveElement
  <2>. QED BY <1>5, <2>1, FiniteLines, FS_RemoveElement, FS_CardinalityType
<1>7. CountsAgree'
  BY <1>1, <1>2, <1>6, FiniteLines, PollAssumption, StatAssumption DEF CountsAgree, Waiters
<1>8. \A d \in Clients : answer'[d] = "wait" <=> \E q \in DOMAIN waiting' : d \in Range(waiting'[q])
  BY <1>2, <1>3, <1>4 DEF LineInv
<1>. QED BY <1>2, <1>3, <1>4, <1>7, <1>8 DEF LineInv

-----------------------------------------------------------------------------

\* No more are activated than wait.
LEMMA AwakenBound ==
    ASSUME StatInv, NEW q \in DOMAIN waiting, waiting[q] \in List(Clients)
    PROVE  Awaken(q) \in 0 .. Len(waiting[q])
<1>1. Len(waiting[q]) \in Nat
  BY LengthCounts
<1>2. CASE Merged(q)
  <2>1. IsFiniteSet(DOMAIN dict[q]) /\ IsFiniteSet(1 .. MaxReady)
    <3>1. DOMAIN dict[q] \in SUBSET Hosts /\ IsFiniteSet(Hosts)
      BY <1>2, StatAssumption DEF Merged, StatInv
    <3>2. 1 \in Int /\ MaxReady \in Int
      BY StatAssumption
    <3>. QED BY <3>1, <3>2, FS_Subset, FS_Interval
  <2>2. IsFiniteSet((DOMAIN dict[q]) \X (1 .. MaxReady))
    <3> DEFINE S == DOMAIN dict[q]
               T == 1 .. MaxReady
    <3> HIDE DEF S, T
    <3>1. IsFiniteSet(S) /\ IsFiniteSet(T)
      BY <2>1 DEF S, T
    <3>2. IsFiniteSet(S \X T)
      BY <3>1, FS_Product
    <3>. QED BY <3>2 DEF S, T
  <2>3. ReadyMessages(q) \in SUBSET ((DOMAIN dict[q]) \X (1 .. MaxReady))
    BY DEF ReadyMessages
  <2>4. ReadySum(q) \in Nat
    BY <2>2, <2>3, FS_Subset, FS_CardinalityType DEF ReadySum
  <2>5. \A a, b \in Nat : Min({a, b}) \in Nat /\ Min({a, b}) <= b
    <3>1. SUFFICES ASSUME NEW a \in Nat, NEW b \in Nat
                   PROVE  Min({a, b}) \in Nat /\ Min({a, b}) <= b
      OBVIOUS
    <3>2. \E n \in {a, b} : \A m \in {a, b} : n <= m
      OBVIOUS
    <3>. QED BY <3>2 DEF Min
  <2>. QED BY <1>1, <1>2, <2>4, <2>5 DEF Awaken
<1>3. CASE ~Merged(q)
  BY <1>1, <1>3 DEF Awaken
<1>. QED BY <1>2, <1>3

\* The requests of a line that are activated, and those that stay.
Awakened(q) == Range(Popped(waiting[q], Awaken(q)).out)

LEMMA LineIsCut ==
    ASSUME StatInv, LineInv, NEW q \in DOMAIN waiting
    PROVE  /\ Popped(waiting[q], Awaken(q)).line \in List(Clients)
           /\ Awakened(q) \subseteq Range(waiting[q])
           /\ Range(Popped(waiting[q], Awaken(q)).line) = Range(waiting[q]) \ Awakened(q)
           /\ \A i \in DOMAIN waiting[q] : waiting[q][i] \in Awakened(q) <=> i <= Awaken(q)
<1>1. PICK s \in List(Clients) : s = waiting[q]
  BY DEF LineInv
<1>2. PICK n \in 0 .. Len(s) : n = Awaken(q)
  BY <1>1, AwakenBound
<1>. QED BY <1>1, <1>2, CutList DEF Awakened, Popped

\* Who is activated: those at the front of the lines of the queues that stay.
LEMMA ActiveShape ==
    ASSUME StatInv, LineInv, Active
    PROVE  \E removed \in SUBSET DOMAIN waiting, out \in SUBSET Waiters :
             /\ \A q \in removed : Range(waiting[q]) = {}
             /\ \A c \in Clients : c \in out <=> \E q \in DOMAIN waiting : c \in Awakened(q)
             /\ DOMAIN waiting' = (DOMAIN waiting) \ removed
             /\ \A q \in DOMAIN waiting' :
                   /\ waiting'[q] \in List(Clients)
                   /\ Range(waiting'[q]) = Range(waiting[q]) \ out
             /\ evsize' = Minus(evsize, Cardinality(removed))
             /\ timers' = timers - Cardinality(out)
             /\ answer' = [c \in Clients |-> IF c \in out THEN "redirect" ELSE answer[c]]
<1>1. PICK removed \in SUBSET DOMAIN waiting :
         /\ Evicted(removed)
         /\ LET kept == (DOMAIN waiting) \ removed
                out == UNION {Awakened(q) : q \in kept}
            IN  /\ waiting' = [q \in kept |-> Popped(waiting[q], Awaken(q)).line]
                /\ evsize' = Minus(evsize, Cardinality(removed))
                /\ timers' = TimersAfter(out)
                /\ answer' = [c \in Clients |-> IF c \in out THEN "redirect" ELSE answer[c]]
  BY DEF Active, Awakened
<1> DEFINE kept == (DOMAIN waiting) \ removed
           out == UNION {Awakened(q) : q \in kept}
<1>2. \A q \in removed : Range(waiting[q]) = {}
  BY <1>1, EmptyList DEF Evicted, IsIdle
<1>3. \A q \in DOMAIN waiting : Awakened(q) \subseteq Range(waiting[q]) /\ Awakened(q) \subseteq Waiters
  <2>1. SUFFICES ASSUME NEW q \in DOMAIN waiting, NEW c \in Awakened(q)
                 PROVE  c \in Range(waiting[q]) /\ c \in Waiters
    OBVIOUS
  <2>2. c \in Range(waiting[q])
    BY LineIsCut
  <2>3. c \in Clients
    BY <2>2, MembersInSet DEF LineInv
  <2>. QED BY <2>2, <2>3 DEF LineInv, Waiters
<1>4. out \in SUBSET Waiters
  BY <1>3
<1>5. \A c \in Clients : c \in out <=> \E q \in DOMAIN waiting : c \in Awakened(q)
  BY <1>2, <1>3
<1>6. DOMAIN waiting' = (DOMAIN waiting) \ removed
  BY <1>1
<1>7. ASSUME NEW q \in DOMAIN waiting'
      PROVE  waiting'[q] \in List(Clients) /\ Range(waiting'[q]) = Range(waiting[q]) \ out
  <2>1. q \in kept /\ waiting'[q] = Popped(waiting[q], Awaken(q)).line
    BY <1>1, <1>6
  <2>2. /\ waiting'[q] \in List(Clients)
        /\ Range(waiting'[q]) = Range(waiting[q]) \ Awakened(q)
    BY <2>1, LineIsCut
  <2>3. \A p \in kept : p # q => Awakened(p) \cap Range(waiting[q]) = {}
    BY <1>3, <2>1 DEF LineInv
  <2>4. Range(waiting[q]) \cap out = Range(waiting[q]) \cap Awakened(q)
    BY <2>1, <2>3
  <2>. QED BY <2>2, <2>4
<1>8. timers' = timers - Cardinality(out)
  BY <1>1 DEF TimersAfter
<1>9. /\ evsize' = Minus(evsize, Cardinality(removed))
      /\ answer' = [c \in Clients |-> IF c \in out THEN "redirect" ELSE answer[c]]
  BY <1>1
<1> HIDE DEF kept, out
<1>. QED BY <1>2, <1>4, <1>5, <1>6, <1>7, <1>8, <1>9

\* An activation: who is redirected leaves its line, and the queues that go
\* have no line.
LEMMA ActiveKeepsLines ==
    ASSUME StatInv, LineInv, Active
    PROVE  LineInv'
<1>1. PICK removed \in SUBSET DOMAIN waiting, out \in SUBSET Waiters :
         /\ \A q \in removed : Range(waiting[q]) = {}
         /\ DOMAIN waiting' = (DOMAIN waiting) \ removed
         /\ \A q \in DOMAIN waiting' :
               /\ waiting'[q] \in List(Clients)
               /\ Range(waiting'[q]) = Range(waiting[q]) \ out
         /\ evsize' = Minus(evsize, Cardinality(removed))
         /\ timers' = timers - Cardinality(out)
         /\ answer' = [c \in Clients |-> IF c \in out THEN "redirect" ELSE answer[c]]
  BY ActiveShape
<1>2. answer' \in [Clients -> Answers]
  BY <1>1 DEF LineInv, Answers
<1>3. \A p, q \in DOMAIN waiting' : p # q => Range(waiting'[p]) \cap Range(waiting'[q]) = {}
  BY <1>1 DEF LineInv
<1>4. ASSUME NEW c \in Clients
      PROVE  answer'[c] = "wait" <=> \E q \in DOMAIN waiting' : c \in Range(waiting'[q])
  <2>1. answer'[c] = "wait" <=> answer[c] = "wait" /\ c \notin out
    BY <1>1
  <2>2. answer[c] = "wait" <=> \E q \in DOMAIN waiting : c \in Range(waiting[q])
    BY DEF LineInv
  <2>. QED BY <1>1, <2>1, <2>2
<1>5. Waiters' = Waiters \ out
  BY <1>1 DEF Waiters
<1>6. /\ Cardinality(Waiters') = Cardinality(Waiters) - Cardinality(out)
      /\ Cardinality(Waiters') \in Nat /\ Cardinality(out) \in Nat
  <2>1. IsFiniteSet(Waiters') /\ Cardinality(Waiters') = Cardinality(Waiters) - Cardinality(Waiters \cap out)
    BY <1>5, FiniteLines, FS_Difference
  <2>2. Waiters \cap out = out
    OBVIOUS
  <2>3. IsFiniteSet(out)
    BY FiniteLines, FS_Subset
  <2>. QED BY <2>1, <2>2, <2>3, FS_CardinalityType
<1>7. timers' = Cardinality(Waiters') /\ timers' \in 0 .. MaxTimers
  BY <1>1, <1>6, FiniteLines, PollAssumption
<1>8. /\ Cardinality(DOMAIN waiting') = evsize - Cardinality(removed)
      /\ Cardinality(DOMAIN waiting') \in Nat /\ Cardinality(removed) \in Nat
  <2> DEFINE known == DOMAIN waiting
  <2>1. IsFiniteSet(known) /\ removed \subseteq known /\ DOMAIN waiting' = known \ removed
    BY <1>1, FiniteLines
  <2>2. evsize = Cardinality(known)
    BY FiniteLines
  <2> HIDE DEF known
  <2>3. IsFiniteSet(known \ removed)
        /\ Cardinality(known \ removed) = Cardinality(known) - Cardinality(known \cap removed)
    BY <2>1, FS_Difference
  <2>4. known \cap removed = removed
    BY <2>1
  <2>5. IsFiniteSet(removed)
    BY <2>1, FS_Subset
  <2>. QED BY <2>1, <2>2, <2>3, <2>4, <2>5, FS_CardinalityType
<1>9. evsize' = Cardinality(DOMAIN waiting') /\ evsize' \in 0 .. MaxQueues
  <2>1. PICK n \in Nat : n = evsize - Cardinality(removed)
    BY <1>8
  <2>2. n <= MaxQueues /\ n < SizeWidth
    BY <1>8, <2>1, FiniteLines, StatAssumption
  <2>3. n % SizeWidth = n
    BY <2>2, StatAssumption
  <2>4. evsize' = n
    BY <1>1, <2>1, <2>3 DEF Minus
  <2>. QED BY <1>8, <2>1, <2>2, <2>4, StatAssumption
<1>10. CountsAgree'
  BY <1>7, <1>9 DEF CountsAgree, Waiters
<1>. QED BY <1>1, <1>2, <1>3, <1>4, <1>10 DEF LineInv

-----------------------------------------------------------------------------

LEMMA LineInit == Init => StatInv /\ LineInv
<1> SUFFICES ASSUME Init PROVE StatInv /\ LineInv
  OBVIOUS
<1>1. StatInv
  BY NothingKept DEF Init
<1>2. DOMAIN waiting = {} /\ Waiters = {} /\ answer \in [Clients -> Answers]
  BY DEF Init, Waiters, Answers
<1>3. CountsAgree
  <2>1. Cardinality(Waiters) = 0 /\ Cardinality(DOMAIN waiting) = 0
    BY <1>2, FS_EmptySet
  <2>2. MaxTimers \in Nat /\ MaxQueues \in Nat
    BY PollAssumption, StatAssumption
  <2>3. timers = 0 /\ evsize = 0
    BY DEF Init
  <2>. QED BY <2>1, <2>2, <2>3 DEF CountsAgree, Waiters
<1>4. \A c \in Clients : answer[c] # "wait"
  BY DEF Init
<1>. QED BY <1>1, <1>2, <1>3, <1>4 DEF LineInv

LEMMA LineStep == StatInv /\ LineInv /\ [Next]_vars => StatInv' /\ LineInv'
<1> SUFFICES ASSUME StatInv, LineInv, [Next]_vars PROVE StatInv' /\ LineInv'
  OBVIOUS
<1>1. UNCHANGED statVars => StatInv'
  BY DEF StatInv, ItemsAsSaid, statVars
<1>2. UNCHANGED pollVars => LineInv'
  BY DEF LineInv, CountsAgree, pollVars
<1>3. ASSUME NEW c \in Clients, NEW q \in Queues, EvGet(c, q) PROVE StatInv' /\ LineInv'
  BY <1>1, <1>3, EvGetKeepsLines DEF EvGet
<1>4. ASSUME NEW c \in Clients, EvTimeout(c) PROVE StatInv' /\ LineInv'
  BY <1>1, <1>4, EvTimeoutKeepsLines DEF EvTimeout
<1>5. CASE Active
  BY <1>1, <1>5, ActiveKeepsLines DEF Active
<1>6. CASE MergeAndInvoke
  BY <1>2, <1>6, MergeKeepsStatInv DEF MergeAndInvoke
<1>7. CASE UNCHANGED vars
  BY <1>1, <1>2, <1>7 DEF vars
<1>. QED BY <1>3, <1>4, <1>5, <1>6, <1>7 DEF Next

\* Who waits is in one line, at one place.
LEMMA LinesAreSound == ASSUME LineInv PROVE LinesSound
<1>1. ASSUME NEW c \in Clients
      PROVE  /\ Cardinality(Lines(c)) = IF answer[c] = "wait" THEN 1 ELSE 0
             /\ \A q \in Lines(c) : Cardinality({i \in DOMAIN waiting[q] : waiting[q][i] = c}) = 1
  <2>1. CASE answer[c] = "wait"
    <3>1. PICK q \in DOMAIN waiting : c \in Range(waiting[q])
      BY <2>1 DEF LineInv
    <3>2. Lines(c) = {q}
      BY <3>1 DEF Lines, LineInv
    <3>3. PICK i \in DOMAIN waiting[q] : waiting[q][i] = c
      BY <3>1 DEF Range
    <3>4. {j \in DOMAIN waiting[q] : waiting[q][j] = c} = {i}
      BY <3>3 DEF LineInv, List
    <3>. QED BY <2>1, <3>2, <3>4, FS_Singleton
  <2>2. CASE answer[c] # "wait"
    <3>1. Lines(c) = {}
      BY <2>2 DEF Lines, LineInv
    <3>. QED BY <2>2, <3>1, FS_EmptySet
  <2>. QED BY <2>1, <2>2
<1>. QED BY <1>1 DEF LinesSound, NoWaiterLost, LineInv

\* For any number of requests, queues and hosts: the counts of timers and of
\* queues agree with the lines, though a count is a size_t that is reduced by
\* what was cleaned out, and who waits is in one line, once, until it is
\* answered (hustmq_ha_ev_handler, __ev_timeout_handler, hustmq_ha_active_ev).
THEOREM LinesSoundAlways == Spec => []LinesSound
BY LineInit, LineStep, LinesAreSound, PTL DEF Spec

\* Nobody is redirected while one that came before stays in that line.
THEOREM FirstComeFirstAlways == Spec => FirstComeFirst
<1> DEFINE InOrder ==
      \A q \in DOMAIN waiting : \A i, j \in DOMAIN waiting[q] :
          i < j /\ answer'[waiting[q][j]] = "redirect"
             => answer'[waiting[q][i]] = "redirect"
<1>1. StatInv /\ LineInv /\ [Next]_vars => InOrder
  <2> SUFFICES ASSUME StatInv, LineInv, [Next]_vars, NEW q \in DOMAIN waiting,
                      NEW i \in DOMAIN waiting[q], NEW j \in DOMAIN waiting[q],
                      i < j, answer'[waiting[q][j]] = "redirect"
               PROVE  answer'[waiting[q][i]] = "redirect"
    OBVIOUS
  <2>1. /\ waiting[q][i] \in Clients /\ waiting[q][j] \in Clients
        /\ answer[waiting[q][j]] = "wait"
        /\ i \in Nat /\ j \in Nat
    <3>1. waiting[q] \in Seq(Clients)
      BY DEF LineInv, List
    <3>2. waiting[q][j] \in Range(waiting[q])
      BY DEF Range
    <3>. QED BY <3>1, <3>2 DEF LineInv
  <2>2. CASE Active
    <3>1. PICK out \in SUBSET Waiters :
            /\ \A c \in Clients : c \in out <=> \E p \in DOMAIN waiting : c \in Awakened(p)
            /\ answer' = [c \in Clients |-> IF c \in out THEN "redirect" ELSE answer[c]]
      BY <2>2, ActiveShape
    <3>2. PICK p \in DOMAIN waiting : waiting[q][j] \in Awakened(p)
      BY <2>1, <3>1
    <3>3. p = q
      <4>1. waiting[q][j] \in Range(waiting[p]) /\ waiting[q][j] \in Range(waiting[q])
        BY <3>2, LineIsCut DEF Range
      <4>. QED BY <4>1 DEF LineInv
    <3>4. Awaken(q) \in Nat
      BY AwakenBound, LengthCounts DEF LineInv
    <3>5. waiting[q][i] \in Awakened(q)
      BY <2>1, <3>2, <3>3, <3>4, LineIsCut
    <3>. QED BY <2>1, <3>1, <3>5
  <2>3. ASSUME NEW c \in Clients, NEW p \in Queues, EvGet(c, p) PROVE FALSE
    BY <2>1, <2>3 DEF EvGet, LineInv
  <2>4. ASSUME NEW c \in Clients, EvTimeout(c) PROVE FALSE
    BY <2>1, <2>4 DEF EvTimeout, LineInv
  <2>5. CASE UNCHANGED answer
    BY <2>1, <2>5
  <2>. QED BY <2>2, <2>3, <2>4, <2>5 DEF Next, MergeAndInvoke, pollVars, vars
<1>. QED BY <1>1, LineInit, LineStep, PTL DEF Spec, FirstComeFirst

-----------------------------------------------------------------------------
(* The workers of a round (MqWorkers).                                     *)

\* What a dictionary of workers is, and an entry of a host's array.
WorkerItem == [valid : BOOLEAN, time : Times]
Entry == [worker : Workers, time : Times]
WorkerDicts == UNION {[ws -> WorkerItem] : ws \in SUBSET Workers}
ReadState == [dict : WorkerDicts, items : Nat, stopped : BOOLEAN]

\* A dictionary maps some of the workers to items,
LEMMA WorkerDictType ==
    ASSUME NEW d \in WorkerDicts
    PROVE  DOMAIN d \subseteq Workers /\ d \in [DOMAIN d -> WorkerItem]
BY DEF WorkerDicts

\* and what does so is a dictionary.
LEMMA WorkerDictsAre ==
    ASSUME NEW ws \in SUBSET Workers, NEW d \in [ws -> WorkerItem]
    PROVE  d \in WorkerDicts
BY DEF WorkerDicts

\* s is how far the entries E have been read of a round that tells of the workers T:
\* who counts was told of in E, at the time kept; and if there is room for all of T,
\* all that was told in E is known.
ReadSound(s, E, T) ==
    /\ s \in ReadState /\ E \subseteq Entry /\ \A e \in E : e.worker \in T
    /\ DOMAIN worker_dict \subseteq DOMAIN s.dict
    /\ s.items = Cardinality(DOMAIN s.dict \ DOMAIN worker_dict)
    /\ \A w \in DOMAIN s.dict \ DOMAIN worker_dict : s.dict[w].valid
    /\ \A w \in DOMAIN s.dict : s.dict[w].valid =>
         \E e \in E : e.worker = w /\ e.time = s.dict[w].time
    /\ Cardinality(T) <= MaxWorkers =>
         /\ ~s.stopped
         /\ \A e \in E : /\ e.worker \in DOMAIN s.dict /\ s.dict[e.worker].valid
                         /\ e.time <= s.dict[e.worker].time

\* The time that is kept of a worker seen again is one of the two, and no less than either.
LEMMA SeenTime ==
    ASSUME NEW item \in WorkerItem, NEW t \in Times
    PROVE  /\ Seen(item, t) \in WorkerItem /\ Seen(item, t).valid
           /\ Seen(item, t).time = t \/ (item.valid /\ Seen(item, t).time = item.time)
           /\ t <= Seen(item, t).time
           /\ item.valid => item.time <= Seen(item, t).time
<1>1. item.time \in Times /\ item.time \in Nat /\ t \in Nat /\ item.valid \in BOOLEAN
  BY WorkersAssumption DEF WorkerItem
<1>2. \A a, b \in Nat : Max({a, b}) \in {a, b} /\ Max({a, b}) >= a /\ Max({a, b}) >= b
  <2>1. SUFFICES ASSUME NEW a \in Nat, NEW b \in Nat
                 PROVE  Max({a, b}) \in {a, b} /\ Max({a, b}) >= a /\ Max({a, b}) >= b
    OBVIOUS
  <2>2. \E k \in {a, b} : \A m \in {a, b} : k >= m
    <3>1. a >= b \/ b >= a
      OBVIOUS
    <3>2. a >= a /\ b >= b
      OBVIOUS
    <3>. QED BY <3>1, <3>2
  <2>3. Max({a, b}) \in {a, b} /\ \A m \in {a, b} : Max({a, b}) >= m
    BY <2>2, Zenon DEF Max
  <2>. QED BY <2>3
<1>. DEFINE m == Max({item.time, t})
<1>3. m \in {item.time, t} /\ m >= item.time /\ m >= t
  BY <1>1, <1>2
<1>. HIDE DEF m
<1>4. Seen(item, t) = [valid |-> TRUE, time |-> IF item.valid THEN m ELSE t]
  BY DEF Seen, m
<1>5. CASE item.valid
  <2>1. Seen(item, t) = [valid |-> TRUE, time |-> m]
    BY <1>4, <1>5
  <2>2. m \in Times
    BY <1>1, <1>3
  <2>. QED BY <1>1, <1>3, <1>5, <2>1, <2>2 DEF WorkerItem
<1>6. CASE ~item.valid
  <2>1. Seen(item, t) = [valid |-> TRUE, time |-> t]
    BY <1>4, <1>6
  <2>. QED BY <1>1, <1>6, <2>1 DEF WorkerItem
<1>. QED BY <1>1, <1>5, <1>6

\* One entry more is read.
LEMMA TakeWorkerReads ==
    ASSUME worker_dict \in WorkerDicts, NEW T \in SUBSET Workers, NEW E, NEW s, ReadSound(s, E, T),
           NEW e \in Entry, e.worker \in T
    PROVE  ReadSound(TakeWorker(s, e), E \cup {e}, T)
<1>. DEFINE w == e.worker
            t == e.time
            F == E \cup {e}
<1>1. w \in Workers /\ t \in Times /\ IsFiniteSet(Workers) /\ MaxWorkers \in Nat \ {0} /\ Times \subseteq Nat
  BY WorkersAssumption DEF Entry
<1>2. s \in ReadState /\ s.dict \in WorkerDicts /\ s.items \in Nat /\ s.stopped \in BOOLEAN
  BY DEF ReadSound, ReadState
<1>3. DOMAIN s.dict \subseteq Workers /\ s.dict \in [DOMAIN s.dict -> WorkerItem]
      /\ DOMAIN worker_dict \subseteq Workers
  BY <1>2, WorkerDictType
<1>a. \A v \in DOMAIN s.dict : s.dict[v] \in WorkerItem /\ s.dict[v].time \in Nat
  BY <1>1, <1>3 DEF WorkerItem
<1>b. F \subseteq Entry /\ (\A f \in F : f.worker \in T) /\ E \subseteq Entry
  BY DEF ReadSound
<1>4. CASE s.stopped
  <2>1. TakeWorker(s, e) = s
    BY <1>4 DEF TakeWorker
  <2>2. ~(Cardinality(T) <= MaxWorkers)
    BY <1>4 DEF ReadSound
  <2>. QED BY <1>b, <2>1, <2>2 DEF ReadSound
<1>5. CASE ~s.stopped /\ w \in DOMAIN s.dict
  <2>. DEFINE item == s.dict[w]
              d == [s.dict EXCEPT ![w] = Seen(item, t)]
              r == [s EXCEPT !.dict = d]
  <2>1. TakeWorker(s, e) = r
    BY <1>5 DEF TakeWorker
  <2>2. /\ item \in WorkerItem /\ Seen(item, t) \in WorkerItem /\ Seen(item, t).valid
        /\ Seen(item, t).time = t \/ (item.valid /\ Seen(item, t).time = item.time)
        /\ t <= Seen(item, t).time
        /\ item.valid => item.time <= Seen(item, t).time
    BY <1>1, <1>a, <1>5, SeenTime
  <2>3. DOMAIN d = DOMAIN s.dict /\ d[w] = Seen(item, t) /\ \A v \in DOMAIN d : v # w => d[v] = s.dict[v]
    BY <1>3, <1>5
  <2>4. d \in [DOMAIN s.dict -> WorkerItem]
    <3>. HIDE DEF item
    <3>. QED BY <1>3, <2>2
  <2>. HIDE DEF item, d
  <2>5. d \in WorkerDicts
    BY <1>3, <2>4, WorkerDictsAre
  <2>6. r \in ReadState /\ r.dict = d /\ r.items = s.items /\ r.stopped = s.stopped
    BY <1>2, <2>5 DEF ReadState
  <2>. HIDE DEF r
  <2>7. ASSUME NEW v \in DOMAIN d, d[v].valid PROVE \E f \in F : f.worker = v /\ f.time = d[v].time
    <3>1. CASE v # w
      BY <2>3, <2>7, <3>1 DEF ReadSound
    <3>2. CASE v = w /\ d[w].time = t
      BY <3>2
    <3>3. CASE v = w /\ item.valid /\ d[w].time = item.time
      BY <1>5, <3>3 DEF ReadSound, item
    <3>. QED BY <2>2, <2>3, <3>1, <3>2, <3>3
  <2>8. ASSUME Cardinality(T) <= MaxWorkers, NEW f \in F
        PROVE  f.worker \in DOMAIN d /\ d[f.worker].valid /\ f.time <= d[f.worker].time
    <3>1. CASE f = e
      BY <1>5, <2>2, <2>3, <3>1
    <3>2. CASE f \in E
      <4>1. f.worker \in DOMAIN s.dict /\ s.dict[f.worker].valid /\ f.time <= s.dict[f.worker].time
        BY <2>8, <3>2 DEF ReadSound
      <4>2. CASE f.worker # w
        BY <2>3, <4>1, <4>2
      <4>3. CASE f.worker = w
        <5>1. \E g \in E : g.worker = w
          BY <3>2, <4>3
        <5>2. f.time <= item.time /\ item.time <= d[w].time
          BY <2>2, <2>3, <4>1, <4>3 DEF item
        <5>3. item.time \in Nat /\ d[w].time \in Nat /\ f.time \in Nat
          BY <1>1, <1>b, <2>2, <2>3, <3>2 DEF WorkerItem, Entry
        <5>. QED BY <2>2, <2>3, <4>1, <4>3, <5>2, <5>3
      <4>. QED BY <4>2, <4>3
    <3>. QED BY <3>1, <3>2
  <2>9. \A v \in DOMAIN d \ DOMAIN worker_dict : d[v].valid
    BY <2>2, <2>3 DEF ReadSound
  <2>10. DOMAIN worker_dict \subseteq DOMAIN d /\ r.items = Cardinality(DOMAIN d \ DOMAIN worker_dict)
    BY <2>3, <2>6 DEF ReadSound
  <2>. QED BY <1>5, <1>b, <2>1, <2>6, <2>7, <2>8, <2>9, <2>10 DEF ReadSound
<1>6. CASE ~s.stopped /\ w \notin DOMAIN s.dict
  <2>. DEFINE new == DOMAIN s.dict \ DOMAIN worker_dict
  <2>1. IsFiniteSet(new) /\ Cardinality(new) = s.items /\ w \notin new
    <3>1. new \in SUBSET Workers
      BY <1>3
    <3>2. IsFiniteSet(new)
      BY <1>1, <3>1, FS_Subset
    <3>. QED BY <1>6, <3>2 DEF ReadSound
  <2>2. Cardinality(T) <= MaxWorkers => (\A f \in E : f.worker \in DOMAIN s.dict)
    BY DEF ReadSound
  <2>3. CASE s.items > MaxWorkers - 1
    <3>. DEFINE r == [s EXCEPT !.stopped = TRUE]
    <3>1. TakeWorker(s, e) = r
      BY <1>6, <2>3 DEF TakeWorker
    <3>2. r \in ReadState /\ r.dict = s.dict /\ r.items = s.items /\ r.stopped
      BY <1>2 DEF ReadState
    <3>3. ASSUME Cardinality(T) <= MaxWorkers PROVE FALSE
      <4>1. ASSUME NEW v \in new PROVE v \in T
        <5>1. PICK f \in E : f.worker = v
          BY DEF ReadSound
        <5>. QED BY <5>1 DEF ReadSound
      <4>. HIDE DEF new
      <4>2. new \cup {w} \in SUBSET T /\ IsFiniteSet(T)
        BY <1>1, <4>1, FS_Subset
      <4>3. Cardinality(new \cup {w}) = s.items + 1
        BY <2>1, FS_AddElement
      <4>4. Cardinality(new \cup {w}) <= Cardinality(T) /\ Cardinality(T) \in Nat
        BY <4>2, FS_Subset, FS_CardinalityType
      <4>. QED BY <1>1, <1>2, <2>3, <3>3, <4>3, <4>4
    <3>. HIDE DEF r
    <3>. QED BY <1>b, <3>1, <3>2, <3>3 DEF ReadSound
  <2>4. CASE ~(s.items > MaxWorkers - 1)
    <3>. DEFINE item == [valid |-> TRUE, time |-> t]
                d == With(s.dict, w, item)
                r == [s EXCEPT !.dict = d, !.items = @ + 1]
    <3>1. TakeWorker(s, e) = r
      BY <1>6, <2>4 DEF TakeWorker
    <3>2. item \in WorkerItem /\ item.valid /\ item.time = t
      BY <1>1 DEF WorkerItem
    <3>3. DOMAIN d = DOMAIN s.dict \cup {w} /\ d[w] = item /\ \A v \in DOMAIN s.dict : d[v] = s.dict[v]
      <4>. HIDE DEF item
      <4>. QED BY <1>6 DEF With
    <3>4. d \in [DOMAIN s.dict \cup {w} -> WorkerItem]
      <4>1. d = [v \in DOMAIN s.dict \cup {w} |-> d[v]]
        <5>. HIDE DEF item
        <5>. QED BY <3>3 DEF With
      <4>2. \A v \in DOMAIN s.dict \cup {w} : d[v] \in WorkerItem
        <5>. HIDE DEF d, item
        <5>. QED BY <1>a, <3>2, <3>3
      <4>. HIDE DEF d
      <4>. QED BY <4>1, <4>2
    <3>. HIDE DEF item, d
    <3>5. d \in WorkerDicts
      <4>1. DOMAIN s.dict \cup {w} \in SUBSET Workers
        BY <1>1, <1>3
      <4>. QED BY <3>4, <4>1, WorkerDictsAre
    <3>6. r \in ReadState /\ r.dict = d /\ r.items = s.items + 1 /\ r.stopped = s.stopped
      <4>1. s.items + 1 \in Nat
        BY <1>2
      <4>. QED BY <1>2, <3>5, <4>1 DEF ReadState
    <3>. HIDE DEF r
    <3>7. DOMAIN worker_dict \subseteq DOMAIN d /\ DOMAIN d \ DOMAIN worker_dict = new \cup {w}
      BY <1>6, <3>3 DEF ReadSound
    <3>8. r.items = Cardinality(DOMAIN d \ DOMAIN worker_dict)
      BY <2>1, <3>6, <3>7, FS_AddElement
    <3>9. \A v \in DOMAIN d \ DOMAIN worker_dict : d[v].valid
      BY <3>2, <3>3, <3>7 DEF ReadSound
    <3>10. ASSUME NEW v \in DOMAIN d, d[v].valid PROVE \E f \in F : f.worker = v /\ f.time = d[v].time
      <4>1. CASE v \in DOMAIN s.dict
        BY <3>3, <3>10, <4>1 DEF ReadSound
      <4>2. CASE v = w
        BY <3>2, <3>3, <4>2
      <4>. QED BY <3>3, <4>1, <4>2
    <3>11. ASSUME Cardinality(T) <= MaxWorkers, NEW f \in F
           PROVE  f.worker \in DOMAIN d /\ d[f.worker].valid /\ f.time <= d[f.worker].time
      <4>1. CASE f = e
        <5>1. f.worker = w /\ f.time = t /\ t <= t
          <6>1. t \in Nat
            BY <1>1, Zenon
          <6>2. \A n \in Nat : n <= n
            OBVIOUS
          <6>3. t <= t
            BY <6>1, <6>2, Zenon
          <6>. QED BY <4>1, <6>3
        <5>. QED BY <3>2, <3>3, <5>1
      <4>2. CASE f \in E
        BY <3>3, <3>11, <4>2 DEF ReadSound
      <4>. QED BY <4>1, <4>2
    <3>. QED BY <1>6, <1>b, <3>1, <3>6, <3>7, <3>8, <3>9, <3>10, <3>11 DEF ReadSound
  <2>. QED BY <2>3, <2>4
<1>. QED BY <1>4, <1>5, <1>6

\* An array is a list of entries.
LEMMA ArrayIsList ==
    ASSUME NEW array \in WorkerArray
    PROVE  /\ array \in Seq(Entry) /\ Len(array) \in Nat /\ DOMAIN array = 1 .. Len(array)
           /\ \A i \in 1 .. Len(array) : array[i] \in Entry
<1>1. PICK some \in SUBSET Workers :
        array \in {[i \in DOMAIN ws |-> [worker |-> ws[i], time |-> times[ws[i]]]] :
                      ws \in SetToSeqs(some), times \in [some -> Times]}
  BY DEF WorkerArray
<1>2. PICK ws \in SetToSeqs(some), times \in [some -> Times] :
        array = [i \in DOMAIN ws |-> [worker |-> ws[i], time |-> times[ws[i]]]]
  BY <1>1
<1>3. IsFiniteSet(some)
  BY WorkersAssumption, FS_Subset
<1>. DEFINE n == Cardinality(some)
<1>4. n \in Nat
  BY <1>3, FS_CardinalityType
<1>. HIDE DEF n
<1>5. ws \in [1 .. n -> some]
  BY <1>2 DEF SetToSeqs, n
<1>6. array \in [1 .. n -> Entry]
  <2>1. \A i \in 1 .. n : ws[i] \in Workers /\ times[ws[i]] \in Times
    BY <1>2, <1>5
  <2>2. array = [i \in 1 .. n |-> [worker |-> ws[i], time |-> times[ws[i]]]]
    BY <1>2, <1>5
  <2>. QED BY <2>1, <2>2 DEF Entry
<1>. QED BY <1>4, <1>6

\* What is read is a dictionary, a count and a mark.
LEMMA TakeWorkerType ==
    ASSUME NEW s \in ReadState, NEW e \in Entry
    PROVE  TakeWorker(s, e) \in ReadState
<1>. DEFINE w == e.worker
            t == e.time
<1>1. w \in Workers /\ t \in Times
  BY DEF Entry
<1>2. s.dict \in WorkerDicts /\ s.items \in Nat /\ s.stopped \in BOOLEAN
  BY DEF ReadState
<1>3. DOMAIN s.dict \subseteq Workers /\ s.dict \in [DOMAIN s.dict -> WorkerItem]
  BY <1>2, WorkerDictType
<1>4. CASE s.stopped
  BY <1>4 DEF TakeWorker
<1>5. CASE ~s.stopped /\ w \in DOMAIN s.dict
  <2>. DEFINE item == Seen(s.dict[w], t)
              d == [s.dict EXCEPT ![w] = item]
  <2>1. item \in WorkerItem
    BY <1>1, <1>3, <1>5, SeenTime
  <2>2. d \in [DOMAIN s.dict -> WorkerItem]
    <3>. HIDE DEF item
    <3>. QED BY <1>3, <2>1
  <2>3. TakeWorker(s, e) = [s EXCEPT !.dict = d]
    BY <1>5 DEF TakeWorker
  <2>. HIDE DEF d
  <2>4. d \in WorkerDicts
    BY <1>3, <2>2, WorkerDictsAre
  <2>. QED BY <1>2, <2>3, <2>4 DEF ReadState
<1>6. CASE ~s.stopped /\ w \notin DOMAIN s.dict /\ s.items > MaxWorkers - 1
  <2>1. TakeWorker(s, e) = [s EXCEPT !.stopped = TRUE]
    BY <1>6 DEF TakeWorker
  <2>. QED BY <1>2, <2>1 DEF ReadState
<1>7. CASE ~s.stopped /\ w \notin DOMAIN s.dict /\ ~(s.items > MaxWorkers - 1)
  <2>. DEFINE item == [valid |-> TRUE, time |-> t]
              d == With(s.dict, w, item)
  <2>1. item \in WorkerItem
    BY <1>1 DEF WorkerItem
  <2>2. d \in [DOMAIN s.dict \cup {w} -> WorkerItem]
    <3>. HIDE DEF item
    <3>. QED BY <1>3, <2>1 DEF With
  <2>3. TakeWorker(s, e) = [s EXCEPT !.dict = d, !.items = @ + 1]
    BY <1>7 DEF TakeWorker
  <2>. HIDE DEF d
  <2>4. DOMAIN s.dict \cup {w} \in SUBSET Workers /\ s.items + 1 \in Nat
    BY <1>1, <1>2, <1>3
  <2>5. d \in WorkerDicts
    BY <2>2, <2>4, WorkerDictsAre
  <2>. QED BY <1>2, <2>3, <2>4, <2>5 DEF ReadState
<1>. QED BY <1>4, <1>5, <1>6, <1>7

\* The steps of ReadArray.
LEMMA ReadArrayIs ==
    ASSUME NEW s \in ReadState, NEW array \in Seq(Entry)
    PROVE  \E f : /\ ReadArray(s, array) = f[Len(array)]
                  /\ f \in [0 .. Len(array) -> ReadState]
                  /\ f[0] = [s EXCEPT !.stopped = FALSE]
                  /\ \A i \in 1 .. Len(array) : f[i] = TakeWorker(f[i - 1], array[i])
<1>. DEFINE n == Len(array)
            start == [s EXCEPT !.stopped = FALSE]
            step == [i \in 1 .. n |-> [r \in ReadState |-> TakeWorker(r, array[i])]]
            Each(f) == f = [i \in 0 .. n |->
                         IF i = 0 THEN start ELSE TakeWorker(f[i - 1], array[i])]
<1>1. n \in Nat /\ \A i \in 1 .. n : array[i] \in Entry
  OBVIOUS
<1>2. step \in Steps(n, ReadState)
  <2>1. \A i \in 1 .. n, r \in ReadState : TakeWorker(r, array[i]) \in ReadState
    BY <1>1, TakeWorkerType
  <2>. QED BY <2>1 DEF Steps
<1>3. start \in ReadState
  BY DEF ReadState
<1>4. ReadArray(s, array) = (CHOOSE f : Each(f))[n]
  BY DEF ReadArray
<1>. HIDE DEF n, start, step
<1>5. PICK f : Follows(f, n, ReadState, start, step)
  BY <1>1, <1>2, <1>3, Recursion
<1>6. Each(f)
  <2>1. ASSUME NEW i \in 0 .. n
        PROVE  f[i] = IF i = 0 THEN start ELSE TakeWorker(f[i - 1], array[i])
    <3>1. CASE i = 0
      BY <1>5, <3>1 DEF Follows
    <3>2. CASE i # 0
      <4>1. i \in 1 .. n /\ i - 1 \in 0 .. n
        BY <1>1, <3>2
      <4>2. f[i - 1] \in ReadState /\ f[i] = step[i][f[i - 1]]
        BY <1>5, <4>1 DEF Follows
      <4>. QED BY <3>2, <4>1, <4>2 DEF step
    <3>. QED BY <3>1, <3>2
  <2>. QED BY <1>5, <2>1 DEF Follows
<1>. DEFINE g == CHOOSE h : Each(h)
<1>7. Each(g)
  BY <1>6
<1>. HIDE DEF g
<1>. DEFINE Good == {i \in 0 .. n : g[i] \in ReadState}
<1>8. 0 \in Good
  BY <1>1, <1>3, <1>7
<1>9. \A i \in 1 .. n : i \in 0 .. n /\ i # 0
  BY <1>1
<1>10. \A i \in 1 .. n : g[i] = TakeWorker(g[i - 1], array[i])
  BY <1>7, <1>9
<1>11. ASSUME NEW i \in 1 .. n, i - 1 \in Good PROVE i \in Good
  <2>1. g[i - 1] \in ReadState
    BY <1>11
  <2>. QED BY <1>1, <1>9, <1>10, <2>1, TakeWorkerType
<1>12. \A i \in 0 .. n : g[i] \in ReadState
  <2>1. \A i \in 0 .. n : i \in Good
    <3>. HIDE DEF Good
    <3>. QED BY <1>1, <1>8, <1>11, Ascends
  <2>. QED BY <2>1
<1>13. g \in [0 .. n -> ReadState]
  BY <1>7, <1>12
<1>14. g[0] = start
  BY <1>1, <1>7
<1>. QED BY <1>4, <1>10, <1>13, <1>14 DEF g, n, start

\* An array is read.
LEMMA ReadArrayReads ==
    ASSUME worker_dict \in WorkerDicts, NEW T \in SUBSET Workers, NEW E, NEW s, ReadSound(s, E, T),
           NEW array \in Seq(Entry), \A e \in Range(array) : e.worker \in T
    PROVE  ReadSound(ReadArray(s, array), E \cup Range(array), T)
<1>. DEFINE n == Len(array)
            Read(i) == {array[k] : k \in 1 .. i}
<1>1. n \in Nat /\ \A i \in 1 .. n : array[i] \in Entry /\ array[i].worker \in T
  BY DEF Range
<1>2. s \in ReadState
  BY DEF ReadSound
<1>3. PICK f : /\ ReadArray(s, array) = f[n]
               /\ f[0] = [s EXCEPT !.stopped = FALSE]
               /\ \A i \in 1 .. n : f[i] = TakeWorker(f[i - 1], array[i])
  BY <1>2, ReadArrayIs
<1>4. Range(array) = Read(n)
  BY DEF Range
<1>. HIDE DEF n
<1>. DEFINE Good == {i \in 0 .. n : ReadSound(f[i], E \cup Read(i), T)}
<1>5. 0 \in Good
  <2>1. Read(0) = {} /\ 0 \in 0 .. n
    BY <1>1
  <2>2. f[0] \in ReadState /\ f[0].dict = s.dict /\ f[0].items = s.items /\ ~f[0].stopped
    BY <1>2, <1>3 DEF ReadState
  <2>3. ReadSound(f[0], E, T)
    BY <2>2 DEF ReadSound
  <2>. HIDE DEF Read
  <2>. QED BY <2>1, <2>3
<1>6. ASSUME NEW i \in 1 .. n, i - 1 \in Good PROVE i \in Good
  <2>1. Read(i) = Read(i - 1) \cup {array[i]} /\ i \in 0 .. n
    BY <1>1
  <2>2. ReadSound(f[i - 1], E \cup Read(i - 1), T)
    BY <1>6
  <2>3. f[i] = TakeWorker(f[i - 1], array[i])
    BY <1>3
  <2>. HIDE DEF Read
  <2>4. ReadSound(f[i], (E \cup Read(i - 1)) \cup {array[i]}, T)
    BY <1>1, <2>2, <2>3, TakeWorkerReads
  <2>5. (E \cup Read(i - 1)) \cup {array[i]} = E \cup Read(i)
    BY <2>1
  <2>. QED BY <2>1, <2>4, <2>5
<1>7. n \in 0 .. n
  BY <1>1
<1>8. n \in Good
  <2>. HIDE DEF Good
  <2>. QED BY <1>1, <1>5, <1>6, <1>7, Ascends
<1>9. ReadSound(f[n], E \cup Read(n), T)
  BY <1>8
<1>. QED BY <1>3, <1>4, <1>9

\* The steps of ReadArrays.
LEMMA ReadArraysIs ==
    ASSUME worker_dict \in WorkerDicts, NEW arrays \in Seq(WorkerArray)
    PROVE  \E f : /\ ReadArrays(arrays) = f[Len(arrays)]
                  /\ f[0] = [dict |-> Reset(worker_dict), items |-> 0, stopped |-> FALSE]
                  /\ f[0] \in ReadState
                  /\ \A i \in 1 .. Len(arrays) : f[i] = ReadArray(f[i - 1], arrays[i])
<1>. DEFINE n == Len(arrays)
            first == [dict |-> Reset(worker_dict), items |-> 0, stopped |-> FALSE]
            step == [i \in 1 .. n |-> [r \in ReadState |-> ReadArray(r, arrays[i])]]
            Each(f) == f = [i \in 0 .. n |->
                         IF i = 0 THEN first ELSE ReadArray(f[i - 1], arrays[i])]
<1>1. n \in Nat /\ \A i \in 1 .. n : arrays[i] \in WorkerArray
  OBVIOUS
<1>2. step \in Steps(n, ReadState)
  <2>1. ASSUME NEW i \in 1 .. n, NEW r \in ReadState PROVE ReadArray(r, arrays[i]) \in ReadState
    <3>1. arrays[i] \in Seq(Entry) /\ Len(arrays[i]) \in Nat
      BY <1>1, ArrayIsList
    <3>2. PICK f : /\ ReadArray(r, arrays[i]) = f[Len(arrays[i])]
                   /\ f \in [0 .. Len(arrays[i]) -> ReadState]
      BY <3>1, ReadArrayIs
    <3>3. Len(arrays[i]) \in 0 .. Len(arrays[i])
      BY <3>1
    <3>. QED BY <3>2, <3>3
  <2>. QED BY <2>1 DEF Steps
<1>3. first \in ReadState
  <2>1. DOMAIN worker_dict \in SUBSET Workers /\ worker_dict \in [DOMAIN worker_dict -> WorkerItem]
    BY WorkerDictType
  <2>2. Reset(worker_dict) \in [DOMAIN worker_dict -> WorkerItem]
    BY <2>1 DEF Reset, WorkerItem
  <2>3. Reset(worker_dict) \in WorkerDicts
    BY <2>1, <2>2, WorkerDictsAre
  <2>. QED BY <2>3 DEF ReadState
<1>4. ReadArrays(arrays) = (CHOOSE f : Each(f))[n]
  BY DEF ReadArrays
<1>. HIDE DEF n, first, step
<1>5. PICK f : Follows(f, n, ReadState, first, step)
  BY <1>1, <1>2, <1>3, Recursion
<1>6. Each(f)
  <2>1. ASSUME NEW i \in 0 .. n
        PROVE  f[i] = IF i = 0 THEN first ELSE ReadArray(f[i - 1], arrays[i])
    <3>1. CASE i = 0
      BY <1>5, <3>1 DEF Follows
    <3>2. CASE i # 0
      <4>1. i \in 1 .. n /\ i - 1 \in 0 .. n
        BY <1>1, <3>2
      <4>2. f[i - 1] \in ReadState /\ f[i] = step[i][f[i - 1]]
        BY <1>5, <4>1 DEF Follows
      <4>. QED BY <3>2, <4>1, <4>2 DEF step
    <3>. QED BY <3>1, <3>2
  <2>. QED BY <1>5, <2>1 DEF Follows
<1>. DEFINE g == CHOOSE h : Each(h)
<1>7. Each(g)
  BY <1>6
<1>. HIDE DEF g
<1>8. \A i \in 1 .. n : i \in 0 .. n /\ i # 0
  BY <1>1
<1>9. \A i \in 1 .. n : g[i] = ReadArray(g[i - 1], arrays[i])
  BY <1>7, <1>8
<1>10. g[0] = first
  BY <1>1, <1>7
<1>. QED BY <1>3, <1>4, <1>9, <1>10 DEF g, n, first

\* All arrays are read, from a dictionary in which nobody counts.
LEMMA ReadArraysReads ==
    ASSUME worker_dict \in WorkerDicts, NEW arrays \in Seq(WorkerArray)
    PROVE  LET entries == UNION {Range(a) : a \in Range(arrays)}
           IN  /\ ReadSound(ReadArrays(arrays), entries, {e.worker : e \in entries})
               /\ IsFiniteSet(entries)
<1>. DEFINE n == Len(arrays)
            entries == UNION {Range(a) : a \in Range(arrays)}
            T == {e.worker : e \in entries}
            Read(i) == UNION {Range(arrays[k]) : k \in 1 .. i}
<1>1. n \in Nat /\ \A i \in 1 .. n : arrays[i] \in WorkerArray /\ arrays[i] \in Seq(Entry)
  BY ArrayIsList
<1>2. entries = Read(n)
  BY DEF Range
<1>3. \A i \in 1 .. n : Range(arrays[i]) \subseteq entries
  BY <1>2
<1>4. entries \subseteq Entry
  <2>1. \A i \in 1 .. n : Range(arrays[i]) \subseteq Entry
    BY <1>1 DEF Range
  <2>. QED BY <1>2, <2>1
<1>5. IsFiniteSet(entries)
  <2>1. ASSUME NEW s \in Seq(Entry) PROVE IsFiniteSet(Range(s))
    <3>1. Len(s) \in Nat /\ DOMAIN s = 1 .. Len(s)
      OBVIOUS
    <3>2. s \in Surjection(1 .. Len(s), Range(s))
      BY <3>1 DEF Surjection, Range
    <3>3. IsFiniteSet(1 .. Len(s))
      BY <3>1, FS_Interval
    <3>. QED BY <3>2, <3>3, FS_Surjection
  <2>. DEFINE R == {Range(arrays[k]) : k \in 1 .. n}
              f == [k \in 1 .. n |-> Range(arrays[k])]
  <2>2. f \in Surjection(1 .. n, R)
    BY DEF Surjection
  <2>3. IsFiniteSet(1 .. n)
    BY <1>1, FS_Interval
  <2>4. IsFiniteSet(R) /\ \A r \in R : IsFiniteSet(r)
    BY <1>1, <2>1, <2>2, <2>3, FS_Surjection
  <2>. HIDE DEF R
  <2>5. IsFiniteSet(UNION R)
    BY <2>4, FS_UNION
  <2>. QED BY <1>2, <2>5 DEF R
<1>6. PICK f : /\ ReadArrays(arrays) = f[n]
               /\ f[0] = [dict |-> Reset(worker_dict), items |-> 0, stopped |-> FALSE]
               /\ f[0] \in ReadState
               /\ \A i \in 1 .. n : f[i] = ReadArray(f[i - 1], arrays[i])
  BY ReadArraysIs
<1>7. T \in SUBSET Workers /\ \A e \in entries : e.worker \in T
  BY <1>4 DEF Entry
<1>. HIDE DEF n, entries, T
<1>. DEFINE Good == {i \in 0 .. n : ReadSound(f[i], Read(i), T)}
<1>8. 0 \in Good
  <2>1. Read(0) = {} /\ 0 \in 0 .. n
    BY <1>1
  <2>2. f[0].dict = Reset(worker_dict) /\ f[0].items = 0 /\ ~f[0].stopped
    BY <1>6
  <2>3. DOMAIN f[0].dict = DOMAIN worker_dict /\ \A w \in DOMAIN worker_dict : ~f[0].dict[w].valid
    <3>1. worker_dict \in [DOMAIN worker_dict -> WorkerItem]
      BY WorkerDictType
    <3>. QED BY <2>2, <3>1 DEF Reset, WorkerItem
  <2>4. DOMAIN f[0].dict \ DOMAIN worker_dict = {} /\ f[0].items = Cardinality({})
    BY <2>2, <2>3, FS_EmptySet
  <2>5. ReadSound(f[0], {}, T)
    BY <1>6, <2>2, <2>3, <2>4 DEF ReadSound
  <2>. HIDE DEF Read
  <2>. QED BY <2>1, <2>5
<1>9. ASSUME NEW i \in 1 .. n, i - 1 \in Good PROVE i \in Good
  <2>1. Read(i) = Read(i - 1) \cup Range(arrays[i]) /\ i \in 0 .. n
    BY <1>1
  <2>2. ReadSound(f[i - 1], Read(i - 1), T)
    BY <1>9
  <2>3. f[i] = ReadArray(f[i - 1], arrays[i])
    BY <1>6
  <2>. HIDE DEF Read
  <2>4. \A e \in Range(arrays[i]) : e.worker \in T
    BY <1>3, <1>7
  <2>5. ReadSound(f[i], Read(i - 1) \cup Range(arrays[i]), T)
    BY <1>1, <1>7, <2>2, <2>3, <2>4, ReadArrayReads
  <2>. QED BY <2>1, <2>5
<1>10. n \in 0 .. n
  BY <1>1
<1>11. n \in Good
  <2>. HIDE DEF Good
  <2>. QED BY <1>1, <1>8, <1>9, <1>10, Ascends
<1>12. ReadSound(f[n], entries, T)
  BY <1>2, <1>11
<1>. QED BY <1>5, <1>6, <1>12 DEF entries, T

\* Every finite set of naturals that is not empty has a greatest element.
LEMMA FiniteHasMost ==
    ASSUME NEW S, IsFiniteSet(S), S \subseteq Nat, S # {}
    PROVE  \E k \in S : \A m \in S : k >= m
<1>. DEFINE n == Cardinality(S)
            Tops(T) == \E k \in T : \A m \in T : k >= m
            Good == {i \in 0 .. n : \A T \in SUBSET S : Cardinality(T) = i /\ T # {} => Tops(T)}
<1>1. n \in Nat
  BY FS_CardinalityType
<1>. HIDE DEF n
<1>2. 0 \in Good
  <2>1. \A T \in SUBSET S : Cardinality(T) = 0 => T = {}
    BY FS_Subset, FS_EmptySet
  <2>2. 0 \in 0 .. n
    BY <1>1
  <2>3. \A T \in SUBSET S : Cardinality(T) = 0 /\ T # {} => Tops(T)
    BY <2>1, Zenon
  <2>. HIDE DEF Tops
  <2>. QED BY <2>2, <2>3
<1>3. ASSUME NEW i \in 1 .. n, i - 1 \in Good PROVE i \in Good
  <2>1. SUFFICES ASSUME NEW T \in SUBSET S, Cardinality(T) = i, T # {} PROVE Tops(T)
    BY <1>1
  <2>2. PICK x \in T : TRUE
    BY <2>1
  <2>. DEFINE U == T \ {x}
  <2>3. IsFiniteSet(T) /\ Cardinality(U) = i - 1
    BY <2>1, <2>2, FS_Subset, FS_RemoveElement
  <2>4. x \in Nat /\ T = U \cup {x} /\ U \in SUBSET S /\ U \subseteq Nat
    BY <2>2
  <2>5. CASE U = {}
    BY <2>4, <2>5
  <2>6. CASE U # {}
    <3>1. Tops(U)
      BY <1>3, <2>3, <2>4, <2>6
    <3>. HIDE DEF U
    <3>2. PICK k \in U : \A m \in U : k >= m
      BY <3>1
    <3>3. CASE k >= x
      BY <2>4, <3>2, <3>3
    <3>4. CASE x >= k
      <4>1. \A m \in U : x >= m
        BY <2>4, <3>2, <3>4
      <4>2. x >= x
        BY <2>4
      <4>. QED BY <2>2, <2>4, <4>1, <4>2
    <3>5. k >= x \/ x >= k
      BY <2>4
    <3>. QED BY <3>3, <3>4, <3>5
  <2>. QED BY <2>5, <2>6
<1>4. n \in Good
  <2>1. n \in 0 .. n
    BY <1>1
  <2>. HIDE DEF Good
  <2>. QED BY <1>1, <1>2, <1>3, <2>1, Ascends
<1>5. S \in SUBSET S /\ Cardinality(S) = n
  BY DEF n
<1>. QED BY <1>4, <1>5

\* A round leaves a dictionary of workers; those who count in it are those who count
\* when all is read.
LEMMA UpdateLeaves ==
    ASSUME worker_dict \in WorkerDicts, NEW arrays \in Seq(WorkerArray), UpdateWorkers(arrays)
    PROVE  LET d == ReadArrays(arrays).dict
           IN  /\ worker_dict' \in WorkerDicts /\ d \in WorkerDicts
               /\ Counting(worker_dict') = Counting(d)
               /\ \A w \in Counting(d) : worker_dict'[w] = d[w]
<1>. DEFINE s == ReadArrays(arrays)
            gone == DOMAIN s.dict \ Counting(s.dict)
<1>1. s \in ReadState
  BY ReadArraysReads DEF ReadSound
<1>2. s.dict \in WorkerDicts /\ DOMAIN s.dict \subseteq Workers
      /\ s.dict \in [DOMAIN s.dict -> WorkerItem]
  BY <1>1, WorkerDictType DEF ReadState
<1>3. \/ worker_dict' = s.dict
      \/ \E removed \in SUBSET gone : worker_dict' = Restrict(s.dict, DOMAIN s.dict \ removed)
  BY DEF UpdateWorkers, kSubset
<1>. HIDE DEF s
<1>4. CASE worker_dict' = s.dict
  BY <1>2, <1>4 DEF s
<1>5. CASE \E removed \in SUBSET gone : worker_dict' = Restrict(s.dict, DOMAIN s.dict \ removed)
  <2>1. PICK removed \in SUBSET gone : worker_dict' = Restrict(s.dict, DOMAIN s.dict \ removed)
    BY <1>5
  <2>. DEFINE kept == DOMAIN s.dict \ removed
  <2>2. DOMAIN worker_dict' = kept /\ \A w \in kept : worker_dict'[w] = s.dict[w]
    BY <2>1 DEF Restrict
  <2>3. Counting(s.dict) \subseteq kept
    BY DEF Counting
  <2>4. worker_dict' \in [kept -> WorkerItem] /\ kept \in SUBSET Workers
    BY <1>2, <2>1 DEF Restrict
  <2>5. worker_dict' \in WorkerDicts
    BY <2>4, WorkerDictsAre
  <2>6. Counting(worker_dict') = Counting(s.dict)
    BY <2>2, <2>3 DEF Counting
  <2>. QED BY <1>2, <2>2, <2>3, <2>5, <2>6 DEF s
<1>. QED BY <1>3, <1>4, <1>5

\* A list of workers that comes of a round names those the round told of; if there is
\* room for all, it is all that was told.
LEMMA RoundListed ==
    ASSUME worker_dict \in WorkerDicts, NEW arrays \in Seq(WorkerArray), UpdateWorkers(arrays),
           NEW listing \in Listings(worker_dict')
    PROVE  LET entries == UNION {Range(a) : a \in Range(arrays)}
               told == [w \in {e.worker : e \in entries} |->
                          Max({e.time : e \in {d \in entries : d.worker = w}})]
           IN  /\ listing \in UNION {[ws -> Times] : ws \in SUBSET Workers}
               /\ \A w \in DOMAIN listing : w \in DOMAIN told /\ listing[w] <= told[w]
               /\ Cardinality(DOMAIN told) <= MaxWorkers => listing = told
<1>. DEFINE entries == UNION {Range(a) : a \in Range(arrays)}
            T == {e.worker : e \in entries}
            Seen4(w) == {e.time : e \in {d \in entries : d.worker = w}}
            s == ReadArrays(arrays)
            d == s.dict
            C == Counting(d)
<1>1. ReadSound(s, entries, T) /\ IsFiniteSet(entries)
  BY ReadArraysReads
<1>2. /\ worker_dict' \in WorkerDicts /\ d \in WorkerDicts
      /\ Counting(worker_dict') = C /\ \A w \in C : worker_dict'[w] = d[w]
  BY UpdateLeaves
<1>3. PICK some \in kSubset(Min({Cardinality(C), MaxWorkers}), C) :
        listing = [w \in some |-> worker_dict'[w].time]
  BY <1>2 DEF Listings
<1>4. some \subseteq C /\ Cardinality(some) = Min({Cardinality(C), MaxWorkers})
  BY <1>3 DEF kSubset
<1>5. DOMAIN listing = some /\ \A w \in some : listing[w] = d[w].time
  BY <1>2, <1>3, <1>4
<1>6. DOMAIN d \subseteq Workers /\ d \in [DOMAIN d -> WorkerItem] /\ C \subseteq DOMAIN d
      /\ \A w \in C : d[w].valid /\ d[w].time \in Times
  BY <1>2, WorkerDictType DEF Counting, WorkerItem
<1>7. entries \subseteq Entry
  BY <1>1 DEF ReadSound
<1>. HIDE DEF entries, s, C
<1>8. ASSUME NEW w \in T
      PROVE  Max(Seen4(w)) \in Seen4(w) /\ \A t \in Seen4(w) : t <= Max(Seen4(w))
  <2>. DEFINE S == Seen4(w)
              D == {e \in entries : e.worker = w}
              f == [e \in D |-> e.time]
  <2>1. S \subseteq Nat /\ S # {}
    BY <1>7, WorkersAssumption DEF Entry
  <2>2. IsFiniteSet(D)
    BY <1>1, FS_Subset
  <2>3. f \in Surjection(D, S)
    BY DEF Surjection
  <2>4. IsFiniteSet(S)
    BY <2>2, <2>3, FS_Surjection
  <2>. HIDE DEF S
  <2>5. \E k \in S : \A m \in S : k >= m
    BY <2>1, <2>4, FiniteHasMost
  <2>6. Max(S) \in S /\ \A m \in S : Max(S) >= m
    BY <2>5, Zenon DEF Max
  <2>7. \A m \in S : m \in Nat
    BY <2>1
  <2>8. Max(S) \in Nat
    BY <2>6, <2>7
  <2>9. \A m \in S : m <= Max(S)
    BY <2>6, <2>7, <2>8
  <2>. QED BY <2>6, <2>9 DEF S
<1>9. ASSUME NEW w \in C PROVE w \in T /\ d[w].time \in Seen4(w)
  <2>1. PICK e \in entries : e.worker = w /\ e.time = d[w].time
    BY <1>1, <1>6 DEF ReadSound
  <2>. QED BY <2>1
<1>10. ASSUME NEW w \in some PROVE w \in T /\ listing[w] <= Max(Seen4(w))
  BY <1>4, <1>5, <1>8, <1>9
<1>11. listing \in [some -> Times] /\ some \in SUBSET Workers
  BY <1>2, <1>3, <1>4, <1>6
<1>12. ASSUME Cardinality(T) <= MaxWorkers
       PROVE  some = T /\ \A w \in T : listing[w] = Max(Seen4(w))
  <2>1. \A e \in entries : e.worker \in DOMAIN d /\ d[e.worker].valid /\ e.time <= d[e.worker].time
    BY <1>1, <1>12 DEF ReadSound
  <2>2. T \subseteq C
    BY <2>1 DEF C, Counting
  <2>3. C = T
    BY <1>9, <2>2
  <2>4. IsFiniteSet(C) /\ Cardinality(C) \in Nat
    <3>1. C \in SUBSET Workers /\ IsFiniteSet(Workers)
      BY <1>6, WorkersAssumption
    <3>2. IsFiniteSet(C)
      BY <3>1, FS_Subset
    <3>. QED BY <3>2, FS_CardinalityType
  <2>5. Min({Cardinality(C), MaxWorkers}) = Cardinality(C)
    <3>1. \A a, b \in Nat : a <= b => Min({a, b}) = a
      <4>1. SUFFICES ASSUME NEW a \in Nat, NEW b \in Nat, a <= b PROVE Min({a, b}) = a
        OBVIOUS
      <4>2. a \in {a, b} /\ \A m \in {a, b} : a <= m
        BY <4>1
      <4>3. Min({a, b}) \in {a, b} /\ \A m \in {a, b} : Min({a, b}) <= m
        BY <4>2, Zenon DEF Min
      <4>. QED BY <4>1, <4>3
    <3>. HIDE DEF T
    <3>2. MaxWorkers \in Nat
      BY WorkersAssumption
    <3>. QED BY <1>12, <2>3, <2>4, <3>1, <3>2
  <2>6. some = C
    BY <1>4, <2>4, <2>5, FS_Subset
  <2>7. ASSUME NEW w \in T PROVE listing[w] = Max(Seen4(w))
    <3>1. listing[w] = d[w].time /\ d[w].time \in Seen4(w) /\ d[w].time <= Max(Seen4(w))
      BY <1>5, <1>8, <1>9, <2>3, <2>6
    <3>2. \A t \in Seen4(w) : t <= d[w].time
      BY <2>1
    <3>3. Max(Seen4(w)) \in Seen4(w) /\ Seen4(w) \subseteq Nat
      BY <1>7, <1>8, WorkersAssumption DEF Entry
    <3>4. Max(Seen4(w)) <= d[w].time /\ Max(Seen4(w)) \in Nat /\ d[w].time \in Nat
      BY <3>1, <3>2, <3>3
    <3>. QED BY <3>1, <3>4
  <2>. QED BY <2>3, <2>6, <2>7
<1>. DEFINE told == [w \in T |-> Max(Seen4(w))]
<1>13. Cardinality(T) <= MaxWorkers => listing = told
  <2>. HIDE DEF T
  <2>1. listing = [w \in some |-> listing[w]]
    BY <1>3, <1>5
  <2>. QED BY <1>12, <2>1
<1>. QED BY <1>5, <1>10, <1>11, <1>13 DEF entries

-----------------------------------------------------------------------------
\* The hosts are named once each in the upstream's order.
LEMMA HostListNames ==
    /\ IsFiniteSet(Hosts) /\ HostList \in Seq(Hosts)
    /\ Len(HostList) \in Nat \ {0} /\ DOMAIN HostList = 1 .. Len(HostList)
    /\ \A i \in DOMAIN HostList : HostList[i] \in Hosts
    /\ \A h \in Hosts : \E i \in DOMAIN HostList : HostList[i] = h
    /\ \A i, j \in DOMAIN HostList : HostList[i] = HostList[j] => i = j
    /\ Cardinality(Hosts) = Len(HostList)
<1>. DEFINE n == Len(HostList)
<1>1. IsFiniteSet(Hosts) /\ HostList \in Seq(Hosts) /\ n \in Nat \ {0}
      /\ Range(HostList) = Hosts /\ n = Cardinality(Hosts) /\ DOMAIN HostList = 1 .. n
  BY StatAssumption, RouteAssumption
<1>2. HostList \in [1 .. n -> Hosts]
  BY <1>1
<1>3. \A h \in Hosts : \E i \in 1 .. n : HostList[i] = h
  BY <1>1 DEF Range
<1>4. HostList \in Surjection(1 .. n, Hosts)
  BY <1>2, <1>3 DEF Surjection
<1>5. IsFiniteSet(1 .. n) /\ Cardinality(1 .. n) = n
  BY <1>1, FS_Interval
<1>6. HostList \in Injection(1 .. n, Hosts)
  BY <1>1, <1>4, <1>5, FS_SurjSameCardinalityImpliesInj
<1>7. \A i, j \in 1 .. n : HostList[i] = HostList[j] => i = j
  BY <1>1, <1>6 DEF Injection, IsInjective
<1>. QED BY <1>1, <1>2, <1>3, <1>7

\* The next place is the first one after i with a host that is fit.
LEMMA NextPeerIsFirst ==
    ASSUME NEW list \in Seq(Hosts), NEW i \in Nat, NEW fit
    PROVE  LET p == NextPeer(list, i, fit)
           IN  /\ p # Null => p \in i + 1 .. Len(list) /\ list[p] \in fit
               /\ \A j \in i + 1 .. Len(list) : p = Null \/ j < p => list[j] \notin fit
<1>. DEFINE places == {j \in i + 1 .. Len(list) : list[j] \in fit}
            p == NextPeer(list, i, fit)
<1>1. Len(list) \in Nat /\ places \subseteq Nat /\ 0 \notin places
  OBVIOUS
<1>2. CASE places = {}
  BY <1>2 DEF NextPeer
<1>3. CASE places # {}
  <2>1. p = Min(places)
    BY <1>3 DEF NextPeer
  <2>. HIDE DEF places, p
  <2>2. p \in places /\ \A j \in places : p <= j
    BY <1>1, <1>3, <2>1, HasLeast DEF Min
  <2>3. p \in i + 1 .. Len(list) /\ list[p] \in fit /\ p # Null
    BY <1>1, <2>2 DEF places, Null
  <2>4. ASSUME NEW j \in i + 1 .. Len(list), j < p PROVE list[j] \notin fit
    <3>1. j \notin places
      BY <1>1, <2>2, <2>3, <2>4
    <3>. QED BY <3>1 DEF places
  <2>. QED BY <2>3, <2>4 DEF p
<1>. QED BY <1>2, <1>3

-----------------------------------------------------------------------------
\* Place j of the list was asked, or its host was unfit, or it is before the hash
\* peer a put began at.
Sought(x, j) ==
    \/ j \in Range(x.asked)
    \/ x.list[j] \in x.unfit
    \/ x.kind = "hash_put" /\ x.asked[1] = x.hash /\ j < x.hash

\* The places asked go up to the one the request is at, and all before it were
\* sought.
WalkSound(x) ==
    /\ x.pos <= Len(x.list) /\ Len(x.asked) <= x.pos
    /\ IF x.asked = <<>> THEN x.pos = Null ELSE x.asked[Len(x.asked)] = x.pos
    /\ \A i \in DOMAIN x.asked : x.asked[i] \in DOMAIN x.list
    /\ \A i, j \in DOMAIN x.asked : i < j => x.asked[i] < x.asked[j]
    /\ \A j \in DOMAIN x.list : j <= x.pos => Sought(x, j)

WalkEnded(x) == WalkSound(x) /\ \A j \in DOMAIN x.list : Sought(x, j)

\* y is the request x at another place.
SameRequest(x, y) ==
    /\ y.kind = x.kind /\ y.list = x.list /\ y.hash = x.hash /\ y.count = x.count
    /\ y.result = x.result /\ y.reports = x.reports /\ y.arrays = x.arrays
    /\ y.oks = x.oks

\* The list is the upstream's, or that of some of its hosts.
Listed(x) == Len(x.list) <= Len(HostList) /\ (x.kind # "sub" => x.list = HostList)

\* How far the request has come among the hosts.
Reached(x) ==
    /\ Listed(x)
    /\ x.kind = "put" => Len(x.asked) = x.count + 1 /\ x.count + 1 <= Len(HostList)
    /\ x.kind = "ack" => Len(x.asked) = 1 /\ (x.hash # Null => x.asked = <<x.hash>>)
    /\ Walks(x) => \/ WalkSound(x)
                   \/ x.kind = "hash_put" /\ x.asked = <<Null>> /\ x.pos = Null

\* What it keeps of the answers comes of those that were 200.
Heard(x) ==
    /\ x.oks \subseteq DOMAIN x.asked
    /\ x.kind \in {"loop", "max"} => (x.result <=> x.oks # {})
    /\ x.kind = "worker" /\ x.arrays # <<>> => x.oks # {}
    /\ x.kind = "autost" =>
         \A h \in DOMAIN x.reports : \E i \in x.oks : HostList[x.asked[i]] = h

\* The hash peer is known, and if the put begins after it, why.
BodyAwaited(x) ==
    /\ x.kind \in {"put", "hash_put"} /\ x.list = HostList
    /\ x.asked = <<>> /\ x.oks = {} /\ x.count = 0
    /\ x.kind = "put" => x.pos = Null
    /\ x.kind = "hash_put" =>
         /\ x.pos <= Len(HostList)
         /\ x.pos \notin {Null, x.hash} => \A j \in 1 .. x.pos - 1 : HostList[j] \in x.unfit

\* The answer.
EndsTrue(x) ==
    /\ ~ForAll(x) => x.oks \subseteq {Len(x.asked)}
    /\ x.kind \notin {"get", "autost", "worker"} => (x.status = "ok" <=> x.oks # {})
    /\ x.kind = "get" /\ x.status = "ok" => x.oks # {}
    /\ x.kind = "autost" /\ x.status = "ok" => Cardinality(DOMAIN x.reports) = Len(HostList)
    /\ x.kind = "worker" /\ x.status = "ok" => x.arrays # <<>>
    /\ WorkersTold(x)
    /\ Walks(x) /\ x.asked[1] # Null /\ (x.oks = {} \/ ForAll(x)) =>
         \A j \in DOMAIN x.list : Sought(x, j)

RequestInv(x) ==
    /\ x.pc = "body" => BodyAwaited(x)
    /\ x.pc = "asking" => x.asked # <<>> /\ Reached(x) /\ Heard(x) /\ (~ForAll(x) => x.oks = {})
    /\ x.pc = "done" /\ x.asked # <<>> => Reached(x) /\ Heard(x) /\ EndsTrue(x)

RequestsInv == req \in [Requests -> Ctx] /\ \A c \in Requests : RequestInv(req[c])

\* The inductive invariant.
RouteInv == StatInv /\ worker_dict \in WorkerDicts /\ RequestsInv

-----------------------------------------------------------------------------
\* A host is asked.
LEMMA AskMoves ==
    ASSUME req \in [Requests -> Ctx], NEW c \in Requests, NEW x \in Ctx, NEW p \in Nat, NEW fit,
           Ask(c, x, p, fit)
    PROVE  /\ req' = [req EXCEPT ![c] = req'[c]] /\ req' \in [Requests -> Ctx]
           /\ SameRequest(x, req'[c]) /\ req'[c].pc = "asking" /\ req'[c].pos = p
           /\ req'[c].asked = Append(x.asked, p) /\ req'[c].unfit = x.unfit \cup (Hosts \ fit)
           /\ req'[c].status = x.status /\ req'[c].listing = x.listing
<1>. DEFINE asked == Append(x.asked, p)
            unfit == x.unfit \cup (Hosts \ fit)
            y == [x EXCEPT !.pc = "asking", !.pos = p, !.asked = asked, !.unfit = unfit]
<1>1. req' = [req EXCEPT ![c] = y]
  BY DEF Ask
<1>2. asked \in Seq(Nat) /\ unfit \in SUBSET Hosts
  BY DEF Ctx
<1>. HIDE DEF asked, unfit
<1>3. /\ y \in Ctx /\ y.kind = x.kind /\ y.list = x.list /\ y.hash = x.hash
      /\ y.count = x.count
      /\ y.result = x.result /\ y.reports = x.reports /\ y.arrays = x.arrays
      /\ y.oks = x.oks /\ y.status = x.status /\ y.listing = x.listing
      /\ y.pc = "asking" /\ y.pos = p /\ y.asked = asked /\ y.unfit = unfit
  BY <1>2 DEF Ctx, Pcs
<1>. HIDE DEF y
<1>. QED BY <1>1, <1>3 DEF SameRequest, asked, unfit

\* A request is answered.
LEMMA ReplyEnds ==
    ASSUME req \in [Requests -> Ctx], NEW c \in Requests, NEW x \in Ctx, NEW s \in Statuses, NEW fit,
           Reply(c, x, s, fit)
    PROVE  /\ req' = [req EXCEPT ![c] = req'[c]] /\ req' \in [Requests -> Ctx]
           /\ SameRequest(x, req'[c]) /\ req'[c].pc = "done" /\ req'[c].pos = x.pos
           /\ req'[c].asked = x.asked /\ req'[c].unfit = x.unfit \cup (Hosts \ fit)
           /\ req'[c].status = s /\ req'[c].listing = x.listing
<1>. DEFINE unfit == x.unfit \cup (Hosts \ fit)
            y == [x EXCEPT !.pc = "done", !.status = s, !.unfit = unfit]
<1>1. req' = [req EXCEPT ![c] = y]
  BY DEF Reply
<1>2. unfit \in SUBSET Hosts
  BY DEF Ctx
<1>. HIDE DEF unfit
<1>3. /\ y \in Ctx /\ y.kind = x.kind /\ y.list = x.list /\ y.hash = x.hash
      /\ y.count = x.count
      /\ y.result = x.result /\ y.reports = x.reports /\ y.arrays = x.arrays
      /\ y.oks = x.oks /\ y.listing = x.listing
      /\ y.pc = "done" /\ y.pos = x.pos /\ y.asked = x.asked /\ y.unfit = unfit
      /\ y.status = s
  BY <1>2 DEF Ctx, Pcs
<1>. HIDE DEF y
<1>. QED BY <1>1, <1>3 DEF SameRequest, unfit

\* From one host to the next the walk stays sound; with no host left all were sought.
LEMMA AskNextWalks ==
    ASSUME req \in [Requests -> Ctx], NEW c \in Requests, NEW x \in Ctx, WalkSound(x),
           NEW s \in Statuses, NEW fit, AskNext(c, x, x.pos, fit, s)
    PROVE  LET y == req'[c] IN
           /\ req' = [req EXCEPT ![c] = y] /\ req' \in [Requests -> Ctx]
           /\ SameRequest(x, y)
           /\ \/ /\ y.pc = "asking" /\ y.asked # <<>> /\ WalkSound(y)
                 /\ Len(y.asked) = Len(x.asked) + 1
                 /\ \A i \in DOMAIN x.asked : y.asked[i] = x.asked[i]
              \/ y.pc = "done" /\ y.status = s /\ y.asked = x.asked /\ WalkEnded(y)
<1>. DEFINE p == NextPeer(x.list, x.pos, fit)
            y == req'[c]
<1>1. x.list \in Seq(Hosts) /\ x.pos \in Nat /\ x.asked \in Seq(Nat)
      /\ Len(x.list) \in Nat /\ Len(x.asked) \in Nat /\ DOMAIN x.asked = 1 .. Len(x.asked)
      /\ DOMAIN x.list = 1 .. Len(x.list)
  BY DEF Ctx
<1>2. /\ p # Null => p \in x.pos + 1 .. Len(x.list) /\ x.list[p] \in fit
      /\ \A j \in x.pos + 1 .. Len(x.list) : p = Null \/ j < p => x.list[j] \notin fit
  BY <1>1, NextPeerIsFirst
<1>3. \A j \in DOMAIN x.list : x.list[j] \in Hosts
  BY <1>1
<1>4. CASE p # Null /\ Ask(c, x, p, fit)
  <2>. HIDE DEF p, y
  <2>1. p \in Nat /\ p > x.pos /\ p <= Len(x.list) /\ p \in DOMAIN x.list
    BY <1>1, <1>2, <1>4 DEF Null
  <2>a. Ask(c, x, p, fit)
    BY <1>4
  <2>2. /\ req' = [req EXCEPT ![c] = y] /\ req' \in [Requests -> Ctx]
        /\ SameRequest(x, y) /\ y.pc = "asking" /\ y.pos = p
        /\ y.asked = Append(x.asked, p) /\ y.unfit = x.unfit \cup (Hosts \ fit)
    BY <2>1, <2>a, AskMoves DEF y
  <2>3. /\ y.asked # <<>> /\ Len(y.asked) = Len(x.asked) + 1
        /\ DOMAIN y.asked = 1 .. Len(x.asked) + 1
        /\ \A i \in DOMAIN x.asked : y.asked[i] = x.asked[i]
        /\ y.asked[Len(x.asked) + 1] = p
    <3>1. \A q \in Seq(Nat) : /\ Append(q, p) # <<>> /\ Len(Append(q, p)) = Len(q) + 1
                               /\ DOMAIN Append(q, p) = 1 .. Len(q) + 1
                               /\ \A i \in DOMAIN q : Append(q, p)[i] = q[i]
                               /\ Append(q, p)[Len(q) + 1] = p
      BY <2>1
    <3>. QED BY <1>1, <2>2, <3>1
  <2>4. \A i \in DOMAIN x.asked : x.asked[i] <= x.pos
    <3>1. SUFFICES ASSUME NEW i \in DOMAIN x.asked PROVE x.asked[i] <= x.pos
      OBVIOUS
    <3>2. x.asked # <<>> /\ x.asked[Len(x.asked)] = x.pos
      BY <1>1 DEF WalkSound
    <3>3. i = Len(x.asked) \/ i < Len(x.asked)
      BY <1>1
    <3>4. Len(x.asked) \in DOMAIN x.asked /\ x.asked[i] \in Nat
      BY <1>1
    <3>5. i < Len(x.asked) => x.asked[i] < x.pos
      BY <3>2, <3>4 DEF WalkSound
    <3>. QED BY <1>1, <3>2, <3>3, <3>4, <3>5
  <2>5. ASSUME NEW j \in DOMAIN x.list, j <= p PROVE Sought(y, j)
    <3>1. CASE j <= x.pos
      <4>1. Sought(x, j) /\ x.asked # <<>>
        BY <1>1, <3>1 DEF WalkSound, Null
      <4>2. 1 \in DOMAIN x.asked /\ y.asked[1] = x.asked[1]
        BY <1>1, <2>3, <4>1
      <4>3. j \in Range(x.asked) => j \in Range(y.asked)
        BY <1>1, <2>3 DEF Range
      <4>. QED BY <2>2, <4>1, <4>2, <4>3 DEF Sought, SameRequest
    <3>2. CASE j = p
      <4>1. j \in Range(y.asked)
        BY <1>1, <2>3, <3>2 DEF Range
      <4>. QED BY <4>1 DEF Sought
    <3>3. CASE j > x.pos /\ j # p
      <4>1. j \in x.pos + 1 .. Len(x.list) /\ j < p
        BY <1>1, <2>1, <2>5, <3>3
      <4>2. x.list[j] \in y.unfit
        BY <1>2, <1>3, <2>2, <2>5, <4>1
      <4>. QED BY <2>2, <4>2 DEF Sought, SameRequest
    <3>. QED BY <1>1, <3>1, <3>2, <3>3
  <2>6. \A i \in DOMAIN y.asked : y.asked[i] \in DOMAIN x.list
    <3>1. \A i \in DOMAIN x.asked : y.asked[i] \in DOMAIN x.list
      BY <2>3 DEF WalkSound
    <3>2. \A i \in DOMAIN y.asked : i \in DOMAIN x.asked \/ i = Len(x.asked) + 1
      BY <1>1, <2>3
    <3>. QED BY <2>1, <2>3, <3>1, <3>2
  <2>7. \A i, j \in DOMAIN y.asked : i < j => y.asked[i] < y.asked[j]
    <3>1. \A i \in DOMAIN x.asked : x.asked[i] \in Nat
      BY <1>1
    <3>2. SUFFICES ASSUME NEW i \in DOMAIN y.asked, NEW j \in DOMAIN y.asked, i < j
                   PROVE  y.asked[i] < y.asked[j]
      OBVIOUS
    <3>3. i \in DOMAIN x.asked /\ (j \in DOMAIN x.asked \/ j = Len(x.asked) + 1)
      BY <1>1, <2>3, <3>2
    <3>4. CASE j \in DOMAIN x.asked
      BY <2>3, <3>2, <3>3, <3>4 DEF WalkSound
    <3>5. CASE j = Len(x.asked) + 1
      <4>1. y.asked[i] = x.asked[i] /\ x.asked[i] <= x.pos /\ x.asked[i] \in Nat
        BY <2>3, <2>4, <3>1, <3>3
      <4>2. y.asked[j] = p
        BY <2>3, <3>5
      <4>. QED BY <1>1, <2>1, <4>1, <4>2
    <3>. QED BY <3>3, <3>4, <3>5
  <2>8. Len(y.asked) <= p
    BY <1>1, <2>1, <2>3 DEF WalkSound
  <2>9. WalkSound(y)
    BY <2>1, <2>2, <2>3, <2>5, <2>6, <2>7, <2>8 DEF WalkSound, SameRequest
  <2>. QED BY <2>2, <2>3, <2>9 DEF y
<1>5. CASE p = Null /\ Reply(c, x, s, fit)
  <2>. HIDE DEF p
  <2>2. /\ req' = [req EXCEPT ![c] = y] /\ req' \in [Requests -> Ctx]
        /\ SameRequest(x, y) /\ y.pc = "done" /\ y.pos = x.pos
        /\ y.asked = x.asked /\ y.unfit = x.unfit \cup (Hosts \ fit) /\ y.status = s
    BY <1>5, ReplyEnds
  <2>. HIDE DEF y
  <2>3. ASSUME NEW j \in DOMAIN x.list PROVE Sought(y, j)
    <3>1. CASE j <= x.pos
      BY <2>2, <3>1 DEF WalkSound, Sought, SameRequest
    <3>2. CASE ~(j <= x.pos)
      <4>1. j \in x.pos + 1 .. Len(x.list)
        BY <1>1, <3>2
      <4>. QED BY <1>2, <1>3, <1>5, <2>2, <4>1 DEF Sought, SameRequest
    <3>. QED BY <3>1, <3>2
  <2>4. WalkEnded(y)
    BY <2>2, <2>3 DEF WalkEnded, WalkSound, SameRequest
  <2>. QED BY <2>2, <2>4 DEF y
<1>. QED BY <1>4, <1>5 DEF AskNext
-----------------------------------------------------------------------------
\* What was heard stays so when one more host is asked.
LEMMA HeardStays ==
    ASSUME NEW x \in Ctx, NEW y \in Ctx, Heard(x), SameRequest(x, y),
           Len(x.asked) <= Len(y.asked), \A i \in DOMAIN x.asked : y.asked[i] = x.asked[i]
    PROVE  Heard(y)
<1>1. x.asked \in Seq(Nat) /\ y.asked \in Seq(Nat) /\ Len(x.asked) \in Nat /\ Len(y.asked) \in Nat
      /\ DOMAIN x.asked = 1 .. Len(x.asked) /\ DOMAIN y.asked = 1 .. Len(y.asked)
  BY DEF Ctx
<1>2. DOMAIN x.asked \subseteq DOMAIN y.asked
  BY <1>1
<1>3. y.oks \subseteq DOMAIN y.asked
  BY <1>2 DEF Heard, SameRequest
<1>4. ASSUME y.kind = "autost", NEW h \in DOMAIN y.reports
      PROVE  \E i \in y.oks : HostList[y.asked[i]] = h
  <2>1. PICK i \in x.oks : HostList[x.asked[i]] = h
    BY <1>4 DEF Heard, SameRequest
  <2>2. i \in DOMAIN x.asked /\ i \in y.oks
    BY <2>1 DEF Heard, SameRequest
  <2>. QED BY <2>1, <2>2
<1>5. y.kind \in {"loop", "max"} => (y.result <=> y.oks # {})
  BY DEF Heard, SameRequest
<1>6. y.kind = "worker" /\ y.arrays # <<>> => y.oks # {}
  BY DEF Heard, SameRequest
<1>. QED BY <1>3, <1>4, <1>5, <1>6 DEF Heard

\* A request that goes on is asking again, or is done and has sought every host.
LEMMA WalkGoesOn ==
    ASSUME req \in [Requests -> Ctx], NEW c \in Requests, NEW x \in Ctx, WalkSound(x), Walks(x),
           Listed(x), Heard(x), NEW s \in Statuses, NEW fit, AskNext(c, x, x.pos, fit, s)
    PROVE  LET y == req'[c] IN
           /\ req' = [req EXCEPT ![c] = y] /\ y \in Ctx /\ SameRequest(x, y)
           /\ Walks(y) /\ Reached(y) /\ Heard(y)
           /\ \/ y.pc = "asking" /\ y.asked # <<>>
              \/ /\ y.pc = "done" /\ y.status = s /\ y.asked = x.asked
                 /\ \A j \in DOMAIN y.list : Sought(y, j)
<1>. DEFINE y == req'[c]
<1>1. /\ req' = [req EXCEPT ![c] = y] /\ req' \in [Requests -> Ctx]
      /\ SameRequest(x, y)
      /\ \/ /\ y.pc = "asking" /\ y.asked # <<>> /\ WalkSound(y)
            /\ Len(y.asked) = Len(x.asked) + 1
            /\ \A i \in DOMAIN x.asked : y.asked[i] = x.asked[i]
         \/ y.pc = "done" /\ y.status = s /\ y.asked = x.asked /\ WalkEnded(y)
  BY AskNextWalks
<1>2. y \in Ctx
  BY <1>1
<1>. HIDE DEF y
<1>3. Len(x.asked) \in Nat
  BY DEF Ctx
<1>4. Walks(y) /\ Listed(y) /\ y.kind \notin {"put", "ack"}
  BY <1>1 DEF Walks, Listed, SameRequest
<1>5. WalkSound(y)
  BY <1>1 DEF WalkEnded
<1>6. Heard(y)
  <2>1. Len(x.asked) <= Len(y.asked) /\ \A i \in DOMAIN x.asked : y.asked[i] = x.asked[i]
    BY <1>1, <1>3
  <2>. QED BY <1>1, <1>2, <2>1, HeardStays
<1>. QED BY <1>1, <1>2, <1>4, <1>5, <1>6 DEF Reached, WalkEnded, y

\* The places asked go up, so none comes twice and they are no more than the hosts.
LEMMA WalkIsInjective ==
    ASSUME NEW x \in Ctx, Reached(x), Walks(x), x.asked # <<>>
    PROVE  IsInjective(x.asked) /\ Len(x.asked) <= Len(HostList)
<1>1. x.asked \in Seq(Nat) /\ Len(x.asked) \in Nat /\ DOMAIN x.asked = 1 .. Len(x.asked)
      /\ x.list \in Seq(Hosts) /\ Len(x.list) \in Nat /\ x.pos \in Nat
  BY DEF Ctx
<1>2. CASE WalkSound(x)
  <2>1. \A i \in DOMAIN x.asked : x.asked[i] \in Nat
    BY <1>1
  <2>2. \A i, j \in DOMAIN x.asked : i < j => x.asked[i] < x.asked[j]
    BY <1>2 DEF WalkSound
  <2>3. ASSUME NEW i \in DOMAIN x.asked, NEW j \in DOMAIN x.asked, x.asked[i] = x.asked[j]
        PROVE  i = j
    <3>1. ~(i < j) /\ ~(j < i)
      BY <2>1, <2>2, <2>3
    <3>. QED BY <1>1, <3>1
  <2>4. Len(x.asked) <= Len(HostList)
    BY <1>1, <1>2, HostListNames DEF WalkSound, Reached, Listed
  <2>. QED BY <2>3, <2>4 DEF IsInjective
<1>3. CASE x.asked = <<Null>>
  BY <1>3, HostListNames DEF IsInjective
<1>. QED BY <1>2, <1>3 DEF Reached

\* If the statistics of all hosts are in, all hosts said 200.
LEMMA AllHostsHeard ==
    ASSUME NEW x \in Ctx, Reached(x), Heard(x), x.asked # <<>>, x.kind = "autost",
           Cardinality(DOMAIN x.reports) = Len(HostList)
    PROVE  x.oks = DOMAIN HostList
<1>. DEFINE n == Len(HostList)
<1>1. x.asked \in Seq(Nat) /\ Len(x.asked) \in Nat /\ DOMAIN x.asked = 1 .. Len(x.asked)
      /\ DOMAIN x.reports \subseteq Hosts
  BY DEF Ctx
<1>2. n \in Nat \ {0} /\ DOMAIN HostList = 1 .. n
  BY HostListNames
<1>3. Len(x.asked) <= n
  BY WalkIsInjective DEF Walks
<1>4. DOMAIN x.reports = Hosts
  BY <1>1, HostListNames, FS_Subset
<1>5. x.oks \subseteq 1 .. n
  BY <1>1, <1>2, <1>3 DEF Heard
<1>6. IsFiniteSet(1 .. n) /\ Cardinality(1 .. n) = n
  <2>. HIDE DEF n
  <2>1. 1 \in Int /\ n \in Int /\ ~(1 > n) /\ n - 1 + 1 = n
    BY <1>2
  <2>. QED BY <2>1, FS_Interval
<1>7. IsFiniteSet(x.oks) /\ Cardinality(x.oks) <= n /\ Cardinality(x.oks) \in Nat
      /\ (Cardinality(x.oks) = n => x.oks = 1 .. n)
  <2>1. x.oks \in SUBSET (1 .. n)
    BY <1>5
  <2>2. IsFiniteSet(x.oks) /\ Cardinality(x.oks) <= Cardinality(1 .. n)
        /\ (Cardinality(1 .. n) = Cardinality(x.oks) => 1 .. n = x.oks)
    BY <1>6, <2>1, FS_Subset
  <2>3. Cardinality(x.oks) \in Nat
    BY <2>2, FS_CardinalityType
  <2>. QED BY <1>6, <2>2, <2>3
<1>8. Hosts \subseteq {HostList[x.asked[i]] : i \in x.oks}
  BY <1>4 DEF Heard
<1>. DEFINE f == [i \in x.oks |-> HostList[x.asked[i]]]
            T == {HostList[x.asked[i]] : i \in x.oks}
<1>9. f \in Surjection(x.oks, T)
  BY DEF Surjection
<1>10. IsFiniteSet(T) /\ Cardinality(T) <= Cardinality(x.oks)
  BY <1>7, <1>9, FS_Surjection
<1>11. Cardinality(Hosts) <= Cardinality(T) /\ Cardinality(T) \in Nat
  BY <1>8, <1>10, FS_Subset, FS_CardinalityType
<1>12. n <= Cardinality(x.oks)
  BY <1>7, <1>10, <1>11, HostListNames
<1>. QED BY <1>2, <1>7, <1>12

\* The invariant implies both properties.
LEMMA RouteInvTells == ASSUME RouteInv PROVE GivesUpLast /\ AnswerTellsTrue
<1>1. SUFFICES ASSUME NEW c \in Requests, Over(c)
               PROVE  LET x == req[c] IN
                      /\ Walks(x) /\ x.asked[1] # Null /\ (x.oks = {} \/ ForAll(x)) =>
                           \A j \in DOMAIN x.list : Sought(x, j)
                      /\ Len(x.asked) <= Len(HostList)
                      /\ Walks(x) => IsInjective(x.asked)
                      /\ ~ForAll(x) => x.oks \subseteq {Len(x.asked)}
                      /\ x.status = "ok" => x.oks # {}
                      /\ x.oks # {} /\ x.kind \notin {"get", "autost", "worker"} => x.status = "ok"
                      /\ x.kind = "autost" /\ x.status = "ok" => x.oks = DOMAIN HostList
                      /\ x.kind = "ack" /\ x.hash # Null => x.asked = <<x.hash>>
                      /\ WorkersTold(x)
  BY DEF GivesUpLast, AnswerTellsTrue, Sought
<1>. DEFINE x == req[c]
<1>2. x \in Ctx /\ x.asked # <<>> /\ Reached(x) /\ Heard(x) /\ EndsTrue(x)
  BY <1>1 DEF RouteInv, RequestsInv, RequestInv, Over
<1>. HIDE DEF x
<1>3. x.asked \in Seq(Nat) /\ Len(x.asked) \in Nat /\ x.count \in Nat
      /\ x.kind \in Kinds
  BY <1>2 DEF Ctx
<1>4. Len(HostList) \in Nat \ {0} /\ DOMAIN HostList = 1 .. Len(HostList)
  BY HostListNames
<1>5. Len(x.asked) <= Len(HostList) /\ (Walks(x) => IsInjective(x.asked))
  <2>1. CASE Walks(x)
    BY <1>2, <2>1, WalkIsInjective
  <2>2. CASE ~Walks(x)
    <3>1. x.kind = "put" \/ x.kind = "ack"
      BY <1>3, <2>2 DEF Walks, Kinds
    <3>2. (Len(x.asked) = x.count + 1 /\ x.count + 1 <= Len(HostList)) \/ Len(x.asked) = 1
      BY <1>2, <3>1 DEF Reached
    <3>3. \A a, b, n \in Nat : (a = n + 1 /\ n + 1 <= b) \/ (a = 1 /\ b # 0) => a <= b
      OBVIOUS
    <3>4. Len(HostList) \in Nat /\ Len(HostList) # 0
      BY <1>4
    <3>5. Len(x.asked) <= Len(HostList)
      BY <1>3, <3>2, <3>3, <3>4, Zenon
    <3>. QED BY <2>2, <3>5
  <2>. QED BY <2>1, <2>2
<1>6. x.kind = "autost" /\ x.status = "ok" => x.oks = DOMAIN HostList
  <2>1. x.kind = "autost" /\ x.status = "ok" => Cardinality(DOMAIN x.reports) = Len(HostList)
    BY <1>2 DEF EndsTrue
  <2>. QED BY <1>2, <2>1, AllHostsHeard
<1>7. x.status = "ok" => x.oks # {}
  <2>1. CASE x.kind = "autost"
    <3>1. 1 \in DOMAIN HostList
      BY <1>4
    <3>. QED BY <1>6, <2>1, <3>1
  <2>2. CASE x.kind = "worker"
    BY <1>2, <2>2 DEF EndsTrue, Heard
  <2>3. CASE x.kind \notin {"autost", "worker"}
    BY <1>2, <2>3 DEF EndsTrue
  <2>. QED BY <2>1, <2>2, <2>3
<1>. QED BY <1>2, <1>5, <1>6, <1>7 DEF EndsTrue, Reached, x
-----------------------------------------------------------------------------
(* The requests, one step at a time.                                       *)

\* One request changes.
LEMMA OneRequest ==
    ASSUME RequestsInv, NEW c \in Requests, req' = [req EXCEPT ![c] = req'[c]],
           req'[c] \in Ctx, RequestInv(req'[c])
    PROVE  RequestsInv'
<1>1. req' \in [Requests -> Ctx]
  BY DEF RequestsInv
<1>2. ASSUME NEW d \in Requests PROVE RequestInv(req'[d])
  <2>1. CASE d = c
    BY <2>1
  <2>2. CASE d # c
    <3>1. req'[d] = req[d]
      BY <2>2 DEF RequestsInv
    <3>. QED BY <3>1 DEF RequestsInv
  <2>. QED BY <2>1, <2>2
<1>. QED BY <1>1, <1>2 DEF RequestsInv

\* A context that was just made.
IsNew(x, kind, list) ==
    /\ x \in Ctx /\ x.kind = kind /\ x.list = list /\ x.pc = "new"
    /\ x.pos = Null /\ x.hash = Null /\ x.count = 0 /\ x.asked = <<>> /\ x.oks = {}
    /\ x.result = FALSE /\ x.reports = <<>> /\ x.arrays = <<>> /\ x.unfit = {}

\* A request that comes.
LEMMA NewCtxIs ==
    ASSUME NEW kind \in Kinds, NEW q \in Names, NEW list \in Seq(Hosts)
    PROVE  IsNew(NewCtx(kind, q, list), kind, list)
<1>. DEFINE R == UNION {[hosts -> Report] : hosts \in SUBSET Hosts}
            L == UNION {[ws -> Times] : ws \in SUBSET Workers}
<1>1. <<>> \in R
  <2>1. <<>> \in [{} -> Report] /\ {} \in SUBSET Hosts
    OBVIOUS
  <2>. QED BY <2>1
<1>2. <<>> \in L
  <2>1. <<>> \in [{} -> Times] /\ {} \in SUBSET Workers
    OBVIOUS
  <2>. QED BY <2>1
<1>3. <<>> \in Seq(WorkerArray) /\ <<>> \in Seq(Nat) /\ Null \in Nat
  BY DEF Null
<1>. HIDE DEF R, L
<1>. QED BY <1>1, <1>2, <1>3 DEF IsNew, NewCtx, Ctx, Pcs, Statuses, R, L

\* An answer before anybody is asked.
LEMMA ReplyAtOnce ==
    ASSUME RequestsInv, NEW c \in Requests, NEW x \in Ctx, x.asked = <<>>, NEW s \in Statuses, NEW fit,
           Reply(c, x, s, fit)
    PROVE  RequestsInv'
<1>1. /\ req' = [req EXCEPT ![c] = req'[c]] /\ req' \in [Requests -> Ctx]
      /\ req'[c].pc = "done" /\ req'[c].asked = <<>>
  BY ReplyEnds DEF RequestsInv
<1>2. RequestInv(req'[c]) /\ req'[c] \in Ctx
  BY <1>1 DEF RequestInv
<1>. QED BY <1>1, <1>2, OneRequest

\* The body is awaited.
LEMMA WaitBodyWaits ==
    ASSUME RequestsInv, NEW c \in Requests, NEW x \in Ctx, NEW fit, WaitBody(c, x, fit),
           BodyAwaited([x EXCEPT !.unfit = @ \cup (Hosts \ fit)])
    PROVE  RequestsInv'
<1>. DEFINE unfit == x.unfit \cup (Hosts \ fit)
            y == [x EXCEPT !.pc = "body", !.unfit = unfit]
            z == [x EXCEPT !.unfit = unfit]
<1>1. req' = [req EXCEPT ![c] = y]
  BY DEF WaitBody
<1>2. unfit \in SUBSET Hosts
  BY DEF Ctx
<1>3. BodyAwaited(z)
  OBVIOUS
<1>. HIDE DEF unfit
<1>4. /\ y \in Ctx /\ y.pc = "body" /\ y.kind = z.kind /\ y.list = z.list /\ y.asked = z.asked
      /\ y.oks = z.oks /\ y.count = z.count /\ y.pos = z.pos /\ y.hash = z.hash /\ y.unfit = z.unfit
  BY <1>2 DEF Ctx, Pcs
<1>. HIDE DEF y, z
<1>5. RequestInv(y)
  BY <1>3, <1>4 DEF RequestInv, BodyAwaited
<1>6. req'[c] = y
  BY <1>1 DEF RequestsInv
<1>. QED BY <1>1, <1>4, <1>5, <1>6, OneRequest

\* The first host of a request that goes from one to the next.
LEMMA FirstAskNext ==
    ASSUME RequestsInv, NEW c \in Requests, NEW kind \in Kinds \ {"put", "ack", "hash_put"},
           NEW q \in Names, NEW list \in Seq(Hosts), Len(list) <= Len(HostList),
           kind # "sub" => list = HostList, NEW fit,
           AskNext(c, NewCtx(kind, q, list), 0, fit, "closed")
    PROVE  RequestsInv'
<1>. DEFINE x == NewCtx(kind, q, list)
            y == req'[c]
<1>1. /\ x \in Ctx /\ x.kind = kind /\ x.list = list /\ x.pos = Null
      /\ x.count = 0 /\ x.asked = <<>> /\ x.oks = {}
      /\ x.result = FALSE /\ x.reports = <<>> /\ x.arrays = <<>>
  <2>1. kind \in Kinds
    OBVIOUS
  <2>. HIDE DEF y
  <2>2. IsNew(x, kind, list)
    BY <2>1, NewCtxIs
  <2>. HIDE DEF x
  <2>. QED BY <2>2 DEF IsNew
<1>2. AskNext(c, x, x.pos, fit, "closed")
  BY <1>1 DEF Null
<1>. HIDE DEF x
<1>3. Walks(x) /\ Listed(x)
  BY <1>1 DEF Walks, Listed, Kinds
<1>4. Heard(x)
  BY <1>1 DEF Heard
<1>5. WalkSound(x)
  <2>1. Len(x.list) \in Nat /\ DOMAIN x.list = 1 .. Len(x.list) /\ Len(x.asked) = 0
        /\ DOMAIN x.asked = {} /\ x.pos = 0
    BY <1>1 DEF Null
  <2>. QED BY <1>1, <2>1 DEF WalkSound
<1>6. /\ req' = [req EXCEPT ![c] = y] /\ y \in Ctx /\ SameRequest(x, y)
      /\ Walks(y) /\ Reached(y) /\ Heard(y)
      /\ \/ y.pc = "asking" /\ y.asked # <<>>
         \/ y.pc = "done" /\ y.asked = x.asked
  <2>1. req \in [Requests -> Ctx] /\ x \in Ctx /\ "closed" \in Statuses
    BY <1>1 DEF RequestsInv, Statuses
  <2>. QED BY <1>2, <1>3, <1>4, <1>5, <2>1, WalkGoesOn
<1>. HIDE DEF y
<1>7. RequestInv(y)
  BY <1>1, <1>6 DEF RequestInv, SameRequest
<1>. QED BY <1>6, <1>7, OneRequest DEF y

\* The number of a host that comes back with an ack is that host's.
LEMMA AckComesBack ==
    ASSUME NEW h \in Hosts
    PROVE  /\ PeerDict[h] \in DOMAIN HostList /\ HostList[PeerDict[h]] = h
           /\ DecodeAckPeer(EncodeAckPeer(h)) = PeerDict[h]
<1>. DEFINE n == Len(HostList)
<1>1. n \in Nat /\ DOMAIN HostList = 1 .. n
      /\ \A i, j \in 1 .. n : HostList[i] = HostList[j] => i = j
  BY HostListNames
<1>2. PICK i \in 1 .. n : HostList[i] = h
  BY HostListNames
<1>3. Range(HostList) = Hosts
  BY RouteAssumption
<1>. HIDE DEF n
<1>4. {p \in DOMAIN HostList : HostList[p] = h} = {i}
  BY <1>1, <1>2
<1>5. Max({i}) = i /\ Min({i}) = i
  <2>1. i >= i /\ i <= i
    BY <1>1, <1>2
  <2>. QED BY <2>1 DEF Max, Min
<1>6. PeerDict[h] = i
  BY <1>3, <1>4, <1>5 DEF PeerDict
<1>7. EncodeAckPeer(h) = i - 1
  BY <1>2, <1>4, <1>5, <1>6 DEF EncodeAckPeer, HashTable
<1>8. DecodeAckPeer(i - 1) = i
  <2>1. ~(i - 1 > n - 1) /\ i - 1 + 1 = i
    BY <1>1, <1>2
  <2>. QED BY <2>1 DEF DecodeAckPeer, n
<1>. QED BY <1>1, <1>2, <1>6, <1>7, <1>8

\* An ack asks one host.
LEMMA AckAsks ==
    ASSUME RequestsInv, NEW c \in Requests, NEW x \in Ctx, x.kind = "ack", x.list = HostList,
           x.asked = <<>>, x.oks = {}, NEW p \in Nat, x.hash # Null => p = x.hash,
           Ask(c, x, p, Hosts)
    PROVE  RequestsInv'
<1>. DEFINE y == req'[c]
<1>1. /\ req' = [req EXCEPT ![c] = y] /\ req' \in [Requests -> Ctx]
      /\ SameRequest(x, y) /\ y.pc = "asking" /\ y.asked = Append(x.asked, p)
  BY AskMoves DEF RequestsInv
<1>2. y \in Ctx
  BY <1>1
<1>3. Append(<<>>, p) = <<p>> /\ Len(<<p>>) = 1 /\ <<p>> # <<>>
  OBVIOUS
<1>. HIDE DEF y
<1>4. y.asked = <<p>> /\ y.kind = "ack" /\ y.list = HostList /\ y.hash = x.hash /\ y.oks = {}
  BY <1>1, <1>3 DEF SameRequest
<1>5. Len(HostList) \in Nat
  BY HostListNames
<1>6. Reached(y) /\ Heard(y)
  BY <1>3, <1>4, <1>5 DEF Reached, Listed, Walks, Heard
<1>7. RequestInv(y)
  BY <1>1, <1>3, <1>4, <1>6 DEF RequestInv
<1>. QED BY <1>1, <1>2, <1>7, OneRequest DEF y

\* A request arrives.
LEMMA ArriveKeeps ==
    ASSUME RouteInv, NEW c \in Requests, NEW q \in Names, Arrive(c, q)
    PROVE  RequestsInv'
<1>1. RequestsInv /\ StatInv
  BY DEF RouteInv
<1>2. HostList \in Seq(Hosts) /\ Len(HostList) \in Nat \ {0} /\ DOMAIN HostList = 1 .. Len(HostList)
  BY HostListNames
<1>3. {"ok", "not_found", "closed"} \subseteq Statuses
  BY DEF Statuses
<1>4. \A kind \in Kinds : IsNew(NewCtx(kind, q, HostList), kind, HostList)
  BY <1>2, NewCtxIs
<1>5. ASSUME NEW kind \in Kinds, NEW s \in {"ok", "not_found", "closed"}, NEW fit,
             Reply(c, NewCtx(kind, q, HostList), s, fit)
      PROVE  RequestsInv'
  <2>. DEFINE x == NewCtx(kind, q, HostList)
  <2>1. x \in Ctx /\ x.asked = <<>> /\ s \in Statuses
    <3>1. IsNew(x, kind, HostList)
      BY <1>4
    <3>. HIDE DEF x
    <3>. QED BY <1>3, <3>1 DEF IsNew
  <2>. HIDE DEF x
  <2>2. Reply(c, x, s, fit)
    BY <1>5 DEF x
  <2>. QED BY <1>1, <2>1, <2>2, ReplyAtOnce
<1>6. ASSUME NEW kind \in {"get", "loop", "max", "autost"}, NEW fit,
             AskNext(c, NewCtx(kind, q, HostList), 0, fit, "closed")
      PROVE  RequestsInv'
  <2>1. kind \in Kinds \ {"put", "ack", "hash_put"} /\ Len(HostList) <= Len(HostList)
    BY <1>2 DEF Kinds
  <2>. QED BY <1>1, <1>2, <1>6, <2>1, FirstAskNext
<1>7. ASSUME FirstPut(c, q) PROVE RequestsInv'
  <2>. DEFINE x == NewCtx("put", q, HostList)
  <2>1. CASE PutRefused(c, x)
    BY <1>5, <2>1 DEF PutRefused, Kinds
  <2>2. CASE WaitBody(c, x, Hosts)
    <3>. DEFINE z == [x EXCEPT !.unfit = @ \cup (Hosts \ Hosts)]
    <3>1. x \in Ctx /\ x.kind = "put" /\ x.list = HostList /\ x.pos = Null /\ x.count = 0
          /\ x.asked = <<>> /\ x.oks = {}
      <4>1. IsNew(x, "put", HostList)
        BY <1>4 DEF Kinds
      <4>. HIDE DEF x
      <4>. QED BY <4>1 DEF IsNew
    <3>. HIDE DEF x
    <3>2. BodyAwaited(z)
      BY <3>1 DEF BodyAwaited, Ctx
    <3>. QED BY <1>1, <2>2, <3>1, <3>2, WaitBodyWaits
  <2>. QED BY <1>7, <2>1, <2>2 DEF FirstPut
<1>8. ASSUME NEW alive \in SUBSET Hosts, FirstHashPut(c, q, alive) PROVE RequestsInv'
  <2>1. PICK hash \in DOMAIN HashTable :
          LET x == [NewCtx("hash_put", q, HostList) EXCEPT !.hash = hash]
              p == IF HostList[hash] \in alive THEN hash ELSE NextPeer(HostList, 0, alive)
          IN  PutRefused(c, x) \/ WaitBody(c, [x EXCEPT !.pos = p], alive)
    BY <1>8 DEF FirstHashPut
  <2>. DEFINE new == NewCtx("hash_put", q, HostList)
              x == [new EXCEPT !.hash = hash]
              p == IF HostList[hash] \in alive THEN hash ELSE NextPeer(HostList, 0, alive)
  <2>2. hash \in 1 .. Len(HostList) /\ hash \in Nat
    BY <1>2 DEF HashTable
  <2>3. new \in Ctx /\ new.kind = "hash_put" /\ new.list = HostList /\ new.count = 0
          /\ new.asked = <<>> /\ new.oks = {}
    <3>1. IsNew(new, "hash_put", HostList)
      BY <1>4 DEF Kinds
    <3>. HIDE DEF new
    <3>. QED BY <3>1 DEF IsNew
  <2>. HIDE DEF new
  <2>4. x \in Ctx /\ x.kind = "hash_put" /\ x.list = HostList /\ x.count = 0 /\ x.hash = hash
          /\ x.asked = <<>> /\ x.oks = {}
    BY <2>2, <2>3 DEF Ctx
  <2>5. CASE PutRefused(c, x)
    <3>. HIDE DEF x
    <3>. QED BY <1>1, <1>3, <2>4, <2>5, ReplyAtOnce DEF PutRefused
  <2>6. CASE WaitBody(c, [x EXCEPT !.pos = p], alive)
    <3>. DEFINE y == [x EXCEPT !.pos = p]
                z == [y EXCEPT !.unfit = @ \cup (Hosts \ alive)]
    <3>1. /\ p \in Nat /\ p <= Len(HostList)
          /\ p \notin {Null, hash} => \A j \in 1 .. p - 1 : HostList[j] \in Hosts \ alive
      <4>1. CASE p = hash
        BY <1>2, <2>2, <4>1
      <4>2. CASE p = NextPeer(HostList, 0, alive)
        <5>. HIDE DEF p
        <5>1. /\ p # Null => p \in 0 + 1 .. Len(HostList)
              /\ \A j \in 0 + 1 .. Len(HostList) : p = Null \/ j < p => HostList[j] \notin alive
          BY <1>2, <4>2, NextPeerIsFirst
        <5>2. p \in Nat /\ p <= Len(HostList)
          BY <1>2, <5>1 DEF Null
        <5>3. ASSUME p # Null, NEW j \in 1 .. p - 1 PROVE HostList[j] \in Hosts \ alive
          <6>1. j \in 0 + 1 .. Len(HostList) /\ j < p /\ j \in DOMAIN HostList
            BY <1>2, <5>2, <5>3
          <6>. QED BY <1>2, <5>1, <6>1
        <5>. QED BY <5>2, <5>3
      <4>. QED BY <4>1, <4>2
    <3>. HIDE DEF x, p
    <3>2. /\ y \in Ctx /\ y.kind = "hash_put" /\ y.list = HostList /\ y.count = 0 /\ y.hash = hash
          /\ y.asked = <<>> /\ y.oks = {} /\ y.pos = p
      BY <2>4, <3>1 DEF Ctx
    <3>3. WaitBody(c, y, alive)
      BY <2>6
    <3>. HIDE DEF y
    <3>4. /\ z.kind = "hash_put" /\ z.list = HostList /\ z.count = 0 /\ z.hash = hash
          /\ z.asked = <<>> /\ z.oks = {} /\ z.pos = p /\ Hosts \ alive \subseteq z.unfit
      BY <3>2 DEF Ctx
    <3>5. BodyAwaited(z)
      <4>. HIDE DEF z
      <4>. QED BY <3>1, <3>4 DEF BodyAwaited
    <3>. QED BY <1>1, <3>2, <3>3, <3>5, WaitBodyWaits
  <2>. QED BY <2>1, <2>5, <2>6 DEF new
<1>9. ASSUME NEW alive \in SUBSET Hosts, FirstGet(c, q, alive) PROVE RequestsInv'
  BY <1>5, <1>6, <1>9 DEF FirstGet, Kinds
<1>10. ASSUME NEW alive \in SUBSET Hosts, NEW kind \in Kinds, FirstLoop(c, kind, q, alive)
       PROVE  RequestsInv'
  BY <1>5, <1>6, <1>10 DEF FirstLoop
<1>11. ASSUME NEW alive \in SUBSET Hosts, FirstAutost(c, q, alive) PROVE RequestsInv'
  BY <1>6, <1>11 DEF FirstAutost
<1>12. ASSUME NEW alive \in SUBSET Hosts, FirstSub(c, q, alive) PROVE RequestsInv'
  <2>1. CASE Reply(c, NewCtx("sub", q, <<>>), "closed", Hosts)
    <3>. DEFINE x == NewCtx("sub", q, <<>>)
    <3>1. x \in Ctx /\ x.asked = <<>>
      <4>1. <<>> \in Seq(Hosts) /\ "sub" \in Kinds
        BY DEF Kinds
      <4>2. IsNew(x, "sub", <<>>)
        BY <4>1, NewCtxIs
      <4>. HIDE DEF x
      <4>. QED BY <4>2 DEF IsNew
    <3>. HIDE DEF x
    <3>2. Reply(c, x, "closed", Hosts)
      BY <2>1 DEF x
    <3>. QED BY <1>1, <1>3, <3>1, <3>2, ReplyAtOnce
  <2>2. CASE /\ q \in DOMAIN dict
             /\ \E list \in SubPeerLists(q) :
                  AskNext(c, NewCtx("sub", q, list), 0, alive, "closed")
    <3>1. PICK list \in SubPeerLists(q) : AskNext(c, NewCtx("sub", q, list), 0, alive, "closed")
      BY <2>2
    <3>2. PICK hosts \in SUBSET DOMAIN dict[q] : list \in SetToSeqs(hosts)
      BY DEF SubPeerLists
    <3>3. hosts \in SUBSET Hosts
      BY <1>1, <2>2 DEF StatInv
    <3>4. Cardinality(hosts) <= Len(HostList) /\ Cardinality(hosts) \in Nat
      <4>1. IsFiniteSet(hosts) /\ Cardinality(hosts) <= Cardinality(Hosts)
        BY <3>3, HostListNames, FS_Subset
      <4>. QED BY <4>1, HostListNames, FS_CardinalityType
    <3>5. list \in [1 .. Cardinality(hosts) -> hosts]
      BY <3>2 DEF SetToSeqs
    <3>6. list \in Seq(Hosts) /\ Len(list) = Cardinality(hosts)
      BY <3>3, <3>4, <3>5
    <3>. QED BY <1>1, <3>1, <3>4, <3>6, FirstAskNext DEF Kinds
  <2>. QED BY <1>12, <2>1, <2>2 DEF FirstSub
<1>13. ASSUME FirstAck(c, q) PROVE RequestsInv'
  <2>. DEFINE x == NewCtx("ack", q, HostList)
  <2>1. x \in Ctx /\ x.kind = "ack" /\ x.list = HostList /\ x.hash = Null
        /\ x.asked = <<>> /\ x.oks = {}
    <3>1. IsNew(x, "ack", HostList)
      BY <1>4 DEF Kinds
    <3>. HIDE DEF x
    <3>. QED BY <3>1 DEF IsNew
  <2>2. \A n \in Nat : DecodeAckPeer(n) \in Nat
    BY DEF DecodeAckPeer, Null
  <2>. HIDE DEF x
  <2>3. CASE Reply(c, x, "closed", Hosts)
    BY <1>1, <1>3, <2>1, <2>3, ReplyAtOnce
  <2>4. ASSUME NEW n \in 0 .. Len(HostList), Ask(c, x, DecodeAckPeer(n), Hosts) PROVE RequestsInv'
    <3>1. DecodeAckPeer(n) \in Nat
      BY <1>2, <2>2
    <3>. QED BY <1>1, <2>1, <2>4, <3>1, AckAsks
  <2>5. ASSUME NEW h \in Hosts,
               LET y == [x EXCEPT !.hash = PeerDict[h]] IN
               Reply(c, y, "closed", Hosts) \/ Ask(c, y, DecodeAckPeer(EncodeAckPeer(h)), Hosts)
        PROVE  RequestsInv'
    <3>. DEFINE y == [x EXCEPT !.hash = PeerDict[h]]
    <3>1. PeerDict[h] \in Nat /\ DecodeAckPeer(EncodeAckPeer(h)) = PeerDict[h]
      BY <1>2, AckComesBack
    <3>2. y \in Ctx /\ y.kind = "ack" /\ y.list = HostList /\ y.hash = PeerDict[h]
          /\ y.asked = <<>> /\ y.oks = {}
      BY <2>1, <3>1 DEF Ctx
    <3>3. Reply(c, y, "closed", Hosts) \/ Ask(c, y, PeerDict[h], Hosts)
      BY <2>5, <3>1
    <3>. HIDE DEF y
    <3>4. CASE Reply(c, y, "closed", Hosts)
      BY <1>1, <1>3, <3>2, <3>4, ReplyAtOnce
    <3>5. CASE Ask(c, y, PeerDict[h], Hosts)
      BY <1>1, <3>1, <3>2, <3>5, AckAsks
    <3>. QED BY <3>3, <3>4, <3>5
  <2>. QED BY <1>13, <2>3, <2>4, <2>5 DEF FirstAck, x
<1>. QED BY <1>7, <1>8, <1>9, <1>10, <1>11, <1>12, <1>13 DEF Arrive

\* A request for the list of workers arrives.
LEMMA ArriveForWorkersKeeps ==
    ASSUME RequestsInv, NEW c \in Requests, ArriveForWorkers(c)
    PROVE  RequestsInv'
<1>1. PICK alive \in SUBSET Hosts : AskNext(c, NewCtx("worker", Other, HostList), 0, alive, "closed")
  BY DEF ArriveForWorkers, FirstWorker
<1>2. "worker" \in Kinds \ {"put", "ack", "hash_put"} /\ Other \in Names
  BY DEF Kinds, Names
<1>3. HostList \in Seq(Hosts) /\ Len(HostList) <= Len(HostList)
  BY HostListNames
<1>. QED BY <1>1, <1>2, <1>3, FirstAskNext

\* The body is there: the first host is asked.
LEMMA BodyKeeps ==
    ASSUME RequestsInv, NEW c \in Requests, Body(c)
    PROVE  RequestsInv'
<1>. DEFINE x == req[c]
            y == req'[c]
<1>1. x \in Ctx /\ x.pc = "body" /\ req \in [Requests -> Ctx]
  BY DEF Body, RequestsInv
<1>2. BodyAwaited(x)
  BY <1>1 DEF RequestsInv, RequestInv
<1>3. Ask(c, x, x.pos, Hosts) \/ Reply(c, x, "closed", Hosts)
  BY DEF Body
<1>4. x.pos \in Nat /\ "closed" \in Statuses
  BY <1>1 DEF Ctx, Statuses
<1>5. Len(HostList) \in Nat \ {0} /\ DOMAIN HostList = 1 .. Len(HostList)
      /\ \A i \in DOMAIN HostList : HostList[i] \in Hosts
  BY HostListNames
<1>. HIDE DEF x
<1>6. CASE Reply(c, x, "closed", Hosts)
  BY <1>1, <1>2, <1>4, <1>6, ReplyAtOnce DEF BodyAwaited
<1>7. CASE Ask(c, x, x.pos, Hosts)
  <2>. DEFINE p == x.pos
  <2>1. /\ req' = [req EXCEPT ![c] = y] /\ req' \in [Requests -> Ctx]
        /\ SameRequest(x, y) /\ y.pc = "asking" /\ y.pos = p
        /\ y.asked = Append(x.asked, p) /\ y.unfit = x.unfit \cup (Hosts \ Hosts)
    BY <1>1, <1>4, <1>7, AskMoves
  <2>2. y \in Ctx
    BY <2>1
  <2>3. Append(<<>>, p) = <<p>> /\ Len(<<p>>) = 1 /\ <<p>> # <<>> /\ <<p>>[1] = p
        /\ DOMAIN <<p>> = 1 .. 1
    OBVIOUS
  <2>. HIDE DEF y, p
  <2>4. /\ y.asked = <<p>> /\ y.kind \in {"put", "hash_put"} /\ y.list = HostList /\ y.hash = x.hash
        /\ y.oks = {} /\ y.count = 0 /\ y.unfit = x.unfit /\ y.kind = x.kind /\ p \in Nat
    BY <1>2, <1>4, <2>1, <2>3 DEF SameRequest, BodyAwaited, p
  <2>5. Heard(y)
    BY <2>4 DEF Heard
  <2>6. Listed(y)
    BY <1>5, <2>4 DEF Listed
  <2>7. ASSUME y.kind = "put" PROVE Reached(y)
    BY <1>5, <2>3, <2>4, <2>6, <2>7 DEF Reached, Walks
  <2>8. ASSUME y.kind = "hash_put", p = Null PROVE Reached(y)
    BY <2>1, <2>4, <2>6, <2>8 DEF Reached, Walks
  <2>9. ASSUME y.kind = "hash_put", p # Null PROVE Reached(y)
    <3>1. p <= Len(HostList) /\ p >= 1 /\ p \in DOMAIN HostList
      BY <1>2, <1>5, <2>4, <2>9 DEF BodyAwaited, Null, p
    <3>2. ASSUME NEW j \in DOMAIN HostList, j <= p PROVE Sought(y, j)
      <4>1. CASE j = p
        BY <2>3, <2>4, <4>1 DEF Sought, Range
      <4>2. CASE j # p /\ p = x.hash
        <5>1. j < p
          BY <1>5, <2>4, <3>2, <4>2
        <5>. QED BY <2>3, <2>4, <2>9, <4>2, <5>1 DEF Sought
      <4>3. CASE j # p /\ p # x.hash
        <5>1. j \in 1 .. p - 1
          BY <1>5, <2>4, <3>2, <4>3
        <5>2. HostList[j] \in x.unfit
          BY <1>2, <2>4, <2>9, <4>3, <5>1 DEF BodyAwaited, p
        <5>. QED BY <2>4, <5>2 DEF Sought
      <4>. QED BY <4>1, <4>2, <4>3
    <3>3. y.pos = p /\ y.list = HostList /\ y.asked = <<p>>
      BY <2>1, <2>4
    <3>4. \A i \in DOMAIN y.asked : i = 1 /\ y.asked[i] = p
      BY <2>3, <2>4
    <3>5. \A i, j \in DOMAIN y.asked : ~(i < j)
      BY <3>4
    <3>6. WalkSound(y)
      BY <2>3, <3>1, <3>2, <3>3, <3>4, <3>5 DEF WalkSound
    <3>. QED BY <2>6, <2>9, <3>6 DEF Reached, Walks
  <2>10. Reached(y)
    BY <2>4, <2>7, <2>8, <2>9
  <2>11. RequestInv(y)
    BY <2>1, <2>3, <2>4, <2>5, <2>10 DEF RequestInv
  <2>. QED BY <2>1, <2>2, <2>11, OneRequest DEF y
<1>. QED BY <1>3, <1>6, <1>7

-----------------------------------------------------------------------------
\* x is a request that asked, and has just heard whether the host said 200.
JustHeard(x, ok) ==
    /\ x \in Ctx /\ x.asked # <<>> /\ Reached(x) /\ x.oks \subseteq DOMAIN x.asked
    /\ ok => Len(x.asked) \in x.oks
    /\ ~ForAll(x) => x.oks = IF ok THEN {Len(x.asked)} ELSE {}
    /\ x.kind \in {"loop", "max"} => (Result(x, ok) <=> x.oks # {})
    /\ x.kind = "worker" /\ x.arrays # <<>> => x.oks # {}
    /\ x.kind = "autost" =>
         \A h \in DOMAIN x.reports : \E i \in x.oks : HostList[x.asked[i]] = h

\* The answer of the host is added to what was heard.
LEMMA AnswerIsHeard ==
    ASSUME RequestsInv, NEW c \in Requests, req[c].pc = "asking", NEW ok \in BOOLEAN
    PROVE  JustHeard([req[c] EXCEPT !.oks = @ \cup {i \in {Len(req[c].asked)} : ok}], ok)
<1>. DEFINE r == req[c]
            oks == r.oks \cup {i \in {Len(r.asked)} : ok}
            x == [r EXCEPT !.oks = oks]
<1>1. r \in Ctx /\ r.asked # <<>> /\ Reached(r) /\ Heard(r) /\ (~ForAll(r) => r.oks = {})
  BY DEF RequestsInv, RequestInv
<1>. HIDE DEF r
<1>2. r.asked \in Seq(Nat) /\ Len(r.asked) \in Nat /\ DOMAIN r.asked = 1 .. Len(r.asked)
      /\ r.oks \in SUBSET Nat
  BY <1>1 DEF Ctx
<1>3. Len(r.asked) \in DOMAIN r.asked
  BY <1>1, <1>2
<1>4. oks \subseteq DOMAIN r.asked /\ oks \in SUBSET Nat /\ (ok => Len(r.asked) \in oks)
      /\ (~ok => oks = r.oks) /\ r.oks \subseteq oks /\ (ok /\ r.oks = {} => oks = {Len(r.asked)})
  BY <1>1, <1>2, <1>3 DEF Heard
<1>. HIDE DEF oks
<1>5. /\ x \in Ctx /\ x.kind = r.kind /\ x.list = r.list /\ x.hash = r.hash /\ x.count = r.count
      /\ x.result = r.result /\ x.reports = r.reports /\ x.arrays = r.arrays /\ x.asked = r.asked
      /\ x.oks = oks /\ x.pos = r.pos /\ x.unfit = r.unfit /\ x.result \in BOOLEAN
  BY <1>1, <1>4 DEF Ctx
<1>. HIDE DEF x
<1>6. Reached(x)
  BY <1>1, <1>5 DEF Reached, Listed, Walks, WalkSound, Sought
<1>7. x.kind \in {"loop", "max"} => (Result(x, ok) <=> x.oks # {})
  BY <1>1, <1>4, <1>5 DEF Heard, Result
<1>8. ASSUME x.kind = "autost", NEW h \in DOMAIN x.reports
      PROVE  \E i \in x.oks : HostList[x.asked[i]] = h
  <2>1. PICK i \in r.oks : HostList[r.asked[i]] = h
    BY <1>1, <1>5, <1>8 DEF Heard
  <2>. QED BY <1>4, <1>5, <2>1
<1>9. ~ForAll(x) => x.oks = IF ok THEN {Len(x.asked)} ELSE {}
  BY <1>1, <1>4, <1>5 DEF ForAll
<1>10. x.kind = "worker" /\ x.arrays # <<>> => x.oks # {}
  BY <1>1, <1>4, <1>5 DEF Heard
<1>11. JustHeard(x, ok)
  BY <1>1, <1>4, <1>5, <1>6, <1>7, <1>8, <1>9, <1>10 DEF JustHeard
<1>. QED BY <1>11 DEF x, oks, r

\* A request for one answer is over.
LEMMA OneAnswerEnds ==
    ASSUME RequestsInv, NEW c \in Requests, NEW x, NEW ok \in BOOLEAN, JustHeard(x, ok), ~ForAll(x),
           NEW s \in Statuses, NEW fit, Reply(c, x, s, fit),
           s = "ok" => ok, x.kind # "get" /\ ok => s = "ok",
           ~ok /\ Walks(x) => x.asked[1] = Null
    PROVE  RequestsInv'
<1>. DEFINE y == req'[c]
<1>1. x \in Ctx /\ req \in [Requests -> Ctx]
  BY DEF JustHeard, RequestsInv
<1>2. /\ req' = [req EXCEPT ![c] = y] /\ req' \in [Requests -> Ctx]
      /\ SameRequest(x, y) /\ y.pc = "done" /\ y.pos = x.pos
      /\ y.asked = x.asked /\ y.unfit = x.unfit \cup (Hosts \ fit) /\ y.status = s
  BY <1>1, ReplyEnds
<1>3. y \in Ctx
  BY <1>2
<1>. HIDE DEF y
<1>4. ~ForAll(y) /\ (Walks(y) <=> Walks(x)) /\ y.kind = x.kind /\ y.oks = x.oks
  BY <1>2 DEF SameRequest, Walks, ForAll
<1>5. y.kind \notin {"loop", "max", "autost", "worker"}
  BY <1>4 DEF ForAll
<1>6. Reached(y)
  <2>1. WalkSound(x) => WalkSound(y)
    BY <1>2 DEF WalkSound, Sought, SameRequest
  <2>. QED BY <1>2, <1>4, <2>1 DEF Reached, Listed, SameRequest, JustHeard
<1>7. Heard(y)
  BY <1>2, <1>4, <1>5 DEF Heard, JustHeard
<1>8. x.oks = IF ok THEN {Len(x.asked)} ELSE {}
  BY DEF JustHeard
<1>9. EndsTrue(y)
  <2>1. y.oks \subseteq {Len(y.asked)} /\ (y.oks # {} <=> ok)
    BY <1>2, <1>4, <1>8
  <2>2. WorkersTold(y)
    BY <1>5 DEF WorkersTold
  <2>3. ~(Walks(y) /\ y.asked[1] # Null /\ (y.oks = {} \/ ForAll(y)))
    BY <1>2, <1>4, <2>1
  <2>. QED BY <1>2, <1>4, <1>5, <2>1, <2>2, <2>3 DEF EndsTrue
<1>10. RequestInv(y)
  BY <1>2, <1>6, <1>7, <1>9 DEF RequestInv
<1>. QED BY <1>2, <1>3, <1>10, OneRequest DEF y

\* A walk goes on, or is over with the answer s.
LEMMA WalkKeeps ==
    ASSUME RequestsInv, NEW c \in Requests, NEW x \in Ctx, x.asked # <<>>, Walks(x), WalkSound(x),
           Listed(x), Heard(x), NEW s \in Statuses, NEW fit, AskNext(c, x, x.pos, fit, s),
           ~ForAll(x) => x.oks = {}, x.kind = "worker" => s # "ok",
           x.kind \notin {"get", "autost", "worker"} => (s = "ok" <=> x.oks # {}),
           x.kind = "get" => s # "ok",
           x.kind = "autost" /\ s = "ok" => Cardinality(DOMAIN x.reports) = Len(HostList)
    PROVE  RequestsInv'
<1>. DEFINE y == req'[c]
<1>1. req \in [Requests -> Ctx]
  BY DEF RequestsInv
<1>2. /\ req' = [req EXCEPT ![c] = y] /\ y \in Ctx /\ SameRequest(x, y)
      /\ Walks(y) /\ Reached(y) /\ Heard(y)
      /\ \/ y.pc = "asking" /\ y.asked # <<>>
         \/ /\ y.pc = "done" /\ y.status = s /\ y.asked = x.asked
            /\ \A j \in DOMAIN y.list : Sought(y, j)
  BY <1>1, WalkGoesOn
<1>. HIDE DEF y
<1>3. y.kind = x.kind /\ y.oks = x.oks /\ y.reports = x.reports /\ (ForAll(y) <=> ForAll(x))
  BY <1>2 DEF SameRequest, ForAll
<1>4. CASE y.pc = "asking" /\ y.asked # <<>>
  <2>1. RequestInv(y)
    BY <1>2, <1>3, <1>4 DEF RequestInv
  <2>. QED BY <1>2, <2>1, OneRequest DEF y
<1>5. CASE /\ y.pc = "done" /\ y.status = s /\ y.asked = x.asked
           /\ \A j \in DOMAIN y.list : Sought(y, j)
  <2>1. WorkersTold(y)
    BY <1>3, <1>5 DEF WorkersTold
  <2>2. EndsTrue(y)
    BY <1>3, <1>5, <2>1 DEF EndsTrue
  <2>3. RequestInv(y)
    BY <1>2, <1>5, <2>2 DEF RequestInv
  <2>. QED BY <1>2, <2>3, OneRequest DEF y
<1>. QED BY <1>2, <1>4, <1>5

-----------------------------------------------------------------------------
(* A host has answered.                                                    *)

\* A put that failed is sent again, no more often than there are hosts.
LEMMA OnPutKeeps ==
    ASSUME RequestsInv, NEW c \in Requests, NEW x, NEW ok \in BOOLEAN, JustHeard(x, ok),
           OnPut(c, x, ok)
    PROVE  RequestsInv'
<1>1. x.kind = "put" /\ x \in Ctx /\ x.asked # <<>> /\ Reached(x) /\ ~ForAll(x) /\ ~Walks(x)
  BY DEF OnPut, JustHeard, ForAll, Walks
<1>2. {"ok", "closed"} \subseteq Statuses
  BY DEF Statuses
<1>3. CASE ok /\ Reply(c, x, "ok", Hosts)
  BY <1>1, <1>2, <1>3, OneAnswerEnds
<1>4. CASE ~ok /\ Reply(c, x, "closed", Hosts)
  BY <1>1, <1>2, <1>4, OneAnswerEnds
<1>5. CASE /\ ~ok /\ x.count + 1 < Len(HostList)
           /\ Ask(c, [x EXCEPT !.count = @ + 1], Null, Hosts)
  <2>. DEFINE z == [x EXCEPT !.count = @ + 1]
              y == req'[c]
  <2>1. x.count \in Nat /\ x.asked \in Seq(Nat) /\ Len(x.asked) \in Nat
        /\ DOMAIN x.asked = 1 .. Len(x.asked) /\ Len(HostList) \in Nat
    BY <1>1, HostListNames DEF Ctx
  <2>2. x.count + 1 \in Nat
    BY <2>1
  <2>3. z \in Ctx /\ z.kind = "put" /\ z.count = x.count + 1 /\ z.asked = x.asked /\ z.oks = x.oks
        /\ z.list = x.list
    BY <1>1, <2>2 DEF Ctx
  <2>. HIDE DEF z
  <2>. HIDE DEF y
  <2>a. PICK p \in Nat : p = Null
    BY DEF Null
  <2>b. Ask(c, z, p, Hosts)
    BY <1>5, <2>a DEF z
  <2>4. req \in [Requests -> Ctx]
    BY DEF RequestsInv
  <2>5. /\ req' = [req EXCEPT ![c] = y] /\ req' \in [Requests -> Ctx]
        /\ SameRequest(z, y) /\ y.pc = "asking"
        /\ y.asked = Append(z.asked, p)
    BY <2>3, <2>4, <2>b, AskMoves DEF y
  <2>6. y \in Ctx
    BY <2>5
  <2>7. \A q \in Seq(Nat) : Append(q, p) # <<>> /\ Len(Append(q, p)) = Len(q) + 1
    OBVIOUS
  <2>8. y.asked # <<>> /\ Len(y.asked) = Len(x.asked) + 1
    BY <2>1, <2>3, <2>5, <2>7
  <2>9. y.kind = "put" /\ y.oks = {} /\ y.count = x.count + 1 /\ y.list = x.list
    BY <1>1, <1>5, <2>3, <2>5 DEF SameRequest, JustHeard
  <2>10. Len(x.asked) = x.count + 1
    BY <1>1 DEF Reached
  <2>11. Len(y.asked) = y.count + 1 /\ y.count + 1 <= Len(HostList)
    BY <1>5, <2>1, <2>8, <2>9, <2>10
  <2>12. Listed(y)
    BY <1>1, <2>9 DEF Reached, Listed
  <2>13. Reached(y) /\ Heard(y)
    BY <2>9, <2>11, <2>12 DEF Reached, Heard, Walks
  <2>14. RequestInv(y)
    BY <2>5, <2>8, <2>9, <2>13 DEF RequestInv
  <2>. QED BY <2>5, <2>6, <2>14, OneRequest DEF y
<1>. QED BY <1>3, <1>4, <1>5 DEF OnPut

\* What a request for one answer that hears no 200 keeps of it.
LEMMA NothingHeard ==
    ASSUME NEW x, JustHeard(x, FALSE), ~ForAll(x)
    PROVE  x.oks = {} /\ Heard(x) /\ Listed(x)
BY DEF JustHeard, Heard, Reached, ForAll

\* A put by hash goes on from its place; it ends at a host that nginx chose.
LEMMA OnHashPutKeeps ==
    ASSUME RequestsInv, NEW c \in Requests, NEW x, NEW ok \in BOOLEAN, JustHeard(x, ok),
           NEW alive \in SUBSET Hosts, OnHashPut(c, x, ok, alive)
    PROVE  RequestsInv'
<1>1. x.kind = "hash_put" /\ x \in Ctx /\ x.asked # <<>> /\ Reached(x) /\ ~ForAll(x) /\ Walks(x)
  BY DEF OnHashPut, JustHeard, ForAll, Walks
<1>2. {"ok", "closed"} \subseteq Statuses
  BY DEF Statuses
<1>3. WalkSound(x) \/ (x.asked = <<Null>> /\ x.pos = Null)
  BY <1>1 DEF Reached
<1>4. WalkSound(x) => x.pos # Null
  BY <1>1 DEF WalkSound, Ctx, Null
<1>5. CASE ok /\ Reply(c, x, "ok", Hosts)
  BY <1>1, <1>2, <1>5, OneAnswerEnds
<1>6. CASE ~ok /\ x.pos = Null /\ Reply(c, x, "closed", Hosts)
  <2>1. x.asked[1] = Null
    BY <1>3, <1>4, <1>6
  <2>. QED BY <1>1, <1>2, <1>6, <2>1, OneAnswerEnds
<1>7. CASE ~ok /\ x.pos # Null /\ AskNext(c, x, x.pos, alive \ {HostList[x.hash]}, "closed")
  <2>1. x.oks = {} /\ Heard(x) /\ Listed(x)
    BY <1>1, <1>7, NothingHeard
  <2>2. WalkSound(x)
    BY <1>3, <1>7
  <2>. QED BY <1>1, <1>2, <1>7, <2>1, <2>2, WalkKeeps
<1>. QED BY <1>5, <1>6, <1>7 DEF OnHashPut

\* A get goes on, or passes the message on with or without its token.
LEMMA OnGetKeeps ==
    ASSUME RequestsInv, NEW c \in Requests, NEW x, NEW ok \in BOOLEAN, JustHeard(x, ok),
           NEW alive \in SUBSET Hosts, OnGet(c, x, ok, alive)
    PROVE  RequestsInv'
<1>1. x.kind = "get" /\ x \in Ctx /\ x.asked # <<>> /\ Reached(x) /\ ~ForAll(x) /\ Walks(x)
  BY DEF OnGet, JustHeard, ForAll, Walks
<1>2. {"ok", "not_found", "closed"} \subseteq Statuses
  BY DEF Statuses
<1>3. CASE ok /\ \E s \in {"ok", "not_found"} : Reply(c, x, s, Hosts)
  BY <1>1, <1>2, <1>3, OneAnswerEnds
<1>4. CASE ~ok /\ AskNext(c, x, x.pos, FitForGet(x.queue, alive), "closed")
  <2>1. x.oks = {} /\ Heard(x) /\ Listed(x)
    BY <1>1, <1>4, NothingHeard
  <2>2. WalkSound(x)
    BY <1>1 DEF Reached
  <2>. QED BY <1>1, <1>2, <1>4, <2>1, <2>2, WalkKeeps
<1>. QED BY <1>3, <1>4 DEF OnGet

\* A subscription goes on to the next host of its list.
LEMMA OnSubKeeps ==
    ASSUME RequestsInv, NEW c \in Requests, NEW x, NEW ok \in BOOLEAN, JustHeard(x, ok),
           NEW alive \in SUBSET Hosts, OnSub(c, x, ok, alive)
    PROVE  RequestsInv'
<1>1. x.kind = "sub" /\ x \in Ctx /\ x.asked # <<>> /\ Reached(x) /\ ~ForAll(x) /\ Walks(x)
  BY DEF OnSub, JustHeard, ForAll, Walks
<1>2. {"ok", "not_found"} \subseteq Statuses
  BY DEF Statuses
<1>3. CASE ok /\ Reply(c, x, "ok", Hosts)
  BY <1>1, <1>2, <1>3, OneAnswerEnds
<1>4. CASE ~ok /\ AskNext(c, x, x.pos, alive, "not_found")
  <2>1. x.oks = {} /\ Heard(x) /\ Listed(x)
    BY <1>1, <1>4, NothingHeard
  <2>2. WalkSound(x)
    BY <1>1 DEF Reached
  <2>. QED BY <1>1, <1>2, <1>4, <2>1, <2>2, WalkKeeps
<1>. QED BY <1>3, <1>4 DEF OnSub

\* An ack is answered by its one host.
LEMMA OnAckKeeps ==
    ASSUME RequestsInv, NEW c \in Requests, NEW x, NEW ok \in BOOLEAN, JustHeard(x, ok),
           OnAck(c, x, ok)
    PROVE  RequestsInv'
<1>1. x.kind = "ack" /\ ~ForAll(x) /\ ~Walks(x)
  BY DEF OnAck, ForAll, Walks
<1>2. {"ok", "not_found"} \subseteq Statuses
  BY DEF Statuses
<1>3. CASE ok /\ Reply(c, x, "ok", Hosts)
  BY <1>1, <1>2, <1>3, OneAnswerEnds
<1>4. CASE ~ok /\ Reply(c, x, "not_found", Hosts)
  BY <1>1, <1>2, <1>4, OneAnswerEnds
<1>. QED BY <1>3, <1>4 DEF OnAck

\* A request for all hosts goes on whatever the host said.
LEMMA OnLoopKeeps ==
    ASSUME RequestsInv, NEW c \in Requests, NEW x, NEW ok \in BOOLEAN, JustHeard(x, ok),
           NEW alive \in SUBSET Hosts, OnLoop(c, x, ok, alive)
    PROVE  RequestsInv'
<1>. DEFINE result == Result(x, ok)
            y == [x EXCEPT !.result = result]
            s == IF y.result THEN "ok" ELSE "closed"
<1>1. x.kind \in {"loop", "max"} /\ x \in Ctx /\ x.asked # <<>> /\ Reached(x) /\ Walks(x)
  BY DEF OnLoop, JustHeard, ForAll, Walks
<1>2. result \in BOOLEAN /\ (result <=> x.oks # {}) /\ x.oks \subseteq DOMAIN x.asked
  BY <1>1 DEF JustHeard, Result, Ctx
<1>3. AskNext(c, y, x.pos, alive, s)
  BY DEF OnLoop
<1>. HIDE DEF result
<1>4. /\ y \in Ctx /\ y.kind = x.kind /\ y.list = x.list /\ y.pos = x.pos /\ y.asked = x.asked
      /\ y.oks = x.oks /\ y.hash = x.hash /\ y.unfit = x.unfit /\ y.result = result
  BY <1>1, <1>2 DEF Ctx
<1>. HIDE DEF y
<1>5. s \in Statuses /\ (s = "ok" <=> y.oks # {}) /\ AskNext(c, y, y.pos, alive, s)
  BY <1>2, <1>3, <1>4 DEF Statuses
<1>. HIDE DEF s
<1>6. WalkSound(y)
  BY <1>1, <1>4 DEF Reached, WalkSound, Sought
<1>7. Walks(y) /\ Listed(y) /\ Heard(y) /\ ForAll(y)
  BY <1>1, <1>2, <1>4 DEF Reached, Walks, Listed, Heard, ForAll
<1>. QED BY <1>1, <1>4, <1>5, <1>6, <1>7, WalkKeeps

\* The statistics of one host more.
LEMMA CollectedHeard ==
    ASSUME NEW x, NEW ok \in BOOLEAN, JustHeard(x, ok), x.kind = "autost",
           NEW y \in IF ok THEN Collected(x) ELSE {x}
    PROVE  /\ y \in Ctx /\ y.kind = "autost" /\ y.asked # <<>> /\ Walks(y) /\ WalkSound(y)
           /\ Listed(y) /\ Heard(y)
<1>1. x \in Ctx /\ x.asked # <<>> /\ Reached(x) /\ Walks(x) /\ WalkSound(x) /\ Listed(x)
      /\ x.oks \subseteq DOMAIN x.asked
  BY DEF JustHeard, Walks, Reached
<1>2. CASE y = x
  BY <1>1, <1>2 DEF JustHeard, Heard
<1>3. CASE ok /\ \E report \in Report : y = [x EXCEPT !.reports = With(@, HostList[x.pos], report)]
  <2>1. PICK report \in Report : y = [x EXCEPT !.reports = With(@, HostList[x.pos], report)]
    BY <1>3
  <2>. DEFINE h == HostList[x.pos]
              n == Len(x.asked)
              reports == With(x.reports, h, report)
  <2>2. n \in DOMAIN x.asked /\ n \in x.oks /\ x.asked[n] = x.pos /\ x.pos \in DOMAIN x.list
        /\ x.list = HostList
    <3>1. x.asked \in Seq(Nat)
      BY <1>1 DEF Ctx
    <3>2. n \in DOMAIN x.asked
      BY <1>1, <3>1
    <3>3. x.asked[n] = x.pos /\ x.asked[n] \in DOMAIN x.list
      BY <1>1, <3>2 DEF WalkSound
    <3>. QED BY <1>1, <1>3, <3>2, <3>3 DEF JustHeard, Listed
  <2>3. h \in Hosts /\ HostList[x.asked[n]] = h
    BY <2>2, HostListNames
  <2>4. reports \in UNION {[hosts -> Report] : hosts \in SUBSET Hosts}
    <3>1. PICK hosts \in SUBSET Hosts : x.reports \in [hosts -> Report]
      BY <1>1 DEF Ctx
    <3>. HIDE DEF h
    <3>2. reports \in [hosts \cup {h} -> Report] /\ hosts \cup {h} \in SUBSET Hosts
      BY <2>3, <3>1 DEF With
    <3>. QED BY <3>2
  <2>5. DOMAIN reports = DOMAIN x.reports \cup {h}
    <3>. HIDE DEF h
    <3>. QED BY DEF With
  <2>6. y = [x EXCEPT !.reports = reports]
    BY <2>1
  <2>. HIDE DEF reports, h
  <2>7. /\ y \in Ctx /\ y.kind = x.kind /\ y.list = x.list /\ y.pos = x.pos /\ y.asked = x.asked
        /\ y.oks = x.oks /\ y.hash = x.hash /\ y.unfit = x.unfit /\ y.reports = reports
    BY <1>1, <2>4, <2>6 DEF Ctx
  <2>8. WalkSound(y) /\ Walks(y) /\ Listed(y)
    BY <1>1, <2>7 DEF WalkSound, Sought, Walks, Listed
  <2>9. ASSUME NEW g \in DOMAIN y.reports PROVE \E i \in y.oks : HostList[y.asked[i]] = g
    <3>1. CASE g = h
      BY <2>2, <2>3, <2>7, <3>1
    <3>2. CASE g \in DOMAIN x.reports
      BY <2>7, <3>2 DEF JustHeard
    <3>. QED BY <2>5, <2>7, <2>9, <3>1, <3>2
  <2>10. Heard(y)
    BY <1>1, <2>7, <2>9 DEF Heard
  <2>. QED BY <1>1, <2>7, <2>8, <2>10
<1>. QED BY <1>2, <1>3 DEF Collected

\* Statistics that are no empty list are those of hosts that answered.
LEMMA ReportsAnswered ==
    ASSUME NEW x \in Ctx, x.reports # <<>>
    PROVE  x.reports \in Answered
<1>1. PICK hosts \in SUBSET Hosts : x.reports \in [hosts -> Report]
  BY DEF Ctx
<1>2. hosts # {}
  BY <1>1
<1>. QED BY <1>1, <1>2 DEF Answered

\* Statistics on demand go on, and are merged when no host is left.
LEMMA OnAutostKeeps ==
    ASSUME RouteInv, NEW c \in Requests, NEW x, NEW ok \in BOOLEAN, JustHeard(x, ok),
           NEW alive \in SUBSET Hosts, OnAutost(c, x, ok, alive)
    PROVE  RequestsInv' /\ StatInv'
<1>1. x.kind = "autost" /\ RequestsInv /\ StatInv
  BY DEF OnAutost, RouteInv
<1>2. PICK y \in IF ok THEN Collected(x) ELSE {x} :
        /\ AskNext(c, y, y.pos, alive,
                   IF Cardinality(DOMAIN y.reports) = Len(HostList) THEN "ok" ELSE "not_found")
        /\ (y.reports # <<>> /\ Merges(y.reports)) \/ UNCHANGED statVars
  BY DEF OnAutost
<1>. DEFINE s == IF Cardinality(DOMAIN y.reports) = Len(HostList) THEN "ok" ELSE "not_found"
<1>3. /\ y \in Ctx /\ y.kind = "autost" /\ y.asked # <<>> /\ Walks(y) /\ WalkSound(y)
      /\ Listed(y) /\ Heard(y)
  BY <1>1, CollectedHeard
<1>4. s \in Statuses /\ (s = "ok" => Cardinality(DOMAIN y.reports) = Len(HostList))
      /\ AskNext(c, y, y.pos, alive, s) /\ ForAll(y)
  BY <1>2, <1>3 DEF Statuses, ForAll
<1>5. RequestsInv'
  <2>. HIDE DEF s
  <2>. QED BY <1>1, <1>3, <1>4, WalkKeeps
<1>6. StatInv'
  <2>1. CASE y.reports # <<>> /\ Merges(y.reports)
    <3>1. Merge
      BY <1>3, <2>1, ReportsAnswered DEF Merges, Merge
    <3>. QED BY <1>1, <3>1, MergeKeepsStatInv
  <2>2. CASE UNCHANGED statVars
    BY <1>1, <2>2 DEF StatInv, ItemsAsSaid, statVars
  <2>. QED BY <1>2, <2>1, <2>2
<1>. QED BY <1>5, <1>6

\* The workers of one host more.
LEMMA GatheredHeard ==
    ASSUME NEW x, NEW ok \in BOOLEAN, JustHeard(x, ok), x.kind = "worker",
           NEW y \in IF ok THEN Gathered(x) ELSE {x}
    PROVE  /\ y \in Ctx /\ y.kind = "worker" /\ y.asked # <<>> /\ Walks(y) /\ WalkSound(y)
           /\ Listed(y) /\ Heard(y)
<1>1. x \in Ctx /\ x.asked # <<>> /\ Reached(x) /\ Walks(x) /\ WalkSound(x) /\ Listed(x)
      /\ x.oks \subseteq DOMAIN x.asked
  BY DEF JustHeard, Walks, Reached
<1>2. CASE y = x
  BY <1>1, <1>2 DEF JustHeard, Heard
<1>3. CASE ok /\ \E array \in WorkerArray : y = [x EXCEPT !.arrays = Append(@, array)]
  <2>1. PICK array \in WorkerArray : y = [x EXCEPT !.arrays = Append(@, array)]
    BY <1>3
  <2>. DEFINE arrays == Append(x.arrays, array)
  <2>2. arrays \in Seq(WorkerArray)
    BY <1>1 DEF Ctx
  <2>3. y = [x EXCEPT !.arrays = arrays]
    BY <2>1
  <2>. HIDE DEF arrays
  <2>4. /\ y \in Ctx /\ y.kind = x.kind /\ y.list = x.list /\ y.pos = x.pos /\ y.asked = x.asked
        /\ y.oks = x.oks /\ y.hash = x.hash /\ y.unfit = x.unfit
    BY <1>1, <2>2, <2>3 DEF Ctx
  <2>5. x.oks # {}
    BY <1>3 DEF JustHeard
  <2>6. WalkSound(y) /\ Walks(y) /\ Listed(y) /\ Heard(y)
    BY <1>1, <2>4, <2>5 DEF WalkSound, Sought, Walks, Listed, Heard
  <2>. QED BY <1>1, <2>4, <2>6
<1>. QED BY <1>2, <1>3 DEF Gathered

\* The list of workers is sent when no host is left.
LEMMA OnWorkerKeeps ==
    ASSUME RouteInv, NEW c \in Requests, NEW x, NEW ok \in BOOLEAN, JustHeard(x, ok),
           NEW alive \in SUBSET Hosts, OnWorker(c, x, ok, alive)
    PROVE  RequestsInv' /\ worker_dict' \in WorkerDicts
<1>1. x.kind = "worker" /\ RequestsInv /\ worker_dict \in WorkerDicts
  BY DEF OnWorker, RouteInv
<1>2. PICK y \in IF ok THEN Gathered(x) ELSE {x} :
        LET over == NextPeer(y.list, y.pos, alive) = Null IN
        \/ ~over /\ AskNext(c, y, y.pos, alive, "closed") /\ UNCHANGED worker_dict
        \/ over /\ y.arrays = <<>> /\ Reply(c, y, "not_found", alive) /\ UNCHANGED worker_dict
        \/ /\ over /\ y.arrays # <<>>
           /\ UpdateWorkers(y.arrays)
           /\ \E listing \in Listings(worker_dict') :
                 Reply(c, [y EXCEPT !.listing = listing], "ok", alive)
  BY DEF OnWorker
<1>. DEFINE over == NextPeer(y.list, y.pos, alive) = Null
<1>3. /\ y \in Ctx /\ y.kind = "worker" /\ y.asked # <<>> /\ Walks(y) /\ WalkSound(y)
      /\ Listed(y) /\ Heard(y) /\ ForAll(y)
  BY <1>1, GatheredHeard DEF ForAll
<1>4. {"ok", "not_found", "closed"} \subseteq Statuses
  BY DEF Statuses
<1>5. CASE ~over /\ AskNext(c, y, y.pos, alive, "closed") /\ UNCHANGED worker_dict
  BY <1>1, <1>3, <1>4, <1>5, WalkKeeps
<1>6. CASE over /\ y.arrays = <<>> /\ Reply(c, y, "not_found", alive) /\ UNCHANGED worker_dict
  <2>1. AskNext(c, y, y.pos, alive, "not_found")
    BY <1>6 DEF AskNext
  <2>. QED BY <1>1, <1>3, <1>4, <1>6, <2>1, WalkKeeps
<1>7. CASE /\ over /\ y.arrays # <<>>
           /\ UpdateWorkers(y.arrays)
           /\ \E listing \in Listings(worker_dict') :
                 Reply(c, [y EXCEPT !.listing = listing], "ok", alive)
  <2>1. PICK listing \in Listings(worker_dict') :
                 Reply(c, [y EXCEPT !.listing = listing], "ok", alive)
    BY <1>7
  <2>. DEFINE z == [y EXCEPT !.listing = listing]
              new == req'[c]
              told == Told(y)
  <2>2. y.arrays \in Seq(WorkerArray)
    BY <1>3 DEF Ctx
  <2>3. /\ listing \in UNION {[ws -> Times] : ws \in SUBSET Workers}
        /\ \A w \in DOMAIN listing : w \in DOMAIN told /\ listing[w] <= told[w]
        /\ Cardinality(DOMAIN told) <= MaxWorkers => listing = told
    BY <1>1, <1>7, <2>2, RoundListed DEF Told
  <2>4. worker_dict' \in WorkerDicts
    BY <1>1, <1>7, <2>2, UpdateLeaves
  <2>5. Reply(c, z, "ok", alive)
    BY <2>1
  <2>. HIDE DEF told
  <2>6. /\ z \in Ctx /\ z.kind = y.kind /\ z.list = y.list /\ z.pos = y.pos /\ z.asked = y.asked
        /\ z.oks = y.oks /\ z.hash = y.hash /\ z.unfit = y.unfit /\ z.arrays = y.arrays
        /\ z.listing = listing
    BY <1>3, <2>3 DEF Ctx
  <2>. HIDE DEF z
  <2>7. Walks(z) /\ WalkSound(z) /\ Listed(z) /\ Heard(z)
    BY <1>3, <2>6 DEF WalkSound, Sought, Walks, Listed, Heard
  <2>8. AskNext(c, z, z.pos, alive, "ok")
    BY <1>7, <2>5, <2>6 DEF AskNext
  <2>9. req \in [Requests -> Ctx]
    BY <1>1 DEF RequestsInv
  <2>. HIDE DEF new
  <2>10. new.pc = "done" /\ new.listing = listing /\ new.status = "ok" /\ new.asked = z.asked
    BY <1>4, <2>5, <2>6, <2>9, ReplyEnds DEF new
  <2>11. /\ req' = [req EXCEPT ![c] = new] /\ new \in Ctx /\ SameRequest(z, new)
         /\ Reached(new) /\ Heard(new)
         /\ \/ new.pc = "asking"
            \/ \A j \in DOMAIN new.list : Sought(new, j)
    BY <1>4, <2>6, <2>7, <2>8, <2>9, WalkGoesOn DEF new
  <2>12. new.kind = "worker" /\ new.arrays = y.arrays
    BY <1>3, <2>6, <2>11 DEF SameRequest
  <2>13. Told(new) = told
    BY <2>12 DEF Told, told
  <2>14. WorkersTold(new)
    BY <2>3, <2>10, <2>13 DEF WorkersTold
  <2>15. EndsTrue(new)
    BY <1>7, <2>10, <2>11, <2>12, <2>14 DEF EndsTrue, ForAll
  <2>16. RequestInv(new)
    BY <2>10, <2>11, <2>15 DEF RequestInv
  <2>17. RequestsInv'
    BY <1>1, <2>11, <2>16, OneRequest DEF new
  <2>. QED BY <2>4, <2>17
<1>. QED BY <1>2, <1>5, <1>6, <1>7

\* Whatever kind of request it is, the answer of a host keeps the invariant.
LEMMA CompleteKeeps ==
    ASSUME RouteInv, NEW c \in Requests, Complete(c)
    PROVE  RouteInv'
<1>1. StatInv /\ worker_dict \in WorkerDicts /\ RequestsInv /\ req[c].pc = "asking"
  BY DEF RouteInv, Complete
<1>2. PICK ok \in BOOLEAN, alive \in SUBSET Hosts :
        LET x == [req[c] EXCEPT !.oks = @ \cup {i \in {Len(req[c].asked)} : ok}]
        IN  \/ /\ \/ OnPut(c, x, ok) \/ OnHashPut(c, x, ok, alive) \/ OnGet(c, x, ok, alive)
                  \/ OnLoop(c, x, ok, alive) \/ OnSub(c, x, ok, alive) \/ OnAck(c, x, ok)
               /\ UNCHANGED <<statVars, worker_dict>>
            \/ OnAutost(c, x, ok, alive) /\ UNCHANGED worker_dict
            \/ OnWorker(c, x, ok, alive) /\ UNCHANGED statVars
  BY DEF Complete
<1>. DEFINE x == [req[c] EXCEPT !.oks = @ \cup {i \in {Len(req[c].asked)} : ok}]
<1>3. JustHeard(x, ok)
  BY <1>1, AnswerIsHeard
<1>. HIDE DEF x
<1>4. UNCHANGED statVars => StatInv'
  BY <1>1 DEF StatInv, ItemsAsSaid, statVars
<1>5. CASE /\ \/ OnPut(c, x, ok) \/ OnHashPut(c, x, ok, alive) \/ OnGet(c, x, ok, alive)
              \/ OnLoop(c, x, ok, alive) \/ OnSub(c, x, ok, alive) \/ OnAck(c, x, ok)
           /\ UNCHANGED <<statVars, worker_dict>>
  <2>1. RequestsInv'
    BY <1>1, <1>3, <1>5, OnPutKeeps, OnHashPutKeeps, OnGetKeeps, OnLoopKeeps, OnSubKeeps,
       OnAckKeeps
  <2>2. UNCHANGED statVars /\ worker_dict' = worker_dict
    BY <1>5
  <2>. QED BY <1>1, <1>4, <2>1, <2>2 DEF RouteInv
<1>6. CASE OnAutost(c, x, ok, alive) /\ UNCHANGED worker_dict
  <2>1. RequestsInv' /\ StatInv'
    BY <1>3, <1>6, OnAutostKeeps
  <2>. QED BY <1>1, <1>6, <2>1 DEF RouteInv
<1>7. CASE OnWorker(c, x, ok, alive) /\ UNCHANGED statVars
  <2>1. RequestsInv' /\ worker_dict' \in WorkerDicts
    BY <1>3, <1>7, OnWorkerKeeps
  <2>. QED BY <1>4, <1>7, <2>1 DEF RouteInv
<1>. QED BY <1>2, <1>5, <1>6, <1>7 DEF x

-----------------------------------------------------------------------------
\* At first nothing is known and every request is new.
LEMMA RouteStarts == ASSUME RouteInit PROVE RouteInv
<1>1. StatInv
  BY NothingKept DEF RouteInit
<1>2. worker_dict \in WorkerDicts
  <2>1. <<>> \in [{} -> WorkerItem] /\ {} \in SUBSET Workers
    OBVIOUS
  <2>. QED BY <2>1, WorkerDictsAre DEF RouteInit
<1>3. PICK q \in Queues : req = [c \in Requests |-> NewCtx("put", q, HostList)]
  BY DEF RouteInit
<1>. DEFINE x == NewCtx("put", q, HostList)
<1>4. IsNew(x, "put", HostList)
  BY HostListNames, NewCtxIs DEF Kinds, Names
<1>. HIDE DEF x
<1>5. x \in Ctx /\ RequestInv(x)
  BY <1>4 DEF IsNew, RequestInv
<1>6. req \in [Requests -> Ctx] /\ \A c \in Requests : req[c] = x
  BY <1>3, <1>5 DEF x
<1>. QED BY <1>1, <1>2, <1>5, <1>6 DEF RouteInv, RequestsInv

\* A client that has its answer sends another request.
LEMMA LeavesKeeps == ASSUME RequestsInv, NEW c \in Requests, Leaves(c) PROVE RequestsInv'
<1>1. PICK q \in Queues : req' = [req EXCEPT ![c] = NewCtx("put", q, HostList)]
  BY DEF Leaves
<1>. DEFINE x == NewCtx("put", q, HostList)
<1>2. IsNew(x, "put", HostList)
  BY HostListNames, NewCtxIs DEF Kinds, Names
<1>3. req' = [req EXCEPT ![c] = x]
  BY <1>1
<1>. HIDE DEF x
<1>4. x \in Ctx /\ RequestInv(x)
  BY <1>2 DEF IsNew, RequestInv
<1>5. req'[c] = x
  BY <1>3 DEF RequestsInv
<1>. QED BY <1>3, <1>4, <1>5, OneRequest

\* Every step keeps the invariant.
LEMMA RouteSteps == ASSUME RouteInv, [RouteNext]_routeVars PROVE RouteInv'
<1>1. StatInv /\ worker_dict \in WorkerDicts /\ RequestsInv
  BY DEF RouteInv
<1>2. UNCHANGED statVars => StatInv'
  BY <1>1 DEF StatInv, ItemsAsSaid, statVars
<1>3. UNCHANGED req => RequestsInv'
  BY <1>1 DEF RequestsInv
<1>4. ASSUME NEW c \in Requests, NEW q \in Names, Arrive(c, q) PROVE RouteInv'
  <2>1. UNCHANGED statVars /\ worker_dict' = worker_dict
    BY <1>4 DEF Arrive
  <2>. QED BY <1>1, <1>2, <1>4, <2>1, ArriveKeeps DEF RouteInv
<1>5. ASSUME NEW c \in Requests, ArriveForWorkers(c) PROVE RouteInv'
  <2>1. UNCHANGED statVars /\ worker_dict' = worker_dict
    BY <1>5 DEF ArriveForWorkers
  <2>. QED BY <1>1, <1>2, <1>5, <2>1, ArriveForWorkersKeeps DEF RouteInv
<1>6. ASSUME NEW c \in Requests, Body(c) PROVE RouteInv'
  <2>1. UNCHANGED statVars /\ worker_dict' = worker_dict
    BY <1>6 DEF Body
  <2>. QED BY <1>1, <1>2, <1>6, <2>1, BodyKeeps DEF RouteInv
<1>7. ASSUME NEW c \in Requests, Leaves(c) PROVE RouteInv'
  <2>1. UNCHANGED statVars /\ worker_dict' = worker_dict
    BY <1>7 DEF Leaves
  <2>. QED BY <1>1, <1>2, <1>7, <2>1, LeavesKeeps DEF RouteInv
<1>8. ASSUME NEW q \in Names, LookUpElsewhere(q) PROVE RouteInv'
  <2>1. UNCHANGED statVars /\ worker_dict' = worker_dict /\ UNCHANGED req
    BY <1>8 DEF LookUpElsewhere
  <2>. QED BY <1>1, <1>2, <1>3, <2>1 DEF RouteInv
<1>9. ASSUME MergeLooksUp PROVE RouteInv'
  <2>1. Merge /\ worker_dict' = worker_dict /\ UNCHANGED req
    BY <1>9 DEF MergeLooksUp, Merges, Merge
  <2>. QED BY <1>1, <1>3, <2>1, MergeKeepsStatInv DEF RouteInv
<1>10. CASE UNCHANGED routeVars
  <2>1. UNCHANGED statVars /\ worker_dict' = worker_dict /\ UNCHANGED req
    BY <1>10 DEF routeVars
  <2>. QED BY <1>1, <1>2, <1>3, <2>1 DEF RouteInv
<1>. QED BY <1>4, <1>5, <1>6, <1>7, <1>8, <1>9, <1>10, CompleteKeeps DEF RouteNext

\* The invariant holds in every behaviour.
LEMMA RouteInvAlways == RouteSpec => []RouteInv
<1>1. RouteInit => RouteInv
  BY RouteStarts
<1>2. RouteInv /\ [RouteNext]_routeVars => RouteInv'
  BY RouteSteps
<1>. QED BY <1>1, <1>2, PTL DEF RouteSpec

\* A request that gives up, or that is for all hosts and ends, has asked every host of its
\* list or found it unfit, for any number of hosts and requests, and whatever becomes of
\* health, statistics and reference between two answers
\* (hustmq_ha_handler_base.c, hustmq_ha_put_handler.c, hustmq_ha_get_handler.c).
THEOREM GivesUpLastAlways == RouteSpec => []GivesUpLast
<1>1. RouteInv => GivesUpLast
  BY RouteInvTells
<1>. QED BY <1>1, RouteInvAlways, PTL

\* The answer tells what the hosts said; the list of workers, what they told in this very
\* request (hustmq_ha_worker_handler.c); an ack goes to the host its message came from.
THEOREM AnswerTellsTrueAlways == RouteSpec => []AnswerTellsTrue
<1>1. RouteInv => AnswerTellsTrue
  BY RouteInvTells
<1>. QED BY <1>1, RouteInvAlways, PTL
=============================================================================
