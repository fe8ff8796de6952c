------------------------------- MODULE MqStat -------------------------------
(***************************************************************************)
(* What a hustmqha worker knows of the queues of its hosts                 *)
(* (hustmq_ha_stat_def.c, hustmq_ha_autost_handler.c): a dictionary of     *)
(* queues, each with an item per host that has it.  A merge brings the     *)
(* statistics of the hosts that answered a round.  Of an item's numbers    *)
(* one is kept here, the messages ready.                                   *)
(***************************************************************************)
EXTENDS Integers, FiniteSets, FiniteSetsExt, Functions

CONSTANTS
    Hosts, Queues,
    Resembles,      \* Hosts that begin like another host: {<<host, host>>, ...}
    StatusCache,    \* status_cache: keep what a silent host said last
    MaxQueues,      \* max_queue_size
    MaxKeys,        \* MAX_KEYS of hustmq_ha_clean_invalid_items
    MaxReady,       \* bound: messages ready
    SizeWidth       \* values of a size_t

ASSUME StatAssumption ==
    /\ IsFiniteSet(Hosts) /\ IsFiniteSet(Queues)
    /\ Resembles \subseteq Hosts \X Hosts
    /\ StatusCache \in BOOLEAN
    /\ {MaxQueues, MaxKeys, SizeWidth} \subseteq Nat \ {0}
    /\ MaxQueues < SizeWidth
    /\ MaxReady \in Nat

VARIABLES
    dict,       \* queue_dict: queue -> host -> item
    items,      \* queue_items
    said        \* auxiliary: [Hosts -> what the host said last: queue -> ready]

statVars == <<dict, items, said>>

Item == [valid : BOOLEAN, ready : 0 .. MaxReady]

\* What a host may say: its queues, each with the messages ready.
Report == UNION {[qs -> 0 .. MaxReady] : qs \in SUBSET Queues}

Value(f, x, default) == IF x \in DOMAIN f THEN f[x] ELSE default

\* __in_backend_stat_array compares no more than the length of the name of
\* the host that answered.
InArray(h, hosts) == h \in hosts \/ \E g \in hosts : <<h, g>> \in Resembles

\* Faulty variant: the items of hosts that answered stay valid.
KeepStatus(item, h, hosts) == item

\* __reset_host_dict_status for an item.
ResetStatus(item, h, hosts) ==
    IF StatusCache /\ ~InArray(h, hosts) THEN item ELSE [item EXCEPT !.valid = FALSE]

\* The items of a queue of the dictionary, empty for one that is new, after
\* __reset_host_dict_status and __update_item.
Updated(q, reports) ==
    LET hosts == DOMAIN reports
        old == Value(dict, q, <<>>)
        saying == {h \in hosts : q \in DOMAIN reports[h]}
    IN  [h \in DOMAIN old \cup saying |->
            IF h \in saying THEN [valid |-> TRUE, ready |-> reports[h][q]]
            ELSE ResetStatus(old[h], h, hosts)]

\* __is_invalid: one host that does not have the queue any more is enough.
IsInvalid(hostDict) == \E h \in DOMAIN hostDict : ~hostDict[h].valid

\* n - m for a size_t.
Minus(n, m) == (n - m) % SizeWidth

\* hustmq_ha_clean_invalid_items: at most MaxKeys of the invalid queues go.
Cleaned(d, removed) ==
    LET invalid == {q \in DOMAIN d : IsInvalid(d[q])}
    IN  /\ removed \subseteq invalid
        /\ Cardinality(removed) = Min({Cardinality(invalid), MaxKeys})

\* hustmq_ha_update_queue_dict.  queue_items counts the queues this merge
\* adds, in the order the reports bring them, and the dictionary takes no
\* more once they are MaxQueues; then invalid queues are cleaned out.
MergeReports(reports) ==
    LET brought == (UNION {DOMAIN reports[h] : h \in DOMAIN reports}) \ DOMAIN dict
        room == Min({Cardinality(brought), MaxQueues})
    IN  \E added \in kSubset(room, brought) :
          LET new == [q \in DOMAIN dict \cup added |-> Updated(q, reports)]
          IN  \/ /\ room < MaxQueues
                 /\ dict' = new
                 /\ items' = room
              \/ /\ room = MaxQueues
                 /\ \E removed \in SUBSET DOMAIN new :
                       /\ Cleaned(new, removed)
                       /\ dict' = Restrict(new, DOMAIN new \ removed)
                       /\ items' = Minus(room, Cardinality(removed))

\* What the hosts that answer a round may say; at least one answers.
Answered == UNION {[hosts -> Report] : hosts \in (SUBSET Hosts) \ {{}}}

\* __merge_backend_stats
MergeOf(reports) ==
    /\ MergeReports(reports)
    /\ said' = [h \in Hosts |-> Value(reports, h, said[h])]

Merge == \E reports \in Answered : MergeOf(reports)

StatInit ==
    /\ dict = <<>>
    /\ items = 0
    /\ said = [h \in Hosts |-> <<>>]

StatSpec == StatInit /\ [][Merge]_statVars

\* hustmq_ha_merge_queue_item: does a host have the queue, and the sum of the
\* messages ready.
Merged(q) == q \in DOMAIN dict /\ \E h \in DOMAIN dict[q] : dict[q][h].valid

ReadyMessages(q) ==
    {m \in (DOMAIN dict[q]) \X (1 .. MaxReady) :
        dict[q][m[1]].valid /\ m[2] <= dict[q][m[1]].ready}

ReadySum(q) == Cardinality(ReadyMessages(q))

-----------------------------------------------------------------------------

StatTypeOK ==
    /\ DOMAIN dict \subseteq Queues
    /\ \A q \in DOMAIN dict : DOMAIN dict[q] \subseteq Hosts /\ Range(dict[q]) \subseteq Item
    /\ items \in 0 .. SizeWidth - 1
    /\ said \in [Hosts -> Report]

\* What the dictionary holds of a host is what the host said last, whatever
\* was cleaned out and came back in between: nothing a host has dropped is
\* offered any more.
ItemsAsSaid ==
    \A q \in DOMAIN dict : \A h \in DOMAIN dict[q] :
        dict[q][h].valid => q \in DOMAIN said[h] /\ dict[q][h].ready = said[h][q]

\* A queue that all its hosts still have stays, however many come, where no
\* host's name begins like another's.
LiveQueueStays ==
    [][\A q \in DOMAIN dict :
          (\A h \in DOMAIN dict[q] : q \in DOMAIN said'[h]
                                 /\ (StatusCache \/ said'[h] # said[h]))
             => q \in DOMAIN dict']_statVars

=============================================================================
