----------------------------- MODULE MqWorkers ------------------------------
(***************************************************************************)
(* What a hustmqha worker process knows of the workers of its hosts, the   *)
(* clients that take messages from them (hustmq_ha_worker_def.c,           *)
(* hustmq_ha_worker_handler.c): a dictionary that a request for the list   *)
(* of workers brings up to date with what the hosts told it.               *)
(***************************************************************************)
EXTENDS MqStat, Sequences, SequencesExt

CONSTANTS
    Workers,        \* names of workers
    Times,          \* when a worker was seen last
    MaxWorkers      \* HUSTMQ_HA_WORKER_ITEMS

ASSUME WorkersAssumption ==
    IsFiniteSet(Workers) /\ Times \subseteq Nat /\ MaxWorkers \in Nat \ {0}

VARIABLE worker_dict    \* worker -> whether it counts, and when it was seen last

\* What a host may say: its workers in any order, each once.
WorkerArray ==
    UNION {{[i \in DOMAIN ws |-> [worker |-> ws[i], time |-> times[ws[i]]]] :
               ws \in SetToSeqs(some), times \in [some -> Times]} : some \in SUBSET Workers}

\* f with v for x.
With(f, x, v) == [y \in DOMAIN f \cup {x} |-> IF y = x THEN v ELSE f[y]]

\* __reset_worker_dict_status
Reset(d) == [w \in DOMAIN d |-> [d[w] EXCEPT !.valid = FALSE]]

\* Faulty variant: the time of the host that is asked last is kept.
KeepsLastTime(item, t) == [valid |-> TRUE, time |-> t]

\* A worker that is known counts again, with the latest time of this round.
Seen(item, t) ==
    [valid |-> TRUE, time |-> IF item.valid THEN Max({item.time, t}) ELSE t]

\* __update_worker_item for one worker.  What a host says after a worker for
\* which there is no room is not read.
TakeWorker(s, e) ==
    IF s.stopped THEN s
    ELSE IF e.worker \in DOMAIN s.dict
    THEN [s EXCEPT !.dict[e.worker] = Seen(@, e.time)]
    ELSE IF s.items > MaxWorkers - 1
    THEN [s EXCEPT !.stopped = TRUE]
    ELSE [s EXCEPT !.dict = With(@, e.worker, [valid |-> TRUE, time |-> e.time]),
                   !.items = @ + 1]

\* One array, from its first worker on.
ReadArray(s, array) ==
    LET read[i \in 0 .. Len(array)] ==
            IF i = 0 THEN [s EXCEPT !.stopped = FALSE] ELSE TakeWorker(read[i - 1], array[i])
    IN  read[Len(array)]

\* The dictionary, and worker_items, which counts the workers that are new,
\* when all arrays have been read.
ReadArrays(arrays) ==
    LET start == [dict |-> Reset(worker_dict), items |-> 0, stopped |-> FALSE]
        read[i \in 0 .. Len(arrays)] ==
            IF i = 0 THEN start ELSE ReadArray(read[i - 1], arrays[i])
    IN  read[Len(arrays)]

Counting(d) == {w \in DOMAIN d : d[w].valid}

\* hustmq_ha_update_worker_dict: the workers that do not count are cleaned out
\* only when the new ones fill the limit.
UpdateWorkers(arrays) ==
    LET s == ReadArrays(arrays)
        gone == DOMAIN s.dict \ Counting(s.dict)
    IN  \/ s.items < MaxWorkers /\ worker_dict' = s.dict
        \/ /\ s.items = MaxWorkers
           /\ \E removed \in kSubset(Min({Cardinality(gone), MaxKeys}), gone) :
                 worker_dict' = Restrict(s.dict, DOMAIN s.dict \ removed)

\* hustmq_ha_merge_worker_dict: the lists that may come of a dictionary.
Listings(d) ==
    {[w \in some |-> d[w].time] :
        some \in kSubset(Min({Cardinality(Counting(d)), MaxWorkers}), Counting(d))}

=============================================================================
