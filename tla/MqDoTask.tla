------------------------------ MODULE MqDoTask ------------------------------
(***************************************************************************)
(* The task exchange of hustmqha (hustmq_ha_do_get_handler.c and           *)
(* hustmq_ha_do_post_handler.c) in one nginx worker process.  A do_get     *)
(* posts a task and waits for its result; a do_post without a token waits  *)
(* for a task and is handed one with its token; a do_post with the token   *)
(* brings the result.  Both sides wait in fixed caches, under timers.      *)
(*                                                                         *)
(* The process is one event loop, so a handler is one step; the steps      *)
(* interleave with each other and with the timers in every order.          *)
(***************************************************************************)
EXTENDS Integers, Sequences, FiniteSets, SequencesExt

CONSTANTS
    Gets,       \* do_get requests
    Workers,    \* clients that take tasks with do_post, again and again
    Slots,      \* the do_get cache: one token per slot for the process's life
    Executers,  \* the do_post cache
    NoGet, NoWorker,
    MaxEpoch    \* bound: processes that are started after the first one died

ASSUME DoTaskAssumption ==
    /\ NoGet \notin Gets
    /\ NoWorker \notin Workers
    /\ MaxEpoch \in Nat
    /\ IsFiniteSet(Slots)
    /\ IsFiniteSet(Executers)

VARIABLES
    free,       \* g_free_task, head first
    unassigned, \* g_unassigned_task, head first
    assigned,   \* g_assigned_task
    taskOf,     \* [Slots -> request]: ctx->r, stale once the slot is free
    timers,     \* slots whose timer is set
    dict,       \* g_do_task_dict: slots whose token is known
    cached,     \* g_cache_worker, head first
    idle,       \* g_free_worker, head first
    waiter,     \* [Executers -> worker]: ctx->r of the do_post cache
    get,        \* [Gets -> status of the request]
    got,        \* [Gets -> the request whose result was the answer]
    worker,     \* [Workers -> what the client of do_post knows]
    epoch,      \* which process runs: its tokens differ from the ones before
    handed      \* auxiliary: [Gets -> Nat], how often the task was handed out

slots == <<free, unassigned, assigned, taskOf, timers, dict>>
execs == <<cached, idle, waiter>>
vars == <<slots, execs, get, got, worker, epoch, handed>>

GetStatus == {"new", "waiting", "ok", "timeout", "refused", "lost"}

\* `last` is the status of the client's last request.
WorkerState == [pc : {"idle", "cached", "holding"}, slot : Slots, task : Gets \cup {NoGet},
                epoch : 0 .. MaxEpoch, last : {"none", "200", "404", "408"}]

Resting(last) == [pc |-> "idle", slot |-> CHOOSE c \in Slots : TRUE, task |-> NoGet,
                  epoch |-> 0, last |-> last]

Queued == [pc |-> "cached", slot |-> CHOOSE c \in Slots : TRUE, task |-> NoGet,
           epoch |-> 0, last |-> "none"]

Holding(c, g) == [pc |-> "holding", slot |-> c, task |-> g, epoch |-> epoch, last |-> "200"]

\* Faulty variant: the slot is left in the list it comes from.
PeekHead(q) == q

\* __alloc_task, __alloc_executer: the head of the list goes to another one.
TakeHead(q) == Tail(q)

\* Faulty variant: the last waiter is kept.
HasSpareWaiter == Len(cached) > 1

HasWaiter == cached # <<>>

\* Faulty variant: a token that was known before is not stored again.
SetTokenOnce(c) == IF taskOf[c] = NoGet THEN dict \cup {c} ELSE dict

SetToken(c) == dict \cup {c}

\* hustmq_ha_assign_do_task starts the timer of the slot anew.
Rearm(c) == timers \cup {c}

\* __update_task(ctx, &g_free_task), from whichever list the slot is in.
Release(c) ==
    /\ free' = <<c>> \o RemoveFirst(free, c)
    /\ unassigned' = RemoveFirst(unassigned, c)
    /\ assigned' = assigned \ {c}

\* Faulty variant: an executer that was used keeps its request.
SetWaiterOnce(e, w) ==
    IF waiter[e] = NoWorker THEN [waiter EXCEPT ![e] = w] ELSE waiter

SetWaiter(e, w) == [waiter EXCEPT ![e] = w]

\* Faulty variant: the executer stays in the cache.
FreeExecuterTwice(e) ==
    /\ cached' = cached
    /\ idle' = <<e>> \o idle

\* __free_executer.
FreeExecuter(e) ==
    /\ cached' = RemoveFirst(cached, e)
    /\ idle' = <<e>> \o idle

-----------------------------------------------------------------------------

\* hustmq_ha_dispatch_do_task: the worker at the head is handed the task.
Dispatch(c, g) ==
    LET e == Head(cached)
    IN  /\ FreeExecuter(e)
        /\ worker' = [worker EXCEPT ![waiter[e]] = Holding(c, g)]
        /\ handed' = [handed EXCEPT ![g] = @ + 1]
        /\ UNCHANGED waiter

Refuse(g) ==
    /\ get' = [get EXCEPT ![g] = "refused"]
    /\ UNCHANGED <<slots, execs, got, worker, epoch, handed>>

\* __do_get: a slot, its token, a waiting worker if there is one, the timer.
DoGet(g) ==
    /\ get[g] = "new"
    /\ \/ /\ free = <<>>
          /\ Refuse(g)
       \/ LET c == Head(free)
          IN  /\ free # <<>>
              /\ free' = TakeHead(free)
              /\ taskOf' = [taskOf EXCEPT ![c] = g]
              /\ dict' = SetToken(c)
              /\ timers' = timers \cup {c}
              /\ get' = [get EXCEPT ![g] = "waiting"]
              /\ \/ /\ HasWaiter
                    /\ Dispatch(c, g)
                    /\ assigned' = assigned \cup {c}
                    /\ UNCHANGED unassigned
                 \/ /\ ~HasWaiter
                    /\ unassigned' = <<c>> \o unassigned
                    /\ UNCHANGED <<assigned, execs, worker, handed>>
              /\ UNCHANGED <<got, epoch>>

\* __on_do_get_timeout: the slot is freed, its token stays in the dictionary.
DoGetTimeout(c) ==
    /\ c \in timers
    /\ timers' = timers \ {c}
    /\ Release(c)
    /\ get' = [get EXCEPT ![taskOf[c]] = "timeout"]
    /\ UNCHANGED <<taskOf, dict, execs, got, worker, epoch, handed>>

\* __claim_task with hustmq_ha_assign_do_task: a task, or a place in the cache.
Claim(w) ==
    /\ worker[w].pc = "idle"
    /\ \/ LET c == Head(unassigned)
          IN  /\ unassigned # <<>>
              /\ unassigned' = TakeHead(unassigned)
              /\ assigned' = assigned \cup {c}
              /\ timers' = Rearm(c)
              /\ worker' = [worker EXCEPT ![w] = Holding(c, taskOf[c])]
              /\ handed' = [handed EXCEPT ![taskOf[c]] = @ + 1]
              /\ UNCHANGED <<free, taskOf, dict, execs>>
       \/ /\ unassigned = <<>>
          /\ idle # <<>>
          /\ idle' = Tail(idle)
          /\ cached' = <<Head(idle)>> \o cached
          /\ waiter' = SetWaiter(Head(idle), w)
          /\ worker' = [worker EXCEPT ![w] = Queued]
          /\ UNCHANGED <<slots, handed>>
       \/ /\ unassigned = <<>>
          /\ idle = <<>>
          /\ worker' = [worker EXCEPT ![w] = Resting("404")]
          /\ UNCHANGED <<slots, execs, handed>>
    /\ UNCHANGED <<get, got, epoch>>

\* __on_do_post_timeout.
DoPostTimeout(e) ==
    /\ e \in Range(cached)
    /\ FreeExecuter(e)
    /\ worker' = [worker EXCEPT ![waiter[e]] = Resting("408")]
    /\ UNCHANGED <<slots, waiter, get, got, epoch, handed>>

\* A process that dies is replaced by one with empty caches and other tokens;
\* the connections it held are closed.
Respawn ==
    /\ epoch < MaxEpoch
    /\ epoch' = epoch + 1
    /\ free' = SetToSeq(Slots)
    /\ unassigned' = <<>>
    /\ assigned' = {}
    /\ timers' = {}
    /\ dict' = {}
    /\ taskOf' = [c \in Slots |-> NoGet]
    /\ cached' = <<>>
    /\ idle' = SetToSeq(Executers)
    /\ waiter' = [e \in Executers |-> NoWorker]
    /\ get' = [g \in Gets |-> IF get[g] = "waiting" THEN "lost" ELSE get[g]]

\* __reply_task with hustmq_ha_reply_do_task.  The dictionary still knows the
\* token of a slot whose request has timed out: the request it names was freed
\* with its pool, and writing to it either goes unnoticed or ends the process.
Reply(w) ==
    LET c == worker[w].slot
        known == worker[w].epoch = epoch /\ c \in dict
        listed == c \in assigned \cup Range(unassigned)
    IN  /\ worker[w].pc = "holding"
        /\ \/ /\ ~known
              /\ worker' = [worker EXCEPT ![w] = Resting("404")]
              /\ UNCHANGED <<slots, execs, get, got, epoch>>
           \/ /\ known
              /\ listed
              /\ get' = [get EXCEPT ![taskOf[c]] = "ok"]
              /\ got' = [got EXCEPT ![taskOf[c]] = worker[w].task]
              /\ dict' = dict \ {c}
              /\ timers' = timers \ {c}
              /\ Release(c)
              /\ worker' = [worker EXCEPT ![w] = Resting("200")]
              /\ UNCHANGED <<taskOf, execs, epoch>>
           \/ /\ known
              /\ ~listed
              /\ dict' = dict \ {c}
              /\ Release(c)
              /\ worker' = [worker EXCEPT ![w] = Resting("200")]
              /\ UNCHANGED <<taskOf, timers, execs, get, got, epoch>>
           \/ /\ known
              /\ ~listed
              /\ Respawn
              /\ worker' = [v \in Workers |-> IF v = w \/ worker[v].pc = "cached"
                                              THEN Resting("none") ELSE worker[v]]
              /\ UNCHANGED got
        /\ UNCHANGED handed

\* The client never brings the result.
GiveUp(w) ==
    /\ worker[w].pc = "holding"
    /\ worker' = [worker EXCEPT ![w] = Resting("none")]
    /\ UNCHANGED <<slots, execs, get, got, epoch, handed>>

Init ==
    /\ free = SetToSeq(Slots)
    /\ unassigned = <<>>
    /\ assigned = {}
    /\ taskOf = [c \in Slots |-> NoGet]
    /\ timers = {}
    /\ dict = {}
    /\ cached = <<>>
    /\ idle = SetToSeq(Executers)
    /\ waiter = [e \in Executers |-> NoWorker]
    /\ get = [g \in Gets |-> "new"]
    /\ got = [g \in Gets |-> NoGet]
    /\ worker = [w \in Workers |-> Resting("none")]
    /\ epoch = 0
    /\ handed = [g \in Gets |-> 0]

Next ==
    \/ \E g \in Gets : DoGet(g)
    \/ \E c \in Slots : DoGetTimeout(c)
    \/ \E e \in Executers : DoPostTimeout(e)
    \/ \E w \in Workers : Claim(w) \/ Reply(w) \/ GiveUp(w)

\* nginx fires every timer that is set; no client is bound to do anything.
Fairness ==
    /\ \A c \in Slots : WF_vars(DoGetTimeout(c))
    /\ \A e \in Executers : WF_vars(DoPostTimeout(e))

Spec == Init /\ [][Next]_vars /\ Fairness
-----------------------------------------------------------------------------

TypeOK ==
    /\ free \in Seq(Slots)
    /\ unassigned \in Seq(Slots)
    /\ assigned \subseteq Slots
    /\ taskOf \in [Slots -> Gets \cup {NoGet}]
    /\ timers \subseteq Slots
    /\ dict \subseteq Slots
    /\ cached \in Seq(Executers)
    /\ idle \in Seq(Executers)
    /\ waiter \in [Executers -> Workers \cup {NoWorker}]
    /\ get \in [Gets -> GetStatus]
    /\ got \in [Gets -> Gets \cup {NoGet}]
    /\ worker \in [Workers -> WorkerState]
    /\ epoch \in 0 .. MaxEpoch
    /\ handed \in [Gets -> Nat]

Listed == assigned \cup Range(unassigned)

\* The slots in the task lists are exactly those of the requests that wait,
\* one each, with a timer and a known token, and the other slots are free:
\* no timeout, late result or reuse of a slot loses one or lists it twice.
SlotsAreTheWaiting ==
    /\ {taskOf[c] : c \in Listed} = {g \in Gets : get[g] = "waiting"}
    /\ \A c, d \in Listed : taskOf[c] = taskOf[d] => c = d
    /\ Listed = timers
    /\ Listed \subseteq dict
    /\ Range(free) = Slots \ Listed
    /\ Len(free) + Len(unassigned) + Cardinality(assigned) = Cardinality(Slots)

\* The places in the do_post cache are those of the workers that wait.
ExecutersAreTheWaiting ==
    /\ {waiter[e] : e \in Range(cached)} = {w \in Workers : worker[w].pc = "cached"}
    /\ Range(idle) = Executers \ Range(cached)
    /\ Len(cached) + Len(idle) = Cardinality(Executers)

\* Slots and executers: no pool loses or doubles an entry, and nobody who waits
\* is missing from it.
PoolsAreTheWaiting == SlotsAreTheWaiting /\ ExecutersAreTheWaiting

\* A task never waits for a worker while a worker waits for a task.
NeverBothWait == unassigned = <<>> \/ cached = <<>>

\* No task is handed to two workers.
HandedOnce == \A g \in Gets : handed[g] <= 1

\* After any sequence of the five handlers and timers that share slots, tokens
\* and executers, who waits is listed once, and nobody waits without need.
ExchangeSound == PoolsAreTheWaiting /\ NeverBothWait /\ HandedOnce

\* A worker that brings its result while the request still waits is told 200,
\* and the request is answered with that very result.
InTimeIsDelivered ==
    [][\A w \in Workers :
         /\ worker[w].pc = "holding"
         /\ get[worker[w].task] = "waiting"
         /\ worker'[w].pc = "idle"
         /\ worker'[w].last # "none"
         => /\ worker'[w].last = "200"
            /\ got'[worker[w].task] = worker[w].task]_vars

\* Every request that was accepted is answered, and every worker that waits
\* in the cache.
EveryoneAnswered ==
    /\ \A g \in Gets : get[g] = "waiting" ~> get[g] # "waiting"
    /\ \A w \in Workers : worker[w].pc = "cached" ~> worker[w].pc # "cached"
=============================================================================
