--------------------------- MODULE MqDoTaskProofs ---------------------------
(***************************************************************************)
(* That the exchange of tasks loses no slot, no executer and nobody who    *)
(* waits, hands no task out twice, and brings a result that is in time to  *)
(* the request it is for: for any number of requests, workers, slots,      *)
(* executers and deaths of the process.                                    *)
(*                                                                         *)
(* A slot is found by its token long after its request is gone, so the     *)
(* invariant says who is listed: the slots of the lists are those of the   *)
(* requests that wait, and a worker whose task still waits holds a slot    *)
(* that is still that task's.                                              *)
(***************************************************************************)
EXTENDS MqDoTask, Lists

\* The slots a client's knowledge may name while it holds none, or one.
NoSlot == CHOOSE c \in Slots : TRUE

Knowledge == [pc : {"idle", "cached", "holding"}, slot : Slots \cup {NoSlot},
              task : Gets \cup {NoGet}, epoch : Nat, last : {"none", "200", "404", "408"}]

Types ==
    /\ taskOf \in [Slots -> Gets \cup {NoGet}]
    /\ dict \subseteq Slots
    /\ waiter \in [Executers -> Workers \cup {NoWorker}]
    /\ get \in [Gets -> GetStatus]
    /\ got \in [Gets -> Gets \cup {NoGet}]
    /\ worker \in [Workers -> Knowledge]
    /\ epoch \in Nat
    /\ handed \in [Gets -> Nat]

\* Every slot is in one of the three lists, once.
SlotLists(f, u, a) ==
    /\ f \in List(Slots) /\ u \in List(Slots) /\ a \subseteq Slots
    /\ Range(f) \cap Range(u) = {}
    /\ Range(f) \cap a = {}
    /\ Range(u) \cap a = {}
    /\ Range(f) \cup Range(u) \cup a = Slots

ExecuterLists(c, i) ==
    /\ c \in List(Executers) /\ i \in List(Executers)
    /\ Range(c) \cap Range(i) = {}
    /\ Range(c) \cup Range(i) = Executers

\* The listed slots are those of the requests that wait.
TasksListed ==
    /\ timers = Listed
    /\ Listed \subseteq dict
    /\ \A c \in Listed : taskOf[c] \in Gets /\ get[taskOf[c]] = "waiting"
    /\ \A c, d \in Listed : taskOf[c] = taskOf[d] => c = d
    /\ \A g \in Gets : get[g] = "waiting" => \E c \in Listed : taskOf[c] = g

\* The cached executers are those of the workers that wait.
WorkersCached ==
    /\ \A e \in Range(cached) : waiter[e] \in Workers /\ worker[waiter[e]].pc = "cached"
    /\ \A e, f \in Range(cached) : waiter[e] = waiter[f] => e = f
    /\ \A w \in Workers : worker[w].pc = "cached" => \E e \in Range(cached) : waiter[e] = w

\* What has not been handed out yet.
NotHanded ==
    /\ HandedOnce
    /\ \A g \in Gets : get[g] = "new" => handed[g] = 0
    /\ \A c \in Range(unassigned) : handed[taskOf[c]] = 0

\* A worker whose task still waits holds the slot of it.
HeldTasks ==
    \A w \in Workers : worker[w].pc = "holding" =>
        /\ worker[w].task \in Gets
        /\ handed[worker[w].task] = 1
        /\ get[worker[w].task] = "waiting" =>
              /\ worker[w].epoch = epoch
              /\ worker[w].slot \in assigned
              /\ taskOf[worker[w].slot] = worker[w].task

Inv ==
    /\ Types
    /\ SlotLists(free, unassigned, assigned)
    /\ ExecuterLists(cached, idle)
    /\ TasksListed
    /\ WorkersCached
    /\ NeverBothWait
    /\ NotHanded
    /\ HeldTasks

-----------------------------------------------------------------------------

\* What a client knows after each answer.
LEMMA KnowledgeShapes ==
    /\ \A last \in {"none", "200", "404", "408"} :
          /\ Resting(last) \in Knowledge
          /\ Resting(last).pc = "idle" /\ Resting(last).last = last
    /\ Queued \in Knowledge /\ Queued.pc = "cached"
    /\ \A c \in Slots, g \in Gets : epoch \in Nat =>
          /\ Holding(c, g) \in Knowledge
          /\ Holding(c, g).pc = "holding"
          /\ Holding(c, g).slot = c
          /\ Holding(c, g).task = g
          /\ Holding(c, g).epoch = epoch
BY DEF Resting, Queued, Holding, Knowledge, NoSlot

\* __update_task to the free list, from whichever list the slot is in.
LEMMA ReleaseKeepsLists ==
    ASSUME SlotLists(free, unassigned, assigned), NEW c \in Slots, Release(c)
    PROVE  /\ SlotLists(free', unassigned', assigned')
           /\ Range(unassigned') = Range(unassigned) \ {c}
           /\ assigned' = assigned \ {c}
           /\ Listed' = Listed \ {c}
<1>1. /\ RemoveFirst(free, c) \in List(Slots)
      /\ Range(RemoveFirst(free, c)) = Range(free) \ {c}
      /\ RemoveFirst(unassigned, c) \in List(Slots)
      /\ Range(RemoveFirst(unassigned, c)) = Range(unassigned) \ {c}
  BY Unlink DEF SlotLists
<1>2. /\ free' = <<c>> \o RemoveFirst(free, c)
      /\ unassigned' = RemoveFirst(unassigned, c)
      /\ assigned' = assigned \ {c}
  BY DEF Release
<1>3. free' \in List(Slots) /\ Range(free') = Range(free) \cup {c}
  <2>1. /\ <<c>> \o RemoveFirst(free, c) \in List(Slots)
        /\ Range(<<c>> \o RemoveFirst(free, c)) = Range(RemoveFirst(free, c)) \cup {c}
    BY <1>1, PushHead
  <2>. QED BY <1>1, <1>2, <2>1
<1>4. unassigned' \in List(Slots) /\ Range(unassigned') = Range(unassigned) \ {c}
  BY <1>1, <1>2
<1>5. SlotLists(free', unassigned', assigned')
  BY <1>2, <1>3, <1>4 DEF SlotLists
<1>6. Listed' = Listed \ {c}
  BY <1>2, <1>4 DEF Listed
<1>. QED BY <1>2, <1>4, <1>5, <1>6

\* __free_executer of an executer that is in the cache.
LEMMA FreeExecuterKeepsLists ==
    ASSUME ExecuterLists(cached, idle), NEW e \in Range(cached), FreeExecuter(e)
    PROVE  /\ ExecuterLists(cached', idle')
           /\ Range(cached') = Range(cached) \ {e}
<1>1. e \in Executers /\ e \notin Range(idle)
  BY MembersInSet DEF ExecuterLists
<1>2. /\ RemoveFirst(cached, e) \in List(Executers)
      /\ Range(RemoveFirst(cached, e)) = Range(cached) \ {e}
  BY Unlink DEF ExecuterLists
<1>3. /\ <<e>> \o idle \in List(Executers)
      /\ Range(<<e>> \o idle) = Range(idle) \cup {e}
  BY <1>1, PushHead DEF ExecuterLists
<1>4. cached' = RemoveFirst(cached, e) /\ idle' = <<e>> \o idle
  BY DEF FreeExecuter
<1>. QED BY <1>2, <1>3, <1>4 DEF ExecuterLists

\* An executer that is freed leaves the cache to the other workers that wait,
\* whatever its own worker is told.
LEMMA OneWorkerLeaves ==
    ASSUME Types, ExecuterLists(cached, idle), WorkersCached,
           NEW e \in Range(cached), FreeExecuter(e), waiter' = waiter,
           NEW k \in Knowledge, k.pc # "cached", worker' = [worker EXCEPT ![waiter[e]] = k]
    PROVE  /\ ExecuterLists(cached', idle')
           /\ WorkersCached'
           /\ waiter[e] \in Workers
           /\ worker' \in [Workers -> Knowledge]
           /\ worker'[waiter[e]] = k
           /\ \A w \in Workers : w # waiter[e] => worker'[w] = worker[w]
<1>1. ExecuterLists(cached', idle') /\ Range(cached') = Range(cached) \ {e}
  BY FreeExecuterKeepsLists
<1>2. waiter[e] \in Workers
  BY DEF WorkersCached
<1>3. /\ worker' \in [Workers -> Knowledge]
      /\ worker'[waiter[e]] = k
      /\ \A w \in Workers : w # waiter[e] => worker'[w] = worker[w]
  BY <1>2 DEF Types
<1>4. \A f \in Range(cached') : waiter[f] \in Workers /\ waiter[f] # waiter[e]
  BY <1>1 DEF WorkersCached
<1>5. WorkersCached'
  <2>1. ASSUME NEW f \in Range(cached')
        PROVE  waiter'[f] \in Workers /\ worker'[waiter'[f]].pc = "cached"
    BY <1>1, <1>3, <1>4, <2>1 DEF WorkersCached
  <2>2. ASSUME NEW f \in Range(cached'), NEW d \in Range(cached'), waiter'[f] = waiter'[d]
        PROVE  f = d
    BY <1>1, <2>2 DEF WorkersCached
  <2>3. ASSUME NEW w \in Workers, worker'[w].pc = "cached"
        PROVE  \E f \in Range(cached') : waiter'[f] = w
    <3>1. w # waiter[e] /\ worker[w].pc = "cached"
      BY <1>3, <2>3
    <3>2. PICK f \in Range(cached) : waiter[f] = w
      BY <3>1 DEF WorkersCached
    <3>. QED BY <1>1, <3>1, <3>2
  <2>. QED BY <2>1, <2>2, <2>3 DEF WorkersCached
<1>. QED BY <1>1, <1>2, <1>3, <1>5

-----------------------------------------------------------------------------

LEMMA InvInit == Init => Inv
<1> SUFFICES ASSUME Init PROVE Inv
  OBVIOUS
<1>1. /\ free \in List(Slots) /\ Range(free) = Slots
      /\ idle \in List(Executers) /\ Range(idle) = Executers
  BY SetAsList, DoTaskAssumption DEF Init
<1>2. /\ unassigned \in List(Slots) /\ Range(unassigned) = {} /\ assigned = {}
      /\ cached \in List(Executers) /\ Range(cached) = {}
  BY EmptyList DEF Init
<1>3. SlotLists(free, unassigned, assigned) /\ ExecuterLists(cached, idle)
  BY <1>1, <1>2 DEF SlotLists, ExecuterLists
<1>4. \A w \in Workers : worker[w] \in Knowledge /\ worker[w].pc = "idle"
  BY KnowledgeShapes DEF Init
<1>5. worker \in [Workers -> Knowledge]
  BY <1>4 DEF Init
<1>6. Types
  BY <1>5 DEF Init, Types, GetStatus
<1>7. Listed = {}
  BY <1>2 DEF Listed
<1>8. TasksListed
  BY <1>7 DEF TasksListed, Init
<1>9. WorkersCached /\ NeverBothWait
  BY <1>2, <1>4 DEF WorkersCached, NeverBothWait, Init
<1>10. NotHanded
  BY <1>2 DEF NotHanded, HandedOnce, Init
<1>11. HeldTasks
  BY <1>4 DEF HeldTasks
<1>. QED BY <1>3, <1>6, <1>8, <1>9, <1>10, <1>11 DEF Inv

\* A request that is refused waits nowhere.
LEMMA RefuseKeepsInv ==
    ASSUME Inv, NEW g \in Gets, get[g] = "new", Refuse(g)
    PROVE  Inv'
<1>1. /\ get' = [get EXCEPT ![g] = "refused"]
      /\ UNCHANGED <<free, unassigned, assigned, taskOf, timers, dict, cached, idle, waiter>>
      /\ UNCHANGED <<got, worker, epoch, handed>>
  BY DEF Refuse, slots, execs
<1>2. get' \in [Gets -> GetStatus] /\ get'[g] = "refused"
      /\ \A h \in Gets \ {g} : get'[h] = get[h]
  BY <1>1 DEF Inv, Types, GetStatus
<1>3. Types' /\ SlotLists(free, unassigned, assigned)' /\ ExecuterLists(cached, idle)'
  BY <1>1, <1>2 DEF Inv, Types, SlotLists, ExecuterLists
<1>4. TasksListed'
  <2>1. Listed' = Listed
    BY <1>1 DEF Listed
  <2>. QED BY <1>1, <1>2, <2>1 DEF Inv, TasksListed
<1>5. WorkersCached' /\ NeverBothWait'
  BY <1>1 DEF Inv, WorkersCached, NeverBothWait
<1>6. NotHanded'
  BY <1>1, <1>2 DEF Inv, NotHanded, HandedOnce
<1>7. HeldTasks'
  BY <1>1, <1>2 DEF Inv, HeldTasks
<1>. QED BY <1>3, <1>4, <1>5, <1>6, <1>7 DEF Inv

\* A request that is accepted, before it is known who gets the task: its slot
\* leaves the free list, and every other listed slot has another task.
LEMMA SlotTaken ==
    ASSUME Inv, NEW g \in Gets, get[g] = "new", free # <<>>,
           free' = TakeHead(free), taskOf' = [taskOf EXCEPT ![Head(free)] = g],
           dict' = SetToken(Head(free)), timers' = timers \cup {Head(free)},
           get' = [get EXCEPT ![g] = "waiting"]
    PROVE  \E c \in Slots :
             /\ c = Head(free) /\ c \in Range(free) /\ c \notin Listed
             /\ free' \in List(Slots) /\ Range(free') = Range(free) \ {c}
             /\ taskOf' \in [Slots -> Gets \cup {NoGet}]
             /\ taskOf'[c] = g /\ \A d \in Slots \ {c} : taskOf'[d] = taskOf[d]
             /\ dict' = dict \cup {c} /\ timers' = timers \cup {c}
             /\ get' \in [Gets -> GetStatus]
             /\ get'[g] = "waiting" /\ \A h \in Gets \ {g} : get'[h] = get[h]
             /\ Listed' = Listed \cup {c} => TasksListed'
<1>1. PICK c \in Slots : /\ c = Head(free) /\ c \in Range(free)
                         /\ free' \in List(Slots) /\ Range(free') = Range(free) \ {c}
  BY TakeFromHead DEF Inv, SlotLists, TakeHead
<1>2. c \notin Listed /\ Listed \subseteq Slots
  BY <1>1 DEF Inv, SlotLists, Listed
<1>3. /\ taskOf' \in [Slots -> Gets \cup {NoGet}]
      /\ taskOf'[c] = g /\ \A d \in Slots \ {c} : taskOf'[d] = taskOf[d]
      /\ dict' = dict \cup {c} /\ timers' = timers \cup {c}
  BY <1>1 DEF Inv, Types, SetToken
<1>4. /\ get' \in [Gets -> GetStatus]
      /\ get'[g] = "waiting" /\ \A h \in Gets \ {g} : get'[h] = get[h]
  BY DEF Inv, Types, GetStatus
<1>5. ASSUME Listed' = Listed \cup {c} PROVE TasksListed'
  <2>1. timers' = Listed' /\ Listed' \subseteq dict'
    BY <1>3, <1>5 DEF Inv, TasksListed
  <2>2. ASSUME NEW d \in Listed PROVE taskOf'[d] = taskOf[d] /\ taskOf[d] # g
    BY <1>2, <1>3 DEF Inv, TasksListed
  <2>3. ASSUME NEW d \in Listed' PROVE taskOf'[d] \in Gets /\ get'[taskOf'[d]] = "waiting"
    BY <1>3, <1>4, <1>5, <2>2 DEF Inv, TasksListed
  <2>4. ASSUME NEW d \in Listed', NEW e \in Listed', taskOf'[d] = taskOf'[e] PROVE d = e
    BY <1>3, <1>5, <2>2, <2>4 DEF Inv, TasksListed
  <2>5. ASSUME NEW h \in Gets, get'[h] = "waiting" PROVE \E d \in Listed' : taskOf'[d] = h
    <3>1. CASE h = g
      BY <1>3, <1>5, <3>1
    <3>2. CASE h # g
      <4>1. PICK d \in Listed : taskOf[d] = h
        BY <1>4, <2>5, <3>2 DEF Inv, TasksListed
      <4>. QED BY <1>5, <2>2, <4>1
    <3>. QED BY <3>1, <3>2
  <2>. QED BY <2>1, <2>3, <2>4, <2>5 DEF TasksListed
<1>. QED BY <1>1, <1>2, <1>3, <1>4, <1>5

\* The task of a new request waits for a worker, when none is cached.
LEMMA TaskWaits ==
    ASSUME Inv, NEW g \in Gets, get[g] = "new", free # <<>>, ~HasWaiter,
           free' = TakeHead(free), taskOf' = [taskOf EXCEPT ![Head(free)] = g],
           dict' = SetToken(Head(free)), timers' = timers \cup {Head(free)},
           get' = [get EXCEPT ![g] = "waiting"], unassigned' = <<Head(free)>> \o unassigned,
           UNCHANGED <<assigned, execs, worker, handed, got, epoch>>
    PROVE  Inv'
<1>1. PICK c \in Slots :
        /\ c = Head(free) /\ c \in Range(free) /\ c \notin Listed
        /\ free' \in List(Slots) /\ Range(free') = Range(free) \ {c}
        /\ taskOf' \in [Slots -> Gets \cup {NoGet}]
        /\ taskOf'[c] = g /\ \A d \in Slots \ {c} : taskOf'[d] = taskOf[d]
        /\ dict' = dict \cup {c} /\ timers' = timers \cup {c}
        /\ get' \in [Gets -> GetStatus]
        /\ get'[g] = "waiting" /\ \A h \in Gets \ {g} : get'[h] = get[h]
        /\ Listed' = Listed \cup {c} => TasksListed'
  BY SlotTaken
<1>2. UNCHANGED <<assigned, cached, idle, waiter, worker, handed, got, epoch>>
  BY DEF execs
<1>3. unassigned' \in List(Slots) /\ Range(unassigned') = Range(unassigned) \cup {c}
  <2>1. c \notin Range(unassigned)
    BY <1>1 DEF Listed
  <2>2. /\ <<c>> \o unassigned \in List(Slots)
        /\ Range(<<c>> \o unassigned) = Range(unassigned) \cup {c}
    BY <2>1, PushHead DEF Inv, SlotLists
  <2>. QED BY <1>1, <2>2
<1>4. SlotLists(free, unassigned, assigned)'
  BY <1>1, <1>2, <1>3 DEF Inv, SlotLists, Listed
<1>5. TasksListed'
  BY <1>1, <1>2, <1>3 DEF Listed
<1>6. Types' /\ ExecuterLists(cached, idle)' /\ WorkersCached'
  BY <1>1, <1>2 DEF Inv, Types, ExecuterLists, WorkersCached
<1>7. NeverBothWait'
  BY <1>2 DEF HasWaiter, NeverBothWait
<1>8. NotHanded'
  <2>1. ASSUME NEW d \in Range(unassigned') PROVE handed[taskOf'[d]] = 0
    <3>1. CASE d = c
      BY <1>1, <3>1 DEF Inv, NotHanded
    <3>2. CASE d # c
      <4>1. d \in Range(unassigned) /\ d \in Slots
        BY <1>3, <3>2, MembersInSet DEF Inv, SlotLists
      <4>. QED BY <1>1, <3>2, <4>1 DEF Inv, NotHanded
    <3>. QED BY <3>1, <3>2
  <2>2. \A h \in Gets : get'[h] = "new" => get[h] = "new"
    BY <1>1
  <2>. QED BY <1>2, <2>1, <2>2 DEF Inv, NotHanded, HandedOnce
<1>9. HeldTasks'
  <2>1. SUFFICES ASSUME NEW w \in Workers, worker[w].pc = "holding"
                 PROVE  /\ worker[w].task \in Gets
                        /\ handed[worker[w].task] = 1
                        /\ get'[worker[w].task] = "waiting" =>
                              /\ worker[w].epoch = epoch
                              /\ worker[w].slot \in assigned
                              /\ taskOf'[worker[w].slot] = worker[w].task
    BY <1>2 DEF HeldTasks
  <2>2. worker[w].task \in Gets /\ handed[worker[w].task] = 1 /\ worker[w].task # g
    BY <2>1 DEF Inv, HeldTasks, NotHanded
  <2>3. get'[worker[w].task] = get[worker[w].task]
    BY <1>1, <2>2
  <2>4. ASSUME get[worker[w].task] = "waiting"
        PROVE  taskOf'[worker[w].slot] = taskOf[worker[w].slot]
    <3>1. worker[w].slot \in assigned
      BY <2>1, <2>4 DEF Inv, HeldTasks
    <3>2. worker[w].slot # c /\ worker[w].slot \in Slots
      BY <1>1, <3>1 DEF Listed, Inv, SlotLists
    <3>. QED BY <1>1, <3>2
  <2>. QED BY <2>1, <2>2, <2>3, <2>4 DEF Inv, HeldTasks
<1>. QED BY <1>4, <1>5, <1>6, <1>7, <1>8, <1>9 DEF Inv

\* The task of a new request is handed to the worker that came last.
LEMMA TaskDispatched ==
    ASSUME Inv, NEW g \in Gets, get[g] = "new", free # <<>>, HasWaiter,
           free' = TakeHead(free), taskOf' = [taskOf EXCEPT ![Head(free)] = g],
           dict' = SetToken(Head(free)), timers' = timers \cup {Head(free)},
           get' = [get EXCEPT ![g] = "waiting"], Dispatch(Head(free), g),
           assigned' = assigned \cup {Head(free)}, UNCHANGED <<unassigned, got, epoch>>
    PROVE  Inv'
<1>1. PICK c \in Slots :
        /\ c = Head(free) /\ c \in Range(free) /\ c \notin Listed
        /\ free' \in List(Slots) /\ Range(free') = Range(free) \ {c}
        /\ taskOf' \in [Slots -> Gets \cup {NoGet}]
        /\ taskOf'[c] = g /\ \A d \in Slots \ {c} : taskOf'[d] = taskOf[d]
        /\ dict' = dict \cup {c} /\ timers' = timers \cup {c}
        /\ get' \in [Gets -> GetStatus]
        /\ get'[g] = "waiting" /\ \A h \in Gets \ {g} : get'[h] = get[h]
        /\ Listed' = Listed \cup {c} => TasksListed'
  BY SlotTaken
<1>2. assigned' = assigned \cup {c}
  BY <1>1
<1>3. SlotLists(free, unassigned, assigned)'
  BY <1>1, <1>2 DEF Inv, SlotLists, Listed
<1>4. TasksListed'
  BY <1>1, <1>2 DEF Listed
<1>5. PICK e \in Range(cached) : e = Head(cached)
  BY TakeFromHead DEF HasWaiter, Inv, ExecuterLists
<1>6. /\ FreeExecuter(e) /\ waiter' = waiter
      /\ worker' = [worker EXCEPT ![waiter[e]] = Holding(c, g)]
      /\ handed' = [handed EXCEPT ![g] = @ + 1]
  BY <1>1, <1>5 DEF Dispatch
<1>7. /\ Holding(c, g) \in Knowledge
      /\ Holding(c, g).pc = "holding" /\ Holding(c, g).slot = c
      /\ Holding(c, g).task = g /\ Holding(c, g).epoch = epoch
  BY KnowledgeShapes DEF Inv, Types
<1>8. PICK k \in Knowledge : k = Holding(c, g)
  BY <1>7
<1>9. /\ ExecuterLists(cached', idle')
      /\ WorkersCached'
      /\ waiter[e] \in Workers
      /\ worker' \in [Workers -> Knowledge]
      /\ worker'[waiter[e]] = k
      /\ \A w \in Workers : w # waiter[e] => worker'[w] = worker[w]
  BY <1>6, <1>7, <1>8, OneWorkerLeaves DEF Inv
<1>10. handed[g] = 0 /\ handed' \in [Gets -> Nat] /\ handed'[g] = 1
       /\ \A h \in Gets \ {g} : handed'[h] = handed[h]
  BY <1>6 DEF Inv, Types, NotHanded
<1>11. Types'
  BY <1>1, <1>6, <1>9, <1>10 DEF Inv, Types
<1>12. unassigned = <<>>
  BY DEF Inv, NeverBothWait, HasWaiter
<1>13. NeverBothWait'
  BY <1>12 DEF NeverBothWait
<1>14. NotHanded'
  <2>1. Range(unassigned') = {}
    BY <1>12, EmptyList
  <2>2. \A h \in Gets : handed'[h] <= 1
    BY <1>10 DEF Inv, NotHanded, HandedOnce
  <2>3. \A h \in Gets : get'[h] = "new" => handed'[h] = 0
    BY <1>1, <1>10 DEF Inv, NotHanded
  <2>. QED BY <2>1, <2>2, <2>3 DEF NotHanded, HandedOnce
<1>15. HeldTasks'
  <2>1. SUFFICES ASSUME NEW w \in Workers, worker'[w].pc = "holding"
                 PROVE  /\ worker'[w].task \in Gets
                        /\ handed'[worker'[w].task] = 1
                        /\ get'[worker'[w].task] = "waiting" =>
                              /\ worker'[w].epoch = epoch
                              /\ worker'[w].slot \in assigned'
                              /\ taskOf'[worker'[w].slot] = worker'[w].task
    BY DEF HeldTasks
  <2>2. CASE w = waiter[e]
    <3>1. worker'[w] = k
      BY <1>9, <2>2
    <3>. QED BY <1>1, <1>2, <1>7, <1>8, <1>10, <3>1
  <2>3. CASE w # waiter[e]
    <3>1. worker'[w] = worker[w]
      BY <1>9, <2>3
    <3>2. /\ worker[w].task \in Gets /\ handed[worker[w].task] = 1 /\ worker[w].task # g
          /\ get[worker[w].task] = "waiting" =>
              /\ worker[w].epoch = epoch
              /\ worker[w].slot \in assigned
              /\ taskOf[worker[w].slot] = worker[w].task
      BY <1>10, <2>1, <3>1 DEF Inv, HeldTasks
    <3>3. get'[worker[w].task] = get[worker[w].task]
      BY <1>1, <3>2
    <3>4. worker[w].slot \in assigned => taskOf'[worker[w].slot] = taskOf[worker[w].slot]
      BY <1>1 DEF Listed, Inv, SlotLists
    <3>. QED BY <1>2, <1>10, <3>1, <3>2, <3>3, <3>4
  <2>. QED BY <2>2, <2>3
<1>. QED BY <1>3, <1>4, <1>9, <1>11, <1>13, <1>14, <1>15 DEF Inv

LEMMA DoGetKeepsInv ==
    ASSUME Inv, NEW g \in Gets, DoGet(g)
    PROVE  Inv'
<1>1. CASE Refuse(g)
  BY <1>1, RefuseKeepsInv DEF DoGet
<1>2. CASE ~Refuse(g)
  <2>1. /\ get[g] = "new" /\ free # <<>>
        /\ free' = TakeHead(free) /\ taskOf' = [taskOf EXCEPT ![Head(free)] = g]
        /\ dict' = SetToken(Head(free)) /\ timers' = timers \cup {Head(free)}
        /\ get' = [get EXCEPT ![g] = "waiting"] /\ UNCHANGED <<got, epoch>>
        /\ \/ /\ HasWaiter /\ Dispatch(Head(free), g)
              /\ assigned' = assigned \cup {Head(free)} /\ UNCHANGED unassigned
           \/ /\ ~HasWaiter /\ unassigned' = <<Head(free)>> \o unassigned
              /\ UNCHANGED <<assigned, execs, worker, handed>>
    BY <1>2, Zenon DEF DoGet
  <2>2. CASE HasWaiter
    BY <2>1, <2>2, TaskDispatched
  <2>3. CASE ~HasWaiter
    BY <2>1, <2>3, TaskWaits
  <2>. QED BY <2>2, <2>3
<1>. QED BY <1>1, <1>2

-----------------------------------------------------------------------------

\* A slot is freed and its request, if it is listed, waits no longer.
LEMMA SlotLeaves ==
    ASSUME Inv, NEW c \in Slots, Release(c), taskOf' = taskOf,
           NEW st \in GetStatus \ {"waiting", "new"},
           c \in Listed => get' = [get EXCEPT ![taskOf[c]] = st],
           c \notin Listed => get' = get,
           timers' = timers \ {c}, dict' \in {dict, dict \ {c}}, handed' = handed
    PROVE  /\ SlotLists(free, unassigned, assigned)'
           /\ get' \in [Gets -> GetStatus]
           /\ TasksListed'
           /\ NotHanded'
           /\ unassigned = <<>> => unassigned' = <<>>
           /\ \A w \in Workers, g \in Gets :
                 /\ worker[w].pc = "holding" /\ g = worker[w].task
                 /\ get'[g] = "waiting"
                 => /\ worker[w].epoch = epoch
                    /\ worker[w].slot \in assigned'
                    /\ taskOf[worker[w].slot] = g
<1>1. /\ SlotLists(free', unassigned', assigned')
      /\ Range(unassigned') = Range(unassigned) \ {c}
      /\ assigned' = assigned \ {c}
      /\ Listed' = Listed \ {c}
  BY ReleaseKeepsLists DEF Inv
<1>2. c \in Listed => taskOf[c] \in Gets
  BY DEF Inv, TasksListed
<1>3. /\ get' \in [Gets -> GetStatus]
      /\ \A g \in Gets : get'[g] # get[g] => c \in Listed /\ g = taskOf[c]
      /\ c \in Listed => get'[taskOf[c]] = st
  <2>1. CASE c \in Listed
    BY <1>2, <2>1 DEF Inv, Types
  <2>2. CASE c \notin Listed
    BY <2>2 DEF Inv, Types
  <2>. QED BY <2>1, <2>2
<1>4. \A d \in Listed' : taskOf[d] \in Gets /\ get'[taskOf[d]] = "waiting"
  <2>1. SUFFICES ASSUME NEW d \in Listed' PROVE taskOf[d] \in Gets /\ get'[taskOf[d]] = "waiting"
    OBVIOUS
  <2>2. d \in Listed /\ d # c /\ taskOf[d] \in Gets /\ get[taskOf[d]] = "waiting"
    BY <1>1 DEF Inv, TasksListed
  <2>3. c \in Listed => taskOf[d] # taskOf[c]
    BY <2>2 DEF Inv, TasksListed
  <2>. QED BY <1>3, <2>2, <2>3
<1>5. TasksListed'
  <2>1. timers' = Listed' /\ Listed' \subseteq dict'
    BY <1>1 DEF Inv, TasksListed
  <2>2. \A d, e \in Listed' : taskOf[d] = taskOf[e] => d = e
    BY <1>1 DEF Inv, TasksListed
  <2>3. ASSUME NEW g \in Gets, get'[g] = "waiting" PROVE \E d \in Listed' : taskOf[d] = g
    <3>1. get[g] = "waiting" /\ (c \in Listed => g # taskOf[c])
      BY <1>3, <2>3
    <3>2. PICK d \in Listed : taskOf[d] = g
      BY <3>1 DEF Inv, TasksListed
    <3>. QED BY <1>1, <3>1, <3>2
  <2>. QED BY <1>4, <2>1, <2>2, <2>3 DEF TasksListed
<1>6. NotHanded'
  <2>1. \A g \in Gets : get'[g] = "new" => get[g] = "new"
    BY <1>3
  <2>2. \A d \in Range(unassigned') : handed[taskOf[d]] = 0
    BY <1>1 DEF Inv, NotHanded
  <2>. QED BY <2>1, <2>2 DEF Inv, NotHanded, HandedOnce
<1>7. unassigned = <<>> => unassigned' = <<>>
  BY <1>1, EmptyList, NoMemberNoList DEF SlotLists
<1>8. ASSUME NEW w \in Workers, NEW g \in Gets, worker[w].pc = "holding",
             g = worker[w].task, get'[g] = "waiting"
      PROVE  worker[w].epoch = epoch /\ worker[w].slot \in assigned' /\ taskOf[worker[w].slot] = g
  <2>1. get[g] = "waiting" /\ (c \in Listed => g # taskOf[c])
    BY <1>3, <1>8
  <2>2. worker[w].epoch = epoch /\ worker[w].slot \in assigned /\ taskOf[worker[w].slot] = g
    BY <1>8, <2>1 DEF Inv, HeldTasks
  <2>3. worker[w].slot # c
    BY <2>1, <2>2 DEF Listed
  <2>. QED BY <1>1, <2>2, <2>3
<1>. QED BY <1>1, <1>3, <1>5, <1>6, <1>7, <1>8

LEMMA DoGetTimeoutKeepsInv ==
    ASSUME Inv, NEW c \in Slots, DoGetTimeout(c)
    PROVE  Inv'
<1>1. /\ c \in Listed /\ timers' = timers \ {c} /\ Release(c)
      /\ get' = [get EXCEPT ![taskOf[c]] = "timeout"]
      /\ UNCHANGED <<taskOf, dict, cached, idle, waiter, got, worker, epoch, handed>>
  BY DEF DoGetTimeout, execs, Inv, TasksListed
<1>2. "timeout" \in GetStatus \ {"waiting", "new"}
  BY DEF GetStatus
<1>3. /\ SlotLists(free, unassigned, assigned)'
      /\ get' \in [Gets -> GetStatus]
      /\ TasksListed'
      /\ NotHanded'
      /\ unassigned = <<>> => unassigned' = <<>>
      /\ \A w \in Workers, g \in Gets :
            /\ worker[w].pc = "holding" /\ g = worker[w].task
            /\ get'[g] = "waiting"
            => /\ worker[w].epoch = epoch
               /\ worker[w].slot \in assigned'
               /\ taskOf[worker[w].slot] = g
  BY <1>1, <1>2, SlotLeaves
<1>4. Types' /\ ExecuterLists(cached, idle)' /\ WorkersCached' /\ NeverBothWait'
  BY <1>1, <1>3 DEF Inv, Types, ExecuterLists, WorkersCached, NeverBothWait
<1>5. HeldTasks'
  BY <1>1, <1>3 DEF Inv, HeldTasks
<1>. QED BY <1>3, <1>4, <1>5 DEF Inv

-----------------------------------------------------------------------------

\* A step that touches no slot and tells one worker, who is not cached after it,
\* something that is not a task.
LEMMA OnlyHoldersMatter ==
    ASSUME Inv, UNCHANGED <<slots, get, got, epoch, handed>>,
           \A w \in Workers : worker'[w].pc = "holding" => worker'[w] = worker[w]
    PROVE  /\ SlotLists(free, unassigned, assigned)'
           /\ TasksListed'
           /\ NotHanded'
           /\ HeldTasks'
<1>1. UNCHANGED <<free, unassigned, assigned, taskOf, timers, dict>>
  BY DEF slots
<1>2. Listed' = Listed
  BY <1>1 DEF Listed
<1>3. SlotLists(free, unassigned, assigned)' /\ TasksListed'
  BY <1>1, <1>2 DEF Inv, SlotLists, TasksListed
<1>4. NotHanded'
  BY <1>1 DEF Inv, NotHanded, HandedOnce
<1>5. HeldTasks'
  BY <1>1 DEF Inv, HeldTasks
<1>. QED BY <1>3, <1>4, <1>5

LEMMA DoPostTimeoutKeepsInv ==
    ASSUME Inv, NEW e \in Executers, DoPostTimeout(e)
    PROVE  Inv'
<1>1. /\ e \in Range(cached) /\ FreeExecuter(e) /\ waiter' = waiter
      /\ worker' = [worker EXCEPT ![waiter[e]] = Resting("408")]
      /\ UNCHANGED <<slots, get, got, epoch, handed>>
  BY DEF DoPostTimeout
<1>2. PICK k \in Knowledge : k = Resting("408") /\ k.pc = "idle"
  BY KnowledgeShapes
<1>3. /\ ExecuterLists(cached', idle')
      /\ WorkersCached'
      /\ waiter[e] \in Workers
      /\ worker' \in [Workers -> Knowledge]
      /\ worker'[waiter[e]] = k
      /\ \A w \in Workers : w # waiter[e] => worker'[w] = worker[w]
  BY <1>1, <1>2, OneWorkerLeaves DEF Inv
<1>4. \A w \in Workers : worker'[w].pc = "holding" => worker'[w] = worker[w]
  BY <1>2, <1>3
<1>5. SlotLists(free, unassigned, assigned)' /\ TasksListed' /\ NotHanded' /\ HeldTasks'
  BY <1>1, <1>4, OnlyHoldersMatter
<1>6. Types'
  BY <1>1, <1>3 DEF Inv, Types, slots
<1>7. NeverBothWait'
  <2>1. unassigned' = unassigned
    BY <1>1 DEF slots
  <2>2. cached # <<>>
    BY <1>1, NoMemberNoList DEF Inv, ExecuterLists
  <2>. QED BY <2>1, <2>2 DEF Inv, NeverBothWait
<1>. QED BY <1>3, <1>5, <1>6, <1>7 DEF Inv

\* A client that holds a task, or asked for one in vain, is told something else.
LEMMA OneWorkerRests ==
    ASSUME Inv, NEW w \in Workers, worker[w].pc # "cached", NEW last \in {"none", "200", "404", "408"},
           worker' = [worker EXCEPT ![w] = Resting(last)], UNCHANGED execs
    PROVE  /\ worker' \in [Workers -> Knowledge]
           /\ worker'[w].pc = "idle"
           /\ \A v \in Workers : v # w => worker'[v] = worker[v]
           /\ ExecuterLists(cached, idle)'
           /\ WorkersCached'
<1>1. PICK k \in Knowledge : k = Resting(last) /\ k.pc = "idle"
  BY KnowledgeShapes
<1>2. /\ worker' \in [Workers -> Knowledge]
      /\ worker'[w].pc = "idle"
      /\ \A v \in Workers : v # w => worker'[v] = worker[v]
  BY <1>1 DEF Inv, Types
<1>3. UNCHANGED <<cached, idle, waiter>>
  BY DEF execs
<1>4. ExecuterLists(cached, idle)'
  BY <1>3 DEF Inv, ExecuterLists
<1>5. \A v \in Workers : worker'[v].pc = "cached" <=> worker[v].pc = "cached"
  BY <1>2
<1>6. WorkersCached'
  BY <1>3, <1>5 DEF Inv, WorkersCached
<1>. QED BY <1>2, <1>4, <1>6

LEMMA GiveUpKeepsInv ==
    ASSUME Inv, NEW w \in Workers, GiveUp(w)
    PROVE  Inv'
<1>1. /\ worker[w].pc = "holding"
      /\ worker' = [worker EXCEPT ![w] = Resting("none")]
      /\ UNCHANGED <<slots, execs, get, got, epoch, handed>>
  BY DEF GiveUp
<1>2. /\ worker' \in [Workers -> Knowledge]
      /\ worker'[w].pc = "idle"
      /\ \A v \in Workers : v # w => worker'[v] = worker[v]
      /\ ExecuterLists(cached, idle)'
      /\ WorkersCached'
  BY <1>1, OneWorkerRests
<1>3. SlotLists(free, unassigned, assigned)' /\ TasksListed' /\ NotHanded' /\ HeldTasks'
  BY <1>1, <1>2, OnlyHoldersMatter
<1>4. Types' /\ NeverBothWait'
  BY <1>1, <1>2 DEF Inv, Types, NeverBothWait, slots, execs
<1>. QED BY <1>2, <1>3, <1>4 DEF Inv

-----------------------------------------------------------------------------

\* The task at the head is handed to a worker that asks.
LEMMA TaskClaimed ==
    ASSUME Inv, NEW w \in Workers, worker[w].pc = "idle", unassigned # <<>>,
           unassigned' = TakeHead(unassigned),
           assigned' = assigned \cup {Head(unassigned)},
           timers' = Rearm(Head(unassigned)),
           worker' = [worker EXCEPT ![w] = Holding(Head(unassigned), taskOf[Head(unassigned)])],
           handed' = [handed EXCEPT ![taskOf[Head(unassigned)]] = @ + 1],
           UNCHANGED <<free, taskOf, dict, execs, get, got, epoch>>
    PROVE  Inv'
<1>1. PICK c \in Slots : /\ c = Head(unassigned) /\ c \in Range(unassigned)
                         /\ unassigned' \in List(Slots)
                         /\ Range(unassigned') = Range(unassigned) \ {c}
  BY TakeFromHead DEF Inv, SlotLists, TakeHead
<1>2. UNCHANGED <<free, taskOf, dict, cached, idle, waiter, get, got, epoch>>
  BY DEF execs
<1>3. /\ c \in Listed /\ Listed' = Listed \cup {c} /\ Listed' = Listed
      /\ timers' = timers /\ assigned' = assigned \cup {c}
  BY <1>1 DEF Listed, Inv, TasksListed, Rearm
<1>4. SlotLists(free, unassigned, assigned)'
  BY <1>1, <1>2, <1>3 DEF Inv, SlotLists
<1>5. TasksListed'
  BY <1>2, <1>3 DEF Inv, TasksListed
<1>6. PICK g \in Gets : g = taskOf[c] /\ get[g] = "waiting" /\ handed[g] = 0
  BY <1>1, <1>3 DEF Inv, TasksListed, NotHanded
<1>7. PICK k \in Knowledge : /\ k = Holding(c, g)
                             /\ k.pc = "holding" /\ k.slot = c /\ k.task = g /\ k.epoch = epoch
  BY KnowledgeShapes DEF Inv, Types
<1>8. /\ worker' \in [Workers -> Knowledge]
      /\ worker'[w] = k
      /\ \A v \in Workers : v # w => worker'[v] = worker[v]
  <2>1. worker' = [worker EXCEPT ![w] = k]
    BY <1>1, <1>6, <1>7
  <2>. QED BY <2>1 DEF Inv, Types
<1>9. /\ handed' \in [Gets -> Nat] /\ handed'[g] = 1
      /\ \A h \in Gets \ {g} : handed'[h] = handed[h]
  <2>1. handed' = [handed EXCEPT ![g] = @ + 1]
    BY <1>1, <1>6
  <2>. QED BY <1>6, <2>1 DEF Inv, Types
<1>10. Types'
  BY <1>2, <1>8, <1>9 DEF Inv, Types
<1>11. ExecuterLists(cached, idle)' /\ WorkersCached'
  <2>1. \A v \in Workers : worker'[v].pc = "cached" <=> worker[v].pc = "cached"
    BY <1>7, <1>8
  <2>. QED BY <1>2, <2>1 DEF Inv, ExecuterLists, WorkersCached
<1>12. NeverBothWait'
  BY <1>2 DEF Inv, NeverBothWait
<1>13. NotHanded'
  <2>1. ASSUME NEW d \in Range(unassigned') PROVE handed'[taskOf[d]] = 0
    <3>1. d \in Listed /\ d # c /\ d \in Range(unassigned)
      BY <1>1 DEF Listed
    <3>2. taskOf[d] \in Gets /\ taskOf[d] # g
      BY <1>3, <1>6, <3>1 DEF Inv, TasksListed
    <3>. QED BY <1>9, <3>1, <3>2 DEF Inv, NotHanded
  <2>2. \A h \in Gets : get[h] = "new" => handed'[h] = 0
    BY <1>6, <1>9 DEF Inv, NotHanded
  <2>3. \A h \in Gets : handed'[h] <= 1
    BY <1>9 DEF Inv, NotHanded, HandedOnce
  <2>. QED BY <1>2, <2>1, <2>2, <2>3 DEF NotHanded, HandedOnce
<1>14. HeldTasks'
  <2>1. SUFFICES ASSUME NEW v \in Workers, worker'[v].pc = "holding"
                 PROVE  /\ worker'[v].task \in Gets
                        /\ handed'[worker'[v].task] = 1
                        /\ get[worker'[v].task] = "waiting" =>
                              /\ worker'[v].epoch = epoch
                              /\ worker'[v].slot \in assigned'
                              /\ taskOf[worker'[v].slot] = worker'[v].task
    BY <1>2 DEF HeldTasks
  <2>2. CASE v = w
    BY <1>3, <1>6, <1>7, <1>8, <1>9, <2>2
  <2>3. CASE v # w
    <3>1. worker'[v] = worker[v]
      BY <1>8, <2>3
    <3>2. /\ worker[v].task \in Gets /\ handed[worker[v].task] = 1 /\ worker[v].task # g
          /\ get[worker[v].task] = "waiting" =>
              /\ worker[v].epoch = epoch
              /\ worker[v].slot \in assigned
              /\ taskOf[worker[v].slot] = worker[v].task
      BY <1>6, <2>1, <3>1 DEF Inv, HeldTasks
    <3>. QED BY <1>3, <1>9, <3>1, <3>2
  <2>. QED BY <2>2, <2>3
<1>. QED BY <1>4, <1>5, <1>10, <1>11, <1>12, <1>13, <1>14 DEF Inv

\* A worker that finds no task takes a place in the cache.
LEMMA WorkerWaits ==
    ASSUME Inv, NEW w \in Workers, worker[w].pc = "idle", unassigned = <<>>, idle # <<>>,
           idle' = Tail(idle), cached' = <<Head(idle)>> \o cached,
           waiter' = SetWaiter(Head(idle), w), worker' = [worker EXCEPT ![w] = Queued],
           UNCHANGED <<slots, handed, get, got, epoch>>
    PROVE  Inv'
<1>1. PICK e \in Executers : /\ e = Head(idle) /\ e \in Range(idle)
                             /\ idle' \in List(Executers) /\ Range(idle') = Range(idle) \ {e}
  BY TakeFromHead DEF Inv, ExecuterLists
<1>2. e \notin Range(cached) /\ Range(cached) \subseteq Executers
  BY <1>1, MembersInSet DEF Inv, ExecuterLists
<1>3. cached' \in List(Executers) /\ Range(cached') = Range(cached) \cup {e}
  <2>1. /\ <<e>> \o cached \in List(Executers)
        /\ Range(<<e>> \o cached) = Range(cached) \cup {e}
    BY <1>2, PushHead DEF Inv, ExecuterLists
  <2>. QED BY <1>1, <2>1
<1>4. ExecuterLists(cached, idle)'
  BY <1>1, <1>2, <1>3 DEF Inv, ExecuterLists
<1>5. /\ waiter' \in [Executers -> Workers \cup {NoWorker}]
      /\ waiter'[e] = w /\ \A f \in Executers : f # e => waiter'[f] = waiter[f]
  <2>1. waiter' = [waiter EXCEPT ![e] = w]
    BY <1>1 DEF SetWaiter
  <2>. QED BY <2>1 DEF Inv, Types
<1>6. PICK k \in Knowledge : k = Queued /\ k.pc = "cached"
  BY KnowledgeShapes
<1>7. /\ worker' \in [Workers -> Knowledge]
      /\ worker'[w].pc = "cached"
      /\ \A v \in Workers : v # w => worker'[v] = worker[v]
  BY <1>6 DEF Inv, Types
<1>8. WorkersCached'
  <2>1. ASSUME NEW f \in Range(cached) PROVE waiter'[f] = waiter[f] /\ waiter[f] # w
    BY <1>2, <1>5 DEF Inv, WorkersCached
  <2>2. ASSUME NEW f \in Range(cached')
        PROVE  waiter'[f] \in Workers /\ worker'[waiter'[f]].pc = "cached"
    <3>1. CASE f = e
      BY <1>5, <1>7, <3>1
    <3>2. CASE f # e
      <4>1. f \in Range(cached)
        BY <1>3, <3>2
      <4>. QED BY <1>7, <2>1, <4>1 DEF Inv, WorkersCached
    <3>. QED BY <3>1, <3>2
  <2>3. ASSUME NEW f \in Range(cached'), NEW d \in Range(cached'), waiter'[f] = waiter'[d]
        PROVE  f = d
    BY <1>3, <1>5, <2>1, <2>3 DEF Inv, WorkersCached
  <2>4. ASSUME NEW v \in Workers, worker'[v].pc = "cached"
        PROVE  \E f \in Range(cached') : waiter'[f] = v
    <3>1. CASE v = w
      BY <1>3, <1>5, <3>1
    <3>2. CASE v # w
      <4>1. PICK f \in Range(cached) : waiter[f] = v
        BY <1>7, <2>4, <3>2 DEF Inv, WorkersCached
      <4>. QED BY <1>3, <2>1, <4>1
    <3>. QED BY <3>1, <3>2
  <2>. QED BY <2>2, <2>3, <2>4 DEF WorkersCached
<1>9. SlotLists(free, unassigned, assigned)' /\ TasksListed' /\ NotHanded' /\ HeldTasks'
  BY <1>7, OnlyHoldersMatter
<1>10. Types' /\ NeverBothWait'
  BY <1>5, <1>7 DEF Inv, Types, NeverBothWait, slots
<1>. QED BY <1>4, <1>8, <1>9, <1>10 DEF Inv

LEMMA ClaimKeepsInv ==
    ASSUME Inv, NEW w \in Workers, Claim(w)
    PROVE  Inv'
<1>1. CASE unassigned # <<>>
  BY <1>1, TaskClaimed DEF Claim
<1>2. CASE unassigned = <<>> /\ idle # <<>>
  BY <1>2, WorkerWaits DEF Claim
<1>3. CASE unassigned = <<>> /\ idle = <<>>
  <2>1. /\ worker[w].pc = "idle"
        /\ worker' = [worker EXCEPT ![w] = Resting("404")]
        /\ UNCHANGED <<slots, execs, handed, get, got, epoch>>
    BY <1>3 DEF Claim
  <2>2. /\ worker' \in [Workers -> Knowledge]
        /\ worker'[w].pc = "idle"
        /\ \A v \in Workers : v # w => worker'[v] = worker[v]
        /\ ExecuterLists(cached, idle)'
        /\ WorkersCached'
    BY <2>1, OneWorkerRests
  <2>3. SlotLists(free, unassigned, assigned)' /\ TasksListed' /\ NotHanded' /\ HeldTasks'
    BY <2>1, <2>2, OnlyHoldersMatter
  <2>4. Types' /\ NeverBothWait'
    BY <2>1, <2>2 DEF Inv, Types, NeverBothWait, slots, execs
  <2>. QED BY <2>2, <2>3, <2>4 DEF Inv
<1>. QED BY <1>1, <1>2, <1>3

-----------------------------------------------------------------------------

\* The result is for a request that is listed, or for nobody that waits: its
\* slot is freed either way, and only a listed request is answered.
LEMMA SlotReplied ==
    ASSUME Inv, NEW w \in Workers, worker[w].pc = "holding", NEW c \in dict, Release(c),
           dict' = dict \ {c}, timers' = timers \ {c},
           worker' = [worker EXCEPT ![w] = Resting("200")],
           c \in Listed => /\ get' = [get EXCEPT ![taskOf[c]] = "ok"]
                           /\ got' = [got EXCEPT ![taskOf[c]] = worker[w].task],
           c \notin Listed => UNCHANGED <<get, got>>,
           UNCHANGED <<taskOf, execs, epoch, handed>>
    PROVE  Inv'
<1>1. c \in Slots /\ "ok" \in GetStatus \ {"waiting", "new"}
  BY DEF Inv, Types, GetStatus
<1>2. /\ SlotLists(free, unassigned, assigned)'
      /\ get' \in [Gets -> GetStatus]
      /\ TasksListed'
      /\ NotHanded'
      /\ unassigned = <<>> => unassigned' = <<>>
      /\ \A v \in Workers, g \in Gets :
            /\ worker[v].pc = "holding" /\ g = worker[v].task
            /\ get'[g] = "waiting"
            => /\ worker[v].epoch = epoch
               /\ worker[v].slot \in assigned'
               /\ taskOf[worker[v].slot] = g
  BY <1>1, SlotLeaves
<1>3. /\ worker' \in [Workers -> Knowledge]
      /\ worker'[w].pc = "idle"
      /\ \A v \in Workers : v # w => worker'[v] = worker[v]
      /\ ExecuterLists(cached, idle)'
      /\ WorkersCached'
  BY OneWorkerRests
<1>4. got' \in [Gets -> Gets \cup {NoGet}]
  <2>1. worker[w].task \in Gets
    BY DEF Inv, HeldTasks
  <2>. QED BY <2>1 DEF Inv, Types
<1>5. Types' /\ NeverBothWait'
  BY <1>2, <1>3, <1>4 DEF Inv, Types, NeverBothWait, execs
<1>6. HeldTasks'
  BY <1>2, <1>3 DEF Inv, HeldTasks
<1>. QED BY <1>2, <1>3, <1>5, <1>6 DEF Inv

\* A process that is started anew lists nothing, and no request waits.
LEMMA RespawnKeepsInv ==
    ASSUME Inv, Respawn, got' = got, handed' = handed,
           NEW w \in Workers, worker[w].pc = "holding",
           worker' = [v \in Workers |-> IF v = w \/ worker[v].pc = "cached"
                                        THEN Resting("none") ELSE worker[v]]
    PROVE  Inv'
<1>1. /\ free' \in List(Slots) /\ Range(free') = Slots
      /\ idle' \in List(Executers) /\ Range(idle') = Executers
  BY SetAsList, DoTaskAssumption DEF Respawn
<1>2. /\ unassigned' \in List(Slots) /\ Range(unassigned') = {} /\ assigned' = {}
      /\ cached' \in List(Executers) /\ Range(cached') = {}
  BY EmptyList DEF Respawn
<1>3. SlotLists(free, unassigned, assigned)' /\ ExecuterLists(cached, idle)'
  BY <1>1, <1>2 DEF SlotLists, ExecuterLists
<1>4. PICK k \in Knowledge : k = Resting("none") /\ k.pc = "idle"
  BY KnowledgeShapes
<1>5. /\ worker' \in [Workers -> Knowledge]
      /\ \A v \in Workers : /\ worker'[v].pc # "cached"
                            /\ worker'[v].pc = "holding" => worker'[v] = worker[v]
  BY <1>4 DEF Inv, Types
<1>6. /\ get' \in [Gets -> GetStatus]
      /\ \A g \in Gets : get'[g] # "waiting" /\ (get'[g] = "new" => get[g] = "new")
  BY DEF Respawn, Inv, Types, GetStatus
<1>7. Types'
  BY <1>5, <1>6, DoTaskAssumption DEF Respawn, Inv, Types
<1>8. TasksListed'
  <2>1. Listed' = {}
    BY <1>2 DEF Listed
  <2>. QED BY <1>6, <2>1 DEF Respawn, TasksListed
<1>9. WorkersCached' /\ NeverBothWait'
  BY <1>2, <1>5 DEF WorkersCached, NeverBothWait, Respawn
<1>10. NotHanded'
  BY <1>2, <1>6 DEF Inv, NotHanded, HandedOnce
<1>11. HeldTasks'
  BY <1>5, <1>6 DEF Inv, HeldTasks
<1>. QED BY <1>3, <1>7, <1>8, <1>9, <1>10, <1>11 DEF Inv

LEMMA ReplyKeepsInv ==
    ASSUME Inv, NEW w \in Workers, Reply(w)
    PROVE  Inv'
<1> DEFINE c == worker[w].slot
           known == worker[w].epoch = epoch /\ c \in dict
           listed == c \in assigned \cup Range(unassigned)
<1>1. worker[w].pc = "holding" /\ handed' = handed
  BY DEF Reply
<1>2. CASE ~known /\ worker' = [worker EXCEPT ![w] = Resting("404")]
               /\ UNCHANGED <<slots, execs, get, got, epoch>>
  <2>1. /\ worker' \in [Workers -> Knowledge]
        /\ worker'[w].pc = "idle"
        /\ \A v \in Workers : v # w => worker'[v] = worker[v]
        /\ ExecuterLists(cached, idle)'
        /\ WorkersCached'
    BY <1>1, <1>2, OneWorkerRests
  <2>2. SlotLists(free, unassigned, assigned)' /\ TasksListed' /\ NotHanded' /\ HeldTasks'
    BY <1>1, <1>2, <2>1, OnlyHoldersMatter
  <2>3. Types' /\ NeverBothWait'
    BY <1>1, <1>2, <2>1 DEF Inv, Types, NeverBothWait, slots, execs
  <2>. QED BY <2>1, <2>2, <2>3 DEF Inv
<1>3. CASE /\ known /\ listed
           /\ get' = [get EXCEPT ![taskOf[c]] = "ok"]
           /\ got' = [got EXCEPT ![taskOf[c]] = worker[w].task]
           /\ dict' = dict \ {c} /\ timers' = timers \ {c} /\ Release(c)
           /\ worker' = [worker EXCEPT ![w] = Resting("200")]
           /\ UNCHANGED <<taskOf, execs, epoch>>
  BY <1>1, <1>3, SlotReplied DEF Listed
<1>4. CASE /\ known /\ ~listed
           /\ dict' = dict \ {c} /\ Release(c)
           /\ worker' = [worker EXCEPT ![w] = Resting("200")]
           /\ UNCHANGED <<taskOf, timers, execs, get, got, epoch>>
  <2>1. timers' = timers \ {c}
    BY <1>4 DEF Inv, TasksListed, Listed
  <2>. QED BY <1>1, <1>4, <2>1, SlotReplied DEF Listed
<1>5. CASE /\ Respawn
           /\ worker' = [v \in Workers |-> IF v = w \/ worker[v].pc = "cached"
                                           THEN Resting("none") ELSE worker[v]]
           /\ UNCHANGED got
  BY <1>1, <1>5, RespawnKeepsInv
<1>. QED BY <1>2, <1>3, <1>4, <1>5, Zenon DEF Reply

-----------------------------------------------------------------------------

LEMMA InvStep == Inv /\ [Next]_vars => Inv'
<1> SUFFICES ASSUME Inv, [Next]_vars PROVE Inv'
  OBVIOUS
<1>1. ASSUME NEW g \in Gets, DoGet(g) PROVE Inv'
  BY <1>1, DoGetKeepsInv
<1>2. ASSUME NEW c \in Slots, DoGetTimeout(c) PROVE Inv'
  BY <1>2, DoGetTimeoutKeepsInv
<1>3. ASSUME NEW e \in Executers, DoPostTimeout(e) PROVE Inv'
  BY <1>3, DoPostTimeoutKeepsInv
<1>4. ASSUME NEW w \in Workers, Claim(w) \/ Reply(w) \/ GiveUp(w) PROVE Inv'
  BY <1>4, ClaimKeepsInv, ReplyKeepsInv, GiveUpKeepsInv
<1>5. CASE UNCHANGED vars
  <2>1. \A w \in Workers : worker'[w].pc = "holding" => worker'[w] = worker[w]
    BY <1>5 DEF vars
  <2>2. SlotLists(free, unassigned, assigned)' /\ TasksListed' /\ NotHanded' /\ HeldTasks'
    BY <1>5, <2>1, OnlyHoldersMatter DEF vars
  <2>3. Types' /\ ExecuterLists(cached, idle)' /\ WorkersCached' /\ NeverBothWait'
    BY <1>5 DEF vars, slots, execs, Inv, Types, ExecuterLists, WorkersCached, NeverBothWait
  <2>. QED BY <2>2, <2>3 DEF Inv
<1>. QED BY <1>1, <1>2, <1>3, <1>4, <1>5 DEF Next

\* Lists that share the slots are together as long as there are slots.
LEMMA ListsCountSlots ==
    ASSUME Inv
    PROVE  Len(free) + Len(unassigned) + Cardinality(assigned) = Cardinality(Slots)
<1>1. /\ IsFiniteSet(Range(free)) /\ Cardinality(Range(free)) = Len(free) /\ Len(free) \in Nat
      /\ IsFiniteSet(Range(unassigned)) /\ Cardinality(Range(unassigned)) = Len(unassigned)
      /\ Len(unassigned) \in Nat
  BY LengthCounts DEF Inv, SlotLists
<1>2. IsFiniteSet(assigned) /\ Cardinality(assigned) \in Nat
  BY FS_Subset, FS_CardinalityType, DoTaskAssumption DEF Inv, SlotLists
<1>3. Cardinality({}) = 0
  BY FS_EmptySet
<1> DEFINE taken == Range(free) \cup Range(unassigned)
<1>4. /\ IsFiniteSet(taken)
      /\ Cardinality(taken) = Cardinality(Range(free)) + Cardinality(Range(unassigned))
                              - Cardinality(Range(free) \cap Range(unassigned))
  BY <1>1, FS_Union
<1>5. Cardinality(taken) = Len(free) + Len(unassigned)
  <2>1. Range(free) \cap Range(unassigned) = {}
    BY DEF Inv, SlotLists
  <2>2. Cardinality(taken) = Len(free) + Len(unassigned) - Cardinality({})
    BY <1>1, <1>4, <2>1
  <2> HIDE DEF taken
  <2>. QED BY <1>1, <1>3, <2>2
<1>6. taken \cap assigned = {} /\ taken \cup assigned = Slots
  BY DEF Inv, SlotLists
<1> HIDE DEF taken
<1>7. Cardinality(taken \cup assigned) =
        Cardinality(taken) + Cardinality(assigned) - Cardinality(taken \cap assigned)
  BY <1>2, <1>4, FS_Union
<1>8. Cardinality(Slots) = Cardinality(taken) + Cardinality(assigned) - Cardinality({})
  BY <1>6, <1>7
<1>. QED BY <1>1, <1>2, <1>3, <1>5, <1>8

LEMMA ListsCountExecuters ==
    ASSUME Inv
    PROVE  Len(cached) + Len(idle) = Cardinality(Executers)
<1>1. /\ IsFiniteSet(Range(cached)) /\ Cardinality(Range(cached)) = Len(cached)
      /\ IsFiniteSet(Range(idle)) /\ Cardinality(Range(idle)) = Len(idle)
      /\ Len(cached) \in Nat /\ Len(idle) \in Nat
  BY LengthCounts DEF Inv, ExecuterLists
<1>2. Cardinality(Range(cached) \cup Range(idle)) =
        Cardinality(Range(cached)) + Cardinality(Range(idle))
        - Cardinality(Range(cached) \cap Range(idle))
  BY <1>1, FS_Union
<1>3. Range(cached) \cap Range(idle) = {} /\ Range(cached) \cup Range(idle) = Executers
  BY DEF Inv, ExecuterLists
<1>4. Cardinality({}) = 0
  BY FS_EmptySet
<1>5. Cardinality(Executers) = Len(cached) + Len(idle) - Cardinality({})
  BY <1>1, <1>2, <1>3
<1>. QED BY <1>1, <1>4, <1>5

LEMMA InvSound == ASSUME Inv PROVE ExchangeSound
<1>1. {taskOf[c] : c \in Listed} = {g \in Gets : get[g] = "waiting"}
  BY DEF Inv, TasksListed
<1>2. Range(free) = Slots \ Listed
  BY DEF Inv, SlotLists, Listed
<1>3. SlotsAreTheWaiting
  BY <1>1, <1>2, ListsCountSlots DEF SlotsAreTheWaiting, Inv, TasksListed
<1>4. {waiter[e] : e \in Range(cached)} = {w \in Workers : worker[w].pc = "cached"}
  BY DEF Inv, WorkersCached
<1>5. Range(idle) = Executers \ Range(cached)
  BY DEF Inv, ExecuterLists
<1>6. ExecutersAreTheWaiting
  BY <1>4, <1>5, ListsCountExecuters DEF ExecutersAreTheWaiting
<1>. QED BY <1>3, <1>6 DEF ExchangeSound, PoolsAreTheWaiting, Inv, NotHanded

\* For any number of requests, workers, slots and executers, and whatever the
\* order of their handlers and timers and of the deaths of the process: who
\* waits is listed once, no pool loses an entry, a task and a worker never wait
\* for each other, and no task is handed out twice (hustmq_ha_do_get_handler.c,
\* hustmq_ha_do_post_handler.c).
THEOREM ExchangeSoundAlways == Spec => []ExchangeSound
BY InvInit, InvStep, InvSound, PTL DEF Spec

-----------------------------------------------------------------------------

\* Of the steps of the others, none tells a worker that holds a task anything.
LEMMA OnlyReplyTells ==
    ASSUME Inv, [Next]_vars, NEW w \in Workers, worker[w].pc = "holding",
           worker'[w].pc = "idle", worker'[w].last # "none", get[worker[w].task] = "waiting"
    PROVE  Reply(w)
<1>1. ASSUME NEW v \in Workers, v # w, NEW k, worker' = [worker EXCEPT ![v] = k]
      PROVE  FALSE
  BY <1>1 DEF Inv, Types
<1>2. ASSUME NEW g \in Gets, DoGet(g) PROVE FALSE
  <2>1. UNCHANGED worker \/ (HasWaiter /\ Dispatch(Head(free), g))
    BY <1>2, Zenon DEF DoGet, Refuse
  <2>2. ASSUME HasWaiter, Dispatch(Head(free), g) PROVE FALSE
    <3>1. waiter[Head(cached)] \in Workers /\ worker[waiter[Head(cached)]].pc = "cached"
      BY <2>2, TakeFromHead DEF HasWaiter, Inv, ExecuterLists, WorkersCached
    <3>2. \E k : worker' = [worker EXCEPT ![waiter[Head(cached)]] = k]
      BY <2>2 DEF Dispatch
    <3>. QED BY <1>1, <3>1, <3>2
  <2>. QED BY <2>1, <2>2
<1>3. ASSUME NEW c \in Slots, DoGetTimeout(c) PROVE FALSE
  BY <1>3 DEF DoGetTimeout
<1>4. ASSUME NEW e \in Executers, DoPostTimeout(e) PROVE FALSE
  <2>1. waiter[e] \in Workers /\ worker[waiter[e]].pc = "cached"
    BY <1>4 DEF DoPostTimeout, Inv, WorkersCached
  <2>2. \E k : worker' = [worker EXCEPT ![waiter[e]] = k]
    BY <1>4 DEF DoPostTimeout
  <2>. QED BY <1>1, <2>1, <2>2
<1>5. ASSUME NEW v \in Workers, Claim(v) PROVE FALSE
  <2>1. worker[v].pc = "idle" /\ \E k : worker' = [worker EXCEPT ![v] = k]
    BY <1>5 DEF Claim
  <2>. QED BY <1>1, <2>1
<1>6. ASSUME NEW v \in Workers, GiveUp(v) PROVE FALSE
  <2>1. worker' = [worker EXCEPT ![v] = Resting("none")]
    BY <1>6 DEF GiveUp
  <2>2. CASE v = w
    BY <2>1, <2>2, KnowledgeShapes DEF Inv, Types
  <2>. QED BY <1>1, <2>1, <2>2
<1>7. ASSUME NEW v \in Workers, Reply(v), v # w PROVE FALSE
  <2>1. CASE \E k : worker' = [worker EXCEPT ![v] = k]
    BY <1>1, <1>7, <2>1
  <2>2. CASE worker' = [u \in Workers |-> IF u = v \/ worker[u].pc = "cached"
                                         THEN Resting("none") ELSE worker[u]]
    BY <1>7, <2>2
  <2>. QED BY <1>7, <2>1, <2>2 DEF Reply
<1>. QED BY <1>2, <1>3, <1>4, <1>5, <1>6, <1>7 DEF Next, vars

\* A worker that brings its result while the request still waits is told so,
\* and the request is answered with that result, whatever became of the slots
\* meanwhile (__reply_task, hustmq_ha_reply_do_task).
THEOREM InTimeIsDeliveredAlways == Spec => InTimeIsDelivered
<1> DEFINE Delivered ==
      \A w \in Workers :
         /\ worker[w].pc = "holding"
         /\ get[worker[w].task] = "waiting"
         /\ worker'[w].pc = "idle"
         /\ worker'[w].last # "none"
         => /\ worker'[w].last = "200"
            /\ got'[worker[w].task] = worker[w].task
<1>1. Inv /\ [Next]_vars => Delivered
  <2> SUFFICES ASSUME Inv, [Next]_vars, NEW w \in Workers,
                      worker[w].pc = "holding", get[worker[w].task] = "waiting",
                      worker'[w].pc = "idle", worker'[w].last # "none"
               PROVE  /\ worker'[w].last = "200"
                      /\ got'[worker[w].task] = worker[w].task
    OBVIOUS
  <2>1. Reply(w)
    BY OnlyReplyTells
  <2>2. /\ worker[w].task \in Gets /\ worker[w].epoch = epoch
        /\ worker[w].slot \in Listed /\ worker[w].slot \in dict
        /\ taskOf[worker[w].slot] = worker[w].task
    BY DEF Inv, HeldTasks, TasksListed, Listed
  <2>3. /\ got' = [got EXCEPT ![taskOf[worker[w].slot]] = worker[w].task]
        /\ worker' = [worker EXCEPT ![w] = Resting("200")]
    BY <2>1, <2>2 DEF Reply, Listed
  <2>4. Resting("200").last = "200"
    BY KnowledgeShapes
  <2>. QED BY <2>2, <2>3, <2>4 DEF Inv, Types
<1>. QED BY <1>1, InvInit, InvStep, PTL DEF Spec, InTimeIsDelivered
=============================================================================
