------------------------------ MODULE NgxCycle ------------------------------
(***************************************************************************)
(* The master process of an instance, its workers and cache helpers, and   *)
(* the new binary it executes: ngx_process_cycle.c as hustngx patches it,  *)
(* with the parts of nginx.c that start and replace an instance.           *)
(*                                                                         *)
(* A worker that has written a new table asks its master for a restart by  *)
(* a queued SIGUSR1 (ngx_restart_instance); the patch handles it by taking *)
(* over SIGALRM: execute the binary at once, a second later send the old   *)
(* workers home, another second later terminate.  Operators use the stock  *)
(* signals.  Signals stay blocked except in sigsuspend, so a pass of the   *)
(* loop is one step: Deliver runs a handler, Wake the body of the loop.    *)
(*                                                                         *)
(* The process table is master.procs; "stage" and "told" are what is       *)
(* really so of the child, the other fields what the master believes of    *)
(* it.  The handlers of stock nginx, ngx_spawn_process and the functions   *)
(* that write and remove the pid file are modelled from their use here.    *)
(***************************************************************************)
EXTENDS Integers, Sequences, FiniteSets, SequencesExt, FiniteSetsExt

CONSTANTS
    Places,       \* the process table (NGX_MAX_PROCESSES), an interval 1..k
    Cases,        \* a configuration, and what is asked of the master in order
    FirstDelay,   \* milliseconds before a first SIGALRM repeats TERM: 50
    MaxMishaps    \* bound: children that fail, and calls of the master that do

ASSUME CycleAssumption ==
    /\ IsFiniteSet(Places) /\ Places \subseteq Nat \ {0}
    /\ \A c \in Cases : /\ c.workers \in Nat \ {0}
                        /\ c.manager \in BOOLEAN /\ c.loader \in BOOLEAN
    /\ FirstDelay \in Nat /\ MaxMishaps \in Nat

VARIABLES
    master,    \* its flags, its timer, its table, the pid files
    pending,   \* signals that wait for the master
    awake,     \* a handler ran, so sigsuspend returns
    hist       \* what is left to ask, and which mishaps there were

cycleVars == <<master, pending, awake, hist>>

Stock   == {"hup", "term", "quit", "winch", "usr2"}
User1   == {"reconfigure", "restart"}   \* the two values of SIGUSR1
Nobody  == 0
Self    == -1                           \* the master's own pid, in a pid file
Invalid == -1                           \* NGX_INVALID_PID in ngx_new_binary

NoProcess == [kind |-> "free", conf |-> 0, respawn |-> FALSE, just_spawn |-> FALSE,
              exited |-> FALSE, exiting |-> FALSE, stage |-> "none", told |-> {}]

Child(kind, conf, respawn, just) ==
    [NoProcess EXCEPT !.kind = kind, !.conf = conf, !.respawn = respawn,
                 !.just_spawn = just, !.stage = "init"]

Detached(c) == c.kind = "binary"
Alive(c) == c.stage \in {"init", "up", "shutting", "hung"}
Dead(c) == c.stage \in {"dead", "fatal"}

\* ngx_spawn_process takes the first free place of the table, and none when
\* the table is full.
Spawn(procs, child) ==
    LET free == {i \in Places : procs[i].kind = "free"}
    IN  IF free = {} THEN procs ELSE [procs EXCEPT ![Min(free)] = child]

\* The children of a list, one after the other.
SpawnEach(procs, children) ==
    LET table[i \in 0 .. Len(children)] ==
            IF i = 0 THEN procs ELSE Spawn(table[i - 1], children[i])
    IN  table[Len(children)]

----------------------------------------------------------------------------
(* Starting children                                                       *)

\* `lost' of the forks fail; nobody looks at the result.
StartWorkers(x, just, lost) ==
    [x EXCEPT !.procs =
        SpawnEach(@, [i \in 1 .. x.ccf.workers - lost |-> Child("worker", x.conf, TRUE, just)])]

StartCacheManagers(x, respawn) ==
    IF ~x.ccf.manager THEN x
    ELSE [x EXCEPT !.procs =
            SpawnEach(@,
                <<Child("manager", x.conf, TRUE, respawn)>>
                \o IF x.ccf.loader THEN <<Child("loader", x.conf, FALSE, respawn)>>
                                ELSE <<>>)]

\* main up to the pid file, and the prologue of the master's loop.
Main(ccf) ==
    [ccf |-> ccf, reap |-> FALSE, terminate |-> FALSE, quit |-> FALSE, reconfigure |-> FALSE,
     restart |-> FALSE, change_binary |-> FALSE, noaccept |-> FALSE,
     noaccepting |-> FALSE, sigalrm |-> FALSE, new_binary |-> 0,
     delay |-> 0, sigio |-> 0, live |-> TRUE, conf |-> 1,
     handler |-> "sigalrm", armed |-> FALSE,
     procs |-> [i \in Places |-> NoProcess],
     pid |-> Self, oldpid |-> Nobody, gone |-> FALSE]

MasterProcessCycle(ccf) ==
    StartCacheManagers(StartWorkers(Main(ccf), FALSE, 0), FALSE)

----------------------------------------------------------------------------
(* What a pass of the loop is built from                                   *)

\* A child that went is replaced in its own place, on the configuration in
\* force, unless it was told to go or the master is leaving.  When the fork fails
\* the place stays as it is until the next reap.
ReapChildren(x, forks) ==
    LET Again(c) == c.respawn /\ ~c.exiting /\ ~x.terminate /\ ~x.quit
        Reaped(i) == LET c == x.procs[i] IN
            IF ~c.exited THEN c
            ELSE IF ~Again(c) THEN NoProcess
            ELSE IF ~forks THEN c
            ELSE [c EXCEPT !.conf = x.conf, !.exited = FALSE,
                           !.stage = "init", !.told = {}]
        procs == [i \in Places |-> Reaped(i)]
        back  == x.new_binary \in Places /\ x.procs[x.new_binary].exited
        y == [x EXCEPT
               !.reap = FALSE,
               !.procs = procs,
               !.live = \E i \in Places : LET c == procs[i] IN
                          /\ c.kind # "free" /\ ~c.exited
                          /\ c.exiting \/ ~Detached(c)]
    IN  IF ~back THEN y
        ELSE [y EXCEPT !.pid = IF x.oldpid # Nobody THEN x.oldpid ELSE @,
                       !.oldpid = Nobody,
                       !.new_binary = 0,
                       !.restart = @ \/ x.noaccepting,
                       !.noaccepting = FALSE]

\* The command goes down the channel of each child that is not new and not
\* already going.  A place whose respawn failed has no channel and no process:
\* kill says ESRCH and the master will reap again.
SignalWorkers(x, sig) ==
    LET Skipped(c) ==
            c.kind = "free" \/ Detached(c) \/ (c.exiting /\ sig = "quit")
        Lost(c) == c.exited /\ ~c.just_spawn /\ ~Skipped(c)
        Signalled(c) ==
            IF c.kind = "free" \/ Detached(c) THEN c
            ELSE IF c.just_spawn THEN [c EXCEPT !.just_spawn = FALSE]
            ELSE IF Skipped(c) THEN c
            ELSE IF Lost(c) THEN [c EXCEPT !.exiting = FALSE]
            ELSE IF sig = "kill"
                 THEN [c EXCEPT !.exiting = TRUE,
                                !.stage = IF Alive(c) THEN "dead" ELSE @,
                                !.told = {}]
            ELSE [c EXCEPT !.exiting = TRUE,
                           !.told = IF c.stage \in {"init", "up", "shutting"}
                                    THEN @ \cup {sig} ELSE @]
    IN  [x EXCEPT !.procs = [i \in Places |-> Signalled(x.procs[i])],
                  !.reap = @ \/ \E i \in Places : Lost(x.procs[i])]

\* ngx_exec_new_binary: the pid file makes way first, and comes back when the
\* exec fails; without a pid file the binary is not executed.
ExecNewBinary(x, works) ==
    LET procs == Spawn(x.procs, Child("binary", 0, FALSE, FALSE))
    IN  IF ~works \/ x.pid = Nobody \/ procs = x.procs
        THEN [x EXCEPT !.new_binary = Invalid]
        ELSE [x EXCEPT !.procs = procs,
                       !.new_binary = CHOOSE i \in Places : procs[i] # x.procs[i],
                       !.oldpid = x.pid, !.pid = Nobody]

\* Faulty variant: the timer is not set again.
SuspendOnce(x) ==
    IF x.delay = 0 THEN x
    ELSE [x EXCEPT !.sigio = IF x.sigalrm THEN 0 ELSE @,
                   !.delay = IF x.sigalrm /\ @ <= 1000 THEN 2 * @ ELSE @,
                   !.sigalrm = FALSE]

\* The top of the loop, once the master is terminating: each SIGALRM doubles
\* the delay (the model stops at the first value beyond a second).
Suspend(x) ==
    IF x.delay = 0 THEN x
    ELSE [x EXCEPT !.sigio = IF x.sigalrm THEN 0 ELSE @,
                   !.delay = IF x.sigalrm /\ @ <= 1000 THEN 2 * @ ELSE @,
                   !.sigalrm = FALSE,
                   !.armed = TRUE]

\* Faulty variant: always the same file.
DeleteOnePidFile(x) == [x EXCEPT !.pid = Nobody]

DeletePidFile(x) ==
    IF x.new_binary # 0 THEN [x EXCEPT !.oldpid = Nobody]
                        ELSE [x EXCEPT !.pid = Nobody]

MasterProcessExit(x) ==
    [DeletePidFile(x) EXCEPT !.gone = TRUE, !.armed = FALSE]

----------------------------------------------------------------------------
(* The body of the loop, from sigsuspend to the next one.  x is the state  *)
(* after the reap; `fault' names the one call of this pass that fails.     *)

\* No child is left, or so the last reap said.
Leave(x) ==
    /\ ~x.live /\ (x.terminate \/ x.quit)
    /\ master' = MasterProcessExit(x)

\* TERM to everybody, and KILL once the delay has grown beyond a second; then
\* not again before as many children could have answered, or an alarm.
Terminating(x) ==
    LET y == [x EXCEPT !.delay = IF @ = 0 THEN FirstDelay ELSE @]
        z == [y EXCEPT !.sigio = y.ccf.workers + 2]
    IN  /\ x.terminate /\ x.live
        /\ master' = Suspend(
                  IF y.sigio > 0 THEN [y EXCEPT !.sigio = @ - 1]
                  ELSE SignalWorkers(z, IF y.delay > 1000 THEN "kill" ELSE "term"))

Quitting(x) ==
    /\ x.quit /\ x.live /\ ~x.terminate
    /\ master' = Suspend(SignalWorkers(x, "quit"))

Staying(x) == ~x.terminate /\ ~x.quit

\* Next to a new binary a reload starts the old configuration's workers again.
WorkersAgain(x, fault) ==
    LET y == StartWorkers(x, FALSE, IF fault = "fork" THEN 1 ELSE 0)
    IN  /\ Staying(x) /\ x.reconfigure /\ x.new_binary # 0
        /\ master' = Suspend([StartCacheManagers(y, FALSE) EXCEPT
                            !.reconfigure = FALSE, !.noaccepting = FALSE])

ReloadFails(x, fault) ==
    /\ Staying(x) /\ x.reconfigure /\ x.new_binary = 0 /\ fault = "reload"
    /\ master' = Suspend([x EXCEPT !.reconfigure = FALSE])

\* Faulty variant: the new children are not marked as just spawned.
ReconfiguredUnmarked(x, fault) ==
    LET y == [x EXCEPT !.reconfigure = FALSE, !.conf = @ + 1, !.live = TRUE]
        z == StartWorkers(y, FALSE, IF fault = "fork" THEN 1 ELSE 0)
    IN  IF x.reconfigure THEN SignalWorkers(StartCacheManagers(z, FALSE), "quit") ELSE x

\* Faulty variant: the old workers are not told to quit.
ReconfiguredUntold(x, fault) ==
    LET y == [x EXCEPT !.reconfigure = FALSE, !.conf = @ + 1, !.live = TRUE]
        z == StartWorkers(y, TRUE, IF fault = "fork" THEN 1 ELSE 0)
    IN  IF x.reconfigure THEN StartCacheManagers(z, TRUE) ELSE x

Reconfigured(x, fault) ==
    LET y == [x EXCEPT !.reconfigure = FALSE, !.conf = @ + 1, !.live = TRUE]
        z == StartWorkers(y, TRUE, IF fault = "fork" THEN 1 ELSE 0)
    IN  IF x.reconfigure THEN SignalWorkers(StartCacheManagers(z, TRUE), "quit") ELSE x

\* Faulty variant: the master still believes that no child is left.
RestartedUnseen(x, fault) ==
    LET y == [x EXCEPT !.restart = FALSE]
        z == StartWorkers(y, FALSE, IF fault = "fork" THEN 1 ELSE 0)
    IN  IF x.restart THEN StartCacheManagers(z, FALSE) ELSE x

Restarted(x, fault) ==
    LET y == [x EXCEPT !.restart = FALSE, !.live = TRUE]
        z == StartWorkers(y, FALSE, IF fault = "fork" THEN 1 ELSE 0)
    IN  IF x.restart THEN StartCacheManagers(z, FALSE) ELSE x

BinaryChanged(x, fault) ==
    IF x.change_binary
    THEN ExecNewBinary([x EXCEPT !.change_binary = FALSE], fault # "exec") ELSE x

AcceptingStopped(x) ==
    IF x.noaccept
    THEN SignalWorkers([x EXCEPT !.noaccept = FALSE, !.noaccepting = TRUE], "quit")
    ELSE x

\* The flags that are left, one after the other in the order of the code.
CarryOn(x, fault) ==
    /\ Staying(x)
    /\ x.reconfigure => x.new_binary = 0 /\ fault # "reload"
    /\ \E a \in {Reconfigured(x, fault)} :
         \E b \in {Restarted(a, fault)} :
           \E c \in {BinaryChanged(b, fault)} :
             \E d \in {AcceptingStopped(c)} : master' = Suspend(d)

\* The faults that can meet this pass.
Faults ==
    {"none"} \cup
    IF hist.left = 0 THEN {}
    ELSE (IF \E i \in Places : master.procs[i].exited THEN {"respawn"} ELSE {})
         \cup (IF master.reconfigure THEN {"fork", "reload"} ELSE {})
         \cup (IF master.change_binary THEN {"exec"} ELSE {})

Wake ==
    /\ awake /\ ~master.gone /\ pending = {}
    /\ \E fault \in Faults :
         \E x \in {IF master.reap THEN ReapChildren(master, fault # "respawn") ELSE master} :
             /\ \/ Leave(x)
                \/ Terminating(x)
                \/ Quitting(x)
                \/ WorkersAgain(x, fault)
                \/ ReloadFails(x, fault)
                \/ CarryOn(x, fault)
             /\ hist' = [hist EXCEPT
                          !.left = IF fault = "none" THEN @ ELSE @ - 1,
                          !.ill = @ \cup ({fault} \ {"none"}),
                          !.again = @ \/ (Staying(x) /\ x.reconfigure /\ x.new_binary # 0),
                          !.twice = @ \/ (Staying(x) /\ x.change_binary /\ x.new_binary # 0)]
    /\ awake' = FALSE
    /\ pending' = IF \E i \in Places : Dead(master'.procs[i]) /\ Alive(master.procs[i])
                  THEN pending \cup {"chld"} ELSE pending

----------------------------------------------------------------------------
(* The handlers                                                            *)

\* The patch: SIGALRM no longer goes to nginx but to `handler'.  SIGUSR1, which
\* was the signal to reopen logs, is the patch's too: nothing sets ngx_reopen.
AddTimer(x, handler) == [x EXCEPT !.handler = handler, !.armed = TRUE]

OnNoAccept(x) == [x EXCEPT !.terminate = TRUE]

\* Faulty variant: no timer for the end.
OnChangeBinaryOnly(x) == [x EXCEPT !.noaccept = TRUE]

OnChangeBinary(x) ==
    IF x.noaccept THEN x ELSE AddTimer([x EXCEPT !.noaccept = TRUE], "noaccept")

SigUser1(x, value) ==
    IF value = "reconfigure" THEN [x EXCEPT !.reconfigure = TRUE]
    ELSE IF x.change_binary THEN x
    ELSE AddTimer([x EXCEPT !.change_binary = TRUE], "change_binary")

\* Stock nginx: ngx_process_get_status waits for every child that died, and
\* status 2 says that a respawn would not help.
ProcessGetStatus(x) ==
    [x EXCEPT !.reap = TRUE,
              !.procs = [i \in Places |-> LET c == x.procs[i] IN
                  IF ~Dead(c) \/ c.exited THEN c
                  ELSE [c EXCEPT !.exited = TRUE, !.respawn = @ /\ c.stage # "fatal"]]]

SignalHandler(x, sig) ==
    CASE sig = "chld" -> ProcessGetStatus(x)
      [] sig = "hup"   -> [x EXCEPT !.reconfigure = TRUE]
      [] sig = "term"  -> [x EXCEPT !.terminate = TRUE]
      [] sig = "quit"  -> [x EXCEPT !.quit = TRUE]
      [] sig = "winch" -> [x EXCEPT !.noaccept = TRUE]
      [] sig = "usr2"  -> [x EXCEPT !.change_binary = @ \/ x.new_binary <= 0]
      [] sig = "alrm"  -> [x EXCEPT !.sigalrm = TRUE]

Handled(sig) ==
    CASE sig \in User1 -> SigUser1(master, sig)
      [] sig = "alrm" /\ master.handler = "change_binary" -> OnChangeBinary(master)
      [] sig = "alrm" /\ master.handler = "noaccept" -> OnNoAccept(master)
      [] OTHER -> SignalHandler(master, sig)

\* sigsuspend runs the handlers of all signals that are pending, in any order,
\* before it returns.
Deliver(sig) ==
    /\ sig \in pending /\ ~master.gone
    /\ master' = Handled(sig)
    /\ pending' = pending \ {sig}
    /\ awake' = TRUE
    /\ UNCHANGED hist

----------------------------------------------------------------------------
(* Whoever signals the master                                              *)

\* A signal that is pending already is not queued a second time, and SIGUSR1
\* is one signal whatever its value.
Queued(sig) ==
    IF sig \in User1 /\ pending \cap User1 # {} THEN pending ELSE pending \cup {sig}

Asked(sig) ==
    /\ hist.asks # <<>> /\ Head(hist.asks) = sig
    /\ ~awake /\ ~master.gone
    /\ hist' = [hist EXCEPT !.asks = Tail(@), !.said = @ \cup {sig}]

Send(sig) ==
    /\ Asked(sig)
    /\ pending' = Queued(sig)
    /\ UNCHANGED <<master, awake>>

\* sigqueue from a worker: ngx_restart_instance, and ngx_reload_configuration,
\* which nothing calls.
RestartInstance == Send("restart")
ReloadConfiguration == Send("reconfigure")

Operator == \E sig \in Stock : Send(sig)

TimerExpires ==
    /\ master.armed /\ ~awake
    /\ master' = [master EXCEPT !.armed = FALSE]
    /\ pending' = pending \cup {"alrm"}
    /\ UNCHANGED <<awake, hist>>

----------------------------------------------------------------------------
(* The children                                                            *)

Becomes(i, stage) ==
    /\ LET told == IF stage = "dead" THEN {} ELSE master.procs[i].told
       IN  master' = [master EXCEPT !.procs[i] = [@ EXCEPT !.stage = stage, !.told = told]]
    /\ pending' = IF stage = "dead" THEN pending \cup {"chld"} ELSE pending
    /\ UNCHANGED <<awake, hist>>

\* ngx_worker_process_init went through.
WorkerProcessInit(i) ==
    /\ master.procs[i].stage = "init" /\ ~Detached(master.procs[i])
    /\ Becomes(i, "up")

\* ngx_channel_handler reads the channel before a pass of the child's loop and
\* sets the flag the command stands for.
Heard(c, command) == command \in c.told

\* A worker told to quit closes its listening sockets and goes when its
\* connections are done; a helper just goes.
WorkerProcessCycle(i) ==
    LET c == master.procs[i] IN
    \/ /\ c.kind = "worker" /\ c.stage = "up" /\ Heard(c, "quit")
       /\ Becomes(i, "shutting")
    \/ /\ c.kind = "worker" /\ c.stage \in {"up", "shutting"} /\ Heard(c, "term")
       /\ Becomes(i, "dead")
    \/ /\ c.kind = "worker" /\ c.stage = "shutting"
       /\ Becomes(i, "dead")

CacheManagerProcessCycle(i) ==
    /\ master.procs[i].kind \in {"manager", "loader"}
    /\ master.procs[i].stage = "up"
    /\ Heard(master.procs[i], "quit") \/ Heard(master.procs[i], "term")
    /\ Becomes(i, "dead")

\* The loader's work is done a minute after its start, once.
CacheLoaderProcessHandler(i) ==
    /\ master.procs[i].kind = "loader" /\ master.procs[i].stage = "up"
    /\ Becomes(i, "dead")

\* A worker crashes, or stops answering, or cannot initialise (exit status 2);
\* a new binary fails before or after it is up.
Misfortune(i, stage) ==
    LET c == master.procs[i] IN
    /\ hist.left > 0 /\ ~master.gone
    /\ \/ stage = "dead" /\ Alive(c) /\ c.kind \in {"worker", "binary"}
       \/ stage = "hung" /\ c.stage \in {"up", "shutting"} /\ c.kind = "worker"
       \/ stage = "fatal" /\ c.stage = "init" /\ c.kind = "worker"
    /\ master' = [master EXCEPT !.procs[i] = [@ EXCEPT !.stage = stage, !.told = {}]]
    /\ pending' = IF stage = "hung" THEN pending ELSE pending \cup {"chld"}
    /\ hist' = [hist EXCEPT !.left = @ - 1, !.ill = @ \cup {stage}]
    /\ UNCHANGED awake

\* main in the new binary: it takes the inherited sockets and writes its pid.
NewBinaryUp(i) ==
    /\ Detached(master.procs[i]) /\ master.procs[i].stage = "init"
    /\ master' = [master EXCEPT !.procs[i] = [@ EXCEPT !.stage = "up"], !.pid = i]
    /\ UNCHANGED <<pending, awake, hist>>

\* An operator goes back to the old instance: the new master quits, and takes
\* the pid file with it.
NewBinaryQuits(i) ==
    /\ Detached(master.procs[i]) /\ master.procs[i].stage = "up"
    /\ Asked("back")
    /\ master' = [master EXCEPT !.procs[i] = [@ EXCEPT !.stage = "dead"], !.pid = Nobody]
    /\ pending' = pending \cup {"chld"}
    /\ UNCHANGED awake

----------------------------------------------------------------------------

CycleInit ==
    /\ pending = {} /\ awake = FALSE
    /\ \E c \in Cases :
         /\ master = MasterProcessCycle([workers |-> c.workers, manager |-> c.manager,
                                    loader |-> c.loader])
         /\ hist = [asks |-> c.asks, said |-> {}, left |-> MaxMishaps, ill |-> {},
                    again |-> FALSE, twice |-> FALSE]

ChildStep(i) ==
    /\ ~awake /\ ~master.gone
    /\ \/ WorkerProcessInit(i)
       \/ WorkerProcessCycle(i)
       \/ CacheManagerProcessCycle(i)
       \/ CacheLoaderProcessHandler(i)
       \/ NewBinaryUp(i)

Signals == Stock \cup User1 \cup {"chld", "alrm"}

MasterStep == Wake \/ \E sig \in Signals : Deliver(sig)

CycleNext ==
    \/ MasterStep
    \/ RestartInstance \/ ReloadConfiguration \/ Operator
    \/ TimerExpires
    \/ \E i \in Places : ChildStep(i)
    \/ \E i \in Places : NewBinaryQuits(i)
    \/ ~awake /\ \E i \in Places, stage \in {"dead", "hung", "fatal"} : Misfortune(i, stage)

\* Signals are delivered and the master runs, timers expire, children run; a
\* child has few steps, so that none can keep another from its own for ever.
\* The model lets nothing else move while a pass of the master is under way,
\* which in the system takes no time from them: hence the strong form.
CycleFairness ==
    /\ WF_cycleVars(MasterStep)
    /\ SF_cycleVars(TimerExpires)
    /\ SF_cycleVars(\E i \in Places : ChildStep(i))

CycleSpec == CycleInit /\ [][CycleNext]_cycleVars /\ CycleFairness

----------------------------------------------------------------------------
(* Properties                                                              *)

Serving == {i \in Places : LET c == master.procs[i] IN
              c.kind = "worker" /\ ~Dead(c) /\ ~c.exiting /\ c.conf = master.conf}

\* Nothing is under way in the master.
Settled ==
    /\ ~master.gone /\ ~awake /\ pending = {}
    /\ ~master.reap /\ ~master.reconfigure /\ ~master.restart
    /\ ~master.change_binary /\ ~master.noaccept
    /\ Staying(master)

\* Through crashes, reloads, new binaries that fail and come back, a master at
\* rest that stays and accepts has as many workers of the newest configuration
\* as it was configured with; unless a fork failed, or a worker said by its exit
\* status that a respawn is of no use (the reap, reload and restart branches).
NeverShort ==
    Settled /\ ~master.noaccepting /\ hist.ill \cap {"fatal", "fork", "respawn"} = {} =>
        Cardinality(Serving) >= master.ccf.workers

\* A master that goes leaves only the new binary behind.  `live' is as old as
\* the last reap: workers started next to a new binary do not set it, and are
\* left when the master is told to go right after (hist.again).
NoneLeftBehind ==
    master.gone /\ ~hist.again =>
        \A i \in Places : Alive(master.procs[i]) => Detached(master.procs[i])

\* The pid files lead an operator, and upgrade.sh, to the master that answers:
\* renamed for the new binary, back when it is reaped or was not executed,
\* removed with the master.  A second new binary before the first is reaped
\* (sig_user1_handler does not look) loses the names.
PidFilesTell ==
    ~hist.twice =>
        /\ master.new_binary \in {0, Invalid} /\ ~master.gone => master.pid = Self
        /\ master.new_binary \in Places /\ ~master.gone => master.oldpid = Self
        /\ master.gone /\ master.new_binary # Invalid => Self \notin {master.pid, master.oldpid}

Hangs == "hung" \in hist.ill

\* A master told to terminate goes, whatever hangs: TERM becomes KILL when the
\* alarms have stretched the delay beyond a second.  Once a restart was asked
\* for, the alarms go to the patch's handlers and nothing is killed.
TerminateEnds == master.terminate ~> (master.gone \/ master.handler # "sigalrm")

\* The restart a worker asks for ends the old master, whether the new binary
\* comes up or not, if no child hangs; unless the operator sends WINCH just
\* then, which stops the chain of timers.
RestartEnds ==
    master.handler # "sigalrm" ~> (master.gone \/ Hangs \/ "winch" \in hist.said)

\* Whichever way it was asked to, a master ends.
EndingsEnd == TerminateEnds /\ RestartEnds

\* Workers of an earlier configuration go in the end.
OldOnesGo ==
    (\E i \in Places : master.procs[i].kind = "worker" /\ master.procs[i].conf < master.conf)
        ~> (master.gone \/ Hangs
            \/ \A i \in Places : LET c == master.procs[i] IN
                  c.kind = "worker" => c.conf = master.conf)

=============================================================================
