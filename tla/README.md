# Verification of hustngx

hustngx is a set of nginx add-on modules: a replicated front end for a
key-value store (hustdbha), a message-queue front end (hustmqha), a
dictionary in shared memory with HTTP handlers (hustdict), a logger (hustlog),
and the library all of them use (lib_hustngx). This directory models the parts
that keep state and decide something, checks small instances with TLC, and
proves the most important protocols for every value of their constants with
TLAPS. Paths below are relative to `src/`; `HB` stands for
`samples/hustdbha/nginx/src/addon`, `HM` for
`samples/hustmqha/nginx/src/addon`, `LC` for `lib_hustngx/nginx/src/core` and
`LH` for `lib_hustngx/nginx/src/http/modules`.

Contents: 1 inventory, 2 modules and how they correspond to the code, 3 runs,
4 fairness, 5 proofs, 6 disagreements between code and documentation,
7 what is not modelled, 8 plan.

## 1. Inventory

nginx runs one event loop per worker process. Within a worker a handler runs
from an event to its return without being interrupted, so a handler is one
step; between two handlers of one request (client body, subrequest, timer)
anything else happens. Across workers there is shared memory with a mutex, and
files.

| Part | State it keeps | Operations | What is hard | What makes it correct |
|---|---|---|---|---|
| write path (`HB/hustdb_ha_write_*.c`, `hustdb_ha_handler_base.c`) | per request: stage, error counts, failed and healthy master, version | PUT, HSET, SADD, SREM, DEL, HDEL, ZADD, ZREM; binlog call; local sync log | health flips between the two writes; lost and late backend answers; the binlog call fails | a 200 is on both masters or a repair names the one it is not on; repairs are justified; the version is the greatest; every request is answered, but for a subrequest that nginx sends for ever |
| read path (`hustdb_ha_read_handler.c`, `read2`, `hincrby`, `hustdb_ha_handler_base.c`) | the peer asked, the version seen | failover over the read list; compare both masters; commands for a named peer | a master that missed a write answers a read; both answers share one context | a read is as new as every acknowledged write its peer was part of; 404 only after every living peer was asked; one version only if both masters have it |
| table control (`hustdb_ha_set_table_handler.c`, `table_setter.c`, `conf_setter.c`, `table_checker.c`, `table_def.c`) | identifier pool and lock in shared memory; table file, nginx.conf, `.del` copies | issue an identifier, post a table with it, new instance | two locked sections with a gap, crashes and failing renames; a table is checked by one instance and built by another | pool conserved, one writer, files survive, the new instance can start and keeps every range with a master that has its data, the lock is not leaked |
| write cache, sync (`hustdb_ha_write_cache.c`, `hustdb_ha_sync_handler.c`) | per request: stage, failures | cached write to both masters, forwarding of sync commands | partial failure | 200 only if a master took it, and the Fail header names the other if it did not |
| task exchange (`HM/hustmq_ha_do_get_handler.c`, `do_post`) | fixed pools of slots and executers, tokens, timers | post a task, take one, bring a result, both time out | slots are reused while a result is under way | pools agree with who waits; handed once; a result in time is delivered |
| publish (`HM/hustmq_ha_publish_handler.c`) | a reference count per queue; hosts left to ask | publish to each living host in turn | the count is tested before the body and incremented after; the timer resets it | the count header is true; the queue reopens |
| statistics (`HM/hustmq_ha_fetch_stat.c`, `hustmq_ha_autost_handler.c`, `hustmq_ha_stat_def.c`) | context pool; dictionary of queues and hosts | a round of fetches, its timer, the merge; the same on demand, one host after the other | answers after the timer land in another round | contexts come back; a merge is whole; items are what the host said |
| long polling (`HM/hustmq_ha_ev_handler.c`, `evget`, `evsub`) | lines of waiting requests, timers, size counters | wait, time out, activation after a merge | cleaning, timeout and activation all change the lines | nobody is lost, first come first served, a full dictionary gets room again |
| put, get, subscribe (`HM/hustmq_ha_put_handler.c`, `get`, `request`, `handler_filter`) | per request: the peer asked, the hash peer, a count; the dictionary's `ref` | choose a host by the statistics, go on to the next | health, statistics and `ref` change between two hosts | a request gives up only when every host was asked or unfit; a walk over the list asks none twice; the answer is what the hosts said |
| worker statistics (`HM/hustmq_ha_worker_handler.c`, `hustmq_ha_worker_def.c`) | dictionary of workers | ask every host, merge, answer | a dictionary at its limit drops the rest of an array; what is old is cleaned out only then | the list has the workers told of in this request, each with its latest time |
| shared-memory dictionary (`LC/ngx_shm_dict*.c`) | slab, index and LRU queue in shared memory | get, set, add, replace, safe variants, delete, incr, decr, flushes, keys | pointers used after unlock, eviction, expiry by different clocks | one entry per key, LRU eviction, no lost increment, no lock left behind |
| hustdict handlers | none | one dictionary call each | none of their own | those of the dictionary |
| fetch (`LH/ngx_http_fetch*.c`) | pool of connection objects with their pools, cache of idle connections | fetch, keepalive, close | an end inside the call that starts it; nginx frees what fetch keeps, or not | every object and connection has one owner or one place |
| upstream round robin (`patch/nginx/src/http/ngx_http_upstream_round_robin.c`) | weights, failures, connections of each peer | init, get a peer, free it, tries, backups | many requests hold peers of one table; failures and recoveries change weights | connections are counted, weights balance, a failed peer is tried again only after its fail_timeout |
| peer selector (`LH/ngx_http_peer_selector_module.c`) | per subrequest: the peer it is for | init, get | takes a peer without looking at the table, and shares its free | as the round robin; the request ends, unless its peer is down and it met an idle connection |
| master process (`patch/` and `samples/*/nginx/src/{core,os}`: `ngx_process_cycle.c`, `nginx.c`) | flags, the process table, SIGALRM's timer, pid files | reload, new binary, restart by a worker, quit, terminate, reap and respawn | signals in any order, children that crash or hang, a new binary that fails | enough workers, none left behind, pid files that lead to the master, endings that end |
| subrequest and peer utilities (`LH/ngx_http_utils_module.c`) | per request: the context a subrequest comes back to | gen, run and finish a subrequest; next living peer; respond | a subrequest may fail at once | the parent is called exactly once |
| basic auth (`LH`) | none | compares a header | none | - |
| JSON and C dictionaries (`LC/c_dict.c`, `cjson_*`), hustlog, generators | data | conversions, one line per request, files | - | - |

Interactions. The write path and the read path ask the upstream check module
which peers live and read the table that table control replaces; the write
path leaves repairs on a backend or in the sync log, which a separate sync
process replays. Table control asks nginx's master for a new instance
(`ngx_restart_instance`, a queued SIGUSR1), which
re-reads both files and starts with a fresh shared zone. Every subrequest goes
through the round robin or the selector, and the statistics and the sync commands
through fetch. The statistics use
fetch, and every merge wakes long polling one millisecond later; put, get,
publish and long polling read the merged dictionary. hustdict is a shell
around the shared-memory dictionary.

`PROJECT.json` lists under "hazards" the places where this goes wrong without
a test noticing, each with the properties that watch it.

## 2. Modules

### HaWrite, ReplicatedWrite, HaCommandProofs

`HaWrite` models a write from the arrival of the request to its answer.
`ctx` is `hustdb_ha_write_ctx_t` with its C field names; `pc` says which
callback a request waits for (its body, a subrequest); `calls` are subrequests
at a backend and `reply` an answer that has come. `StartPost`,
`StartBodyKey` and `StartDel` are the three families of entry points;
`BodyReceived` is `__post_handler` / `__post_body_handler`; `SwitchState` is
`__switch_state` with its three stages, each the whole callback with the next
subrequest, the binlog call, the local log or the answer. Which statuses
count as a skipped error depends on the method (`__skip_error`).

The environment is what the code gets from outside `HB`: backends that carry
a call out, refuse it or never answer (a failed subrequest may still be carried
out later), and the health checker, which flips at any time. `Answer`
delivers a reply only while the request still waits for that very call.

`ReplicatedWrite` is the promise: masters that hold a write, masters that are
owed a repair, and the outcome; "ok" requires that each master is one or the
other. `HaWrite!Abstract` maps acknowledgements, repair records and responses
to it.

### HaCommand, HaCommandProofs

`HaCommand` extends `HaWrite` with the commands that leave no repair record,
so that what they answer can be related to the writes that run meanwhile: the
failover read with its `sismember` and zset forms, read2, the cached write,
hincrby and the commands for a peer. `cctx` is the context of a command (the
fields of all four C structs), `cphase` the callback it waits for. `OnRead`,
`OnReadMaster1`, `OnReadMaster2`, `OnCache` and `OnSingle` are the completion
handlers, `Start...` and `CommandBody` what runs before the first subrequest.
A start that takes `known` chooses freely whether the key and arguments are
there. Versions are kept and values are not: that two masters hold the same
value is a free choice too. `retried` has the requests whose subrequest nginx sends
to the same peer without end (`RetriedForEver`, section 6); the tries nginx makes
within one subrequest are one call of the model, carried out once at most. `hist` is
auxiliary (no guard reads it): the
writes answered before the command came, what peers said, and who was
down meanwhile. `Held` is what the backends hold at the start.

### ShmDict, NgxProofs

A section between lock and unlock is one action; what runs outside the
mutex is separate: the copy of a value from the pointer `ngx_shm_dict_get`
returned (`Copy`), the atomic addition at it (`AddAndFetch`), the set that
follows the failed get of an incr (`StoreDelta`). `queue` is the LRU queue of
chunks; `mem` what chunks hold, also after they are freed, since a stale
pointer still reads it; the red-black tree is the set of queued chunks by key.
`Expire`, `Lookup`, `Allocate` are the C functions with their off-by-ones
(`<` here and `<=` there, the count of `ngx_shm_dict_expire` that includes a
forced eviction). Slab classes are abstracted to which chunk serves which type.
Each worker has its own cached time.

### MqDoTask, MqDoTaskProofs

One worker process. The lists `free`, `unassigned`, `assigned` and the
executer lists `cached`, `idle` are the `ngx_queue_t` globals; `dict` holds the
tokens; `taskOf` is `ctx->r`, which stays set after a slot is freed. A reply
to a token whose request is gone writes to a freed request: the model lets it
go unnoticed or end the process (`Respawn`).

### HaTable

What a table says and what is done with it. A `Table` is the parsed JSON: a
sequence of elements, each a range of hashes with two masters and perhaps an
increase (the range is split) or a decrease (a master is replaced); hosts are
model values, the arrays have any length since `TwoOfEach` is part of the
check. `CheckItem` and `CheckDecrease` are the checks of `table_checker.c`.
`Parts` are the items an element adds to the list (`__build_table_item`), with
their read and write lists; `HashTable` is the array that the parts overwrite
one after the other, `Reviewed` and `BucketsFit` what is asked of it.
`CheckTable` is the check of a posted table by the running instance, as the set
of answers it may give: a table with an increase is not checked at all
(`table_setter.c:63`), and where a table leaves hashes out the review reads
what is on the stack (`table_setter.c:67`). `Builds` is the same on the zeroed
table of a new instance. `Backends` is `hustdb_ha_load_backends`.

`Vouched` says which tables the check can vouch for. What it lets through
besides: a table with an increase that is wrong in itself, a table with gaps, and
one that removes a host from one element and keeps it in another, whose lists
then name a host nginx.conf does not have. With those the new
instance cannot start.

### HaSetTable, HaSetTableProofs

Extends `HaTable`. Workers are processes: each locked section and each file
operation is a step of `job[w]`, which may fail, or be the last of a process
(`Crash`). `table` and `tableDel` are the tables in the table file and its copy,
`conf` and `confDel` the upstream block of nginx.conf, `Missing` if there is no
such file; `peers` are the backends of the running instance. `TakeOver` is the new
instance, if it builds its table: fresh shared memory, old workers gone. `Outage`
is the end of the old workers if it does not: their timers
(`on_ngx_change_binary`, `on_ngx_noaccept`) stop them without looking. The
identifier is the time in microseconds, so two requests of the same instant may
generate the same one.

### MqPublish, MqContextProofs

One queue of one worker. `Start` is `__first_publish_handler` with its test of
the reference count; the count is incremented only when the body is there
(`Ask`, at once or in `PostBody`). `PeerAnswers` is the completion handler, in
time or after `PublishTimeout`.

### MqFetchStat, MqContextProofs

The context pool of the statistics, rounds, fetches under way. `Activate` is
one timer tick with the whole fetch loop, in which each fetch is refused (no
connection object), starts, or ends at once. A fetch knows its context, not its
round: the auxiliary field `round` is never read by an action except to label
what is merged.

### MqStat, MqLongPoll, MqStatProofs

`MqStat` is the dictionary of queues and the merge. `MqLongPoll` extends it:
the lines of waiting requests, their timers, and the activation a merge asks
for. `Minus` is the C subtraction of a `size_t`. The index test of evsub when
an activated request is answered is left out: it chooses between two answers
to the same request and changes no state (its arithmetic is in `MqIndex`).
`MqStatProofs` proves what is said of the dictionary and of the lines.

### MqRoute, MqStatProofs

Extends `MqStat` and `MqWorkers` with the requests that choose hosts. `req[c]`
stands for the contexts of all seven C structs; `list` is the chain of peers the request walks
(`HostList`, or for sub the hosts that have the index) and `pos` its place
there, `Null` where nginx chooses. `Arrive` is the first call of a handler,
`Body` the callback of the client's body, `Complete` the call after a
subrequest. Each reads the health of that moment (`alive`, a free choice). `ref` is
`queue_dict->dict.ref`, the result of the last lookup of any queue by any
request, which the handlers test to see whether there are statistics;
`LookUpElsewhere` are the handlers that only look up. `HashTable`, `PeerDict`,
`EncodeAckPeer` and `DecodeAckPeer` are the tables of `hustmq_ha_peer_def.c` and
the number by which a client names the host of its message when it acks.
`OnAutost` gathers statistics on demand and merges them as a round of
`MqFetchStat` would; `OnWorker` does so with the lists of workers. `asked`, `oks`,
`unfit` and `listing` are auxiliary.

### MqWorkers

The dictionary of workers: `TakeWorker` reads one entry of a host's array, and
stops reading the array for want of room; `UpdateWorkers` reads all the arrays of a
request and cleans the dictionary if the new workers reached the limit;
`Listings` are the lists it may give. `worker_items` starts from zero in each
update, so it is no variable.

### NgxCycle, NgxProofs

The master process. `master` is what the master knows: the flags the handlers set, the
timer and who handles SIGALRM, the process table `procs`, the pid files; of a child,
`stage` and `told` are what it really does. nginx keeps signals blocked except in
`sigsuspend`, so `Deliver` runs the handler of one pending signal and `Wake` the
body of the loop, branch after branch as the code has them (`Pass`). A
child dies, exits with the status that says not to respawn it, or hangs as one of at
most `MaxMishaps` mishaps; the calls of the master (fork, exec, rename) fail
likewise. `Cases` lists configurations and what is asked, in order. The patch's
chain, `sig_user1_handler`, `on_ngx_change_binary`, `on_ngx_noaccept`, is in the
handlers; `NewBinaryUp` is the start of the new binary with the inherited sockets.

### RoundRobin, NgxUpstream, NgxUpstreamProofs

`RoundRobin` is the patched round robin as operators on a table of peers:
`InitRoundRobin` and `FetchPeers` build one, `GetRoundRobinPeer` chooses and
`FreeRoundRobinPeer` gives back. `NgxUpstream` is one worker process with requests
of these kinds: plain ones, ones whose handler names the peer (selector), and
fetches, which name a peer or do not. `keep` is the cache of idle connections of
nginx's keepalive module,
`g_cache` that of fetch; `free_obj`, `pools` and `alive` are fetch's connection
objects, which of them have pools that fetch is to destroy, and whose pools exist.
A fetch is of kind "named" if its caller hands a peer of the table along, as
hustmqha's statistics do (`hustmq_ha_fetch_stat.c:191`): `ngx_http_fetch_upstream.c:254`
copies as many bytes as an `ngx_addr_t` has, which on a 64-bit machine is all of an
`ngx_http_fetch_addr_t`, with its `peer`. Such a fetch counts at that peer, and gives the
count back only if its connection is not kept (`FreeFetch`); `hist.kept` counts those that
do not. `Done` and `Fail` are the ends of a try; an answer is a record of what decides
whether the connection is kept. A worker runs one handler at a time, so each action
is a handler.

### MqIndex

The arithmetic of message indexes, as operators of the C functions with their
real constants; it has no state and no run. The theorems about them are at the end of
`MqContextProofs`: the index is that of a published queue.

### Lists

Lemmas about lists in which nothing is twice, which is what the `ngx_queue_t` lists
and pools of the other modules are: what pushing, taking, unlinking and cutting do to
the members. It models nothing and is extended by the modules that prove.

## 3. Runs

| Run | Instance | What it shows |
|---|---|---|
| write | 2 interchangeable requests, 1 key, DEL, SADD and ZADD | AckedCovered and the refinement, with versions that diverge because two writes race |
| command | 1 write (ZADD) beside 1 command of any kind, 1 key whose masters hold versions 2 and 1, with fairness | the version of an answer, what reads and comparing reads see of acknowledged writes, when a read may give up, the Fail header, everyone is answered whose subrequest is not retried for ever |
| dict | 2 workers, 3 keys, 2 chunks of different class, 2 loads | index and queue agree, LRU eviction, no lost increment |
| dotask | 3 requests, 2 workers, 2 slots, 1 executer, 1 respawn | pools, single hand-out, delivery in time, everyone answered |
| set_table | 2 interchangeable workers, 2 identifiers, 2 posts of any of 8 tables over 4 hosts and 4 hashes, 1 crash | pool, one writer, files, lock; the instance that is asked for can start |
| publish | 3 publishes, 2 hosts, one late body | reference count, count header, reopening |
| fetch_stat | 2 hosts, 2 contexts, 3 connection objects, 3 rounds | contexts, array bound, whole merges |
| fetch_stat_late | as fetch_stat | violation: a late answer is merged into another round (section 6) |
| long_poll | 1 host, 2 queues, 3 clients, 2 timers, room for 2 queues | items as said, counts, lines, order, room again |
| route | 1 client with requests of any kind, 2 hosts, a known and an unknown queue; or 2 workers and room for 1 | GivesUpLast, AnswerTellsTrue with WorkersTold |
| cycle | configurations of 1 or 2 workers with and without cache helpers, 1 mishap, with fairness | enough workers, none left behind, pid files, endings, old workers go |
| upstream | 2 requests at a time, 3 in all, of each kind; 1 or 2 peers with weights, backup, a limit and failures; 2 connection objects, 1 cached connection, with fairness | connections counted (with those that named fetches leave behind), weights balanced, one owner for each connection and object, probes spaced, every request ends |

Why the bounds are enough. Each hazard needs at most two or three actors, and
the bounds leave each limit reachable. A write has two masters by
construction, and requests share only versions and health, so two requests on
a key exercise every interaction. A command reads what at most one write has
changed since it began; that the masters differ at the start stands for all the
writes before, whose repairs hustdb has not replayed yet. The other methods
differ from DEL, SADD and ZADD in how they start (the proofs cover them all) and in which
statuses they skip. Two chunks of different class are the least
that make a store evict one entry and still not fit; three keys compete for
them. Two task slots and three requests make a slot be reused while its old
result is out. Two identifiers let a slot be freed twice and reused. Three
rounds over two contexts let a late answer reach a context's next round; three
connection objects for two hosts let a round find none left. One line of two
timers among three clients makes refusal happen. In `route`
the requests share only the two dictionaries and `ref`, which other requests
change freely (`LookUpElsewhere`, the merges), so one client that sends request
after request is enough; two hosts let one die, hash to either and skip either;
two workers and room for one make the dictionary of workers drop one.

`cycle` takes thirteen instances (`Requests` of `MCNgxCycle`): what an operator
asks in the documented upgrade, its way back, a reload beside a new binary, and
the restart a worker asks for, alone and followed by each other request; with two
workers where a share of them can be lost, and once with the cache manager and
loader. Five places in the process table (`Places`) hold two generations and a new binary.
`FirstDelay` is 800 ms where the code has 50, so that the doubling delays of
`terminate` pass the second after which it kills. `upstream` takes seven (`Upstreams`):
two weighted peers; a backup beside a peer that may have one connection; one such
peer with requests that choose it; an upstream without a block (two addresses); one
peer, and two, with fetches that name it; and the peers of a fetch that names none.
Two requests at a time make a failed peer be tried by
one while the other holds it.

Bounds that cut counters are `MaxNow`, `MaxId`, `MaxTable`, `MaxCrash`,
`MaxEpoch`, `MaxRound`, `MaxReady`, `MaxMishaps` (mishaps of processes and calls),
`MaxStarts` (requests), `MaxLeaks` (objects lost) and `MaxTicks` (seconds);
`Modulus`, `Wrap` and `SizeWidth` are not cuts but machine widths, scaled down
so that wrapping is reached. `Tries` is 30 in the code and 2 here: a store that
exhausts it is reached. `MaxNow` is the end of the clock: `dict`, whose terms
are shorter, reaches every expiry.

Deadlock is checked except where the bounds stop a system (`MaxRound`,
`MaxTable` and the identifiers, `MaxStarts` with `MaxTicks`) or where it ends on
purpose (`cycle`, when the master is gone).

Every property has a fault in `PROJECT.json` "mutants" that it catches; the
faulty variants stand beside the definitions they replace.

## 4. Fairness

* HaWrite has no fairness. HaCommand, which runs the writes too: weak fairness of a request's
  handler, but while a subrequest without an answer is retried for ever (`retried`).
  nginx arms a timer for the client's body and for connecting to, writing to and
  reading from a backend, and a try that ends in a timeout, or in an error on a new
  connection, uses up a try: the callback is called again. The exception is the
  handlers' own: all of them name the peer of their subrequest, and the selector lets a
  request that met an idle connection try without end (`LH/ngx_http_peer_selector_module.c:89`;
  `samples/hustdbha` has the selector with keepalive). `Retried` may happen to any subrequest
  without an answer, and ends when the peer answers or a try ends otherwise. `AllAnswered`
  says that nothing but this keeps a request waiting. Nothing is assumed of backends or
  the health checker.
* ShmDict: a worker that has begun a call goes on, unless it waits for the
  mutex. The dictionary calls nothing that blocks otherwise.
* MqDoTask, MqPublish, MqFetchStat: only timers are fair. Clients, workers of
  tasks and hosts may stay silent for ever.
* HaSetTable: none; that the lock comes free again is stated of states
  (`LockNotLeaked`: whoever must clear it exists).
* NgxCycle: weak fairness of the master, which is a loop, and strong fairness of
  its timer and of its children. A signal that waits is delivered and a child that
  was told to end ends unless it hangs; both are interrupted by steps of the
  master again and again, and the kernel does not starve them.
* NgxUpstream: a request that has a connection is answered or fails (for a chosen
  one that may be again and again, see `EveryRequestEnds`): nginx arms a
  timer for connecting, sending and reading. Clocks and peers are not fair.
* MqLongPoll: timers go off; the periodic statistics timer keeps merging; the
  1 ms activation event happens. That some host answers a round again and
  again is an assumption: with none, no merge and no activation come.
* MqRoute: none; its properties are of states and answers.

## 5. Proofs

`HaCommandProofs` first proves, for any sets of requests, keys and peers, any write
list, any subset of methods and either value of `debug_sync`, that
`Spec => []TypeOK`, `[]AckedCovered`, `[]RepairsSound`,
`[]AnswerVersionIsMax`, and that `HaWrite` implements `ReplicatedWrite`. None
is inductive: whether an answer 200 is right depends on the counts in the
context when the second answer came. The inductive invariant `WriteInv` says

* `RequestInv`: what a context can look like at each stage given the
  acknowledgements (`AtMaster1`, `AtMaster2`, `InRepair`), and that the version
  kept is the greatest acknowledged (`VersionKept`);
* `CallInv`: a call belongs to an accepted request, and a binlog call to one in
  the BINLOG stage, at its healthy master;
* `RepairInv`: a repair names the failed master of a request in repair, also
  when the backend stores it after the request was answered;
* `ResponseInv`: an answer 200 was computed from such a context.

The proof has one lemma for each action and one for each way a handler ends
(`RunSubrequest`, `SendResponse`, `WriteSyncData`). The assumptions are those
in the module: the write list gives each key two peers (not necessarily
different ones), the backends hold some version of each key, `debug_sync` is a
Boolean, the methods offered exist.

Then it proves about the commands that run beside the writes, for any number of
both: `CommandsLeaveWrites` (`CSpec => Spec`), so that everything above holds of
`HaCommand`, and `CSpec => []ReadSeesAcked`, `[]NotFoundAfterAll`,
`[]OneVersionMeansBoth` and `[]AnswersTrue`. The inductive invariant is `WriteInv`
with `CommandInv`, whose parts say

* `ReportedHeld`: what a master reported for a write it still holds, or something
  newer overwrote it; an answer on its way back is no exception. This needs that
  versions only grow, and that a write that was answered 200 is never touched again,
  which is what relates it to `hist[d].since`;
* `Covers`: the version in a reply to a command is not older than the writes that
  were answered before the command came and that this very peer acknowledged. It is
  about the peer's host, not its place in a list: a read walks the read list and the
  writes the write list;
* `PassedOver`: each peer of the list before the one that is asked refused, failed
  or was down at some moment, which at the end of the list is `NotFoundAfterAll`;
* `CacheAt`: what `error_count` and `error_peer` are at each stage of a cached write,
  given which masters took it.

One more assumption is needed, `MastersFirst`: the read list of a key begins with the two
masters of its write list. Without it a read2 compares two hosts that no write went to.
`HaSetTableProofs` proves that each part of a table that an instance builds has such
lists (`MastersAreReadFirst`), so it is what a configuration makes true.

`HaSetTableProofs` proves about tables of any length, over any hosts and hashes:
a table whose elements pass the check one by one and whose last element ends where
the hashes end leaves out no hash (`CheckedTableCovers`), although the check
compares neighbours only and a range may step back or be empty; the buckets fit
(`BucketsAlwaysFit`); what was accepted with some peers is built with the
table's own backends (`AcceptedTableStarts`); and a built table writes each
range to one of the masters it had (`BuiltTableKeepsAMaster`). The first two rest on
`OwnerExists`: the last element that begins at or before a hash has it, by the
least number of elements for which that could fail.

It also proves, for any workers, identifiers and tables, `Spec =>
[]OneWriter`, `[]LockNotLeaked`, `[]FilesSurvive` and `[]InstanceCanStart`. The
inductive invariant says of a worker, by its place, what it has put into the files
so far (`JobInv`), and that what it says stays true because whoever has the lock
is alone (`LockInv`). `InstanceCanStart` then follows from the theorems about
tables: only that some instance accepted the table is kept, not with which
peers. The assumption is that the first instance could build its table. Last,
`Spec => IdentifiersKept`: by `IdentInv` the two lists of the pool share out the slots,
and what the list of given identifiers holds was not used since it was given out. An
identifier that two workers looked up is freed twice, and the lists survive it: the
second time unlinks the slot from wherever it is.

`MqDoTaskProofs` proves, for any finite sets of requests, workers, slots and executers
and any number of deaths, `Spec => []ExchangeSound` and `Spec => InTimeIsDelivered`.
The slots of the two lists are those of the requests that wait (`TasksListed`), the
executers those of the workers that wait (`WorkersCached`), and a worker whose task
still waits holds a slot that is still this task's (`HeldTasks`): that is why the token of
a slot, which stays known after a timeout, cannot take a result from a request that waits
for it, although it can bring one to a request that does not.

`MqContextProofs` proves `Spec => []RefWithinInTime` for any finite set of
publishes and hosts: the reference count never exceeds the number of publishes
whose timer is armed. The strengthening `CountInv` adds that the
timer of a publish can only have fired once it asked its hosts; a publish that
ends then takes one off both sides if its timer has not fired, and at most one
off the count alone if it has. And it proves `Spec => []AnswerCountsStored`: hosts are
asked in the order of their numbers, so those that have the message are below the
one that is asked, and none is counted twice (`Asked`).

The same module proves about the operators of `MqIndex`, for the real constants, that an
index a host has is always found to be there (`WindowIsAccepted`), that nothing else is
in the part of the cycle that does not wrap (`OnlyWindowIsAccepted`), and that merging
prefers the index ahead (`AheadIsGreater`).

`MqStatProofs` proves, for any hosts, queues and rounds, `StatSpec =>
[]ItemsAsSaid` and, if no host's name begins like another's, `StatSpec =>
LiveQueueStays`. `StatInv` adds types; `MarkedInv` says that where a silent host
is believed only what a host has dropped is marked. A run of `LiveQueueStays`
needs three queues, which the walk of `MqLongPoll` cannot afford; TLC
checked it on the merge alone (2 hosts, 3 queues, room for 1 per merge) before
it was proved. Then, for any number of clients, `Spec => []LinesSound` and
`Spec => FirstComeFirst`: `LineInv` says that lines are disjoint, hold each client
once and hold who waits; who is activated is cut from the head of a
line, where the longest waiting stand (`CutList`). It assumes that a line is shorter than `SizeWidth`
(`MaxQueues < SizeWidth`: 2^64 in the code), else the C subtraction of `Minus` would
not be one.

`MqContextProofs` proves, for any finite sets of hosts and contexts and any number
of connection objects, `Spec => []RoundsSound`: contexts come back once, and
`ctx->stats` has room for what is written to it. `FitInv` says of a round that has
gathered something that at least as many fetches have ended and that it is not over,
which is why one more answer fits, a late one included; a round can be over and wait
for its timer, but then it has gathered nothing and one answer fits. `PoolInv` says
that the busy contexts are those whose timer is set and the others are free. And it
proves `Spec => []MergedWhole`: while no timer has fired, the fetches of a context are of
its own round, and they are as many as its numbers still wait for (`RoundWhole`), so
that the last of them ends the round.

`NgxUpstreamProofs` proves the safety properties of NgxUpstream for any finite set of
requests and any tables, answers and caches.

* `Spec => []ConnsCounted`: `conns` of a peer is the number of requests that hold it,
  fetches that name it among them, and of the named fetches whose connection was kept
  (`hist.kept`): it grows with those for ever (section 6).
  `CountInv` adds only that tables have counts and requests their fields; a fetch whose
  connection is kept moves one from the first number to the second (`LeaveKeepsCount`).
  Which peer the weights choose does not matter, and the proof says so, since every operator of
  `RoundRobin` is shown to add one to the peer it returns, to take one off the peer
  that is freed, or to leave the counts (`GetAdds`, `FreeAdds`).
* `Spec => []WeightsBalanced` and `Spec => ProbesSpaced`, of `TableInv`: `Gets` says
  what any operation on a table may do to it, and each is shown to do no more. The peer
  that is picked is one that could serve (`HasGreatest`), so that what it pays is what
  they gained (`SumAdds`); if it had failed too often, its `checked` was longer ago than
  `fail_timeout` and is now. Of the times when a resting peer was tried, `TableInv` says
  that none is later than the peer's `checked`.
* `Spec => []OwnedOnce`, of `HeldInv`: `Owned` says whose an open connection is, with
  the caches as sets; `Objs` the same of connection objects. `Range` of a cache loses or gains
  what the code unlinks or pushes (`ConnectTakes`, `StoredIs`). A request that needs a
  new connection finds one (`SocketLeft`), which is counting: the others are in use by
  other requests or fill the caches.

The assumptions are that a table is at first what a configuration makes of its servers
and has one, that a cache has room for one, and that there are as many connections
(`worker_connections`) as requests and caches can hold: where nginx runs out of them it
fails the try, which the model leaves out.

`Lists` has what these proofs share. Its induction is by the least natural number that a
claim could fail for (`HasLeast`).

`MqStatProofs` proves about MqRoute, for any requests, hosts, queues and workers,
`RouteSpec => []GivesUpLast` and `[]AnswerTellsTrue`. The inductive invariant `RouteInv`
is `StatInv`, so that it also shows that `MqRoute` changes the dictionary of queues only
as a merge may, the type of the dictionary of workers, and of each request
(`RequestInv`)

* while it waits for its body: if its put is to begin elsewhere than at the hash peer,
  each host before that place was found unfit (`BodyAwaited`);
* while it asks: where it is (`Reached`) and what it keeps of the answers (`Heard`). Of a
  request that walks its list `WalkSound` says that the places it asked ascend to the one
  it is at, so that none is asked twice, and that each place up to there was asked, was
  unfit, or lies before the hash peer (`Sought`): health changes between two answers, but
  what was unfit once stays in `unfit`;
* when it is answered: that the status says what came (`EndsTrue`), and that all
  places were sought if it gave up or is for all of them (`WalkEnded`).

A number that `EncodeAckPeer` gives comes back as the host it was made of
(`AckComesBack`), which is why an ack goes to the host that has the message. For statistics
on demand, as many reports as hosts are reports of all hosts (`AllHostsHeard`, by
counting). The list of workers needs an invariant of the update, which walks the
arrays of all hosts in the process's own dictionary: after any number of
entries (`ReadSound`), who counts was told of in what was read, at the time that is kept;
and if the dictionary has room for all the round tells of, nothing read is missing
from it or has a later time. Cleaning takes away only what does not count. The assumption
is that the list of hosts names each host once.

`NgxProofs` proves about ShmDict, for any workers, entries, keys, loads, and clocks that
differ, `Spec => []OneEntryPerKey`, `Spec => RoomIsFair` and `Spec => []Counted`. The
inductive invariant `DictInv` (a theorem of its own) says

* the types (`TypeOK`); the LRU queue holds each entry once, `recent` each key;
* a worker outside the lock points into the zone (`PointersSound`), and serves what was
  offered (`AsOffered`);
* two entries of the queue are of different keys (`OneKey`);
* of two entries, the one nearer the head was looked up or stored later
  (`RecentAgrees`), which is what makes the entry at the tail the least recently used.

What a section does is said once, by `Served`: it leaves the entry of its key in front or
gone and the others as they were and in their order, and whatever else it took out was
stale or, if it may swap, behind all that stayed. What may not swap (`MakesNoRoom`) are
the gets, the removals and the safe forms, and an add that is refused because its key
lives (`LiveIsFound`) or a replace whose key is not there (`AbsentIsDeclined`); a replace
by a value of another size does swap. `Served` is proved of the expiry, the
look-up, the insertion with its retries and their combinations, and the two
safety properties follow from it. `Counted` adds `CountersHeld`: the entry
of a counter that no request removes is in the queue, does not expire and holds what it
was told to, and whoever is about to add holds a pointer to that very entry. It is about
loads with counters stored before that only incr and decr touch (`LeavesCounters`, the
precondition of the property); an increment of a key that is not there is not atomic.

It also proves about NgxCycle, for any finite table, any configurations and any sequence
of signals and mishaps, `CycleSpec => []PidFilesTell` and `[]NoneLeftBehind`. The inductive
invariant `CycleInv` says that the table is sound (`Sound`: free places are empty, what was
waited for is dead, a new binary is not respawned), that the names of the pid files and
the place of the new binary follow `ngx_new_binary` (`PidsTell`), and that `live` is 0 only
when no child of this master lives (`LiveTells`). The last two are conditional, as the
properties are: a second new binary next to the first loses the names, and workers
started next to a new binary do not set `live`. A pass of the loop is proved branch after
branch in the order of the code: each branch leaves names and lives alone
(`Undisturbed`), or changes both as `PidsTell` and `LiveTells` say (`Passed`, `Carried`).

`CycleSpec /\ []RoomLeft => []NeverShort` needs a second invariant, `CrewInv`: while the
master stays and no mishap made a respawn hopeless, there are as many processes of the
current configuration that nobody sent away as it has workers, or the master stopped
accepting or owes a restart (`Full`); whoever died was waited for or SIGCHLD is pending;
and who was waited for will be reaped (`reap`). It is about what the master
believes (`Crew`), the property about what lives (`Serving`): at rest they are the
same. A reload starts the new workers, told apart by `just_spawn`, before it sends the old
ones away, and the count holds of the new ones alone (`SpawnEachCounts`). The hypothesis
`RoomLeft`, that the table has a free place for each configured worker, is not decoration:
where the table is full `ngx_spawn_process` returns NGX_INVALID_PID, and
`ngx_start_worker_processes` does not look. With a table of three places instead of five
TLC finds a reload of two workers that starts one and sends both old ones away.
`NGX_MAX_PROCESSES` is 1024. The run has no such hypothesis: none of its requests fills
five places with workers that are missed.

`RepairsSound` and `AnswerVersionIsMax` are proved and have no run of their own; `TypeOK`
of `ShmDict` is a part of `DictInv`. The type invariant of `MqDoTask` and `StatTypeOK` of
`MqStat` state the types for a reader, and no run spends time on them.

Only model-checked: liveness (`AllAnswered`, `EveryoneAnswered`, `QueueReopens`,
`ContextsComeBack`, `RoomAgain`, `EndingsEnd`, `OldOnesGo`, `EveryRequestEnds`) and ENABLED,
which the prover does not handle. Every other property of a passing run is stated by a theorem.
The theorem about `ItemsAsSaid` is of `MqStat`'s own
specification; that `MqLongPoll` changes the dictionary only by `Merge` is plain from its
`Next`, and `RouteInv` has it for `MqRoute`. Operators that take an operator
(`SelectSeq`, `MapThenSumSet`) cannot be expanded in a proof, so the modules that are
proved about unlink from lists by `RemoveFirst`, count by `Cardinality` and add up by a
recursive function (`SumOf`), whose values at any length follow from `HasLeast`.

## 6. Code and documentation disagree

A run shows a violation:

* fetch_stat_late: `__post_upstream` tests whether the timer of the context is
  set ("already timeout"), which it is again if the context serves another
  round.

Seen while modelling, followed as the code has them, without a run:

* `LC/ngx_shm_dict.c:174`: `ngx_shm_dict_flush_expired` returns on an empty queue
  with the mutex it took at line 171; every process that uses the zone then
  waits for ever. `/flush_expired` of hustdict does it while nothing is
  stored. `ShmDict!FlushExpired` leaves the mutex taken then.
* `HM/hustmq_ha_do_get_handler.c:95`: the token of a slot stays known after a
  timeout, and the slot is reused; the result of the old task answers the new
  request.
* `HB/hustdb_ha_write_handler.c:200-204`: the table in the comment answers 200
  when one master's error is skipped and the other succeeds; the code
  (line 212) answers 404.
* `LC/ngx_shm_dict_writer.c:162`: `exptime * 1000` is a 32-bit product, so a
  term of 49.7 days or more is cut, against
  `doc/en/appendix/hustdict/set.md:28`.
* `HM/hustmq_ha_stat_def.c:188`: `queue_items` starts at zero with each merge,
  so `max_queue_size` bounds the queues one merge adds and not the dictionary.

* `HM/hustmq_ha_put_handler.c:36`, `HM/hustmq_ha_get_handler.c:49` and others test
  `dict.ref` for whether there are statistics, but it is the result of the last
  lookup of any queue (`LC/c_dict.h:37`): after one of an unknown queue a put to
  a locked or full queue is let through, and a get asks hosts that have nothing.
* `HM/hustmq_ha_put_handler.c:88`: a put that failed at its hash peer never
  tries the hosts before it in the list.
* `HM/hustmq_ha_get_handler.c:184`: a message that came without its Ack-Token is
  answered 404, though the host has handed it out.
* `HM/hustmq_ha_get_handler.c:30`: get does not look at whether an item is valid,
  so it may ask a host that has dropped the queue.
* `HM/hustmq_ha_handler_filter.c:151`: beyond `MAX_QUEUE_ITEM_NUM` an index after
  the last message is accepted (`MqContextProofs!BeyondIsAcceptedLater`), so evsub is
  redirected and sub asks a host in vain.

* `HM/hustmq_ha_autost_handler.c:142`: the request merges what its hosts said one
  after the other when the last has answered, which may be older than a round that
  was merged meanwhile.
* `HM/hustmq_ha_peer_def.c:158`: the tables of peers have room for as many as
  nginx.conf has server lines, and are filled with one peer for each address; a
  number that is none decodes to host 0.
* `HM/hustmq_ha_worker_def.c:75`: at the limit the function returns and so drops
  the rest of this host's array, also the workers that are known already.
* `HM/hustmq_ha_worker_handler.c`, `HM/hustmq_ha_autost_handler.c`: answers are kept in
  buffers of the process which the next request rewrites while they are sent.

* `samples/hustdbha/nginx/src/os/unix/ngx_process_cycle.c:303`: a HUP while a new
  binary runs starts workers without setting `live`, which is 0 once the old workers
  went: a master told to end right then exits and leaves them.
* The same file, line 118: a worker's request for a restart is taken while a new
  binary is there, so a second one is executed and the names of the pid files are
  lost. The two timers of a restart (lines 87 and 95) end workers and master
  without looking whether the new binary came up. They share SIGALRM with
  the master's own delays (line 77): after a restart was asked for, a TERM is
  never turned into KILL, and a WINCH just then stops the chain.
* `LH/ngx_http_peer_selector_module.c:89`: this get does not clear `pc->cached`
  as the round robin's does, and an error on a connection from the cache costs no
  try: a request to a chosen peer that is down may go on for ever once it met an
  idle connection. `EveryRequestEnds` and `AllAnswered` are about all other requests;
  the models have that one as a behaviour (`NgxUpstream!Again`, `HaCommand!Retried`).
* `LH/ngx_http_fetch_keepalive.c:164`: a fetch that was handed a peer counts in its
  `conns` (line 34), and a connection that is kept returns before the peer is freed. The
  statistics of hustmqha name a peer for each fetch (`HM/hustmq_ha_fetch_stat.c:191`), so
  a peer with `max_conns` becomes full for ever, for every request. `ConnsCounted` and its
  theorem say exactly what `conns` holds: the requests at the peer, and these.
* `LH/ngx_http_fetch.c:283`: a fetch whose request was created but cannot be filled in
  does not return its connection object to the pool.
* `LH/ngx_http_fetch_keepalive.c:93`: a cached connection that the backend closed
  stays in the cache until a fetch tries it.
* `HB/hustdb_ha_sync_handler.c:73`: `main->count` is incremented after
  `ngx_http_fetch`, which may have ended the request already.

* `HB/hustdb_ha_table_def.c:98`: the read list of the high half of a split range
  names the low half's second master twice and its first one never
  (`HaTable!HighPart`).
* `HB/hustdb_ha_table_checker.c:158`: a first element that is also the last need not
  end where the hashes end, so a table of one element may pass the check with a gap
  (`HaTable!Connected`).
* `HB/hustdb_ha_read2_handler.c:215`: sismember2 compares versions only, so two
  masters that took the same number of different writes agree.
* `HB/hustdb_ha_read2_handler.c:40`: the version kept is replaced only if the
  answer has a Version header (`HaCommand!Version2`); without it master1's is compared
  with itself. That a backend's 200 to a read carries its version is assumed of the
  backend (`BackendAnswers`).
* `HM/hustmq_ha_put_handler.c:75`: a put that is left to nginx is sent again after a
  failure, and nginx may choose the same host, which may have stored it and failed late.

## 7. Not modelled

* Sync forwarding of hustdbha (one fetch passed through; what fetch does with its
  connection is in NgxUpstream).
* The format of the table file and of nginx.conf. In HaTable the range of an
  element in the middle may pass the end of the hashes; in the C code that
  writes beyond the array, and no posted table of the run does it.
* JSON, the C dictionary, RSA and base64, argument parsing, hustlog, basic
  auth: conversions or input and output.
* nginx itself, but for its master process and the patched round robin: modelled
  only as what the modules rely on (timers, callbacks, the completion of
  subrequests, signals). In NgxCycle: `single` mode, reopening of logs, and what
  `ngx_init_cycle` does with a configuration it accepts. In RoundRobin: peers
  resolved while nginx runs (`create_round_robin_peer`) and TLS sessions.
* The generators `ngx_wizard`, `jsoncgen`, `hustngx.py`, `deploygen`: scripts
  run by hand.
* Allocation failure in a request's pool, which ends the request in all
  handlers alike.

## 8. Plan

In order of importance; what exists is listed first.

1. `HaWrite` refines `ReplicatedWrite` (done, proved).
2. `ShmDict` (done), `MqDoTask` (done), `MqPublish` (done, proved),
   `HaSetTable` (done), `MqFetchStat` (done), `MqStat` with `MqLongPoll`
   (done).
3. `HaCommand`: the failover read, the read of both masters and the cached
   write, beside `HaWrite`, so that a read can be related to the acknowledged
   writes (done).
4. `MqRoute`: put, get and the request loop over `MqStat` (done).
5. `MqIndex`: the arithmetic of message indexes around their cycle, as
   operators with theorems (done, proved).
6. `HaTable`: the check of a posted table and the hash table built from it,
   under `HaSetTable` (done, proved).
7. Fetch's keepalive pool, the selector and the patched round robin
   (`NgxUpstream`, `RoundRobin`), the statistics of workers and statistics on
   demand (`MqWorkers`, `MqRoute`), the master process (`NgxCycle`) (done).
8. A worker of hustmqha that composes `MqFetchStat` and `MqStat`: the late
   merges of the former as input of the latter.
9. Proofs of every safety and action property the runs check (done, section 5). A
   composition as in 8 would inherit `StatInv` and `FitInv`.

Runs are kept to one per question. When a new component needs a run, an
invariant that has been proved can give up its own, as `LiveQueueStays` did.
