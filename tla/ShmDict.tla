------------------------------- MODULE ShmDict -------------------------------
(***************************************************************************)
(* The shared-memory dictionary of lib_hustngx (ngx_shm_dict*.c): one zone *)
(* of chunks that every nginx worker process maps, an index and a queue of *)
(* the entries from the most to the least recently used, one mutex.        *)
(*                                                                         *)
(* A section of code between lock and unlock is one step.  What runs       *)
(* outside the lock is a step of its own: the use of the pointer into the  *)
(* zone that ngx_shm_dict_get returns, and the second half of an incr on a *)
(* missing key.                                                            *)
(***************************************************************************)
EXTENDS Integers, Sequences, FiniteSets, FiniteSetsExt, SequencesExt

CONSTANTS
    Workers,    \* nginx worker processes
    Keys,
    Types,      \* value types
    Size,       \* [Types -> Nat]: bytes of a value
    Guarded,    \* types whose addition takes the lock (double)
    Slots,      \* chunks of the zone
    NoSlot,
    Fits,       \* pairs <<type, chunk>>: the slab class of the chunk serves the type
    Loads,      \* what to look at: [offered, preset], see Load
    Modulus,    \* 2^w for counters of w bits
    Second,     \* clock units in a second
    Wrap,       \* 2^32: `exptime * 1000` is an unsigned 32-bit product
    MaxNow,     \* bound: the clocks stop there
    Tries       \* evictions one store attempts (30 in the code)

Ops == {"get", "del", "set", "safe_set", "add", "safe_add", "replace",
        "incr", "decr", "flush_all", "flush_expired", "keys"}

Request == [op : Ops, key : Keys, type : Types, val : 0 .. Modulus - 1, exp : Nat]

Entry == [key : Keys, type : Types, val : 0 .. Modulus - 1, expires : Nat]

\* The requests workers may be given, and what the zone holds before.
Load == [offered : SUBSET Request, preset : UNION {[ss -> Entry] : ss \in SUBSET Slots}]

ASSUME ShmDictAssumption ==
    /\ Size \in [Types -> Nat]
    /\ Guarded \subseteq Types
    /\ IsFiniteSet(Slots)
    /\ NoSlot \notin Slots
    /\ Fits \subseteq Types \X Slots
    /\ \A l \in Loads :
          /\ l.offered # {} /\ l.offered \subseteq Request
          /\ DOMAIN l.preset \subseteq Slots
          /\ \A s \in DOMAIN l.preset : l.preset[s] \in Entry
          /\ \A s, r \in DOMAIN l.preset : l.preset[s].key = l.preset[r].key => s = r
    /\ Modulus \in Nat \ {0}
    /\ Second \in Nat \ {0}
    /\ Wrap \in Nat \ {0}
    /\ MaxNow \in Nat
    /\ Tries \in Nat \ {0}

VARIABLES
    load,       \* the member of Loads this behavior is about
    locked,     \* the mutex was left held by a section that returned
    clock,      \* [Workers -> Nat]: the time each process has cached
    queue,      \* chunks of the entries, the most recently used first
    mem,        \* what the chunks hold; a freed chunk keeps its bytes
    job,        \* [Workers -> Job]: the request a worker serves and where it is
    reply,      \* [Workers -> Reply]: the last answer
    counted,    \* auxiliary: the value each key was last told to hold
    recent      \* auxiliary: the keys held, the last one looked up or stored first

vars == <<load, locked, clock, queue, mem, job, reply, counted, recent>>

\* A worker holds a pointer to `slot` after it has left the lock.
Job == [pc : {"idle", "call", "copy", "add", "absent"}, req : Request,
        slot : Slots \cup {NoSlot}]

Reply == [rc : {"OK", "ERROR", "NONE"}, val : 0 .. Modulus - 1]

NoReply == [rc |-> "NONE", val |-> 0]

Idle == [pc |-> "idle", req |-> CHOOSE r \in load.offered : TRUE, slot |-> NoSlot]

Held(q) == Range(q)

\* Faulty variant: a hit does not move the entry.
KeepPlace(q, s) == q

ToHead(q, s) == <<s>> \o RemoveFirst(q, s)

\* Faulty variant: the old node stays in the queue.
LeaveLinked(q, s) == q

Without(q, s) == RemoveFirst(q, s)

\* What is left of a list, in its order, when only the members of E stay.
Kept(q, E) ==
    LET kept[i \in 0 .. Len(q)] ==
            IF i = 0 THEN <<>>
            ELSE IF q[i] \in E THEN Append(kept[i - 1], q[i]) ELSE kept[i - 1]
    IN  kept[Len(q)]

\* Faulty variant: 0 is a term like any other.
StaleWithoutTerm(e, t) == e.expires <= t

\* Stale for ngx_shm_dict_expire and flush_expired: the term has been reached.
Stale(e, t) == e.expires # 0 /\ e.expires <= t

\* ngx_shm_dict_lookup is one tick more patient.
Done(e, t) == e.expires # 0 /\ e.expires < t

\* Faulty variant: the loop counts before it tests.
StopsOneLater(n, i, e, t) == n + i # 2 /\ ~Stale(e, t)

\* The i-th entry from the tail stops ngx_shm_dict_expire(n): the loop counts on
\* from n, and takes the entry it finds at 0 by force.
Stops(n, i, e, t) == n + i # 1 /\ ~Stale(e, t)

\* ngx_shm_dict_expire: what is left when at most 3 - n entries went.
Expire(m, q, n, t) ==
    LET Goes(k) == \A i \in 1 .. k : ~Stops(n, i, m[q[Len(q) + 1 - i]], t)
        may == {k \in 0 .. Len(q) : k <= 3 - n /\ Goes(k)}
        freed == CHOOSE k \in may : \A j \in may : j <= k
    IN  SubSeq(q, 1, Len(q) - freed)

Indexed(q, k) == {s \in Held(q) : mem[s].key = k}

\* ngx_shm_dict_lookup: NGX_DECLINED, NGX_DONE or NGX_OK, and the entry.
Lookup(q, k, t) ==
    IF Indexed(q, k) = {}
    THEN [rc |-> "DECLINED", slot |-> NoSlot, q |-> q]
    ELSE LET s == CHOOSE s \in Indexed(q, k) : TRUE
         IN  [rc |-> IF Done(mem[s], t) THEN "DONE" ELSE "OK",
              slot |-> s, q |-> ToHead(q, s)]

\* Chunks ngx_slab_alloc_locked can return for a value of this type.
Free(q, type) == {s \in Slots \ Held(q) : <<type, s>> \in Fits}

\* `exptime * 1000` is computed in 32 bits, whatever it is added to.
Expires(exp, t) == IF exp > 0 THEN t + ((exp * Second) % Wrap) ELSE 0

NewEntry(r, t) ==
    [key |-> r.key, type |-> r.type, val |-> r.val,
     expires |-> Expires(r.exp, t)]

\* What is left of the queue after 0, 1, .. Tries evictions.
Evicted(q, t) ==
    LET left[i \in 0 .. Tries] ==
            IF i = 0 THEN q
            ELSE IF left[i - 1] = <<>> THEN <<>> ELSE Expire(mem, left[i - 1], 0, t)
    IN  left

Present(q, m) == {m[s].key : s \in Held(q)}

Unlock == locked' = FALSE

Touch(k) ==
    recent' = Kept(<<k>> \o RemoveFirst(recent, k), Present(queue', mem'))

Forget == recent' = Kept(recent, Present(queue', mem'))

Answer(w, rc, val) ==
    /\ job' = [job EXCEPT ![w] = Idle]
    /\ reply' = [reply EXCEPT ![w] = [rc |-> rc, val |-> val]]

-----------------------------------------------------------------------------

Arrive(w) ==
    /\ job[w].pc = "idle"
    /\ \E r \in load.offered : job' = [job EXCEPT ![w].pc = "call", ![w].req = r]
    /\ reply' = [reply EXCEPT ![w] = NoReply]
    /\ UNCHANGED <<locked, clock, queue, mem, counted, recent>>

\* A process refreshes its cached time on its own.
Tick(w) ==
    /\ clock[w] < MaxNow
    /\ clock' = [clock EXCEPT ![w] = @ + 1]
    /\ UNCHANGED <<locked, queue, mem, job, reply, counted, recent>>

Flags(op) ==
    CASE op = "del" -> {"DELETE"}
      [] op = "replace" -> {"REPLACE"}
      [] op = "add" -> {"ADD"}
      [] op = "safe_add" -> {"ADD", "SAFE"}
      [] op = "safe_set" -> {"SAFE"}
      [] OTHER -> {}

Refuses(flags, rc) ==
    \/ rc # "OK" /\ flags \cap {"DELETE", "REPLACE"} # {}
    \/ rc = "OK" /\ "ADD" \in flags

\* The entry goes into chunk s, at the head of what is left of the queue.
Insert(w, r, s, q) ==
    /\ queue' = <<s>> \o q
    /\ mem' = [mem EXCEPT ![s] = NewEntry(r, clock[w])]
    /\ counted' = [counted EXCEPT ![r.key] = r.val]
    /\ Answer(w, "OK", r.val)

\* The label `insert` of set_impl: a chunk, or evictions until there is one.
Allocate(w, r, flags, q) ==
    LET left == Evicted(q, clock[w])
        Suffices(i) == Free(left[i], r.type) # {}
    IN  \/ \E s \in Free(q, r.type) : Insert(w, r, s, q)
        \/ /\ Free(q, r.type) = {}
           /\ "SAFE" \in flags
           /\ queue' = q
           /\ Answer(w, "ERROR", 0)
           /\ UNCHANGED <<mem, counted>>
        \/ /\ Free(q, r.type) = {}
           /\ "SAFE" \notin flags
           /\ \E i \in 1 .. Tries :
                 /\ \A j \in 1 .. i - 1 : ~Suffices(j)
                 /\ \E s \in Free(left[i], r.type) : Insert(w, r, s, left[i])
        \/ /\ "SAFE" \notin flags
           /\ \A i \in 0 .. Tries : ~Suffices(i)
           /\ queue' = left[Tries]
           /\ Answer(w, "ERROR", 0)
           /\ UNCHANGED <<mem, counted>>

\* ngx_shm_dict_set_impl, one locked section.
SetImpl(w, r, flags) ==
    LET seen == Lookup(Expire(mem, queue, 1, clock[w]), r.key, clock[w])
        accepted == ~Refuses(flags, seen.rc) /\ "DELETE" \notin flags
        Reuses == /\ seen.rc # "DECLINED"
                  /\ Size[mem[seen.slot].type] = Size[r.type]
    IN  /\ ~locked
        /\ \/ /\ Refuses(flags, seen.rc)
              /\ queue' = seen.q
              /\ Answer(w, "ERROR", 0)
              /\ UNCHANGED <<mem, counted>>
           \/ /\ "DELETE" \in flags
              /\ ~Refuses(flags, seen.rc)
              /\ queue' = Without(seen.q, seen.slot)
              /\ Answer(w, "OK", 0)
              /\ UNCHANGED <<mem, counted>>
           \/ /\ accepted
              /\ Reuses
              /\ Insert(w, r, seen.slot, Without(seen.q, seen.slot))
           \/ /\ accepted
              /\ ~Reuses
              /\ Allocate(w, r, flags, Without(seen.q, seen.slot))
        /\ Touch(r.key)
        /\ Unlock
        /\ UNCHANGED clock

\* ngx_shm_dict_set and its siblings, ngx_shm_dict_delete.
Store(w) ==
    /\ job[w].pc = "call"
    /\ job[w].req.op \in {"set", "safe_set", "add", "safe_add", "replace", "del"}
    /\ SetImpl(w, job[w].req, Flags(job[w].req.op))

\* ngx_shm_dict_get; the caller copies from, or adds at, the pointer later.
Get(w) ==
    LET r == job[w].req
        seen == Lookup(Expire(mem, queue, 1, clock[w]), r.key, clock[w])
    IN  /\ job[w].pc = "call"
        /\ r.op \in {"get", "incr", "decr"}
        /\ ~locked
        /\ queue' = seen.q
        /\ UNCHANGED <<clock, mem, counted>>
        /\ Touch(r.key)
        /\ Unlock
        /\ \/ /\ seen.rc = "OK"
              /\ mem[seen.slot].type = r.type
              /\ job' = [job EXCEPT ![w].slot = seen.slot,
                             ![w].pc = IF r.op = "get" THEN "copy" ELSE "add"]
              /\ UNCHANGED reply
           \/ /\ seen.rc = "OK"
              /\ mem[seen.slot].type # r.type
              /\ Answer(w, "ERROR", 0)
           \/ /\ seen.rc # "OK"
              /\ r.op = "get"
              /\ Answer(w, "ERROR", 0)
           \/ /\ seen.rc # "OK"
              /\ r.op # "get"
              /\ job' = [job EXCEPT ![w].pc = "absent"]
              /\ UNCHANGED reply

\* ngx_shm_dict_get_base: the value is read after the unlock.
Copy(w) ==
    /\ job[w].pc = "copy"
    /\ Answer(w, "OK", mem[job[w].slot].val)
    /\ UNCHANGED <<locked, clock, queue, mem, counted, recent>>

\* The decr functions subtract the delta.
Delta(r) == IF r.op = "decr" THEN (Modulus - r.val) % Modulus ELSE r.val

Add(a, b) == (a + b) % Modulus

\* __sync_add_and_fetch, or the locked addition of a double.
AddAndFetch(w) ==
    LET r == job[w].req
        sum == Add(mem[job[w].slot].val, Delta(r))
    IN  /\ job[w].pc = "add"
        /\ r.type \in Guarded => ~locked
        /\ mem' = [mem EXCEPT ![job[w].slot].val = sum]
        /\ counted' = [counted EXCEPT ![r.key] = (@ + Delta(r)) % Modulus]
        /\ Answer(w, "OK", sum)
        /\ UNCHANGED <<locked, clock, queue, recent>>

\* The key was missing: the delta becomes its value, by a decr too with its own
\* sign.
StoreDelta(w) ==
    /\ job[w].pc = "absent"
    /\ SetImpl(w, job[w].req, {})

\* ngx_shm_dict_flush_all: everything expires, at most three entries go.
FlushAll(w) ==
    LET flushed == [s \in Slots |-> IF s \in Held(queue)
                                    THEN [mem[s] EXCEPT !.expires = 1]
                                    ELSE mem[s]]
    IN  /\ job[w].pc = "call"
        /\ job[w].req.op = "flush_all"
        /\ ~locked
        /\ mem' = flushed
        /\ queue' = Expire(flushed, queue, 0, clock[w])
        /\ Forget
        /\ Answer(w, "OK", 0)
        /\ Unlock
        /\ UNCHANGED <<clock, counted>>

\* ngx_shm_dict_flush_expired: stale entries from the tail, at most `exp` of
\* them when the count is not 0.  On an empty queue it returns inside the lock.
FlushExpired(w) ==
    LET r == job[w].req
        StaleAt(i) == Stale(mem[queue[i]], clock[w])
        Behind(i) == Cardinality({j \in i + 1 .. Len(queue) : StaleAt(j)})
        goes == {queue[i] : i \in {j \in DOMAIN queue :
                              StaleAt(j) /\ (r.exp = 0 \/ Behind(j) < r.exp)}}
    IN  /\ job[w].pc = "call"
        /\ r.op = "flush_expired"
        /\ ~locked
        /\ locked' = (queue = <<>>)
        /\ queue' = Kept(queue, Held(queue) \ goes)
        /\ Answer(w, "OK", 0)
        /\ UNCHANGED <<clock, mem, counted>>
        /\ Forget

\* ngx_shm_dict_get_total_keys: the entries that are not stale (exp = 0), or all.
GetTotalKeys(w) ==
    LET r == job[w].req
        total == Cardinality({s \in Held(queue) : r.exp = 1 \/ ~Stale(mem[s], clock[w])})
    IN  /\ job[w].pc = "call"
        /\ r.op = "keys"
        /\ ~locked
        /\ Answer(w, "OK", total % Modulus)
        /\ Unlock
        /\ UNCHANGED <<clock, queue, mem, counted, recent>>

Run(w) ==
    \/ Store(w)
    \/ Get(w)
    \/ Copy(w)
    \/ AddAndFetch(w)
    \/ StoreDelta(w)
    \/ FlushAll(w)
    \/ FlushExpired(w)
    \/ GetTotalKeys(w)

Blank == [key |-> CHOOSE k \in Keys : TRUE, type |-> CHOOSE y \in Types : TRUE,
          val |-> 0, expires |-> 0]

\* ngx_shm_dict_init_zone on a fresh zone, and the entries stored before.  The
\* time of day is beyond 1, the term flush_all gives.
Init ==
    /\ load \in Loads
    /\ locked = FALSE
    /\ clock = [w \in Workers |-> 2]
    /\ queue \in SetToSeqs(DOMAIN load.preset)
    /\ mem = [s \in Slots |-> IF s \in DOMAIN load.preset THEN load.preset[s] ELSE Blank]
    /\ job = [w \in Workers |-> Idle]
    /\ reply = [w \in Workers |-> NoReply]
    /\ counted = [k \in Keys |->
                     LET at == {s \in DOMAIN load.preset : load.preset[s].key = k}
                     IN  IF at = {} THEN 0 ELSE load.preset[CHOOSE s \in at : TRUE].val]
    /\ recent = [i \in DOMAIN queue |-> mem[queue[i]].key]

Next == (\E w \in Workers : Arrive(w) \/ Tick(w) \/ Run(w)) /\ load' = load

\* A worker that has a request goes on with it.
Fairness == \A w \in Workers : WF_vars(Run(w) /\ load' = load)

Spec == Init /\ [][Next]_vars /\ Fairness
-----------------------------------------------------------------------------

TypeOK ==
    /\ load \in Loads
    /\ locked \in BOOLEAN
    /\ clock \in [Workers -> Nat]
    /\ queue \in Seq(Slots)
    /\ mem \in [Slots -> Entry]
    /\ job \in [Workers -> Job]
    /\ reply \in [Workers -> Reply]
    /\ counted \in [Keys -> 0 .. Modulus - 1]
    /\ recent \in Seq(Keys)

\* The index and the queue agree: no chunk is queued twice and no key has two
\* entries, whatever expires, is evicted, replaced or stored meanwhile.
OneEntryPerKey ==
    \A i, j \in DOMAIN queue :
        mem[queue[i]].key = mem[queue[j]].key => i = j

Live(q, m, t) == 
    {m[s].key : s \in {s \in Held(q) : m[s].expires = 0 \/ m[s].expires > t}}

Older(k, l) ==
    \A i, j \in DOMAIN recent : recent[i] = k /\ recent[j] = l => j < i

Acts(w) == job[w].pc # "idle" /\ job'[w] # job[w]

\* A request that makes room (set_impl's forced ngx_shm_dict_expire) drops live
\* entries of other keys only from the least recently used on.
EvictsOldest(w) ==
    job[w].req.op # "flush_all" =>
        \A k \in Live(queue, mem, clock[w]) \ {job[w].req.key} :
            \/ k \in Live(queue', mem', clock[w])
            \/ \A l \in Live(queue', mem', clock[w]) \ {job[w].req.key} : Older(k, l)

\* What the request asks cannot make room: a get, a removal, the safe forms, an
\* add of a key that is live, a replace of one that is not there.
MakesNoRoom(w) ==
    LET r == job[w].req IN
    \/ r.op \in {"get", "del", "safe_set", "safe_add", "flush_expired"}
    \/ r.op = "add" /\ r.key \in Live(queue, mem, clock[w])
    \/ r.op = "replace" /\ r.key \notin Present(queue, mem)

\* Such a request costs no other key its live entry.
SafeDoesNotSwap(w) ==
    MakesNoRoom(w) =>
        Live(queue, mem, clock[w]) \ {job[w].req.key} \subseteq Live(queue', mem', clock[w])

\* Room is made at the expense of the least recently used entries, and only for
\* requests that may swap: a set, an incr, an add of a key that is not live, and
\* a replace, whose value of another size ngx_shm_dict_set_impl inserts anew.
\* flush_all, which drops everything, is set apart.
RoomIsFair == [][\A w \in Workers : Acts(w) => EvictsOldest(w) /\ SafeDoesNotSwap(w)]_vars

\* What is in the zone at first are counters that do not expire, and no request
\* deletes or stores one of them, or makes room at the expense of others.
LeavesCounters ==
    LET counters == {load.preset[s].key : s \in DOMAIN load.preset}
    IN  /\ \A s \in DOMAIN load.preset : load.preset[s].expires = 0
        /\ \A r \in load.offered :
              /\ r.op \notin {"set", "add", "replace", "flush_all"}
              /\ r.op \in {"del", "safe_set"} => r.key \notin counters
              /\ r.op \in {"incr", "decr"} => r.key \in counters

\* A counter that was stored before, and that no request deletes or replaces,
\* keeps every increment of every worker although they are added through a
\* pointer that outlives the lock, while other keys come, expire and go.
Counted ==
    LeavesCounters =>
        \A s \in DOMAIN load.preset :
            \E r \in Held(queue) :
                mem[r].key = load.preset[s].key /\ mem[r].val = counted[load.preset[s].key]
=============================================================================
