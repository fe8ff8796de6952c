----------------------------- MODULE HaSetTable -----------------------------
(***************************************************************************)
(* Replacement of hustdbha's hash table while it runs                      *)
(* (hustdb_ha_set_table_handler.c, hustdb_ha_table_setter.c,               *)
(* hustdb_ha_conf_setter.c).  A client asks for an identifier and posts    *)
(* the new table with it; the worker that takes the identifier locks the   *)
(* table in shared memory, replaces the table file and the upstream block  *)
(* of nginx.conf, and asks the master for a new instance.  The lock is     *)
(* left held then: the new instance starts with a fresh zone.              *)
(*                                                                         *)
(* The workers are processes: a section under the zone's mutex is a step,  *)
(* and so is each operation on a file, which may fail, or be the last one  *)
(* of a process that dies.                                                 *)
(***************************************************************************)
EXTENDS HaTable, SequencesExt

CONSTANTS
    Workers,    \* nginx worker processes
    Slots,      \* identifiers the shared pool has room for
    Timeout,    \* identifier_timeout
    FirstTable, \* the table of the first instance
    Tables,     \* what clients post
    MaxNow, MaxId, MaxTable, MaxCrash   \* bounds

\* A file that is not there; a table without elements is never accepted.
Missing == <<>>

\* The upstream block of nginx.conf, in a tuple since the file may be missing.
Upstream(t) == <<Backends(t)>>

ASSUME SetTableAssumption ==
    /\ IsFiniteSet(Slots)
    /\ Timeout \in Nat \ {0}
    /\ {MaxNow, MaxId, MaxTable, MaxCrash} \subseteq Nat
    /\ Tables \subseteq Table
    /\ FirstTable \in Table /\ Builds(FirstTable, Backends(FirstTable))

VARIABLES
    cache,      \* cache_identifier, head first
    free,       \* free_identifier, head first
    ident,      \* [Slots -> [id, exptime]]
    locked,     \* table_locked
    table, tableDel,    \* the tables in the table file and its .del copy
    conf, confDel,      \* the backends that nginx.conf and its .del copy list
    peers,      \* the backends of the running instance
    signalled,  \* the master was asked for a new instance
    job,        \* [Workers -> what the worker's set_table request does next]
    now,        \* the time in seconds
    last,       \* the identifier of the last instant
    posted,     \* requests with a table so far
    crashes,
    spent       \* auxiliary: slots with the identifiers that were freed in them

pool == <<cache, free, ident>>
files == <<table, tableDel, conf, confDel>>
counts == <<now, last, posted, crashes>>
vars == <<pool, locked, files, peers, signalled, job, counts, spent>>

Pcs == {"idle", "matched", "freed", "write", "keep", "place", "rollback",
        "backends", "keepconf", "placeconf", "signal", "failed", "gone"}

\* Between hustdb_ha_lock_table and the end of the work it protects.
Writing == {"write", "keep", "place", "rollback", "backends", "keepconf",
            "placeconf", "signal"}

Job == [pc : Pcs, slot : Slots, id : 0 .. MaxId, table : Tables \cup {Missing}]

NoJob == [pc |-> "idle", slot |-> CHOOSE s \in Slots : TRUE, id |-> 0, table |-> Missing]

GoTo(w, pc) == job' = [job EXCEPT ![w].pc = pc]

\* __match_id.
Match(id) == {s \in Range(cache) : ident[s].id = id}

\* __refresh_expired frees the first identifier, from the head, that is over.
Expired == {i \in DOMAIN cache : ident[cache[i]].exptime > 0 /\ now > ident[cache[i]].exptime}

Refreshed ==
    IF Expired = {} THEN [cache |-> cache, free |-> free, ident |-> ident]
    ELSE LET s == cache[CHOOSE i \in Expired : \A j \in Expired : i <= j]
         IN  [cache |-> RemoveFirst(cache, s), free |-> <<s>> \o free,
              ident |-> [ident EXCEPT ![s].exptime = 0]]

\* Faulty variant: the slot is put into the free list without leaving its own.
MoveToFreeLinked(s) ==
    /\ free' = <<s>> \o free
    /\ cache' = cache

\* __free_identifier, from whichever list holds the slot.
MoveToFree(s) ==
    /\ free' = <<s>> \o RemoveFirst(free, s)
    /\ cache' = RemoveFirst(cache, s)

-----------------------------------------------------------------------------

\* __generate_identifier, under the mutex, for an identifier that is the time
\* in microseconds: the one of the last instant again, or a later one.  An
\* answer other than 200 leaves the lists as the refresh made them.
GenerateIdentifier ==
    /\ \E w \in Workers : job[w].pc = "idle"
    /\ LET lists == Refreshed
           taken == {s \in Range(lists.cache) : lists.ident[s].id > 0}
       IN  \E id \in {last, last + 1} \ {0} :
             /\ id <= MaxId
             /\ last' = id
             /\ \/ /\ \/ \E s \in taken : lists.ident[s].id = id  \* NGX_HTTP_CONFLICT
                      \/ lists.free = <<>>                        \* NGX_HTTP_NOT_FOUND
                      \/ lists.free # <<>>      \* rsa fails: NGX_HTTP_NOT_ALLOWED
                   /\ cache' = lists.cache
                   /\ free' = lists.free
                   /\ ident' = lists.ident
                   /\ UNCHANGED spent
                \/ /\ \A s \in taken : lists.ident[s].id # id
                   /\ lists.free # <<>>
                   /\ LET s == Head(lists.free)
                      IN  /\ cache' = <<s>> \o lists.cache
                          /\ free' = Tail(lists.free)
                          /\ ident' = [lists.ident EXCEPT
                                         ![s] = [id |-> id, exptime |-> now + Timeout]]
                   /\ spent' = spent \ {<<Head(lists.free), id>>}
             /\ UNCHANGED <<peers, locked, files, signalled, job, now, posted, crashes>>

\* A post with an identifier: the first section looks it up.
PostTable(w) ==
    /\ job[w].pc = "idle"
    /\ posted < MaxTable
    /\ posted' = posted + 1
    /\ \E id \in 1 .. last, s \in Slots, t \in Tables :
          /\ s \in Match(id)
          /\ job' = [job EXCEPT ![w] = [pc |-> "matched", slot |-> s, id |-> id, table |-> t]]
    /\ UNCHANGED <<peers, pool, locked, files, signalled, now, last, crashes, spent>>

\* The second section frees what the first one found.
FreeIdentifier(w) ==
    /\ job[w].pc = "matched"
    /\ ident' = [ident EXCEPT ![job[w].slot].exptime = 0]
    /\ MoveToFree(job[w].slot)
    /\ spent' = spent \cup {<<job[w].slot, job[w].id>>}
    /\ GoTo(w, "freed")
    /\ UNCHANGED <<peers, locked, files, signalled, counts>>

\* Faulty variant: the flag is set without being looked at.
MayLockAnyway == TRUE

MayLock == ~locked

\* hustdb_ha_lock_table.
LockTable(w) ==
    /\ job[w].pc = "freed"
    /\ \/ /\ MayLock
          /\ locked' = TRUE
          /\ GoTo(w, "write")
       \/ /\ ~MayLock
          /\ job' = [job EXCEPT ![w] = NoJob]
          /\ UNCHANGED locked
    /\ UNCHANGED <<peers, pool, files, signalled, counts, spent>>

\* __save_to_file to .tmp and __check_table on it.
WriteTmp(w) ==
    /\ job[w].pc = "write"
    /\ \/ TRUE \in CheckTable(job[w].table, peers) /\ GoTo(w, "keep")
       \/ GoTo(w, "failed")
    /\ UNCHANGED <<peers, pool, locked, files, signalled, counts, spent>>

\* Faulty variant: .del is rewritten even if there is no table to keep.
KeptBlindly == tableDel' = table /\ table' = Missing

\* rename(table, .del) replaces .del only if there is a table.
Kept == table # Missing /\ tableDel' = table /\ table' = Missing

KeepTable(w) ==
    /\ job[w].pc = "keep"
    /\ \/ /\ Kept
          /\ GoTo(w, "place")
       \/ /\ GoTo(w, "failed")
          /\ UNCHANGED <<table, tableDel>>
    /\ UNCHANGED <<peers, pool, locked, conf, confDel, signalled, counts, spent>>

\* rename(.tmp, table).
PlaceTable(w) ==
    /\ job[w].pc = "place"
    /\ \/ /\ table' = job[w].table
          /\ GoTo(w, "backends")
       \/ /\ GoTo(w, "rollback")
          /\ UNCHANGED table
    /\ UNCHANGED <<peers, pool, locked, tableDel, conf, confDel, signalled, counts, spent>>

\* rename(.del, table).
Rollback(w) ==
    /\ job[w].pc = "rollback"
    /\ GoTo(w, "failed")
    /\ \/ table' = tableDel /\ tableDel' = Missing
       \/ UNCHANGED <<table, tableDel>>
    /\ UNCHANGED <<peers, pool, locked, conf, confDel, signalled, counts, spent>>

\* hustdb_ha_load_backends of the table file, which is the posted table, and
\* the new nginx.conf written to .tmp.
LoadBackends(w) ==
    /\ job[w].pc = "backends"
    /\ GoTo(w, "keepconf") \/ GoTo(w, "failed")
    /\ UNCHANGED <<peers, pool, locked, files, signalled, counts, spent>>

KeepConf(w) ==
    /\ job[w].pc = "keepconf"
    /\ \/ /\ conf # Missing
          /\ confDel' = conf
          /\ conf' = Missing
          /\ GoTo(w, "placeconf")
       \/ /\ GoTo(w, "failed")
          /\ UNCHANGED <<conf, confDel>>
    /\ UNCHANGED <<peers, pool, locked, table, tableDel, signalled, counts, spent>>

\* Faulty variant: the result of hustdb_ha_overwrite_backends is ignored.
NextAfterFailedConf == "signal"

AfterFailedConf == "failed"

\* There is no rollback here.
PlaceConf(w) ==
    /\ job[w].pc = "placeconf"
    /\ \/ /\ conf' = Upstream(job[w].table)
          /\ GoTo(w, "signal")
       \/ /\ GoTo(w, AfterFailedConf)
          /\ UNCHANGED conf
    /\ UNCHANGED <<peers, pool, locked, table, tableDel, confDel, signalled, counts, spent>>

\* ngx_restart_instance: the lock stays.
RestartInstance(w) ==
    /\ job[w].pc = "signal"
    /\ \/ /\ signalled' = TRUE
          /\ job' = [job EXCEPT ![w] = NoJob]
       \/ /\ GoTo(w, "failed")
          /\ UNCHANGED signalled
    /\ UNCHANGED <<peers, pool, locked, files, counts, spent>>

\* Faulty variant: the error is answered and the lock kept.
ReleaseNothing == locked' = locked

\* hustdb_ha_unlock_table.
Release == locked' = FALSE

Fail(w) ==
    /\ job[w].pc = "failed"
    /\ Release
    /\ job' = [job EXCEPT ![w] = NoJob]
    /\ UNCHANGED <<peers, pool, files, signalled, counts, spent>>

\* A worker dies and the master starts another one; shared memory and files
\* stay as they are.
Crash(w) ==
    /\ job[w].pc \notin {"idle", "gone"}
    /\ crashes < MaxCrash
    /\ crashes' = crashes + 1
    /\ job' = [job EXCEPT ![w] = NoJob]
    /\ UNCHANGED <<peers, pool, locked, files, signalled, now, last, posted, spent>>

\* The new instance builds its table from the file and takes over with a
\* fresh zone; the old workers are gone.
TakeOver ==
    /\ signalled
    /\ Builds(table, conf[1])
    /\ signalled' = FALSE
    /\ locked' = FALSE
    /\ cache' = <<>>
    /\ free' = SetToSeq(Slots)
    /\ ident' = [s \in Slots |-> [id |-> 0, exptime |-> 0]]
    /\ job' = [w \in Workers |-> NoJob]
    /\ spent' = {}
    /\ peers' = conf[1]
    /\ UNCHANGED <<files, counts>>

\* The old instance goes although the new one could not start.
Outage ==
    /\ signalled
    /\ ~Builds(table, conf[1])
    /\ job' = [w \in Workers |-> [NoJob EXCEPT !.pc = "gone"]]
    /\ UNCHANGED <<peers, pool, locked, files, signalled, counts, spent>>

Tick ==
    /\ now < MaxNow
    /\ now' = now + 1
    /\ UNCHANGED <<peers, pool, locked, files, signalled, job, last, posted, crashes, spent>>

Init ==
    /\ cache = <<>>
    /\ free = SetToSeq(Slots)
    /\ ident = [s \in Slots |-> [id |-> 0, exptime |-> 0]]
    /\ locked = FALSE
    /\ table = FirstTable
    /\ tableDel = Missing
    /\ conf = Upstream(FirstTable)
    /\ confDel = Missing
    /\ peers = Backends(FirstTable)
    /\ signalled = FALSE
    /\ job = [w \in Workers |-> NoJob]
    /\ now = 1
    /\ last = 0
    /\ posted = 1
    /\ crashes = 0
    /\ spent = {}

SetTable(w) ==
    \/ FreeIdentifier(w)
    \/ LockTable(w)
    \/ WriteTmp(w)
    \/ KeepTable(w)
    \/ PlaceTable(w)
    \/ Rollback(w)
    \/ LoadBackends(w)
    \/ KeepConf(w)
    \/ PlaceConf(w)
    \/ RestartInstance(w)
    \/ Fail(w)

Next ==
    \/ GenerateIdentifier
    \/ \E w \in Workers : PostTable(w) \/ SetTable(w) \/ Crash(w)
    \/ TakeOver
    \/ Outage
    \/ Tick

Spec == Init /\ [][Next]_vars

-----------------------------------------------------------------------------

\* The identifier pool never loses a slot nor has one in both lists, although
\* two workers may free the same slot, and one may free a slot that was given
\* to another identifier in between.
PoolConserved ==
    /\ Len(cache) + Len(free) = Cardinality(Slots)
    /\ Range(cache) \cup Range(free) = Slots

\* Files are written by one worker at a time, and by none between the request
\* for a new instance and the moment that one takes over.
OneWriter ==
    /\ \A v, w \in Workers : job[v].pc \in Writing /\ job[w].pc \in Writing => v = w
    /\ signalled => \A w \in Workers : job[w].pc \notin Writing \cup {"failed"}

\* Whatever operation fails or is the last one of a dying process, a complete
\* table that was checked and a complete nginx.conf are on the disk.
FilesSurvive ==
    /\ table # Missing \/ tableDel # Missing
    /\ conf # Missing \/ confDel # Missing

\* When a new instance is asked for, both files are there and nginx.conf lists
\* the backends of the table; if the check could vouch for the table, although
\* it ran with other peers, the new instance builds it, and each range is still
\* written to a master that has its data.
InstanceCanStart ==
    signalled =>
        /\ table # Missing
        /\ conf = Upstream(table)
        /\ Vouched(table) => Builds(table, conf[1]) /\ KeepsAMaster(table, conf[1])

\* The pool loses no slot, and an identifier that was used lets nothing more
\* through until it is given out again (only workers that looked it up before go on
\* with it), although it is looked up in one locked section and freed in the next
\* (__check_uuid).
IdentifiersKept ==
    [][/\ PoolConserved'
       /\ \A w \in Workers : job[w].pc = "idle" /\ job'[w].pc = "matched" =>
            <<job'[w].slot, job'[w].id>> \notin spent]_vars

\* The table lock is somebody's: of a handler that has still to release it or
\* hand it over, or of the new instance to come.  Only the death of a process
\* leaves it behind.
LockNotLeaked ==
    locked =>
        \/ \E w \in Workers : job[w].pc \in Writing \cup {"failed"}
        \/ signalled
        \/ crashes > 0
=============================================================================
