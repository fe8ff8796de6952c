-------------------------- MODULE ReplicatedWrite --------------------------
(***************************************************************************)
(* What a replicated write promises its client, whatever the protocol: the *)
(* masters that hold it only grow while it is undecided, a repair is owed  *)
(* only to a master that does not hold it and only when another one does,  *)
(* and it succeeds only when every master holds it or is owed it.  The     *)
(* outcome is final; only a repair may still be recorded afterwards.       *)
(***************************************************************************)
CONSTANTS Requests, Masters

VARIABLES
    held,    \* the masters that acknowledged a request
    owed,    \* the masters a repair record names
    outcome  \* "none" until the client is answered

avars == <<held, owed, outcome>>

Outcomes == {"none", "ok", "fail"}

Init ==
    /\ held = [r \in Requests |-> {}]
    /\ owed = [r \in Requests |-> {}]
    /\ outcome = [r \in Requests |-> "none"]

\* One step of an undecided write: masters H acknowledge it, repairs for O are
\* recorded, and the client may be answered.
Settle(r, H, O, a) ==
    /\ outcome[r] = "none"
    /\ held' = [held EXCEPT ![r] = @ \union H]
    /\ owed' = [owed EXCEPT ![r] = @ \union O]
    /\ outcome' = [outcome EXCEPT ![r] = a]
    /\ O # {} => held'[r] # {} /\ O \intersect held'[r] = {}
    /\ a = "ok" => held'[r] \union owed'[r] = Masters

\* A repair that was asked for is recorded, maybe after the answer.
RecordRepair(r, i) ==
    /\ held[r] # {}
    /\ i \notin held[r]
    /\ owed' = [owed EXCEPT ![r] = @ \union {i}]
    /\ UNCHANGED <<held, outcome>>

Next ==
    \E r \in Requests :
        \/ \E H, O \in SUBSET Masters, a \in Outcomes : Settle(r, H, O, a)
        \/ \E i \in Masters : RecordRepair(r, i)

Spec == Init /\ [][Next]_avars
=============================================================================
