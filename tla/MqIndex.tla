------------------------------ MODULE MqIndex ------------------------------
(***************************************************************************)
(* Message indexes of a published queue: a host keeps the messages after   *)
(* its start index up to its consistent index, no more than MaxItems, and  *)
(* indexes count round a cycle (hustmq_ha_utils.c, hustmq_ha_handler       *)
(* _filter.c, hustmq_ha_stat_def.c).  C's unsigned differences are taken   *)
(* here only where they are not negative, as in the code.                  *)
(***************************************************************************)
EXTENDS Integers

MaxItems == 5000000         \* MAX_QUEUE_ITEM_NUM
Cycle == 11000000           \* CYCLE_QUEUE_ITEM_NUM
Index == {i \in Nat : i < Cycle}

\* The index n messages after i, as publish counts on from the consistent one.
Advance(i, n) == (i + n) % Cycle

\* hustmq_ha_get_idx_cycle: the messages from start to end, 0 if end is
\* behind start and start is not in the part of the cycle that wraps.
GetIdxCycle(start, end) ==
    IF start <= end THEN end - start
    ELSE IF start > MaxItems THEN Cycle - start + end
    ELSE 0

\* hustmq_ha_idx_check
IdxCheck(idx, si, ci) ==
    /\ GetIdxCycle(si, ci) # 0
    /\ GetIdxCycle(si, idx) # 0
    /\ GetIdxCycle((idx + Cycle - 1) % Cycle, ci) # 0

\* __greater_than
GreaterThan(src, dst) ==
    IF src > dst THEN src - dst < MaxItems ELSE dst - src >= MaxItems
=============================================================================
