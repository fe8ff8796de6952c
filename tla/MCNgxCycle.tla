---- MODULE MCNgxCycle ----
(* Instances of one or two workers, one with a cache, and what is asked of *)
(* them: upgrade.sh and its way back, reloads, the restart a worker asks   *)
(* for, alone and together with what an operator does meanwhile.           *)
EXTENDS NgxCycle

Table == 1 .. 5

Workers(n, asks) == [workers |-> n, manager |-> FALSE, loader |-> FALSE, asks |-> asks]
Caching(asks)    == [workers |-> 1, manager |-> TRUE, loader |-> TRUE, asks |-> asks]

Requests ==
    { Workers(1, <<"usr2", "winch", "quit">>),
      Workers(1, <<"usr2", "winch", "back", "hup">>),
      Workers(1, <<"usr2", "winch", "hup", "quit">>),
      Workers(1, <<"hup", "hup", "quit">>),
      Workers(1, <<"restart", "restart">>),
      Workers(1, <<"restart", "reconfigure">>),
      Workers(1, <<"restart", "winch">>),
      Workers(1, <<"restart", "term">>),
      Workers(1, <<"restart", "usr2">>),
      Workers(2, <<"restart">>),
      Workers(2, <<"hup">>),
      Workers(2, <<"term">>),
      Caching(<<"quit">>) }
====
