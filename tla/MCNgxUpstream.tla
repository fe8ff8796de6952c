---- MODULE MCNgxUpstream ----
(* Upstreams of one to three servers and two requests at a time. *)
EXTENDS NgxUpstream

Places == 1 .. 4

Server(weight, max_conns, backup) ==
    [naddrs |-> 1, weight |-> weight, max_fails |-> 1, fail_timeout |-> 1,
     max_conns |-> max_conns, down |-> FALSE, backup |-> backup]

Upstreams ==
    { [table |-> InitRoundRobin(<<Server(2, 0, FALSE), Server(1, 0, FALSE)>>), kinds |-> {"plain"}],
      [table |-> InitRoundRobin(<<Server(1, 0, TRUE), Server(1, 1, FALSE)>>), kinds |-> {"plain"}],
      [table |-> InitRoundRobin(<<Server(1, 1, FALSE)>>), kinds |-> {"plain", "chosen"}],
      [table |-> Implicit(2), kinds |-> {"chosen"}],
      [table |-> InitRoundRobin(<<Server(1, 1, FALSE)>>), kinds |-> {"plain", "named"}],
      [table |-> InitRoundRobin(<<Server(1, 1, FALSE), Server(1, 1, FALSE)>>), kinds |-> {"named"}],
      [table |-> FetchPeers(2), kinds |-> {"fetch"}] }

Answer(version, length, arrived, early) ==
    [version |-> version, close |-> FALSE, chunked |-> FALSE, length |-> length,
     arrived |-> arrived, early |-> early]

Kept == { Answer("1.1", "known", "all", FALSE), Answer("1.0", "none", "all", FALSE) }
====
