----------------------------- MODULE MCRedisLock -----------------------------
(* RedisLock on five clients: three that use acquire (API servers, executors) *)
(* and two that spin.                                                        *)
EXTENDS RedisLock

CONSTANTS c1, c2, c3, c4, c5

MCClients == {c1, c2, c3, c4, c5}
MCSpinners == {c4, c5}

\* One of each kind may work longer than its lease.
MCOverrun == {c3, c5}

\* uuid4 or CONSUMER_NAME: a value of its own for every client.
MCToken == [c \in MCClients |-> c]
=============================================================================
