------------------------------ MODULE MutexLock ------------------------------
(***************************************************************************)
(* What a lock promises: at most one client is inside.  RedisLock is shown *)
(* to implement it for the clients whose sections end before their lease.  *)
(***************************************************************************)
EXTENDS FiniteSets

CONSTANT Clients

VARIABLE holders

Init == holders = {}

Enter(c) == holders = {} /\ holders' = {c}

Leave(c) == holders = {c} /\ holders' = {}

Next == \E c \in Clients : Enter(c) \/ Leave(c)

Spec == Init /\ [][Next]_holders
=============================================================================
