------------------------------ MODULE RedisLock ------------------------------
(***************************************************************************)
(* RedisDistributedLock of rag/utils/redis_conn.py: a key of Redis written *)
(* with SET NX PX and removed by a Lua script that deletes it only while   *)
(* it still holds the caller's value.  Every client clears its own value   *)
(* before it tries to set the key, so that a lease a crashed or timed-out  *)
(* call of its own left behind does not block it until the TTL.            *)
(*                                                                         *)
(* Users of the lock: the progress thread of every API server (a fresh     *)
(* uuid), report_status of every task executor (its consumer name), the    *)
(* OceanBase DDL helper (a uuid) and GraphRAG's merge (a fixed string).    *)
(* The values are therefore a parameter, Token, and what the lock promises *)
(* is stated for the clients whose values differ (UniqueTokens).           *)
(***************************************************************************)
EXTENDS FiniteSets

CONSTANTS
  Clients,    \* the holders of a RedisDistributedLock object on one key
  Token,      \* Token[c] is the lock_value of client c
  Spinners,   \* the clients that use spin_acquire instead of acquire
  NoToken,    \* the key does not exist
  NoClient,   \* nobody wrote the key
  Overrun     \* the clients whose sections may outlive the lease (PX)

ASSUME LockAssumption ==
  /\ Spinners \subseteq Clients
  /\ NoClient \notin Clients
  /\ \A c \in Clients : Token[c] # NoToken
  /\ Overrun \subseteq Clients

VARIABLES
  key,    \* the value stored under lock_key
  setBy,  \* history: the client whose SET wrote the key, NoClient without it
  pc      \* where each client is in acquire / spin_acquire / release

vars == <<key, setBy, pc>>

Tokens == {Token[c] : c \in Clients}

UniqueTokens == \A c, d \in Clients : Token[c] = Token[d] => c = d

Held == {c \in Clients : pc[c] = "held"}

\* The holders whose sections end before their lease does.
Punctual == Held \ Overrun

Init ==
  /\ key = NoToken
  /\ setBy = NoClient
  /\ pc = [c \in Clients |-> "idle"]

----------------------------------------------------------------------------
(* The two scripts.                                                        *)

\* Mutant: a plain DEL instead of the script.
DeleteAlways(v) == key' = NoToken /\ setBy' = NoClient

\* LUA_DELETE_IF_EQUAL_SCRIPT.
DeleteIfEqual(v) ==
  IF key = v
    THEN key' = NoToken /\ setBy' = NoClient
    ELSE UNCHANGED <<key, setBy>>

\* Mutants: SET without NX; redis-py's own random value in place of Token.
SetAlways(c) ==
  /\ key' = Token[c]
  /\ setBy' = c

SetUnnamed(c) ==
  /\ key = NoToken
  /\ key' = "random"
  /\ setBy' = c

\* SET key value NX PX ttl, by redis-py's Lock.do_acquire.
SetNX(c) ==
  /\ key = NoToken
  /\ key' = Token[c]
  /\ setBy' = c

----------------------------------------------------------------------------
(* One client.                                                             *)

\* The first line of acquire and of spin_acquire.  GraphRAG calls
\* spin_acquire again on a lock it already holds.
Clear(c) ==
  /\ pc[c] \in {"idle", "held"}
  /\ DeleteIfEqual(Token[c])
  /\ pc' = [pc EXCEPT ![c] = "trying"]

Grab(c) ==
  /\ pc[c] = "trying"
  /\ SetNX(c)
  /\ pc' = [pc EXCEPT ![c] = "held"]

\* Redis applied the SET but the reply was lost: acquire raises.
GrabLost(c) ==
  /\ pc[c] = "trying"
  /\ SetNX(c)
  /\ pc' = [pc EXCEPT ![c] = "idle"]

\* acquire returns False after blocking_timeout; spin_acquire sleeps and
\* tries again, which is no step.
GiveUp(c) ==
  /\ pc[c] = "trying"
  /\ c \notin Spinners
  /\ key # NoToken
  /\ pc' = [pc EXCEPT ![c] = "idle"]
  /\ UNCHANGED <<key, setBy>>

\* release; ragflow_server's update_progress also calls it in a finally
\* clause when it never got the lock.
Release(c) ==
  /\ pc[c] \in {"idle", "held"}
  /\ DeleteIfEqual(Token[c])
  /\ pc' = [pc EXCEPT ![c] = "idle"]

\* The process dies and starts again; only the key survives.
Crash(c) ==
  /\ pc[c] # "idle"
  /\ pc' = [pc EXCEPT ![c] = "idle"]
  /\ UNCHANGED <<key, setBy>>

\* Mutant: SET without PX.
ExpireNever == FALSE /\ UNCHANGED vars

\* The lease runs out.  Except for those of Overrun, it is long enough for
\* the section its writer is in.
Expire ==
  /\ key # NoToken
  /\ setBy \notin Punctual
  /\ key' = NoToken
  /\ setBy' = NoClient
  /\ UNCHANGED pc

Next ==
  \/ \E c \in Clients :
       \/ Clear(c) \/ Grab(c) \/ GrabLost(c) \/ GiveUp(c)
       \/ Release(c) \/ Crash(c)
  \/ Expire

Spec == Init /\ [][Next]_vars

\* Redis expires keys on its own; every section ends in a finally clause.
Fairness ==
  /\ WF_vars(Expire)
  /\ \A c \in Clients : WF_vars(pc[c] = "held" /\ Release(c))

FairSpec == Spec /\ Fairness

----------------------------------------------------------------------------
TypeOK ==
  /\ key \in Tokens \cup {NoToken}
  /\ setBy \in Clients \cup {NoClient}
  /\ pc \in [Clients -> {"idle", "trying", "held"}]

\* The value under the key is the value of the client that wrote it, and a
\* key without a writer does not exist: delete_if_equal on a value is
\* delete_if_equal on an owner.
KeyNamesWriter ==
  /\ key = NoToken <=> setBy = NoClient
  /\ setBy # NoClient => key = Token[setBy]

\* The key belongs to whoever believes it holds the lock and keeps within
\* its lease.
HolderOwnsKey == \A c \in Punctual : setBy = c

\* Two API servers never run DocumentService.update_progress at once, two
\* executors never clean TASKEXE at once, as long as those two keep within
\* their lease: a third one that overran, and lets go of the lock late,
\* does not break it for them.
MutualExclusion == \A c, d \in Punctual : c = d

\* acquire, spin_acquire and release never remove a lease that another
\* client wrote, even when the lock expired under them and was taken again.
NoForeignRelease ==
  [][\A c, d \in Clients :
       setBy = c /\ d # c /\ (Clear(d) \/ Release(d)) => key' = key]_vars

\* A lease never blocks the others for ever, whoever died holding it.
LeaseEndsEventually == \A c \in Clients : setBy = c ~> setBy # c

----------------------------------------------------------------------------
(* The abstract lock: one holder at a time.                                *)

Abstract == INSTANCE MutexLock WITH holders <- Punctual

\* To the clients that keep within their lease the lock behaves like
\* MutexLock, whatever the others do: what the callers of acquire rely on.
ImplementsMutexLock == Abstract!Spec
=============================================================================
