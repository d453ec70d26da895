--------------------------- MODULE RedisLockProofs ---------------------------
(***************************************************************************)
(* Proofs about RedisLock, for any set of clients.  TypeOK and             *)
(* KeyNamesWriter are inductive together whatever lock values the clients  *)
(* use, distinct or shared.  Mutual exclusion, NoForeignRelease and the    *)
(* refinement of MutexLock need distinct values: then a holder still owns  *)
(* the key (HolderOwnsKey), unless its own section outlives the lease.     *)
(***************************************************************************)
EXTENDS RedisLock, TLAPS

NInv == TypeOK /\ KeyNamesWriter
IInv == NInv /\ HolderOwnsKey

LEMMA InitIInv == Init => NInv /\ IInv
BY LockAssumption DEF Init, NInv, IInv, TypeOK, KeyNamesWriter, HolderOwnsKey, Held, Punctual

\* Whatever the lock values, what is under the key names who wrote it.
LEMMA NextNInv ==
  ASSUME NInv, [Next]_vars
  PROVE  NInv'
<1> USE LockAssumption DEF NInv, TypeOK, KeyNamesWriter, Tokens
<1>1. ASSUME NEW c \in Clients, Clear(c) PROVE NInv'
  BY <1>1 DEF Clear, DeleteIfEqual
<1>2. ASSUME NEW c \in Clients, Grab(c) PROVE NInv'
  BY <1>2 DEF Grab, SetNX
<1>3. ASSUME NEW c \in Clients, GrabLost(c) PROVE NInv'
  BY <1>3 DEF GrabLost, SetNX
<1>4. ASSUME NEW c \in Clients, GiveUp(c) PROVE NInv'
  BY <1>4 DEF GiveUp
<1>5. ASSUME NEW c \in Clients, Release(c) PROVE NInv'
  BY <1>5 DEF Release, DeleteIfEqual
<1>6. ASSUME NEW c \in Clients, Crash(c) PROVE NInv'
  BY <1>6 DEF Crash
<1>7. CASE Expire
  BY <1>7 DEF Expire
<1>8. CASE UNCHANGED vars
  BY <1>8 DEF vars
<1> QED BY <1>1, <1>2, <1>3, <1>4, <1>5, <1>6, <1>7, <1>8 DEF Next

\* The script removes the key only for the client that wrote it.
LEMMA ScriptSparesOthers ==
  ASSUME UniqueTokens, TypeOK, KeyNamesWriter,
         NEW c \in Clients, NEW d \in Clients,
         DeleteIfEqual(Token[d]), setBy = c, c # d
  PROVE  UNCHANGED <<key, setBy>>
BY LockAssumption DEF UniqueTokens, TypeOK, KeyNamesWriter, DeleteIfEqual

\* With distinct values, a holder keeps its key until it lets go of it.
LEMMA NextIInv ==
  ASSUME UniqueTokens, IInv, [Next]_vars
  PROVE  IInv'
<1>1. NInv'
  BY NextNInv DEF IInv
<1> SUFFICES HolderOwnsKey'
  BY <1>1 DEF IInv
<1> USE LockAssumption DEF IInv, NInv, TypeOK, KeyNamesWriter, HolderOwnsKey, Held,
                           Punctual, UniqueTokens
<1>2. ASSUME NEW c \in Clients, Clear(c) PROVE HolderOwnsKey'
  BY <1>2 DEF Clear, DeleteIfEqual
<1>3. ASSUME NEW c \in Clients, Grab(c) \/ GrabLost(c) PROVE HolderOwnsKey'
  BY <1>3 DEF Grab, GrabLost, SetNX
<1>4. ASSUME NEW c \in Clients, GiveUp(c) \/ Crash(c) PROVE HolderOwnsKey'
  BY <1>4 DEF GiveUp, Crash
<1>5. ASSUME NEW c \in Clients, Release(c) PROVE HolderOwnsKey'
  BY <1>5 DEF Release, DeleteIfEqual
<1>6. CASE Expire
  BY <1>6 DEF Expire
<1>7. CASE UNCHANGED vars
  BY <1>7 DEF vars
<1> QED BY <1>2, <1>3, <1>4, <1>5, <1>6, <1>7 DEF Next

LEMMA HoldersExclude ==
  ASSUME IInv
  PROVE  \A c, d \in Punctual : c = d
BY DEF IInv, HolderOwnsKey

\* Whatever values the clients use, the key, its writer and the program
\* counters keep their types.
THEOREM LockTypeCorrect == Spec => []TypeOK
<1>1. NInv => TypeOK
  BY DEF NInv
<1>2. NInv /\ [Next]_vars => NInv'
  BY NextNInv
<1> QED BY InitIInv, <1>1, <1>2, PTL DEF Spec

\* The value under the key is always that of the client that wrote it, even
\* when clients share a value as GraphRAG's do.
THEOREM LockKeyNamesWriter == Spec => []KeyNamesWriter
<1>1. NInv => KeyNamesWriter
  BY DEF NInv
<1>2. NInv /\ [Next]_vars => NInv'
  BY NextNInv
<1> QED BY InitIInv, <1>1, <1>2, PTL DEF Spec

\* Clients with different lock values that keep within their lease are never
\* inside together, whoever else overran.
THEOREM LockMutualExclusion ==
  ASSUME UniqueTokens
  PROVE  Spec => []MutualExclusion
<1>1. IInv => MutualExclusion
  BY HoldersExclude DEF MutualExclusion
<1>2. IInv /\ [Next]_vars => IInv'
  BY NextIInv
<1> QED BY InitIInv, <1>1, <1>2, PTL DEF Spec

\* No client's acquire or release removes the lease of another, even after
\* an expired lease.
THEOREM LockNoForeignRelease ==
  ASSUME UniqueTokens
  PROVE  Spec => NoForeignRelease
<1>1. ASSUME IInv
      PROVE  \A c, d \in Clients :
               setBy = c /\ d # c /\ (Clear(d) \/ Release(d)) => key' = key
  BY <1>1, ScriptSparesOthers DEF IInv, NInv, Clear, Release
<1>2. IInv /\ [Next]_vars => IInv'
  BY NextIInv
<1> QED BY InitIInv, <1>1, <1>2, PTL DEF Spec, NoForeignRelease

\* Where the punctual holders before and after a step differ, one client
\* entered an empty lock or the only holder left it.
LEMMA StepEntersOrLeaves ==
  ASSUME UniqueTokens, IInv, [Next]_vars
  PROVE  [Abstract!Next]_Punctual
<1>1. ASSUME NEW c \in Clients, Clear(c) \/ Release(c) \/ Crash(c) \/ GiveUp(c)
      PROVE  [Abstract!Next]_Punctual
  <2>1. Punctual' = Punctual \ {c}
    BY <1>1 DEF Clear, Release, Crash, GiveUp, Held, Punctual, IInv, NInv, TypeOK
  <2>2. c \in Punctual => Punctual = {c}
    BY HoldersExclude
  <2> QED BY <2>1, <2>2 DEF Abstract!Next, Abstract!Leave
<1>2. ASSUME NEW c \in Clients, Grab(c)
      PROVE  [Abstract!Next]_Punctual
  <2>1. Punctual = {}
    BY <1>2, LockAssumption
       DEF Grab, SetNX, Held, Punctual, IInv, NInv, HolderOwnsKey, KeyNamesWriter
  <2>2. Punctual' = IF c \in Overrun THEN {} ELSE {c}
    BY <1>2, <2>1 DEF Grab, Held, Punctual, IInv, NInv, TypeOK
  <2> QED BY <2>1, <2>2 DEF Abstract!Next, Abstract!Enter
<1>3. ASSUME NEW c \in Clients, GrabLost(c)
      PROVE  Punctual' = Punctual
  BY <1>3 DEF GrabLost, Held, Punctual, IInv, NInv, TypeOK
<1>4. CASE Expire
  BY <1>4 DEF Expire, Held, Punctual
<1>5. CASE UNCHANGED vars
  BY <1>5 DEF vars, Held, Punctual
<1> QED BY <1>1, <1>2, <1>3, <1>4, <1>5 DEF Next

\* With values of their own, the clients that keep within their lease see an
\* abstract mutual-exclusion lock.
THEOREM LockImplementsMutexLock ==
  ASSUME UniqueTokens
  PROVE  Spec => ImplementsMutexLock
<1>1. Init => Abstract!Init
  BY DEF Init, Abstract!Init, Held, Punctual
<1>2. IInv /\ [Next]_vars => IInv'
  BY NextIInv
<1>3. IInv /\ [Next]_vars => [Abstract!Next]_Punctual
  BY StepEntersOrLeaves
<1> QED BY InitIInv, <1>1, <1>2, <1>3, PTL
       DEF Spec, ImplementsMutexLock, Abstract!Spec
=============================================================================
