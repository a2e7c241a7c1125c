------------------------------ MODULE MCRWLock ------------------------------
(***************************************************************************)
(* The read-write lock and the configuration for model checking: a         *)
(* behaviour is one of the lock with callers that lock and unlock at will  *)
(* or one of the configuration.                                            *)
(***************************************************************************)
EXTENDS Config

VARIABLE part

mcVars == <<part, vars, configVars>>
-----------------------------------------------------------------------------
MCInit ==
    /\ part \in {"lock", "config"}
    /\ ConfigInit
    /\ part = "lock" => object = "static" /\ field[1] = CHOOSE v \in Settings : TRUE

InLock(action) == part = "lock" /\ action /\ UNCHANGED <<part, configVars>>

InConfig(action) == part = "config" /\ action /\ UNCHANGED part

\* Fairness of RWLock.  A deadline of the configuration may not fire, since
\* ConfigSpec has only safety properties.
MCFairness == \A t \in Threads :
    /\ WF_mcVars(InLock(RdResume(t) \/ RdGiveUp(t) \/ WrResume(t) \/ WrGiveUp(t)))
    /\ SF_mcVars(InLock(RdTimeout(t) \/ WrTimeout(t)))

MCSpec == MCInit /\ [][InLock(Next) \/ InConfig(ConfigNext)]_mcVars /\ MCFairness
-----------------------------------------------------------------------------
\* Every call of rwlock_rdlock and rwlock_wrlock returns, also if nobody unlocks.
LocksAnswered == part = "lock" => Answered
=============================================================================
