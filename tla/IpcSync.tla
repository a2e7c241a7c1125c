------------------------------ MODULE IpcSync ------------------------------
(***************************************************************************)
(* ipc_sync.c: processes share a sample in System V shared memory, guarded *)
(* by a System V semaphore that ipc_sync_init sets to 1.                   *)
(*                                                                         *)
(* ipc_sync_destroy removes both ids; a process that is still attached     *)
(* keeps its memory, but its operations on the semaphore fail, and the     *)
(* next init makes new ones.  They are numbered; id[p] is the number that  *)
(* p has.  A sample is copied in two halves.                               *)
(*                                                                         *)
(* at[p]: "out" (not attached), "idle", "wait" (in semtimedop), "first"    *)
(*        and "second" (the halves to copy), "post"                        *)
(***************************************************************************)
EXTENDS Integers, Sequences

CONSTANTS Processes,
          Samples,   \* samples that ipc_sync_write accepts
          MaxIds     \* bound on the ids made

Blank == 0  \* what shmget puts into new memory

VARIABLES latest,  \* the number of the latest ids, 0: none yet
          exists,  \* whether they have not been removed
          val,     \* the value of the latest semaphore
          mem,     \* the two halves of every shared memory
          id, at,
          arg,     \* the sample that p writes, Blank: p reads
          got      \* the halves that p has read

vars == <<latest, exists, val, mem, id, at, arg, got>>
-----------------------------------------------------------------------------
Init ==
    /\ latest = 0 /\ exists = FALSE /\ val = 0
    /\ mem = [g \in 1..MaxIds |-> <<Blank, Blank>>]
    /\ id = [p \in Processes |-> 0]
    /\ at = [p \in Processes |-> "out"]
    /\ arg = [p \in Processes |-> Blank]
    /\ got = [p \in Processes |-> <<>>]

Goto(p, label) == at' = [at EXCEPT ![p] = label]

\* ipc_sync_init, with IPC_CREAT: the ids are made if they do not exist.
Create(p) ==
    /\ at[p] = "out"
    /\ \/ exists /\ UNCHANGED <<latest, exists>>
       \/ ~exists /\ latest < MaxIds /\ latest' = latest + 1 /\ exists' = TRUE
    /\ val' = 1
    /\ id' = [id EXCEPT ![p] = latest']
    /\ Goto(p, "idle")
    /\ UNCHANGED <<mem, arg, got>>

\* What a process has that inherited the attached memory and the ids by fork.
Inherit(p, q) ==
    /\ at[p] = "out" /\ at[q] = "idle"
    /\ id' = [id EXCEPT ![p] = id[q]]
    /\ Goto(p, "idle")
    /\ UNCHANGED <<latest, exists, val, mem, arg, got>>

\* ipc_sync_destroy, by a process that is in no other call.  The last ids that
\* the bound allows are not removed.
Destroy(p) ==
    /\ at[p] = "idle" /\ id[p] < MaxIds
    /\ exists' = (exists /\ id[p] # latest)
    /\ id' = [id EXCEPT ![p] = 0]
    /\ Goto(p, "out")
    /\ UNCHANGED <<latest, val, mem, arg, got>>

\* ipc_sync_write of a valid sample or ipc_sync_read, up to semtimedop.
Call(p, sample) ==
    /\ at[p] = "idle"
    /\ arg' = [arg EXCEPT ![p] = sample]
    /\ Goto(p, "wait")
    /\ UNCHANGED <<latest, exists, val, mem, id, got>>

Return(p) ==
    /\ Goto(p, "idle")
    /\ arg' = [arg EXCEPT ![p] = Blank]
    /\ got' = [got EXCEPT ![p] = <<>>]

Valid(p) == exists /\ id[p] = latest

\* semtimedop takes the semaphore.
Down(p) ==
    /\ at[p] = "wait" /\ Valid(p) /\ val > 0
    /\ val' = val - 1
    /\ Goto(p, "first")
    /\ UNCHANGED <<latest, exists, mem, id, arg, got>>

FailUnchecked(p) ==
    /\ at[p] = "wait" /\ (Valid(p) => val = 0)
    /\ Goto(p, "first")
    /\ UNCHANGED <<latest, exists, val, mem, id, arg, got>>

\* It fails: the ids are gone, or the time is over; the call returns.
Fail(p) ==
    /\ at[p] = "wait" /\ (Valid(p) => val = 0)
    /\ Return(p)
    /\ UNCHANGED <<latest, exists, val, mem, id>>

\* One half of the memcpy.
Copy(p) ==
    /\ at[p] \in {"first", "second"}
    /\ LET k == IF at[p] = "first" THEN 1 ELSE 2
       IN  IF arg[p] = Blank
           THEN got' = [got EXCEPT ![p] = Append(@, mem[id[p]][k])] /\ UNCHANGED mem
           ELSE mem' = [mem EXCEPT ![id[p]][k] = arg[p]] /\ UNCHANGED got
    /\ Goto(p, IF at[p] = "first" THEN "second" ELSE "post")
    /\ UNCHANGED <<latest, exists, val, id, arg>>

PostForgotten(p) ==
    /\ at[p] = "post"
    /\ val' \in IF ~Valid(p) THEN {val}
               ELSE IF arg[p] = Blank THEN {val, val + 1} ELSE {val + 1}
    /\ Return(p)
    /\ UNCHANGED <<latest, exists, mem, id>>

\* semop gives the semaphore back, or fails because it is gone; the call
\* returns, with -EINVAL if a sample that was read is not valid.
Post(p) ==
    /\ at[p] = "post"
    /\ val' = IF Valid(p) THEN val + 1 ELSE val
    /\ Return(p)
    /\ UNCHANGED <<latest, exists, mem, id>>

\* A process dies, wherever it is; semop was called without SEM_UNDO.
Crash(p) ==
    /\ at[p] # "out"
    /\ id' = [id EXCEPT ![p] = 0]
    /\ at' = [at EXCEPT ![p] = "out"]
    /\ arg' = [arg EXCEPT ![p] = Blank]
    /\ got' = [got EXCEPT ![p] = <<>>]
    /\ UNCHANGED <<latest, exists, val, mem>>

Step(p) == Down(p) \/ Fail(p) \/ Copy(p) \/ Post(p)
Use(p) == Destroy(p) \/ (\E s \in Samples \cup {Blank} : Call(p, s)) \/ Step(p)
Copies(p) == at[p] \in {"first", "second", "post"}

\* The application's use: one process makes the ids, the others inherit them.
Next == \E p \in Processes :
    \/ ~exists /\ Create(p)
    \/ \E q \in Processes : Inherit(p, q)
    \/ Use(p)

Spec == Init /\ [][Next]_vars

\* Processes that each call ipc_sync_init, and may die.
PeersNext == \E p \in Processes : Create(p) \/ Use(p) \/ Crash(p)
PeersSpec == Init /\ [][PeersNext]_vars
-----------------------------------------------------------------------------
\* The semaphore is free or one process is between its two operations on it,
\* and the ids that processes have were made.
TypeOK ==
    /\ latest \in 0..MaxIds /\ exists \in BOOLEAN /\ val \in {0, 1}
    /\ id \in [Processes -> 0..latest]

\* ipc_sync_read never returns a mixture of two samples, although ids are
\* removed under processes that copy, and calls give up.
ReadsWhole == \A p \in Processes : Len(got[p]) = 2 => got[p][1] = got[p][2]

\* The semaphore is home: while nobody is between its two operations it is 1,
\* and nobody can raise it above that.
SemaphoreHome ==
    exists => val = IF \E p \in Processes : id[p] = latest /\ Copies(p) THEN 0 ELSE 1
=============================================================================
