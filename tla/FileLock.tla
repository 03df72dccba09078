------------------------------ MODULE FileLock ------------------------------
(***************************************************************************)
(* internal/filelock: processes exclude each other from a directory by a   *)
(* file that O_CREATE|O_EXCL creates and Release removes.  A process that  *)
(* dies leaves the file behind; whoever finds it older than StaleAge       *)
(* removes it and tries again.  Each call to the operating system is a     *)
(* step of its own, and os.Remove removes whatever file has the name.      *)
(***************************************************************************)
EXTENDS Naturals

CONSTANTS
    Proc,      \* the processes
    NoLock,    \* there is no lock file
    MaxDeaths, \* bound: how many processes die
    Ages       \* whose lock file may reach StaleAge: "dead" (of a process that has died) or "any"

ASSUME NoLockAssumption == NoLock \notin [owner : Proc, old : BOOLEAN]
ASSUME DeathsAssumption == MaxDeaths \in Nat
ASSUME AgesAssumption == Ages \in {"dead", "any"}

VARIABLES
    lock,   \* the lock file: its creator, and whether it is older than StaleAge
    pc,     \* what each process does next; "held" while it has the lock
    deaths, \* how many processes have died
    stolen  \* history: the file of a process that was using it has been removed as stale

lockVars == <<lock, pc, deaths, stolen>>

Goto(p, step) == pc' = [pc EXCEPT ![p] = step]

NewLock(p) == [owner |-> p, old |-> FALSE]

\* The process that created the file still uses it.
OwnerAlive == lock # NoLock /\ pc[lock.owner] \in {"write", "held"}

LockInit ==
    /\ lock = NoLock
    /\ pc = [p \in Proc |-> "out"]
    /\ deaths = 0
    /\ stolen = FALSE

-----------------------------------------------------------------------------
\* Mutant: the file is opened without O_EXCL.
CreateExcl_Shared(p, onExist) ==
    /\ lock' = IF lock = NoLock THEN NewLock(p) ELSE lock
    /\ Goto(p, "write")

\* os.OpenFile with O_CREATE|O_EXCL; onExist is where the process goes when there is a file.
CreateExcl(p, onExist) ==
    IF lock = NoLock
    THEN lock' = NewLock(p) /\ Goto(p, "write")
    ELSE Goto(p, onExist) /\ UNCHANGED lock

\* Acquire, and each round of its retry loop, starts with tryOnce.
TryOnce(p) ==
    /\ pc[p] = "out"
    /\ CreateExcl(p, "stat")
    /\ UNCHANGED stolen

\* Mutant: a file is never found to be stale.
IsStale_Never == FALSE

\* maybeRemoveStale looks at the age of the file only.
IsStale == lock # NoLock /\ lock.old

Stat(p) ==
    /\ pc[p] = "stat"
    /\ Goto(p, IF IsStale THEN "remove" ELSE "out")
    /\ UNCHANGED <<lock, stolen>>

RemoveStale(p) ==
    /\ pc[p] = "remove"
    /\ lock' = NoLock
    /\ Goto(p, "create")
    /\ stolen' = (stolen \/ OwnerAlive)

CreateAgain(p) ==
    /\ pc[p] = "create"
    /\ CreateExcl(p, "out")
    /\ UNCHANGED stolen

\* The owner's pid is written and synced, which also renews the file's age; on an error the name is
\* removed.
WriteContent(p) ==
    /\ pc[p] = "write"
    /\ \/ /\ Goto(p, "held")
          /\ lock' = IF lock # NoLock /\ lock.owner = p THEN NewLock(p) ELSE lock
       \/ /\ Goto(p, "out")
          /\ lock' = NoLock
    /\ UNCHANGED stolen

Release(p) ==
    /\ pc[p] = "held"
    /\ lock' = NoLock
    /\ Goto(p, "out")
    /\ UNCHANGED <<deaths, stolen>>

\* The process dies; another one takes its place.
Die(p) ==
    /\ pc[p] # "out"
    /\ deaths < MaxDeaths
    /\ deaths' = deaths + 1
    /\ Goto(p, "out")
    /\ UNCHANGED <<lock, stolen>>

\* StaleAge passes: nothing touches the lock file while the lock is held.
GrowOld ==
    /\ lock # NoLock
    /\ ~lock.old
    /\ Ages = "any" \/ ~OwnerAlive
    /\ lock' = [lock EXCEPT !.old = TRUE]
    /\ UNCHANGED <<pc, deaths, stolen>>

Acquiring(p) ==
    /\ TryOnce(p) \/ Stat(p) \/ RemoveStale(p) \/ CreateAgain(p) \/ WriteContent(p)
    /\ UNCHANGED deaths

LockNext ==
    \/ \E p \in Proc : Acquiring(p) \/ Release(p) \/ Die(p)
    \/ GrowOld

LockSpec == LockInit /\ [][LockNext]_lockVars

(***************************************************************************)
(* Time passes, and every process keeps calling Acquire (as the retry loop *)
(* does until its deadline) and finishes each attempt it begins, unless it *)
(* is among the MaxDeaths processes that die.                              *)
(***************************************************************************)
FairLockSpec == LockSpec /\ WF_lockVars(GrowOld) /\ \A p \in Proc : WF_lockVars(Acquiring(p))

-----------------------------------------------------------------------------
\* Every step of every process, and the lock file, have their types.
LockTypeOK ==
    /\ lock \in [owner : Proc, old : BOOLEAN] \cup {NoLock}
    /\ pc \in [Proc -> {"out", "stat", "remove", "create", "write", "held"}]
    /\ deaths \in 0 .. MaxDeaths
    /\ stolen \in BOOLEAN

\* The lock is exclusive: two processes never both hold it (Acquire, Release).
MutualExclusion == \A p, q \in Proc : pc[p] = "held" /\ pc[q] = "held" => p = q

\* Exclusion is lost in one way only: maybeRemoveStale removes the file of a process that still uses
\* it.  Deaths, leftover files, failed writes and removals of the files of the dead do not break it.
ExclusiveUnlessStolen == ~stolen => MutualExclusion

\* A lock file whose owner has died does not stay for ever: somebody who wants the lock removes it
\* after StaleAge (maybeRemoveStale).
DeadLockIsRemoved == (lock # NoLock /\ ~OwnerAlive) ~> (lock = NoLock \/ OwnerAlive)
=============================================================================
