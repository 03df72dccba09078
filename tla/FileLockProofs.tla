--------------------------- MODULE FileLockProofs ---------------------------
(***************************************************************************)
(* The directory lock excludes, for any number of processes and deaths and *)
(* whatever files grow old, until the file of a process that uses it is    *)
(* removed as stale.                                                       *)
(***************************************************************************)
EXTENDS FileLock, TLAPS

\* A process between creating the lock file and removing it owns the file that is there.
OwnershipInv ==
    /\ LockTypeOK
    /\ ~stolen => \A p \in Proc : pc[p] \in {"write", "held"} => lock # NoLock /\ lock.owner = p

\* A new lock file is a fresh one of its creator.
LEMMA NewLockType ==
    ASSUME NEW p \in Proc
    PROVE  /\ NewLock(p) \in [owner : Proc, old : BOOLEAN]
           /\ NewLock(p) # NoLock
           /\ NewLock(p).owner = p
           /\ ~NewLock(p).old
<1>1. NewLock(p) \in [owner : Proc, old : BOOLEAN]
  BY Zenon DEF NewLock
<1>2. NewLock(p).owner = p /\ ~NewLock(p).old
  BY Zenon DEF NewLock
<1> QED
  BY <1>1, <1>2, NoLockAssumption

\* Types and ownership hold initially.
LEMMA OwnershipInit == LockInit => OwnershipInv
<1> SUFFICES ASSUME LockInit PROVE OwnershipInv
  OBVIOUS
<1>1. stolen \in BOOLEAN
  BY Zenon DEF LockInit
<1> QED
  BY <1>1, DeathsAssumption DEF LockInit, OwnershipInv, LockTypeOK

\* O_CREATE|O_EXCL makes an owner only where there is no file.
LEMMA CreateKeepsOwnership ==
    ASSUME NEW p \in Proc, NEW onExist \in {"stat", "out"}, OwnershipInv, CreateExcl(p, onExist),
           UNCHANGED <<deaths, stolen>>
    PROVE  OwnershipInv'
<1> USE DEF OwnershipInv, LockTypeOK
<1>1. CASE lock = NoLock
  <2>1. lock' = NewLock(p) /\ pc' = [pc EXCEPT ![p] = "write"]
    BY <1>1 DEF CreateExcl, Goto
  <2>2. lock' # NoLock /\ lock'.owner = p /\ lock' \in [owner : Proc, old : BOOLEAN]
    BY <2>1, NewLockType
  <2> QED
    BY <1>1, <2>1, <2>2
<1>2. CASE lock # NoLock
  BY <1>2 DEF CreateExcl, Goto
<1> QED
  BY <1>1, <1>2

\* Types and ownership survive every step of Acquire, Release, a dying process and passing time.
LEMMA OwnershipStep ==
    ASSUME OwnershipInv, [LockNext]_lockVars
    PROVE  OwnershipInv'
<1> USE NoLockAssumption, DeathsAssumption DEF OwnershipInv, LockTypeOK
<1>1. ASSUME NEW p \in Proc, TryOnce(p), UNCHANGED deaths PROVE OwnershipInv'
  BY <1>1, CreateKeepsOwnership DEF TryOnce
<1>2. ASSUME NEW p \in Proc, Stat(p), UNCHANGED deaths PROVE OwnershipInv'
  BY <1>2 DEF Stat, Goto
<1>3. ASSUME NEW p \in Proc, RemoveStale(p), UNCHANGED deaths PROVE OwnershipInv'
  <2>1. stolen' \in BOOLEAN
    BY <1>3, Zenon DEF RemoveStale
  <2>2. LockTypeOK'
    BY <1>3, <2>1 DEF RemoveStale, Goto
  <2>3. ASSUME NEW q \in Proc, ~stolen', pc'[q] \in {"write", "held"} PROVE FALSE
    <3>1. q # p /\ pc[q] \in {"write", "held"}
      BY <1>3, <2>3 DEF RemoveStale, Goto
    <3>2. lock # NoLock /\ lock.owner = q
      BY <1>3, <2>3, <3>1 DEF RemoveStale
    <3> QED
      BY <1>3, <2>3, <3>1, <3>2 DEF RemoveStale, OwnerAlive
  <2> QED
    BY <2>2, <2>3
<1>4. ASSUME NEW p \in Proc, CreateAgain(p), UNCHANGED deaths PROVE OwnershipInv'
  BY <1>4, CreateKeepsOwnership DEF CreateAgain
<1>5. ASSUME NEW p \in Proc, WriteContent(p), UNCHANGED deaths PROVE OwnershipInv'
  <2>1. CASE Goto(p, "out") /\ lock' = NoLock
    BY <1>5, <2>1 DEF WriteContent, Goto
  <2>2. CASE Goto(p, "held") /\ lock' = IF lock # NoLock /\ lock.owner = p THEN NewLock(p) ELSE lock
    <3>1. lock' \in [owner : Proc, old : BOOLEAN] \cup {NoLock}
      BY <2>2, NewLockType
    <3>2. lock # NoLock => lock' # NoLock /\ lock'.owner = lock.owner
      BY <2>2, NewLockType
    <3> QED
      BY <1>5, <2>2, <3>1, <3>2 DEF WriteContent, Goto
  <2> QED
    BY <1>5, <2>1, <2>2 DEF WriteContent
<1>6. ASSUME NEW p \in Proc, Release(p) PROVE OwnershipInv'
  BY <1>6 DEF Release, Goto
<1>7. ASSUME NEW p \in Proc, Die(p) PROVE OwnershipInv'
  BY <1>7 DEF Die, Goto
<1>8. CASE GrowOld
  BY <1>8 DEF GrowOld
<1>9. CASE UNCHANGED lockVars
  BY <1>9 DEF lockVars
<1> QED
  BY <1>1, <1>2, <1>3, <1>4, <1>5, <1>6, <1>7, <1>8, <1>9 DEF LockNext, Acquiring

\* Two processes never both hold the lock (Acquire, Release) unless the file of one of them was taken
\* for stale: O_EXCL excludes, whatever dies in between.
THEOREM LockExcludes == LockSpec => []ExclusiveUnlessStolen
<1>1. LockInit => OwnershipInv
  BY OwnershipInit
<1>2. OwnershipInv /\ [LockNext]_lockVars => OwnershipInv'
  BY OwnershipStep
<1>3. OwnershipInv => ExclusiveUnlessStolen
  BY DEF OwnershipInv, ExclusiveUnlessStolen, MutualExclusion
<1> QED
  BY <1>1, <1>2, <1>3, PTL DEF LockSpec
=============================================================================
