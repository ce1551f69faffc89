------------------------- MODULE EvidenceStoreProofs -------------------------
(***************************************************************************)
(* Machine-checked proofs about EvidenceStore, for any number of writers,  *)
(* digests, directories and faults: the state is well formed, no leaf is   *)
(* torn, a digest has one writer, a moved directory is cleaned up, no      *)
(* temporary file is left, a valid leaf is kept, what is acknowledged is   *)
(* durable, and the store implements ContentStore.                         *)
(***************************************************************************)
EXTENDS EvidenceStore, TLAPS

\* A writer past the open holds a directory of the store, and past the lock it
\* holds the flock of its digest there.
HoldsLock(w) ==
    /\ pc[w] \in Locked \cup {"lock"} => fd[w] \in Dirs
    /\ pc[w] \in Locked => lock[fd[w]][dig[w]] = w

LocksHeld == \A w \in Writers : HoldsLock(w)

\* Between the file's fsync and the replace, the temporary file is complete.
TempReady == \A w \in Writers : pc[w] \in {"check", "replace"} => temp[w] = "whole"

\* Under its final name a file is complete and on disk, or damaged later.
Settled == {"absent", "whole", "corrupt"}

LeavesSettled == \A d \in Dirs, g \in Digests : /\ leaf[d][g].data \in Settled
                                                /\ durable[d][g].data \in Settled

\* The inductive invariant behind TypeOK, LeafNeverTorn and OneWriterPerDigest.
IInv == TypeOK /\ LocksHeld /\ TempReady /\ LeavesSettled

\* An empty store satisfies the invariant.
LEMMA InitEstablishes == Init => IInv
  BY EvidenceAssumptions
  DEF Init, IInv, TypeOK, LocksHeld, HoldsLock, TempReady, LeavesSettled, Settled,
      EmptyDir, NoFile, File, Contents, Places, Ended, Active, Locked


\* Ending a put, however it ends, keeps the lock table well formed.
LEMMA EndTypes ==
  ASSUME TypeOK, NEW w \in Writers, NEW r \in Ended, End(w, r)
  PROVE  /\ pc' \in [Writers -> Ended \cup Active]
         /\ lock' \in [Dirs -> [Digests -> Writers \cup {Nobody}]]
         /\ fd' \in [Writers -> Dirs \cup {NoDir}]
  BY DEF TypeOK, End, Released

\* Ending one put leaves every other put's lock alone.
LEMMA EndLocks ==
  ASSUME TypeOK, LocksHeld, NEW w \in Writers, NEW r \in Ended, End(w, r),
         dig' = dig
  PROVE  LocksHeld'
  BY DEF TypeOK, LocksHeld, HoldsLock, End, Released, Locked, Ended

\* A fault is counted.
LEMMA SpendTypes ==
  ASSUME TypeOK, NEW k \in Faults, Spend(k)
  PROVE  faults' \in [Faults -> Nat]
  BY DEF TypeOK, Spend

\* A power loss leaves each name with its old entry, its last fsynced entry, or
\* nothing.
LEMMA OutageLeaf ==
  ASSUME PowerLoss
  PROVE  /\ durable' = leaf'
         /\ \E lost, torn \in SUBSET (Dirs \X Digests), gone \in BOOLEAN :
              leaf' = [d \in Dirs |-> [g \in Digests |->
                         AfterOutage(d, g, lost, torn, gone)]]
  BY DEF PowerLoss

\* A reboot tears only bytes that were not fsynced.
LEMMA SurvivorFile ==
  ASSUME NEW f \in File, NEW tear
  PROVE  /\ Survivor(f, tear) \in File
         /\ f.data \in Settled => Survivor(f, tear) = f
  BY DEF Survivor, Settled, File, Contents

\* A missing file is a file of the model.
LEMMA NoFileTypes == NoFile \in File /\ NoFile.data \in Settled
  BY DEF NoFile, Settled, File, Contents

\* Every step keeps the state well formed.
LEMMA TypeStep == TypeOK /\ LocksHeld /\ [Next]_vars => TypeOK'
  <1> SUFFICES ASSUME TypeOK, LocksHeld, [Next]_vars PROVE TypeOK'
    OBVIOUS
  <1> USE DEF TypeOK, names, disk, Ended, Active, Locked
  <1>1. CASE UNCHANGED vars
    BY <1>1 DEF vars
  <1>2. ASSUME NEW w \in Writers, NEW g \in Digests, Begin(w, g) PROVE TypeOK'
    BY <1>2 DEF Begin
  <1>0. ASSUME NEW w \in Writers, MakeRoot(w) PROVE TypeOK'
    BY <1>0 DEF MakeRoot, Goto
  <1>3. ASSUME NEW w \in Writers, MakeDirectory(w) PROVE TypeOK'
    BY <1>3 DEF MakeDirectory, Goto, Places
  <1>4. ASSUME NEW w \in Writers, SyncParent(w) PROVE TypeOK'
    BY <1>4 DEF SyncParent, Goto
  <1>5. ASSUME NEW w \in Writers, OpenDirectory(w) PROVE TypeOK'
    BY <1>5, EndTypes DEF OpenDirectory, Goto
  <1>6. ASSUME NEW w \in Writers, AcquireLock(w) PROVE TypeOK'
    BY <1>6 DEF AcquireLock, Goto
  <1>7. ASSUME NEW w \in Writers, InspectExisting(w) PROVE TypeOK'
    BY <1>7 DEF InspectExisting, Goto
  <1>8. ASSUME NEW w \in Writers, ConfirmExisting(w) PROVE TypeOK'
    BY <1>8, EndTypes DEF ConfirmExisting, Acknowledge
  <1>9. ASSUME NEW w \in Writers, CreateTemporary(w) PROVE TypeOK'
    BY <1>9 DEF CreateTemporary, Goto, Contents
  <1>10. ASSUME NEW w \in Writers, WriteTemporary(w) PROVE TypeOK'
    BY <1>10 DEF WriteTemporary, Goto, Contents
  <1>11. ASSUME NEW w \in Writers, SyncTemporary(w) PROVE TypeOK'
    BY <1>11 DEF SyncTemporary, Goto, Contents
  <1>12. ASSUME NEW w \in Writers, CheckChain(w) PROVE TypeOK'
    BY <1>12 DEF CheckChain, Goto
  <1>13. ASSUME NEW w \in Writers, ReplaceLeaf(w) PROVE TypeOK'
    BY <1>13 DEF ReplaceLeaf, Goto, LocksHeld, HoldsLock, Locked, File,
       Contents
  <1>14. ASSUME NEW w \in Writers, SyncDirectory(w) PROVE TypeOK'
    BY <1>14 DEF SyncDirectory, Goto, LocksHeld, HoldsLock, Locked, File,
       Contents
  <1>15. ASSUME NEW w \in Writers, RecheckChain(w) PROVE TypeOK'
    BY <1>15, EndTypes DEF RecheckChain, Goto, Acknowledge
  <1>16. ASSUME NEW w \in Writers, StatInstalled(w) PROVE TypeOK'
    BY <1>16, EndTypes DEF StatInstalled, Goto
  <1>17. ASSUME NEW w \in Writers, UnlinkInstalled(w) PROVE TypeOK'
    BY <1>17, EndTypes DEF UnlinkInstalled, NoFile, LocksHeld, HoldsLock,
       Locked, File, Contents
  <1>18. ASSUME NEW w \in Writers, DiscardTemporary(w) PROVE TypeOK'
    BY <1>18, EndTypes DEF DiscardTemporary, LocksHeld, HoldsLock, Locked,
       File, Contents
  <1>19. ASSUME NEW w \in Writers, FailBare(w) PROVE TypeOK'
    BY <1>19, EndTypes, SpendTypes DEF FailBare, Faults
  <1>20. ASSUME NEW w \in Writers, FailWithTemporary(w) PROVE TypeOK'
    BY <1>20, SpendTypes DEF FailWithTemporary, Faults
  <1>21. ASSUME NEW w \in Writers, FailCleanup(w) PROVE TypeOK'
    <2>1. temp' \in [Writers -> Contents]
      BY <1>21 DEF FailCleanup, Contents
    <2>2. leaf' \in [Dirs -> [Digests -> File]]
      <3>1. NoFile \in File
        BY NoFileTypes
      <3>2. CASE leaf' = leaf
        BY <3>2
      <3>3. CASE leaf' = [leaf EXCEPT ![fd[w]][dig[w]] = NoFile] /\ pc[w] = "unlink"
        BY <3>1, <3>3 DEF LocksHeld, HoldsLock
      <3> QED
        BY <1>21, <3>2, <3>3 DEF FailCleanup
    <2>3. faults' \in [Faults -> Nat]
      BY <1>21, SpendTypes DEF FailCleanup, Faults
    <2> QED
      BY <1>21, <2>1, <2>2, <2>3, EndTypes DEF FailCleanup
  <1>22. ASSUME NEW w \in Writers, Kill(w) PROVE TypeOK'
    BY <1>22, EndTypes, SpendTypes DEF Kill, Faults
  <1>23. ASSUME PowerLoss PROVE TypeOK'
    <2>1. leaf' \in [Dirs -> [Digests -> File]]
      <3>1. PICK lost, torn \in SUBSET (Dirs \X Digests), gone \in BOOLEAN :
               leaf' = [d \in Dirs |-> [g \in Digests |->
                          AfterOutage(d, g, lost, torn, gone)]]
        BY <1>23, OutageLeaf
      <3>2. ASSUME NEW d \in Dirs, NEW g \in Digests
            PROVE  AfterOutage(d, g, lost, torn, gone) \in File
        <4>1. leaf[d][g] \in File /\ durable[d][g] \in File
          OBVIOUS
        <4> QED
          BY <4>1, SurvivorFile, NoFileTypes DEF AfterOutage
      <3> QED
        BY <3>1, <3>2
    <2>2. durable' \in [Dirs -> [Digests -> File]]
      BY <1>23, <2>1 DEF PowerLoss
    <2>3. /\ root' \in {"absent", "made", "kept"} /\ place' \in Places
          /\ made' \subseteq Dirs /\ anchored' \in BOOLEAN
      BY <1>23 DEF PowerLoss, Places
    <2>4. faults' \in [Faults -> Nat]
      BY <1>23, SpendTypes DEF PowerLoss, Faults
    <2>5. /\ lock' \in [Dirs -> [Digests -> Writers \cup {Nobody}]]
          /\ pc' \in [Writers -> Ended \cup Active]
          /\ fd' \in [Writers -> Dirs \cup {NoDir}]
      BY <1>23 DEF PowerLoss
    <2> QED
      BY <1>23, <2>1, <2>2, <2>3, <2>4, <2>5 DEF PowerLoss
  <1>24. ASSUME NEW d \in Dirs, NEW g \in Digests, Corrupt(d, g) PROVE TypeOK'
    <2>1. leaf' \in [Dirs -> [Digests -> File]]
      <3>1. leaf[d][g] \in File
        OBVIOUS
      <3>2. [leaf[d][g] EXCEPT !.data = "corrupt"] \in File
        BY <3>1 DEF File, Contents
      <3> QED
        BY <1>24, <3>2 DEF Corrupt
    <2>2. durable' \in [Dirs -> [Digests -> File]]
      BY <1>24, <2>1 DEF Corrupt
    <2>3. faults' \in [Faults -> Nat]
      BY <1>24, SpendTypes DEF Corrupt, Faults
    <2> QED
      BY <1>24, <2>1, <2>2, <2>3 DEF Corrupt
  <1>25. ASSUME NEW d \in Dirs, NEW g \in Digests, ForeignReplace(d, g) PROVE TypeOK'
    BY <1>25, EvidenceAssumptions, SpendTypes DEF ForeignReplace, File,
       Contents, Faults
  <1>26. ASSUME NEW p \in RelocateTo, Relocate(p) PROVE TypeOK'
    BY <1>26, EvidenceAssumptions, SpendTypes DEF Relocate, Places, Faults
  <1> QED
        BY <1>0, <1>1, <1>2, <1>3, <1>4, <1>5, <1>6, <1>7, <1>8, <1>9, <1>10,
       <1>11,
       <1>12, <1>13, <1>14, <1>15, <1>16, <1>17, <1>18, <1>19, <1>20, <1>21,
       <1>22, <1>23, <1>24, <1>25, <1>26 DEF Next, Step, Fault

\* Every step keeps each lock with the put that took it.
LEMMA LocksStep == TypeOK /\ LocksHeld /\ [Next]_vars => LocksHeld'
  <1> SUFFICES ASSUME TypeOK, LocksHeld, [Next]_vars PROVE LocksHeld'
    OBVIOUS
  <1> USE DEF TypeOK, LocksHeld, HoldsLock, names, disk, Locked, Ended, Active
  <1>1. CASE UNCHANGED <<pc, lock, fd, dig>>
    BY <1>1
  <1>2. ASSUME NEW w \in Writers, NEW g \in Digests, Begin(w, g) PROVE LocksHeld'
    BY <1>2 DEF Begin
  <1>0. ASSUME NEW w \in Writers, MakeRoot(w) PROVE LocksHeld'
    BY <1>0 DEF MakeRoot, Goto
  <1>3. ASSUME NEW w \in Writers, MakeDirectory(w) PROVE LocksHeld'
    BY <1>3 DEF MakeDirectory, Goto
  <1>4. ASSUME NEW w \in Writers, SyncParent(w) PROVE LocksHeld'
    BY <1>4 DEF SyncParent, Goto
  <1>5. ASSUME NEW w \in Writers, OpenDirectory(w) PROVE LocksHeld'
    BY <1>5, EndLocks DEF OpenDirectory, Goto
  <1>6. ASSUME NEW w \in Writers, AcquireLock(w) PROVE LocksHeld'
    BY <1>6, EvidenceAssumptions DEF AcquireLock, LockFree, Goto
  <1>7. ASSUME NEW w \in Writers, InspectExisting(w) PROVE LocksHeld'
    BY <1>7 DEF InspectExisting, Goto
  <1>8. ASSUME NEW w \in Writers, ConfirmExisting(w) PROVE LocksHeld'
    BY <1>8, EndLocks DEF ConfirmExisting, Acknowledge
  <1>9. ASSUME NEW w \in Writers, CreateTemporary(w) PROVE LocksHeld'
    BY <1>9 DEF CreateTemporary, Goto
  <1>10. ASSUME NEW w \in Writers, WriteTemporary(w) PROVE LocksHeld'
    BY <1>10 DEF WriteTemporary, Goto
  <1>11. ASSUME NEW w \in Writers, SyncTemporary(w) PROVE LocksHeld'
    BY <1>11 DEF SyncTemporary, Goto
  <1>12. ASSUME NEW w \in Writers, CheckChain(w) PROVE LocksHeld'
    BY <1>12 DEF CheckChain, Goto
  <1>13. ASSUME NEW w \in Writers, ReplaceLeaf(w) PROVE LocksHeld'
    BY <1>13 DEF ReplaceLeaf, Goto
  <1>14. ASSUME NEW w \in Writers, SyncDirectory(w) PROVE LocksHeld'
    BY <1>14 DEF SyncDirectory, Goto
  <1>15. ASSUME NEW w \in Writers, RecheckChain(w) PROVE LocksHeld'
    BY <1>15, EndLocks DEF RecheckChain, Goto, Acknowledge
  <1>16. ASSUME NEW w \in Writers, StatInstalled(w) PROVE LocksHeld'
    BY <1>16, EndLocks DEF StatInstalled, Goto
  <1>17. ASSUME NEW w \in Writers, UnlinkInstalled(w) PROVE LocksHeld'
    BY <1>17, EndLocks DEF UnlinkInstalled, NoFile
  <1>18. ASSUME NEW w \in Writers, DiscardTemporary(w) PROVE LocksHeld'
    BY <1>18, EndLocks DEF DiscardTemporary
  <1>19. ASSUME NEW w \in Writers, FailBare(w) PROVE LocksHeld'
    BY <1>19, EndLocks DEF FailBare
  <1>20. ASSUME NEW w \in Writers, FailWithTemporary(w) PROVE LocksHeld'
    BY <1>20 DEF FailWithTemporary, TempPhases
  <1>21. ASSUME NEW w \in Writers, FailCleanup(w) PROVE LocksHeld'
    BY <1>21, EndLocks DEF FailCleanup, NoFile
  <1>22. ASSUME NEW w \in Writers, Kill(w) PROVE LocksHeld'
    BY <1>22, EndLocks DEF Kill
  <1>23. ASSUME PowerLoss PROVE LocksHeld'
    BY <1>23 DEF PowerLoss, Survivor, NoFile
  <1> QED
        BY <1>0, <1>1, <1>2, <1>3, <1>4, <1>5, <1>6, <1>7, <1>8, <1>9, <1>10,
       <1>11,
       <1>12, <1>13, <1>14, <1>15, <1>16, <1>17, <1>18, <1>19, <1>20, <1>21,
       <1>22, <1>23 DEF Next, Step, Fault, Corrupt, ForeignReplace, Relocate,
       vars

\* A put reaches the replace only with a complete temporary file.
LEMMA TempStep == TypeOK /\ TempReady /\ [Next]_vars => TempReady'
  <1> SUFFICES ASSUME TypeOK, TempReady, [Next]_vars PROVE TempReady'
    OBVIOUS
  <1> USE DEF TypeOK, TempReady, names, disk, Locked, Ended, Active, TempPhases
  <1>1. CASE UNCHANGED <<pc, temp>>
    BY <1>1
  <1>2. ASSUME NEW w \in Writers, NEW g \in Digests, Begin(w, g) PROVE TempReady'
    BY <1>2 DEF Begin
  <1>0. ASSUME NEW w \in Writers, MakeRoot(w) PROVE TempReady'
    BY <1>0 DEF MakeRoot, Goto
  <1>3. ASSUME NEW w \in Writers, MakeDirectory(w) PROVE TempReady'
    BY <1>3 DEF MakeDirectory, Goto
  <1>4. ASSUME NEW w \in Writers, SyncParent(w) PROVE TempReady'
    BY <1>4 DEF SyncParent, Goto
  <1>5. ASSUME NEW w \in Writers, OpenDirectory(w) PROVE TempReady'
    BY <1>5 DEF OpenDirectory, Goto, End
  <1>6. ASSUME NEW w \in Writers, AcquireLock(w) PROVE TempReady'
    BY <1>6 DEF AcquireLock, Goto
  <1>7. ASSUME NEW w \in Writers, InspectExisting(w) PROVE TempReady'
    BY <1>7 DEF InspectExisting, Goto
  <1>8. ASSUME NEW w \in Writers, ConfirmExisting(w) PROVE TempReady'
    BY <1>8 DEF ConfirmExisting, Acknowledge, End
  <1>9. ASSUME NEW w \in Writers, CreateTemporary(w) PROVE TempReady'
    BY <1>9 DEF CreateTemporary, Goto
  <1>10. ASSUME NEW w \in Writers, WriteTemporary(w) PROVE TempReady'
    BY <1>10 DEF WriteTemporary, Goto
  <1>11. ASSUME NEW w \in Writers, SyncTemporary(w) PROVE TempReady'
    BY <1>11 DEF SyncTemporary, Goto
  <1>12. ASSUME NEW w \in Writers, CheckChain(w) PROVE TempReady'
    BY <1>12 DEF CheckChain, Goto
  <1>13. ASSUME NEW w \in Writers, ReplaceLeaf(w) PROVE TempReady'
    BY <1>13 DEF ReplaceLeaf, Goto
  <1>14. ASSUME NEW w \in Writers, SyncDirectory(w) PROVE TempReady'
    BY <1>14 DEF SyncDirectory, Goto
  <1>15. ASSUME NEW w \in Writers, RecheckChain(w) PROVE TempReady'
    BY <1>15 DEF RecheckChain, Goto, Acknowledge, End
  <1>16. ASSUME NEW w \in Writers, StatInstalled(w) PROVE TempReady'
    BY <1>16 DEF StatInstalled, Goto, End
  <1>17. ASSUME NEW w \in Writers, UnlinkInstalled(w) PROVE TempReady'
    BY <1>17 DEF UnlinkInstalled, End, NoFile
  <1>18. ASSUME NEW w \in Writers, DiscardTemporary(w) PROVE TempReady'
    BY <1>18 DEF DiscardTemporary, End
  <1>19. ASSUME NEW w \in Writers, FailBare(w) PROVE TempReady'
    BY <1>19 DEF FailBare, End
  <1>20. ASSUME NEW w \in Writers, FailWithTemporary(w) PROVE TempReady'
    BY <1>20 DEF FailWithTemporary
  <1>21. ASSUME NEW w \in Writers, FailCleanup(w) PROVE TempReady'
    BY <1>21 DEF FailCleanup, End, NoFile
  <1>22. ASSUME NEW w \in Writers, Kill(w) PROVE TempReady'
    BY <1>22 DEF Kill, End
  <1>23. ASSUME PowerLoss PROVE TempReady'
    BY <1>23 DEF PowerLoss, Survivor, NoFile
  <1> QED
        BY <1>0, <1>1, <1>2, <1>3, <1>4, <1>5, <1>6, <1>7, <1>8, <1>9, <1>10,
       <1>11,
       <1>12, <1>13, <1>14, <1>15, <1>16, <1>17, <1>18, <1>19, <1>20, <1>21,
       <1>22, <1>23 DEF Next, Step, Fault, Corrupt, ForeignReplace, Relocate,
       vars

\* No step gives a leaf incomplete bytes.
LEMMA LeavesStep ==
  TypeOK /\ LocksHeld /\ TempReady /\ LeavesSettled /\ [Next]_vars
    => LeavesSettled'
  <1> SUFFICES ASSUME TypeOK, LocksHeld, TempReady, LeavesSettled, [Next]_vars
               PROVE  LeavesSettled'
    OBVIOUS
  <1> USE DEF TypeOK, LeavesSettled, Settled, LocksHeld, HoldsLock, Locked, names
  <1>1. CASE UNCHANGED disk
    BY <1>1 DEF disk
  <1>2. ASSUME NEW w \in Writers, ReplaceLeaf(w) PROVE LeavesSettled'
    BY <1>2 DEF ReplaceLeaf, Goto, TempReady
  <1>3. ASSUME NEW w \in Writers, SyncDirectory(w) PROVE LeavesSettled'
    BY <1>3 DEF SyncDirectory, Goto, File
  <1>4. ASSUME NEW w \in Writers, UnlinkInstalled(w) PROVE LeavesSettled'
    BY <1>4 DEF UnlinkInstalled, End, NoFile, NoFile
  <1>5. ASSUME NEW w \in Writers, DiscardTemporary(w) PROVE LeavesSettled'
    BY <1>5 DEF DiscardTemporary, End, File
  <1>6. ASSUME NEW w \in Writers, FailCleanup(w) PROVE LeavesSettled'
    <2>1. CASE leaf' = leaf
      BY <1>6, <2>1 DEF FailCleanup
    <2>2. CASE leaf' = [leaf EXCEPT ![fd[w]][dig[w]] = NoFile] /\ pc[w] = "unlink"
      <3>1. NoFile.data \in Settled
        BY DEF NoFile
      <3> QED
        BY <1>6, <2>2, <3>1 DEF FailCleanup
    <2> QED
      BY <1>6, <2>1, <2>2 DEF FailCleanup
  <1>7. ASSUME PowerLoss PROVE LeavesSettled'
    <2>1. PICK lost, torn \in SUBSET (Dirs \X Digests), gone \in BOOLEAN :
             leaf' = [d \in Dirs |-> [g \in Digests |->
                        AfterOutage(d, g, lost, torn, gone)]]
      BY <1>7, OutageLeaf
    <2>2. ASSUME NEW d \in Dirs, NEW g \in Digests
          PROVE  AfterOutage(d, g, lost, torn, gone).data \in Settled
      <3>1. leaf[d][g] \in File /\ durable[d][g] \in File
        OBVIOUS
      <3> QED
        BY <3>1, SurvivorFile, NoFileTypes DEF AfterOutage
    <2>3. durable' = leaf'
      BY <1>7, OutageLeaf
    <2> QED
      BY <2>1, <2>2, <2>3
  <1>8. ASSUME NEW d \in Dirs, NEW g \in Digests, Corrupt(d, g) PROVE LeavesSettled'
    BY <1>8 DEF Corrupt, File
  <1>9. ASSUME NEW d \in Dirs, NEW g \in Digests, ForeignReplace(d, g)
       PROVE  LeavesSettled'
    BY <1>9 DEF ForeignReplace, File
  <1> QED
        BY <1>1, <1>2, <1>3, <1>4, <1>5, <1>6, <1>7, <1>8, <1>9 DEF Next,
       Step, Fault, Begin, MakeRoot, MakeDirectory, SyncParent, OpenDirectory,
       AcquireLock, InspectExisting, ConfirmExisting, CreateTemporary,
       WriteTemporary, SyncTemporary, CheckChain, RecheckChain, StatInstalled,
       FailBare, FailWithTemporary, Kill, Relocate, vars, disk

\* The conjuncts are preserved together, so they hold for ever.
LEMMA Inductive == Spec => []IInv
  <1>1. Init => IInv
    BY InitEstablishes
  <1>2. IInv /\ [Next]_vars => IInv'
    BY TypeStep, LocksStep, TempStep, LeavesStep DEF IInv
  <1> QED
    BY <1>1, <1>2, PTL DEF Spec

\* Every state is well formed: in particular no put ever holds open a directory
\* outside the store, whatever is renamed over the name.
THEOREM TypeCorrect == Spec => []TypeOK
  BY Inductive, PTL DEF IInv

\* put_bytes never exposes a partial artifact under its digest, whatever calls
\* fail, whoever is killed and whenever power is lost (evidence.py:119-147).
THEOREM NeverTorn == Spec => []LeafNeverTorn
  <1>1. IInv => LeafNeverTorn
    BY DEF IInv, LeavesSettled, Settled, LeafNeverTorn
  <1> QED
    BY <1>1, Inductive, PTL

\* "Cooperating writers serialize each digest" (evidence.py:61): the flock of a
\* digest admits one put per directory.
THEOREM MutualExclusion == Spec => []OneWriterPerDigest
  <1>1. IInv => OneWriterPerDigest
    BY DEF IInv, LocksHeld, HoldsLock, OneWriterPerDigest
  <1> QED
    BY <1>1, Inductive, PTL

-----------------------------------------------------------------------------
(***************************************************************************)
(* What faults leave alone.                                                *)
(***************************************************************************)

\* A fault adds one to its own count.
LEMMA SpendCounts ==
  ASSUME TypeOK, NEW k \in Faults, Spend(k)
  PROVE  /\ faults'[k] = faults[k] + 1
         /\ \A j \in Faults \ {k} : faults'[j] = faults[j]
  BY DEF TypeOK, Spend

\* Only faults are counted, and none is forgotten.
LEMMA FaultsGrow ==
  ASSUME TypeOK, [Next]_vars
  PROVE  /\ \A k \in Faults : /\ faults[k] \in Nat /\ faults'[k] \in Nat
                              /\ faults[k] <= faults'[k]
         /\ faults' = faults \/ Fault
  <1>1. \A k \in Faults : faults[k] \in Nat
    BY DEF TypeOK
  <1>2. CASE faults' = faults
    BY <1>1, <1>2
  <1>3. CASE Fault
    <2>1. PICK k \in Faults : Spend(k)
      BY <1>3
      DEF Fault, FailBare, FailWithTemporary, FailCleanup, Kill, PowerLoss,
          Corrupt, ForeignReplace, Relocate, Faults
    <2>2. \A j \in Faults : faults'[j] = faults[j] \/ faults'[j] = faults[j] + 1
      BY <2>1, SpendCounts
    <2> QED
      BY <1>1, <1>3, <2>2
  <1> QED
    BY <1>2, <1>3
    DEF Next, vars, Step, Begin, MakeRoot, MakeDirectory, SyncParent, OpenDirectory,
        AcquireLock, InspectExisting, ConfirmExisting, CreateTemporary,
        WriteTemporary, SyncTemporary, CheckChain, ReplaceLeaf, SyncDirectory,
        RecheckChain, StatInstalled, UnlinkInstalled, DiscardTemporary

\* A put that ends closes its directory; the others keep theirs.
LEMMA EndCloses ==
  ASSUME TypeOK, NEW w \in Writers, NEW r \in Ended, End(w, r)
  PROVE  /\ pc'[w] = r /\ fd'[w] = NoDir
         /\ \A v \in Writers \ {w} : pc'[v] = pc[v] /\ fd'[v] = fd[v]
  BY DEF TypeOK, End

\* What a put does, and what makes it fail.
WriterMoves(w) == \/ Step(w) \/ \E g \in Digests : Begin(w, g)
                  \/ FailBare(w) \/ FailWithTemporary(w) \/ FailCleanup(w)
                  \/ Kill(w)

\* No put moves another one.
LEMMA MovesAlone ==
  ASSUME TypeOK, NEW w \in Writers, WriterMoves(w), NEW v \in Writers \ {w}
  PROVE  /\ pc'[v] = pc[v] /\ fd'[v] = fd[v]
         /\ dig'[v] = dig[v] /\ temp'[v] = temp[v]
  BY DEF TypeOK, WriterMoves, Step, Begin, MakeRoot, MakeDirectory, SyncParent,
         OpenDirectory, AcquireLock, InspectExisting, ConfirmExisting,
         CreateTemporary, WriteTemporary, SyncTemporary, CheckChain,
         ReplaceLeaf, SyncDirectory, RecheckChain, StatInstalled,
         UnlinkInstalled, DiscardTemporary, FailBare, FailWithTemporary,
         FailCleanup, Kill, Goto, Acknowledge, End

\* Every other step is one of the world around the puts.
WorldMoves == \/ PowerLoss
              \/ \E d \in Dirs, g \in Digests : Corrupt(d, g) \/ ForeignReplace(d, g)
              \/ \E p \in RelocateTo : Relocate(p)

\* These are all the steps there are.
LEMMA NextSplits ==
  Next => WorldMoves \/ \E w \in Writers : WriterMoves(w)
  BY DEF Next, Fault, WorldMoves, WriterMoves

-----------------------------------------------------------------------------
(***************************************************************************)
(* Relocation.                                                             *)
(***************************************************************************)

\* "A detected relocation is cleaned through the retained descriptor": when
\* another directory or a symbolic link has taken the name and no call fails,
\* a put that raises after its replace (evidence.py:151-164, 344-361) leaves no
\* file of its own in the directory it wrote to.
THEOREM RelocationIsCleaned == Spec => RelocationCleaned
  <1> DEFINE cleaned == \A w \in Writers :
                /\ pc[w] \in {"recheck", "stat", "unlink"} /\ pc'[w] = "raised"
                /\ place # "absent" /\ faults'["io"] = 0
                => leaf'[fd[w]][dig[w]].by # w
  <1>1. ASSUME IInv, [Next]_vars PROVE cleaned \/ UNCHANGED vars
    <2> SUFFICES ASSUME Next, NEW w \in Writers,
                        pc[w] \in {"recheck", "stat", "unlink"},
                        pc'[w] = "raised", place # "absent", faults'["io"] = 0
                 PROVE  leaf'[fd[w]][dig[w]].by # w
      BY <1>1
    <2>1. TypeOK /\ fd[w] \in Dirs /\ dig[w] \in Digests
      BY <1>1 DEF IInv, LocksHeld, HoldsLock, Locked, TypeOK
    <2>2. ~\E v \in Writers : FailBare(v) \/ FailWithTemporary(v) \/ FailCleanup(v)
      <3>1. ~Spend("io")
        BY <2>1, FaultsGrow, SpendCounts DEF TypeOK, Faults
      <3> QED
        BY <3>1 DEF FailBare, FailWithTemporary, FailCleanup
    <2>3. RecheckChain(w) \/ StatInstalled(w) \/ UnlinkInstalled(w)
      <3>1. ~WorldMoves
        BY <2>1
        DEF WorldMoves, PowerLoss, Corrupt, ForeignReplace, Relocate, TypeOK,
            Active, Locked
      <3>2. PICK v \in Writers : WriterMoves(v)
        BY <3>1, NextSplits
      <3>3. v = w
        BY <2>1, <3>2, MovesAlone
      <3>4. ~Kill(w)
        BY <2>1 DEF Kill, End, TypeOK
      <3>5. ~\E g \in Digests : Begin(w, g)
        BY DEF Begin, Ended
      <3>6. Step(w)
        BY <2>2, <3>2, <3>3, <3>4, <3>5 DEF WriterMoves
      <3> QED
        BY <3>6
        DEF Step, MakeRoot, MakeDirectory, SyncParent, OpenDirectory, AcquireLock,
            InspectExisting, ConfirmExisting, CreateTemporary, WriteTemporary,
            SyncTemporary, CheckChain, ReplaceLeaf, SyncDirectory,
            DiscardTemporary, Goto
    <2>4. ~RecheckChain(w)
      BY <2>1 DEF RecheckChain, Goto, Acknowledge, End, TypeOK
    <2>5. CASE StatInstalled(w)
      BY <2>1, <2>5 DEF StatInstalled, Goto, disk, TypeOK
    <2>6. CASE UnlinkInstalled(w)
      BY <2>1, <2>6, EvidenceAssumptions DEF UnlinkInstalled, NoFile, TypeOK
    <2> QED
      BY <2>3, <2>4, <2>5, <2>6
  <1>2. IInv /\ [Next]_vars => [cleaned]_vars
    BY <1>1
  <1> QED
    BY <1>2, Inductive, PTL DEF Spec, RelocationCleaned

\* As long as nobody renames the directory, an open one is the one in place.
OpenIsPlace == faults["relocate"] = 0 =>
                 \A w \in Writers : fd[w] \in Dirs => fd[w] = place

\* A step that is not a rename keeps it so: only mkdir and a power loss change
\* what the name leads to, and then no directory is open.
LEMMA OpenStep == IInv /\ OpenIsPlace /\ [Next]_vars => OpenIsPlace'
  <1> SUFFICES ASSUME IInv, OpenIsPlace, [Next]_vars, faults'["relocate"] = 0
               PROVE  \A w \in Writers : fd'[w] \in Dirs => fd'[w] = place'
    BY DEF OpenIsPlace
  <1>1. /\ TypeOK /\ faults["relocate"] = 0 /\ NoDir \notin Dirs
        /\ "absent" \notin Dirs
        /\ \A w \in Writers : fd[w] \in Dirs => fd[w] = place
    BY FaultsGrow, EvidenceAssumptions DEF IInv, OpenIsPlace, TypeOK, Faults
  <1>2. CASE UNCHANGED <<fd, place>>
    BY <1>1, <1>2
  <1>3. CASE PowerLoss
    BY <1>1, <1>3 DEF PowerLoss
  <1>4. CASE \E p \in RelocateTo : Relocate(p)
    <2>1. Spend("relocate")
      BY <1>4 DEF Relocate
    <2> QED
      BY <1>1, <2>1, SpendCounts DEF Faults
  <1>5. ASSUME NEW w \in Writers, WriterMoves(w)
        PROVE  \A v \in Writers : fd'[v] \in Dirs => fd'[v] = place'
    <2>1. \A v \in Writers \ {w} : fd'[v] = fd[v]
      BY <1>1, <1>5, MovesAlone
    <2>2. \/ place' = place /\ fd'[w] \in {fd[w], NoDir, place}
          \/ place = "absent" /\ fd'[w] = fd[w]
      BY <1>1, <1>5
      DEF TypeOK, WriterMoves, Step, Begin, MakeRoot, MakeDirectory, SyncParent,
          OpenDirectory, AcquireLock, InspectExisting, ConfirmExisting,
          CreateTemporary, WriteTemporary, SyncTemporary, CheckChain,
          ReplaceLeaf, SyncDirectory, RecheckChain, StatInstalled,
          UnlinkInstalled, DiscardTemporary, FailBare, FailWithTemporary,
          FailCleanup, Kill, Acknowledge, End, names
    <2> QED
      BY <1>1, <2>1, <2>2
  <1> QED
    BY <1>2, <1>3, <1>4, <1>5, NextSplits
    DEF WorldMoves, Corrupt, ForeignReplace, names, vars

-----------------------------------------------------------------------------
(***************************************************************************)
(* Temporary files.                                                        *)
(***************************************************************************)

\* At most one call fails or one rename happens, and nobody dies.
Calm == /\ faults["kill"] = 0 /\ faults["power"] = 0
        /\ faults["io"] + faults["relocate"] <= 1

\* In a calm store only a put between its create and its replace has a
\* temporary file, and one that is discarding it has had its failure.
TempOwned ==
    Calm => \A w \in Writers :
              /\ temp[w] # "absent" => pc[w] \in TempPhases
              /\ pc[w] = "discard" => faults["io"] + faults["relocate"] = 1

\* Every step keeps it so.
LEMMA OwnedStep == IInv /\ OpenIsPlace /\ TempOwned /\ [Next]_vars => TempOwned'
  <1> SUFFICES ASSUME IInv, OpenIsPlace, TempOwned, [Next]_vars, Calm'
               PROVE  TempOwned'
    BY DEF TempOwned
  <1> DEFINE failures == faults["io"] + faults["relocate"]
  <1>1. /\ TypeOK /\ failures \in Nat /\ failures' \in Nat
        /\ failures <= failures' /\ failures' <= 1
        /\ faults["io"] \in Nat /\ faults["relocate"] \in Nat
    BY FaultsGrow DEF IInv, Calm, Faults
  <1>2. Calm
    BY <1>1, FaultsGrow DEF Calm, Faults
  <1> DEFINE owned(w) == /\ temp[w] # "absent" => pc[w] \in TempPhases
                         /\ pc[w] = "discard" => failures = 1
  <1>3. \A w \in Writers : owned(w)
    BY <1>2 DEF TempOwned
  <1>4. CASE UNCHANGED <<pc, temp>>
    BY <1>1, <1>3, <1>4 DEF TempOwned
  <1>5. ~PowerLoss /\ ~\E w \in Writers : Kill(w)
    <2>1. ~Spend("power") /\ ~Spend("kill")
      BY <1>1, FaultsGrow, SpendCounts DEF Calm, Faults
    <2> QED
      BY <2>1 DEF PowerLoss, Kill
  <1>6. ASSUME NEW w \in Writers, WriterMoves(w) PROVE TempOwned'
    <2>1. \A v \in Writers \ {w} : pc'[v] = pc[v] /\ temp'[v] = temp[v]
      BY <1>1, <1>6, MovesAlone
    <2>2. \A v \in Writers \ {w} : owned(v)'
      BY <1>1, <1>3, <2>1
    <2>3. Spend("io") => failures' = failures + 1
      BY <1>1, SpendCounts DEF Faults
    <2>4. owned(w)'
      <3>0. /\ pc \in [Writers -> Ended \cup Active]
            /\ temp \in [Writers -> Contents] /\ owned(w)
        BY <1>1, <1>3 DEF TypeOK
      <3>1. CASE FailWithTemporary(w)
        BY <1>1, <2>3, <3>0, <3>1 DEF FailWithTemporary, TempPhases
      <3>2. CASE FailCleanup(w)
        <4>1. pc[w] # "discard"
          BY <1>1, <2>3, <3>0, <3>2 DEF FailCleanup
        <4> QED
          BY <3>0, <3>2, <4>1 DEF FailCleanup, End, TempPhases
      <3>3. CASE FailBare(w)
        BY <3>0, <3>3 DEF FailBare, End, Ended, Active, Locked, TempPhases
      <3>4. CASE CheckChain(w)
        <4>1. pc[w] = "check" /\ fd[w] \in Dirs
          BY <3>4 DEF CheckChain, Goto, IInv, LocksHeld, HoldsLock, Locked
        <4>2. place # fd[w] => failures = 1
          BY <1>1, <4>1 DEF OpenIsPlace
        <4>3. faults' = faults
          BY <3>4 DEF CheckChain
        <4> QED
          BY <3>0, <3>4, <4>2, <4>3 DEF CheckChain, Goto, TempPhases
      <3>5. CASE ReplaceLeaf(w) \/ DiscardTemporary(w)
        BY <3>0, <3>5 DEF ReplaceLeaf, DiscardTemporary, Goto, End
      <3>6. CASE CreateTemporary(w) \/ WriteTemporary(w) \/ SyncTemporary(w)
        BY <3>0, <3>6
        DEF CreateTemporary, WriteTemporary, SyncTemporary, Goto, TempPhases
      <3>7. CASE \/ \E g \in Digests : Begin(w, g)
                 \/ MakeRoot(w) \/ MakeDirectory(w) \/ SyncParent(w)
                 \/ OpenDirectory(w)
                 \/ AcquireLock(w) \/ InspectExisting(w) \/ ConfirmExisting(w)
                 \/ SyncDirectory(w) \/ RecheckChain(w) \/ StatInstalled(w)
                 \/ UnlinkInstalled(w)
        <4>1. temp' = temp /\ pc[w] \notin TempPhases /\ pc'[w] # "discard"
          BY <3>0, <3>7
          DEF Begin, MakeRoot, MakeDirectory, SyncParent, OpenDirectory, AcquireLock,
              InspectExisting, ConfirmExisting, SyncDirectory, RecheckChain,
              StatInstalled, UnlinkInstalled, Goto, Acknowledge, End, Ended,
              TempPhases
        <4> QED
          BY <3>0, <4>1
      <3> QED
        BY <1>5, <1>6, <3>1, <3>2, <3>3, <3>4, <3>5, <3>6, <3>7
        DEF WriterMoves, Step
    <2> QED
      BY <2>2, <2>4 DEF TempOwned
  <1> QED
    BY <1>4, <1>5, <1>6, NextSplits
    DEF WorldMoves, Corrupt, ForeignReplace, Relocate, vars

\* _put_locked (evidence.py:109-147) unlinks its temporary file whatever call
\* fails and whether or not the directory is still in place: one is left behind
\* only by a kill, a power loss or a second failure, in the cleanup.
THEOREM NoTemporaryLeft == Spec => []NoTempLeft
  <1>1. Init => OpenIsPlace /\ TempOwned
    BY EvidenceAssumptions DEF Init, OpenIsPlace, TempOwned
  <1>2. TempOwned => NoTempLeft
    BY DEF TempOwned, Calm, NoTempLeft
  <1> QED
    BY <1>1, <1>2, Inductive, OpenStep, OwnedStep, PTL DEF Spec

-----------------------------------------------------------------------------
(***************************************************************************)
(* Valid leaves.                                                           *)
(***************************************************************************)

\* As long as every program takes the lock, a put that is about to replace its
\* leaf has found it missing or damaged, and one that is about to remove it has
\* found it to be its own.
LeafAsFound ==
    faults["foreign"] = 0 => \A w \in Writers :
        /\ pc[w] \in {"create", "write", "sync", "check", "replace"}
             => ~Matches(leaf[fd[w]][dig[w]])
        /\ pc[w] = "unlink" => leaf[fd[w]][dig[w]].by = w

\* Which leaves a put may touch: the one it has locked, in two of its steps.
LEMMA LeafTouched ==
  ASSUME IInv, NEW w \in Writers, WriterMoves(w), leaf' # leaf
  PROVE  /\ pc[w] \in {"replace", "unlink"}
         /\ \A d \in Dirs, g \in Digests :
              leaf'[d][g] # leaf[d][g] => d = fd[w] /\ g = dig[w]
         /\ pc[w] = "unlink" => leaf'[fd[w]][dig[w]] \in {NoFile, leaf[fd[w]][dig[w]]}
  <1>1. TypeOK /\ (pc[w] \in Locked => fd[w] \in Dirs) /\ dig[w] \in Digests
    BY DEF IInv, TypeOK, LocksHeld, HoldsLock
  <1>2. ReplaceLeaf(w) \/ UnlinkInstalled(w) \/ FailCleanup(w)
    BY DEF WriterMoves, Step, Begin, MakeRoot, MakeDirectory, SyncParent,
           OpenDirectory, AcquireLock, InspectExisting, ConfirmExisting,
           CreateTemporary, WriteTemporary, SyncTemporary, CheckChain,
           SyncDirectory, RecheckChain, StatInstalled, DiscardTemporary,
           FailBare, FailWithTemporary, Kill, disk
  <1>3. pc[w] \in {"replace", "unlink"}
    BY <1>2 DEF ReplaceLeaf, UnlinkInstalled, FailCleanup, Goto
  <1>4. \/ leaf' = [leaf EXCEPT ![fd[w]][dig[w]] = NoFile]
        \/ pc[w] = "replace" /\ leaf' = [leaf EXCEPT ![fd[w]][dig[w]] =
                                           [by |-> w, data |-> temp[w]]]
    BY <1>2 DEF ReplaceLeaf, UnlinkInstalled, FailCleanup, Goto
  <1>5. leaf \in [Dirs -> [Digests -> File]] /\ fd[w] \in Dirs
    BY <1>1, <1>3 DEF TypeOK, Locked
  <1> QED
    BY <1>1, <1>3, <1>4, <1>5

\* Damage leaves a leaf's owner as it was and its bytes invalid.
LEMMA CorruptLeaf ==
  ASSUME TypeOK, NEW d \in Dirs, NEW g \in Digests, Corrupt(d, g),
         NEW e \in Dirs, NEW h \in Digests
  PROVE  /\ leaf'[e][h].by = leaf[e][h].by
         /\ Matches(leaf[e][h])' => Matches(leaf[e][h])
  <1>1. leaf[d][g] \in File /\ leaf[e][h] \in File
    BY DEF TypeOK
  <1>2. leaf'[e][h] = IF e = d /\ h = g THEN [leaf[d][g] EXCEPT !.data = "corrupt"]
                                        ELSE leaf[e][h]
    BY DEF Corrupt, TypeOK
  <1> QED
    BY <1>1, <1>2 DEF Matches, File

\* Every step keeps what a put has found.
LEMMA AsFoundStep == IInv /\ LeafAsFound /\ [Next]_vars => LeafAsFound'
  <1> SUFFICES ASSUME IInv, LeafAsFound, [Next]_vars, faults'["foreign"] = 0
               PROVE  LeafAsFound'
    BY DEF LeafAsFound
  <1> DEFINE Making == {"create", "write", "sync", "check", "replace"}
             found(v) == /\ pc[v] \in Making => ~Matches(leaf[fd[v]][dig[v]])
                         /\ pc[v] = "unlink" => leaf[fd[v]][dig[v]].by = v
  <1>1. /\ TypeOK /\ LocksHeld /\ faults["foreign"] = 0
        /\ \A v \in Writers : found(v)
    BY FaultsGrow DEF IInv, LeafAsFound, TypeOK, Faults
  <1>2. \A v \in Writers : pc[v] \in Making \cup {"unlink"} =>
                             fd[v] \in Dirs /\ dig[v] \in Digests
    BY <1>1 DEF LocksHeld, HoldsLock, Locked, TypeOK
  <1>3. CASE UNCHANGED <<leaf, pc, fd, dig>>
    BY <1>1, <1>3 DEF LeafAsFound, Matches
  <1>4. CASE PowerLoss
    BY <1>1, <1>4 DEF PowerLoss, LeafAsFound, TypeOK, Active, Locked
  <1>5. ASSUME NEW d \in Dirs, NEW g \in Digests, Corrupt(d, g)
        PROVE  LeafAsFound'
    <2>1. UNCHANGED <<pc, fd, dig>>
      BY <1>5 DEF Corrupt
    <2>2. \A v \in Writers : pc[v] \in Making \cup {"unlink"} =>
            /\ leaf'[fd[v]][dig[v]].by = leaf[fd[v]][dig[v]].by
            /\ Matches(leaf'[fd[v]][dig[v]]) => Matches(leaf[fd[v]][dig[v]])
      BY <1>1, <1>2, <1>5, CorruptLeaf DEF Matches
    <2> QED
      BY <1>1, <2>1, <2>2 DEF LeafAsFound, Matches
  <1>6. ~\E d \in Dirs, g \in Digests : ForeignReplace(d, g)
    <2>1. ~Spend("foreign")
      BY <1>1, SpendCounts DEF Faults
    <2> QED
      BY <2>1 DEF ForeignReplace
  <1>7. ASSUME NEW w \in Writers, WriterMoves(w) PROVE LeafAsFound'
    <2>1. ASSUME NEW v \in Writers \ {w} PROVE found(v)'
      <3>1. pc'[v] = pc[v] /\ fd'[v] = fd[v] /\ dig'[v] = dig[v]
        BY <1>1, <1>7, MovesAlone
      <3>2. pc[v] \in Making \cup {"unlink"} =>
              leaf'[fd[v]][dig[v]] = leaf[fd[v]][dig[v]]
        <4>1. pc[v] \in Making \cup {"unlink"} =>
                ~(pc[w] \in Locked /\ fd[w] = fd[v] /\ dig[w] = dig[v])
          BY <1>1 DEF LocksHeld, HoldsLock, Locked
        <4> QED
          BY <1>2, <1>7, <4>1, LeafTouched DEF Locked
      <3> QED
        BY <1>1, <3>1, <3>2 DEF Matches
    <2>2. found(w)'
      <3>1. CASE pc'[w] \notin Making \cup {"unlink"}
        BY <3>1
      <3>2. CASE InspectExisting(w) \/ StatInstalled(w)
        BY <1>1, <3>2
        DEF InspectExisting, StatInstalled, Goto, disk, TypeOK, Matches, End
      <3>3. CASE /\ pc[w] \in Making \ {"replace"} /\ pc'[w] \in Making
                 /\ UNCHANGED <<leaf, fd, dig>>
        BY <1>1, <3>3 DEF Matches
      <3>4. CASE UNCHANGED <<leaf, fd, dig, pc>>
        BY <1>1, <3>4 DEF Matches
      <3>5. pc'[w] \in Making \cup {"unlink"} =>
              \/ InspectExisting(w) \/ StatInstalled(w)
              \/ /\ pc[w] \in Making \ {"replace"} /\ pc'[w] \in Making
                 /\ UNCHANGED <<leaf, fd, dig>>
        BY <1>1, <1>7
        DEF TypeOK, WriterMoves, Step, Begin, MakeRoot, MakeDirectory, SyncParent,
            OpenDirectory, AcquireLock, ConfirmExisting, CreateTemporary,
            WriteTemporary, SyncTemporary, CheckChain, ReplaceLeaf,
            SyncDirectory, RecheckChain, UnlinkInstalled, DiscardTemporary,
            FailBare, FailWithTemporary, FailCleanup, Kill, disk, Goto,
            Acknowledge, End, Ended
      <3> QED
        BY <3>1, <3>2, <3>3, <3>5
    <2> QED
      BY <2>1, <2>2 DEF LeafAsFound
  <1> QED
    BY <1>3, <1>4, <1>5, <1>6, <1>7, NextSplits
    DEF WorldMoves, Relocate, disk, vars

\* "Preserve the valid committed leaf" (evidence.py:149): as long as every
\* program takes the lock, put_bytes never replaces a valid leaf, and only the
\* cleanup of the put that installed it removes it (evidence.py:344-361).
THEOREM ValidLeavesKept == Spec => ValidLeafKept
  <1> DEFINE kept == \A d \in Dirs, g \in Digests :
               /\ Matches(leaf[d][g]) /\ leaf'[d][g].by # leaf[d][g].by
               /\ faults'["foreign"] = 0 /\ faults'["power"] = faults["power"]
               => /\ leaf'[d][g] = NoFile
                  /\ \E w \in Writers : /\ pc[w] = "unlink"
                                        /\ fd[w] = d /\ dig[w] = g
                                        /\ leaf[d][g].by = w
  <1>1. ASSUME IInv, LeafAsFound, [Next]_vars PROVE kept \/ UNCHANGED vars
    <2> SUFFICES ASSUME Next, NEW d \in Dirs, NEW g \in Digests,
                        Matches(leaf[d][g]), leaf'[d][g].by # leaf[d][g].by,
                        faults'["foreign"] = 0, faults'["power"] = faults["power"]
                 PROVE  /\ leaf'[d][g] = NoFile
                        /\ \E w \in Writers : /\ pc[w] = "unlink"
                                              /\ fd[w] = d /\ dig[w] = g
                                              /\ leaf[d][g].by = w
      BY <1>1
    <2>1. TypeOK /\ faults["foreign"] = 0 /\ faults["power"] \in Nat
      BY <1>1, FaultsGrow DEF IInv, TypeOK, Faults
    <2>2. ~WorldMoves
      <3>1. ~Spend("power") /\ ~Spend("foreign")
        BY <2>1, SpendCounts DEF Faults
      <3>2. ~\E e \in Dirs, h \in Digests : Corrupt(e, h)
        BY <2>1, CorruptLeaf
      <3> QED
        BY <3>1, <3>2 DEF WorldMoves, PowerLoss, ForeignReplace, Relocate, disk
    <2>3. PICK w \in Writers : WriterMoves(w)
      BY <2>2, NextSplits
    <2>4. /\ pc[w] \in {"replace", "unlink"} /\ d = fd[w] /\ g = dig[w]
          /\ pc[w] = "unlink" => leaf'[d][g] \in {NoFile, leaf[d][g]}
      BY <1>1, <2>3, LeafTouched
    <2> QED
      BY <1>1, <2>1, <2>4 DEF LeafAsFound
  <1>2. IInv /\ LeafAsFound /\ [Next]_vars => [kept]_vars
    BY <1>1
  <1>3. Init => LeafAsFound
    BY DEF Init, LeafAsFound, Ended
  <1> QED
    BY <1>2, <1>3, Inductive, AsFoundStep, PTL DEF Spec, ValidLeafKept

-----------------------------------------------------------------------------
(***************************************************************************)
(* Durability, and the promise of ContentStore.                            *)
(***************************************************************************)

\* Nothing but the power fails.
Quiet == \A k \in Faults \ {"power"} : faults[k] = 0

\* A directory entry that is not yet on disk has a put about to sync it.
ParentPending == ~anchored => \E w \in Writers : pc[w] = "syncparent"

\* The disk has what the leaves show, but for a put that has just replaced one.
DiskFollows ==
    \A d \in Dirs, g \in Digests :
        /\ durable[d][g].data = "whole" => leaf[d][g].data = "whole"
        /\ leaf[d][g].data = "whole" =>
             \/ durable[d][g].data = "whole"
             \/ \E w \in Writers : pc[w] = "dirsync" /\ fd[w] = d /\ dig[w] = g

\* No put is on an error path, and one about to return has its leaf on disk.
PutsStored ==
    \A w \in Writers :
        /\ pc[w] \notin {"stat", "unlink", "discard"}
        /\ pc[w] = "dirsync" => leaf[fd[w]][dig[w]].data = "whole"
        /\ pc[w] \in {"confirm", "recheck"} => durable[fd[w]][dig[w]].data = "whole"

\* The inductive invariant behind AckDurableBelowRoot.
QuietInv == Quiet => ParentPending /\ DiskFollows /\ PutsStored

\* The store was quiet before any quiet step, and the step is no fault but a
\* power loss.
LEMMA QuietSteps ==
  ASSUME TypeOK, [Next]_vars, Quiet'
  PROVE  /\ Quiet
         /\ \/ UNCHANGED vars
            \/ PowerLoss
            \/ \E w \in Writers : Step(w) \/ \E g \in Digests : Begin(w, g)
  <1>1. Quiet
    BY FaultsGrow DEF Quiet
  <1>2. ASSUME NEW k \in Faults \ {"power"}, Spend(k) PROVE FALSE
    BY <1>1, <1>2, SpendCounts DEF Quiet
  <1>3. ~\E w \in Writers : FailBare(w) \/ FailWithTemporary(w)
                            \/ FailCleanup(w) \/ Kill(w)
    BY <1>2 DEF FailBare, FailWithTemporary, FailCleanup, Kill, Faults
  <1>4. /\ ~\E d \in Dirs, g \in Digests : Corrupt(d, g) \/ ForeignReplace(d, g)
        /\ ~\E p \in RelocateTo : Relocate(p)
    BY <1>2 DEF Corrupt, ForeignReplace, Relocate, Faults
  <1> QED
    BY <1>1, <1>3, <1>4 DEF Next, Fault

\* What a put does in a quiet store, as far as durability is concerned.
Proceeds(w) ==
    /\ UNCHANGED disk
    /\ pc'[w] \notin {"stat", "unlink", "discard", "dirsync", "recheck"}
    /\ pc[w] # "dirsync"
    /\ pc'[w] = "confirm" => /\ pc[w] = "inspect" /\ UNCHANGED <<fd, dig>>
                             /\ Matches(leaf[fd[w]][dig[w]])
    /\ \/ anchored' = anchored /\ pc[w] # "syncparent"
       \/ anchored' = TRUE
       \/ pc'[w] = "syncparent"

\* In a quiet store a put proceeds, replaces its leaf or syncs its directory.
LEMMA QuietPut ==
  ASSUME IInv, OpenIsPlace, QuietInv, Quiet, NEW w \in Writers,
         Step(w) \/ \E g \in Digests : Begin(w, g)
  PROVE  Proceeds(w) \/ ReplaceLeaf(w) \/ SyncDirectory(w)
  <1>1. /\ TypeOK /\ pc[w] \notin {"stat", "unlink", "discard"}
        /\ pc[w] \in {"check", "recheck"} => place = fd[w]
    BY DEF IInv, QuietInv, PutsStored, OpenIsPlace, LocksHeld, HoldsLock,
           Locked, Quiet, Faults
  <1>2. CASE \E g \in Digests : Begin(w, g)
    BY <1>1, <1>2 DEF Begin, Proceeds, TypeOK, names, Ended
  <1>3. CASE MakeRoot(w) \/ MakeDirectory(w) \/ SyncParent(w)
    BY <1>1, <1>3
    DEF MakeRoot, MakeDirectory, SyncParent, Proceeds, Goto, TypeOK, names
  <1>4. CASE OpenDirectory(w) \/ AcquireLock(w) \/ InspectExisting(w)
    BY <1>1, <1>4
    DEF OpenDirectory, AcquireLock, InspectExisting, Proceeds, Goto, End,
        TypeOK, names
  <1>5. CASE ConfirmExisting(w) \/ CreateTemporary(w) \/ WriteTemporary(w)
    BY <1>1, <1>5
    DEF ConfirmExisting, CreateTemporary, WriteTemporary, Acknowledge, End,
        Proceeds, Goto, TypeOK, names
  <1>6. CASE SyncTemporary(w) \/ CheckChain(w) \/ RecheckChain(w)
    BY <1>1, <1>6
    DEF SyncTemporary, CheckChain, RecheckChain, Acknowledge, End, Proceeds,
        Goto, TypeOK, names
  <1>7. ~StatInstalled(w) /\ ~UnlinkInstalled(w) /\ ~DiscardTemporary(w)
    BY <1>1 DEF StatInstalled, UnlinkInstalled, DiscardTemporary, Goto
  <1> QED
    BY <1>2, <1>3, <1>4, <1>5, <1>6, <1>7 DEF Step

\* A replace puts the whole file under its name, and moves only its own put.
LEMMA QuietReplace ==
  ASSUME IInv, NEW w \in Writers, ReplaceLeaf(w)
  PROVE  /\ fd[w] \in Dirs /\ dig[w] \in Digests
         /\ pc[w] = "replace" /\ pc'[w] = "dirsync"
         /\ UNCHANGED <<durable, anchored, fd, dig, place, acked>>
         /\ \A d \in Dirs, g \in Digests :
              leaf'[d][g] = IF d = fd[w] /\ g = dig[w]
                            THEN [by |-> w, data |-> "whole"] ELSE leaf[d][g]
  BY DEF IInv, TypeOK, LocksHeld, HoldsLock, Locked, TempReady, ReplaceLeaf,
         Goto, names

\* A directory fsync brings every leaf of the directory to disk.
LEMMA QuietSync ==
  ASSUME IInv, NEW w \in Writers, SyncDirectory(w)
  PROVE  /\ fd[w] \in Dirs /\ dig[w] \in Digests
         /\ pc[w] = "dirsync" /\ pc'[w] = "recheck"
         /\ UNCHANGED <<leaf, anchored, fd, dig, place, acked>>
         /\ \A d \in Dirs, g \in Digests :
              durable'[d][g] = IF d = fd[w] THEN leaf[d][g] ELSE durable[d][g]
  BY DEF IInv, TypeOK, LocksHeld, HoldsLock, Locked, SyncDirectory, Goto, names

\* Every step of a quiet store keeps the disk up with the leaves.
LEMMA QuietStep == IInv /\ OpenIsPlace /\ QuietInv /\ [Next]_vars => QuietInv'
  <1> SUFFICES ASSUME IInv, OpenIsPlace, QuietInv, [Next]_vars, Quiet'
               PROVE  ParentPending' /\ DiskFollows' /\ PutsStored'
    BY DEF QuietInv
  <1>1. /\ TypeOK /\ Quiet /\ ParentPending /\ DiskFollows /\ PutsStored
        /\ LocksHeld /\ LeavesSettled
    BY QuietSteps DEF IInv, QuietInv
  <1>2. CASE UNCHANGED vars
    BY <1>1, <1>2 DEF vars, ParentPending, DiskFollows, PutsStored
  <1>3. CASE PowerLoss
    BY <1>1, <1>3
    DEF PowerLoss, ParentPending, DiskFollows, PutsStored, TypeOK, Active, Locked
  <1>4. ASSUME NEW w \in Writers, Step(w) \/ \E g \in Digests : Begin(w, g)
        PROVE  ParentPending' /\ DiskFollows' /\ PutsStored'
    <2>1. \A v \in Writers \ {w} : /\ pc'[v] = pc[v] /\ fd'[v] = fd[v]
                                   /\ dig'[v] = dig[v]
      BY <1>1, <1>4, MovesAlone DEF WriterMoves
    <2>2. CASE Proceeds(w)
      <3>1. ParentPending'
        BY <1>1, <2>1, <2>2 DEF Proceeds, ParentPending
      <3>2. DiskFollows'
        BY <1>1, <2>1, <2>2 DEF Proceeds, DiskFollows, disk
      <3>3. pc'[w] = "confirm" => durable[fd[w]][dig[w]].data = "whole"
        <4> SUFFICES ASSUME pc'[w] = "confirm"
                     PROVE  durable[fd[w]][dig[w]].data = "whole"
          OBVIOUS
        <4>1. /\ pc[w] = "inspect" /\ fd[w] \in Dirs /\ dig[w] \in Digests
              /\ Matches(leaf[fd[w]][dig[w]])
          BY <1>1, <2>2 DEF Proceeds, LocksHeld, HoldsLock, Locked, TypeOK
        <4>2. leaf[fd[w]][dig[w]].data = "whole"
          BY <1>1, <4>1 DEF Matches, LeavesSettled, Settled
        <4>3. ~\E v \in Writers : pc[v] = "dirsync" /\ fd[v] = fd[w] /\ dig[v] = dig[w]
          BY <1>1, <4>1 DEF LocksHeld, HoldsLock, Locked
        <4> QED
          BY <1>1, <4>1, <4>2, <4>3 DEF DiskFollows
      <3>4. PutsStored'
        BY <1>1, <2>1, <2>2, <3>3 DEF Proceeds, PutsStored, disk
      <3> QED
        BY <3>1, <3>2, <3>4
    <2>3. CASE ReplaceLeaf(w)
      <3>0. /\ fd[w] \in Dirs /\ dig[w] \in Digests
            /\ pc[w] = "replace" /\ pc'[w] = "dirsync"
            /\ UNCHANGED <<durable, anchored, fd, dig>>
            /\ \A d \in Dirs, g \in Digests :
                 leaf'[d][g] = IF d = fd[w] /\ g = dig[w]
                               THEN [by |-> w, data |-> "whole"] ELSE leaf[d][g]
        BY <2>3, QuietReplace
      <3>1. ParentPending'
        BY <1>1, <2>1, <3>0 DEF ParentPending
      <3>2. DiskFollows'
        BY <1>1, <2>1, <3>0 DEF DiskFollows
      <3>3. \A v \in Writers : pc[v] = "dirsync" => fd[v] \in Dirs /\ dig[v] \in Digests
        BY <1>1 DEF LocksHeld, HoldsLock, Locked, TypeOK
      <3>4. PutsStored'
        BY <1>1, <2>1, <3>0, <3>3 DEF PutsStored
      <3> QED
        BY <3>1, <3>2, <3>4
    <2>4. CASE SyncDirectory(w)
      <3>0. /\ fd[w] \in Dirs /\ dig[w] \in Digests
            /\ pc[w] = "dirsync" /\ pc'[w] = "recheck"
            /\ UNCHANGED <<leaf, anchored, fd, dig>>
            /\ \A d \in Dirs, g \in Digests :
                 durable'[d][g] = IF d = fd[w] THEN leaf[d][g] ELSE durable[d][g]
        BY <2>4, QuietSync
      <3>1. ParentPending'
        BY <1>1, <2>1, <3>0 DEF ParentPending
      <3>2. DiskFollows'
        BY <1>1, <2>1, <3>0 DEF DiskFollows
      <3>3. \A v \in Writers : pc[v] \in {"confirm", "recheck"} =>
                                 fd[v] \in Dirs /\ dig[v] \in Digests
        BY <1>1 DEF LocksHeld, HoldsLock, Locked, TypeOK
      <3>4. PutsStored'
        BY <1>1, <2>1, <3>0, <3>3 DEF PutsStored, DiskFollows
      <3> QED
        BY <3>1, <3>2, <3>4
    <2> QED
      BY <1>1, <1>4, <2>2, <2>3, <2>4, QuietPut
  <1> QED
    BY <1>2, <1>3, <1>4, <1>1, QuietSteps

\* A power loss has taken a root that some put made.
RootLost == root # "kept" /\ root' = "absent"

\* In a quiet store what is acknowledged is on disk when it is acknowledged and
\* stays there, unless its directory's entry is still to be synced or the root
\* itself is lost.
LEMMA AckStep ==
  ASSUME IInv, OpenIsPlace, QuietInv, [Next]_vars, Quiet', NEW g \in acked',
         g \in acked => BelowRoot(g)
  PROVE  BelowRoot(g)' \/ ~anchored' \/ RootLost
  <1>1. /\ TypeOK /\ LocksHeld /\ LeavesSettled /\ Quiet
        /\ DiskFollows /\ PutsStored
    BY QuietSteps DEF IInv, QuietInv
  <1>0. g \in Digests
    BY TypeStep DEF IInv, TypeOK
  <1>2. CASE UNCHANGED vars
    BY <1>2 DEF vars, BelowRoot
  <1>3. CASE PowerLoss /\ ~RootLost
    <2>1. /\ place \in Dirs /\ anchored /\ durable[place][g].data = "whole"
          /\ leaf[place][g].data = "whole"
      BY <1>0, <1>1, <1>3 DEF PowerLoss, BelowRoot, DiskFollows
    <2>2. PICK lost, torn \in SUBSET (Dirs \X Digests), gone \in BOOLEAN :
            /\ gone => ~anchored \/ root' = "absent"
            /\ leaf' = [d \in Dirs |-> [h \in Digests |->
                          AfterOutage(d, h, lost, torn, gone)]]
            /\ place' = IF gone THEN "absent" ELSE place
      BY <1>3 DEF PowerLoss
    <2>3. ~gone /\ place' = place
      <3>1. PowerLoss => (root' = "absent" => root # "kept")
        BY DEF PowerLoss
      <3> QED
        BY <1>3, <2>1, <2>2, <3>1 DEF RootLost
    <2>4. leaf'[place][g] \in {durable[place][g], leaf[place][g]}
      <3>1. leaf'[place][g] = AfterOutage(place, g, lost, torn, gone)
        BY <1>0, <2>1, <2>2
      <3>2. \A tear : /\ Survivor(durable[place][g], tear) = durable[place][g]
                      /\ Survivor(leaf[place][g], tear) = leaf[place][g]
        BY <2>1 DEF Survivor
      <3>3. \/ AfterOutage(place, g, lost, torn, gone)
                 = Survivor(durable[place][g], <<place, g>> \in torn)
            \/ AfterOutage(place, g, lost, torn, gone)
                 = Survivor(leaf[place][g], <<place, g>> \in torn)
        BY <2>3 DEF AfterOutage
      <3> QED
        BY <3>1, <3>2, <3>3
    <2> QED
      BY <1>3, <2>1, <2>3, <2>4 DEF PowerLoss, BelowRoot
  <1>4. ASSUME NEW w \in Writers, Step(w) \/ \E h \in Digests : Begin(w, h)
        PROVE  BelowRoot(g)' \/ ~anchored'
    <2>1. CASE g \in acked
      <3>1. /\ place \in Dirs /\ anchored /\ durable[place][g].data = "whole"
            /\ leaf[place][g].data = "whole"
        BY <1>0, <1>1, <2>1 DEF BelowRoot, DiskFollows
      <3>2. place' = place
        BY <1>4, <3>1, EvidenceAssumptions
        DEF Step, Begin, MakeRoot, MakeDirectory, SyncParent, OpenDirectory,
            AcquireLock, InspectExisting, ConfirmExisting, CreateTemporary, WriteTemporary,
            SyncTemporary, CheckChain, ReplaceLeaf, SyncDirectory,
            RecheckChain, StatInstalled, UnlinkInstalled, DiscardTemporary,
            names
      <3>3. durable'[place][g].data = "whole"
        <4>1. CASE durable' = durable
          BY <3>1, <4>1
        <4>2. CASE SyncDirectory(w)
          BY <1>0, <1>1, <3>1, <4>2, QuietSync
        <4> QED
          BY <1>1, <1>4, <4>1, <4>2, QuietPut, QuietReplace DEF Proceeds, disk
      <3> QED
        BY <3>1, <3>2, <3>3 DEF BelowRoot
    <2>2. CASE g \notin acked
      <3>1. ConfirmExisting(w) \/ RecheckChain(w)
        <4>1. ~DiscardTemporary(w)
          BY <1>1 DEF DiscardTemporary, PutsStored
        <4> QED
          BY <1>4, <2>2, <4>1
          DEF Step, Begin, MakeRoot, MakeDirectory, SyncParent, OpenDirectory,
              AcquireLock, InspectExisting, CreateTemporary, WriteTemporary,
              SyncTemporary, CheckChain, ReplaceLeaf, SyncDirectory,
              StatInstalled, UnlinkInstalled
      <3>2. /\ pc[w] \in {"confirm", "recheck"} /\ place = fd[w] /\ g = dig[w]
            /\ UNCHANGED <<place, durable>>
        BY <2>2, <3>1
        DEF ConfirmExisting, RecheckChain, Acknowledge, Goto, names, disk
      <3>3. fd[w] \in Dirs /\ durable[fd[w]][dig[w]].data = "whole"
        BY <1>1, <3>2 DEF PutsStored, LocksHeld, HoldsLock, Locked
      <3> QED
        BY <3>2, <3>3 DEF BelowRoot
    <2> QED
      BY <2>1, <2>2
  <1> QED
    BY <1>1, <1>2, <1>3, <1>4, QuietSteps

\* At first nothing is stored, and nothing has failed.
LEMMA QuietInit == Init => OpenIsPlace /\ QuietInv
  BY EvidenceAssumptions
  DEF Init, OpenIsPlace, QuietInv, ParentPending, DiskFollows, PutsStored, Ended,
      EmptyDir, NoFile

\* The invariants of a quiet store hold for ever.
LEMMA QuietInductive == Spec => [](IInv /\ OpenIsPlace /\ QuietInv)
  BY QuietInit, Inductive, OpenStep, QuietStep, PTL DEF Spec

\* put_bytes returns only after the file, its directory and the directory's
\* parent have been fsynced (evidence.py:119-149, 261-268), and nothing takes a
\* returned reference back, however often power is lost, with two exceptions:
\* the moment in which another put has made the directory and not yet fsynced
\* its parent, and a power loss that takes the whole root, which _open_root
\* makes without an fsync (evidence.py:246-248).
THEOREM AcknowledgedIsDurable == Spec => AckDurableBelowRoot
  <1> DEFINE kept == \A g \in acked' :
               (/\ \A k \in Faults \ {"power"} : faults'[k] = 0
                /\ g \in acked => BelowRoot(g))
               => \/ BelowRoot(g)'
                  \/ \E w \in Writers : pc'[w] = "syncparent"
                  \/ root # "kept" /\ root' = "absent"
  <1>1. ASSUME IInv, OpenIsPlace, QuietInv, [Next]_vars PROVE kept
    <2> SUFFICES ASSUME NEW g \in acked', Quiet', g \in acked => BelowRoot(g),
                        ~BelowRoot(g)', ~RootLost
                 PROVE  \E w \in Writers : pc'[w] = "syncparent"
      BY DEF Quiet, RootLost
    <2>1. ~anchored'
      BY <1>1, AckStep
    <2>2. QuietInv'
      BY <1>1, QuietStep
    <2> QED
      BY <2>1, <2>2 DEF QuietInv, ParentPending
  <1>2. IInv /\ OpenIsPlace /\ QuietInv /\ [Next]_vars => [kept]_vars
    BY <1>1
  <1> QED
    BY <1>2, QuietInductive, PTL DEF Spec, AckDurableBelowRoot

\* The faults a trusted root leaves: failing calls and dying processes, or else
\* power losses.
Trusted(f) == /\ f["relocate"] = 0 /\ f["corrupt"] = 0 /\ f["foreign"] = 0
              /\ f["power"] = 0 \/ (f["io"] = 0 /\ f["kill"] = 0)

\* The root and the directory stay where they are and on disk, a put that
\* returns has its leaf, and what was acknowledged is on disk until a call fails
\* or a process dies.
KeepsPromise ==
    /\ Trusted(faults)
    /\ root = "kept" /\ place \in Dirs /\ anchored
    /\ \A w \in Writers :
         /\ pc[w] \notin {"syncparent", "stat", "unlink"}
         /\ pc[w] \in {"confirm", "dirsync", "recheck"}
              => Matches(leaf[fd[w]][dig[w]])
    /\ Quiet => \A g \in acked : BelowRoot(g)

PromiseInv == IInv /\ OpenIsPlace /\ QuietInv /\ KeepsPromise

\* Faults stay within some budget, so within what a trusted root allows.
LEMMA TrustedStep ==
  ASSUME \A b \in Budgets : Trusted(b), TypeOK, Trusted(faults), [Next]_vars
  PROVE  Trusted(faults')
  <1>1. CASE faults' = faults
    BY <1>1
  <1>2. CASE Fault
    <2>1. PICK k \in Faults : Spend(k)
      BY <1>2
      DEF Fault, FailBare, FailWithTemporary, FailCleanup, Kill, PowerLoss,
          Corrupt, ForeignReplace, Relocate, Faults
    <2>2. PICK b \in Budgets : \A j \in Faults : faults'[j] <= b[j]
      BY <2>1 DEF Spend
    <2>3. /\ b \in [Faults -> Nat] /\ Trusted(b)
          /\ \A j \in Faults : faults'[j] \in Nat
      BY EvidenceAssumptions, FaultsGrow
    <2> QED
      BY <2>2, <2>3 DEF Trusted, Faults
  <1> QED
    BY <1>1, <1>2, FaultsGrow

\* With a trusted root the directory stays in place, no put meets a rename, and
\* a leaf is lost only with the power.
LEMMA PromiseSteps ==
  ASSUME \A b \in Budgets : Trusted(b), PromiseInv, [Next]_vars
  PROVE  /\ root' = root /\ place' = place /\ anchored'
         /\ \/ UNCHANGED vars
            \/ PowerLoss /\ Quiet'
            \/ \E w \in Writers : /\ WriterMoves(w)
                                  /\ pc'[w] \notin {"syncparent", "stat", "unlink"}
  <1>1. /\ TypeOK /\ Trusted(faults') /\ place \in Dirs /\ anchored
        /\ root = "kept" /\ "absent" \notin Dirs
        /\ \A w \in Writers : pc[w] \notin {"syncparent", "stat", "unlink"}
        /\ \A w \in Writers : pc[w] = "recheck" => place = fd[w]
    BY TrustedStep, EvidenceAssumptions
    DEF PromiseInv, KeepsPromise, IInv, OpenIsPlace, LocksHeld, HoldsLock,
        Locked, Trusted
  <1>2. \A k \in Faults : faults[k] \in Nat /\ (Spend(k) => faults'[k] >= 1)
    BY <1>1, SpendCounts DEF TypeOK
  <1>3. CASE UNCHANGED vars
    BY <1>1, <1>3 DEF vars
  <1>4. CASE PowerLoss
    <2>1. faults'["power"] >= 1
      BY <1>2, <1>4 DEF PowerLoss, Faults
    <2>2. Quiet'
      BY <1>1, <2>1 DEF Trusted, Quiet, Faults
    <2> QED
      BY <1>1, <1>4, <2>2 DEF PowerLoss
  <1>5. CASE \E w \in Writers : WriterMoves(w)
    <2>1. PICK w \in Writers : WriterMoves(w)
      BY <1>5
    <2>2. /\ root' = root /\ place' = place /\ anchored'
          /\ pc'[w] \notin {"syncparent", "stat", "unlink"}
      BY <1>1, <2>1
      DEF WriterMoves, Step, Begin, MakeRoot, MakeDirectory, SyncParent, OpenDirectory,
          AcquireLock, InspectExisting, ConfirmExisting, CreateTemporary,
          WriteTemporary, SyncTemporary, CheckChain, ReplaceLeaf,
          SyncDirectory, RecheckChain, StatInstalled, UnlinkInstalled,
          DiscardTemporary, FailBare, FailWithTemporary, FailCleanup, Kill,
          Goto, Acknowledge, End, names, TypeOK
    <2> QED
      BY <2>1, <2>2
  <1>6. /\ ~\E d \in Dirs, g \in Digests : Corrupt(d, g) \/ ForeignReplace(d, g)
        /\ ~\E p \in RelocateTo : Relocate(p)
    BY <1>1, <1>2 DEF Corrupt, ForeignReplace, Relocate, Trusted, Faults
  <1> QED
    BY <1>3, <1>4, <1>5, <1>6, NextSplits DEF WorldMoves

\* A put changes at most the leaf it installs, and that one becomes valid.
LEMMA PromiseLeaf ==
  ASSUME PromiseInv, NEW w \in Writers, WriterMoves(w)
  PROVE  \/ leaf' = leaf
         \/ /\ pc[w] = "replace" /\ fd[w] = place /\ dig[w] \in Digests
            /\ fd' = fd /\ dig' = dig /\ acked' = acked
            /\ \A d \in Dirs, g \in Digests :
                 leaf'[d][g] = IF d = fd[w] /\ g = dig[w]
                               THEN [by |-> w, data |-> "whole"] ELSE leaf[d][g]
  <1>1. CASE ReplaceLeaf(w)
    BY <1>1, QuietReplace
    DEF PromiseInv, OpenIsPlace, KeepsPromise, Trusted
  <1>2. pc[w] # "unlink"
    BY DEF PromiseInv, KeepsPromise
  <1> QED
    BY <1>1, <1>2
    DEF WriterMoves, Step, Begin, MakeRoot, MakeDirectory, SyncParent, OpenDirectory,
        AcquireLock, InspectExisting, ConfirmExisting, CreateTemporary,
        WriteTemporary, SyncTemporary, CheckChain, SyncDirectory,
        RecheckChain, StatInstalled, UnlinkInstalled, DiscardTemporary,
        FailBare, FailWithTemporary, FailCleanup, Kill, disk

\* Every step keeps the promise's invariant.
LEMMA PromiseStep ==
  ASSUME \A b \in Budgets : Trusted(b)
  PROVE  PromiseInv /\ [Next]_vars => PromiseInv'
  <1> SUFFICES ASSUME PromiseInv, [Next]_vars PROVE PromiseInv'
    OBVIOUS
  <1>1. /\ IInv' /\ OpenIsPlace' /\ QuietInv' /\ Trusted(faults')
        /\ root' = root /\ root = "kept"
        /\ place' = place /\ anchored' /\ place \in Dirs
    BY TypeStep, LocksStep, TempStep, LeavesStep, OpenStep, QuietStep,
       TrustedStep, PromiseSteps
    DEF PromiseInv, IInv, KeepsPromise
  <1>2. (Quiet => \A g \in acked : BelowRoot(g))'
    <2> SUFFICES ASSUME Quiet', NEW g \in acked' PROVE BelowRoot(g)'
      BY DEF BelowRoot
    <2>1. Quiet
      BY QuietSteps DEF PromiseInv, IInv
    <2>2. g \in acked => BelowRoot(g)
      BY <2>1 DEF PromiseInv, KeepsPromise
    <2>3. BelowRoot(g)' \/ ~anchored' \/ RootLost
      BY <2>2, AckStep DEF PromiseInv
    <2> QED
      BY <1>1, <2>3 DEF RootLost
  <1> DEFINE ready(v) ==
        /\ pc[v] \notin {"syncparent", "stat", "unlink"}
        /\ pc[v] \in {"confirm", "dirsync", "recheck"}
             => Matches(leaf[fd[v]][dig[v]])
  <1>3. \A v \in Writers : ready(v)
    BY DEF PromiseInv, KeepsPromise
  <1>4. \A v \in Writers : ready(v)'
    <2>1. CASE UNCHANGED vars
      BY <1>3, <2>1 DEF vars, Matches
    <2>2. CASE PowerLoss
      BY <1>3, <2>2
      DEF PowerLoss, PromiseInv, IInv, TypeOK, Active, Locked
    <2>3. ASSUME NEW w \in Writers, WriterMoves(w),
                 pc'[w] \notin {"syncparent", "stat", "unlink"}
          PROVE  \A v \in Writers : ready(v)'
      <3>0. TypeOK /\ LocksHeld
        BY DEF PromiseInv, IInv
      <3>1. \A d \in Dirs, g \in Digests :
              Matches(leaf[d][g]) => Matches(leaf'[d][g])
        <4>1. CASE leaf' = leaf
          BY <4>1
        <4>2. CASE \A d \in Dirs, g \in Digests :
                     leaf'[d][g] = IF d = fd[w] /\ g = dig[w]
                                   THEN [by |-> w, data |-> "whole"] ELSE leaf[d][g]
          <5> SUFFICES ASSUME NEW d \in Dirs, NEW g \in Digests
                       PROVE  Matches(leaf[d][g]) => Matches(leaf'[d][g])
            OBVIOUS
          <5>1. leaf'[d][g] \in {[by |-> w, data |-> "whole"], leaf[d][g]}
            BY <4>2
          <5> QED
            BY <5>1 DEF Matches
        <4> QED
          BY <2>3, <4>1, <4>2, PromiseLeaf
      <3>2. \A v \in Writers : pc[v] \in Locked => fd[v] \in Dirs /\ dig[v] \in Digests
        BY <3>0 DEF LocksHeld, HoldsLock, TypeOK
      <3>3. ASSUME NEW v \in Writers \ {w} PROVE ready(v)'
        <4>1. pc'[v] = pc[v] /\ fd'[v] = fd[v] /\ dig'[v] = dig[v]
          BY <2>3, <3>0, MovesAlone
        <4> QED
          BY <1>3, <3>1, <3>2, <4>1 DEF Matches, Locked
      <3>4. ready(w)'
        <4>1. CASE pc'[w] \notin {"confirm", "dirsync", "recheck"}
          BY <2>3, <4>1
        <4>2. CASE InspectExisting(w)
          BY <2>3, <3>0, <4>2
          DEF InspectExisting, Goto, disk, TypeOK, Matches
        <4>3. CASE ReplaceLeaf(w)
          <5>1. /\ fd[w] \in Dirs /\ dig[w] \in Digests /\ fd' = fd /\ dig' = dig
                /\ leaf'[fd[w]][dig[w]] = [by |-> w, data |-> "whole"]
            BY <4>3, QuietReplace DEF PromiseInv
          <5> QED
            BY <2>3, <5>1 DEF Matches
        <4>4. CASE SyncDirectory(w)
          <5>1. pc[w] = "dirsync" /\ UNCHANGED <<leaf, fd, dig>>
            BY <4>4, QuietSync DEF PromiseInv
          <5>2. Matches(leaf[fd[w]][dig[w]])
            BY <1>3, <5>1
          <5> QED
            BY <2>3, <5>1, <5>2 DEF Matches
        <4>5. pc'[w] \in {"confirm", "dirsync", "recheck"} =>
                InspectExisting(w) \/ ReplaceLeaf(w) \/ SyncDirectory(w)
          BY <2>3, <3>0
          DEF TypeOK, WriterMoves, Step, Begin, MakeRoot, MakeDirectory, SyncParent,
              OpenDirectory, AcquireLock, ConfirmExisting, CreateTemporary,
              WriteTemporary, SyncTemporary, CheckChain, RecheckChain,
              StatInstalled, UnlinkInstalled, DiscardTemporary, FailBare,
              FailWithTemporary, FailCleanup, Kill, Goto, Acknowledge, End,
              Ended
        <4> QED
          BY <4>1, <4>2, <4>3, <4>4, <4>5
      <3> QED
        BY <3>3, <3>4
    <2> QED
      BY <2>1, <2>2, <2>3, PromiseSteps
  <1> QED
    BY <1>1, <1>2, <1>4 DEF PromiseInv, KeepsPromise

\* Every step of the store is one of the promise: it stores what it installs,
\* acknowledges what is stored, loses with the power only what nobody was
\* promised, or changes neither.
LEMMA StepsPromised ==
  ASSUME \A b \in Budgets : Trusted(b), PromiseInv, [Next]_vars
  PROVE  [Abstract!Next]_<<{g \in Digests : Verify(g)}, acked>>
  <1> DEFINE stored == {g \in Digests : Verify(g)}
             valid(l) == {g \in Digests : Matches(l[place][g])}
  <1>1. /\ place' = place /\ place \in Dirs
        /\ stored = valid(leaf) /\ stored' = valid(leaf')
    BY PromiseSteps DEF PromiseInv, KeepsPromise, Verify, Matches
  <1>2. CASE UNCHANGED vars
    BY <1>1, <1>2 DEF vars
  <1>3. CASE PowerLoss /\ Quiet'
    <2>1. /\ acked' = acked /\ Quiet /\ LeavesSettled /\ DiskFollows
          /\ \A g \in acked : BelowRoot(g)
      BY <1>3, QuietSteps
      DEF PowerLoss, PromiseInv, KeepsPromise, IInv, QuietInv
    <2>2. acked \subseteq Digests
      BY DEF PromiseInv, IInv, TypeOK
    <2>3. \A g \in acked : g \in valid(leaf')
      <3> SUFFICES ASSUME NEW g \in acked PROVE g \in valid(leaf')
        OBVIOUS
      <3>1. g \in acked' /\ BelowRoot(g)
        BY <2>1
      <3>2. BelowRoot(g)' \/ ~anchored' \/ RootLost
        BY <1>3, <3>1, AckStep DEF PromiseInv
      <3>3. durable'[place][g].data = "whole"
        BY <1>1, <3>2, PromiseSteps
        DEF BelowRoot, RootLost, PromiseInv, KeepsPromise
      <3>4. durable' = leaf'
        BY <1>3 DEF PowerLoss
      <3> QED
        BY <2>2, <3>3, <3>4 DEF Matches
    <2>4. valid(leaf') \subseteq valid(leaf)
      <3> SUFFICES ASSUME NEW g \in Digests, Matches(leaf'[place][g])
                   PROVE  Matches(leaf[place][g])
        OBVIOUS
      <3>1. PICK lost, torn \in SUBSET (Dirs \X Digests), gone \in BOOLEAN :
              leaf' = [d \in Dirs |-> [h \in Digests |->
                         AfterOutage(d, h, lost, torn, gone)]]
        BY <1>3, OutageLeaf
      <3>2. leaf'[place][g] = AfterOutage(place, g, lost, torn, gone)
        BY <1>1, <3>1
      <3>3. leaf[place][g] \in File /\ durable[place][g] \in File
        BY <1>1 DEF PromiseInv, IInv, TypeOK
      <3>4. \A tear : /\ Survivor(durable[place][g], tear) = durable[place][g]
                      /\ Survivor(leaf[place][g], tear) = leaf[place][g]
        BY <1>1, <2>1, <3>3, SurvivorFile DEF LeavesSettled
      <3>5. \/ AfterOutage(place, g, lost, torn, gone) = NoFile
            \/ AfterOutage(place, g, lost, torn, gone)
                 = Survivor(durable[place][g], <<place, g>> \in torn)
            \/ AfterOutage(place, g, lost, torn, gone)
                 = Survivor(leaf[place][g], <<place, g>> \in torn)
        BY DEF AfterOutage
      <3>6. ~Matches(NoFile)
        BY DEF Matches, NoFile
      <3>7. leaf'[place][g] \in {durable[place][g], leaf[place][g]}
        BY <3>2, <3>4, <3>5, <3>6
      <3>8. CASE leaf'[place][g] = leaf[place][g]
        BY <3>8
      <3>9. CASE leaf'[place][g] = durable[place][g]
        <4>1. durable[place][g].data = "whole"
          BY <1>1, <2>1, <3>9 DEF Matches, LeavesSettled, Settled
        <4> QED
          BY <1>1, <2>1, <4>1 DEF DiskFollows, Matches
      <3> QED
        BY <3>7, <3>8, <3>9
    <2>5. LET S == stored \ stored'
          IN  S \in SUBSET stored /\ S \cap acked = {} /\ stored' = stored \ S
      BY <1>1, <2>3, <2>4
    <2> QED
      BY <2>1, <2>5 DEF Abstract!Next, Abstract!Lose
  <1>4. ASSUME NEW w \in Writers, WriterMoves(w)
        PROVE  Abstract!Next \/ UNCHANGED <<stored, acked>>
    <2>1. CASE /\ pc[w] = "replace" /\ fd[w] = place /\ dig[w] \in Digests
               /\ acked' = acked
               /\ \A d \in Dirs, g \in Digests :
                    leaf'[d][g] = IF d = fd[w] /\ g = dig[w]
                                  THEN [by |-> w, data |-> "whole"] ELSE leaf[d][g]
      <3>1. stored' = stored \cup {dig[w]}
        BY <1>1, <2>1 DEF Matches
      <3> QED
        BY <2>1, <3>1 DEF Abstract!Next, Abstract!Store
    <2>2. CASE leaf' = leaf /\ acked' = acked
      BY <1>1, <2>2
    <2>3. CASE leaf' = leaf /\ acked' # acked
      <3>1. ConfirmExisting(w) \/ RecheckChain(w)
        BY <1>4, <2>3
        DEF WriterMoves, Step, Begin, MakeRoot, MakeDirectory, SyncParent, OpenDirectory,
            AcquireLock, InspectExisting, CreateTemporary, WriteTemporary,
            SyncTemporary, CheckChain, ReplaceLeaf, SyncDirectory,
            StatInstalled, UnlinkInstalled, DiscardTemporary, FailBare,
            FailWithTemporary, FailCleanup, Kill
      <3>2. /\ pc[w] \in {"confirm", "recheck"} /\ place = fd[w]
            /\ acked' = acked \cup {dig[w]}
        BY <2>3, <3>1 DEF ConfirmExisting, RecheckChain, Acknowledge, Goto
      <3>3. dig[w] \in Digests /\ Matches(leaf[place][dig[w]])
        BY <3>2 DEF PromiseInv, IInv, TypeOK, KeepsPromise
      <3>4. dig[w] \in stored /\ stored' = stored
        BY <1>1, <2>3, <3>3
      <3> QED
        BY <3>2, <3>3, <3>4 DEF Abstract!Next, Abstract!Ack
    <2> QED
      BY <1>4, <2>1, <2>2, <2>3, PromiseLeaf
  <1> QED
    BY <1>2, <1>3, <1>4, PromiseSteps

\* The evidence store keeps the promise of ContentStore (evidence.py:75-164)
\* where its documentation asks for a trusted root: starting from a directory
\* in place, references are returned only for stored bytes and acknowledged
\* bytes are never lost, though calls fail and processes die, or power is lost.
\* A directory in place is under a root whose entry is on disk.
THEOREM StorePromise ==
  ASSUME InitialPlace \in Dirs, \A b \in Budgets : Trusted(b)
  PROVE  Spec => ImplementsContentStore
  <1>1. Init => PromiseInv
    BY InitEstablishes, QuietInit, EvidenceAssumptions
    DEF Init, PromiseInv, KeepsPromise, Trusted, Ended, Faults
  <1>2. PromiseInv /\ [Next]_vars => PromiseInv'
    BY PromiseStep
  <1>3. PromiseInv /\ [Next]_vars =>
          [Abstract!Next]_<<{g \in Digests : Verify(g)}, acked>>
    BY StepsPromised
  <1>4. Init => Abstract!Init
    BY DEF Init, Abstract!Init
  <1> QED
    BY <1>1, <1>2, <1>3, <1>4, PTL
    DEF Spec, ImplementsContentStore, Abstract!Spec
=============================================================================
