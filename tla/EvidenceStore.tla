---------------------------- MODULE EvidenceStore ---------------------------
(***************************************************************************)
(* The content-addressed evidence store of evidence.py: several processes  *)
(* put artifacts under root/sha256/<prefix>/<digest>, one system call per  *)
(* action, while calls fail, processes are killed, the machine loses power *)
(* and somebody else renames the directory or replaces a leaf.             *)
(*                                                                         *)
(* The root is a directory of its own: it is made when missing, and its    *)
(* entry in its parent is never fsynced.  One component stands for the     *)
(* chain algorithm/prefix below it: place is what that name resolves to    *)
(* now, and every directory that was ever reached through it keeps its own *)
(* leaves, because a put holds an open descriptor on the directory it      *)
(* opened and not on the name.                                             *)
(***************************************************************************)
EXTENDS Naturals

CONSTANTS
    Writers,      \* processes or threads that call put_bytes
    Digests,      \* digests that share the directory
    Dirs,         \* directory inodes the name can resolve to
    InitialPlace, \* what the name resolves to at first
    RelocateTo,   \* what an external rename can leave at the name
    Budgets,      \* bounds on the faults of each kind in one behaviour
    Nobody,       \* free lock, no owner of a missing file
    Foreign,      \* owner of a file some other program installed
    NoDir         \* descriptor that is not open

Faults == {"io", "kill", "power", "corrupt", "relocate", "foreign"}

Places == Dirs \cup {"absent", "symlink"}

ASSUME EvidenceAssumptions ==
    /\ Nobody \notin Writers /\ Foreign \notin Writers /\ Nobody # Foreign
    /\ NoDir \notin Dirs /\ "absent" \notin Dirs /\ "symlink" \notin Dirs
    /\ InitialPlace \in Dirs \cup {"absent"} /\ Dirs # {}
    /\ RelocateTo \subseteq Places
    /\ Budgets \subseteq [Faults -> Nat]

VARIABLES
    root,      \* the configured root: absent, made but not on disk, or kept
    place,     \* what root/sha256/<prefix> resolves to
    made,      \* directories that exist or existed at the name
    anchored,  \* the directory's own entry has been fsynced in its parent
    leaf,      \* leaf[d][g]: the file named g in directory d, as seen now
    durable,   \* durable[d][g]: the entry as of the last fsync of d
    lock,      \* lock[d][g]: holder of flock on d/.g.lock
    pc,        \* where each writer is in put_bytes, or how its put ended
    dig,       \* the digest each writer puts
    fd,        \* the directory each writer holds open
    temp,      \* contents of each writer's temporary file
    acked,     \* history: digests for which put_bytes returned
    faults     \* how many faults of each kind have happened

names == <<root, place, made, anchored>>
disk  == <<leaf, durable>>
vars  == <<root, place, made, anchored, leaf, durable, lock, pc, dig, fd, temp,
           acked, faults>>

(***************************************************************************)
(* Files.  "cached" bytes are complete but not fsynced: readers see them,  *)
(* a power loss may tear them.                                             *)
(***************************************************************************)
Contents == {"absent", "partial", "cached", "whole", "corrupt"}

File == [by : Writers \cup {Nobody, Foreign}, data : Contents]

NoFile == [by |-> Nobody, data |-> "absent"]

EmptyDir == [g \in Digests |-> NoFile]

\* A regular file whose bytes hash to its name.
Matches(f) == f.data \in {"cached", "whole"}

\* verify(): the name leads to a directory whose leaf has the right bytes.
Verify(g) == place \in Dirs /\ Matches(leaf[place][g])

Ended == {"idle", "acked", "raised", "killed"}

Locked == {"inspect", "confirm", "create", "write", "sync", "check",
           "replace", "dirsync", "recheck", "stat", "unlink", "discard"}

Active == {"root", "mkdir", "syncparent", "open", "lock"} \cup Locked

TempPhases == {"write", "sync", "check", "replace", "discard"}

\* Without its directory the store may have no root either.
Init ==
    /\ root \in IF InitialPlace \in Dirs THEN {"kept"} ELSE {"absent", "kept"}
    /\ place = InitialPlace /\ made = {place} \cap Dirs /\ anchored = TRUE
    /\ leaf = [d \in Dirs |-> EmptyDir]
    /\ durable = [d \in Dirs |-> EmptyDir]
    /\ lock = [d \in Dirs |-> [g \in Digests |-> Nobody]]
    /\ pc = [w \in Writers |-> "idle"]
    /\ dig \in [Writers -> Digests]
    /\ fd = [w \in Writers |-> NoDir]
    /\ temp = [w \in Writers |-> "absent"]
    /\ acked = {}
    /\ faults = [k \in Faults |-> 0]

-----------------------------------------------------------------------------
(***************************************************************************)
(* The steps of one put, in the order of the code.                         *)
(***************************************************************************)
Goto(w, here, there) == /\ pc[w] = here
                        /\ pc' = [pc EXCEPT ![w] = there]

NeverReleased(w) == lock

\* Closing the lock descriptor, or dying, gives up the flock.
Released(w) == [d \in Dirs |-> [g \in Digests |->
                   IF lock[d][g] = w THEN Nobody ELSE lock[d][g]]]

\* The put is over: every descriptor is closed by the context managers.
End(w, result) == /\ pc' = [pc EXCEPT ![w] = result]
                  /\ lock' = Released(w)
                  /\ fd' = [fd EXCEPT ![w] = NoDir]

Acknowledge(w) == /\ End(w, "acked")
                  /\ acked' = acked \cup {dig[w]}

Begin(w, g) ==
    /\ pc[w] \in Ended
    /\ pc' = [pc EXCEPT ![w] = "root"]
    /\ dig' = [dig EXCEPT ![w] = g]
    /\ UNCHANGED <<names, disk, lock, fd, temp, acked, faults>>

\* mkdir(parents=True, exist_ok=True): nothing fsyncs the root's own parent.
MakeRoot(w) ==
    /\ Goto(w, "root", "mkdir")
    /\ root' = IF root = "absent" THEN "made" ELSE root
    /\ UNCHANGED <<place, made, anchored, disk, lock, dig, fd, temp, acked,
                   faults>>

MakeDirectory(w) ==
    /\ \/ /\ place = "absent"
          /\ \E d \in Dirs \ made : place' = d /\ made' = made \cup {d}
          /\ anchored' = FALSE
          /\ Goto(w, "mkdir", "syncparent")
          /\ UNCHANGED root
       \/ /\ place # "absent"
          /\ Goto(w, "mkdir", "open")
          /\ UNCHANGED names
    /\ UNCHANGED <<disk, lock, dig, fd, temp, acked, faults>>

SkipParentSync(w) ==
    /\ Goto(w, "syncparent", "open")
    /\ UNCHANGED <<names, disk, lock, dig, fd, temp, acked, faults>>

SyncParent(w) ==
    /\ Goto(w, "syncparent", "open")
    /\ anchored' = TRUE
    /\ UNCHANGED <<root, place, made, disk, lock, dig, fd, temp, acked, faults>>

OpenFollowingSymlinks(w) ==
    /\ \/ /\ place # "absent"
          /\ Goto(w, "open", "lock")
          /\ fd' = [fd EXCEPT ![w] = place]
          /\ UNCHANGED lock
       \/ /\ place = "absent"
          /\ pc[w] = "open"
          /\ End(w, "raised")
    /\ UNCHANGED <<names, disk, dig, temp, acked, faults>>

\* O_DIRECTORY | O_NOFOLLOW: a symbolic link or a missing name is refused.
OpenDirectory(w) ==
    /\ \/ /\ place \in Dirs
          /\ Goto(w, "open", "lock")
          /\ fd' = [fd EXCEPT ![w] = place]
          /\ UNCHANGED lock
       \/ /\ place \notin Dirs
          /\ pc[w] = "open"
          /\ End(w, "raised")
    /\ UNCHANGED <<names, disk, dig, temp, acked, faults>>

LockIgnored(w) == TRUE

LockFree(w) == lock[fd[w]][dig[w]] = Nobody

AcquireLock(w) ==
    /\ Goto(w, "lock", "inspect")
    /\ LockFree(w)
    /\ lock' = [lock EXCEPT ![fd[w]][dig[w]] = w]
    /\ UNCHANGED <<names, disk, dig, fd, temp, acked, faults>>

InspectNothing(w) ==
    /\ Goto(w, "inspect", "create")
    /\ UNCHANGED <<names, disk, lock, dig, fd, temp, acked, faults>>

\* A leaf that already has the right bytes is kept; anything else is replaced.
InspectExisting(w) ==
    /\ \/ /\ Goto(w, "inspect", "confirm")
          /\ Matches(leaf[fd[w]][dig[w]])
       \/ /\ Goto(w, "inspect", "create")
          /\ ~Matches(leaf[fd[w]][dig[w]])
    /\ UNCHANGED <<names, disk, lock, dig, fd, temp, acked, faults>>

\* The fast path checks the directory chain and returns without any fsync.
ConfirmExisting(w) ==
    /\ pc[w] = "confirm"
    /\ \/ place = fd[w] /\ Acknowledge(w)
       \/ place # fd[w] /\ End(w, "raised") /\ UNCHANGED acked
    /\ UNCHANGED <<names, disk, dig, temp, faults>>

CreateTemporary(w) ==
    /\ Goto(w, "create", "write")
    /\ temp' = [temp EXCEPT ![w] = "partial"]
    /\ UNCHANGED <<names, disk, lock, dig, fd, acked, faults>>

WriteTemporary(w) ==
    /\ Goto(w, "write", "sync")
    /\ temp' = [temp EXCEPT ![w] = "cached"]
    /\ UNCHANGED <<names, disk, lock, dig, fd, acked, faults>>

FlushTemporaryOnly(w) ==
    /\ Goto(w, "sync", "check")
    /\ UNCHANGED <<names, disk, lock, dig, fd, temp, acked, faults>>

SyncTemporary(w) ==
    /\ Goto(w, "sync", "check")
    /\ temp' = [temp EXCEPT ![w] = "whole"]
    /\ UNCHANGED <<names, disk, lock, dig, fd, acked, faults>>

\* The name must still lead to the open directory before the replace.
CheckChain(w) ==
    /\ \/ place = fd[w] /\ Goto(w, "check", "replace")
       \/ place # fd[w] /\ Goto(w, "check", "discard")
    /\ UNCHANGED <<names, disk, lock, dig, fd, temp, acked, faults>>

ReplaceLeaf(w) ==
    /\ Goto(w, "replace", "dirsync")
    /\ leaf' = [leaf EXCEPT ![fd[w]][dig[w]] = [by |-> w, data |-> temp[w]]]
    /\ temp' = [temp EXCEPT ![w] = "absent"]
    /\ UNCHANGED <<names, durable, lock, dig, fd, acked, faults>>

SyncDirectory(w) ==
    /\ Goto(w, "dirsync", "recheck")
    /\ durable' = [durable EXCEPT ![fd[w]] = leaf[fd[w]]]
    /\ UNCHANGED <<names, leaf, lock, dig, fd, temp, acked, faults>>

RecheckWithoutCleanup(w) ==
    /\ pc[w] = "recheck"
    /\ \/ place = fd[w] /\ Acknowledge(w)
       \/ place # fd[w] /\ End(w, "raised") /\ UNCHANGED acked
    /\ UNCHANGED <<names, disk, dig, temp, faults>>

\* After the replace: another directory or a symbolic link at the name is a
\* containment error and is cleaned up; a missing name is FileNotFoundError.
RecheckChain(w) ==
    /\ \/ /\ pc[w] = "recheck"
          /\ place = fd[w]
          /\ Acknowledge(w)
       \/ /\ Goto(w, "recheck", "stat")
          /\ place \notin {fd[w], "absent"}
          /\ UNCHANGED <<lock, fd, acked>>
       \/ /\ pc[w] = "recheck"
          /\ place = "absent"
          /\ End(w, "raised")
          /\ UNCHANGED acked
    /\ UNCHANGED <<names, disk, dig, temp, faults>>

\* _cleanup_installed_inode looks at the leaf's identity ...
StatInstalled(w) ==
    /\ \/ /\ Goto(w, "stat", "unlink")
          /\ leaf[fd[w]][dig[w]].by = w
          /\ UNCHANGED <<lock, fd>>
       \/ /\ pc[w] = "stat"
          /\ leaf[fd[w]][dig[w]].by # w
          /\ End(w, "raised")
    /\ UNCHANGED <<names, disk, dig, temp, acked, faults>>

\* ... and unlinks the name in a later system call.
UnlinkInstalled(w) ==
    /\ pc[w] = "unlink"
    /\ leaf' = [leaf EXCEPT ![fd[w]][dig[w]] = NoFile]
    /\ durable' = [durable EXCEPT ![fd[w]] = leaf'[fd[w]]]
    /\ End(w, "raised")
    /\ UNCHANGED <<names, dig, temp, acked, faults>>

DiscardAndReturn(w) ==
    /\ pc[w] = "discard"
    /\ temp' = [temp EXCEPT ![w] = "absent"]
    /\ durable' = [durable EXCEPT ![fd[w]] = leaf[fd[w]]]
    /\ Acknowledge(w)
    /\ UNCHANGED <<names, leaf, dig, faults>>

ForgetTemporary(w) ==
    /\ pc[w] = "discard"
    /\ End(w, "raised")
    /\ UNCHANGED <<names, disk, dig, temp, acked, faults>>

\* Any error between create and replace unlinks the temporary, then re-raises.
DiscardTemporary(w) ==
    /\ pc[w] = "discard"
    /\ temp' = [temp EXCEPT ![w] = "absent"]
    /\ durable' = [durable EXCEPT ![fd[w]] = leaf[fd[w]]]
    /\ End(w, "raised")
    /\ UNCHANGED <<names, leaf, dig, acked, faults>>

Step(w) ==
    \/ MakeRoot(w)
    \/ MakeDirectory(w)   \/ SyncParent(w)      \/ OpenDirectory(w)
    \/ AcquireLock(w)     \/ InspectExisting(w) \/ ConfirmExisting(w)
    \/ CreateTemporary(w) \/ WriteTemporary(w)  \/ SyncTemporary(w)
    \/ CheckChain(w)      \/ ReplaceLeaf(w)     \/ SyncDirectory(w)
    \/ RecheckChain(w)    \/ StatInstalled(w)   \/ UnlinkInstalled(w)
    \/ DiscardTemporary(w)

-----------------------------------------------------------------------------
(***************************************************************************)
(* Faults.                                                                 *)
(***************************************************************************)
\* One more fault, if some budget allows it beside those that happened.
Spend(k) == /\ faults' = [faults EXCEPT ![k] = @ + 1]
            /\ \E budget \in Budgets : \A j \in Faults : faults'[j] <= budget[j]

\* The system call the writer is about to make raises OSError.
FailBare(w) ==
    /\ pc[w] \in Active \ (TempPhases \cup {"unlink"})
    /\ Spend("io")
    /\ End(w, "raised")
    /\ UNCHANGED <<names, disk, dig, temp, acked>>

FailWithTemporary(w) ==
    /\ pc[w] \in TempPhases \ {"discard"}
    /\ Spend("io")
    /\ pc' = [pc EXCEPT ![w] = "discard"]
    /\ UNCHANGED <<names, disk, lock, dig, fd, temp, acked>>

\* The cleanup itself fails, in its unlink or in the fsync that follows.
FailCleanup(w) ==
    /\ Spend("io")
    /\ \/ /\ pc[w] = "discard"
          /\ temp' \in {temp, [temp EXCEPT ![w] = "absent"]}
          /\ UNCHANGED leaf
       \/ /\ pc[w] = "unlink"
          /\ leaf' \in {leaf, [leaf EXCEPT ![fd[w]][dig[w]] = NoFile]}
          /\ UNCHANGED temp
    /\ End(w, "raised")
    /\ UNCHANGED <<names, durable, dig, acked>>

Kill(w) ==
    /\ pc[w] \in Active
    /\ Spend("kill")
    /\ End(w, "killed")
    /\ UNCHANGED <<names, disk, dig, temp, acked>>

\* What a file looks like after the reboot: unsynced bytes may be torn.
Survivor(f, tear) ==
    IF f.data = "cached"
    THEN [f EXCEPT !.data = IF tear THEN "partial" ELSE "whole"]
    ELSE f

\* Entries changed since the last fsync of their directory may be lost.  A
\* directory whose own entry was never fsynced may vanish with its leaves, and
\* a root that was made may vanish with all below it.
AfterOutage(d, g, lost, torn, gone) ==
    IF gone /\ d = place THEN NoFile
    ELSE Survivor(IF <<d, g>> \in lost THEN durable[d][g] ELSE leaf[d][g],
                  <<d, g>> \in torn)

PowerLoss ==
    /\ Spend("power")
    /\ root' \in IF root = "made" THEN {"absent", "kept"} ELSE {root}
    /\ \E lost, torn \in SUBSET (Dirs \X Digests), gone \in BOOLEAN :
         /\ gone => ~anchored \/ root' = "absent"
         /\ root' = "absent" => gone
         /\ leaf' = [d \in Dirs |-> [g \in Digests |->
                        AfterOutage(d, g, lost, torn, gone)]]
         /\ place' = IF gone THEN "absent" ELSE place
         /\ made' = IF gone THEN made \ {place} ELSE made
    /\ durable' = leaf'
    /\ anchored' = TRUE
    /\ lock' = [d \in Dirs |-> [g \in Digests |-> Nobody]]
    /\ pc' = [w \in Writers |-> IF pc[w] \in Active THEN "killed" ELSE pc[w]]
    /\ fd' = [w \in Writers |-> NoDir]
    /\ UNCHANGED <<dig, temp, acked>>

\* Stored bytes change in place.
Corrupt(d, g) ==
    /\ leaf[d][g].data # "absent"
    /\ Spend("corrupt")
    /\ leaf' = [leaf EXCEPT ![d][g].data = "corrupt"]
    /\ durable' = IF durable[d][g].by = leaf[d][g].by
                  THEN [durable EXCEPT ![d][g] = leaf'[d][g]] ELSE durable
    /\ UNCHANGED <<names, lock, pc, dig, fd, temp, acked>>

\* Somebody renames the directory; the bound keeps one directory for mkdir.
\* The root itself is trusted to stay where it is.
Relocate(p) ==
    /\ root # "absent" /\ p # place
    /\ p = "absent" => made # Dirs
    /\ Spend("relocate")
    /\ place' = p
    /\ made' = made \cup ({p} \cap Dirs)
    /\ anchored' = TRUE
    /\ UNCHANGED <<root, disk, lock, pc, dig, fd, temp, acked>>

\* A program that ignores the lock installs a valid file at the leaf.
ForeignReplace(d, g) ==
    /\ d \in made
    /\ Spend("foreign")
    /\ leaf' = [leaf EXCEPT ![d][g] = [by |-> Foreign, data |-> "whole"]]
    /\ UNCHANGED <<names, durable, lock, pc, dig, fd, temp, acked>>

Fault ==
    \/ \E w \in Writers : FailBare(w) \/ FailWithTemporary(w)
                          \/ FailCleanup(w) \/ Kill(w)
    \/ PowerLoss
    \/ \E d \in Dirs, g \in Digests : Corrupt(d, g) \/ ForeignReplace(d, g)
    \/ \E p \in RelocateTo : Relocate(p)

Next == \/ \E w \in Writers : Step(w) \/ \E g \in Digests : Begin(w, g)
        \/ Fault

\* A put that has begun keeps running unless it is blocked on the lock.
Fairness == \A w \in Writers : WF_vars(Step(w))

Spec == Init /\ [][Next]_vars /\ Fairness

-----------------------------------------------------------------------------
(***************************************************************************)
(* Properties.                                                             *)
(***************************************************************************)

\* The state is well formed; in particular a writer only ever holds open a
\* directory of the store, never the target of a symbolic link.
TypeOK ==
    /\ root \in {"absent", "made", "kept"}
    /\ place \in Places
    /\ made \subseteq Dirs
    /\ anchored \in BOOLEAN
    /\ leaf \in [Dirs -> [Digests -> File]]
    /\ durable \in [Dirs -> [Digests -> File]]
    /\ lock \in [Dirs -> [Digests -> Writers \cup {Nobody}]]
    /\ pc \in [Writers -> Ended \cup Active]
    /\ dig \in [Writers -> Digests]
    /\ fd \in [Writers -> Dirs \cup {NoDir}]
    /\ temp \in [Writers -> Contents]
    /\ acked \subseteq Digests
    /\ faults \in [Faults -> Nat]

\* Whatever fails, is killed or loses power, no leaf ever holds a prefix of
\* its bytes: the file is fsynced before it takes its final name.
LeafNeverTorn == \A d \in Dirs, g \in Digests : leaf[d][g].data # "partial"

\* Two puts of one digest never work in the same directory at once.
OneWriterPerDigest ==
    \A w, v \in Writers :
        /\ pc[w] \in Locked /\ pc[v] \in Locked
        /\ fd[w] = fd[v] /\ dig[w] = dig[v]
        => w = v

\* A put that fails, or finds its directory moved, leaves no temporary file
\* behind.  A kill, a power loss, or a failure of the cleanup itself may leave
\* one.
NoTempLeft ==
    (/\ faults["kill"] = 0 /\ faults["power"] = 0
     /\ faults["io"] + faults["relocate"] <= 1)
      => \A w \in Writers : temp[w] # "absent" => pc[w] \in TempPhases

\* The directory's entry, the leaf's entry and the leaf's bytes are on disk, so
\* that the leaf is safe as long as the root is.
BelowRoot(g) == place \in Dirs /\ anchored /\ durable[place][g].data = "whole"

\* A returned reference survives a power loss.
AckIsDurable == \A g \in acked : root = "kept" /\ BelowRoot(g)

\* As long as nothing but the power fails, a put returns only what is on disk
\* below the root, and nothing takes it back, with two exceptions.  While the
\* put that made the directory has not yet fsynced its parent, another put may
\* return; and a root that some put made, whose own entry nobody fsyncs, may
\* vanish with the power together with everything acknowledged in it.
AckDurableBelowRoot ==
    [][\A g \in acked' :
         (/\ \A k \in Faults \ {"power"} : faults'[k] = 0
          /\ g \in acked => BelowRoot(g))
         => \/ BelowRoot(g)'
            \/ \E w \in Writers : pc'[w] = "syncparent"
            \/ root # "kept" /\ root' = "absent"]_vars

\* A valid leaf keeps its inode: no put replaces it, and the only step that
\* removes it is the cleanup of the very put that installed it.  A program
\* that ignores the lock may get its own file removed.
ValidLeafKept ==
    [][\A d \in Dirs, g \in Digests :
         /\ Matches(leaf[d][g]) /\ leaf'[d][g].by # leaf[d][g].by
         /\ faults'["foreign"] = 0 /\ faults'["power"] = faults["power"]
         => /\ leaf'[d][g] = NoFile
            /\ \E w \in Writers : /\ pc[w] = "unlink"
                                  /\ fd[w] = d /\ dig[w] = g
                                  /\ leaf[d][g].by = w]_vars

\* "A detected relocation is cleaned through the retained descriptor and
\* fails": a put that raises after its replace because the name no longer
\* leads to its directory leaves no file of its own in that directory.
RelocatedPutLeavesNothing ==
    [][\A w \in Writers :
         pc[w] \in {"recheck", "stat", "unlink"} /\ pc'[w] = "raised"
           => leaf'[fd[w]][dig[w]].by # w]_vars

\* It holds when something has taken the directory's place and the cleanup
\* itself does not fail.
RelocationCleaned ==
    [][\A w \in Writers :
         /\ pc[w] \in {"recheck", "stat", "unlink"} /\ pc'[w] = "raised"
         /\ place # "absent" /\ faults'["io"] = 0
         => leaf'[fd[w]][dig[w]].by # w]_vars

\* No failure path keeps a digest locked: every flock is given up.
LocksReleased ==
    \A w \in Writers, d \in Dirs, g \in Digests :
        lock[d][g] = w ~> lock[d][g] # w

\* The store keeps the promise of ContentStore: references are returned only
\* for stored bytes, and acknowledged bytes are not lost.
Abstract == INSTANCE ContentStore
              WITH stored <- {g \in Digests : Verify(g)}, acked <- acked

ImplementsContentStore == Abstract!Spec
=============================================================================
