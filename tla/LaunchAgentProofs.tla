--------------------------- MODULE LaunchAgentProofs ---------------------------
(***************************************************************************)
(* What `sponsor schedule install` and `uninstall` report is true of every *)
(* command that runs undisturbed, whatever happened before, and orphaned   *)
(* agents come only from disturbed uninstalls.  The argument: an           *)
(* undisturbed command is alone, so what it has found or done by now is    *)
(* still so, until it ends.                                                *)
(***************************************************************************)
EXTENDS LaunchAgent, TLAPS

Undisturbed(p) == pc[p] \in Steps /\ start[p] # "disturbed"

\* An undisturbed command is the only one under way.
Alone == \A p, q \in Commands : Undisturbed(p) /\ pc[q] \in Steps => q = p

\* launchd runs only what it has loaded.
RunsLoaded == loaded = None => running = None

Purpose ==
    \A p \in Commands :
        /\ pc[p] \in {"look", "create", "write", "bootstrap", "kickstart"}
             => want[p] # None
        /\ pc[p] = "remove" => want[p] = None

\* What a clear command relies on at each step.
ClearGoes ==
    \A p \in Commands : start[p] = "clear" =>
        /\ pc[p] \in {"look", "unload"} => ~Orphan
        /\ pc[p] \in {"create", "write", "bootstrap", "remove"} => loaded = None
        /\ pc[p] \in {"bootstrap", "kickstart"} => plist = want[p]
        /\ pc[p] = "kickstart" => loaded = want[p]

\* With an orphan an uninstall changes nothing and an install gets no further
\* than bootstrap.
OrphanGoes ==
    \A p \in Commands : start[p] = "orphan" =>
        /\ pc[p] \in Steps => loaded # None
        /\ pc[p] \in {"look", "create", "write", "unload", "remove"} => plist = None
        /\ pc[p] = "unload" => want[p] = None
        /\ pc[p] = "bootstrap" => plist = want[p]
        /\ pc[p] # "kickstart"

TempsOfWriters == \A p \in temps : pc[p] \in {"write", "killed"}

\* The inductive invariant.
IInv == /\ TypeOK /\ Alone /\ RunsLoaded /\ Purpose
        /\ ClearGoes /\ OrphanGoes /\ TempsOfWriters

LEMMA InitEstablishes == Init => IInv
  BY DEF Init, IInv, TypeOK, Alone, Undisturbed, RunsLoaded, Purpose, ClearGoes,
         OrphanGoes, TempsOfWriters, Steps, Idle

\* A new command is clear or an orphan only if it is alone, and it disturbs
\* the others.
LEMMA BeginKeeps ==
  ASSUME IInv, NEW p \in Commands, Install(p) \/ Uninstall(p)
  PROVE  IInv'
  <1>1. PICK s \in Schedules \cup {None}, step \in {"look", "unload"} :
          /\ Begin(p, s, step)
          /\ step = "look" => s # None
          /\ step = "unload" => s = None
    BY NoneIsNoSchedule DEF Install, Uninstall
  <1> USE <1>1 DEF Begin, IInv
  <1>2. /\ pc[p] \notin Steps /\ pc'[p] = step /\ want'[p] = s
        /\ \A q \in Commands \ {p} : /\ pc'[q] = pc[q] /\ want'[q] = want[q]
                                     /\ start'[q] = "disturbed"
        /\ start'[p] # "disturbed" => \A q \in Commands \ {p} : pc[q] \notin Steps
        /\ start'[p] = "clear" => ~Orphan
        /\ start'[p] = "orphan" => Orphan
    BY DEF TypeOK, Idle, Steps
  <1>3. TypeOK'
    BY DEF TypeOK, Steps
  <1>4. Alone' /\ RunsLoaded' /\ Purpose'
    BY <1>2 DEF Alone, Undisturbed, RunsLoaded, Purpose
  <1>5. ClearGoes' /\ OrphanGoes'
    BY <1>2 DEF ClearGoes, OrphanGoes, Orphan
  <1>6. TempsOfWriters'
    BY <1>2 DEF TempsOfWriters
  <1> QED
    BY <1>3, <1>4, <1>5, <1>6

\* A step of a command leaves every other command disturbed or not under way.
LEMMA StepKeeps == ASSUME IInv, NEW p \in Commands, Step(p) PROVE IInv'
  <1> USE DEF IInv
  <1>1. /\ pc[p] \in Steps /\ pc'[p] \in (Steps \cup Idle) \ {"look", "killed"}
        /\ pc' = [pc EXCEPT ![p] = pc'[p]]
        /\ \A q \in Commands \ {p} : pc'[q] = pc[q]
        /\ UNCHANGED <<want, start>>
    BY DEF Step, Look, Unload, CreateTemporary, Replace, Bootstrap, Kickstart,
           Remove, Goto, TypeOK, Steps, Idle
  <1>2. \A q \in Commands \ {p} : pc[q] \in Steps => start[q] = "disturbed"
    BY <1>1 DEF Alone, Undisturbed
  <1>3. TypeOK'
    BY <1>1 DEF Step, Look, Unload, CreateTemporary, Replace, Bootstrap,
                Kickstart, Remove, Unloads, TypeOK
  <1>4. Alone'
    BY <1>1 DEF Alone, Undisturbed
  <1>5. RunsLoaded'
    BY DEF Step, Look, Unload, CreateTemporary, Replace, Bootstrap, Kickstart,
           Remove, Unloads, RunsLoaded
  <1>6. Purpose'
    BY <1>1 DEF Step, Look, Unload, CreateTemporary, Replace, Bootstrap,
                Kickstart, Remove, Goto, Purpose, TypeOK
  <1>7. ClearGoes'
    <2> SUFFICES ASSUME start[p] = "clear"
                 PROVE  /\ pc'[p] \in {"look", "unload"} => ~Orphan'
                        /\ pc'[p] \in {"create", "write", "bootstrap", "remove"}
                             => loaded' = None
                        /\ pc'[p] \in {"bootstrap", "kickstart"} => plist' = want[p]
                        /\ pc'[p] = "kickstart" => loaded' = want[p]
      BY <1>1, <1>2 DEF ClearGoes, Steps
    <2>1. CASE Look(p) \/ Unload(p) \/ CreateTemporary(p) \/ Replace(p)
      BY <2>1, <1>1
      DEF Look, Unload, Unloads, CreateTemporary, Replace, Goto, ClearGoes,
          Orphan, Purpose, TypeOK
    <2>2. CASE Bootstrap(p) \/ Kickstart(p) \/ Remove(p)
      BY <2>2, <1>1 DEF Bootstrap, Kickstart, Remove, Goto, ClearGoes, Orphan, TypeOK
    <2> QED
      BY <2>1, <2>2 DEF Step
  <1>8. OrphanGoes'
    <2> SUFFICES ASSUME start[p] = "orphan"
                 PROVE  /\ pc'[p] \in Steps => loaded' # None
                        /\ pc'[p] \in {"look", "create", "write", "unload", "remove"}
                             => plist' = None
                        /\ pc'[p] = "unload" => want[p] = None
                        /\ pc'[p] = "bootstrap" => plist' = want[p]
                        /\ pc'[p] # "kickstart"
      BY <1>1, <1>2 DEF OrphanGoes, Steps
    <2>1. CASE Look(p) \/ Unload(p) \/ CreateTemporary(p) \/ Replace(p)
      BY <2>1, <1>1
      DEF Look, Unload, Unloads, CreateTemporary, Replace, Goto, OrphanGoes,
          Purpose, TypeOK
    <2>2. CASE Bootstrap(p) \/ Kickstart(p) \/ Remove(p)
      BY <2>2, <1>1
      DEF Bootstrap, Kickstart, Remove, Goto, OrphanGoes, TypeOK, Steps
    <2> QED
      BY <2>1, <2>2 DEF Step
  <1>9. TempsOfWriters'
    BY <1>1 DEF Step, Look, Unload, CreateTemporary, Replace, Bootstrap,
                Kickstart, Remove, Goto, TempsOfWriters, TypeOK
  <1> QED
    BY <1>3, <1>4, <1>5, <1>6, <1>7, <1>8, <1>9

\* What goes wrong for a command disturbs it, and no other is undisturbed.
LEMMA FaultKeeps ==
  ASSUME IInv, NEW p \in Commands, UnloadFails(p) \/ Fail(p) \/ Kill(p)
  PROVE  IInv'
  <1> USE DEF IInv
  <1>1. /\ pc[p] \in Steps /\ start'[p] = "disturbed"
        /\ pc'[p] \in (Steps \cup Idle) \ {"look", "write", "bootstrap", "kickstart"}
        /\ pc' = [pc EXCEPT ![p] = pc'[p]]
        /\ \A q \in Commands \ {p} : pc'[q] = pc[q] /\ start'[q] = start[q]
        /\ UNCHANGED <<loaded, running, want>>
    BY DEF UnloadFails, Fail, Kill, Disturb, Goto, TypeOK, Steps, Idle
  <1>2. \A q \in Commands \ {p} : pc[q] \in Steps => start[q] = "disturbed"
    BY <1>1 DEF Alone, Undisturbed
  <1>3. TypeOK'
    BY <1>1 DEF UnloadFails, Fail, Kill, Disturb, TypeOK
  <1>4. Alone' /\ RunsLoaded'
    BY <1>1 DEF Alone, Undisturbed, RunsLoaded
  <1>5. Purpose'
    BY <1>1 DEF UnloadFails, Fail, Kill, Goto, Purpose, TypeOK
  <1>6. ClearGoes' /\ OrphanGoes'
    BY <1>1, <1>2 DEF ClearGoes, OrphanGoes, Steps
  <1>7. TempsOfWriters'
    BY <1>1 DEF UnloadFails, Fail, Kill, Goto, TempsOfWriters, TypeOK
  <1> QED
    BY <1>3, <1>4, <1>5, <1>6, <1>7

\* launchd on its own starts and ends runs; a login disturbs every command.
LEMMA LaunchdKeeps == IInv /\ (Fire \/ RunEnds \/ Login) => IInv'
  <1> SUFFICES ASSUME IInv, Fire \/ RunEnds \/ Login PROVE IInv'
    OBVIOUS
  <1> USE DEF IInv
  <1>1. CASE Fire \/ RunEnds
    BY <1>1 DEF Fire, RunEnds, TypeOK, Alone, Undisturbed, RunsLoaded, Purpose,
                ClearGoes, OrphanGoes, Orphan, TempsOfWriters
  <1>2. CASE Login
    BY <1>2 DEF Login, Disturb, TypeOK, Alone, Undisturbed, RunsLoaded, Purpose,
                ClearGoes, OrphanGoes, Orphan, TempsOfWriters, Steps, Idle
  <1> QED
    BY <1>1, <1>2

LEMMA NextKeeps == IInv /\ [Next]_vars => IInv'
  <1>1. IInv /\ UNCHANGED vars => IInv'
    BY DEF vars, IInv, TypeOK, Alone, Undisturbed, RunsLoaded, Purpose, ClearGoes,
           OrphanGoes, Orphan, TempsOfWriters
  <1> QED
    BY <1>1, BeginKeeps, StepKeeps, FaultKeeps, LaunchdKeeps DEF Next

LEMMA Inductive == Spec => []IInv
  BY InitEstablishes, NextKeeps, PTL DEF Spec

-----------------------------------------------------------------------------
\* A step that ends a command undisturbed is a step of that command.
LEMMA EndsByItself ==
  ASSUME IInv, [Next]_vars, NEW p \in Commands,
         pc[p] \in Steps, pc'[p] \in Idle, start'[p] # "disturbed"
  PROVE  Step(p) /\ start'[p] = start[p]
  <1>1. pc'[p] # pc[p] /\ pc[p] \notin Idle
    BY DEF Steps, Idle
  <1>2. ASSUME NEW q \in Commands, Install(q) \/ Uninstall(q) PROVE FALSE
    BY <1>1, <1>2 DEF Install, Uninstall, Begin, IInv, TypeOK
  <1>3. ASSUME NEW q \in Commands, UnloadFails(q) \/ Fail(q) \/ Kill(q) PROVE FALSE
    BY <1>1, <1>3 DEF UnloadFails, Fail, Kill, Disturb, Goto, IInv, TypeOK
  <1>4. ~Fire /\ ~RunEnds /\ ~Login /\ ~UNCHANGED vars
    BY <1>1 DEF Fire, RunEnds, Login, Disturb, vars
  <1>5. ASSUME NEW q \in Commands, Step(q), q # p PROVE FALSE
    BY <1>1, <1>5 DEF Step, Look, Unload, CreateTemporary, Replace, Bootstrap,
                      Kickstart, Remove, Goto, IInv, TypeOK
  <1>6. Step(p)
    BY <1>2, <1>3, <1>4, <1>5 DEF Next
  <1> QED
    BY <1>6 DEF Step, Look, Unload, CreateTemporary, Replace, Bootstrap,
                Kickstart, Remove

\* Whatever went before, an undisturbed install or uninstall that finds no
\* orphaned agent returns and has taken effect (sponsor_scheduler.py:137-189).
THEOREM ReportsAreTrue == Spec => CommandsTakeEffect
  <1>1. ASSUME IInv, [Next]_vars, NEW p \in Commands, start'[p] = "clear"
        PROVE  /\ ~Ends(p, "error")
               /\ Ends(p, "ok") => InPlace(want[p]) /\ p \notin temps'
    <2> SUFFICES ASSUME pc[p] \in Steps, pc'[p] \in {"error", "ok"}
                 PROVE  pc'[p] = "ok" /\ InPlace(want[p]) /\ p \notin temps'
      BY DEF Ends
    <2>1. Step(p) /\ start[p] = "clear"
      BY <1>1, EndsByItself DEF Idle
    <2>2. CASE Look(p) \/ Unload(p) \/ CreateTemporary(p) \/ Replace(p)
      BY <1>1, <2>2 DEF Look, Unload, CreateTemporary, Replace, Goto, IInv, TypeOK
    <2>3. CASE Bootstrap(p)
      BY <1>1, <2>1, <2>3 DEF Bootstrap, Goto, IInv, TypeOK, ClearGoes, Purpose
    <2>4. CASE Kickstart(p)
      BY <1>1, <2>1, <2>4
      DEF Kickstart, Goto, InPlace, IInv, TypeOK, ClearGoes, Purpose, TempsOfWriters
    <2>5. CASE Remove(p)
      BY <1>1, <2>1, <2>5
      DEF Remove, Goto, InPlace, IInv, TypeOK, ClearGoes, Purpose, RunsLoaded,
          TempsOfWriters
    <2> QED
      BY <2>1, <2>2, <2>3, <2>4, <2>5 DEF Step
  <1>2. IInv /\ [Next]_vars =>
          [\A p \in Commands : start'[p] = "clear" =>
             /\ ~Ends(p, "error")
             /\ Ends(p, "ok") => InPlace(want[p]) /\ p \notin temps']_vars
    BY <1>1
  <1> QED
    BY <1>2, Inductive, PTL DEF Spec, CommandsTakeEffect

\* An install that runs into an orphaned agent fails but leaves the property
\* list with which its retry is clear (sponsor_scheduler.py:148-171).
THEOREM RetriesRepair == Spec => OrphansRepairedByRetry
  <1> DEFINE Repaired(p) ==
        start'[p] = "orphan" /\ want[p] # None /\ pc[p] \in Steps /\ pc'[p] \in Idle
          => pc'[p] = "error" /\ plist' = want[p]
  <1>1. ASSUME IInv, [Next]_vars, NEW p \in Commands PROVE Repaired(p)
    <2> SUFFICES ASSUME start'[p] = "orphan", want[p] # None,
                        pc[p] \in Steps, pc'[p] \in Idle
                 PROVE  pc'[p] = "error" /\ plist' = want[p]
      OBVIOUS
    <2>1. Step(p) /\ start[p] = "orphan"
      BY <1>1, EndsByItself
    <2>2. ~Look(p) /\ ~Unload(p) /\ ~CreateTemporary(p) /\ ~Replace(p)
      BY <1>1
      DEF Look, Unload, CreateTemporary, Replace, Goto, IInv, TypeOK, Idle
    <2>3. ~Kickstart(p) /\ ~Remove(p)
      BY <1>1, <2>1 DEF Kickstart, Remove, Goto, IInv, OrphanGoes, Purpose
    <2>4. Bootstrap(p)
      BY <2>1, <2>2, <2>3 DEF Step
    <2> QED
      BY <1>1, <2>1, <2>4 DEF Bootstrap, Goto, IInv, TypeOK, OrphanGoes, Steps
  <1>2. IInv /\ [Next]_vars => [\A p \in Commands : Repaired(p)]_vars
    BY <1>1
  <1> QED
    BY <1>2, Inductive, PTL DEF Spec, OrphansRepairedByRetry

\* An agent loses its property list only to an uninstall that overlaps another
\* command or whose bootout fails unnoticed (sponsor_scheduler.py:183-189).
THEOREM OrphansExplained == Spec => OrphansNeedDisturbance
  <1> DEFINE Explained ==
        ~Orphan /\ Orphan' =>
          \E p \in Commands : Ends(p, "ok") /\ want[p] = None /\ start[p] = "disturbed"
  <1>1. ASSUME IInv, [Next]_vars, ~Orphan, Orphan'
        PROVE  \E p \in Commands : Remove(p)
    <2>1. ~UNCHANGED vars /\ ~Fire /\ ~RunEnds /\ ~Login
      BY <1>1 DEF vars, Fire, RunEnds, Login, Orphan
    <2>2. ASSUME NEW p \in Commands, Install(p) \/ Uninstall(p) PROVE FALSE
      BY <1>1, <2>2 DEF Install, Uninstall, Begin, Orphan
    <2>3. ASSUME NEW p \in Commands, UnloadFails(p) \/ Fail(p) \/ Kill(p)
          PROVE  FALSE
      BY <1>1, <2>3 DEF UnloadFails, Fail, Kill, Orphan, IInv, Purpose
    <2>4. ASSUME NEW p \in Commands, Step(p), ~Remove(p) PROVE FALSE
      BY <1>1, <2>4
      DEF Step, Look, Unload, Unloads, CreateTemporary, Replace, Bootstrap,
          Kickstart, Goto, Orphan, IInv, Purpose
    <2> QED
      BY <1>1, <2>1, <2>2, <2>3, <2>4 DEF Next
  <1>2. IInv /\ [Next]_vars => Explained
    <2> SUFFICES ASSUME IInv, [Next]_vars, ~Orphan, Orphan'
                 PROVE  \E p \in Commands : /\ Ends(p, "ok") /\ want[p] = None
                                            /\ start[p] = "disturbed"
      OBVIOUS
    <2>1. PICK p \in Commands : Remove(p)
      BY <1>1
    <2>2. Ends(p, "ok") /\ want[p] = None /\ loaded # None
      BY <2>1 DEF Remove, Goto, Ends, Orphan, IInv, TypeOK, Purpose, Steps
    <2>3. start[p] = "disturbed"
      BY <2>1, <2>2
      DEF Remove, Goto, Orphan, IInv, TypeOK, ClearGoes, OrphanGoes
    <2> QED
      BY <2>2, <2>3
  <1>3. IInv /\ [Next]_vars => [Explained]_vars
    BY <1>2
  <1> QED
    BY <1>3, Inductive, PTL DEF Spec, OrphansNeedDisturbance
=============================================================================
