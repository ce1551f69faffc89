----------------------------- MODULE LaunchAgent -----------------------------
(***************************************************************************)
(* LaunchAgentManager: `sponsor schedule install` and `uninstall` commands *)
(* change two things no lock guards, the property list in LaunchAgents and *)
(* the agent launchd has loaded.  Commands overlap, the calls they make    *)
(* fail, they are killed, and a new login loads the agent again.  launchd  *)
(* itself is external, modelled as the commands rely on it.                *)
(***************************************************************************)

CONSTANTS
    Commands,   \* processes that run schedule commands
    Schedules,  \* schedules an owner may install
    None        \* no schedule

ASSUME NoneIsNoSchedule == None \notin Schedules

VARIABLES
    plist,    \* the schedule in the property list, None without a file
    loaded,   \* the schedule of the loaded agent, None if none is loaded
    running,  \* the schedule of the sponsor run launchd has started, or None
    pc,       \* where each command is
    want,     \* the schedule it installs, None when it uninstalls
    temps,    \* commands whose temporary file exists
    start     \* history: what each command began with, see Begin

vars == <<plist, loaded, running, pc, want, temps, start>>

Steps == {"look", "unload", "create", "write", "bootstrap", "kickstart", "remove"}
Idle == {"idle", "ok", "error", "killed"}

Init ==
    /\ plist = None /\ loaded = None /\ running = None
    /\ pc = [p \in Commands |-> "idle"]
    /\ want = [p \in Commands |-> None]
    /\ temps = {}
    /\ start = [p \in Commands |-> "disturbed"]

\* launchd has an agent whose property list is gone.
Orphan == loaded # None /\ plist = None

\* History: the commands in S are disturbed.
Disturb(S) ==
    start' = [q \in Commands |-> IF q \in S THEN "disturbed" ELSE start[q]]

Goto(p, here, there) == /\ pc[p] = here
                        /\ pc' = [pc EXCEPT ![p] = there]

-----------------------------------------------------------------------------
(***************************************************************************)
(* launchd.                                                                *)
(***************************************************************************)

\* bootout finds the label in the property list and ends the agent's run.
Unloads == /\ loaded' = IF plist = None THEN loaded ELSE None
           /\ running' = IF plist = None THEN running ELSE None

\* StartCalendarInterval: one run of the agent at a time.
Fire == /\ loaded # None /\ running = None
        /\ running' = loaded
        /\ UNCHANGED <<plist, loaded, pc, want, temps, start>>

RunEnds == /\ running # None
           /\ running' = None
           /\ UNCHANGED <<plist, loaded, pc, want, temps, start>>

\* A new login ends every command and loads the agents it finds (RunAtLoad).
Login == /\ loaded' = plist /\ running' = plist
         /\ pc' = [p \in Commands |-> IF pc[p] \in Steps THEN "killed" ELSE pc[p]]
         /\ Disturb(Commands)
         /\ UNCHANGED <<plist, want, temps>>

-----------------------------------------------------------------------------
(***************************************************************************)
(* The commands.                                                           *)
(***************************************************************************)

\* A command is "clear" if it overlaps no other, none of its calls fails and
\* it did not begin with an orphaned agent; with one it is "orphan".  A new
\* command disturbs those that are under way.
Begin(p, s, step) ==
    /\ pc[p] \in Idle
    /\ pc' = [pc EXCEPT ![p] = step]
    /\ want' = [want EXCEPT ![p] = s]
    /\ temps' = temps \ {p}   \* what a killed command left has another name
    /\ start' = [q \in Commands |->
                    IF q # p \/ \E r \in Commands \ {p} : pc[r] \in Steps
                    THEN "disturbed"
                    ELSE IF Orphan THEN "orphan" ELSE "clear"]
    /\ UNCHANGED <<plist, loaded, running>>

Install(p) == \E s \in Schedules : Begin(p, s, "look")
Uninstall(p) == Begin(p, None, "unload")

\* The directories are made; bootout runs only if the property list exists.
Look(p) ==
    /\ Goto(p, "look", IF plist = None THEN "create" ELSE "unload")
    /\ UNCHANGED <<plist, loaded, running, want, temps, start>>

UnloadNothing(p) ==
    /\ Goto(p, "unload", IF want[p] = None THEN "remove" ELSE "create")
    /\ UNCHANGED <<plist, loaded, running, want, temps, start>>

\* The result of bootout is ignored.
Unload(p) ==
    /\ Goto(p, "unload", IF want[p] = None THEN "remove" ELSE "create")
    /\ Unloads
    /\ UNCHANGED <<plist, want, temps, start>>

CreateTemporary(p) ==
    /\ Goto(p, "create", "write")
    /\ temps' = temps \cup {p}
    /\ UNCHANGED <<plist, loaded, running, want, start>>

\* Written, fsynced and renamed into place.
Replace(p) ==
    /\ Goto(p, "write", "bootstrap")
    /\ plist' = want[p]
    /\ temps' = temps \ {p}
    /\ UNCHANGED <<loaded, running, want, start>>

BootstrapWithCleanup(p) ==
    /\ pc[p] = "bootstrap"
    /\ IF plist # None /\ loaded = None
       THEN /\ Goto(p, "bootstrap", "kickstart")
            /\ loaded' = plist /\ running' = plist /\ UNCHANGED plist
       ELSE /\ Goto(p, "bootstrap", "error")
            /\ plist' = None
            /\ UNCHANGED <<loaded, running>>
    /\ UNCHANGED <<want, temps, start>>

\* launchd refuses to load the label twice; RunAtLoad starts a run.
Bootstrap(p) ==
    /\ pc[p] = "bootstrap"
    /\ IF plist # None /\ loaded = None
       THEN /\ Goto(p, "bootstrap", "kickstart")
            /\ loaded' = plist /\ running' = plist
       ELSE /\ Goto(p, "bootstrap", "error")
            /\ UNCHANGED <<loaded, running>>
    /\ UNCHANGED <<plist, want, temps, start>>

\* kickstart -k ends the run there is and starts another.
Kickstart(p) ==
    /\ Goto(p, "kickstart", IF loaded = None THEN "error" ELSE "ok")
    /\ running' = loaded
    /\ UNCHANGED <<plist, loaded, want, temps, start>>

\* Only the plist goes: what is loaded by now, from whomever, stays loaded.
Remove(p) ==
    /\ Goto(p, "remove", "ok")
    /\ plist' = None
    /\ UNCHANGED <<loaded, running, want, temps, start>>

-----------------------------------------------------------------------------
\* bootout fails, and nobody learns of it.
UnloadFails(p) ==
    /\ Goto(p, "unload", IF want[p] = None THEN "remove" ELSE "create")
    /\ Disturb({p})
    /\ UNCHANGED <<plist, loaded, running, want, temps>>

\* Any call raises: launchctl cannot be started or reports an error, the write
\* fails, or only the chmod after the rename.
Fail(p) ==
    /\ pc[p] \in Steps
    /\ pc' = [pc EXCEPT ![p] = "error"]
    /\ plist' \in IF pc[p] = "write" THEN {plist, want[p]} ELSE {plist}
    /\ temps' = temps \ {p}
    /\ Disturb({p})
    /\ UNCHANGED <<loaded, running, want>>

Kill(p) ==
    /\ pc[p] \in Steps
    /\ pc' = [pc EXCEPT ![p] = "killed"]
    /\ Disturb({p})
    /\ UNCHANGED <<plist, loaded, running, want, temps>>

Step(p) == \/ Look(p) \/ Unload(p) \/ CreateTemporary(p) \/ Replace(p)
           \/ Bootstrap(p) \/ Kickstart(p) \/ Remove(p)

Next == \/ Fire \/ RunEnds \/ Login
        \/ \E p \in Commands :
              \/ Install(p) \/ Uninstall(p) \/ Step(p)
              \/ UnloadFails(p) \/ Fail(p) \/ Kill(p)

Spec == Init /\ [][Next]_vars

-----------------------------------------------------------------------------
(***************************************************************************)
(* Properties.                                                             *)
(***************************************************************************)

TypeOK ==
    /\ {plist, loaded, running} \subseteq Schedules \cup {None}
    /\ pc \in [Commands -> Steps \cup Idle]
    /\ want \in [Commands -> Schedules \cup {None}]
    /\ temps \subseteq Commands
    /\ start \in [Commands -> {"clear", "orphan", "disturbed"}]

Ends(p, result) == pc[p] \in Steps /\ pc'[p] = result

\* The property list, the loaded agent and its run are those of the schedule.
InPlace(s) == plist' = s /\ loaded' = s /\ running' = s

\* "installed" and "uninstalled" mean it, whatever state crashes, failed calls
\* and overlapping commands left behind: a clear command returns, and then the
\* property list, the agent and its run are the new schedule's, or gone, and
\* its temporary file is removed.
CommandsTakeEffect ==
    [][\A p \in Commands : start'[p] = "clear" =>
          /\ ~Ends(p, "error")
          /\ Ends(p, "ok") => InPlace(want[p]) /\ p \notin temps']_vars

\* An agent without its property list cannot be booted out and the next install
\* fails on it, but that install leaves the property list in place, so that the
\* agent is no orphan any more and the retry begins clear.
OrphansRepairedByRetry ==
    [][\A p \in Commands :
          start'[p] = "orphan" /\ want[p] # None /\ pc[p] \in Steps /\ pc'[p] \in Idle
          => pc'[p] = "error" /\ plist' = want[p]]_vars

\* An orphan appears only when an uninstall overlapped another command or its
\* bootout failed: no install makes one, however it is interrupted.
OrphansNeedDisturbance ==
    [][~Orphan /\ Orphan' =>
          \E p \in Commands : Ends(p, "ok") /\ want[p] = None /\ start[p] = "disturbed"]_vars
=============================================================================
