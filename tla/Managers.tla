------------------------------ MODULE Managers ------------------------------
(***************************************************************************)
(* The native user managers and the service package that asks them: each   *)
(* call is one process started beside the unit's own, the detached         *)
(* collectors and the other commands.  A call is answered; refused; or,    *)
(* out of time, carried out and not answered.                              *)
(*                                                                         *)
(* First what a manager does (systemd and launchd are external); then the  *)
(* two halves of the package, one command of the manager a step.  systemd  *)
(* (internal/service/service.go): Install with its rollback, Remove,       *)
(* Restart, StopCollection, StartCollection and CollectorFailure.  launchd *)
(* (internal/service/launchd.go): a job that is loaded starts; one that    *)
(* ends is started again after a while, and never given up; the            *)
(* directories it makes and the logs it rotates are left out.              *)
(*                                                                         *)
(* A unit file is the one this build writes ("ours"), one it wrote whose   *)
(* process no longer stays up ("stale"), the user's own, or empty.         *)
(***************************************************************************)
EXTENDS Naturals

CONSTANTS
    Cmd,        \* the places of commands that run at once, taken from the first on
    None,
    Burst,      \* automatic restarts before a unit is failed (StartLimitBurst)
    MaxFaults   \* bound on unanswered calls, expired budgets and crashes

ASSUME ManagersAssumption == Cmd \subseteq Nat /\ Burst \in Nat /\ MaxFaults \in Nat /\ None \notin STRING

VARIABLES
    os,      \* "linux" or "darwin"
    host,    \* the unit and its process, the collection lock, the detached collectors
    cmd,     \* command -> where it is and what it has read
    faults

Body == {"ours", "stale", "users", "empty"}
Dies(body) == body \in {"stale", "empty", None}
Stamped(body) == body \in {"ours", "stale"}

(* tries: the starts of late; retried: whether the manager made the last one    *)
(* (NRestarts).  fresh: the failure is younger than adoptionBackoff.  spawned:  *)
(* a detached collector is on its way to the lock.                              *)
Host == [file : Body \cup {None}, loaded : Body \cup {None}, enabled : BOOLEAN,
         state : {"inactive", "active", "activating", "failed"}, runs : Body \cup {None},
         fresh : BOOLEAN, tries : 0 .. Burst, retried : BOOLEAN,
         holder : {None, "unit", "detached"}, spawned : BOOLEAN]
----------------------------------------------------------------------------
(* What a manager does when it is asked *)

Stopped(h) ==
    [h EXCEPT !.state = IF @ = "failed" THEN @ ELSE "inactive", !.runs = None,
              !.holder = IF @ = "unit" THEN None ELSE @]

(* systemd reads a file it has not loaded, and refuses what is started too often; *)
(* a start is answered when the process is there, before it has the lock.         *)
Known(h) == IF h.loaded = None THEN h.file ELSE h.loaded
Running(h) ==
    [h EXCEPT !.state = "active", !.runs = Known(h), !.loaded = Known(h), !.fresh = FALSE, !.retried = FALSE,
              !.tries = IF os = "linux" THEN @ + 1 ELSE @]
CanStart(h) == Known(h) # None /\ h.tries < Burst
Started(h) == IF h.state = "active" THEN h ELSE Running(h)
Restarted(h) == Running(Stopped(h))
Reloaded(h) == [h EXCEPT !.loaded = h.file]
ResetFailed(h) == IF h.state = "failed" THEN [h EXCEPT !.state = "inactive", !.fresh = FALSE, !.tries = 0] ELSE h
Enabled(h) == [h EXCEPT !.enabled = TRUE]
Disabled(h) == [h EXCEPT !.enabled = FALSE]

(* launchd starts a job it loads (RunAtLoad). *)
CanBootstrap(h) == h.loaded = None /\ h.file # None /\ h.enabled
Bootstrapped(h) == Running(h)
BootedOut(h) == [Stopped(h) EXCEPT !.loaded = None, !.state = "inactive"]

(* The process is gone, and is to be started again after a while. *)
Exited(h) == [h EXCEPT !.state = "activating", !.runs = None, !.holder = IF @ = "unit" THEN None ELSE @]
Retried(h) ==
    IF h.loaded = None THEN [h EXCEPT !.state = "inactive"]
    ELSE IF CanStart(h) THEN [Running(h) EXCEPT !.retried = TRUE]
    ELSE [h EXCEPT !.state = "failed", !.fresh = TRUE]
----------------------------------------------------------------------------
(* A command: the program, the call it makes next, and what it has read and    *)
(* done.  The last fields are for the properties: whether nothing else acted   *)
(* on the machine meanwhile, whether a call failed or was carried out late,    *)
(* whether a rollback was blind or failed, and the machine it found.           *)
Idle == [prog |-> None, at |-> "idle", expired |-> FALSE,
         existed |-> FALSE, original |-> "empty", wasEnabled |-> FALSE, wasActive |-> FALSE, wasLoaded |-> FALSE,
         wrote |-> FALSE, rewritten |-> FALSE, active |-> FALSE, enabledHere |-> FALSE, loadedHere |-> FALSE,
         reset |-> FALSE, stopped |-> None, install |-> None, removed |-> FALSE,
         alone |-> TRUE, faulty |-> FALSE, late |-> FALSE, blind |-> FALSE, undone |-> TRUE, found |-> None]

Is(r, programs) == r.prog \in programs
Forced(r) == Is(r, {"force", "removeForce"})
At(c, stage) == cmd[c].at = stage
Go(c, r) == cmd' = [cmd EXCEPT ![c] = r]
To(r, stage) == [r EXCEPT !.at = stage]

(* Only the outcome of a command that is over is kept. *)
Over(r) == [Idle EXCEPT !.prog = r.prog, !.at = "done", !.stopped = r.stopped, !.install = r.install,
                        !.removed = r.removed, !.alone = r.alone, !.faulty = r.faulty, !.late = r.late,
                        !.blind = r.blind, !.undone = r.undone, !.found = r.found]

Fault == faults < MaxFaults /\ faults' = faults + 1
NoFault == UNCHANGED faults
Faulty(r) == [r EXCEPT !.faulty = r.alone]

NotUndone(r) == [r EXCEPT !.undone = ~r.alone]

(* A call that changes something, and how the command goes on. *)
Call(c, able, effect, answered, failed) ==
    \/ ~cmd[c].expired /\ able /\ host' = effect /\ Go(c, answered) /\ NoFault
    \/ (cmd[c].expired \/ ~able) /\ Go(c, failed) /\ NoFault /\ UNCHANGED host
    \/ ~cmd[c].expired /\ Fault /\ Go(c, Faulty(failed)) /\ UNCHANGED host
    \/ ~cmd[c].expired /\ able /\ Fault /\ host' = effect /\ Go(c, [Faulty(failed) EXCEPT !.late = os = "darwin" /\ failed.alone])

(* A question, and how the command goes on without an answer. *)
Query(c, answered, unanswered) ==
    /\ UNCHANGED host
    /\ \/ ~cmd[c].expired /\ Go(c, answered) /\ NoFault
       \/ cmd[c].expired /\ Go(c, unanswered) /\ NoFault
       \/ ~cmd[c].expired /\ Fault /\ Go(c, Faulty(unanswered))

(* A change of a file, which needs no manager. *)
Write(c, file, written, failed) ==
    \/ host' = [host EXCEPT !.file = file] /\ Go(c, written) /\ NoFault
    \/ Fault /\ Go(c, Faulty(failed)) /\ UNCHANGED host
----------------------------------------------------------------------------
(* After Install: an explicit setup that stopped a detached collector starts it *)
(* again; an automatic one falls back to a detached collector.                  *)
Installed(r) == Over([r EXCEPT !.install = "ok"])
NotInstalled(r) ==
    LET failed == [r EXCEPT !.install = "failed"]
    IN  IF Is(r, {"ensure", "newer"}) \/ r.stopped # None THEN To(failed, "spawn") ELSE Over(failed)
----------------------------------------------------------------------------
(* systemd *)

(* withSystemdRollback has a budget of its own. *)
Rollback(r) == To([r EXCEPT !.expired = FALSE], IF r.wrote THEN "restoreFile" ELSE "wasItStarted")

(* What a start that was refused or did not hold comes to: maintenance has *)
(* nothing to take back.                                                   *)
NotStarted(r) == IF Is(r, {"maintain"}) THEN Over(r) ELSE Rollback(r)
IsUp(r) == IF Is(r, {"maintain"}) THEN Over(r) ELSE Installed(r)

(* queryState: a transitional state is not an answer. *)
Transitional == host.state = "activating"

EnabledState(c) ==
    /\ At(c, "install") /\ os = "linux"
    /\ Query(c, To([cmd[c] EXCEPT !.existed = host.file # None, !.wasEnabled = host.enabled], "activeState"),
                NotInstalled(cmd[c]))

ActiveState(c) ==
    /\ At(c, "activeState")
    /\ Query(c, IF Transitional THEN NotInstalled(cmd[c])
                ELSE To([cmd[c] EXCEPT !.wasActive = host.state = "active"], "writeUnit"),
                NotInstalled(cmd[c]))

(* A fault: the prior file is not read before it is replaced. *)
WriteUnread(c) ==
    /\ At(c, "writeUnit")
    /\ IF ~Forced(cmd[c]) /\ host.file # None
       THEN Go(c, To(cmd[c], "isActive")) /\ NoFault /\ UNCHANGED host
       ELSE Write(c, "ours", To([cmd[c] EXCEPT !.wrote = TRUE, !.rewritten = host.file # None], "reload"),
                     NotInstalled(cmd[c]))

(* writeUnit keeps a file that is there, unless it is forced; Install has read *)
(* that file then.                                                             *)
WriteUnit(c) ==
    /\ At(c, "writeUnit")
    /\ IF ~Forced(cmd[c]) /\ host.file # None
       THEN Go(c, To(cmd[c], "isActive")) /\ NoFault /\ UNCHANGED host
       ELSE IF Forced(cmd[c]) /\ cmd[c].existed /\ host.file = None
       THEN Go(c, NotInstalled(cmd[c])) /\ NoFault /\ UNCHANGED host
       ELSE Write(c, "ours",
                  To([cmd[c] EXCEPT !.wrote = TRUE, !.rewritten = host.file # None,
                                    !.original = IF Forced(cmd[c]) /\ cmd[c].existed THEN host.file ELSE @],
                     "reload"),
                  NotInstalled(cmd[c]))

Reload(c) == At(c, "reload") /\ Call(c, TRUE, Reloaded(host), To(cmd[c], "isActive"), Rollback(cmd[c]))

(* activate *)

IsActive(c) ==
    At(c, "isActive") /\ Query(c, To([cmd[c] EXCEPT !.active = host.state = "active"], "isEnabled"), To(cmd[c], "isEnabled"))

AfterEnable(r) ==
    IF ~r.active THEN To(r, "isFailed") ELSE IF r.rewritten THEN To(r, "restart") ELSE Installed(r)

IsEnabled(c) ==
    /\ At(c, "isEnabled")
    /\ Query(c, IF host.enabled THEN AfterEnable(cmd[c]) ELSE To(cmd[c], "enable"), To(cmd[c], "enable"))

Enable(c) ==
    /\ At(c, "enable")
    /\ Call(c, host.file # None, Enabled(host), AfterEnable([cmd[c] EXCEPT !.enabledHere = TRUE]), Rollback(cmd[c]))

RestartRewritten(c) ==
    At(c, "restart") /\ Call(c, CanStart(host), Restarted(host), Installed(cmd[c]), Rollback(cmd[c]))

(* resetFailed; StartCollection needs the file. *)
IsFailed(c) ==
    /\ At(c, "isFailed")
    /\ IF Is(cmd[c], {"maintain"}) /\ host.file = None THEN Go(c, Over(cmd[c])) /\ NoFault /\ UNCHANGED host
       ELSE Query(c, To(cmd[c], IF host.state = "failed" THEN "reset" ELSE "start"), To(cmd[c], "start"))

Reset(c) ==
    At(c, "reset") /\ Call(c, TRUE, ResetFailed(host), To([cmd[c] EXCEPT !.reset = TRUE], "start"), NotStarted(cmd[c]))

StartRefused(r) == IF r.enabledHere THEN To(r, "disableAgain") ELSE NotStarted(r)

StartUnit(c) ==
    /\ At(c, "start")
    /\ Call(c, CanStart(host), Started(host), IF cmd[c].reset THEN To(cmd[c], "confirm") ELSE IsUp(cmd[c]),
            StartRefused(cmd[c]))

DisableAgain(c) ==
    At(c, "disableAgain") /\ Call(c, TRUE, Disabled(host), Rollback(cmd[c]), Rollback(cmd[c]))

(* confirmHeld: Settle is long enough for a process that cannot run to be gone. *)
ConfirmHeld(c) ==
    /\ At(c, "confirm") /\ (host.state = "active" /\ ~cmd[c].expired => host.holder = "unit")
    /\ Query(c, IF host.state = "active" /\ ~host.retried THEN IsUp(cmd[c]) ELSE StartRefused(cmd[c]),
                StartRefused(cmd[c]))

(* withSystemdRollback: an unanswered question counts as no. *)

Blind(r) == [r EXCEPT !.blind = r.alone]

RestoreFile(c) ==
    /\ At(c, "restoreFile")
    /\ Write(c, IF cmd[c].existed THEN cmd[c].original ELSE None, To(cmd[c], "reloadRestored"),
             To(NotUndone(cmd[c]), "reloadRestored"))

ReloadRestored(c) ==
    At(c, "reloadRestored") /\ Call(c, TRUE, Reloaded(host), To(cmd[c], "wasItStarted"), To(NotUndone(cmd[c]), "wasItStarted"))

WasItStarted(c) ==
    LET r == cmd[c]
        put(active) == CASE r.wasActive /\ r.wrote -> IF active THEN "restartRestored" ELSE "startRestored"
                         [] ~r.wasActive /\ active -> "stopStarted"
                         [] OTHER -> "wasItEnabled"
    IN  At(c, "wasItStarted") /\ Query(c, To(r, put(host.state = "active")), To(Blind(r), put(FALSE)))

RestoreRun(c) ==
    LET then == To(cmd[c], "wasItEnabled")
        else == NotUndone(then)
    IN  \/ At(c, "restartRestored") /\ Call(c, CanStart(host), Restarted(host), then, else)
        \/ At(c, "startRestored") /\ Call(c, CanStart(host), Started(host), then, else)
        \/ At(c, "stopStarted") /\ Call(c, TRUE, Stopped(host), then, else)

WasItEnabled(c) ==
    LET r == cmd[c]
        put(s, enabled) == CASE r.wasEnabled /\ ~enabled -> To(s, "enableRestored")
                             [] ~r.wasEnabled /\ enabled -> To(s, "disableRestored")
                             [] OTHER -> NotInstalled(s)
    IN  At(c, "wasItEnabled") /\ Query(c, put(r, host.enabled), put(Blind(r), FALSE))

RestoreEnabled(c) ==
    LET then == NotInstalled(cmd[c])
        else == NotInstalled(NotUndone(cmd[c]))
    IN  \/ At(c, "enableRestored") /\ Call(c, host.file # None, Enabled(host), then, else)
        \/ At(c, "disableRestored") /\ Call(c, TRUE, Disabled(host), then, else)
----------------------------------------------------------------------------
(* Remove *)

RemoveActive(c) ==
    /\ At(c, "removeActive")
    /\ Query(c, IF Transitional THEN Over(cmd[c])
                ELSE To([cmd[c] EXCEPT !.active = host.state = "active"], "removeEnabled"), Over(cmd[c]))

RemoveEnabled(c) ==
    /\ At(c, "removeEnabled")
    /\ Query(c, To([cmd[c] EXCEPT !.wasEnabled = host.enabled],
                   IF cmd[c].active THEN "removeStop" ELSE IF host.enabled THEN "removeDisable" ELSE "unlink"), Over(cmd[c]))

RemoveStop(c) ==
    /\ At(c, "removeStop")
    /\ Call(c, TRUE, Stopped(host), To(cmd[c], IF cmd[c].wasEnabled THEN "removeDisable" ELSE "unlink"), Over(cmd[c]))

RemoveDisable(c) == At(c, "removeDisable") /\ Call(c, TRUE, Disabled(host), To(cmd[c], "unlink"), Over(cmd[c]))

RemoveReload(c) == At(c, "removeReload") /\ Call(c, TRUE, Reloaded(host), Over(cmd[c]), Over(cmd[c]))
----------------------------------------------------------------------------
(* Restart, StopCollection *)

IsRunning(c) ==
    /\ At(c, "restartUnit") /\ os = "linux"
    /\ IF host.file = None THEN Go(c, Over(cmd[c])) /\ NoFault /\ UNCHANGED host
       ELSE Query(c, IF host.state = "active" THEN To(cmd[c], "restartActive") ELSE Over(cmd[c]), Over(cmd[c]))

RestartActive(c) ==
    At(c, "restartActive") /\ Call(c, CanStart(host), Restarted(host), Over(cmd[c]), Over(cmd[c]))

IsStoppable(c) ==
    /\ At(c, "stopUnit") /\ os = "linux"
    /\ IF host.file = None THEN Go(c, Over(cmd[c])) /\ NoFault /\ UNCHANGED host
       ELSE Query(c, IF host.state = "active" THEN To(cmd[c], "stopActive") ELSE Over(cmd[c]), Over(cmd[c]))

StopActive(c) ==
    /\ At(c, "stopActive")
    /\ Call(c, TRUE, Stopped(host), To([cmd[c] EXCEPT !.stopped = "unit"], "maintenance"), Over(cmd[c]))
----------------------------------------------------------------------------
(* CollectorFailure and the age the caller asks for: adoptCollector. *)

(* A fault: a failure is acted on however recent it is. *)
AdoptAnyFailure(c) ==
    /\ At(c, "failure") /\ os = "linux"
    /\ Query(c, IF host.state = "failed" THEN To(cmd[c], "owner") ELSE Over(cmd[c]), Over(cmd[c]))

CollectorFailure(c) ==
    /\ At(c, "failure") /\ os = "linux"
    /\ Query(c, IF host.state = "failed" /\ ~host.fresh THEN To(cmd[c], "owner") ELSE Over(cmd[c]), Over(cmd[c]))

SystemdNext(c) ==
    \/ EnabledState(c) \/ ActiveState(c) \/ WriteUnit(c) \/ Reload(c)
    \/ IsActive(c) \/ IsEnabled(c) \/ Enable(c) \/ RestartRewritten(c)
    \/ IsFailed(c) \/ Reset(c) \/ StartUnit(c) \/ DisableAgain(c) \/ ConfirmHeld(c)
    \/ RestoreFile(c) \/ ReloadRestored(c) \/ WasItStarted(c) \/ RestoreRun(c)
    \/ WasItEnabled(c) \/ RestoreEnabled(c)
    \/ RemoveActive(c) \/ RemoveEnabled(c) \/ RemoveStop(c) \/ RemoveDisable(c) \/ RemoveReload(c)
    \/ IsRunning(c) \/ RestartActive(c) \/ IsStoppable(c) \/ StopActive(c) \/ CollectorFailure(c)
----------------------------------------------------------------------------
(* launchd *)

(* awaitLaunchdRunning gave up, or a step of activateLaunchd failed. *)
Attempted(r) ==
    To([r EXCEPT !.expired = FALSE],
       IF r.loadedHere THEN "bootoutAttempt" ELSE IF r.wrote THEN "restorePlist"
       ELSE IF r.enabledHere THEN "disableAttempt" ELSE "attemptUndone")

NotBack(r) == IF Is(r, {"maintain", "newer"}) /\ r.install = None THEN Over(r) ELSE Attempted(r)
IsBack(r) == IF Is(r, {"maintain", "newer"}) /\ r.install = None THEN Over(r) ELSE Installed(r)

(* launchdState: loaded, and running. *)
Loaded == host.loaded # None
Active == host.state = "active"

(* installLaunchd.  `install' is no longer None once it has begun. *)

LaunchdState(c) ==
    /\ At(c, "install") /\ os = "darwin"
    /\ Query(c, To([cmd[c] EXCEPT !.existed = host.file # None, !.wasLoaded = Loaded, !.wasActive = Active,
                                  !.original = IF Forced(cmd[c]) /\ host.file # None THEN host.file ELSE @,
                                  !.install = "begun"], "launchdDisabled"),
                NotInstalled(cmd[c]))

(* A file that is there is kept; another one is prepared, and a loaded job *)
(* booted out before its file is replaced.                                 *)
LaunchdDisabled(c) ==
    LET r == [cmd[c] EXCEPT !.wasEnabled = host.enabled]
    IN  /\ At(c, "launchdDisabled")
        /\ Query(c, IF r.existed /\ ~Forced(r) THEN To(r, "activate") ELSE To(r, "prepare"), NotInstalled(cmd[c]))

Prepare(c) ==
    /\ At(c, "prepare")
    /\ Query(c, To(cmd[c], IF cmd[c].existed /\ cmd[c].wasLoaded THEN "bootoutReplaced" ELSE "rename"), NotInstalled(cmd[c]))

BootoutReplaced(c) ==
    At(c, "bootoutReplaced") /\ Call(c, Loaded, BootedOut(host), To(cmd[c], "rename"), NotInstalled(cmd[c]))

Rename(c) ==
    /\ At(c, "rename")
    /\ Write(c, "ours", To([cmd[c] EXCEPT !.wrote = TRUE, !.rewritten = cmd[c].existed], "activate"),
             IF cmd[c].existed /\ cmd[c].wasLoaded THEN To(cmd[c], "bootstrapPrior") ELSE NotInstalled(cmd[c]))

(* activateLaunchd *)

StillLoaded(r) == r.wasLoaded /\ ~r.rewritten
StillRunning(r) == r.wasActive /\ ~r.rewritten

Activate(c) ==
    /\ At(c, "activate") /\ UNCHANGED host /\ NoFault
    /\ Go(c, IF ~cmd[c].wasEnabled \/ ~StillLoaded(cmd[c]) THEN To(cmd[c], "enableJob")
             ELSE IF StillRunning(cmd[c]) THEN Installed(cmd[c]) ELSE To(cmd[c], "kickstart"))

EnableJob(c) ==
    LET r == [cmd[c] EXCEPT !.enabledHere = ~cmd[c].wasEnabled]
    IN  /\ At(c, "enableJob")
        /\ Call(c, TRUE, Enabled(host),
                IF ~StillLoaded(r) THEN To(r, "bootstrap") ELSE IF StillRunning(r) THEN Installed(r) ELSE To(r, "kickstart"),
                Attempted(cmd[c]))

(* installLaunchd, restartLaunchd and startLaunchdCollection load a job so; only *)
(* the first has a way back.                                                     *)
Bootstrap(c) ==
    LET r == [cmd[c] EXCEPT !.loadedHere = TRUE]
    IN  /\ At(c, "bootstrap")
        /\ Call(c, CanBootstrap(host), Bootstrapped(host),
                IF r.install # None /\ StillRunning(r) THEN Installed(r) ELSE To(r, "kickstart"), NotBack(cmd[c]))

Kickstart(c) == At(c, "kickstart") /\ Call(c, Loaded, Started(host), To(cmd[c], "await"), NotBack(cmd[c]))

(* A job that is waiting to be started again may be seen running before the *)
(* grace is over, or not.                                                   *)
Await(c) ==
    /\ At(c, "await")
    /\ Query(c, IF Active THEN IsBack(cmd[c]) ELSE NotBack(cmd[c]), NotBack(cmd[c]))

(* rollbackLaunchd *)

BootoutAttempt(c) ==
    LET then == To(cmd[c], IF cmd[c].wrote THEN "restorePlist" ELSE IF cmd[c].enabledHere THEN "disableAttempt" ELSE "attemptUndone")
    IN  At(c, "bootoutAttempt") /\ Call(c, Loaded, BootedOut(host), then, NotUndone(then))

RestorePlist(c) ==
    LET then == To(cmd[c], IF cmd[c].wasLoaded THEN "bootstrapPrior" ELSE IF cmd[c].enabledHere THEN "disableAttempt" ELSE "attemptUndone")
    IN  /\ At(c, "restorePlist")
        /\ Write(c, IF cmd[c].existed THEN cmd[c].original ELSE None, then, NotUndone(then))

(* restoreLaunchdJob: also when the new file could not be put in place. *)
AfterPrior(r) == To(r, IF r.enabledHere THEN "disableAttempt" ELSE "attemptUndone")

BootstrapPrior(c) ==
    /\ At(c, "bootstrapPrior")
    /\ Call(c, CanBootstrap(host), Bootstrapped(host),
            IF cmd[c].wasActive THEN To(cmd[c], "kickstartPrior") ELSE AfterPrior(cmd[c]),
            AfterPrior(NotUndone(cmd[c])))

KickstartPrior(c) ==
    /\ At(c, "kickstartPrior")
    /\ Call(c, Loaded, Started(host), AfterPrior(cmd[c]), AfterPrior(NotUndone(cmd[c])))

DisableAttempt(c) ==
    LET then == To(cmd[c], "attemptUndone")
    IN  At(c, "disableAttempt") /\ Call(c, TRUE, Disabled(host), then, NotUndone(then))

AttemptUndone(c) == At(c, "attemptUndone") /\ Go(c, NotInstalled(cmd[c])) /\ NoFault /\ UNCHANGED host
----------------------------------------------------------------------------
(* removeLaunchd *)

RemoveLoaded(c) ==
    At(c, "removeLoaded") /\ Query(c, To(cmd[c], IF Loaded THEN "removeBootout" ELSE "unlink"), Over(cmd[c]))

RemoveBootout(c) ==
    At(c, "removeBootout") /\ Call(c, Loaded, BootedOut(host), To(cmd[c], "unlink"), Over(cmd[c]))
----------------------------------------------------------------------------
(* restartLaunchd, stopLaunchdCollection, startLaunchdCollection *)

JobRunning(c) ==
    /\ At(c, "restartUnit") /\ os = "darwin"
    /\ IF host.file = None THEN Go(c, Over(cmd[c])) /\ NoFault /\ UNCHANGED host
       ELSE Query(c, IF Loaded /\ Active THEN To(cmd[c], "bootoutRunning") ELSE Over(cmd[c]), Over(cmd[c]))

BootoutRunning(c) ==
    At(c, "bootoutRunning") /\ Call(c, Loaded, BootedOut(host), To(cmd[c], "bootstrap"), Over(cmd[c]))

JobStoppable(c) ==
    /\ At(c, "stopUnit") /\ os = "darwin"
    /\ IF host.file = None THEN Go(c, Over(cmd[c])) /\ NoFault /\ UNCHANGED host
       ELSE Query(c, IF Loaded /\ Active THEN To(cmd[c], "bootoutStopped") ELSE Over(cmd[c]), Over(cmd[c]))

BootoutStopped(c) ==
    /\ At(c, "bootoutStopped")
    /\ Call(c, Loaded, BootedOut(host), To([cmd[c] EXCEPT !.stopped = "unit"], "maintenance"), Over(cmd[c]))

JobStartable(c) ==
    /\ At(c, "startJob")
    /\ IF host.file = None THEN Go(c, Over(cmd[c])) /\ NoFault /\ UNCHANGED host
       ELSE Query(c, IF Active THEN Over(cmd[c]) ELSE To(cmd[c], IF Loaded THEN "kickstart" ELSE "bootstrap"), Over(cmd[c]))

LaunchdNext(c) ==
    \/ LaunchdState(c) \/ LaunchdDisabled(c) \/ Prepare(c) \/ BootoutReplaced(c) \/ Rename(c)
    \/ Activate(c) \/ EnableJob(c) \/ Bootstrap(c) \/ Kickstart(c) \/ Await(c)
    \/ BootoutAttempt(c) \/ RestorePlist(c) \/ BootstrapPrior(c) \/ KickstartPrior(c)
    \/ DisableAttempt(c) \/ AttemptUndone(c) \/ RemoveLoaded(c) \/ RemoveBootout(c)
    \/ JobRunning(c) \/ BootoutRunning(c) \/ JobStoppable(c) \/ BootoutStopped(c) \/ JobStartable(c)
=============================================================================
