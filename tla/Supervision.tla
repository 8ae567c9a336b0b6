---------------------------- MODULE Supervision ----------------------------
(***************************************************************************)
(* Who keeps the collector running: the native user service, or a detached *)
(* process beside it (internal/cmd: daemon.go, service.go, setup.go and    *)
(* db.go over internal/service).  The programs are                         *)
(*                                                                         *)
(*   ensure    any command: it makes sure that a collector runs            *)
(*   newer     the same, of another build than the collector's             *)
(*   setup, force, remove, removeForce   `aiusage setup' and its flags     *)
(*   maintain  a database command that stops collection meanwhile          *)
(*                                                                         *)
(* The state of the unit, of its process and of the lock are the host's.   *)
(***************************************************************************)
EXTENDS Managers

CONSTANTS
    Program,
    Machines    \* the machines a behaviour may begin with, and the command run on it

VARIABLES
    asks,       \* the command, other than `ensure', that is still to be run, or None
    bounced     \* an adoption has been tried, and its failure is not old yet

vars == <<os, host, cmd, faults, asks, bounced>>

Init ==
    /\ \E m \in Machines : os = m.os /\ host = m.host /\ asks = m.asks
    /\ cmd = [c \in Cmd |-> Idle]
    /\ faults = 0 /\ bounced = FALSE

Resting(c) == At(c, "idle") \/ At(c, "done")

(* Something else acts on the machine: the outcome is nobody's. *)
Disturbed(r) ==
    [r EXCEPT !.alone = FALSE, !.faulty = FALSE, !.late = FALSE, !.blind = FALSE, !.undone = TRUE, !.found = None]
Disturb == [c \in Cmd |-> IF At(c, "idle") THEN cmd[c] ELSE Disturbed(cmd[c])]

Begin(c, program) ==
    /\ At(c, "idle") /\ \A d \in Cmd : d < c => ~At(d, "idle")
    /\ LET first == IF program \in {"ensure", "newer", "maintain"} THEN "status" ELSE "available"
           r == [Idle EXCEPT !.prog = program, !.at = first,
                                !.found = [file |-> host.file, loaded |-> host.loaded, enabled |-> host.enabled]]
       IN  IF \A d \in Cmd : At(d, "idle") THEN NoFault /\ Go(c, r)
           ELSE Fault /\ cmd' = [Disturb EXCEPT ![c] = Disturbed(r)]
    /\ UNCHANGED <<os, host, bounced>>

Ensure(c) == Begin(c, "ensure") /\ UNCHANGED asks
Ask(c) == asks # None /\ asks' = None /\ Begin(c, asks)

Adopted(r) == r.prog = "ensure" /\ r.stopped = "detached"

Leave(c) ==
    /\ At(c, "done") /\ Go(c, Idle)
    /\ bounced' = (bounced \/ (Adopted(cmd[c]) /\ cmd[c].alone /\ ~cmd[c].faulty))
    /\ UNCHANGED <<os, host, faults, asks>>

(* The budget of the phase is over: nothing more is asked but for a rollback. *)
Expire(c) ==
    /\ ~Resting(c) /\ ~cmd[c].expired /\ Fault
    /\ Go(c, [Faulty(cmd[c]) EXCEPT !.expired = TRUE])
    /\ UNCHANGED <<os, host, asks, bounced>>
----------------------------------------------------------------------------
(* ensureDaemon, runSetup, pauseCollectionForMaintenance *)

(* daemon.Status: whether the lock is held. *)
Status(c) ==
    LET r == cmd[c]
    IN  /\ At(c, "status") /\ UNCHANGED host /\ NoFault
        /\ Go(c, CASE host.holder = None ->
                        IF Is(r, {"ensure", "newer"}) THEN To(r, "available")
                        ELSE IF Is(r, {"maintain"}) THEN Over(r) ELSE To(r, "install")
                   [] Is(r, {"ensure"}) -> IF os = "linux" THEN To(r, "failure") ELSE Over(r)
                   [] OTHER -> To(r, "owner"))

(* collectorOwner: the holder is the manager's process, a verified detached  *)
(* collector, or the command gives up.                                       *)
Owner(c) ==
    LET r == cmd[c]
        native == CASE Is(r, {"newer"}) -> To(r, "restartUnit")
                    [] Is(r, {"setup", "force"}) -> To(r, "install")
                    [] Is(r, {"maintain"}) -> To(r, "stopUnit")
                    [] OTHER -> Over(r)
    IN  /\ At(c, "owner")
        /\ Query(c, CASE host.holder = "unit" -> native
                      [] host.holder = "detached" -> To(r, "stopDetached")
                      [] OTHER -> Over(r), Over(r))

(* stopDaemon: it ends, or is still there when the wait is over. *)
StopDetached(c) ==
    LET r == [cmd[c] EXCEPT !.stopped = "detached"]
        next == CASE Is(r, {"ensure", "newer"}) -> "available" [] Is(r, {"maintain"}) -> "maintenance" [] OTHER -> "install"
    IN  /\ At(c, "stopDetached")
        /\ \/ /\ host' = [host EXCEPT !.holder = IF @ = "detached" THEN None ELSE @]
              /\ Go(c, To(r, next)) /\ NoFault
           \/ Fault /\ Go(c, Over(Faulty(cmd[c]))) /\ UNCHANGED host

(* Available; superviseStart goes on to Install, setup --remove to Remove. *)
Available(c) ==
    LET r == cmd[c]
        next == CASE Is(r, {"ensure", "newer"}) -> To(r, "install")
                  [] Is(r, {"setup", "force"}) -> To(r, "status")
                  [] OTHER -> To(r, "remove")
    IN  /\ At(c, "available")
        /\ Query(c, next, IF Is(r, {"ensure", "newer"}) THEN To(r, "spawn") ELSE Over(r))

(* A fault: a command whose install failed leaves it at that. *)
GiveUp(c) == At(c, "spawn") /\ Go(c, Over(cmd[c])) /\ NoFault /\ UNCHANGED host

Spawn(c) == At(c, "spawn") /\ host' = [host EXCEPT !.spawned = TRUE] /\ Go(c, Over(cmd[c])) /\ NoFault

(* What is not stamped is the user's. *)
Remove(c) ==
    LET r == cmd[c]
    IN  /\ At(c, "remove") /\ UNCHANGED host /\ NoFault
        /\ Go(c, IF host.file = None \/ ~(Forced(r) \/ Stamped(host.file)) THEN Over(r)
                 ELSE To(r, IF os = "linux" THEN "removeActive" ELSE "removeLoaded"))

Unlink(c) ==
    LET r == [cmd[c] EXCEPT !.removed = TRUE]
    IN  At(c, "unlink") /\ Write(c, None, IF os = "linux" THEN To(r, "removeReload") ELSE Over(r), Over(cmd[c]))

(* The work of maintenance is elsewhere; then collection goes on as it was. *)
Resume(c) ==
    LET r == [cmd[c] EXCEPT !.expired = FALSE]
    IN  /\ At(c, "maintenance") /\ UNCHANGED host /\ NoFault
        /\ Go(c, To(r, IF r.stopped = "detached" THEN "spawn" ELSE IF os = "linux" THEN "isFailed" ELSE "startJob"))

Step(c) ==
    /\ \/ Status(c) \/ Owner(c) \/ StopDetached(c) \/ Available(c) \/ Spawn(c)
       \/ Remove(c) \/ Unlink(c) \/ Resume(c) \/ SystemdNext(c) \/ LaunchdNext(c)
    /\ UNCHANGED <<os, asks, bounced>>
----------------------------------------------------------------------------
(* The machine *)

Machine(h) == host' = h /\ UNCHANGED <<os, cmd, faults, asks, bounced>>
Upset(h) == host' = h /\ cmd' = Disturb /\ UNCHANGED <<os, asks>>

(* The unit's process takes the lock; one that cannot run, or finds it held, ends. *)
UnitTakes ==
    /\ host.state = "active" /\ ~Dies(host.runs) /\ host.holder = None
    /\ Machine([host EXCEPT !.holder = "unit", !.tries = 0])

UnitEnds ==
    /\ host.state = "active" /\ host.holder # "unit" /\ (Dies(host.runs) \/ host.holder # None)
    /\ Machine(Exited(host))

(* RestartSec, ThrottleInterval *)
UnitRetries ==
    host.state = "activating" /\ Machine(Retried(host))

DetachedStarts ==
    /\ host.spawned
    /\ Machine([host EXCEPT !.spawned = FALSE, !.holder = IF @ = None THEN "detached" ELSE @])

Crash ==
    /\ host.holder # None /\ Fault /\ UNCHANGED bounced
    /\ Upset(IF host.holder = "unit" THEN Exited(host) ELSE [host EXCEPT !.holder = None])

(* A login starts what is enabled; launchd loads it first. *)
Login ==
    /\ host.enabled /\ host.state = "inactive" /\ host.file # None /\ CanStart(host) /\ UNCHANGED <<faults, bounced>>
    /\ Upset(IF os = "darwin" /\ host.loaded = None THEN Bootstrapped(host) ELSE Started(host))

(* adoptionBackoff has passed, which is much longer than a command takes. *)
Age ==
    /\ host.state = "failed" /\ host.fresh /\ \A c \in Cmd : At(c, "idle")
    /\ host' = [host EXCEPT !.fresh = FALSE, !.tries = 0] /\ bounced' = FALSE
    /\ UNCHANGED <<os, cmd, faults, asks>>

Next ==
    \/ \E c \in Cmd : Ensure(c) \/ Ask(c) \/ Step(c) \/ Leave(c) \/ Expire(c)
    \/ UnitTakes \/ UnitEnds \/ UnitRetries \/ DetachedStarts \/ Crash \/ Login \/ Age

(* Processes go on, and the user goes on to run commands. *)
Fairness ==
    /\ \A c \in Cmd : WF_vars(Step(c)) /\ WF_vars(Leave(c))
    /\ WF_vars(\E c \in Cmd : Ensure(c))
    /\ WF_vars(UnitTakes) /\ WF_vars(UnitEnds) /\ WF_vars(UnitRetries) /\ WF_vars(DetachedStarts)

Spec == Init /\ [][Next]_vars /\ Fairness
----------------------------------------------------------------------------
(* Properties *)

(* The variables hold what the code puts there. *)
TypeOK ==
    /\ os \in {"linux", "darwin"} /\ host \in Host
    /\ faults \in 0 .. MaxFaults /\ asks \in Program \cup {None} /\ bounced \in BOOLEAN
    /\ \A c \in Cmd : cmd[c].prog \in Program \cup {None} /\ cmd[c].original \in Body \cup {None}

(* An install that failed while nothing else acted on the unit leaves the unit   *)
(* file, whether it starts at login, and under launchd whether it is loaded, as  *)
(* it found them, provided the rollback's own calls were answered; launchd is    *)
(* not asked again, so there a call carried out late is not known of.            *)
FailedInstallUndone ==
    \A c \in Cmd :
        LET r == cmd[c]
        IN  (r.at = "done" /\ r.install = "failed" /\ r.alone /\ r.undone /\ ~r.blind /\ (os = "darwin" => ~r.late)) =>
                /\ host.file = r.found.file /\ host.enabled = r.found.enabled
                /\ os = "darwin" => host.loaded = r.found.loaded

(* After `setup --force' reported success with every question answered, no process *)
(* runs from another file than the one just written.                               *)
ForcedRuns ==
    \A c \in Cmd :
        LET r == cmd[c]
        IN  (r.at = "done" /\ r.prog = "force" /\ r.install = "ok" /\ r.alone /\ ~r.faulty) =>
                host.file = "ours" /\ (host.state = "active" => host.runs = "ours")

(* A unit whose file `setup --remove' has unlinked is neither running nor about  *)
(* to run again, and under systemd not enabled either.                           *)
RemovedIsStopped ==
    \A c \in Cmd :
        LET r == cmd[c]
        IN  (r.at = "done" /\ r.removed /\ r.alone) =>
                /\ host.state \notin {"active", "activating"} /\ host.holder # "unit"
                /\ os = "linux" => ~host.enabled

(* A command that has ended told of the unit what is so. *)
EndsAsReported == FailedInstallUndone /\ ForcedRuns /\ RemovedIsStopped

(* A working detached collector is stopped for the sake of a unit that failed at *)
(* most once in adoptionBackoff.                                                 *)
AdoptionBounded ==
    [][\A c \in Cmd : (~Adopted(cmd[c]) /\ Adopted(cmd'[c])) => ~bounced]_vars

(* While commands are run now and then, there is a collector again and again,   *)
(* whatever becomes of the unit; but launchd has nothing that tells a job which *)
(* cannot run from one that does.                                               *)
Collects == (os = "darwin" => host.file # "stale") => []<>(host.holder # None)
=============================================================================
