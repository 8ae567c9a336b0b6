----------------------------- MODULE Ownership -----------------------------
(***************************************************************************)
(* Who may collect into a ledger (internal/daemon, internal/cmd/ownership, *)
(* daemon, run, once and db).  The processes of one user share lock files, *)
(* and beside each a pid file and a version file:                          *)
(*                                                                         *)
(*   run     the collection daemon, which also watches its own executable  *)
(*   once    a single collection cycle                                     *)
(*   ensure  any other command: before it works, it makes sure that a      *)
(*           daemon of its own build collects                              *)
(*   restore db restore / db reset, which stop collection meanwhile        *)
(*   old     a collector built before ledgers had locks of their own       *)
(*                                                                         *)
(* The kernel drops the locks of a process that dies; the files it wrote   *)
(* stay.  Probing a lock means taking it for a moment (daemon.Status).     *)
(* There is no native supervisor here: it declines, as it does under a     *)
(* path override, and daemons are detached processes.                      *)
(***************************************************************************)
EXTENDS Naturals

CONSTANTS
    Ledger,     \* databases
    Lock,       \* lock files
    LockOf,     \* ledger -> its lock (PIDPath)
    LegacyOf,   \* ledger -> the shared lock before isolation, or None
    Pid,        \* process ids; a dead process's id is used again
    Program,    \* the programs the user starts
    MaxBuild,   \* the last build installed
    MaxFaults,  \* bound on crashes and failing calls
    Patient,    \* a command starts only when no other one is under way
    None

ASSUME OwnershipAssumption ==
    /\ LockOf \in [Ledger -> Lock]
    /\ \A l, m \in Ledger : LockOf[l] = LockOf[m] => l = m
    /\ LegacyOf \in [Ledger -> Lock \cup {None}]
    /\ \A l \in Ledger : LegacyOf[l] # LockOf[l]
    /\ Program \subseteq {"run", "once", "ensure", "restore", "old"}
    /\ None \notin {"run", "once", "ensure", "restore", "old"}
    /\ MaxBuild \in Nat \ {0} /\ MaxFaults \in Nat /\ Patient \in BOOLEAN
    /\ None \notin Lock \cup Pid \cup Nat

VARIABLES
    held,      \* lock -> the process that holds it, or None
    pidFile,   \* lock -> content of its pid file, or None
    verFile,   \* lock -> content of its version file, or None
    proc,      \* pid -> the process
    migrated,  \* ledgers an isolated build has opened
    image,     \* the build installed on disk
    faults

vars == <<held, pidFile, verFile, proc, migrated, image, faults>>
-----------------------------------------------------------------------------
(* A process: its stage, the lock the stage is about, what for, and what it   *)
(* has read.  `open' is its writable handle on the ledger, `seen' its          *)
(* executable on disk when it began to collect.                               *)
Dead == [prog |-> None, ledger |-> None, build |-> 0, at |-> "dead", on |-> None,
         for |-> "own", pid |-> None, open |-> FALSE, was |-> FALSE, seen |-> 0]

Alive(p) == proc[p].prog # None
At(p, stage) == proc[p].at = stage
Is(p, programs) == proc[p].prog \in programs
Go(p, new) == proc' = [proc EXCEPT ![p] = new]
Free(k) == held[k] = None
files == <<pidFile, verFile>>

Fault == faults < MaxFaults /\ faults' = faults + 1
NoFault == UNCHANGED faults

(* The lock a collector takes first: the shared one as a guard, if there is one. *)
FirstLock(l) == IF LegacyOf[l] = None THEN LockOf[l] ELSE LegacyOf[l]

Started(prog, l, build) ==
    [Dead EXCEPT !.prog = prog, !.ledger = l, !.build = build, !.on = FirstLock(l),
                 !.at = IF prog \in {"ensure", "restore"} THEN "probe" ELSE "take",
                 !.for = IF prog \in {"ensure", "restore"} /\ LegacyOf[l] # None
                         THEN "legacy" ELSE "own"]

Init ==
    /\ held = [k \in Lock |-> None]
    /\ pidFile = [k \in Lock |-> None]
    /\ verFile = [k \in Lock |-> None]
    /\ proc = [p \in Pid |-> Dead]
    /\ migrated = {}
    /\ image = 1
    /\ faults = 0

Start(p, prog, l) ==
    /\ ~Alive(p) /\ (Patient => \A q \in Pid : ~Alive(q) \/ At(q, "collect"))
    /\ Go(p, Started(prog, l, IF prog = "old" THEN 0 ELSE image))
    /\ UNCHANGED <<held, files, migrated, image, faults>>

(* An installer replaces the binary. *)
Upgrade ==
    /\ image < MaxBuild /\ image' = image + 1
    /\ UNCHANGED <<held, files, proc, migrated, faults>>
-----------------------------------------------------------------------------
(* What a process does next *)

OwnLock(p) == LockOf[proc[p].ledger]

(* spawnDaemon: the command is done with ownership, and its daemon starts.    *)
Spawned(p) == Started("run", proc[p].ledger, image)

(* The deferred releases: its own lock first, then the guard; else it is over.  A *)
(* collecting daemon keeps the ledger open until its stamps are gone.            *)
Leaving(p) ==
    LET mine == {k \in Lock : held[k] = p}
        closed == [proc[p] EXCEPT !.open = @ /\ Is(p, {"run", "old"}),
                                  !.at = "dropVersion", !.for = "exit"]
    IN  IF OwnLock(p) \in mine THEN [closed EXCEPT !.on = OwnLock(p)]
        ELSE IF mine # {} THEN [closed EXCEPT !.on = CHOOSE k \in mine : TRUE]
        ELSE Dead

(* Maintenance that stopped a collector starts it again (resumeCollection...). *)
Resumed(p) == IF proc[p].was THEN Spawned(p) ELSE Dead

(* After a probe found the lock free. *)
FoundFree(p) ==
    CASE proc[p].for = "legacy" /\ Is(p, {"run", "once"}) ->
           [proc[p] EXCEPT !.at = "probe", !.for = "recheck"]
      [] proc[p].for = "legacy" -> [proc[p] EXCEPT !.at = "probe", !.for = "own", !.on = OwnLock(p)]
      [] proc[p].for = "recheck" -> Dead
      [] OTHER -> IF Is(p, {"ensure"}) THEN Spawned(p)
                  ELSE [proc[p] EXCEPT !.at = "take", !.on = OwnLock(p),
                                       !.was = proc[p].for = "stop"]

(* collectorProcess: a pid is a collector's when it names a running `run'; its  *)
(* ledger is known by the writable handle.                                     *)
IsCollector(q) == q # None /\ Is(q, {"run", "old"})
DatabaseOf(q) == IF proc[q].open THEN proc[q].ledger ELSE None

(* legacyCollector's verdict on the holder of the shared lock: a holder that is *)
(* no collector, or of an unknown ledger, ends the attempt; the same ledger     *)
(* ends a collector's start and redirects a command; another one lets both go on. *)
LegacyVerdict(p) ==
    LET q == proc[p].pid
        probing == [proc[p] EXCEPT !.at = "probe", !.for = "own", !.pid = None]
    IN  CASE ~IsCollector(q) \/ DatabaseOf(q) = None -> Dead
          [] DatabaseOf(q) = proc[p].ledger -> IF Is(p, {"run", "once"}) THEN Dead ELSE probing
          [] OTHER -> IF Is(p, {"run", "once"}) THEN [probing EXCEPT !.for = "recheck"]
                      ELSE [probing EXCEPT !.on = OwnLock(p)]
-----------------------------------------------------------------------------
(* Probing and reading: Status, ReadVersion, collectorOwner, Stop *)

(* Mutant of Running: a pid file counts as a running daemon. *)
RunningOrStamped(k) == ~Free(k) \/ pidFile[k] # None

(* Status: a lock that cannot be taken is held by a running daemon. *)
Running(k) == ~Free(k)

(* Status takes the lock for a moment.  While it waits for a stopped daemon    *)
(* (Stop) it probes again until the time is up.                                *)
Probe(p) ==
    LET k == proc[p].on
    IN  /\ At(p, "probe")
        /\ \/ /\ ~Running(k) /\ held' = [held EXCEPT ![k] = p]
              /\ Go(p, [proc[p] EXCEPT !.at = "unprobe"])
           \/ /\ Running(k) /\ proc[p].for \in {"legacy", "own"}
              /\ Go(p, [proc[p] EXCEPT !.at = "readPid"]) /\ UNCHANGED held
           \/ /\ Running(k) /\ proc[p].for = "recheck"
              /\ Go(p, [proc[p] EXCEPT !.at = "take", !.on = OwnLock(p)]) /\ UNCHANGED held
           \/ /\ Running(k) /\ proc[p].for = "stop"
              /\ Go(p, Dead) /\ UNCHANGED held
        /\ UNCHANGED <<files, migrated, image, faults>>

Unprobe(p) ==
    /\ At(p, "unprobe")
    /\ held' = [held EXCEPT ![proc[p].on] = None]
    /\ Go(p, FoundFree(p))
    /\ UNCHANGED <<files, migrated, image, faults>>

ReadPid(p) ==
    /\ At(p, "readPid")
    /\ Go(p, [proc[p] EXCEPT !.pid = pidFile[proc[p].on],
                             !.at = IF proc[p].for = "own" /\ Is(p, {"ensure"})
                                    THEN "readVersion" ELSE "owner"])
    /\ UNCHANGED <<held, files, migrated, image, faults>>

(* A daemon of the same build is left alone; another one, or one without a      *)
(* recorded version, is to be replaced (restartOnMismatch, release builds).     *)
ReadVersion(p) ==
    LET ver == verFile[proc[p].on]
    IN  /\ At(p, "readVersion")
        /\ Go(p, IF ver = proc[p].build THEN Dead ELSE [proc[p] EXCEPT !.at = "owner"])
        /\ UNCHANGED <<held, files, migrated, image, faults>>

Owner(p) ==
    /\ At(p, "owner")
    /\ Go(p, IF proc[p].for = "legacy" THEN LegacyVerdict(p)
             ELSE IF IsCollector(proc[p].pid) THEN [proc[p] EXCEPT !.at = "signal"] ELSE Dead)
    /\ UNCHANGED <<held, files, migrated, image, faults>>

Without(q) == [k \in Lock |-> IF held[k] = q THEN None ELSE held[k]]

(* Go's handler holds a daemon's SIGTERM from its first cycle on. *)
Handles(q) == Is(q, {"run", "old"}) /\ (At(q, "collect") \/ proc[q].for \in {"exit", "exec"})

(* SIGTERM to the pid that was read, whoever has it by now.  A collecting daemon  *)
(* stops in order, one on its way out takes no notice, and any other process dies *)
(* where it stands.                                                               *)
Signal(p) ==
    LET q == proc[p].pid
        waiting == [proc[p] EXCEPT !.at = "probe", !.for = "stop", !.pid = None]
    IN  /\ At(p, "signal")
        /\ \/ /\ Handles(q) /\ At(q, "collect")
              /\ proc' = [proc EXCEPT ![p] = waiting, ![q] = Leaving(q)] /\ UNCHANGED held
           \/ /\ Alive(q) /\ ~(Handles(q) /\ At(q, "collect"))
              /\ proc' = [proc EXCEPT ![p] = waiting, ![q] = Dead] /\ held' = Without(q)
           \/ /\ ~Alive(q) \/ (Handles(q) /\ ~At(q, "collect"))
              /\ Go(p, waiting) /\ UNCHANGED held
        /\ UNCHANGED <<files, migrated, image, faults>>
-----------------------------------------------------------------------------
(* Acquiring, collecting, releasing: AcquireCollectionLock, run, once, db *)

(* The flock of an acquisition. *)
TakeFree(p) ==
    LET k == proc[p].on
    IN  /\ At(p, "take") /\ Free(k)
        /\ held' = [held EXCEPT ![k] = p]
        /\ Go(p, [proc[p] EXCEPT !.at = "stampPid"])
        /\ UNCHANGED <<files, migrated, image, faults>>

(* The flock fails.  On the shared lock a collector looks into the holder; on   *)
(* its own it leaves, and maintenance resumes what it had stopped.              *)
TakeHeld(p) ==
    LET k == proc[p].on
    IN  /\ At(p, "take") /\ ~Free(k)
        /\ Go(p, IF Is(p, {"run", "once"}) /\ k # OwnLock(p)
                 THEN [proc[p] EXCEPT !.at = "probe", !.for = "legacy"]
                 ELSE IF Is(p, {"restore"}) THEN Resumed(p)
                 ELSE Leaving(p))
        /\ UNCHANGED <<held, files, migrated, image, faults>>

StampPid(p) ==
    /\ At(p, "stampPid")
    /\ pidFile' = [pidFile EXCEPT ![proc[p].on] = p]
    /\ Go(p, [proc[p] EXCEPT !.at = "stampVersion"])
    /\ UNCHANGED <<held, verFile, migrated, image, faults>>

(* With the guard stamped a collector goes for its own lock; with its own lock   *)
(* it may open the ledger.                                                      *)
StampVersion(p) ==
    /\ At(p, "stampVersion")
    /\ verFile' = [verFile EXCEPT ![proc[p].on] = proc[p].build]
    /\ Go(p, IF Is(p, {"run", "once"}) /\ proc[p].on # OwnLock(p)
             THEN [proc[p] EXCEPT !.at = "take", !.on = OwnLock(p)]
             ELSE [proc[p] EXCEPT !.at = "open"])
    /\ UNCHANGED <<held, pidFile, migrated, image, faults>>

(* openCollectionStoreLocked, or the target of maintenance.  A daemon then gives  *)
(* its guard back (started) and keeps its own lock.  An old build refuses a       *)
(* ledger that a newer build has migrated.                                        *)
Open(p) ==
    LET opened == [proc[p] EXCEPT !.open = TRUE]
        guard == LegacyOf[proc[p].ledger]
    IN  /\ At(p, "open")
        /\ \/ /\ Is(p, {"run", "once", "restore"}) /\ NoFault
              /\ migrated' = migrated \cup {proc[p].ledger}
              /\ Go(p, IF Is(p, {"run"}) /\ guard # None /\ held[guard] = p
                       THEN [opened EXCEPT !.at = "dropVersion", !.for = "started", !.on = guard]
                       ELSE [opened EXCEPT !.at = "collect", !.seen = image])
           \/ /\ Is(p, {"old"}) /\ NoFault /\ UNCHANGED migrated
              /\ Go(p, IF proc[p].ledger \in migrated THEN Leaving(p)
                       ELSE [opened EXCEPT !.at = "collect"])
           \/ Fault /\ Go(p, Leaving(p)) /\ UNCHANGED migrated
        /\ UNCHANGED <<held, files, image>>

(* The single cycle, or the maintenance, is over.  Maintenance that left no       *)
(* usable target leaves collection stopped.                                       *)
Finish(p) ==
    /\ At(p, "collect")
    /\ \/ Is(p, {"once", "restore"}) /\ Go(p, Leaving(p)) /\ NoFault
       \/ Is(p, {"restore"}) /\ Fault /\ Go(p, [Leaving(p) EXCEPT !.was = FALSE])
    /\ UNCHANGED <<held, files, migrated, image>>

(* The executable on disk is no longer the one found when collection began; the   *)
(* build the process runs plays no part (stampExecutable, same).                  *)
Replaced(p) == image # proc[p].seen

(* On a tick the daemon finds its executable replaced since it began: it removes  *)
(* its stamps, closes the ledger and execs.                                       *)
Retire(p) ==
    /\ At(p, "collect") /\ Is(p, {"run"}) /\ Replaced(p)
    /\ Go(p, [proc[p] EXCEPT !.at = "dropVersion", !.for = "exec", !.on = OwnLock(p)])
    /\ UNCHANGED <<held, files, migrated, image, faults>>

(* Mutant of DropVersion: the lock goes first, the stamps and the ledger after it. *)
DropVersionAfterUnlock(p) ==
    /\ At(p, "dropVersion")
    /\ verFile' = [verFile EXCEPT ![proc[p].on] = None]
    /\ held' = IF proc[p].for = "exit" THEN [held EXCEPT ![proc[p].on] = None] ELSE held
    /\ Go(p, [proc[p] EXCEPT !.at = "dropPid"])
    /\ UNCHANGED <<pidFile, migrated, image, faults>>

DropVersion(p) ==
    /\ At(p, "dropVersion")
    /\ verFile' = [verFile EXCEPT ![proc[p].on] = None]
    /\ Go(p, [proc[p] EXCEPT !.at = "dropPid"])
    /\ UNCHANGED <<held, pidFile, migrated, image, faults>>

(* The pid file goes; on the way out the ledger is closed. *)
DropPid(p) ==
    /\ At(p, "dropPid")
    /\ pidFile' = [pidFile EXCEPT ![proc[p].on] = None]
    /\ Go(p, [proc[p] EXCEPT !.at = IF proc[p].for = "exec" THEN "exec" ELSE "unlock",
                             !.open = @ /\ proc[p].for = "started"])
    /\ UNCHANGED <<held, verFile, migrated, image, faults>>

(* The lock goes last; then the next one, the daemon's work, or the end.          *)
Unlock(p) ==
    LET k == proc[p].on
        rest == {j \in Lock \ {k} : held[j] = p}
    IN  /\ At(p, "unlock")
        /\ held' = [held EXCEPT ![k] = IF @ = p THEN None ELSE @]
        /\ Go(p, IF proc[p].for = "started"
                 THEN [proc[p] EXCEPT !.at = "collect", !.for = "own", !.on = OwnLock(p), !.seen = image]
                 ELSE IF rest # {}
                 THEN [proc[p] EXCEPT !.at = "dropVersion", !.on = CHOOSE j \in rest : TRUE]
                 ELSE Resumed(p))
        /\ UNCHANGED <<files, migrated, image, faults>>

(* exec closes the lock's descriptor, so the new image starts without it. *)
Exec(p) ==
    /\ At(p, "exec")
    /\ held' = Without(p)
    /\ Go(p, Spawned(p))
    /\ UNCHANGED <<files, migrated, image, faults>>

Crash(p) ==
    /\ Alive(p) /\ Fault
    /\ held' = Without(p)
    /\ Go(p, Dead)
    /\ UNCHANGED <<files, migrated, image>>
-----------------------------------------------------------------------------
Step(p) ==
    \/ Probe(p) \/ Unprobe(p) \/ ReadPid(p) \/ ReadVersion(p) \/ Owner(p) \/ Signal(p)
    \/ TakeFree(p) \/ TakeHeld(p) \/ StampPid(p) \/ StampVersion(p) \/ Open(p)
    \/ Finish(p) \/ Retire(p) \/ DropVersion(p) \/ DropPid(p) \/ Unlock(p) \/ Exec(p)

Next ==
    \/ \E p \in Pid : Step(p) \/ Crash(p)
    \/ \E p \in Pid, prog \in Program, l \in Ledger : Start(p, prog, l)
    \/ Upgrade

Spec == Init /\ [][Next]_vars

(* Every process keeps running. *)
FairSpec == Spec /\ \A p \in Pid : WF_vars(Step(p))
-----------------------------------------------------------------------------
(* Properties *)

Stage == {"dead", "probe", "unprobe", "readPid", "readVersion", "owner", "signal",
          "take", "stampPid", "stampVersion", "open", "collect", "dropVersion",
          "dropPid", "unlock", "exec"}

TypeOK ==
    /\ held \in [Lock -> Pid \cup {None}]
    /\ pidFile \in [Lock -> Pid \cup {None}]
    /\ verFile \in [Lock -> (0 .. MaxBuild) \cup {None}]
    /\ proc \in [Pid -> [prog : Program \cup {"run", None}, ledger : Ledger \cup {None},
                         build : 0 .. MaxBuild, at : Stage, on : Lock \cup {None},
                         for : {"own", "legacy", "recheck", "stop", "started", "exit", "exec"},
                         pid : Pid \cup {None}, open : BOOLEAN, was : BOOLEAN,
                         seen : 0 .. MaxBuild]]
    /\ migrated \subseteq Ledger
    /\ image \in 1 .. MaxBuild /\ faults \in 0 .. MaxFaults

(* No two processes write one ledger at a time: collectors of either kind and    *)
(* maintenance exclude each other, through restarts, upgrades, crashes, probes   *)
(* and re-used pids (acquireCollectorStartupLock, AcquireCollectionLock).        *)
OneWriterPerLedger ==
    \A p, q \in Pid :
        proc[p].open /\ proc[q].open /\ proc[p].ledger = proc[q].ledger => p = q

(* The stamps beside a lock are those of the process that collects under it, so   *)
(* a command that reads them judges the right process and the right build: no     *)
(* process that came or went meanwhile removed or overwrote them.                 *)
StampsNameCollector ==
    \A p \in Pid : At(p, "collect") =>
        LET k == IF Is(p, {"old"}) THEN FirstLock(proc[p].ledger) ELSE OwnLock(p)
        IN  held[k] = p /\ pidFile[k] = p /\ verFile[k] = proc[p].build

Collecting(l) == \E p \in Pid : At(p, "collect") /\ Is(p, {"run"}) /\ proc[p].ledger = l
                                /\ proc[p].build = image

(* Self-healing: as long as commands keep being run, one after the other, a       *)
(* daemon of the installed build ends up collecting and stays, after any crash    *)
(* and any upgrade (ensureDaemon, ErrBinaryReplaced).                             *)
EnsureHeals ==
    \A l \in Ledger :
        []<>(\E p \in Pid : Is(p, {"ensure"}) /\ proc[p].ledger = l) => <>[]Collecting(l)

(* What the comments promise and the code does not keep                       *)

=============================================================================
