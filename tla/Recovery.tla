----------------------------- MODULE Recovery -----------------------------
(***************************************************************************)
(* Opening, migrating, restoring and resetting one ledger file (store/     *)
(* sqlite, migrate, recovery, restore; internal/cmd/root, db).  Each       *)
(* process runs one program:                                               *)
(*                                                                         *)
(*   command    any ordinary command: it opens the ledger, which creates   *)
(*              or migrates it; it takes the collection lock only if the   *)
(*              version it read before says that this is needed            *)
(*   collector  holds the lock, verifies, opens, writes rows               *)
(*   restore    db restore --replace, after collection was stopped         *)
(*   reset      db reset --quarantine                                      *)
(*                                                                         *)
(* A file is known by its inode, since a process keeps writing to a file   *)
(* that is renamed under it.  A database is its main file and a write-     *)
(* ahead log with the transactions that are not yet in the main file.      *)
(***************************************************************************)
EXTENDS Naturals, FiniteSets

CONSTANTS
    Proc,
    Program,   \* the programs the user runs
    Row,
    Latest,    \* SchemaVersion
    Targets,   \* the ledgers the processes may find
    Input,     \* the rows of the backup that is restored
    NewRow,    \* the row a collector writes
    MaxFiles,  \* bound on inodes
    MaxFaults, \* bound on crashes and failing calls
    None

FileId == 1 .. MaxFiles

(* A database: its rows, its version stamp (0: none) and the schema steps run. *)
Database == [rows : SUBSET Row, version : 0 .. Latest, applied : Nat]
Empty == [rows |-> {}, version |-> 0, applied |-> 0]

(* schema.sql, which creates every table at once, and its stamp. *)
Created(db) == [rows |-> db.rows, version |-> Latest, applied |-> Latest]

(* The backup that is restored, in the staged copy that was migrated and verified. *)
Snapshot == Created([Empty EXCEPT !.rows = Input])

ASSUME RecoveryAssumption ==
    /\ Latest \in Nat \ {0} /\ MaxFiles \in Nat \ {0} /\ MaxFaults \in Nat
    /\ Targets \subseteq [main : Database \cup {None}, wal : Database \cup {None}, sound : BOOLEAN]
    /\ \A t \in Targets : t.main = None => t.wal = None
    /\ \A t \in Targets : t.wal # None => t.main.rows \subseteq t.wal.rows
    /\ \A t \in Targets : \A db \in {t.main, t.wal} \ {None} : db.applied = db.version
    /\ Input \subseteq Row /\ NewRow \in Row
    /\ None \notin Database \cup Proc \cup Nat
    /\ Program \subseteq {"command", "collector", "restore", "reset"}

VARIABLES
    base,       \* inode -> what its main file holds
    wal,        \* inode -> what it holds with its log, or None without a log
    sound,      \* inode -> it passes the integrity check
    target,     \* the ledger's path: inodes of the main file and the log beside it
    quarantine, \* process -> the same for the directory it moves a bundle to
    backups,    \* published backups, safety copies and pre-migration snapshots
    files,      \* inodes used so far
    holder,     \* who holds the collection lock
    proc,       \* process -> where it is
    faults

vars == <<base, wal, sound, target, quarantine, backups, files, holder, proc, faults>>
contents == <<base, wal, sound, files>>
-----------------------------------------------------------------------------
(* Files *)

Nowhere == [main |-> None, wal |-> None]

(* What a reader of a path sees: a log counts only beside its own main file. *)
Content(e) == IF e.wal = e.main /\ wal[e.main] # None THEN wal[e.main] ELSE base[e.main]

Exists == target.main # None
Version == IF Exists THEN Content(target).version ELSE 0
Corrupt == Exists /\ ~sound[target.main]

(* What a writer on an open inode sees, wherever the file is by now. *)
Live(f) == IF wal[f] # None THEN wal[f] ELSE base[f]

(* The logs once f, the main file at the ledger's path, is opened there: one of   *)
(* another file is overwritten, and f's own, when it is elsewhere, has lost its   *)
(* main file.                                                                     *)
LogsBeside(f) ==
    [l \in FileId |-> IF target.wal # f /\ l \in {f, target.wal} THEN None ELSE wal[l]]

(* A write goes to the log that is open, which one at the path becomes only when   *)
(* there is none.                                                                  *)
Write(f, db) ==
    /\ IF target.main = f /\ (wal[f] = None \/ target.wal = f)
       THEN wal' = [LogsBeside(f) EXCEPT ![f] = db] /\ target' = [target EXCEPT !.wal = f]
       ELSE wal' = [wal EXCEPT ![f] = db] /\ UNCHANGED target
    /\ UNCHANGED <<base, sound, files>>

Idle == [prog |-> None, at |-> "idle", file |-> None, step |-> 0, backed |-> FALSE,
         before |-> None, moved |-> FALSE, log |-> FALSE, safety |-> None, verdict |-> None]

Init ==
    /\ \E t \in Targets :
          /\ base = [f \in FileId |-> IF f = 1 /\ t.main # None THEN t.main ELSE Empty]
          /\ wal = [f \in FileId |-> IF f = 1 THEN t.wal ELSE None]
          /\ sound = [f \in FileId |-> f = 1 => t.sound]
          /\ target = [main |-> IF t.main = None THEN None ELSE 1,
                       wal |-> IF t.wal = None THEN None ELSE 1]
    /\ quarantine = [p \in Proc |-> Nowhere]
    /\ backups = {}
    /\ files = 1
    /\ holder = None
    /\ proc = [p \in Proc |-> Idle]
    /\ faults = 0

At(p, stage) == proc[p].at = stage
Is(p, programs) == proc[p].prog \in programs
Go(p, new) == proc' = [proc EXCEPT ![p] = new]
GoTo(p, stage) == Go(p, [proc[p] EXCEPT !.at = stage])
Fault == faults < MaxFaults /\ faults' = faults + 1
NoFault == UNCHANGED faults
Maintenance == {"restore", "reset"}

(* The last process to close a file folds the log into it, if both are at the      *)
(* ledger's path.                                                                  *)
Close(p) ==
    LET f == proc[p].file
        last == \A q \in Proc \ {p} : proc[q].file # f
    IN  IF f # None /\ last /\ wal[f] # None /\ target = [main |-> f, wal |-> f]
        THEN /\ base' = [base EXCEPT ![f] = wal[f]]
             /\ wal' = [wal EXCEPT ![f] = None]
             /\ target' = [target EXCEPT !.wal = None]
        ELSE UNCHANGED <<base, wal, target>>

(* Maintenance ends with a ledger it does not let collection go on with. *)
Unusable(p) == [proc[p] EXCEPT !.at = "report", !.file = None, !.verdict = "unusable"]

Unlocked(p) == IF holder = p THEN None ELSE holder
-----------------------------------------------------------------------------
(* Before the ledger is opened: openStore, the collector's gate, maintenance *)

(* A command reads the version first, without the lock.  An unreadable file       *)
(* asks for the lock as an old or a missing one does.                             *)
Start(p, prog) ==
    /\ At(p, "idle")
    /\ \E needsLock \in BOOLEAN :
          /\ needsLock = (Version < Latest) \/ (needsLock /\ Corrupt)
          /\ Go(p, [Idle EXCEPT !.prog = prog,
                       !.at = IF prog = "command" /\ ~needsLock THEN "prepare" ELSE "take"])
    /\ UNCHANGED <<contents, target, quarantine, backups, holder, faults>>

(* Mutant of Take: maintenance goes on past a collector that it could not stop. *)
TakeFromCollector(p) ==
    /\ At(p, "take")
    /\ holder \in {None} \cup {q \in Proc : Is(p, Maintenance) /\ Is(q, {"collector"})}
    /\ holder' = p
    /\ GoTo(p, CASE Is(p, {"command"}) -> "prepare" [] Is(p, {"collector"}) -> "gate"
                 [] Is(p, {"restore"}) -> "verify" [] OTHER -> "moveMain")
    /\ UNCHANGED <<contents, target, quarantine, backups, faults>>

Take(p) ==
    /\ At(p, "take") /\ holder = None
    /\ holder' = p
    /\ GoTo(p, CASE Is(p, {"command"}) -> "prepare" [] Is(p, {"collector"}) -> "gate"
                 [] Is(p, {"restore"}) -> "verify" [] OTHER -> "moveMain")
    /\ UNCHANGED <<contents, target, quarantine, backups, faults>>

(* The lock is held: the first opener may be done by now, or the command gives    *)
(* up; anyone else fails at once.                                                 *)
TakeHeld(p) ==
    /\ At(p, "take") /\ holder # None
    /\ \/ Is(p, {"command"}) /\ Version = Latest /\ GoTo(p, "prepare")
       \/ GoTo(p, "done")
    /\ UNCHANGED <<contents, target, quarantine, backups, holder, faults>>

(* openCollectionStoreLocked: no collection into a damaged or unstamped ledger; a *)
(* file of no bytes, which is unstamped as well, is left to the open.             *)
Gate(p) ==
    /\ At(p, "gate")
    /\ \/ Exists /\ (Corrupt \/ Version = 0) /\ GoTo(p, "leave")
       \/ ~Corrupt /\ (Exists => Content(target) = Empty \/ Version > 0) /\ GoTo(p, "prepare")
    /\ UNCHANGED <<contents, target, quarantine, backups, holder, faults>>
-----------------------------------------------------------------------------
(* store.Open *)

(* Where a failing open leads: maintenance brings the moved bundle back.          *)
Failing(p) == [proc[p] EXCEPT !.at = IF Is(p, Maintenance) THEN "discard" ELSE "leave", !.file = None]

(* Mutant of Prepare: a snapshot that fails does not keep the migration back. *)
PrepareAnyway(p) ==
    /\ At(p, "prepare")
    /\ \/ /\ Version \in {0, Latest} /\ NoFault /\ GoTo(p, "ensure") /\ UNCHANGED backups
       \/ /\ Version \notin {0, Latest} /\ ~Corrupt /\ NoFault
          /\ backups' = backups \cup {Content(target)}
          /\ Go(p, [proc[p] EXCEPT !.at = "ensure", !.backed = TRUE])
       \/ /\ Fault /\ GoTo(p, "ensure") /\ UNCHANGED backups
    /\ UNCHANGED <<contents, target, quarantine, holder>>

(* prepareMigration: an older ledger is verified and copied before anything is    *)
(* changed; a failure ends the open.                                              *)
Prepare(p) ==
    /\ At(p, "prepare")
    /\ \/ /\ Version \in {0, Latest} /\ NoFault
          /\ GoTo(p, "ensure") /\ UNCHANGED backups
       \/ /\ Version \notin {0, Latest} /\ ~Corrupt /\ NoFault
          /\ backups' = backups \cup {Content(target)}
          /\ Go(p, [proc[p] EXCEPT !.at = "ensure", !.backed = TRUE])
       \/ /\ Fault \/ (Corrupt /\ NoFault)
          /\ Go(p, Failing(p)) /\ UNCHANGED backups
    /\ UNCHANGED <<contents, target, quarantine, holder>>

(* The writable handle.  A missing file is created, and SQLite deletes a log it   *)
(* finds beside an empty database; it overwrites one that is another file's.      *)
(* ensureSchema then reads the version its steps start from.                      *)
Ensure(p) ==
    LET f == IF Exists THEN target.main ELSE files + 1
    IN  /\ At(p, "ensure") /\ f \in FileId
        /\ files' = IF Exists THEN files ELSE f
        /\ wal' = LogsBeside(f)
        /\ target' = [main |-> f, wal |-> IF target.wal = f THEN f ELSE None]
        /\ Go(p, [proc[p] EXCEPT !.file = f, !.step = Version + 1,
                     !.at = IF Version = 0 THEN "stamp"
                            ELSE IF Version = Latest THEN "check" ELSE "migrate"])
        /\ UNCHANGED <<base, sound, quarantine, backups, holder, faults>>

(* A new file, or one left without a stamp: the whole schema, then the stamp.     *)
(* The stamp is withheld when a statement fails, and when verifyEventColumns      *)
(* finds a table that an older binary left without the columns of today; tables   *)
(* that were created by then stay.                                                *)
Stamp(p) ==
    LET f == proc[p].file
    IN  /\ At(p, "stamp")
        /\ \/ Write(f, Created(Live(f))) /\ GoTo(p, "check") /\ NoFault
           \/ /\ Write(f, Live(f)) \/ UNCHANGED <<contents, target>>
              /\ GoTo(p, "fail") /\ Fault
        /\ UNCHANGED <<quarantine, backups, holder>>

(* Mutant of Step: the version is not read again inside the transaction. *)
StepBlindly(db, step) == [rows |-> db.rows, version |-> step, applied |-> db.applied + 1]

(* One migration step on a database, which another process may have taken since. *)
Step(db, step) ==
    IF db.version >= step THEN db
    ELSE [rows |-> db.rows, version |-> step, applied |-> db.applied + 1]

(* applyMigration: the write lock first, the version again, then the statements   *)
(* and the stamp in one transaction.                                              *)
Migrate(p) ==
    LET f == proc[p].file
        step == proc[p].step
        new == [proc[p] EXCEPT !.step = step + 1, !.at = IF step = Latest THEN "check" ELSE @]
    IN  /\ At(p, "migrate")
        /\ \/ Live(f).version >= step - 1 /\ NoFault /\ Write(f, Step(Live(f), step)) /\ Go(p, new)
           \/ /\ (Live(f).version < step - 1 /\ NoFault) \/ Fault
              /\ Go(p, [proc[p] EXCEPT !.at = "fail"])
              /\ UNCHANGED <<contents, target>>
        /\ UNCHANGED <<quarantine, backups, holder>>

(* An open that failed closes its handle. *)
Fail(p) ==
    /\ At(p, "fail")
    /\ Close(p) /\ Go(p, Failing(p))
    /\ UNCHANGED <<sound, files, quarantine, backups, holder, faults>>

(* verifyCompletedMigration, or maintenance's own check of a fresh database;      *)
(* maintenance closes the fresh database before.  A command that has the ledger   *)
(* open gives the lock back.                                                      *)
Check(p) ==
    /\ At(p, "check")
    /\ IF Is(p, Maintenance)
       THEN /\ Close(p)
            /\ \/ NoFault /\ Go(p, [proc[p] EXCEPT !.file = None,
                              !.at = IF Is(p, {"reset"}) THEN "report" ELSE "transfer",
                              !.verdict = IF Is(p, {"reset"}) THEN "fresh" ELSE None])
               \/ Fault /\ (Go(p, Failing(p)) \/ Go(p, Unusable(p)))
            /\ UNCHANGED holder
       ELSE /\ UNCHANGED <<base, wal, target>>
            /\ \/ /\ NoFault /\ GoTo(p, "open")
                  /\ holder' = IF Is(p, {"command"}) THEN Unlocked(p) ELSE holder
               \/ Fault /\ proc[p].backed /\ GoTo(p, "fail") /\ UNCHANGED holder
    /\ UNCHANGED <<sound, files, quarantine, backups>>

(* A collector's transaction. *)
Commit(p) ==
    LET f == proc[p].file
    IN  /\ At(p, "open") /\ Is(p, {"collector"}) /\ NewRow \notin Live(f).rows
        /\ Write(f, [Live(f) EXCEPT !.rows = @ \cup {NewRow}])
        /\ UNCHANGED <<quarantine, backups, holder, proc, faults>>

(* The end of a command or a collector. *)
Finish(p) ==
    /\ At(p, "open") \/ At(p, "leave")
    /\ Close(p) /\ Go(p, [proc[p] EXCEPT !.at = "done", !.file = None])
    /\ holder' = Unlocked(p)
    /\ UNCHANGED <<sound, files, quarantine, backups, faults>>
-----------------------------------------------------------------------------
(* applyRestore *)

Verify(p) ==
    /\ At(p, "verify")
    /\ \/ NoFault /\ Go(p, [proc[p] EXCEPT !.before = IF Exists THEN Content(target) ELSE None,
                      !.at = IF ~Exists THEN "transfer" ELSE IF Corrupt THEN "moveMain" ELSE "backup"])
       \/ Fault /\ Go(p, Unusable(p))
    /\ UNCHANGED <<contents, target, quarantine, backups, holder>>

(* Mutant of SafetyBackup: a ledger of an older version is not copied. *)
SafetyBackupCurrentOnly(p) ==
    /\ At(p, "backup") /\ NoFault
    /\ backups' = IF Version = Latest THEN backups \cup {Content(target)} ELSE backups
    /\ Go(p, [proc[p] EXCEPT !.safety = Content(target), !.at = "transfer"])
    /\ UNCHANGED <<contents, target, quarantine, holder>>

SafetyBackup(p) ==
    /\ At(p, "backup")
    /\ \/ /\ NoFault
          /\ backups' = backups \cup {Content(target)}
          /\ Go(p, [proc[p] EXCEPT !.safety = Content(target), !.at = "transfer"])
       \/ /\ Fault /\ UNCHANGED backups
          /\ Go(p, IF Version = Latest THEN [Unusable(p) EXCEPT !.verdict = "kept"] ELSE Unusable(p))
    /\ UNCHANGED <<contents, target, quarantine, holder>>

(* What undoes a restore that fails: the quarantined bundle comes back, or the    *)
(* safety copy does, or the file that was not there is removed.                   *)
Undoing(p) ==
    IF proc[p].moved THEN "discard" ELSE IF proc[p].safety # None THEN "copyBack" ELSE "remove"

(* One transaction replaces the whole content of the file at the ledger's path,   *)
(* which is created if need be (restoreOnline, makeBackupStandalone).             *)
Replace(db) ==
    LET f == IF Exists THEN target.main ELSE files + 1
    IN  /\ f \in FileId
        /\ files' = IF Exists THEN files ELSE f
        /\ base' = [base EXCEPT ![f] = db]
        /\ wal' = [wal EXCEPT ![f] = None]
        /\ sound' = [sound EXCEPT ![f] = TRUE]
        /\ target' = [main |-> f, wal |-> None]

Transfer(p) ==
    /\ At(p, "transfer")
    /\ \/ NoFault /\ Replace(Snapshot) /\ GoTo(p, "confirm")
       \/ Fault /\ GoTo(p, Undoing(p)) /\ UNCHANGED <<contents, target>>
    /\ UNCHANGED <<quarantine, backups, holder>>

(* OpenReadOnly: a reader is let in at exactly the version of its binary. *)
Readable == Exists /\ Version = Latest

(* The restored target is verified and read. *)
Confirm(p) ==
    /\ At(p, "confirm")
    /\ \/ NoFault /\ Readable /\ Go(p, [proc[p] EXCEPT !.at = "report", !.verdict = "restored"])
       \/ (Fault \/ (~Readable /\ NoFault)) /\ GoTo(p, Undoing(p))
    /\ UNCHANGED <<contents, target, quarantine, backups, holder>>

(* Mutant of Usable: any sound ledger will do. *)
UsableAnyVersion(db) == TRUE

(* A ledger collection may go on with, as far as its version goes (Compatible). *)
Usable(db) == db.version = Latest

(* rollbackFailedRestore *)
CopyBack(p) ==
    /\ At(p, "copyBack")
    /\ \/ NoFault /\ Replace(proc[p].safety)
          /\ Go(p, IF Usable(proc[p].safety) THEN [Unusable(p) EXCEPT !.verdict = "kept"]
                   ELSE Unusable(p))
       \/ Fault /\ Go(p, Unusable(p)) /\ UNCHANGED <<contents, target>>
       \/ Fault /\ Go(p, Unusable(p)) /\ Replace(proc[p].safety)
    /\ UNCHANGED <<quarantine, backups, holder>>

(* assessFailedRestore, when there was no ledger before. *)
Remove(p) ==
    /\ At(p, "remove")
    /\ target' = Nowhere /\ Go(p, Unusable(p))
    /\ UNCHANGED <<contents, quarantine, backups, holder, faults>>
-----------------------------------------------------------------------------
(* quarantine: the main file, then the log, then a fresh ledger.  The members are *)
(* listed before the first is moved.                                              *)

MoveMain(p) ==
    /\ At(p, "moveMain")
    /\ \/ /\ Exists /\ NoFault
          /\ quarantine' = [quarantine EXCEPT ![p].main = target.main]
          /\ target' = [target EXCEPT !.main = None]
          /\ Go(p, [proc[p] EXCEPT !.at = "moveLog", !.moved = TRUE, !.log = target.wal # None])
       \/ /\ Fault \/ (~Exists /\ NoFault)
          /\ Go(p, Unusable(p)) /\ UNCHANGED <<target, quarantine>>
    /\ UNCHANGED <<contents, backups, holder>>

MoveLog(p) ==
    /\ At(p, "moveLog")
    /\ \/ /\ ~proc[p].log /\ NoFault
          /\ GoTo(p, "prepare") /\ UNCHANGED <<target, quarantine>>
       \/ /\ proc[p].log /\ target.wal # None
          /\ quarantine' = [quarantine EXCEPT ![p].wal = target.wal]
          /\ target' = [target EXCEPT !.wal = None]
          /\ \/ NoFault /\ GoTo(p, "prepare")
             \/ Fault /\ GoTo(p, "moveLogBack")
       \/ /\ Fault \/ (proc[p].log /\ target.wal = None /\ NoFault)
          /\ GoTo(p, "moveMainBack") /\ UNCHANGED <<target, quarantine>>
    /\ UNCHANGED <<contents, backups, holder>>

(* Whatever is at the ledger's path makes room for the original. *)
Discard(p) ==
    /\ At(p, "discard")
    /\ target' = Nowhere /\ GoTo(p, "moveLogBack")
    /\ UNCHANGED <<contents, quarantine, backups, holder, faults>>

(* rollbackQuarantineMoves, last member first; one that fails is reported and the *)
(* rest goes on.                                                                  *)
MoveLogBack(p) ==
    /\ At(p, "moveLogBack") /\ GoTo(p, "moveMainBack")
    /\ \/ /\ quarantine[p].wal # None /\ NoFault
          /\ target' = [target EXCEPT !.wal = quarantine[p].wal]
          /\ quarantine' = [quarantine EXCEPT ![p].wal = None]
       \/ /\ Fault \/ (quarantine[p].wal = None /\ NoFault)
          /\ UNCHANGED <<target, quarantine>>
    /\ UNCHANGED <<contents, backups, holder>>

MoveMainBack(p) ==
    /\ At(p, "moveMainBack")
    /\ Go(p, Unusable(p))
    /\ \/ /\ NoFault
          /\ target' = [target EXCEPT !.main = quarantine[p].main]
          /\ quarantine' = [quarantine EXCEPT ![p].main = None]
       \/ Fault /\ UNCHANGED <<target, quarantine>>
    /\ UNCHANGED <<contents, backups, holder>>

(* The outcome is known; the lock goes, and collection resumes if it may. *)
Report(p) ==
    /\ At(p, "report")
    /\ holder' = Unlocked(p) /\ GoTo(p, "done")
    /\ UNCHANGED <<contents, target, quarantine, backups, faults>>

(* A process is killed: files stay as they are. *)
Crash(p) ==
    /\ ~At(p, "idle") /\ ~At(p, "done") /\ Fault
    /\ Go(p, [Idle EXCEPT !.at = "done"]) /\ holder' = Unlocked(p)
    /\ UNCHANGED <<contents, target, quarantine, backups>>

Next ==
    \/ \E p \in Proc, prog \in Program : Start(p, prog)
    \/ \E p \in Proc :
        \/ Take(p) \/ TakeHeld(p) \/ Gate(p)
        \/ Prepare(p) \/ Ensure(p) \/ Stamp(p) \/ Migrate(p) \/ Fail(p) \/ Check(p)
        \/ Commit(p) \/ Finish(p)
        \/ Verify(p) \/ SafetyBackup(p) \/ Transfer(p) \/ Confirm(p) \/ CopyBack(p) \/ Remove(p)
        \/ MoveMain(p) \/ MoveLog(p) \/ Discard(p) \/ MoveLogBack(p) \/ MoveMainBack(p)
        \/ Report(p) \/ Crash(p)

Spec == Init /\ [][Next]_vars
-----------------------------------------------------------------------------
(* Properties *)

Stage == {"idle", "take", "gate", "prepare", "ensure", "stamp", "migrate", "fail", "check",
          "open", "leave", "verify", "backup", "transfer", "confirm", "copyBack", "remove",
          "moveMain", "moveLog", "discard", "moveLogBack", "moveMainBack", "report", "done"}

Bundle == [main : FileId \cup {None}, wal : FileId \cup {None}]

Process == [prog : Program \cup {None}, at : Stage, file : FileId \cup {None},
            step : 0 .. Latest + 1, backed : BOOLEAN, before : Database \cup {None},
            moved : BOOLEAN, log : BOOLEAN, safety : Database \cup {None},
            verdict : {None, "fresh", "restored", "kept", "unusable"}]

TypeOK ==
    /\ base \in [FileId -> Database] /\ wal \in [FileId -> Database \cup {None}]
    /\ sound \in [FileId -> BOOLEAN]
    /\ target \in Bundle /\ quarantine \in [Proc -> Bundle]
    /\ backups \subseteq Database
    /\ files \in FileId /\ holder \in Proc \cup {None} /\ faults \in 0 .. MaxFaults
    /\ proc \in [Proc -> Process]

(* The files a user can still find rows in. *)
Bundles == {target} \cup {quarantine[p] : p \in Proc}
Copies == Input \cup UNION {db.rows : db \in backups}
InMainFiles == Copies \cup UNION {base[e.main].rows : e \in {b \in Bundles : b.main # None}}

(* Rows that reached a main file are never lost: whatever is restored, reset,     *)
(* rolled back, migrated or interrupted, some file keeps them.                    *)
MainFilesKept == [][InMainFiles \subseteq InMainFiles']_vars

(* Every database has had each schema step exactly once (applyMigration). *)
StepsRunOnce ==
    /\ \A e \in Bundles : e.main # None => Live(e.main).applied = Live(e.main).version
    /\ \A db \in backups : db.applied = db.version

(* A step of a migration would find a backup to undo it: one of the ledger as it  *)
(* was, of an older version.                                                      *)
Undoable(f) ==
    Live(f).version > 0 /\ Live(f)'.version > Live(f).version =>
        \E db \in backups : db.version \in 1 .. Live(f).version /\ db.rows = Live(f).rows

(* Who owns collection migrates nothing without a backup that undoes it: what     *)
(* prepareMigration copied is what the steps meet.                                *)
OwnerMigratesUndoably ==
    [][\A p \in Proc, f \in FileId :
          holder = p /\ At(p, "migrate") /\ proc[p].file = f => Undoable(f)]_vars

(* What maintenance reports is so: a restored ledger is the snapshot, a kept one  *)
(* is the one before, and both, like a fresh one, may be collected into.          *)
ReportTrue ==
    \A p \in Proc :
        At(p, "report") /\ proc[p].verdict # "unusable" =>
          /\ Exists /\ ~Corrupt /\ Version = Latest
          /\ proc[p].verdict = "restored" => Content(target).rows = Input
          /\ proc[p].verdict = "kept" => Content(target).rows = proc[p].before.rows
          /\ proc[p].verdict = "fresh" => Content(target).rows = {}

(* A collector writes to the ledger at its path, and to a sound one: nobody moves *)
(* or replaces the file under it, and its gate holds (openCollectionStoreLocked). *)
CollectorOnTarget ==
    \A p \in Proc :
        At(p, "open") /\ Is(p, {"collector"}) => target.main = proc[p].file /\ ~Corrupt

=============================================================================
