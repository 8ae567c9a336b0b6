-------------------------- MODULE RecoveryProofs --------------------------
(***************************************************************************)
(* What holds of Recovery for any number of processes, rows, versions,     *)
(* files and faults.                                                       *)
(***************************************************************************)
EXTENDS Recovery, TLAPS

(* The stages with the ledger open for writing, and those of maintenance only. *)
Opened == {"stamp", "migrate", "fail", "check", "open"}
Repairing == {"verify", "backup", "transfer", "confirm", "copyBack", "remove", "moveMain",
              "moveLog", "discard", "moveLogBack", "moveMainBack", "report"}
Owners == Maintenance \cup {"collector"}

Once(db) == db.applied = db.version

(* The files: well typed, every database with each step run once, and every     *)
(* file that was created here sound.                                            *)
FilesInv ==
    /\ base \in [FileId -> Database] /\ wal \in [FileId -> Database \cup {None}]
    /\ sound \in [FileId -> BOOLEAN]
    /\ target \in Bundle /\ quarantine \in [Proc -> Bundle]
    /\ backups \subseteq Database
    /\ files \in FileId /\ holder \in Proc \cup {None} /\ faults \in 0 .. MaxFaults
    /\ \A f \in FileId : Once(base[f]) /\ (wal[f] # None => Once(wal[f]))
    /\ \A db \in backups : Once(db)
    /\ \A f \in FileId : f # 1 => sound[f]

WellFormed(r) ==
    /\ r \in Process
    /\ r.at \notin {"idle", "done"} => r.prog \in Program
    /\ r.at \in Opened => r.file \in FileId
    /\ r.at = "migrate" => r.step \in 1 .. Latest
    /\ r.at = "copyBack" => r.safety # None
    /\ r.safety # None => Once(r.safety)
    /\ r.at \in Repairing => r.prog \in Maintenance

(* Collectors and maintenance hold the lock as long as they work. *)
Owns(p, r, h) == r.prog \in Owners /\ r.at \notin {"idle", "take", "done"} => h = p

(* What the lock keeps in its place: the ledger that is about to be copied, and *)
(* the sound one a collector has open or is about to open.                      *)
Placed(r, t, s) ==
    /\ r.at = "backup" => t.main # None
    /\ r.prog = "collector" =>
         /\ r.at \in {"prepare", "ensure"} \cup Opened /\ t.main # None => s[t.main]
         /\ r.at \in Opened => t.main = r.file

Safe(p, r, h, t, s) == WellFormed(r) /\ Owns(p, r, h) /\ Placed(r, t, s)

RecoveryInv ==
    /\ FilesInv
    /\ proc \in [Proc -> Process]
    /\ \A p \in Proc : Safe(p, proc[p], holder, target, sound)

-----------------------------------------------------------------------------

LEMMA FaultsAreBounded ==
    ASSUME FilesInv, Fault \/ NoFault
    PROVE  faults' \in 0 .. MaxFaults
BY RecoveryAssumption DEF FilesInv, Fault, NoFault

LEMMA DatabasesAreTyped ==
    /\ Empty \in Database /\ Once(Empty)
    /\ Snapshot \in Database /\ Once(Snapshot)
    /\ \A db \in Database : Created(db) \in Database /\ Once(Created(db))
    /\ None \notin Database /\ None \notin FileId /\ None \notin Proc
<1>1. Latest \in Nat /\ Input \subseteq Row /\ None \notin Database /\ None \notin Proc
      /\ None \notin Nat
  BY RecoveryAssumption
<1>2. Empty \in Database /\ Once(Empty)
  BY <1>1 DEF Empty, Database, Once
<1>3. ASSUME NEW db \in Database PROVE Created(db) \in Database /\ Once(Created(db))
  BY <1>1 DEF Created, Database, Once
<1>4. [Empty EXCEPT !.rows = Input] \in Database
  BY <1>1 DEF Empty, Database
<1>5. Snapshot \in Database /\ Once(Snapshot)
  BY <1>3, <1>4 DEF Snapshot
<1>6. None \notin FileId
  BY <1>1, RecoveryAssumption DEF FileId
<1>. QED BY <1>1, <1>2, <1>3, <1>5, <1>6

(* Whoever looks at the ledger's path, or writes to an open file, sees a database. *)
LEMMA ContentIsTyped ==
    ASSUME FilesInv, Exists
    PROVE  /\ Content(target) \in Database /\ Once(Content(target))
           /\ target.main \in FileId
BY DatabasesAreTyped DEF FilesInv, Exists, Content, Bundle

LEMMA LiveIsTyped ==
    ASSUME FilesInv, NEW f \in FileId
    PROVE  Live(f) \in Database /\ Once(Live(f))
BY DatabasesAreTyped DEF FilesInv, Live

(* A step that p takes: a process that does nothing stays safe if p holds the    *)
(* lock, if the ledger's main file stays, or if one appears where none was.      *)
LEMMA OneProcessStep ==
    ASSUME RecoveryInv, NEW p \in Proc, NEW r, Go(p, r), FilesInv',
           Safe(p, r, holder', target', sound'),
           \A q \in Proc \ {p} : holder = q => holder' = q,
           \/ holder = p
           \/ target'.main = target.main /\ UNCHANGED sound
           \/ target.main = None /\ target'.main \in FileId /\ sound[target'.main] /\ UNCHANGED sound
    PROVE  RecoveryInv'
<1>1. proc \in [Proc -> Process] /\ proc' = [proc EXCEPT ![p] = r] /\ r \in Process
  BY DEF RecoveryInv, Go, Safe, WellFormed
<1>2. proc' \in [Proc -> Process]
  BY <1>1
<1>3. ASSUME NEW q \in Proc PROVE Safe(q, proc[q], holder, target, sound)'
  <2>1. CASE q = p
    BY <1>1, <2>1
  <2>2. CASE q # p
    <3>1. proc'[q] = proc[q]
      BY <1>1, <2>2
    <3>2. Safe(q, proc[q], holder, target, sound)
      BY DEF RecoveryInv
    <3>3. WellFormed(proc[q])
      BY <3>2 DEF Safe
    <3>4. Owns(q, proc[q], holder')
      BY <3>2, <2>2 DEF Safe, Owns
    <3>5. Placed(proc[q], target', sound')
      <4>1. CASE holder = p
        <5>1. ~(proc[q].prog \in Owners /\ proc[q].at \notin {"idle", "take", "done"})
          BY <3>2, <2>2, <4>1 DEF Safe, Owns
        <5>. QED BY <5>1, <3>3 DEF Placed, WellFormed, Owners, Opened, Repairing
      <4>2. CASE target'.main = target.main /\ UNCHANGED sound
        BY <3>2, <4>2 DEF Safe, Placed
      <4>3. CASE target.main = None /\ target'.main \in FileId /\ sound[target'.main] /\ UNCHANGED sound
        BY <3>2, <3>3, <4>3, DatabasesAreTyped DEF Safe, Placed, WellFormed
      <4>. QED BY <4>1, <4>2, <4>3
    <3>6. Safe(q, proc[q], holder', target', sound')
      BY <3>3, <3>4, <3>5 DEF Safe
    <3>. QED BY <3>1, <3>6
  <2>. QED BY <2>1, <2>2
<1>. QED BY <1>2, <1>3 DEF RecoveryInv

(* A step of p that leaves every file in place. *)
LEMMA QuietStep ==
    ASSUME RecoveryInv, NEW p \in Proc, NEW r, Go(p, r),
           UNCHANGED <<contents, target, quarantine>>,
           backups' \subseteq Database, \A db \in backups' : Once(db),
           holder' \in Proc \cup {None}, \A q \in Proc \ {p} : holder = q => holder' = q,
           faults' \in 0 .. MaxFaults,
           WellFormed(r), Owns(p, r, holder'), Placed(r, target, sound)
    PROVE  RecoveryInv'
<1>1. FilesInv'
  BY DEF RecoveryInv, FilesInv, contents
<1>2. UNCHANGED <<target, sound>>
  BY DEF contents
<1>3. Safe(p, r, holder', target', sound')
  BY <1>2 DEF Safe
<1>. QED BY <1>1, <1>2, <1>3, OneProcessStep

-----------------------------------------------------------------------------
(* What the steps do to the files *)

LEMMA WriteKeepsFiles ==
    ASSUME FilesInv, NEW f \in FileId, NEW db \in Database, Once(db), Write(f, db),
           UNCHANGED <<quarantine, backups, holder>>, faults' \in 0 .. MaxFaults
    PROVE  FilesInv' /\ target'.main = target.main /\ UNCHANGED sound
<1>1. target' \in Bundle /\ target'.main = target.main
  BY DEF Write, FilesInv, Bundle
<1>2. wal' \in [FileId -> Database \cup {None}]
  BY DEF Write, LogsBeside, FilesInv
<1>3. ASSUME NEW g \in FileId, wal'[g] # None PROVE Once(wal'[g])
  BY <1>3 DEF Write, LogsBeside, FilesInv
<1>4. UNCHANGED <<base, sound, files>>
  BY DEF Write
<1>. QED BY <1>1, <1>2, <1>3, <1>4 DEF FilesInv

LEMMA CloseKeepsFiles ==
    ASSUME FilesInv, NEW p \in Proc, proc[p].file \in FileId \cup {None}, Close(p),
           UNCHANGED <<sound, files, quarantine, backups>>,
           holder' \in Proc \cup {None}, faults' \in 0 .. MaxFaults
    PROVE  FilesInv' /\ target'.main = target.main
<1>. DEFINE f == proc[p].file
<1>1. CASE UNCHANGED <<base, wal, target>>
  BY <1>1 DEF FilesInv
<1>2. CASE /\ f # None /\ wal[f] # None
           /\ base' = [base EXCEPT ![f] = wal[f]]
           /\ wal' = [wal EXCEPT ![f] = None]
           /\ target' = [target EXCEPT !.wal = None]
  <2>1. f \in FileId /\ wal[f] \in Database /\ Once(wal[f])
    BY <1>2 DEF FilesInv
  <2>2. base' \in [FileId -> Database] /\ wal' \in [FileId -> Database \cup {None}]
    BY <1>2, <2>1 DEF FilesInv
  <2>3. \A g \in FileId : Once(base'[g]) /\ (wal'[g] # None => Once(wal'[g]))
    BY <1>2, <2>1 DEF FilesInv
  <2>4. target' \in Bundle /\ target'.main = target.main
    BY <1>2 DEF FilesInv, Bundle
  <2>. QED BY <2>2, <2>3, <2>4 DEF FilesInv
<1>. QED BY <1>1, <1>2 DEF Close

LEMMA ReplaceKeepsFiles ==
    ASSUME FilesInv, NEW db \in Database, Once(db), Replace(db),
           UNCHANGED <<quarantine, backups, holder>>, faults' \in 0 .. MaxFaults
    PROVE  FilesInv' /\ target'.main \in FileId
<1>. DEFINE f == IF Exists THEN target.main ELSE files + 1
<1>1. f \in FileId /\ files' \in FileId
  BY DEF Replace, FilesInv
<1>2. base' \in [FileId -> Database] /\ wal' \in [FileId -> Database \cup {None}]
      /\ sound' \in [FileId -> BOOLEAN]
  BY <1>1 DEF Replace, FilesInv
<1>3. \A g \in FileId : Once(base'[g]) /\ (wal'[g] # None => Once(wal'[g]))
  BY <1>1 DEF Replace, FilesInv
<1>4. \A g \in FileId : g # 1 => sound'[g]
  BY <1>1 DEF Replace, FilesInv
<1>5. target' \in Bundle /\ target'.main \in FileId
  BY <1>1 DEF Replace, Bundle
<1>. QED BY <1>1, <1>2, <1>3, <1>4, <1>5 DEF FilesInv

LEMMA MoveKeepsFiles ==
    ASSUME FilesInv, UNCHANGED <<contents, backups, holder>>, faults' \in 0 .. MaxFaults,
           target' \in Bundle, quarantine' \in [Proc -> Bundle]
    PROVE  FilesInv'
BY DEF FilesInv, contents

LEMMA StepKeepsDatabase ==
    ASSUME NEW db \in Database, Once(db), NEW step \in 1 .. Latest, db.version >= step - 1
    PROVE  Step(db, step) \in Database /\ Once(Step(db, step))
<1>1. CASE db.version >= step
  BY <1>1 DEF Step
<1>2. CASE ~(db.version >= step)
  <2>1. db.version \in Nat /\ Latest \in Nat
    BY RecoveryAssumption DEF Database
  <2>2. db.version + 1 = step
    BY <1>2, <2>1
  <2>. QED BY <1>2, <2>1, <2>2 DEF Step, Database, Once
<1>. QED BY <1>1, <1>2

-----------------------------------------------------------------------------
(* Before the ledger is opened *)

LEMMA ProcessIsSafe ==
    ASSUME RecoveryInv, NEW p \in Proc
    PROVE  /\ proc[p] \in Process /\ WellFormed(proc[p])
           /\ Owns(p, proc[p], holder) /\ Placed(proc[p], target, sound)
           /\ FilesInv
BY DEF RecoveryInv, Safe, WellFormed

(* A record that moves to another stage keeps its other fields. *)
LEMMA MovedRecord ==
    ASSUME NEW r \in Process, NEW stage \in Stage
    PROVE  /\ [r EXCEPT !.at = stage] \in Process
           /\ [r EXCEPT !.at = stage].at = stage
           /\ [r EXCEPT !.at = stage].prog = r.prog
           /\ [r EXCEPT !.at = stage].file = r.file
           /\ [r EXCEPT !.at = stage].step = r.step
           /\ [r EXCEPT !.at = stage].safety = r.safety
BY DEF Process

LEMMA IdleIsTyped == Idle \in Process /\ Idle.file = None /\ Idle.safety = None
<1>1. 0 \in 0 .. Latest + 1
  BY RecoveryAssumption
<1>. QED BY <1>1 DEF Idle, Process, Stage

LEMMA StartKeepsInv ==
    ASSUME RecoveryInv, NEW p \in Proc, NEW prog \in Program, Start(p, prog)
    PROVE  RecoveryInv'
<1>1. PICK needsLock \in BOOLEAN :
          Go(p, [Idle EXCEPT !.prog = prog,
                    !.at = IF prog = "command" /\ ~needsLock THEN "prepare" ELSE "take"])
  BY DEF Start
<1>. DEFINE stage == IF prog = "command" /\ ~needsLock THEN "prepare" ELSE "take"
            r == [Idle EXCEPT !.prog = prog, !.at = stage]
<1>2. stage \in Stage /\ stage \in {"prepare", "take"} /\ (stage = "prepare" => prog = "command")
  BY DEF Stage
<1>3. Go(p, r)
  BY <1>1
<1>. HIDE DEF stage
<1>4. r \in Process /\ r.at = stage /\ r.prog = prog /\ r.safety = None
  BY <1>2, IdleIsTyped DEF Process
<1>. HIDE DEF r
<1>5. WellFormed(r)
  BY <1>2, <1>4 DEF WellFormed, Opened, Repairing
<1>6. Owns(p, r, holder) /\ Placed(r, target, sound)
  BY <1>2, <1>4 DEF Owns, Owners, Maintenance, Placed, Opened
<1>7. UNCHANGED <<contents, target, quarantine, backups, holder, faults>>
  BY DEF Start
<1>. QED BY <1>3, <1>5, <1>6, <1>7, QuietStep, ProcessIsSafe DEF FilesInv

(* A step that only moves p to another stage, or gives or takes the lock. *)
LEMMA StageStep ==
    ASSUME RecoveryInv, NEW p \in Proc, NEW stage \in Stage, GoTo(p, stage),
           proc[p].at \notin {"idle", "done"}, UNCHANGED <<contents, target, quarantine>>,
           backups' \subseteq Database, \A db \in backups' : Once(db),
           holder' \in Proc \cup {None}, \A q \in Proc \ {p} : holder = q => holder' = q,
           faults' \in 0 .. MaxFaults,
           stage \in Opened => proc[p].file \in FileId,
           stage = "migrate" => proc[p].step \in 1 .. Latest,
           stage = "copyBack" => proc[p].safety # None,
           stage \in Repairing => proc[p].prog \in Maintenance,
           proc[p].prog \in Owners /\ stage \notin {"idle", "take", "done"} => holder' = p,
           stage = "backup" => target.main # None,
           proc[p].prog = "collector" =>
             /\ stage \in {"prepare", "ensure"} \cup Opened /\ target.main # None => sound[target.main]
             /\ stage \in Opened => target.main = proc[p].file
    PROVE  RecoveryInv'
<1>. DEFINE r == [proc[p] EXCEPT !.at = stage]
<1>1. proc[p] \in Process /\ WellFormed(proc[p])
  BY ProcessIsSafe
<1>2. /\ r \in Process /\ r.at = stage /\ r.prog = proc[p].prog /\ r.file = proc[p].file
      /\ r.step = proc[p].step /\ r.safety = proc[p].safety
  BY <1>1, MovedRecord
<1>3. Go(p, r)
  BY DEF GoTo
<1>. HIDE DEF r
<1>4. WellFormed(r)
  BY <1>1, <1>2 DEF WellFormed
<1>5. Owns(p, r, holder') /\ Placed(r, target, sound)
  BY <1>2 DEF Owns, Placed
<1>. QED BY <1>3, <1>4, <1>5, QuietStep

LEMMA TakeKeepsInv ==
    ASSUME RecoveryInv, NEW p \in Proc, Take(p)
    PROVE  RecoveryInv'
<1>. DEFINE stage == CASE Is(p, {"command"}) -> "prepare" [] Is(p, {"collector"}) -> "gate"
                       [] Is(p, {"restore"}) -> "verify" [] OTHER -> "moveMain"
<1>1. WellFormed(proc[p]) /\ FilesInv /\ proc[p].at = "take"
  BY ProcessIsSafe DEF Take, At
<1>2. proc[p].prog \in {"command", "collector", "restore", "reset"}
  BY <1>1, RecoveryAssumption DEF WellFormed
<1>3. /\ stage \in {"prepare", "gate", "verify", "moveMain"}
      /\ stage = "prepare" => proc[p].prog # "collector"
      /\ stage \in {"verify", "moveMain"} => proc[p].prog \in Maintenance
  <2>1. CASE proc[p].prog = "command"
    BY <2>1 DEF Is
  <2>2. CASE proc[p].prog = "collector"
    BY <2>2 DEF Is
  <2>3. CASE proc[p].prog = "restore"
    BY <2>3 DEF Is, Maintenance
  <2>4. CASE proc[p].prog = "reset"
    BY <2>4 DEF Is, Maintenance
  <2>. QED BY <1>2, <2>1, <2>2, <2>3, <2>4
<1>4. GoTo(p, stage) /\ holder' = p /\ holder = None
      /\ UNCHANGED <<contents, target, quarantine, backups, faults>>
  BY DEF Take
<1>. HIDE DEF stage
<1>5. stage \in Stage /\ stage \notin Opened /\ stage \notin {"copyBack", "backup", "migrate", "ensure"}
      /\ (stage \in Repairing => stage \in {"verify", "moveMain"})
  BY <1>3 DEF Stage, Opened, Repairing
<1>6. \A q \in Proc \ {p} : holder = q => holder' = q
  BY <1>4, DatabasesAreTyped
<1>. QED BY <1>1, <1>3, <1>4, <1>5, <1>6, StageStep DEF FilesInv

LEMMA TakeHeldKeepsInv ==
    ASSUME RecoveryInv, NEW p \in Proc, TakeHeld(p)
    PROVE  RecoveryInv'
<1>1. WellFormed(proc[p]) /\ FilesInv /\ proc[p].at = "take"
  BY ProcessIsSafe DEF TakeHeld, At
<1>2. UNCHANGED <<contents, target, quarantine, backups, holder, faults>>
  BY DEF TakeHeld
<1>3. CASE proc[p].prog = "command" /\ GoTo(p, "prepare")
  BY <1>1, <1>2, <1>3, StageStep DEF FilesInv, Stage, Opened, Repairing, Owners, Maintenance
<1>4. CASE GoTo(p, "done")
  BY <1>1, <1>2, <1>4, StageStep DEF FilesInv, Stage, Opened, Repairing
<1>. QED BY <1>3, <1>4 DEF TakeHeld, Is

LEMMA GateKeepsInv ==
    ASSUME RecoveryInv, NEW p \in Proc, Gate(p)
    PROVE  RecoveryInv'
<1>1. WellFormed(proc[p]) /\ Owns(p, proc[p], holder) /\ FilesInv /\ proc[p].at = "gate"
  BY ProcessIsSafe DEF Gate, At
<1>2. UNCHANGED <<contents, target, quarantine, backups, holder, faults>>
  BY DEF Gate
<1>3. proc[p].prog \in Owners => holder = p
  BY <1>1 DEF Owns
<1>4. CASE GoTo(p, "leave")
  BY <1>1, <1>2, <1>3, <1>4, StageStep DEF FilesInv, Stage, Opened, Repairing
<1>5. CASE ~Corrupt /\ GoTo(p, "prepare")
  BY <1>1, <1>2, <1>3, <1>5, StageStep DEF FilesInv, Stage, Opened, Repairing, Corrupt, Exists
<1>. QED BY <1>4, <1>5 DEF Gate

-----------------------------------------------------------------------------
(* The open *)

LEMMA FailingIsSafe ==
    ASSUME RecoveryInv, NEW p \in Proc, proc[p].at \notin {"idle", "take", "done"},
           NEW t, NEW ok
    PROVE  Safe(p, Failing(p), holder, t, ok)
<1>. DEFINE stage == IF Is(p, Maintenance) THEN "discard" ELSE "leave"
            r == Failing(p)
<1>1. proc[p] \in Process /\ WellFormed(proc[p]) /\ Owns(p, proc[p], holder)
  BY ProcessIsSafe
<1>2. stage \in {"discard", "leave"} /\ stage \in Stage
      /\ (stage = "discard" => proc[p].prog \in Maintenance)
  BY DEF Stage, Is
<1>3. r = [proc[p] EXCEPT !.at = stage, !.file = None]
  BY DEF Failing
<1>. HIDE DEF stage
<1>4. r \in Process /\ r.at = stage /\ r.prog = proc[p].prog /\ r.safety = proc[p].safety
  BY <1>1, <1>2, <1>3 DEF Process
<1>. HIDE DEF r
<1>5. WellFormed(r)
  BY <1>1, <1>2, <1>4 DEF WellFormed, Opened, Repairing
<1>6. Owns(p, r, holder) /\ Placed(r, t, ok)
  BY <1>1, <1>2, <1>4 DEF Owns, Placed, Opened
<1>7. Safe(p, r, holder, t, ok)
  BY <1>5, <1>6 DEF Safe
<1>. QED BY <1>7 DEF r

LEMMA UnusableIsSafe ==
    ASSUME RecoveryInv, NEW p \in Proc, proc[p].at \notin {"idle", "take", "done"},
           proc[p].prog \in Maintenance, NEW t, NEW ok
    PROVE  /\ Safe(p, Unusable(p), holder, t, ok)
           /\ Safe(p, [Unusable(p) EXCEPT !.verdict = "kept"], holder, t, ok)
<1>1. proc[p] \in Process /\ WellFormed(proc[p]) /\ Owns(p, proc[p], holder)
  BY ProcessIsSafe
<1>2. ASSUME NEW r \in Process, r.at = "report", r.prog = proc[p].prog, r.safety = proc[p].safety
      PROVE  Safe(p, r, holder, t, ok)
  <2>1. WellFormed(r)
    BY <1>1, <1>2 DEF WellFormed, Opened
  <2>2. Owns(p, r, holder) /\ Placed(r, t, ok)
    BY <1>1, <1>2 DEF Owns, Placed, Opened, Maintenance
  <2>. QED BY <2>1, <2>2 DEF Safe
<1>. DEFINE r == Unusable(p)
            k == [Unusable(p) EXCEPT !.verdict = "kept"]
<1>3. r \in Process /\ r.at = "report" /\ r.prog = proc[p].prog /\ r.safety = proc[p].safety
  BY <1>1 DEF Unusable, Process, Stage
<1>4. k \in Process /\ k.at = "report" /\ k.prog = proc[p].prog /\ k.safety = proc[p].safety
  BY <1>3 DEF Process
<1>. QED BY <1>2, <1>3, <1>4

LEMMA PrepareKeepsInv ==
    ASSUME RecoveryInv, NEW p \in Proc, Prepare(p)
    PROVE  RecoveryInv'
<1>1. /\ WellFormed(proc[p]) /\ Owns(p, proc[p], holder) /\ FilesInv /\ proc[p] \in Process
      /\ Placed(proc[p], target, sound) /\ proc[p].at = "prepare"
  BY ProcessIsSafe DEF Prepare, At
<1>2. UNCHANGED <<contents, target, quarantine, holder>>
  BY DEF Prepare
<1>3. proc[p].prog \in Owners => holder = p
  BY <1>1 DEF Owns
<1>4. CASE Version \in {0, Latest} /\ NoFault /\ GoTo(p, "ensure") /\ UNCHANGED backups
  <2>1. faults' \in 0 .. MaxFaults
    BY <1>1, <1>4, FaultsAreBounded
  <2>2. proc[p].prog = "collector" => (target.main # None => sound[target.main])
    BY <1>1 DEF Placed
  <2>. QED BY <1>1, <1>2, <1>3, <1>4, <2>1, <2>2, StageStep
           DEF FilesInv, Stage, Opened, Repairing
<1>5. CASE /\ Version \notin {0, Latest} /\ ~Corrupt /\ NoFault
           /\ backups' = backups \cup {Content(target)}
           /\ Go(p, [proc[p] EXCEPT !.at = "ensure", !.backed = TRUE])
  <2>. DEFINE r == [proc[p] EXCEPT !.at = "ensure", !.backed = TRUE]
  <2>1. faults' \in 0 .. MaxFaults
    BY <1>1, <1>5, FaultsAreBounded
  <2>2. backups' \subseteq Database /\ \A db \in backups' : Once(db)
    BY <1>1, <1>5, ContentIsTyped DEF Version, FilesInv
  <2>3. r \in Process /\ r.at = "ensure" /\ r.prog = proc[p].prog /\ r.safety = proc[p].safety
    BY <1>1 DEF Process, Stage
  <2>. HIDE DEF r
  <2>4. WellFormed(r)
    BY <1>1, <2>3 DEF WellFormed, Opened, Repairing
  <2>5. Owns(p, r, holder) /\ Placed(r, target, sound)
    BY <1>1, <2>3 DEF Owns, Placed, Opened
  <2>6. Go(p, r)
    BY <1>5 DEF r
  <2>. QED BY <1>1, <1>2, <2>1, <2>2, <2>4, <2>5, <2>6, QuietStep DEF FilesInv
<1>6. CASE (Fault \/ (Corrupt /\ NoFault)) /\ Go(p, Failing(p)) /\ UNCHANGED backups
  <2>1. faults' \in 0 .. MaxFaults
    BY <1>1, <1>6, FaultsAreBounded
  <2>2. Safe(p, Failing(p), holder, target, sound)
    BY <1>1, FailingIsSafe
  <2>. QED BY <1>1, <1>2, <1>6, <2>1, <2>2, QuietStep DEF FilesInv, Safe
<1>. QED BY <1>4, <1>5, <1>6 DEF Prepare

LEMMA EnsureKeepsInv ==
    ASSUME RecoveryInv, NEW p \in Proc, Ensure(p)
    PROVE  RecoveryInv'
<1>. DEFINE f == IF Exists THEN target.main ELSE files + 1
            stage == IF Version = 0 THEN "stamp" ELSE IF Version = Latest THEN "check" ELSE "migrate"
            r == [proc[p] EXCEPT !.file = f, !.step = Version + 1, !.at = stage]
<1>1. /\ WellFormed(proc[p]) /\ Owns(p, proc[p], holder) /\ FilesInv /\ proc[p] \in Process
      /\ Placed(proc[p], target, sound) /\ proc[p].at = "ensure"
  BY ProcessIsSafe DEF Ensure, At
<1>2. f \in FileId /\ Go(p, r)
  BY DEF Ensure
<1>3. /\ files' \in FileId /\ wal' = LogsBeside(f) /\ target'.main = f /\ target' \in Bundle
      /\ UNCHANGED <<base, sound, quarantine, backups, holder, faults>>
  BY <1>1, <1>2 DEF Ensure, FilesInv, Bundle
<1>4. FilesInv'
  <2>1. wal' \in [FileId -> Database \cup {None}]
        /\ \A g \in FileId : wal'[g] # None => Once(wal'[g])
    BY <1>1, <1>3 DEF LogsBeside, FilesInv
  <2>. QED BY <1>1, <1>3, <2>1 DEF FilesInv
<1>5. Version \in 0 .. Latest
  BY <1>1, ContentIsTyped, RecoveryAssumption DEF Version, Database
<1>6. stage \in {"stamp", "check", "migrate"} /\ stage \in Stage
      /\ (stage = "migrate" => Version + 1 \in 1 .. Latest)
  BY <1>5, RecoveryAssumption DEF Stage
<1>7. sound[f] \/ (Exists /\ f = target.main)
  BY <1>1, <1>2 DEF FilesInv, FileId
<1>8. Version + 1 \in 0 .. Latest + 1
  BY <1>5, RecoveryAssumption
<1>. HIDE DEF stage, f
<1>9. /\ r \in Process /\ r.at = stage /\ r.prog = proc[p].prog /\ r.safety = proc[p].safety
      /\ r.file = f /\ r.step = Version + 1
  BY <1>1, <1>2, <1>6, <1>8 DEF Process
<1>. HIDE DEF r
<1>10. WellFormed(r)
  BY <1>1, <1>2, <1>6, <1>9 DEF WellFormed, Opened, Repairing
<1>11. Owns(p, r, holder')
  BY <1>1, <1>3, <1>9 DEF Owns
<1>12. Placed(r, target', sound')
  BY <1>1, <1>3, <1>6, <1>7, <1>9 DEF Placed, Exists
<1>13. \/ target'.main = target.main
       \/ target.main = None /\ target'.main \in FileId /\ sound[target'.main]
  BY <1>2, <1>3, <1>7 DEF f, Exists
<1>14. Safe(p, r, holder', target', sound')
  BY <1>10, <1>11, <1>12 DEF Safe
<1>. QED BY <1>2, <1>3, <1>4, <1>13, <1>14, OneProcessStep

(* A step of p on the file it has open, to a stage with the file still open. *)
LEMMA OpenFileStep ==
    ASSUME RecoveryInv, NEW p \in Proc, proc[p].at \in Opened, NEW r \in Process, Go(p, r),
           r.at \in Opened, r.prog = proc[p].prog, r.file = proc[p].file, r.safety = proc[p].safety,
           r.at = "migrate" => r.step \in 1 .. Latest,
           FilesInv', target'.main = target.main, UNCHANGED sound,
           proc[p].prog \in Owners => holder' = p,
           \A q \in Proc \ {p} : holder = q => holder' = q
    PROVE  RecoveryInv'
<1>1. WellFormed(proc[p]) /\ Placed(proc[p], target, sound)
  BY ProcessIsSafe
<1>2. WellFormed(r)
  BY <1>1 DEF WellFormed, Opened, Repairing
<1>3. Owns(p, r, holder') /\ Placed(r, target', sound')
  BY <1>1 DEF Owns, Placed, Opened
<1>4. Safe(p, r, holder', target', sound')
  BY <1>2, <1>3 DEF Safe
<1>. QED BY <1>4, OneProcessStep

LEMMA StampKeepsInv ==
    ASSUME RecoveryInv, NEW p \in Proc, Stamp(p)
    PROVE  RecoveryInv'
<1>. DEFINE f == proc[p].file
<1>1. /\ WellFormed(proc[p]) /\ Owns(p, proc[p], holder) /\ FilesInv /\ proc[p] \in Process
      /\ proc[p].at = "stamp"
  BY ProcessIsSafe DEF Stamp, At
<1>2. f \in FileId
  BY <1>1 DEF WellFormed, Opened
<1>3. UNCHANGED <<quarantine, backups, holder>> /\ (NoFault \/ Fault)
  BY DEF Stamp
<1>4. faults' \in 0 .. MaxFaults
  BY <1>1, <1>3, FaultsAreBounded
<1>5. proc[p].at \in Opened /\ (proc[p].prog \in Owners => holder' = p)
  BY <1>1, <1>3 DEF Owns, Opened
<1>6. /\ Live(f) \in Database /\ Once(Live(f))
      /\ Created(Live(f)) \in Database /\ Once(Created(Live(f)))
  BY <1>1, <1>2, LiveIsTyped, DatabasesAreTyped
<1>7. PICK stage \in {"check", "fail"} :
         /\ GoTo(p, stage)
         /\ (\E db \in {Created(Live(f)), Live(f)} : Write(f, db)) \/ UNCHANGED <<contents, target>>
  BY DEF Stamp
<1>8. FilesInv' /\ target'.main = target.main /\ UNCHANGED sound
  <2>1. CASE UNCHANGED <<contents, target>>
    BY <1>1, <1>3, <1>4, <2>1 DEF FilesInv, contents
  <2>2. ASSUME NEW db \in {Created(Live(f)), Live(f)}, Write(f, db)
        PROVE  FilesInv' /\ target'.main = target.main /\ UNCHANGED sound
    BY <1>1, <1>2, <1>3, <1>4, <1>6, <2>2, WriteKeepsFiles
  <2>. QED BY <1>7, <2>1, <2>2
<1>. DEFINE r == [proc[p] EXCEPT !.at = stage]
<1>9. /\ r \in Process /\ r.at = stage /\ r.prog = proc[p].prog /\ r.safety = proc[p].safety
      /\ r.file = f /\ stage \in Opened /\ stage # "migrate"
  BY <1>1 DEF Process, Stage, Opened
<1>10. Go(p, r)
  BY <1>7 DEF GoTo
<1>. HIDE DEF r
<1>. QED BY <1>3, <1>5, <1>8, <1>9, <1>10, OpenFileStep

LEMMA MigrateKeepsInv ==
    ASSUME RecoveryInv, NEW p \in Proc, Migrate(p)
    PROVE  RecoveryInv'
<1>. DEFINE f == proc[p].file
            step == proc[p].step
            stage == IF step = Latest THEN "check" ELSE "migrate"
            r == [proc[p] EXCEPT !.step = step + 1, !.at = stage]
            e == [proc[p] EXCEPT !.at = "fail"]
<1>1. /\ WellFormed(proc[p]) /\ Owns(p, proc[p], holder) /\ FilesInv /\ proc[p] \in Process
      /\ proc[p].at = "migrate"
  BY ProcessIsSafe DEF Migrate, At
<1>2. f \in FileId /\ step \in 1 .. Latest
  BY <1>1 DEF WellFormed, Opened
<1>3. UNCHANGED <<quarantine, backups, holder>> /\ (NoFault \/ Fault)
  BY DEF Migrate
<1>4. faults' \in 0 .. MaxFaults
  BY <1>1, <1>3, FaultsAreBounded
<1>5. proc[p].at \in Opened /\ (proc[p].prog \in Owners => holder' = p)
  BY <1>1, <1>3 DEF Owns, Opened
<1>6. CASE Live(f).version >= step - 1 /\ Write(f, Step(Live(f), step)) /\ Go(p, r)
  <2>1. Live(f) \in Database /\ Once(Live(f))
    BY <1>1, <1>2, LiveIsTyped
  <2>2. Step(Live(f), step) \in Database /\ Once(Step(Live(f), step))
    BY <1>2, <1>6, <2>1, StepKeepsDatabase
  <2>3. FilesInv' /\ target'.main = target.main /\ UNCHANGED sound
    BY <1>1, <1>2, <1>3, <1>4, <1>6, <2>2, WriteKeepsFiles
  <2>4. stage \in Stage /\ stage \in Opened /\ step + 1 \in 0 .. Latest + 1
        /\ (stage = "migrate" => step + 1 \in 1 .. Latest)
    BY <1>2, RecoveryAssumption DEF Stage, Opened
  <2>. HIDE DEF stage
  <2>5. /\ r \in Process /\ r.at = stage /\ r.prog = proc[p].prog /\ r.safety = proc[p].safety
        /\ r.file = f /\ r.step = step + 1
    BY <1>1, <2>4 DEF Process
  <2>6. Go(p, r)
    BY <1>6
  <2>. HIDE DEF r
  <2>. QED BY <1>3, <1>5, <2>3, <2>4, <2>5, <2>6, OpenFileStep
<1>7. CASE Go(p, e) /\ UNCHANGED <<contents, target>>
  <2>1. FilesInv' /\ target'.main = target.main /\ UNCHANGED sound
    BY <1>1, <1>3, <1>4, <1>7 DEF FilesInv, contents
  <2>2. /\ e \in Process /\ e.at = "fail" /\ e.prog = proc[p].prog /\ e.safety = proc[p].safety
        /\ e.file = f
    BY <1>1 DEF Process, Stage
  <2>3. Go(p, e)
    BY <1>7
  <2>4. e.at \in Opened /\ e.at # "migrate"
    BY <2>2 DEF Opened
  <2>. HIDE DEF e
  <2>. QED BY <1>3, <1>5, <2>1, <2>2, <2>3, <2>4, OpenFileStep
<1>8. [proc[p] EXCEPT !.step = step + 1, !.at = IF step = Latest THEN "check" ELSE @] = r
  BY <1>1
<1>. QED BY <1>6, <1>7, <1>8 DEF Migrate

(* The end of an open, and of a process: the file is closed. *)
LEMMA ClosingStep ==
    ASSUME RecoveryInv, NEW p \in Proc, NEW r, Go(p, r), Close(p),
           UNCHANGED <<sound, files, quarantine, backups>>,
           holder' \in Proc \cup {None}, \A q \in Proc \ {p} : holder = q => holder' = q,
           faults' \in 0 .. MaxFaults, Safe(p, r, holder', target', sound)
    PROVE  RecoveryInv'
<1>1. FilesInv /\ proc[p] \in Process
  BY ProcessIsSafe
<1>2. FilesInv' /\ target'.main = target.main
  BY <1>1, CloseKeepsFiles DEF Process
<1>. QED BY <1>2, OneProcessStep

LEMMA FailKeepsInv ==
    ASSUME RecoveryInv, NEW p \in Proc, Fail(p)
    PROVE  RecoveryInv'
<1>1. FilesInv /\ proc[p].at = "fail"
  BY ProcessIsSafe DEF Fail, At
<1>2. Close(p) /\ Go(p, Failing(p)) /\ UNCHANGED <<sound, files, quarantine, backups, holder, faults>>
  BY DEF Fail
<1>3. Safe(p, Failing(p), holder', target', sound)
  BY <1>1, <1>2, FailingIsSafe
<1>. QED BY <1>1, <1>2, <1>3, ClosingStep DEF FilesInv

LEMMA CommitKeepsInv ==
    ASSUME RecoveryInv, NEW p \in Proc, Commit(p)
    PROVE  RecoveryInv'
<1>. DEFINE f == proc[p].file
            db == [Live(f) EXCEPT !.rows = @ \cup {NewRow}]
<1>1. /\ WellFormed(proc[p]) /\ Owns(p, proc[p], holder) /\ FilesInv /\ proc[p] \in Process
      /\ proc[p].at = "open"
  BY ProcessIsSafe DEF Commit, At
<1>2. f \in FileId /\ Live(f) \in Database /\ Once(Live(f))
  BY <1>1, LiveIsTyped DEF WellFormed, Opened
<1>3. Write(f, db) /\ UNCHANGED <<quarantine, backups, holder, proc, faults>>
  BY DEF Commit
<1>4. db \in Database /\ Once(db)
  BY <1>2, RecoveryAssumption DEF Database, Once
<1>. HIDE DEF db
<1>5. FilesInv' /\ target'.main = target.main /\ UNCHANGED sound
  BY <1>1, <1>2, <1>3, <1>4, WriteKeepsFiles DEF FilesInv
<1>6. Go(p, proc[p])
  BY <1>3 DEF Go, RecoveryInv
<1>7. proc[p].at \in Opened /\ proc[p].at # "migrate" /\ (proc[p].prog \in Owners => holder' = p)
  BY <1>1, <1>3 DEF Opened, Owns
<1>. QED BY <1>1, <1>3, <1>5, <1>6, <1>7, OpenFileStep

LEMMA UnlockingIsTyped ==
    ASSUME FilesInv, NEW p \in Proc, holder' = Unlocked(p)
    PROVE  holder' \in Proc \cup {None} /\ \A q \in Proc \ {p} : holder = q => holder' = q
BY DEF FilesInv, Unlocked

LEMMA FinishKeepsInv ==
    ASSUME RecoveryInv, NEW p \in Proc, Finish(p)
    PROVE  RecoveryInv'
<1>. DEFINE r == [proc[p] EXCEPT !.at = "done", !.file = None]
<1>1. WellFormed(proc[p]) /\ FilesInv /\ proc[p] \in Process
  BY ProcessIsSafe
<1>2. Close(p) /\ Go(p, r) /\ holder' = Unlocked(p) /\ UNCHANGED <<sound, files, quarantine, backups, faults>>
  BY DEF Finish
<1>3. r \in Process /\ r.at = "done" /\ r.safety = proc[p].safety
  BY <1>1 DEF Process, Stage
<1>. HIDE DEF r
<1>4. Safe(p, r, holder', target', sound)
  BY <1>1, <1>3 DEF Safe, WellFormed, Owns, Placed, Opened, Repairing
<1>. QED BY <1>1, <1>2, <1>4, UnlockingIsTyped, ClosingStep DEF FilesInv

LEMMA CheckKeepsInv ==
    ASSUME RecoveryInv, NEW p \in Proc, Check(p)
    PROVE  RecoveryInv'
<1>1. /\ WellFormed(proc[p]) /\ Owns(p, proc[p], holder) /\ FilesInv /\ proc[p] \in Process
      /\ Placed(proc[p], target, sound) /\ proc[p].at = "check" /\ proc[p].file \in FileId
  BY ProcessIsSafe DEF Check, At, WellFormed, Opened
<1>2. UNCHANGED <<sound, files, quarantine, backups>> /\ (NoFault \/ Fault)
  BY DEF Check
<1>3. faults' \in 0 .. MaxFaults
  BY <1>1, <1>2, FaultsAreBounded
<1>4. CASE Is(p, Maintenance)
  <2>1. Close(p) /\ UNCHANGED holder /\ proc[p].prog \in Maintenance /\ holder = p
    BY <1>1, <1>4 DEF Check, Is, Owns, Owners
  <2>2. CASE Go(p, [proc[p] EXCEPT !.file = None,
                      !.at = IF Is(p, {"reset"}) THEN "report" ELSE "transfer",
                      !.verdict = IF Is(p, {"reset"}) THEN "fresh" ELSE None])
    <3>. DEFINE stage == IF Is(p, {"reset"}) THEN "report" ELSE "transfer"
                said == IF Is(p, {"reset"}) THEN "fresh" ELSE None
                r == [proc[p] EXCEPT !.file = None, !.at = stage, !.verdict = said]
    <3>1. stage \in {"report", "transfer"} /\ stage \in Stage /\ said \in {"fresh", None}
      BY DEF Stage
    <3>2. Go(p, r)
      BY <2>2
    <3>. HIDE DEF stage, said
    <3>3. r \in Process /\ r.at = stage /\ r.prog = proc[p].prog /\ r.safety = proc[p].safety
      BY <1>1, <3>1 DEF Process
    <3>. HIDE DEF r
    <3>4. WellFormed(r)
      BY <1>1, <2>1, <3>1, <3>3 DEF WellFormed, Opened
    <3>5. Owns(p, r, holder') /\ Placed(r, target', sound)
      BY <2>1, <3>1, <3>3 DEF Owns, Placed, Opened
    <3>. QED BY <1>1, <1>2, <1>3, <2>1, <3>2, <3>4, <3>5, ClosingStep DEF Safe, FilesInv
  <2>3. CASE Go(p, Failing(p)) \/ Go(p, Unusable(p))
    <3>1. Safe(p, Failing(p), holder', target', sound) /\ Safe(p, Unusable(p), holder', target', sound)
      BY <1>1, <2>1, FailingIsSafe, UnusableIsSafe
    <3>. QED BY <1>1, <1>2, <1>3, <2>1, <2>3, <3>1, ClosingStep DEF FilesInv
  <2>. QED BY <1>4, <2>2, <2>3 DEF Check
<1>5. CASE ~Is(p, Maintenance)
  <2>1. UNCHANGED <<base, wal, target>>
    BY <1>5 DEF Check
  <2>2. proc[p].prog \in Owners => holder = p /\ proc[p].prog = "collector"
    BY <1>1, <1>5 DEF Owns, Owners, Is
  <2>3. proc[p].prog = "collector" =>
          /\ target.main # None => sound[target.main]
          /\ target.main = proc[p].file
    BY <1>1 DEF Placed, Opened
  <2>4. CASE GoTo(p, "open") /\ holder' = IF Is(p, {"command"}) THEN Unlocked(p) ELSE holder
    <3>1. holder' \in Proc \cup {None} /\ \A q \in Proc \ {p} : holder = q => holder' = q
      BY <1>1, <2>4 DEF FilesInv, Unlocked
    <3>2. proc[p].prog \in Owners => holder' = p
      BY <2>2, <2>4 DEF Is
    <3>. QED BY <1>1, <1>2, <1>3, <2>1, <2>3, <2>4, <3>1, <3>2, StageStep
             DEF FilesInv, Stage, Repairing, contents
  <2>5. CASE GoTo(p, "fail") /\ UNCHANGED holder
    BY <1>1, <1>2, <1>3, <2>1, <2>2, <2>3, <2>5, StageStep
    DEF FilesInv, Stage, Repairing, contents
  <2>. QED BY <1>5, <2>4, <2>5 DEF Check
<1>. QED BY <1>4, <1>5

-----------------------------------------------------------------------------
(* Maintenance: it holds the lock, so that what it does to the files disturbs no *)
(* collector.                                                                    *)

LEMMA MaintainerIsSafe ==
    ASSUME RecoveryInv, NEW p \in Proc, proc[p].at \in Repairing
    PROVE  /\ proc[p] \in Process /\ WellFormed(proc[p]) /\ proc[p].prog \in Maintenance
           /\ FilesInv /\ holder = p /\ Placed(proc[p], target, sound)
           /\ proc[p].at \notin {"idle", "take", "done"}
BY ProcessIsSafe DEF WellFormed, Owns, Owners, Repairing

LEMMA MaintenanceStep ==
    ASSUME RecoveryInv, NEW p \in Proc, proc[p].at \in Repairing, NEW r, Go(p, r),
           FilesInv', UNCHANGED holder, Safe(p, r, holder, target', sound')
    PROVE  RecoveryInv'
BY MaintainerIsSafe, OneProcessStep

(* A record that maintenance moves to another of its stages. *)
LEMMA MaintainerMoves ==
    ASSUME RecoveryInv, NEW p \in Proc, proc[p].at \in Repairing,
           NEW r \in Process, r.prog = proc[p].prog, r.at \in Repairing \cup {"prepare"},
           r.safety = None \/ r.safety = proc[p].safety \/ Once(r.safety),
           r.at = "copyBack" => r.safety # None, NEW t, NEW ok, r.at = "backup" => t.main # None
    PROVE  Safe(p, r, holder, t, ok)
<1>1. WellFormed(proc[p]) /\ proc[p].prog \in Maintenance /\ holder = p
      /\ proc[p].at \notin {"idle", "take", "done"}
  BY MaintainerIsSafe
<1>2. WellFormed(r)
  BY <1>1 DEF WellFormed, Opened, Repairing
<1>3. Owns(p, r, holder) /\ Placed(r, t, ok)
  BY <1>1 DEF Owns, Placed, Maintenance
<1>. QED BY <1>2, <1>3 DEF Safe

LEMMA MaintainerGoes ==
    ASSUME RecoveryInv, NEW p \in Proc, proc[p].at \in Repairing,
           NEW stage \in (Repairing \ {"backup"}) \cup {"prepare"},
           stage = "copyBack" => proc[p].safety # None, NEW t, NEW ok
    PROVE  Safe(p, [proc[p] EXCEPT !.at = stage], holder, t, ok)
<1>. DEFINE r == [proc[p] EXCEPT !.at = stage]
<1>1. proc[p] \in Process /\ stage \in Stage
  BY MaintainerIsSafe DEF Repairing, Stage
<1>2. r \in Process /\ r.at = stage /\ r.prog = proc[p].prog /\ r.safety = proc[p].safety
  BY <1>1, MovedRecord
<1>. QED BY <1>2, MaintainerMoves

LEMMA UndoingIsAStage ==
    ASSUME NEW p \in Proc
    PROVE  /\ Undoing(p) \in {"discard", "copyBack", "remove"}
           /\ Undoing(p) = "copyBack" => proc[p].safety # None
BY DEF Undoing

LEMMA VerifyKeepsInv ==
    ASSUME RecoveryInv, NEW p \in Proc, Verify(p)
    PROVE  RecoveryInv'
<1>1. proc[p].at \in Repairing
  BY DEF Verify, At, Repairing
<1>2. proc[p] \in Process /\ proc[p].prog \in Maintenance /\ FilesInv
      /\ proc[p].at \notin {"idle", "take", "done"}
  BY <1>1, MaintainerIsSafe
<1>3. UNCHANGED <<contents, target, quarantine, backups, holder>> /\ (Fault \/ NoFault)
  BY DEF Verify
<1>4. FilesInv'
  BY <1>2, <1>3, FaultsAreBounded DEF FilesInv, contents
<1>. DEFINE stage == IF ~Exists THEN "transfer" ELSE IF Corrupt THEN "moveMain" ELSE "backup"
            seen == IF Exists THEN Content(target) ELSE None
            r == [proc[p] EXCEPT !.before = seen, !.at = stage]
<1>5. CASE Go(p, r)
  <2>1. /\ stage \in {"transfer", "moveMain", "backup"} /\ stage \in Stage
        /\ stage \in Repairing /\ stage # "copyBack"
        /\ stage = "backup" => target.main # None
    BY DEF Stage, Repairing, Exists
  <2>2. seen \in Database \cup {None}
    BY <1>2, ContentIsTyped
  <2>. HIDE DEF stage, seen
  <2>3. r \in Process /\ r.at = stage /\ r.prog = proc[p].prog /\ r.safety = proc[p].safety
    BY <1>2, <2>1, <2>2 DEF Process
  <2>4. Safe(p, r, holder, target', sound')
    BY <1>1, <1>3, <2>1, <2>3, MaintainerMoves
  <2>. HIDE DEF r
  <2>. QED BY <1>1, <1>3, <1>4, <1>5, <2>4, MaintenanceStep
<1>6. CASE Go(p, Unusable(p))
  BY <1>1, <1>2, <1>3, <1>4, <1>6, UnusableIsSafe, MaintenanceStep
<1>. QED BY <1>5, <1>6 DEF Verify

LEMMA SafetyBackupKeepsInv ==
    ASSUME RecoveryInv, NEW p \in Proc, SafetyBackup(p)
    PROVE  RecoveryInv'
<1>1. proc[p].at \in Repairing /\ proc[p].at = "backup"
  BY DEF SafetyBackup, At, Repairing
<1>2. proc[p] \in Process /\ proc[p].prog \in Maintenance /\ FilesInv
      /\ proc[p].at \notin {"idle", "take", "done"} /\ Placed(proc[p], target, sound)
  BY <1>1, MaintainerIsSafe
<1>3. UNCHANGED <<contents, target, quarantine, holder>> /\ (Fault \/ NoFault)
  BY DEF SafetyBackup
<1>4. faults' \in 0 .. MaxFaults
  BY <1>2, <1>3, FaultsAreBounded
<1>. DEFINE r == [proc[p] EXCEPT !.safety = Content(target), !.at = "transfer"]
<1>5. CASE backups' = backups \cup {Content(target)} /\ Go(p, r)
  <2>1. Content(target) \in Database /\ Once(Content(target))
    BY <1>1, <1>2, ContentIsTyped DEF Placed, Exists
  <2>2. FilesInv'
    BY <1>2, <1>3, <1>4, <1>5, <2>1 DEF FilesInv, contents
  <2>3. r \in Process /\ r.at = "transfer" /\ r.prog = proc[p].prog /\ Once(r.safety)
    BY <1>2, <2>1 DEF Process, Stage
  <2>. HIDE DEF r
  <2>4. r.at \in Repairing /\ r.at # "copyBack" /\ r.at # "backup"
    BY <2>3 DEF Repairing
  <2>5. Safe(p, r, holder, target', sound')
    BY <1>1, <2>3, <2>4, MaintainerMoves
  <2>. QED BY <1>1, <1>3, <1>5, <2>2, <2>5, MaintenanceStep
<1>6. CASE /\ UNCHANGED backups
           /\ Go(p, Unusable(p)) \/ Go(p, [Unusable(p) EXCEPT !.verdict = "kept"])
  <2>1. FilesInv'
    BY <1>2, <1>3, <1>4, <1>6 DEF FilesInv, contents
  <2>. QED BY <1>1, <1>2, <1>3, <1>6, <2>1, UnusableIsSafe, MaintenanceStep
<1>. QED BY <1>5, <1>6 DEF SafetyBackup

LEMMA TransferKeepsInv ==
    ASSUME RecoveryInv, NEW p \in Proc, Transfer(p)
    PROVE  RecoveryInv'
<1>1. proc[p].at \in Repairing
  BY DEF Transfer, At, Repairing
<1>2. UNCHANGED <<quarantine, backups, holder>> /\ (Fault \/ NoFault) /\ FilesInv
  BY <1>1, MaintainerIsSafe DEF Transfer
<1>3. faults' \in 0 .. MaxFaults
  BY <1>2, FaultsAreBounded
<1>4. CASE Replace(Snapshot) /\ GoTo(p, "confirm")
  <2>1. FilesInv'
    BY <1>2, <1>3, <1>4, DatabasesAreTyped, ReplaceKeepsFiles
  <2>2. Safe(p, [proc[p] EXCEPT !.at = "confirm"], holder, target', sound')
    BY <1>1, MaintainerGoes DEF Repairing
  <2>. QED BY <1>1, <1>2, <1>4, <2>1, <2>2, MaintenanceStep DEF GoTo
<1>5. CASE GoTo(p, Undoing(p)) /\ UNCHANGED <<contents, target>>
  <2>1. FilesInv'
    BY <1>2, <1>3, <1>5 DEF FilesInv, contents
  <2>2. Undoing(p) \in Repairing \ {"backup"}
    BY UndoingIsAStage DEF Repairing
  <2>3. Safe(p, [proc[p] EXCEPT !.at = Undoing(p)], holder, target', sound')
    BY <1>1, <2>2, UndoingIsAStage, MaintainerGoes
  <2>. QED BY <1>1, <1>2, <1>5, <2>1, <2>3, MaintenanceStep DEF GoTo
<1>. QED BY <1>4, <1>5 DEF Transfer

LEMMA ConfirmKeepsInv ==
    ASSUME RecoveryInv, NEW p \in Proc, Confirm(p)
    PROVE  RecoveryInv'
<1>1. proc[p].at \in Repairing
  BY DEF Confirm, At, Repairing
<1>2. proc[p] \in Process /\ FilesInv
  BY <1>1, MaintainerIsSafe
<1>3. UNCHANGED <<contents, target, quarantine, backups, holder>> /\ (Fault \/ NoFault)
  BY DEF Confirm
<1>4. FilesInv'
  BY <1>2, <1>3, FaultsAreBounded DEF FilesInv, contents
<1>. DEFINE r == [proc[p] EXCEPT !.at = "report", !.verdict = "restored"]
<1>5. CASE Go(p, r)
  <2>1. r \in Process /\ r.at = "report" /\ r.prog = proc[p].prog /\ r.safety = proc[p].safety
    BY <1>2 DEF Process, Stage
  <2>. HIDE DEF r
  <2>2. r.at \in Repairing /\ r.at # "copyBack" /\ r.at # "backup"
    BY <2>1 DEF Repairing
  <2>3. Safe(p, r, holder, target', sound')
    BY <1>1, <2>1, <2>2, MaintainerMoves
  <2>. QED BY <1>1, <1>3, <1>4, <1>5, <2>3, MaintenanceStep
<1>6. CASE GoTo(p, Undoing(p))
  <2>1. Undoing(p) \in Repairing \ {"backup"}
    BY UndoingIsAStage DEF Repairing
  <2>2. Safe(p, [proc[p] EXCEPT !.at = Undoing(p)], holder, target', sound')
    BY <1>1, <2>1, UndoingIsAStage, MaintainerGoes
  <2>. QED BY <1>1, <1>3, <1>4, <1>6, <2>2, MaintenanceStep DEF GoTo
<1>. QED BY <1>5, <1>6 DEF Confirm

LEMMA CopyBackKeepsInv ==
    ASSUME RecoveryInv, NEW p \in Proc, CopyBack(p)
    PROVE  RecoveryInv'
<1>1. proc[p].at \in Repairing /\ proc[p].at = "copyBack"
  BY DEF CopyBack, At, Repairing
<1>2. proc[p] \in Process /\ proc[p].prog \in Maintenance /\ FilesInv /\ WellFormed(proc[p])
      /\ proc[p].at \notin {"idle", "take", "done"}
  BY <1>1, MaintainerIsSafe
<1>3. UNCHANGED <<quarantine, backups, holder>> /\ (Fault \/ NoFault)
  BY DEF CopyBack
<1>4. faults' \in 0 .. MaxFaults
  BY <1>2, <1>3, FaultsAreBounded
<1>5. Go(p, Unusable(p)) \/ Go(p, [Unusable(p) EXCEPT !.verdict = "kept"])
  BY DEF CopyBack
<1>6. FilesInv'
  <2>1. CASE Replace(proc[p].safety)
    <3>1. proc[p].safety \in Database /\ Once(proc[p].safety)
      BY <1>1, <1>2 DEF WellFormed, Process
    <3>. QED BY <1>2, <1>3, <1>4, <2>1, <3>1, ReplaceKeepsFiles
  <2>2. CASE UNCHANGED <<contents, target>>
    BY <1>2, <1>3, <1>4, <2>2 DEF FilesInv, contents
  <2>. QED BY <2>1, <2>2 DEF CopyBack
<1>. QED BY <1>1, <1>2, <1>3, <1>5, <1>6, UnusableIsSafe, MaintenanceStep

LEMMA RemoveKeepsInv ==
    ASSUME RecoveryInv, NEW p \in Proc, Remove(p)
    PROVE  RecoveryInv'
<1>1. proc[p].at \in Repairing
  BY DEF Remove, At, Repairing
<1>2. proc[p].prog \in Maintenance /\ FilesInv /\ proc[p].at \notin {"idle", "take", "done"}
  BY <1>1, MaintainerIsSafe
<1>3. Go(p, Unusable(p)) /\ target' = Nowhere
      /\ UNCHANGED <<contents, quarantine, backups, holder, faults>>
  BY DEF Remove
<1>4. FilesInv'
  BY <1>2, <1>3 DEF FilesInv, contents, Nowhere, Bundle
<1>. QED BY <1>1, <1>2, <1>3, <1>4, UnusableIsSafe, MaintenanceStep

(* A move between the ledger's path and p's quarantine, to a stage or the end.   *)
LEMMA MovingStep ==
    ASSUME RecoveryInv, NEW p \in Proc, proc[p].at \in Repairing,
           UNCHANGED <<contents, backups, holder>>, Fault \/ NoFault \/ UNCHANGED faults,
           target' \in Bundle, quarantine' \in [Proc -> Bundle],
           \/ Go(p, Unusable(p))
           \/ \E stage \in (Repairing \ {"backup", "copyBack"}) \cup {"prepare"} : GoTo(p, stage)
    PROVE  RecoveryInv'
<1>1. proc[p].prog \in Maintenance /\ FilesInv /\ proc[p].at \notin {"idle", "take", "done"}
  BY MaintainerIsSafe
<1>2. FilesInv'
  BY <1>1, FaultsAreBounded, MoveKeepsFiles DEF FilesInv
<1>3. CASE Go(p, Unusable(p))
  BY <1>1, <1>2, <1>3, UnusableIsSafe, MaintenanceStep
<1>4. CASE \E stage \in (Repairing \ {"backup", "copyBack"}) \cup {"prepare"} : GoTo(p, stage)
  <2>1. PICK stage \in (Repairing \ {"backup", "copyBack"}) \cup {"prepare"} : GoTo(p, stage)
    BY <1>4
  <2>2. Safe(p, [proc[p] EXCEPT !.at = stage], holder, target', sound')
    BY MaintainerGoes
  <2>. QED BY <1>2, <2>1, <2>2, MaintenanceStep DEF GoTo
<1>. QED BY <1>3, <1>4

LEMMA BundlesAreTyped ==
    ASSUME FilesInv, NEW p \in Proc, NEW f \in FileId \cup {None}
    PROVE  /\ [target EXCEPT !.main = f] \in Bundle /\ [target EXCEPT !.wal = f] \in Bundle
           /\ [quarantine EXCEPT ![p].main = f] \in [Proc -> Bundle]
           /\ [quarantine EXCEPT ![p].wal = f] \in [Proc -> Bundle]
           /\ Nowhere \in Bundle
           /\ target.main \in FileId \cup {None} /\ target.wal \in FileId \cup {None}
           /\ quarantine[p].main \in FileId \cup {None} /\ quarantine[p].wal \in FileId \cup {None}
BY DEF FilesInv, Bundle, Nowhere

LEMMA MoveMainKeepsInv ==
    ASSUME RecoveryInv, NEW p \in Proc, MoveMain(p)
    PROVE  RecoveryInv'
<1>1. proc[p].at \in Repairing
  BY DEF MoveMain, At, Repairing
<1>2. proc[p] \in Process /\ FilesInv
  BY <1>1, MaintainerIsSafe
<1>3. UNCHANGED <<contents, backups, holder>> /\ (Fault \/ NoFault)
  BY DEF MoveMain
<1>. DEFINE r == [proc[p] EXCEPT !.at = "moveLog", !.moved = TRUE, !.log = target.wal # None]
<1>4. CASE /\ quarantine' = [quarantine EXCEPT ![p].main = target.main]
           /\ target' = [target EXCEPT !.main = None] /\ Go(p, r)
  <2>1. FilesInv'
    BY <1>2, <1>3, <1>4, BundlesAreTyped, FaultsAreBounded, MoveKeepsFiles
  <2>2. (target.wal # None) \in BOOLEAN
    OBVIOUS
  <2>3. r \in Process /\ r.at = "moveLog" /\ r.prog = proc[p].prog /\ r.safety = proc[p].safety
    BY <1>2, <2>2 DEF Process, Stage
  <2>. HIDE DEF r
  <2>4. r.at \in Repairing /\ r.at # "copyBack" /\ r.at # "backup"
    BY <2>3 DEF Repairing
  <2>5. Safe(p, r, holder, target', sound')
    BY <1>1, <2>3, <2>4, MaintainerMoves
  <2>. QED BY <1>1, <1>3, <1>4, <2>1, <2>5, MaintenanceStep
<1>5. CASE Go(p, Unusable(p)) /\ UNCHANGED <<target, quarantine>>
  BY <1>1, <1>2, <1>3, <1>5, MovingStep DEF FilesInv
<1>. QED BY <1>4, <1>5 DEF MoveMain

LEMMA MoveLogKeepsInv ==
    ASSUME RecoveryInv, NEW p \in Proc, MoveLog(p)
    PROVE  RecoveryInv'
<1>1. proc[p].at \in Repairing
  BY DEF MoveLog, At, Repairing
<1>2. FilesInv
  BY <1>1, MaintainerIsSafe
<1>3. UNCHANGED <<contents, backups, holder>> /\ (Fault \/ NoFault)
  BY DEF MoveLog
<1>4. target' \in Bundle /\ quarantine' \in [Proc -> Bundle]
  <2>1. CASE UNCHANGED <<target, quarantine>>
    BY <1>2, <2>1 DEF FilesInv
  <2>2. CASE /\ quarantine' = [quarantine EXCEPT ![p].wal = target.wal]
             /\ target' = [target EXCEPT !.wal = None]
    BY <1>2, <2>2, BundlesAreTyped
  <2>. QED BY <2>1, <2>2 DEF MoveLog
<1>5. GoTo(p, "prepare") \/ GoTo(p, "moveLogBack") \/ GoTo(p, "moveMainBack")
  BY DEF MoveLog
<1>6. {"prepare", "moveLogBack", "moveMainBack"}
        \subseteq (Repairing \ {"backup", "copyBack"}) \cup {"prepare"}
  BY DEF Repairing
<1>. QED BY <1>1, <1>3, <1>4, <1>5, <1>6, MovingStep

LEMMA DiscardKeepsInv ==
    ASSUME RecoveryInv, NEW p \in Proc, Discard(p)
    PROVE  RecoveryInv'
<1>1. proc[p].at \in Repairing
  BY DEF Discard, At, Repairing
<1>2. FilesInv
  BY <1>1, MaintainerIsSafe
<1>3. GoTo(p, "moveLogBack") /\ target' = Nowhere
      /\ UNCHANGED <<contents, quarantine, backups, holder, faults>>
  BY DEF Discard
<1>4. "moveLogBack" \in (Repairing \ {"backup", "copyBack"}) \cup {"prepare"}
  BY DEF Repairing
<1>. QED BY <1>1, <1>2, <1>3, <1>4, BundlesAreTyped, MovingStep DEF FilesInv

LEMMA MoveLogBackKeepsInv ==
    ASSUME RecoveryInv, NEW p \in Proc, MoveLogBack(p)
    PROVE  RecoveryInv'
<1>1. proc[p].at \in Repairing
  BY DEF MoveLogBack, At, Repairing
<1>2. FilesInv
  BY <1>1, MaintainerIsSafe
<1>3. UNCHANGED <<contents, backups, holder>> /\ (Fault \/ NoFault) /\ GoTo(p, "moveMainBack")
  BY DEF MoveLogBack
<1>4. target' \in Bundle /\ quarantine' \in [Proc -> Bundle]
  <2>1. CASE UNCHANGED <<target, quarantine>>
    BY <1>2, <2>1 DEF FilesInv
  <2>2. CASE /\ target' = [target EXCEPT !.wal = quarantine[p].wal]
             /\ quarantine' = [quarantine EXCEPT ![p].wal = None]
    BY <1>2, <2>2, BundlesAreTyped
  <2>. QED BY <2>1, <2>2 DEF MoveLogBack
<1>5. "moveMainBack" \in (Repairing \ {"backup", "copyBack"}) \cup {"prepare"}
  BY DEF Repairing
<1>. QED BY <1>1, <1>3, <1>4, <1>5, MovingStep

LEMMA MoveMainBackKeepsInv ==
    ASSUME RecoveryInv, NEW p \in Proc, MoveMainBack(p)
    PROVE  RecoveryInv'
<1>1. proc[p].at \in Repairing
  BY DEF MoveMainBack, At, Repairing
<1>2. FilesInv
  BY <1>1, MaintainerIsSafe
<1>3. UNCHANGED <<contents, backups, holder>> /\ (Fault \/ NoFault) /\ Go(p, Unusable(p))
  BY DEF MoveMainBack
<1>4. target' \in Bundle /\ quarantine' \in [Proc -> Bundle]
  <2>1. CASE UNCHANGED <<target, quarantine>>
    BY <1>2, <2>1 DEF FilesInv
  <2>2. CASE /\ target' = [target EXCEPT !.main = quarantine[p].main]
             /\ quarantine' = [quarantine EXCEPT ![p].main = None]
    BY <1>2, <2>2, BundlesAreTyped
  <2>. QED BY <2>1, <2>2 DEF MoveMainBack
<1>. QED BY <1>1, <1>3, <1>4, MovingStep

(* A process that ends needs nothing of the files. *)
LEMMA EndingStep ==
    ASSUME RecoveryInv, NEW p \in Proc, NEW r \in Process, Go(p, r), r.at = "done",
           r.safety = None \/ r.safety = proc[p].safety,
           UNCHANGED <<contents, target, quarantine, backups>>, holder' = Unlocked(p),
           faults' \in 0 .. MaxFaults
    PROVE  RecoveryInv'
<1>1. WellFormed(proc[p]) /\ FilesInv
  BY ProcessIsSafe
<1>2. WellFormed(r) /\ Owns(p, r, holder') /\ Placed(r, target, sound)
  BY <1>1 DEF WellFormed, Owns, Placed, Opened, Repairing
<1>. QED BY <1>1, <1>2, UnlockingIsTyped, QuietStep DEF FilesInv

LEMMA ReportKeepsInv ==
    ASSUME RecoveryInv, NEW p \in Proc, Report(p)
    PROVE  RecoveryInv'
<1>. DEFINE r == [proc[p] EXCEPT !.at = "done"]
<1>1. proc[p] \in Process /\ FilesInv
  BY ProcessIsSafe
<1>2. r \in Process /\ r.at = "done" /\ r.safety = proc[p].safety
  BY <1>1 DEF Process, Stage
<1>3. Go(p, r) /\ holder' = Unlocked(p) /\ UNCHANGED <<contents, target, quarantine, backups, faults>>
  BY DEF Report, GoTo
<1>. HIDE DEF r
<1>. QED BY <1>1, <1>2, <1>3, EndingStep DEF FilesInv

LEMMA CrashKeepsInv ==
    ASSUME RecoveryInv, NEW p \in Proc, Crash(p)
    PROVE  RecoveryInv'
<1>. DEFINE r == [Idle EXCEPT !.at = "done"]
<1>1. FilesInv
  BY ProcessIsSafe
<1>2. r \in Process /\ r.at = "done" /\ r.safety = None
  BY IdleIsTyped DEF Process, Stage
<1>3. Go(p, r) /\ holder' = Unlocked(p) /\ Fault /\ UNCHANGED <<contents, target, quarantine, backups>>
  BY DEF Crash
<1>. HIDE DEF r
<1>. QED BY <1>1, <1>2, <1>3, FaultsAreBounded, EndingStep

-----------------------------------------------------------------------------
(* The invariant and what follows from it *)

LEMMA InitKeepsInv ==
    ASSUME Init
    PROVE  RecoveryInv
<1>1. PICK t \in Targets :
          /\ base = [f \in FileId |-> IF f = 1 /\ t.main # None THEN t.main ELSE Empty]
          /\ wal = [f \in FileId |-> IF f = 1 THEN t.wal ELSE None]
          /\ sound = [f \in FileId |-> f = 1 => t.sound]
          /\ target = [main |-> IF t.main = None THEN None ELSE 1,
                       wal |-> IF t.wal = None THEN None ELSE 1]
  BY DEF Init
<1>2. /\ t.main \in Database \cup {None} /\ t.wal \in Database \cup {None}
      /\ t.sound \in BOOLEAN
      /\ t.main # None => Once(t.main)
      /\ t.wal # None => Once(t.wal)
  BY RecoveryAssumption DEF Once
<1>3. 1 \in FileId /\ 0 \in 0 .. MaxFaults
  BY RecoveryAssumption DEF FileId
<1>4. \A f \in FileId : base[f] \in Database /\ Once(base[f])
  BY <1>1, <1>2, DatabasesAreTyped
<1>5. \A f \in FileId : wal[f] \in Database \cup {None} /\ (wal[f] # None => Once(wal[f]))
  BY <1>1, <1>2
<1>6. base \in [FileId -> Database] /\ wal \in [FileId -> Database \cup {None}]
  BY <1>1, <1>4, <1>5
<1>7. sound \in [FileId -> BOOLEAN] /\ \A f \in FileId : f # 1 => sound[f]
  BY <1>1
<1>8. target \in Bundle
  BY <1>1, <1>3 DEF Bundle
<1>9. quarantine \in [Proc -> Bundle]
  BY DEF Init, Nowhere, Bundle
<1>10. files \in FileId /\ holder \in Proc \cup {None} /\ faults \in 0 .. MaxFaults /\ backups = {}
  BY <1>3 DEF Init
<1>11. FilesInv
  BY <1>4, <1>5, <1>6, <1>7, <1>8, <1>9, <1>10 DEF FilesInv
<1>12. proc = [p \in Proc |-> Idle]
  BY DEF Init
<1>13. Idle.at = "idle"
  BY DEF Idle
<1>14. ASSUME NEW p \in Proc PROVE Safe(p, proc[p], holder, target, sound)
  BY <1>12, <1>13, IdleIsTyped
  DEF Safe, WellFormed, Owns, Placed, Opened, Repairing
<1>. QED BY <1>11, <1>12, <1>14, IdleIsTyped DEF RecoveryInv

LEMMA StepKeepsInv ==
    ASSUME RecoveryInv, [Next]_vars
    PROVE  RecoveryInv'
<1>1. ASSUME NEW p \in Proc, NEW prog \in Program, Start(p, prog) PROVE RecoveryInv'
  BY <1>1, StartKeepsInv
<1>2. ASSUME NEW p \in Proc,
             \/ Take(p) \/ TakeHeld(p) \/ Gate(p) \/ Prepare(p) \/ Ensure(p) \/ Stamp(p)
             \/ Migrate(p) \/ Fail(p) \/ Check(p) \/ Commit(p) \/ Finish(p)
      PROVE  RecoveryInv'
  BY <1>2, TakeKeepsInv, TakeHeldKeepsInv, GateKeepsInv, PrepareKeepsInv, EnsureKeepsInv,
     StampKeepsInv, MigrateKeepsInv, FailKeepsInv, CheckKeepsInv, CommitKeepsInv, FinishKeepsInv
<1>3. ASSUME NEW p \in Proc,
             \/ Verify(p) \/ SafetyBackup(p) \/ Transfer(p) \/ Confirm(p) \/ CopyBack(p) \/ Remove(p)
             \/ MoveMain(p) \/ MoveLog(p) \/ Discard(p) \/ MoveLogBack(p) \/ MoveMainBack(p)
             \/ Report(p) \/ Crash(p)
      PROVE  RecoveryInv'
  BY <1>3, VerifyKeepsInv, SafetyBackupKeepsInv, TransferKeepsInv, ConfirmKeepsInv, CopyBackKeepsInv,
     RemoveKeepsInv, MoveMainKeepsInv, MoveLogKeepsInv, DiscardKeepsInv, MoveLogBackKeepsInv,
     MoveMainBackKeepsInv, ReportKeepsInv, CrashKeepsInv
<1>4. CASE UNCHANGED vars
  BY <1>4 DEF vars, RecoveryInv, FilesInv
<1>. QED BY <1>1, <1>2, <1>3, <1>4 DEF Next

LEMMA InvHolds == Spec => []RecoveryInv
<1>1. Init => RecoveryInv
  BY InitKeepsInv
<1>2. RecoveryInv /\ [Next]_vars => RecoveryInv'
  BY StepKeepsInv
<1>. QED BY <1>1, <1>2, PTL DEF Spec

(* Every state of opening, migrating, restoring and resetting is well typed. *)
THEOREM RecoveryTypes == Spec => []TypeOK
<1>1. RecoveryInv => TypeOK
  BY DEF RecoveryInv, FilesInv, TypeOK
<1>. QED BY <1>1, InvHolds, PTL

(* Every step of the version ladder runs exactly once on every ledger, copy and    *)
(* backup, whoever else migrates it and whatever is interrupted (applyMigration).  *)
THEOREM StepsRunOnceOnly == Spec => []StepsRunOnce
<1>1. ASSUME RecoveryInv PROVE StepsRunOnce
  <2>1. FilesInv
    BY <1>1 DEF RecoveryInv
  <2>2. \A e \in Bundles : e.main \in FileId \cup {None}
    BY <2>1 DEF Bundles, FilesInv, Bundle
  <2>3. \A f \in FileId : Once(Live(f))
    BY <2>1, LiveIsTyped
  <2>. QED BY <2>1, <2>2, <2>3 DEF StepsRunOnce, FilesInv, Once
<1>. QED BY <1>1, InvHolds, PTL

(* While a collector has the ledger open, nobody moves, replaces or creates the     *)
(* file at the ledger's path: the collection lock holds off maintenance, and        *)
(* commands only create the file when there is none (openCollectionStoreLocked).    *)
THEOREM CollectorKeepsItsFile == Spec => []CollectorOnTarget
<1>1. ASSUME RecoveryInv, NEW p \in Proc, At(p, "open"), Is(p, {"collector"})
      PROVE  target.main = proc[p].file /\ ~Corrupt
  <2>1. WellFormed(proc[p]) /\ Placed(proc[p], target, sound)
    BY <1>1, ProcessIsSafe
  <2>2. proc[p].at = "open" /\ proc[p].prog = "collector"
    BY <1>1 DEF At, Is
  <2>. QED BY <2>1, <2>2 DEF Placed, WellFormed, Opened, Corrupt, Exists
<1>2. RecoveryInv => CollectorOnTarget
  BY <1>1 DEF CollectorOnTarget
<1>. QED BY <1>2, InvHolds, PTL

-----------------------------------------------------------------------------
(* What the ledger's path holds while somebody has the lock.                     *)

(* The log of f, if there is one, is at the ledger's path. *)
Attached(f) == wal[f] # None => target.wal = f

(* A log adds to its main file, and an inode that is not used yet is empty. *)
LogsAdd ==
    /\ \A f \in FileId : wal[f] # None => base[f].rows \subseteq wal[f].rows
    /\ \A f \in FileId : f > files => base[f] = Empty /\ wal[f] = None
    /\ Exists => target.main <= files

(* The stages before a process has moved or copied anything. *)
Untouched == {"idle", "take", "verify", "backup", "moveMain"}

Traces(p) ==
    /\ quarantine[p].main # None => quarantine[p].main <= files
    /\ proc[p].file # None => proc[p].file <= files
    /\ ~proc[p].moved /\ proc[p].at # "done" => quarantine[p].main = None
    /\ proc[p].at = "migrate" => proc[p].step >= 2
    /\ proc[p].at = "gate" => proc[p].prog = "collector"
    /\ proc[p].at \in Untouched => ~proc[p].moved /\ proc[p].safety = None

(* There is a backup that undoes a migration from db on. *)
Covered(db) == \E b \in backups : b.version \in 1 .. db.version /\ b.rows = db.rows

(* Whoever holds the lock is about to migrate what was copied, and nothing else. *)
Migrating(p) ==
    /\ proc[p].at = "ensure" => Version \in {0, Latest} \/ Covered(Content(target))
    /\ proc[p].at = "migrate" =>
          target.main = proc[p].file /\ Attached(target.main) /\ Covered(Content(target))

(* A ledger in the way of the one that was moved: nobody has written to it, or   *)
(* only the restore has.                                                         *)
Unwritten == Exists => sound[target.main] /\ Live(target.main).rows = {}
Spare == Exists => Live(target.main).rows \subseteq Input

Secured(p) == proc[p].safety \in backups /\ proc[p].safety.rows = proc[p].before.rows

(* The outcome a maintenance command is about to report. *)
Told(p) ==
    proc[p].verdict # "unusable" =>
      /\ Exists /\ ~Corrupt /\ Version = Latest
      /\ proc[p].verdict = "restored" => Content(target).rows = Input
      /\ proc[p].verdict = "kept" => Content(target).rows = proc[p].before.rows
      /\ proc[p].verdict = "fresh" => Content(target).rows = {}

Opening == {"moveLog", "prepare", "ensure", "stamp", "migrate", "fail", "check"}

Maintained(p) ==
    LET at == proc[p].at
        copied == ~proc[p].moved /\ proc[p].safety # None
    IN  /\ at \in Opening => proc[p].moved /\ Unwritten
        /\ at \in {"stamp", "migrate", "check"} => target.main = proc[p].file /\ Attached(target.main)
        /\ at = "check" => Version = Latest
        /\ at = "backup" => Exists /\ ~Corrupt /\ Content(target).rows = proc[p].before.rows
        /\ at = "transfer" /\ ~copied => Unwritten
        /\ at = "transfer" /\ copied => Exists /\ Content(target).rows = proc[p].safety.rows
        /\ at \in {"transfer", "confirm"} /\ copied => Secured(p)
        /\ at = "confirm" =>
              /\ Exists /\ ~Corrupt /\ Version = Latest /\ Attached(target.main)
              /\ Content(target).rows = Input
        /\ at = "copyBack" =>
              Secured(p) /\ Exists /\ Content(target).rows \subseteq proc[p].safety.rows \cup Input
        /\ at \in {"remove", "discard", "moveLogBack", "moveMainBack"} => Spare
        /\ at = "report" => Told(p)

Kept(p) == holder = p => Migrating(p) /\ (proc[p].prog \in Maintenance => Maintained(p))

KeptInv == RecoveryInv /\ LogsAdd /\ \A p \in Proc : Traces(p) /\ Kept(p)

(* What a process without the lock may do to the ledger's path: create a ledger   *)
(* where there is none, migrate or stamp the one that is there, fold its log.     *)
Bystands ==
    /\ backups \subseteq backups' /\ UNCHANGED sound
    /\ Exists =>
          /\ target'.main = target.main
          /\ Content(target)'.rows = Content(target).rows
          /\ Content(target)'.version >= Content(target).version
          /\ Content(target).version = 0 => Content(target)'.version \in {0, Latest}
          /\ Live(target.main)'.rows \subseteq Live(target.main).rows
          /\ Attached(target.main) => Attached(target.main)'
    /\ ~Exists /\ Exists' =>
          Content(target)' = Empty /\ Live(target.main)' = Empty /\ sound[target'.main]

LEMMA RowIsInMainFiles ==
    ASSUME NEW row
    PROVE  row \in InMainFiles <=>
              \/ row \in Copies
              \/ Exists /\ row \in base[target.main].rows
              \/ \E q \in Proc : quarantine[q].main # None /\ row \in base[quarantine[q].main].rows
BY DEF InMainFiles, Bundles, Exists

LEMMA CopiesGrow ==
    ASSUME backups \subseteq backups'
    PROVE  Copies \subseteq Copies'
BY DEF Copies

(* A step that moves no main file and takes no row from one. *)
LEMMA MainFilesGrow ==
    ASSUME FilesInv, backups \subseteq backups', Exists => target'.main = target.main,
           \A q \in Proc : quarantine'[q].main = quarantine[q].main,
           \A f \in FileId : base[f].rows \subseteq base'[f].rows
    PROVE  InMainFiles \subseteq InMainFiles'
<1>1. ASSUME NEW row, row \in InMainFiles PROVE row \in InMainFiles'
  <2>1. \/ row \in Copies
        \/ Exists /\ row \in base[target.main].rows
        \/ \E q \in Proc : quarantine[q].main # None /\ row \in base[quarantine[q].main].rows
    BY <1>1, RowIsInMainFiles
  <2>2. target.main \in FileId \cup {None} /\ \A q \in Proc : quarantine[q].main \in FileId \cup {None}
    BY DEF FilesInv, Bundle
  <2>3. \/ row \in Copies'
        \/ Exists' /\ row \in base'[target'.main].rows
        \/ \E q \in Proc : quarantine'[q].main # None /\ row \in base'[quarantine'[q].main].rows
    BY <2>1, <2>2, CopiesGrow DEF Exists
  <2>4. (row \in InMainFiles <=>
              \/ row \in Copies
              \/ Exists /\ row \in base[target.main].rows
              \/ \E q \in Proc : quarantine[q].main # None /\ row \in base[quarantine[q].main].rows)'
    BY RowIsInMainFiles, PTL
  <2>. QED BY <2>3, <2>4
<1>. QED BY <1>1

LEMMA FilesAreCounted ==
    ASSUME FilesInv
    PROVE  files \in Nat /\ \A f \in FileId : f \in Nat /\ (f > files <=> ~(f <= files))
<1>1. MaxFiles \in Nat
  BY RecoveryAssumption
<1>2. files \in FileId
  BY DEF FilesInv
<1>. QED BY <1>1, <1>2 DEF FileId

(* What is at the ledger's path is in its main file and its log. *)
LEMMA LedgerIsRead ==
    ASSUME FilesInv, LogsAdd, Exists
    PROVE  /\ target.main \in FileId /\ Content(target) \in Database /\ Live(target.main) \in Database
           /\ base[target.main].rows \subseteq Content(target).rows
           /\ base[target.main].rows \subseteq Live(target.main).rows
           /\ Content(target).rows \subseteq Live(target.main).rows
           /\ Attached(target.main) => Content(target) = Live(target.main)
           /\ ~Attached(target.main) => Content(target) = base[target.main]
<1>1. target.main \in FileId /\ Content(target) \in Database /\ Live(target.main) \in Database
  BY ContentIsTyped, LiveIsTyped
<1>. QED BY <1>1 DEF LogsAdd, Content, Live, Attached

LEMMA EmptyIsTyped == Empty.rows = {} /\ Empty.version = 0
BY DEF Empty

(* A write by a process that has f open, to the log it has open. *)
LEMMA WriteIsSeen ==
    ASSUME FilesInv, LogsAdd, NEW f \in FileId, f <= files, NEW db \in Database, Write(f, db),
           Live(f).rows \subseteq db.rows
    PROVE  /\ LogsAdd' /\ UNCHANGED <<base, sound, files>> /\ target'.main = target.main
           /\ Exists /\ f = target.main /\ Attached(f) =>
                 Content(target)' = db /\ Live(f)' = db /\ Attached(f)' /\ Content(target) = Live(f)
           /\ Exists /\ ~(f = target.main /\ Attached(f)) =>
                 /\ Content(target)' = Content(target)
                 /\ Live(target.main)' = IF f = target.main THEN db ELSE Live(target.main)
                 /\ Attached(target.main) => Attached(target.main)'
           /\ ~Exists => ~Exists'
<1>1. UNCHANGED <<base, sound, files>> /\ target'.main = target.main
  BY DEF Write, FilesInv, Bundle
<1>2. db # None /\ None \notin FileId
  BY DatabasesAreTyped
<1>3. wal'[f] = db /\ \A g \in FileId \ {f} : wal'[g] = wal[g] \/ wal'[g] = None
  BY DEF Write, LogsBeside, FilesInv
<1>4. LogsAdd'
  <2>1. base[f].rows \subseteq Live(f).rows
    BY DEF LogsAdd, Live
  <2>2. \A g \in FileId : wal'[g] # None => base'[g].rows \subseteq wal'[g].rows
    BY <1>1, <1>3, <2>1 DEF LogsAdd
  <2>3. \A g \in FileId : g > files' => base'[g] = Empty /\ wal'[g] = None
    BY <1>1, <1>3, FilesAreCounted DEF LogsAdd
  <2>. QED BY <1>1, <2>2, <2>3 DEF LogsAdd, Exists
<1>5. CASE Exists /\ f = target.main /\ Attached(f)
  <2>1. wal[f] = None \/ target.wal = f
    BY <1>5 DEF Attached
  <2>2. target'.wal = f
    BY <1>5, <2>1 DEF Write, FilesInv, Bundle
  <2>3. Content(target)' = db /\ Live(f)' = db /\ Attached(f)'
    BY <1>1, <1>2, <1>3, <1>5, <2>2 DEF Content, Live, Attached
  <2>4. Content(target) = Live(f)
    BY <1>5, LedgerIsRead
  <2>. QED BY <1>1, <1>4, <1>5, <2>3, <2>4
<1>6. CASE Exists /\ ~(f = target.main /\ Attached(f))
  <2>1. UNCHANGED target /\ wal' = [wal EXCEPT ![f] = db]
    BY <1>6 DEF Write, Attached
  <2>2. target.main \in FileId
    BY <1>6 DEF FilesInv, Bundle, Exists
  <2>3. CASE f = target.main
    <3>1. wal[f] # None /\ target.wal # f
      BY <1>6, <2>3 DEF Attached
    <3>2. Content(target)' = Content(target)
      BY <1>1, <2>1, <2>3, <3>1 DEF Content
    <3>3. Live(f)' = db
      BY <1>2, <1>3 DEF Live
    <3>. QED BY <1>1, <1>4, <1>6, <2>1, <2>3, <3>2, <3>3
  <2>4. CASE f # target.main
    <3>1. wal'[target.main] = wal[target.main]
      BY <2>1, <2>2, <2>4 DEF FilesInv
    <3>2. Content(target)' = Content(target) /\ Live(target.main)' = Live(target.main)
          /\ (Attached(target.main) => Attached(target.main)')
      BY <1>1, <2>1, <3>1 DEF Content, Live, Attached
    <3>. QED BY <1>1, <1>4, <1>6, <2>4, <3>2
  <2>. QED BY <2>3, <2>4
<1>7. CASE ~Exists
  BY <1>1, <1>4, <1>7 DEF Exists
<1>. QED BY <1>5, <1>6, <1>7

(* Folding a log changes nothing that is seen. *)
LEMMA CloseIsNotSeen ==
    ASSUME FilesInv, LogsAdd, NEW p \in Proc, proc[p].file \in FileId \cup {None}, Close(p),
           UNCHANGED <<sound, files>>
    PROVE  /\ LogsAdd' /\ target'.main = target.main
           /\ \A f \in FileId : base[f].rows \subseteq base'[f].rows
           /\ Exists => /\ Content(target)' = Content(target)
                        /\ Live(target.main)' = Live(target.main)
                        /\ Attached(target.main) => Attached(target.main)'
<1>. DEFINE f == proc[p].file
<1>1. CASE UNCHANGED <<base, wal, target>>
  BY <1>1 DEF LogsAdd, Exists, Content, Live, Attached
<1>2. CASE /\ f # None /\ wal[f] # None /\ target = [main |-> f, wal |-> f]
           /\ base' = [base EXCEPT ![f] = wal[f]]
           /\ wal' = [wal EXCEPT ![f] = None]
           /\ target' = [target EXCEPT !.wal = None]
  <2>1. f \in FileId /\ wal[f] \in Database /\ target.main = f /\ target.wal = f
    BY <1>2 DEF FilesInv
  <2>. HIDE DEF f
  <2>2. base'[f] = wal[f] /\ wal'[f] = None
        /\ \A g \in FileId \ {f} : base'[g] = base[g] /\ wal'[g] = wal[g]
    BY <1>2, <2>1 DEF FilesInv
  <2>3. target'.main = f /\ target'.wal = None /\ None \notin FileId
    BY <1>2, <2>1, DatabasesAreTyped DEF FilesInv, Bundle
  <2>4. f <= files /\ files \in Nat
    BY <1>2, <2>1, FilesAreCounted, DatabasesAreTyped DEF LogsAdd, Exists
  <2>5. LogsAdd'
    <3>1. \A g \in FileId : wal'[g] # None => base'[g].rows \subseteq wal'[g].rows
      BY <2>2 DEF LogsAdd
    <3>2. \A g \in FileId : g > files => base'[g] = Empty /\ wal'[g] = None
      BY <2>1, <2>2, <2>4, FilesAreCounted DEF LogsAdd
    <3>. QED BY <2>1, <2>3, <2>4, <3>1, <3>2 DEF LogsAdd, Exists
  <2>6. \A g \in FileId : base[g].rows \subseteq base'[g].rows
    BY <1>2, <2>1, <2>2 DEF LogsAdd
  <2>7. Content(target)' = wal[f] /\ Live(target.main)' = wal[f] /\ Attached(target.main)'
    BY <2>1, <2>2, <2>3 DEF Content, Live, Attached
  <2>8. Content(target) = wal[f] /\ Live(target.main) = wal[f]
    BY <1>2, <2>1 DEF Content, Live
  <2>. QED BY <2>1, <2>3, <2>5, <2>6, <2>7, <2>8
<1>. QED BY <1>1, <1>2 DEF Close

(* The writable handle: the ledger that is there, or a new one. *)
LEMMA EnsureIsSeen ==
    ASSUME FilesInv, LogsAdd, NEW f \in FileId, f = IF Exists THEN target.main ELSE files + 1,
           files' = IF Exists THEN files ELSE f, wal' = LogsBeside(f),
           target' = [main |-> f, wal |-> IF target.wal = f THEN f ELSE None],
           UNCHANGED <<base, sound>>
    PROVE  /\ LogsAdd' /\ target'.main = f /\ Exists' /\ f <= files' /\ Attached(f)'
           /\ files <= files'
           /\ Exists => Content(target)' = Content(target)
                        /\ Live(target.main)'.rows \subseteq Live(target.main).rows
           /\ ~Exists => Content(target)' = Empty /\ Live(f)' = Empty /\ sound[f]
           /\ Live(f)' = Content(target)'
<1>1. files \in Nat /\ f \in Nat /\ None \notin FileId
  BY FilesAreCounted, DatabasesAreTyped
<1>2. target'.main = f /\ target'.wal = (IF target.wal = f THEN f ELSE None) /\ Exists'
  BY <1>1 DEF Exists
<1>3. \A g \in FileId : wal'[g] = IF target.wal # f /\ g \in {f, target.wal} THEN None ELSE wal[g]
  BY DEF LogsBeside
<1>4. f <= files' /\ files <= files'
  BY <1>1 DEF LogsAdd
<1>5. LogsAdd'
  <2>1. \A g \in FileId : wal'[g] # None => base'[g].rows \subseteq wal'[g].rows
    BY <1>3 DEF LogsAdd
  <2>2. \A g \in FileId : g > files' => base'[g] = Empty /\ wal'[g] = None
    <3>1. \A g \in FileId : g > files' => g > files
      BY <1>1, FilesAreCounted
    <3>. QED BY <3>1, <1>3 DEF LogsAdd
  <2>. QED BY <1>2, <1>4, <2>1, <2>2 DEF LogsAdd
<1>6. Attached(f)'
  BY <1>2, <1>3 DEF Attached
<1>7. Live(f)' = Content(target)'
  BY <1>2, <1>6 DEF Content, Live, Attached
<1>8. CASE Exists
  <2>1. f = target.main /\ base[f].rows \subseteq Live(f).rows
    BY <1>8, LedgerIsRead
  <2>2. Content(target)' = Content(target)
    BY <1>2, <1>3, <2>1 DEF Content
  <2>3. Live(f)' = IF target.wal = f THEN Live(f) ELSE base[f]
    BY <1>3 DEF Live
  <2>. QED BY <1>2, <1>4, <1>5, <1>6, <1>7, <1>8, <2>1, <2>2, <2>3
<1>9. CASE ~Exists
  <2>1. f = files + 1 /\ f > files /\ f # 1
    BY <1>1, <1>9 DEF FilesInv, FileId
  <2>2. base[f] = Empty /\ wal[f] = None /\ sound[f]
    BY <2>1 DEF LogsAdd, FilesInv
  <2>3. Live(f)' = Empty
    BY <1>3, <2>2 DEF Live
  <2>. QED BY <1>2, <1>4, <1>5, <1>6, <1>7, <1>9, <2>2, <2>3
<1>. QED BY <1>8, <1>9

(* The whole content of the ledger is replaced. *)
LEMMA ReplaceIsSeen ==
    ASSUME FilesInv, LogsAdd, NEW db \in Database, Replace(db)
    PROVE  /\ LogsAdd' /\ Exists' /\ ~Corrupt' /\ Content(target)' = db /\ Attached(target.main)'
           /\ files <= files'
           /\ Exists => target'.main = target.main
           /\ \A f \in FileId : f # target'.main => base'[f] = base[f]
           /\ ~Exists => target'.main > files
<1>. DEFINE f == IF Exists THEN target.main ELSE files + 1
<1>1. files \in Nat /\ f \in FileId /\ f \in Nat /\ None \notin FileId
  BY FilesAreCounted, DatabasesAreTyped DEF Replace
<1>2. f <= (IF Exists THEN files ELSE f) /\ files <= (IF Exists THEN files ELSE f)
      /\ (~Exists => f > files)
  BY <1>1 DEF LogsAdd
<1>3. Exists => f = target.main
  OBVIOUS
<1>4. /\ files' = IF Exists THEN files ELSE f
      /\ base' = [base EXCEPT ![f] = db] /\ wal' = [wal EXCEPT ![f] = None]
      /\ sound' = [sound EXCEPT ![f] = TRUE] /\ target' = [main |-> f, wal |-> None]
  BY DEF Replace
<1>. HIDE DEF f
<1>5. /\ base'[f] = db /\ wal'[f] = None /\ sound'[f]
      /\ \A g \in FileId \ {f} : base'[g] = base[g] /\ wal'[g] = wal[g]
  BY <1>1, <1>4 DEF FilesInv
<1>6. target'.main = f /\ Exists'
  BY <1>1, <1>4 DEF Exists
<1>7. LogsAdd'
  <2>1. \A g \in FileId : g > files' => g # f /\ g > files
    BY <1>1, <1>2, <1>4, FilesAreCounted
  <2>2. \A g \in FileId : g > files' => base'[g] = Empty /\ wal'[g] = None
    BY <1>5, <2>1 DEF LogsAdd
  <2>3. \A g \in FileId : wal'[g] # None => base'[g].rows \subseteq wal'[g].rows
    BY <1>5 DEF LogsAdd
  <2>. QED BY <1>2, <1>4, <1>6, <2>2, <2>3 DEF LogsAdd
<1>8. Content(target)' = db /\ Attached(target.main)' /\ ~Corrupt'
  BY <1>5, <1>6 DEF Content, Attached, Corrupt
<1>. QED BY <1>2, <1>3, <1>4, <1>5, <1>6, <1>7, <1>8

-----------------------------------------------------------------------------
(* What the holder of the lock relies on survives what the others do. *)

LEMMA LedgerStaysRead ==
    ASSUME RecoveryInv, LogsAdd, RecoveryInv', LogsAdd', Bystands
    PROVE  /\ Exists => Exists' /\ (~Corrupt => ~Corrupt')
                        /\ (Version = Latest => Version' = Latest)
                        /\ (Version = 0 => Version' \in {0, Latest})
                        /\ (Covered(Content(target)) => Covered(Content(target))')
           /\ ~Exists => Version = 0 /\ Version' = 0
<1>1. FilesInv /\ FilesInv'
  BY DEF RecoveryInv
<1>2. ASSUME Exists
      PROVE  /\ Exists' /\ (~Corrupt => ~Corrupt')
             /\ Version = Content(target).version /\ Version' = Content(target)'.version
             /\ Content(target).version \in 0 .. Latest /\ Content(target)'.version \in 0 .. Latest
             /\ Content(target)'.version >= Content(target).version
             /\ Content(target)'.rows = Content(target).rows
    <2>1. Exists' /\ (~Corrupt => ~Corrupt')
      BY <1>2 DEF Bystands, Exists, Corrupt
    <2>2. Content(target) \in Database
      BY <1>1, <1>2, ContentIsTyped
    <2>3. Content(target)' \in Database
      BY <1>1, <2>1, DatabasesAreTyped DEF FilesInv, Exists, Content, Bundle
    <2>. QED BY <1>2, <2>1, <2>2, <2>3 DEF Version, Bystands, Database
<1>3. Latest \in Nat /\ Latest # 0
  BY RecoveryAssumption
<1>4. ASSUME Exists, Covered(Content(target)) PROVE Covered(Content(target))'
  <2>1. PICK b \in backups : b.version \in 1 .. Content(target).version /\ b.rows = Content(target).rows
    BY <1>4 DEF Covered
  <2>2. b \in backups' /\ b.version \in 1 .. Content(target)'.version /\ b.rows = Content(target)'.rows
    BY <1>2, <1>3, <1>4, <2>1 DEF Bystands
  <2>. QED BY <2>2 DEF Covered
<1>5. ASSUME Exists PROVE Version = Latest => Version' = Latest
  BY <1>2, <1>3, <1>5
<1>6. ASSUME Exists PROVE Version = 0 => Version' \in {0, Latest}
  BY <1>2, <1>6 DEF Bystands
<1>7. ASSUME ~Exists PROVE Version = 0 /\ Version' = 0
  BY <1>7, EmptyIsTyped DEF Version, Bystands
<1>. QED BY <1>2, <1>4, <1>5, <1>6, <1>7

LEMMA UnwrittenStays ==
    ASSUME RecoveryInv, LogsAdd, Bystands
    PROVE  (Unwritten => Unwritten') /\ (Spare => Spare')
<1>1. CASE Exists
  <2>1. target'.main = target.main /\ UNCHANGED sound
        /\ Live(target.main)'.rows \subseteq Live(target.main).rows
    BY <1>1 DEF Bystands
  <2>. QED BY <1>1, <2>1 DEF Unwritten, Spare, Exists
<1>2. CASE ~Exists
  <2>1. Exists' => Live(target.main)' = Empty /\ sound'[target'.main]
    BY <1>2 DEF Bystands
  <2>. QED BY <2>1, EmptyIsTyped DEF Unwritten, Spare
<1>. QED BY <1>1, <1>2

LEMMA KeptStays ==
    ASSUME KeptInv, RecoveryInv', LogsAdd', NEW p \in Proc, holder' = p => holder = p,
           proc'[p] = proc[p], Bystands
    PROVE  Kept(p)'
<1>. SUFFICES ASSUME holder = p PROVE Migrating(p)' /\ (proc[p].prog \in Maintenance => Maintained(p)')
  BY DEF Kept
<1>1. RecoveryInv /\ LogsAdd /\ Migrating(p) /\ (proc[p].prog \in Maintenance => Maintained(p))
  BY DEF KeptInv, Kept
<1>2. /\ Exists => Exists' /\ (~Corrupt => ~Corrupt')
                   /\ (Version = Latest => Version' = Latest)
                   /\ (Version = 0 => Version' \in {0, Latest})
                   /\ (Covered(Content(target)) => Covered(Content(target))')
      /\ ~Exists => Version = 0 /\ Version' = 0
  BY <1>1, LedgerStaysRead
<1>3. Exists => /\ target'.main = target.main
                /\ Content(target)'.rows = Content(target).rows
                /\ (Attached(target.main) => Attached(target.main)')
  BY DEF Bystands
<1>4. proc[p].at \in Opened => proc[p].file \in FileId /\ proc[p].file # None
  BY <1>1, ProcessIsSafe, DatabasesAreTyped DEF WellFormed
<1>5. Version = Latest => Exists
  BY <1>2, RecoveryAssumption
<1>6. Migrating(p)'
  <2>1. ASSUME proc[p].at = "ensure" PROVE Version' \in {0, Latest} \/ Covered(Content(target))'
    <3>1. Version \in {0, Latest} \/ Covered(Content(target))
      BY <1>1, <2>1 DEF Migrating
    <3>. QED BY <1>2, <1>5, <3>1
  <2>2. ASSUME proc[p].at = "migrate"
        PROVE  target'.main = proc[p].file /\ Attached(target.main)' /\ Covered(Content(target))'
    <3>1. target.main = proc[p].file /\ Attached(target.main) /\ Covered(Content(target)) /\ Exists
      BY <1>1, <1>4, <2>2 DEF Migrating, Opened, Exists
    <3>. QED BY <1>2, <1>3, <3>1
  <2>. QED BY <2>1, <2>2 DEF Migrating
<1>7. ASSUME proc[p].prog \in Maintenance PROVE Maintained(p)'
  <2>. DEFINE at == proc[p].at
              copied == ~proc[p].moved /\ proc[p].safety # None
  <2>1. Maintained(p)
    BY <1>1, <1>7
  <2>2. (Unwritten => Unwritten') /\ (Spare => Spare') /\ (Secured(p) => Secured(p)')
    BY <1>1, UnwrittenStays DEF Bystands, Secured
  <2>3. ASSUME at \in {"stamp", "migrate", "check"}
        PROVE  target'.main = proc[p].file /\ Attached(target.main)'
    <3>1. target.main = proc[p].file /\ Attached(target.main) /\ Exists
      BY <2>1, <2>3, <1>4 DEF Maintained, Opened, Exists
    <3>. QED BY <1>3, <3>1
  <2>4. ASSUME at = "report" PROVE Told(p)'
    BY <2>1, <2>4, <1>2, <1>3 DEF Maintained, Told
  <2>5. /\ at \in Opening => proc[p].moved /\ Unwritten'
        /\ at = "check" => Version' = Latest
        /\ at = "transfer" /\ ~copied => Unwritten'
        /\ at \in {"transfer", "confirm"} /\ copied => Secured(p)'
        /\ at \in {"remove", "discard", "moveLogBack", "moveMainBack"} => Spare'
    BY <2>1, <2>2, <1>2, <1>5 DEF Maintained
  <2>6. /\ at = "backup" => Exists' /\ ~Corrupt' /\ Content(target)'.rows = proc[p].before.rows
        /\ at = "transfer" /\ copied => Exists' /\ Content(target)'.rows = proc[p].safety.rows
        /\ at = "copyBack" =>
              Secured(p)' /\ Exists' /\ Content(target)'.rows \subseteq proc[p].safety.rows \cup Input
    BY <2>1, <2>2, <1>2, <1>3 DEF Maintained
  <2>7. at = "confirm" =>
           /\ Exists' /\ ~Corrupt' /\ Version' = Latest /\ Attached(target.main)'
           /\ Content(target)'.rows = Input
    BY <2>1, <1>2, <1>3 DEF Maintained
  <2>. QED BY <2>3, <2>4, <2>5, <2>6, <2>7 DEF Maintained
<1>. QED BY <1>6, <1>7

-----------------------------------------------------------------------------
(* Every step keeps what the holder of the lock relies on, and every row that is  *)
(* in a main file.                                                                *)

Steady(p) == \A q \in Proc \ {p} : proc'[q] = proc[q] /\ (holder' = q => holder = q)

Good == KeptInv' /\ InMainFiles \subseteq InMainFiles'

LEMMA KeptStep ==
    ASSUME KeptInv, RecoveryInv', NEW p \in Proc, Steady(p), LogsAdd', files <= files',
           \A q \in Proc \ {p} : quarantine'[q].main = quarantine[q].main,
           Traces(p)', Kept(p)', holder = p \/ Bystands
    PROVE  KeptInv'
<1>1. FilesInv /\ FilesInv' /\ \A q \in Proc : Traces(q)
  BY DEF KeptInv, RecoveryInv
<1>2. files \in Nat /\ files' \in Nat /\ \A f \in FileId : f \in Nat
  BY <1>1, FilesAreCounted DEF FilesInv
<1>3. ASSUME NEW q \in Proc \ {p} PROVE Traces(q)'
  <2>1. proc'[q] = proc[q] /\ quarantine'[q].main = quarantine[q].main
    BY DEF Steady
  <2>2. proc[q].file \in FileId \cup {None} /\ quarantine[q].main \in FileId \cup {None}
    BY <1>1 DEF KeptInv, RecoveryInv, Process, FilesInv, Bundle
  <2>3. \A f \in FileId : f <= files => f <= files'
    BY <1>2
  <2>. QED BY <1>1, <2>1, <2>2, <2>3 DEF Traces
<1>4. ASSUME NEW q \in Proc \ {p} PROVE Kept(q)'
  <2>1. proc'[q] = proc[q] /\ (holder' = q => holder = q)
    BY DEF Steady
  <2>2. CASE holder = p
    BY <2>1, <2>2 DEF Kept
  <2>3. CASE Bystands
    BY <2>1, <2>3, KeptStays
  <2>. QED BY <2>2, <2>3
<1>. QED BY <1>3, <1>4 DEF KeptInv

LEMMA KeptIsSafe ==
    ASSUME KeptInv, NEW p \in Proc
    PROVE  /\ RecoveryInv /\ FilesInv /\ LogsAdd /\ Traces(p) /\ Kept(p)
           /\ proc[p] \in Process /\ WellFormed(proc[p]) /\ Owns(p, proc[p], holder)
           /\ proc[p].prog \in Maintenance /\ proc[p].at \notin {"idle", "take", "done"}
                => holder = p /\ Maintained(p) /\ Migrating(p)
BY ProcessIsSafe DEF KeptInv, Kept, Owns, Owners

LEMMA SameLedger ==
    ASSUME UNCHANGED <<contents, target>>
    PROVE  /\ UNCHANGED <<Exists, Corrupt, Version, Unwritten, Spare>>
           /\ Content(target)' = Content(target) /\ Live(target.main)' = Live(target.main)
           /\ \A f \in FileId : Attached(f)' = Attached(f)
           /\ Attached(target.main)' = Attached(target.main)
           /\ LogsAdd => LogsAdd'
BY DEF contents, Exists, Corrupt, Version, Unwritten, Spare, Content, Live, Attached, LogsAdd

LEMMA CoveredStays ==
    ASSUME backups \subseteq backups', NEW db, Covered(db)
    PROVE  Covered(db)'
BY DEF Covered

(* The fields of p that a step leaves. *)
SameWork(p) ==
    /\ proc'[p].prog = proc[p].prog /\ proc'[p].moved = proc[p].moved
    /\ proc'[p].safety = proc[p].safety /\ proc'[p].before = proc[p].before

LEMMA GoesTo ==
    ASSUME KeptInv, NEW p \in Proc, NEW stage, GoTo(p, stage)
    PROVE  /\ proc'[p].at = stage /\ SameWork(p) /\ proc'[p].file = proc[p].file
           /\ proc'[p].step = proc[p].step /\ proc'[p].verdict = proc[p].verdict
           /\ \A q \in Proc \ {p} : proc'[q] = proc[q]
BY DEF KeptInv, RecoveryInv, GoTo, Go, Process, SameWork

LEMMA GoesToUnusable ==
    ASSUME KeptInv, NEW p \in Proc, Go(p, Unusable(p))
    PROVE  /\ proc'[p].at = "report" /\ SameWork(p) /\ proc'[p].file = None
           /\ proc'[p].verdict = "unusable"
           /\ \A q \in Proc \ {p} : proc'[q] = proc[q]
BY DEF KeptInv, RecoveryInv, Go, Process, SameWork, Unusable

LEMMA GoesToFailing ==
    ASSUME KeptInv, NEW p \in Proc, Go(p, Failing(p))
    PROVE  /\ proc'[p].at = IF Is(p, Maintenance) THEN "discard" ELSE "leave"
           /\ SameWork(p) /\ proc'[p].file = None
           /\ \A q \in Proc \ {p} : proc'[q] = proc[q]
BY DEF KeptInv, RecoveryInv, Go, Process, SameWork, Failing

LEMMA TracesStay ==
    ASSUME KeptInv, RecoveryInv', NEW p \in Proc, files <= files',
           quarantine'[p].main = quarantine[p].main, proc'[p].moved = proc[p].moved,
           proc'[p].file \in {None, proc[p].file}, proc[p].at # "done",
           proc'[p].at \notin Untouched \cup {"gate"},
           proc'[p].at = "migrate" => proc'[p].step >= 2
    PROVE  Traces(p)'
<1>1. FilesInv /\ FilesInv' /\ Traces(p) /\ proc[p] \in Process
  BY DEF KeptInv, RecoveryInv
<1>2. files \in Nat /\ files' \in Nat /\ \A f \in FileId : f \in Nat
  BY <1>1, FilesAreCounted DEF FilesInv
<1>3. proc[p].file \in FileId \cup {None} /\ quarantine[p].main \in FileId \cup {None}
  BY <1>1 DEF Process, FilesInv, Bundle
<1>. QED BY <1>1, <1>2, <1>3 DEF Traces

(* A step that leaves the ledger alone. *)
LEMMA QuietKept ==
    ASSUME KeptInv, RecoveryInv', NEW p \in Proc, Steady(p),
           UNCHANGED <<contents, target, quarantine>>, backups \subseteq backups',
           Traces(p)', Kept(p)'
    PROVE  Good
<1>1. FilesInv /\ FilesInv' /\ LogsAdd
  BY DEF KeptInv, RecoveryInv
<1>2. UNCHANGED <<base, sound, files>> /\ LogsAdd'
  BY <1>1, SameLedger DEF contents
<1>3. files <= files'
  BY <1>1, <1>2, FilesAreCounted
<1>4. Bystands
  <2>1. Exists => Content(target).version \in Nat
    BY <1>1, RecoveryAssumption, ContentIsTyped DEF Database
  <2>. QED BY <1>2, <2>1, SameLedger DEF Bystands, contents
<1>5. KeptInv'
  BY <1>2, <1>3, <1>4, KeptStep
<1>6. InMainFiles \subseteq InMainFiles'
  BY <1>1, <1>2, MainFilesGrow
<1>. QED BY <1>5, <1>6 DEF Good

(* Nothing is relied on at these stages. *)
LEMMA NothingToKeep ==
    ASSUME NEW p \in Proc,
           \/ proc'[p].at \in {"idle", "take", "gate", "verify", "moveMain", "open", "leave", "done"}
           \/ proc'[p].prog \notin Maintenance /\ proc'[p].at \notin {"ensure", "migrate"}
    PROVE  Kept(p)'
BY DEF Kept, Migrating, Maintained, Opening

-----------------------------------------------------------------------------

LEMMA StartIsGood ==
    ASSUME KeptInv, RecoveryInv', NEW p \in Proc, NEW prog \in Program, Start(p, prog)
    PROVE  Good
<1>1. FilesInv /\ Traces(p) /\ proc[p] \in Process /\ proc[p].at = "idle"
  BY KeptIsSafe DEF Start, At
<1>2. PICK needsLock \in BOOLEAN :
          Go(p, [Idle EXCEPT !.prog = prog,
                    !.at = IF prog = "command" /\ ~needsLock THEN "prepare" ELSE "take"])
  BY DEF Start
<1>3. UNCHANGED <<contents, target, quarantine, backups, holder>>
  BY DEF Start
<1>4. /\ proc'[p].at = (IF prog = "command" /\ ~needsLock THEN "prepare" ELSE "take")
      /\ proc'[p].prog = prog /\ proc'[p].file = None /\ ~proc'[p].moved /\ proc'[p].safety = None
      /\ \A q \in Proc \ {p} : proc'[q] = proc[q]
  BY <1>2 DEF Go, Idle, KeptInv, RecoveryInv
<1>5. Steady(p)
  BY <1>3, <1>4 DEF Steady
<1>6. quarantine[p].main = None
  BY <1>1 DEF Traces, Untouched
<1>7. Traces(p)'
  BY <1>3, <1>4, <1>6 DEF Traces, Untouched
<1>8. Kept(p)'
  BY <1>4, NothingToKeep DEF Maintenance
<1>. QED BY <1>3, <1>5, <1>7, <1>8, QuietKept

LEMMA TakeIsGood ==
    ASSUME KeptInv, RecoveryInv', NEW p \in Proc, Take(p)
    PROVE  Good
<1>1. FilesInv /\ Traces(p) /\ WellFormed(proc[p]) /\ proc[p].at = "take"
  BY KeptIsSafe DEF Take, At
<1>2. holder = None /\ holder' = p /\ UNCHANGED <<contents, target, quarantine, backups>>
  BY DEF Take
<1>3. PICK stage \in {"prepare", "gate", "verify", "moveMain"} :
         /\ GoTo(p, stage)
         /\ stage = "prepare" => proc[p].prog \notin Maintenance
         /\ stage = "gate" => proc[p].prog = "collector"
  <2>1. GoTo(p, CASE Is(p, {"command"}) -> "prepare" [] Is(p, {"collector"}) -> "gate"
                  [] Is(p, {"restore"}) -> "verify" [] OTHER -> "moveMain")
    BY DEF Take
  <2>2. CASE proc[p].prog = "command"
    BY <2>1, <2>2 DEF Is, Maintenance
  <2>3. CASE proc[p].prog = "collector"
    BY <2>1, <2>3 DEF Is
  <2>4. CASE proc[p].prog = "restore"
    BY <2>1, <2>4 DEF Is
  <2>5. CASE proc[p].prog \notin {"command", "collector", "restore"}
    BY <2>1, <2>5 DEF Is
  <2>. QED BY <2>2, <2>3, <2>4, <2>5
<1>4. /\ proc'[p].at = stage /\ SameWork(p) /\ proc'[p].file = proc[p].file
      /\ \A q \in Proc \ {p} : proc'[q] = proc[q]
  BY <1>3, GoesTo
<1>5. Steady(p)
  BY <1>2, <1>4 DEF Steady
<1>6. Traces(p)'
  BY <1>1, <1>2, <1>3, <1>4 DEF Traces, Untouched, SameWork, contents
<1>7. Kept(p)'
  BY <1>3, <1>4, NothingToKeep DEF SameWork
<1>. QED BY <1>2, <1>5, <1>6, <1>7, QuietKept

LEMMA TakeHeldIsGood ==
    ASSUME KeptInv, RecoveryInv', NEW p \in Proc, TakeHeld(p)
    PROVE  Good
<1>1. FilesInv /\ Traces(p) /\ proc[p].at = "take"
  BY KeptIsSafe DEF TakeHeld, At
<1>2. UNCHANGED <<contents, target, quarantine, backups, holder>>
  BY DEF TakeHeld
<1>3. PICK stage \in {"prepare", "done"} :
         GoTo(p, stage) /\ (stage = "prepare" => proc[p].prog = "command")
  BY DEF TakeHeld, Is
<1>4. /\ proc'[p].at = stage /\ SameWork(p) /\ proc'[p].file = proc[p].file
      /\ \A q \in Proc \ {p} : proc'[q] = proc[q]
  BY <1>3, GoesTo
<1>5. Steady(p)
  BY <1>2, <1>4 DEF Steady
<1>6. Traces(p)'
  BY <1>1, <1>2, <1>3, <1>4 DEF Traces, Untouched, SameWork, contents
<1>7. Kept(p)'
  BY <1>3, <1>4, NothingToKeep DEF SameWork, Maintenance
<1>. QED BY <1>2, <1>5, <1>6, <1>7, QuietKept

LEMMA GateIsGood ==
    ASSUME KeptInv, RecoveryInv', NEW p \in Proc, Gate(p)
    PROVE  Good
<1>1. FilesInv /\ Traces(p) /\ proc[p].at = "gate"
  BY KeptIsSafe DEF Gate, At
<1>2. UNCHANGED <<contents, target, quarantine, backups, holder>>
  BY DEF Gate
<1>3. PICK stage \in {"prepare", "leave"} : GoTo(p, stage)
  BY DEF Gate
<1>4. /\ proc'[p].at = stage /\ SameWork(p) /\ proc'[p].file = proc[p].file
      /\ \A q \in Proc \ {p} : proc'[q] = proc[q]
  BY <1>3, GoesTo
<1>5. Steady(p)
  BY <1>2, <1>4 DEF Steady
<1>6. Traces(p)'
  BY <1>1, <1>2, <1>3, <1>4 DEF Traces, Untouched, SameWork, contents
<1>7. Kept(p)'
  BY <1>1, <1>3, <1>4, NothingToKeep DEF SameWork, Maintenance, Traces
<1>. QED BY <1>2, <1>5, <1>6, <1>7, QuietKept

(* The end of a process that has no file open. *)
LEMMA EndingIsGood ==
    ASSUME KeptInv, RecoveryInv', NEW p \in Proc, holder' = Unlocked(p),
           UNCHANGED <<contents, target, quarantine, backups>>,
           proc'[p].at = "done", proc'[p].file \in {None, proc[p].file},
           \A q \in Proc \ {p} : proc'[q] = proc[q]
    PROVE  Good
<1>1. FilesInv /\ Traces(p)
  BY KeptIsSafe
<1>2. Steady(p)
  BY DatabasesAreTyped DEF Steady, Unlocked
<1>3. Traces(p)'
  BY <1>1 DEF Traces, Untouched, contents
<1>4. Kept(p)'
  BY NothingToKeep
<1>. QED BY <1>2, <1>3, <1>4, QuietKept

LEMMA ReportIsGood ==
    ASSUME KeptInv, RecoveryInv', NEW p \in Proc, Report(p)
    PROVE  Good
BY GoesTo, EndingIsGood DEF Report

LEMMA CrashIsGood ==
    ASSUME KeptInv, RecoveryInv', NEW p \in Proc, Crash(p)
    PROVE  Good
<1>1. /\ proc'[p].at = "done" /\ proc'[p].file = None
      /\ \A q \in Proc \ {p} : proc'[q] = proc[q]
  BY DEF Crash, Go, Idle, KeptInv, RecoveryInv
<1>. QED BY <1>1, EndingIsGood DEF Crash

LEMMA PrepareIsGood ==
    ASSUME KeptInv, RecoveryInv', NEW p \in Proc, Prepare(p)
    PROVE  Good
<1>1. /\ FilesInv /\ LogsAdd /\ Traces(p) /\ proc[p] \in Process /\ proc[p].at = "prepare"
      /\ proc[p].prog \in Maintenance => holder = p /\ proc[p].moved /\ Unwritten
  BY KeptIsSafe DEF Prepare, At, Maintained, Opening
<1>2. UNCHANGED <<contents, target, quarantine, holder>> /\ backups \subseteq backups'
  BY DEF Prepare
<1>3. UNCHANGED <<Exists, Version, Unwritten, Spare>> /\ Content(target)' = Content(target)
  BY <1>2, SameLedger
<1>4. CASE \/ Version \in {0, Latest} /\ GoTo(p, "ensure")
           \/ /\ Version \notin {0, Latest} /\ backups' = backups \cup {Content(target)}
              /\ Go(p, [proc[p] EXCEPT !.at = "ensure", !.backed = TRUE])
  <2>1. /\ proc'[p].at = "ensure" /\ SameWork(p) /\ proc'[p].file = proc[p].file
        /\ \A q \in Proc \ {p} : proc'[q] = proc[q]
    <3>1. CASE GoTo(p, "ensure")
      BY <3>1, GoesTo
    <3>2. CASE Go(p, [proc[p] EXCEPT !.at = "ensure", !.backed = TRUE])
      BY <3>2, <1>1 DEF KeptInv, RecoveryInv, Go, Process, SameWork
    <3>. QED BY <1>4, <3>1, <3>2
  <2>2. Version \in {0, Latest} \/ Covered(Content(target))'
    <3>1. SUFFICES ASSUME Version \notin {0, Latest} PROVE Covered(Content(target))'
      OBVIOUS
    <3>2. Content(target) \in backups' /\ Version = Content(target).version /\ Exists
      BY <1>4, <3>1 DEF Version
    <3>3. Content(target).version \in 0 .. Latest
      BY <1>1, <3>2, ContentIsTyped DEF Database
    <3>4. Content(target).version \in 1 .. Content(target).version
      BY <3>1, <3>2, <3>3, RecoveryAssumption
    <3>. QED BY <1>3, <3>2, <3>4 DEF Covered
  <2>3. Steady(p) /\ Traces(p)'
    BY <1>1, <1>2, <2>1, TracesStay, FilesAreCounted DEF Steady, SameWork, contents, Untouched, FilesInv
  <2>4. Kept(p)'
    BY <1>1, <1>3, <2>1, <2>2 DEF Kept, Migrating, Maintained, Opening, SameWork
  <2>. QED BY <1>2, <2>3, <2>4, QuietKept
<1>5. CASE Go(p, Failing(p))
  <2>1. /\ proc'[p].at = IF Is(p, Maintenance) THEN "discard" ELSE "leave"
        /\ SameWork(p) /\ proc'[p].file = None
        /\ \A q \in Proc \ {p} : proc'[q] = proc[q]
    BY <1>5, GoesToFailing
  <2>2. Steady(p) /\ Traces(p)'
    BY <1>1, <1>2, <2>1, TracesStay, FilesAreCounted DEF Steady, SameWork, contents, Untouched, FilesInv
  <2>3. Unwritten => Spare
    BY DEF Unwritten, Spare
  <2>4. Kept(p)'
    BY <1>1, <1>3, <2>1, <2>3 DEF Kept, Migrating, Maintained, Opening, SameWork, Is
  <2>. QED BY <1>2, <2>2, <2>4, QuietKept
<1>. QED BY <1>4, <1>5 DEF Prepare

LEMMA VerifyIsGood ==
    ASSUME KeptInv, RecoveryInv', NEW p \in Proc, Verify(p)
    PROVE  Good
<1>1. /\ FilesInv /\ LogsAdd /\ Traces(p) /\ proc[p] \in Process /\ proc[p].at = "verify"
      /\ ~proc[p].moved /\ proc[p].safety = None
  BY KeptIsSafe DEF Verify, At, Traces, Untouched
<1>2. UNCHANGED <<contents, target, quarantine, holder>> /\ backups \subseteq backups'
  BY DEF Verify
<1>3. UNCHANGED <<Exists, Version, Unwritten, Corrupt>> /\ Content(target)' = Content(target)
  BY <1>2, SameLedger
<1>4. CASE Go(p, Unusable(p))
  <2>1. /\ proc'[p].at = "report" /\ SameWork(p) /\ proc'[p].file = None
        /\ proc'[p].verdict = "unusable"
        /\ \A q \in Proc \ {p} : proc'[q] = proc[q]
    BY <1>4, GoesToUnusable
  <2>2. Steady(p) /\ Traces(p)'
    BY <1>1, <1>2, <2>1, TracesStay, FilesAreCounted DEF Steady, SameWork, contents, Untouched, FilesInv
  <2>3. Kept(p)'
    BY <2>1 DEF Kept, Migrating, Maintained, Opening, Told
  <2>. QED BY <1>2, <2>2, <2>3, QuietKept
<1>5. CASE Go(p, [proc[p] EXCEPT !.before = IF Exists THEN Content(target) ELSE None,
                     !.at = IF ~Exists THEN "transfer" ELSE IF Corrupt THEN "moveMain" ELSE "backup"])
  <2>1. /\ proc'[p].at = (IF ~Exists THEN "transfer" ELSE IF Corrupt THEN "moveMain" ELSE "backup")
        /\ Exists => proc'[p].before = Content(target)
        /\ ~proc'[p].moved /\ proc'[p].safety = None /\ proc'[p].file = proc[p].file
        /\ \A q \in Proc \ {p} : proc'[q] = proc[q]
    BY <1>1, <1>5 DEF KeptInv, RecoveryInv, Go, Process
  <2>2. Steady(p)
    BY <1>2, <2>1 DEF Steady
  <2>3. Traces(p)'
    BY <1>1, <1>2, <2>1 DEF Traces, contents
  <2>4. Kept(p)'
    <3>1. CASE ~Exists
      <4>1. Unwritten'
        BY <1>3, <3>1 DEF Unwritten
      <4>. QED BY <2>1, <3>1, <4>1 DEF Kept, Migrating, Maintained, Opening
    <3>2. CASE Exists /\ Corrupt
      BY <2>1, <3>2, NothingToKeep
    <3>3. CASE Exists /\ ~Corrupt
      BY <1>3, <2>1, <3>3 DEF Kept, Migrating, Maintained, Opening
    <3>. QED BY <3>1, <3>2, <3>3
  <2>. QED BY <1>2, <2>2, <2>3, <2>4, QuietKept
<1>. QED BY <1>4, <1>5 DEF Verify

LEMMA SafetyBackupIsGood ==
    ASSUME KeptInv, RecoveryInv', NEW p \in Proc, SafetyBackup(p)
    PROVE  Good
<1>1. /\ FilesInv /\ LogsAdd /\ Traces(p) /\ proc[p] \in Process /\ proc[p].at = "backup"
      /\ ~proc[p].moved /\ proc[p].safety = None /\ proc[p].prog \in Maintenance
      /\ Exists /\ ~Corrupt /\ Content(target).rows = proc[p].before.rows
  BY KeptIsSafe DEF SafetyBackup, At, Traces, Untouched, Maintained, WellFormed, Repairing
<1>2. UNCHANGED <<contents, target, quarantine, holder>> /\ backups \subseteq backups'
  BY DEF SafetyBackup
<1>3. UNCHANGED <<Exists, Version, Unwritten, Corrupt>> /\ Content(target)' = Content(target)
  BY <1>2, SameLedger
<1>4. CASE /\ backups' = backups \cup {Content(target)}
           /\ Go(p, [proc[p] EXCEPT !.safety = Content(target), !.at = "transfer"])
  <2>1. /\ proc'[p].at = "transfer" /\ proc'[p].safety = Content(target) /\ ~proc'[p].moved
        /\ proc'[p].before = proc[p].before /\ proc'[p].file = proc[p].file
        /\ \A q \in Proc \ {p} : proc'[q] = proc[q]
    BY <1>1, <1>4 DEF KeptInv, RecoveryInv, Go, Process
  <2>2. Content(target) # None
    BY <1>1, ContentIsTyped, DatabasesAreTyped
  <2>3. Steady(p)
    BY <1>2, <2>1 DEF Steady
  <2>4. Traces(p)'
    BY <1>1, <1>2, <2>1 DEF Traces, contents, Untouched
  <2>5. Secured(p)'
    BY <1>1, <1>4, <2>1 DEF Secured
  <2>6. Kept(p)'
    BY <1>1, <1>3, <2>1, <2>2, <2>5 DEF Kept, Migrating, Maintained, Opening
  <2>. QED BY <1>2, <2>3, <2>4, <2>6, QuietKept
<1>5. CASE Go(p, IF Version = Latest THEN [Unusable(p) EXCEPT !.verdict = "kept"] ELSE Unusable(p))
  <2>1. /\ proc'[p].at = "report" /\ SameWork(p) /\ proc'[p].file = None
        /\ proc'[p].verdict = IF Version = Latest THEN "kept" ELSE "unusable"
        /\ \A q \in Proc \ {p} : proc'[q] = proc[q]
    BY <1>1, <1>5 DEF KeptInv, RecoveryInv, Go, Process, SameWork, Unusable
  <2>2. Steady(p) /\ Traces(p)'
    BY <1>1, <1>2, <2>1, TracesStay, FilesAreCounted DEF Steady, SameWork, contents, Untouched, FilesInv
  <2>3. Told(p)'
    BY <1>1, <1>3, <2>1 DEF Told, SameWork
  <2>4. Kept(p)'
    BY <2>1, <2>3 DEF Kept, Migrating, Maintained, Opening
  <2>. QED BY <1>2, <2>2, <2>4, QuietKept
<1>. QED BY <1>4, <1>5 DEF SafetyBackup

LEMMA UnwrittenIsSpare == Unwritten => Spare
BY DEF Unwritten, Spare

LEMMA ConfirmIsGood ==
    ASSUME KeptInv, RecoveryInv', NEW p \in Proc, Confirm(p)
    PROVE  Good
<1>1. /\ FilesInv /\ LogsAdd /\ Traces(p) /\ proc[p] \in Process /\ proc[p].at = "confirm"
      /\ Maintained(p)
  BY KeptIsSafe DEF Confirm, At, WellFormed, Repairing
<1>2. /\ Exists /\ ~Corrupt /\ Version = Latest /\ Content(target).rows = Input
      /\ ~proc[p].moved /\ proc[p].safety # None => Secured(p)
      /\ Attached(target.main)
  BY <1>1 DEF Maintained
<1>3. UNCHANGED <<contents, target, quarantine, backups, holder>>
  BY DEF Confirm
<1>4. UNCHANGED <<Exists, Version, Spare, Corrupt>> /\ Content(target)' = Content(target)
  BY <1>3, SameLedger
<1>5. CASE Go(p, [proc[p] EXCEPT !.at = "report", !.verdict = "restored"])
  <2>1. /\ proc'[p].at = "report" /\ SameWork(p) /\ proc'[p].file = proc[p].file
        /\ proc'[p].verdict = "restored"
        /\ \A q \in Proc \ {p} : proc'[q] = proc[q]
    BY <1>1, <1>5 DEF KeptInv, RecoveryInv, Go, Process, SameWork
  <2>2. Steady(p) /\ Traces(p)'
    BY <1>1, <1>3, <2>1, TracesStay, FilesAreCounted DEF Steady, SameWork, contents, Untouched, FilesInv
  <2>3. Told(p)'
    BY <1>2, <1>4, <2>1 DEF Told, SameWork
  <2>4. Kept(p)'
    BY <2>1, <2>3 DEF Kept, Migrating, Maintained, Opening
  <2>. QED BY <1>3, <2>2, <2>4, QuietKept
<1>6. CASE GoTo(p, Undoing(p))
  <2>1. /\ proc'[p].at = Undoing(p) /\ SameWork(p) /\ proc'[p].file = proc[p].file
        /\ \A q \in Proc \ {p} : proc'[q] = proc[q]
    BY <1>6, GoesTo
  <2>2. Undoing(p) \in {"discard", "copyBack", "remove"}
    BY DEF Undoing
  <2>3. Steady(p) /\ Traces(p)'
    BY <1>1, <1>3, <2>1, <2>2, TracesStay, FilesAreCounted
    DEF Steady, SameWork, contents, Untouched, FilesInv
  <2>4. Live(target.main).rows = Input /\ Spare
    BY <1>1, <1>2, LedgerIsRead DEF Spare
  <2>5. CASE Undoing(p) = "copyBack"
    <3>1. Secured(p)
      BY <1>2, <2>5 DEF Undoing
    <3>2. Secured(p)'
      BY <1>3, <2>1, <3>1 DEF Secured, SameWork
    <3>. QED BY <1>2, <1>3, <1>4, <2>1, <2>3, <2>5, <3>2, QuietKept
             DEF Kept, Migrating, Maintained, Opening, SameWork
  <2>6. CASE Undoing(p) # "copyBack"
    <3>1. Kept(p)'
      BY <1>4, <2>1, <2>2, <2>4, <2>6 DEF Kept, Migrating, Maintained, Opening
    <3>. QED BY <1>3, <2>3, <3>1, QuietKept
  <2>. QED BY <2>5, <2>6
<1>. QED BY <1>5, <1>6 DEF Confirm

(* A write that adds no row and takes no version away. *)
LEMMA WriteBystands ==
    ASSUME FilesInv, LogsAdd, NEW f \in FileId, f <= files, NEW db \in Database, Write(f, db),
           db.rows = Live(f).rows, db.version >= Live(f).version,
           Live(f).version = 0 => db.version \in {0, Latest}, UNCHANGED backups
    PROVE  Bystands
<1>1. /\ UNCHANGED <<base, sound, files>> /\ target'.main = target.main
      /\ Exists /\ f = target.main /\ Attached(f) =>
            Content(target)' = db /\ Live(f)' = db /\ Attached(f)' /\ Content(target) = Live(f)
      /\ Exists /\ ~(f = target.main /\ Attached(f)) =>
            /\ Content(target)' = Content(target)
            /\ Live(target.main)' = IF f = target.main THEN db ELSE Live(target.main)
            /\ Attached(target.main) => Attached(target.main)'
      /\ ~Exists => ~Exists'
  BY WriteIsSeen
<1>2. CASE Exists /\ f = target.main /\ Attached(f)
  <2>1. Live(target.main)' = db /\ Attached(target.main)'
    BY <1>1, <1>2 DEF Live, Attached
  <2>. QED BY <1>1, <1>2, <2>1 DEF Bystands
<1>3. CASE Exists /\ ~(f = target.main /\ Attached(f))
  <2>1. Content(target).version \in Nat
    BY <1>3, ContentIsTyped, RecoveryAssumption DEF Database
  <2>. QED BY <1>1, <1>3, <2>1 DEF Bystands
<1>4. CASE ~Exists
  BY <1>1, <1>4 DEF Bystands
<1>. QED BY <1>2, <1>3, <1>4

LEMMA CloseBystands ==
    ASSUME FilesInv, LogsAdd, NEW p \in Proc, proc[p].file \in FileId \cup {None}, Close(p),
           UNCHANGED <<sound, files, backups>>
    PROVE  Bystands
<1>1. /\ target'.main = target.main
      /\ Exists => /\ Content(target)' = Content(target)
                   /\ Live(target.main)' = Live(target.main)
                   /\ Attached(target.main) => Attached(target.main)'
  BY CloseIsNotSeen
<1>2. Exists => Content(target).version \in Nat
  BY ContentIsTyped, RecoveryAssumption DEF Database
<1>. QED BY <1>1, <1>2 DEF Bystands, Exists

LEMMA EnsureIsGood ==
    ASSUME KeptInv, RecoveryInv', NEW p \in Proc, Ensure(p)
    PROVE  Good
<1>1. /\ RecoveryInv /\ FilesInv /\ LogsAdd /\ Traces(p) /\ proc[p] \in Process /\ proc[p].at = "ensure"
      /\ holder = p => Version \in {0, Latest} \/ Covered(Content(target))
      /\ proc[p].prog \in Maintenance => proc[p].moved /\ Unwritten
  BY KeptIsSafe DEF Ensure, At, Maintained, Opening, Kept, Migrating
<1>2. PICK f \in FileId :
         /\ f = IF Exists THEN target.main ELSE files + 1
         /\ files' = IF Exists THEN files ELSE f
         /\ wal' = LogsBeside(f)
         /\ target' = [main |-> f, wal |-> IF target.wal = f THEN f ELSE None]
         /\ Go(p, [proc[p] EXCEPT !.file = f, !.step = Version + 1,
                     !.at = IF Version = 0 THEN "stamp"
                            ELSE IF Version = Latest THEN "check" ELSE "migrate"])
  BY DEF Ensure
<1>3. UNCHANGED <<base, sound, quarantine, backups, holder>>
  BY DEF Ensure
<1>4. /\ LogsAdd' /\ target'.main = f /\ Exists' /\ f <= files' /\ Attached(f)' /\ files <= files'
      /\ Exists => Content(target)' = Content(target)
                   /\ Live(target.main)'.rows \subseteq Live(target.main).rows
      /\ ~Exists => Content(target)' = Empty /\ Live(f)' = Empty /\ sound[f]
  BY <1>1, <1>2, <1>3, EnsureIsSeen
<1>5. Live(target.main)' = Live(f)' /\ Attached(target.main)'
  BY <1>4 DEF Live, Attached
<1>6. /\ proc'[p].at = (IF Version = 0 THEN "stamp"
                        ELSE IF Version = Latest THEN "check" ELSE "migrate")
      /\ proc'[p].file = f /\ proc'[p].step = Version + 1 /\ SameWork(p)
      /\ \A q \in Proc \ {p} : proc'[q] = proc[q]
  BY <1>1, <1>2 DEF KeptInv, RecoveryInv, Go, Process, SameWork
<1>7. Version \in 0 .. Latest /\ Latest \in Nat /\ (Exists => Version = Content(target).version)
  BY <1>1, ContentIsTyped, RecoveryAssumption DEF Version, Database
<1>8. Bystands
  BY <1>2, <1>3, <1>4, <1>5, <1>7 DEF Bystands
<1>9. Steady(p)
  BY <1>3, <1>6 DEF Steady
<1>10. Traces(p)'
  <2>1. quarantine'[p].main # None => quarantine'[p].main <= files'
    BY <1>1, <1>3, <1>4, FilesAreCounted DEF Traces, FilesInv, Bundle, KeptInv, RecoveryInv, FileId
  <2>2. proc'[p].at = "migrate" => proc'[p].step >= 2
    BY <1>6, <1>7
  <2>. QED BY <1>1, <1>3, <1>4, <1>6, <2>1, <2>2 DEF Traces, Untouched, SameWork
<1>11. ASSUME holder = p PROVE Migrating(p)'
  <2>1. ASSUME proc'[p].at = "migrate" PROVE Covered(Content(target))'
    <3>1. Version \notin {0, Latest} /\ Exists
      BY <1>6, <2>1 DEF Version
    <3>. QED BY <1>1, <1>3, <1>4, <1>11, <3>1, CoveredStays DEF Covered
  <2>. QED BY <1>4, <1>5, <1>6, <2>1 DEF Migrating
<1>12. ASSUME proc[p].prog \in Maintenance PROVE Maintained(p)'
  <2>1. Unwritten'
    BY <1>1, <1>8, <1>12, UnwrittenStays
  <2>2. ASSUME Version = Latest PROVE Version' = Latest
    <3>1. Exists
      BY <2>2, RecoveryAssumption DEF Version
    <3>. QED BY <1>4, <1>7, <2>2, <3>1 DEF Version
  <2>. QED BY <1>1, <1>4, <1>5, <1>6, <1>12, <2>1, <2>2 DEF Maintained, Opening, SameWork
<1>13. Kept(p)'
  BY <1>3, <1>6, <1>11, <1>12 DEF Kept, SameWork
<1>14. InMainFiles \subseteq InMainFiles'
  BY <1>1, <1>2, <1>3, <1>4, MainFilesGrow
<1>. QED BY <1>3, <1>4, <1>8, <1>9, <1>10, <1>13, <1>14, KeptStep DEF Good

LEMMA StampIsGood ==
    ASSUME KeptInv, RecoveryInv', NEW p \in Proc, Stamp(p)
    PROVE  Good
<1>1. /\ RecoveryInv /\ FilesInv /\ LogsAdd /\ Traces(p) /\ proc[p] \in Process /\ proc[p].at = "stamp"
      /\ proc[p].file \in FileId /\ proc[p].file # None
      /\ proc[p].prog \in Maintenance =>
           proc[p].moved /\ Unwritten /\ target.main = proc[p].file /\ Attached(target.main)
  BY KeptIsSafe, DatabasesAreTyped DEF Stamp, At, Maintained, Opening, WellFormed, Opened
<1>2. UNCHANGED <<quarantine, backups, holder>>
  BY DEF Stamp
<1>3. CASE GoTo(p, "fail") /\ UNCHANGED <<contents, target>>
  <2>1. /\ proc'[p].at = "fail" /\ SameWork(p) /\ proc'[p].file = proc[p].file
        /\ \A q \in Proc \ {p} : proc'[q] = proc[q]
    BY <1>3, GoesTo
  <2>2. Steady(p) /\ Traces(p)'
    BY <1>1, <1>2, <1>3, <2>1, TracesStay, FilesAreCounted
    DEF Steady, SameWork, contents, Untouched, FilesInv
  <2>3. Unwritten' = Unwritten
    BY <1>3, SameLedger
  <2>4. Kept(p)'
    BY <1>1, <2>1, <2>3 DEF Kept, Migrating, Maintained, Opening, SameWork
  <2>. QED BY <1>2, <1>3, <2>2, <2>4, QuietKept
<1>4. ASSUME NEW f \in FileId, NEW db, NEW stage \in {"check", "fail"},
             f = proc[p].file, Write(f, db), GoTo(p, stage),
             db = Created(Live(f)) \/ (db = Live(f) /\ stage = "fail")
      PROVE  Good
  <2>1. Live(f) \in Database /\ Created(Live(f)) \in Database /\ Created(Live(f)).rows = Live(f).rows
        /\ Created(Live(f)).version = Latest /\ Latest >= Live(f).version /\ Live(f).version \in Nat
    BY <1>1, LiveIsTyped, DatabasesAreTyped, RecoveryAssumption DEF Created, Database
  <2>2. db \in Database /\ db.rows = Live(f).rows /\ db.version >= Live(f).version /\ f <= files
        /\ (Live(f).version = 0 => db.version \in {0, Latest}) /\ (stage = "check" => db.version = Latest)
    BY <1>1, <1>4, <2>1 DEF Traces
  <2>3. Bystands
    BY <1>1, <1>2, <1>4, <2>1, <2>2, WriteBystands
  <2>4. /\ LogsAdd' /\ UNCHANGED <<base, sound, files>> /\ target'.main = target.main
        /\ Exists /\ f = target.main /\ Attached(f) => Content(target)' = db /\ Attached(f)'
    BY <1>1, <1>4, <2>1, <2>2, WriteIsSeen
  <2>5. /\ proc'[p].at = stage /\ SameWork(p) /\ proc'[p].file = f
        /\ \A q \in Proc \ {p} : proc'[q] = proc[q]
    BY <1>4, GoesTo
  <2>6. Steady(p) /\ files <= files'
    BY <1>1, <1>2, <2>4, <2>5, FilesAreCounted DEF Steady
  <2>7. Traces(p)'
    BY <1>1, <1>2, <1>4, <2>5, <2>6, TracesStay DEF SameWork, Untouched
  <2>8. ASSUME proc[p].prog \in Maintenance PROVE Maintained(p)'
    <3>1. Unwritten'
      BY <1>1, <2>3, <2>8, UnwrittenStays
    <3>2. Exists /\ f = target.main /\ Attached(f)
      BY <1>1, <1>4, <2>8 DEF Exists
    <3>3. target'.main = f /\ Attached(target.main)'
      BY <2>4, <3>2 DEF Attached
    <3>4. stage = "check" => Version' = Latest
      BY <1>1, <1>4, <2>2, <2>4, <3>2 DEF Version, Exists
    <3>. QED BY <1>1, <2>5, <2>8, <3>1, <3>3, <3>4 DEF Maintained, Opening, SameWork
  <2>9. Kept(p)'
    BY <2>5, <2>8 DEF Kept, Migrating, SameWork
  <2>10. InMainFiles \subseteq InMainFiles'
    BY <1>1, <1>2, <2>4, MainFilesGrow
  <2>. QED BY <1>2, <2>3, <2>4, <2>6, <2>7, <2>9, <2>10, KeptStep DEF Good
<1>5. CASE GoTo(p, "check") /\ Write(proc[p].file, Created(Live(proc[p].file)))
  BY <1>1, <1>4, <1>5
<1>6. CASE GoTo(p, "fail") /\ \E db \in {Created(Live(proc[p].file)), Live(proc[p].file)} : Write(proc[p].file, db)
  BY <1>1, <1>4, <1>6
<1>. QED BY <1>3, <1>5, <1>6 DEF Stamp

LEMMA MigrateIsGood ==
    ASSUME KeptInv, RecoveryInv', NEW p \in Proc, Migrate(p)
    PROVE  Good
<1>1. /\ RecoveryInv /\ FilesInv /\ LogsAdd /\ Traces(p) /\ proc[p] \in Process /\ proc[p].at = "migrate"
      /\ proc[p].file \in FileId /\ proc[p].file # None /\ proc[p].file <= files
      /\ proc[p].step \in 1 .. Latest /\ proc[p].step >= 2
      /\ holder = p => target.main = proc[p].file /\ Attached(target.main) /\ Covered(Content(target))
      /\ proc[p].prog \in Maintenance =>
           proc[p].moved /\ Unwritten /\ target.main = proc[p].file /\ Attached(target.main)
  BY KeptIsSafe, DatabasesAreTyped
  DEF Migrate, At, Maintained, Opening, WellFormed, Opened, Traces, Kept, Migrating
<1>2. UNCHANGED <<quarantine, backups, holder>>
  BY DEF Migrate
<1>3. CASE Go(p, [proc[p] EXCEPT !.at = "fail"]) /\ UNCHANGED <<contents, target>>
  <2>1. /\ proc'[p].at = "fail" /\ SameWork(p) /\ proc'[p].file = proc[p].file
        /\ \A q \in Proc \ {p} : proc'[q] = proc[q]
    BY <1>3, GoesTo DEF GoTo
  <2>2. Steady(p) /\ Traces(p)'
    BY <1>1, <1>2, <1>3, <2>1, TracesStay, FilesAreCounted
    DEF Steady, SameWork, contents, Untouched, FilesInv
  <2>3. Unwritten' = Unwritten
    BY <1>3, SameLedger
  <2>4. Kept(p)'
    BY <1>1, <2>1, <2>3 DEF Kept, Migrating, Maintained, Opening, SameWork
  <2>. QED BY <1>2, <1>3, <2>2, <2>4, QuietKept
<1>4. ASSUME NEW f \in FileId, NEW step, f = proc[p].file, step = proc[p].step,
             Live(f).version >= step - 1, Write(f, Step(Live(f), step)),
             Go(p, [proc[p] EXCEPT !.step = step + 1, !.at = IF step = Latest THEN "check" ELSE @])
      PROVE  Good
  <2>. DEFINE db == Step(Live(f), step)
  <2>1. Live(f) \in Database /\ Once(Live(f)) /\ db \in Database
    BY <1>1, <1>4, LiveIsTyped, StepKeepsDatabase
  <2>2. /\ db.rows = Live(f).rows /\ db.version >= Live(f).version /\ Live(f).version # 0
        /\ step = Latest => db.version = Latest
    <3>1. Live(f).version \in 0 .. Latest /\ step \in 1 .. Latest /\ Latest \in Nat /\ step >= 2
      BY <1>1, <1>4, <2>1, RecoveryAssumption DEF Database
    <3>2. CASE Live(f).version >= step
      <4>1. db = Live(f)
        BY <3>2 DEF Step
      <4>. QED BY <3>1, <3>2, <4>1
    <3>3. CASE ~(Live(f).version >= step)
      <4>1. db = [rows |-> Live(f).rows, version |-> step, applied |-> Live(f).applied + 1]
        BY <3>3 DEF Step
      <4>2. db.rows = Live(f).rows /\ db.version = step
        BY <4>1
      <4>. QED BY <1>4, <3>1, <3>3, <4>2
    <3>. QED BY <3>2, <3>3
  <2>. HIDE DEF db
  <2>3. f <= files /\ Write(f, db)
    BY <1>1, <1>4 DEF db
  <2>4. Bystands
    BY <1>1, <1>2, <2>1, <2>2, <2>3, WriteBystands
  <2>5. /\ LogsAdd' /\ UNCHANGED <<base, sound, files>> /\ target'.main = target.main
        /\ Exists /\ f = target.main /\ Attached(f) => Content(target)' = db /\ Attached(f)'
    BY <1>1, <2>1, <2>2, <2>3, WriteIsSeen
  <2>6. /\ proc'[p].at = (IF step = Latest THEN "check" ELSE "migrate") /\ SameWork(p)
        /\ proc'[p].file = f /\ proc'[p].step = step + 1
        /\ \A q \in Proc \ {p} : proc'[q] = proc[q]
    BY <1>1, <1>4 DEF KeptInv, RecoveryInv, Go, Process, SameWork
  <2>7. Steady(p) /\ files <= files'
    BY <1>1, <1>2, <2>5, <2>6, FilesAreCounted DEF Steady
  <2>8. Traces(p)'
    <3>1. step + 1 >= 2
      BY <1>1, <1>4
    <3>. QED BY <1>1, <1>2, <1>4, <2>6, <2>7, <3>1, TracesStay DEF SameWork, Untouched
  <2>9. ASSUME Exists, f = target.main, Attached(f)
        PROVE  /\ target'.main = f /\ Attached(target.main)' /\ (step = Latest => Version' = Latest)
               /\ (Covered(Content(target)) => Covered(Content(target))')
    <3>1. target'.main = f /\ Attached(target.main)'
      BY <2>5, <2>9 DEF Attached
    <3>2. Version' = db.version
      BY <2>5, <2>9 DEF Version, Exists
    <3>3. Covered(Content(target)) => Covered(Content(target))'
      BY <1>1, <2>4, <2>5, <2>9, LedgerStaysRead
    <3>. QED BY <2>2, <3>1, <3>2, <3>3
  <2>10. ASSUME holder = p PROVE Migrating(p)'
    <3>1. Exists /\ f = target.main /\ Attached(f) /\ Covered(Content(target))
      BY <1>1, <1>4, <2>10 DEF Exists
    <3>. QED BY <2>6, <2>9, <3>1 DEF Migrating
  <2>11. ASSUME proc[p].prog \in Maintenance PROVE Maintained(p)'
    <3>1. Unwritten'
      BY <1>1, <2>4, <2>11, UnwrittenStays
    <3>2. Exists /\ f = target.main /\ Attached(f) /\ proc[p].moved
      BY <1>1, <1>4, <2>11 DEF Exists
    <3>. QED BY <2>6, <2>9, <2>11, <3>1, <3>2 DEF Maintained, Opening, SameWork
  <2>12. Kept(p)'
    BY <1>2, <2>6, <2>10, <2>11 DEF Kept, SameWork
  <2>13. InMainFiles \subseteq InMainFiles'
    BY <1>1, <1>2, <2>5, MainFilesGrow
  <2>. QED BY <1>2, <2>4, <2>5, <2>7, <2>8, <2>12, <2>13, KeptStep DEF Good
<1>. QED BY <1>1, <1>3, <1>4 DEF Migrate

(* A step that closes the handle of p and leaves the rest of the files alone.     *)
LEMMA ClosingIsGood ==
    ASSUME KeptInv, RecoveryInv', NEW p \in Proc, Close(p), Steady(p),
           UNCHANGED <<sound, files, quarantine>>, backups' = backups, Traces(p)', Kept(p)'
    PROVE  Good
<1>1. FilesInv /\ LogsAdd /\ proc[p].file \in FileId \cup {None}
  BY KeptIsSafe DEF Process
<1>2. LogsAdd' /\ target'.main = target.main /\ \A f \in FileId : base[f].rows \subseteq base'[f].rows
  BY <1>1, CloseIsNotSeen
<1>3. Bystands /\ files <= files'
  BY <1>1, CloseBystands, FilesAreCounted
<1>4. InMainFiles \subseteq InMainFiles'
  BY <1>1, <1>2, MainFilesGrow
<1>. QED BY <1>2, <1>3, <1>4, KeptStep DEF Good

LEMMA FailIsGood ==
    ASSUME KeptInv, RecoveryInv', NEW p \in Proc, Fail(p)
    PROVE  Good
<1>1. /\ RecoveryInv /\ FilesInv /\ LogsAdd /\ Traces(p) /\ proc[p] \in Process /\ proc[p].at = "fail"
      /\ proc[p].prog \in Maintenance => Unwritten
  BY KeptIsSafe DEF Fail, At, Maintained, Opening
<1>2. Close(p) /\ Go(p, Failing(p)) /\ UNCHANGED <<sound, files, quarantine, backups, holder>>
  BY DEF Fail
<1>3. /\ proc'[p].at = (IF Is(p, Maintenance) THEN "discard" ELSE "leave")
      /\ SameWork(p) /\ proc'[p].file = None
      /\ \A q \in Proc \ {p} : proc'[q] = proc[q]
  BY <1>2, GoesToFailing
<1>4. Steady(p) /\ Traces(p)'
  BY <1>1, <1>2, <1>3, TracesStay, FilesAreCounted DEF Steady, SameWork, Untouched, FilesInv
<1>5. Bystands
  BY <1>1, <1>2, CloseBystands DEF Process
<1>6. Unwritten => Spare'
  BY <1>1, <1>5, UnwrittenIsSpare, UnwrittenStays
<1>7. Kept(p)'
  BY <1>1, <1>3, <1>6 DEF Kept, Migrating, Maintained, Opening, SameWork, Is
<1>. QED BY <1>2, <1>4, <1>7, ClosingIsGood

LEMMA CheckIsGood ==
    ASSUME KeptInv, RecoveryInv', NEW p \in Proc, Check(p)
    PROVE  Good
<1>1. /\ RecoveryInv /\ FilesInv /\ LogsAdd /\ Traces(p) /\ proc[p] \in Process /\ proc[p].at = "check"
      /\ proc[p].file \in FileId /\ proc[p].file # None
  BY KeptIsSafe, DatabasesAreTyped DEF Check, At, WellFormed, Opened
<1>2. UNCHANGED <<sound, files, quarantine, backups>>
  BY DEF Check
<1>3. CASE Is(p, Maintenance)
  <2>1. Close(p) /\ UNCHANGED holder
    BY <1>3 DEF Check
  <2>2. proc[p].prog \in Maintenance /\ proc[p].moved /\ Unwritten /\ Version = Latest
        /\ target.main = proc[p].file /\ Attached(target.main)
    BY <1>1, <1>3, KeptIsSafe DEF Is, Maintained, Opening
  <2>3. Exists /\ ~Corrupt /\ Content(target).rows = {}
    BY <1>1, <2>2, LedgerIsRead DEF Exists, Corrupt, Unwritten
  <2>4. Bystands /\ LogsAdd'
    BY <1>1, <1>2, <2>1, CloseBystands, CloseIsNotSeen
  <2>5. Unwritten' /\ Spare' /\ Exists' /\ ~Corrupt' /\ Version' = Latest /\ Content(target)'.rows = {}
    BY <1>1, <2>2, <2>3, <2>4, LedgerStaysRead, UnwrittenStays, UnwrittenIsSpare DEF Bystands
  <2>6. \/ Go(p, [proc[p] EXCEPT !.file = None,
                     !.at = IF Is(p, {"reset"}) THEN "report" ELSE "transfer",
                     !.verdict = IF Is(p, {"reset"}) THEN "fresh" ELSE None])
        \/ Go(p, Failing(p))
        \/ Go(p, Unusable(p))
    BY <1>3 DEF Check
  <2>7. /\ SameWork(p) /\ proc'[p].file = None
        /\ \/ proc'[p].at = "report" /\ proc'[p].verdict \in {"fresh", "unusable"}
           \/ proc'[p].at \in {"transfer", "discard"}
        /\ \A q \in Proc \ {p} : proc'[q] = proc[q]
    <3>1. CASE Go(p, [proc[p] EXCEPT !.file = None,
                         !.at = IF Is(p, {"reset"}) THEN "report" ELSE "transfer",
                         !.verdict = IF Is(p, {"reset"}) THEN "fresh" ELSE None])
      BY <1>1, <3>1 DEF KeptInv, RecoveryInv, Go, Process, SameWork
    <3>2. CASE Go(p, Failing(p))
      BY <1>3, <3>2, GoesToFailing
    <3>3. CASE Go(p, Unusable(p))
      BY <3>3, GoesToUnusable
    <3>. QED BY <2>6, <3>1, <3>2, <3>3
  <2>8. Steady(p) /\ Traces(p)'
    BY <1>1, <1>2, <2>1, <2>7, TracesStay, FilesAreCounted DEF Steady, SameWork, Untouched, FilesInv
  <2>9. Kept(p)'
    <3>1. CASE proc'[p].at = "report"
      <4>1. Told(p)'
        BY <2>5, <2>7, <3>1 DEF Told
      <4>. QED BY <3>1, <4>1 DEF Kept, Migrating, Maintained, Opening
    <3>2. CASE proc'[p].at \in {"transfer", "discard"}
      BY <2>2, <2>5, <2>7, <3>2 DEF Kept, Migrating, Maintained, Opening, SameWork
    <3>. QED BY <2>7, <3>1, <3>2
  <2>. QED BY <1>2, <2>1, <2>8, <2>9, ClosingIsGood
<1>4. CASE ~Is(p, Maintenance)
  <2>1. UNCHANGED <<base, wal, target>>
    BY <1>4 DEF Check
  <2>2. PICK stage \in {"open", "fail"} : GoTo(p, stage) /\ holder' \in {holder, Unlocked(p)}
    BY <1>4 DEF Check
  <2>3. /\ proc'[p].at = stage /\ SameWork(p) /\ proc'[p].file = proc[p].file
        /\ \A q \in Proc \ {p} : proc'[q] = proc[q]
    BY <2>2, GoesTo
  <2>4. Steady(p)
    BY <2>2, <2>3, DatabasesAreTyped DEF Steady, Unlocked
  <2>5. Traces(p)'
    BY <1>1, <1>2, <2>3, TracesStay, FilesAreCounted DEF SameWork, Untouched, FilesInv
  <2>6. Kept(p)'
    BY <1>4, <2>3, NothingToKeep DEF SameWork, Is
  <2>. QED BY <1>2, <2>1, <2>4, <2>5, <2>6, QuietKept DEF contents
<1>. QED BY <1>3, <1>4

LEMMA CommitIsGood ==
    ASSUME KeptInv, RecoveryInv', NEW p \in Proc, Commit(p)
    PROVE  Good
<1>1. /\ RecoveryInv /\ FilesInv /\ LogsAdd /\ Traces(p) /\ proc[p].at = "open"
      /\ proc[p].file \in FileId /\ proc[p].file # None /\ proc[p].file <= files
      /\ proc[p].prog = "collector" /\ holder = p
  BY KeptIsSafe, DatabasesAreTyped DEF Commit, At, Is, WellFormed, Opened, Traces, Owns, Owners
<1>2. PICK f \in FileId : f = proc[p].file /\ Write(f, [Live(f) EXCEPT !.rows = @ \cup {NewRow}])
  BY <1>1 DEF Commit
<1>3. UNCHANGED <<quarantine, backups, holder, proc>>
  BY DEF Commit
<1>. DEFINE db == [Live(f) EXCEPT !.rows = @ \cup {NewRow}]
<1>4. db \in Database /\ Live(f).rows \subseteq db.rows
  BY <1>1, LiveIsTyped, RecoveryAssumption DEF Database
<1>5. LogsAdd' /\ UNCHANGED <<base, sound, files>> /\ target'.main = target.main
  <2>1. f <= files /\ Write(f, db)
    BY <1>1, <1>2
  <2>. HIDE DEF db
  <2>. QED BY <1>1, <1>4, <2>1, WriteIsSeen
<1>6. Steady(p) /\ Traces(p)' /\ files <= files'
  BY <1>1, <1>3, <1>5, FilesAreCounted DEF Steady, Traces
<1>7. Kept(p)'
  BY <1>1, <1>3, NothingToKeep
<1>8. InMainFiles \subseteq InMainFiles'
  BY <1>1, <1>3, <1>5, MainFilesGrow
<1>. QED BY <1>1, <1>3, <1>5, <1>6, <1>7, <1>8, KeptStep DEF Good

LEMMA FinishIsGood ==
    ASSUME KeptInv, RecoveryInv', NEW p \in Proc, Finish(p)
    PROVE  Good
<1>1. Traces(p) /\ FilesInv /\ proc[p] \in Process
  BY KeptIsSafe
<1>2. /\ Close(p) /\ Go(p, [proc[p] EXCEPT !.at = "done", !.file = None])
      /\ holder' = Unlocked(p) /\ UNCHANGED <<sound, files, quarantine, backups>>
  BY DEF Finish
<1>3. proc'[p].at = "done" /\ proc'[p].file = None /\ \A q \in Proc \ {p} : proc'[q] = proc[q]
  BY <1>1, <1>2 DEF KeptInv, RecoveryInv, Go, Process
<1>4. Steady(p)
  BY <1>2, <1>3, DatabasesAreTyped DEF Steady, Unlocked
<1>5. Traces(p)'
  BY <1>1, <1>2, <1>3 DEF Traces, Untouched
<1>6. Kept(p)'
  BY <1>3, NothingToKeep
<1>. QED BY <1>2, <1>4, <1>5, <1>6, ClosingIsGood

LEMMA RowIsInMainFilesNext ==
    ASSUME NEW row
    PROVE  row \in InMainFiles' <=>
              \/ row \in Copies'
              \/ Exists' /\ row \in base'[target'.main].rows
              \/ \E q \in Proc : quarantine'[q].main # None /\ row \in base'[quarantine'[q].main].rows
<1>1. (row \in InMainFiles <=>
              \/ row \in Copies
              \/ Exists /\ row \in base[target.main].rows
              \/ \E q \in Proc : quarantine[q].main # None /\ row \in base[quarantine[q].main].rows)'
  BY RowIsInMainFiles, PTL
<1>. QED BY <1>1

LEMMA BackupsAreCopies ==
    /\ Input \subseteq Copies
    /\ \A db \in backups : db.rows \subseteq Copies
BY DEF Copies

(* A ledger whose rows are all copied may be replaced. *)
LEMMA ReplaceKeepsRows ==
    ASSUME KeptInv, NEW db \in Database, Replace(db), UNCHANGED <<quarantine, backups>>,
           Exists => Content(target).rows \subseteq Copies
    PROVE  InMainFiles \subseteq InMainFiles'
<1>1. FilesInv /\ LogsAdd /\ \A q \in Proc : Traces(q)
  BY DEF KeptInv, RecoveryInv
<1>2. /\ Exists => target'.main = target.main
      /\ \A f \in FileId : f # target'.main => base'[f] = base[f]
      /\ ~Exists => target'.main > files
  BY <1>1, ReplaceIsSeen
<1>3. Exists => base[target.main].rows \subseteq Copies
  BY <1>1, LedgerIsRead
<1>4. Copies \subseteq Copies'
  BY CopiesGrow
<1>5. ASSUME NEW row, row \in InMainFiles PROVE row \in InMainFiles'
  <2>1. CASE row \in Copies
    BY <1>4, <2>1, RowIsInMainFilesNext
  <2>2. CASE Exists /\ row \in base[target.main].rows
    BY <1>3, <1>4, <2>2, RowIsInMainFilesNext
  <2>3. ASSUME NEW q \in Proc, quarantine[q].main # None, row \in base[quarantine[q].main].rows
        PROVE  row \in InMainFiles'
    <3>1. quarantine[q].main \in FileId /\ quarantine[q].main <= files
      BY <1>1, <2>3 DEF FilesInv, Bundle, Traces
    <3>2. CASE quarantine[q].main = target'.main
      <4>1. Exists
        BY <1>1, <1>2, <3>1, <3>2, FilesAreCounted
      <4>. QED BY <1>2, <1>3, <1>4, <2>3, <3>2, <4>1, RowIsInMainFilesNext
    <3>3. CASE quarantine[q].main # target'.main
      <4>1. quarantine'[q].main # None /\ row \in base'[quarantine'[q].main].rows
        BY <1>2, <2>3, <3>1, <3>3
      <4>. QED BY <4>1, RowIsInMainFilesNext
    <3>. QED BY <3>2, <3>3
  <2>. QED BY <1>5, <2>1, <2>2, <2>3, RowIsInMainFiles
<1>. QED BY <1>5

(* What a step of the lock's holder has to show. *)
LEMMA HolderIsGood ==
    ASSUME KeptInv, RecoveryInv', NEW p \in Proc, holder = p, UNCHANGED holder, LogsAdd',
           files <= files', \A q \in Proc \ {p} : proc'[q] = proc[q],
           \A q \in Proc \ {p} : quarantine'[q].main = quarantine[q].main,
           Traces(p)', Kept(p)', InMainFiles \subseteq InMainFiles'
    PROVE  Good
BY KeptStep DEF Good, Steady

LEMMA TransferIsGood ==
    ASSUME KeptInv, RecoveryInv', NEW p \in Proc, Transfer(p)
    PROVE  Good
<1>. DEFINE copied == ~proc[p].moved /\ proc[p].safety # None
<1>1. /\ FilesInv /\ LogsAdd /\ Traces(p) /\ proc[p] \in Process /\ proc[p].at = "transfer"
      /\ holder = p /\ Maintained(p)
  BY KeptIsSafe DEF Transfer, At, WellFormed, Repairing
<1>2. /\ ~copied => Unwritten
      /\ copied => Exists /\ Content(target).rows = proc[p].safety.rows /\ Secured(p)
  BY <1>1 DEF Maintained
<1>3. UNCHANGED <<quarantine, backups, holder>>
  BY DEF Transfer
<1>4. CASE Replace(Snapshot) /\ GoTo(p, "confirm")
  <2>1. /\ proc'[p].at = "confirm" /\ SameWork(p) /\ proc'[p].file = proc[p].file
        /\ \A q \in Proc \ {p} : proc'[q] = proc[q]
    BY <1>4, GoesTo
  <2>2. /\ LogsAdd' /\ Exists' /\ ~Corrupt' /\ Content(target)' = Snapshot /\ Attached(target.main)'
        /\ files <= files'
    BY <1>1, <1>4, ReplaceIsSeen, DatabasesAreTyped
  <2>3. Traces(p)'
    BY <1>1, <1>3, <2>1, <2>2, TracesStay DEF SameWork, Untouched
  <2>4. Snapshot.rows = Input /\ Snapshot.version = Latest
    BY DEF Snapshot, Created, Empty
  <2>5. Version' = Latest
    BY <2>2, <2>4 DEF Version
  <2>6. copied => Secured(p)'
    BY <1>2, <1>3, <2>1 DEF Secured, SameWork
  <2>7. Kept(p)'
    BY <2>1, <2>2, <2>4, <2>5, <2>6 DEF Kept, Migrating, Maintained, Opening, SameWork
  <2>8. Exists => Content(target).rows \subseteq Copies
    <3>1. CASE copied
      BY <1>2, <3>1, BackupsAreCopies DEF Secured
    <3>2. CASE ~copied
      BY <1>1, <1>2, <3>2, LedgerIsRead DEF Unwritten
    <3>. QED BY <3>1, <3>2
  <2>9. InMainFiles \subseteq InMainFiles'
    BY <1>3, <1>4, <2>8, ReplaceKeepsRows, DatabasesAreTyped
  <2>. QED BY <1>1, <1>3, <2>1, <2>2, <2>3, <2>7, <2>9, HolderIsGood
<1>5. CASE GoTo(p, Undoing(p)) /\ UNCHANGED <<contents, target>>
  <2>1. /\ proc'[p].at = Undoing(p) /\ SameWork(p) /\ proc'[p].file = proc[p].file
        /\ \A q \in Proc \ {p} : proc'[q] = proc[q]
    BY <1>5, GoesTo
  <2>2. Undoing(p) = IF proc[p].moved THEN "discard" ELSE IF copied THEN "copyBack" ELSE "remove"
    BY DEF Undoing
  <2>3. Steady(p) /\ Traces(p)'
    BY <1>1, <1>3, <1>5, <2>1, <2>2, TracesStay, FilesAreCounted
    DEF Steady, SameWork, contents, Untouched, FilesInv
  <2>4. UNCHANGED <<Exists, Spare>> /\ Content(target)' = Content(target)
    BY <1>5, SameLedger
  <2>5. Kept(p)'
    <3>1. CASE copied
      <4>1. Secured(p)' /\ Exists' /\ Content(target)'.rows \subseteq proc'[p].safety.rows \cup Input
        BY <1>2, <1>3, <2>1, <2>4, <3>1 DEF Secured, SameWork
      <4>. QED BY <2>1, <2>2, <3>1, <4>1 DEF Kept, Migrating, Maintained, Opening
    <3>2. CASE ~copied
      <4>1. Spare'
        BY <1>2, <2>4, <3>2, UnwrittenIsSpare
      <4>2. Undoing(p) \in {"discard", "remove"}
        BY <2>2, <3>2
      <4>. QED BY <2>1, <4>1, <4>2 DEF Kept, Migrating, Maintained, Opening
    <3>. QED BY <3>1, <3>2
  <2>. QED BY <1>3, <1>5, <2>3, <2>5, QuietKept
<1>. QED BY <1>4, <1>5 DEF Transfer

LEMMA CopyBackIsGood ==
    ASSUME KeptInv, RecoveryInv', NEW p \in Proc, CopyBack(p)
    PROVE  Good
<1>1. /\ FilesInv /\ LogsAdd /\ Traces(p) /\ proc[p] \in Process /\ proc[p].at = "copyBack"
      /\ holder = p /\ Maintained(p) /\ proc[p].safety # None
  BY KeptIsSafe DEF CopyBack, At, WellFormed, Repairing
<1>2. /\ Secured(p) /\ Exists /\ Content(target).rows \subseteq proc[p].safety.rows \cup Input
      /\ proc[p].safety \in Database
  BY <1>1 DEF Maintained, Process
<1>3. UNCHANGED <<quarantine, backups, holder>>
  BY DEF CopyBack
<1>4. PICK verdict \in {"kept", "unusable"} :
         /\ proc'[p].at = "report" /\ SameWork(p) /\ proc'[p].file = None
         /\ proc'[p].verdict = verdict
         /\ verdict = "kept" => Replace(proc[p].safety) /\ Usable(proc[p].safety)
         /\ \A q \in Proc \ {p} : proc'[q] = proc[q]
  <2>1. CASE Go(p, Unusable(p))
    BY <2>1, GoesToUnusable
  <2>2. CASE /\ Replace(proc[p].safety) /\ Usable(proc[p].safety)
             /\ Go(p, [Unusable(p) EXCEPT !.verdict = "kept"])
    <3>1. /\ proc'[p].at = "report" /\ SameWork(p) /\ proc'[p].file = None
          /\ proc'[p].verdict = "kept" /\ \A q \in Proc \ {p} : proc'[q] = proc[q]
      BY <1>1, <2>2 DEF KeptInv, RecoveryInv, Go, Process, SameWork, Unusable
    <3>. QED BY <2>2, <3>1
  <2>. QED BY <2>1, <2>2 DEF CopyBack
<1>5. CASE Replace(proc[p].safety)
  <2>1. /\ LogsAdd' /\ Exists' /\ ~Corrupt' /\ Content(target)' = proc[p].safety
        /\ files <= files'
    BY <1>1, <1>2, <1>5, ReplaceIsSeen
  <2>2. Traces(p)'
    BY <1>1, <1>3, <1>4, <2>1, TracesStay DEF SameWork, Untouched
  <2>3. Told(p)'
    BY <1>2, <1>4, <2>1 DEF Told, Version, Usable, Secured, SameWork
  <2>4. Kept(p)'
    BY <1>4, <2>3 DEF Kept, Migrating, Maintained, Opening
  <2>5. Content(target).rows \subseteq Copies
    BY <1>2, BackupsAreCopies DEF Secured
  <2>6. InMainFiles \subseteq InMainFiles'
    BY <1>2, <1>3, <1>5, <2>5, ReplaceKeepsRows
  <2>. QED BY <1>1, <1>3, <1>4, <2>1, <2>2, <2>4, <2>6, HolderIsGood
<1>6. CASE verdict = "unusable" /\ UNCHANGED <<contents, target>>
  <2>1. Steady(p) /\ Traces(p)'
    BY <1>1, <1>3, <1>4, <1>6, TracesStay, FilesAreCounted
    DEF Steady, SameWork, contents, Untouched, FilesInv
  <2>2. Kept(p)'
    BY <1>4, <1>6 DEF Kept, Migrating, Maintained, Opening, Told
  <2>. QED BY <1>3, <1>6, <2>1, <2>2, QuietKept
<1>. QED BY <1>4, <1>5, <1>6 DEF CopyBack

(* Nothing is lost with a ledger that only stood in the way. *)
LEMMA LedgerIsRemoved ==
    ASSUME KeptInv, Spare, UNCHANGED <<contents, quarantine, backups>>, target' = Nowhere
    PROVE  LogsAdd' /\ ~Exists' /\ files <= files' /\ InMainFiles \subseteq InMainFiles'
<1>1. FilesInv /\ LogsAdd
  BY DEF KeptInv, RecoveryInv
<1>2. LogsAdd' /\ ~Exists'
  BY <1>1 DEF LogsAdd, Exists, Nowhere, contents
<1>3. files <= files'
  BY <1>1, FilesAreCounted DEF contents
<1>4. Exists => base[target.main].rows \subseteq Copies
  BY <1>1, LedgerIsRead, BackupsAreCopies DEF Spare
<1>5. Copies \subseteq Copies' /\ UNCHANGED <<base, quarantine>>
  BY CopiesGrow DEF contents
<1>6. ASSUME NEW row, row \in InMainFiles PROVE row \in InMainFiles'
  BY <1>4, <1>5, <1>6, RowIsInMainFiles, RowIsInMainFilesNext
<1>. QED BY <1>2, <1>3, <1>6

LEMMA RemoveIsGood ==
    ASSUME KeptInv, RecoveryInv', NEW p \in Proc, Remove(p)
    PROVE  Good
<1>1. /\ FilesInv /\ Traces(p) /\ proc[p] \in Process /\ proc[p].at = "remove" /\ holder = p /\ Spare
  BY KeptIsSafe DEF Remove, At, WellFormed, Repairing, Maintained
<1>2. /\ target' = Nowhere /\ UNCHANGED <<contents, quarantine, backups, holder>>
      /\ Go(p, Unusable(p))
  BY DEF Remove
<1>3. /\ proc'[p].at = "report" /\ SameWork(p) /\ proc'[p].file = None
      /\ proc'[p].verdict = "unusable" /\ \A q \in Proc \ {p} : proc'[q] = proc[q]
  BY <1>2, GoesToUnusable
<1>4. LogsAdd' /\ files <= files' /\ InMainFiles \subseteq InMainFiles'
  BY <1>1, <1>2, LedgerIsRemoved
<1>5. Traces(p)'
  BY <1>1, <1>2, <1>3, <1>4, TracesStay DEF SameWork, Untouched
<1>6. Kept(p)'
  BY <1>3 DEF Kept, Migrating, Maintained, Opening, Told
<1>. QED BY <1>1, <1>2, <1>3, <1>4, <1>5, <1>6, HolderIsGood

LEMMA DiscardIsGood ==
    ASSUME KeptInv, RecoveryInv', NEW p \in Proc, Discard(p)
    PROVE  Good
<1>1. /\ FilesInv /\ Traces(p) /\ proc[p] \in Process /\ proc[p].at = "discard" /\ holder = p /\ Spare
  BY KeptIsSafe DEF Discard, At, WellFormed, Repairing, Maintained
<1>2. /\ target' = Nowhere /\ UNCHANGED <<contents, quarantine, backups, holder>>
      /\ GoTo(p, "moveLogBack")
  BY DEF Discard
<1>3. /\ proc'[p].at = "moveLogBack" /\ SameWork(p) /\ proc'[p].file = proc[p].file
      /\ \A q \in Proc \ {p} : proc'[q] = proc[q]
  BY <1>2, GoesTo
<1>4. LogsAdd' /\ ~Exists' /\ files <= files' /\ InMainFiles \subseteq InMainFiles'
  BY <1>1, <1>2, LedgerIsRemoved
<1>5. Traces(p)'
  BY <1>1, <1>2, <1>3, <1>4, TracesStay DEF SameWork, Untouched
<1>6. Spare'
  BY <1>4 DEF Spare
<1>7. Kept(p)'
  BY <1>3, <1>6 DEF Kept, Migrating, Maintained, Opening
<1>. QED BY <1>1, <1>2, <1>3, <1>4, <1>5, <1>7, HolderIsGood

LEMMA MoveMainIsGood ==
    ASSUME KeptInv, RecoveryInv', NEW p \in Proc, MoveMain(p)
    PROVE  Good
<1>1. /\ FilesInv /\ LogsAdd /\ Traces(p) /\ proc[p] \in Process /\ proc[p].at = "moveMain"
      /\ holder = p /\ ~proc[p].moved /\ quarantine[p].main = None
  BY KeptIsSafe DEF MoveMain, At, WellFormed, Repairing, Traces, Untouched
<1>2. UNCHANGED <<contents, backups, holder>>
  BY DEF MoveMain
<1>3. CASE /\ Exists /\ quarantine' = [quarantine EXCEPT ![p].main = target.main]
           /\ target' = [target EXCEPT !.main = None]
           /\ Go(p, [proc[p] EXCEPT !.at = "moveLog", !.moved = TRUE, !.log = target.wal # None])
  <2>1. /\ proc'[p].at = "moveLog" /\ proc'[p].moved /\ proc'[p].file = proc[p].file
        /\ proc'[p].safety = proc[p].safety
        /\ \A q \in Proc \ {p} : proc'[q] = proc[q]
    BY <1>1, <1>3 DEF KeptInv, RecoveryInv, Go, Process
  <2>2. /\ quarantine'[p].main = target.main
        /\ \A q \in Proc \ {p} : quarantine'[q].main = quarantine[q].main
        /\ target.main # None /\ target'.main = None
    BY <1>1, <1>3 DEF FilesInv, Bundle, Exists
  <2>3. LogsAdd' /\ ~Exists'
    BY <1>1, <1>2, <2>2 DEF LogsAdd, Exists, contents
  <2>4. Unwritten'
    BY <2>3 DEF Unwritten
  <2>5. files <= files'
    BY <1>1, <1>2, FilesAreCounted DEF contents
  <2>6. Traces(p)'
    BY <1>1, <1>2, <1>3, <2>1, <2>2 DEF Traces, Untouched, LogsAdd, contents
  <2>7. Kept(p)'
    BY <2>1, <2>4 DEF Kept, Migrating, Maintained, Opening
  <2>8. ASSUME NEW row, row \in InMainFiles PROVE row \in InMainFiles'
    <3>1. Copies \subseteq Copies' /\ UNCHANGED base
      BY <1>2, CopiesGrow DEF contents
    <3>2. \/ row \in Copies
          \/ Exists /\ row \in base[target.main].rows
          \/ \E q \in Proc \ {p} : quarantine[q].main # None /\ row \in base[quarantine[q].main].rows
      BY <1>1, <2>8, RowIsInMainFiles
    <3>. QED BY <2>2, <3>1, <3>2, RowIsInMainFilesNext
  <2>. QED BY <1>1, <1>2, <2>1, <2>2, <2>3, <2>5, <2>6, <2>7, <2>8, HolderIsGood
<1>4. CASE Go(p, Unusable(p)) /\ UNCHANGED <<target, quarantine>>
  <2>1. /\ proc'[p].at = "report" /\ SameWork(p) /\ proc'[p].file = None
        /\ proc'[p].verdict = "unusable" /\ \A q \in Proc \ {p} : proc'[q] = proc[q]
    BY <1>4, GoesToUnusable
  <2>2. Steady(p) /\ Traces(p)'
    BY <1>1, <1>2, <1>4, <2>1, TracesStay, FilesAreCounted
    DEF Steady, SameWork, contents, Untouched, FilesInv
  <2>3. Kept(p)'
    BY <2>1 DEF Kept, Migrating, Maintained, Opening, Told
  <2>. QED BY <1>2, <1>4, <2>2, <2>3, QuietKept
<1>. QED BY <1>3, <1>4 DEF MoveMain

(* A log that is moved is still the log of its inode. *)
LEMMA LogIsMoved ==
    ASSUME KeptInv, UNCHANGED <<contents, backups>>, target'.main = target.main,
           \A q \in Proc : quarantine'[q].main = quarantine[q].main
    PROVE  /\ LogsAdd' /\ files <= files' /\ InMainFiles \subseteq InMainFiles'
           /\ UNCHANGED <<Unwritten, Spare>>
<1>1. FilesInv /\ LogsAdd
  BY DEF KeptInv, RecoveryInv
<1>2. LogsAdd' /\ UNCHANGED <<Unwritten, Spare>>
  BY <1>1 DEF LogsAdd, Exists, Unwritten, Spare, Live, contents
<1>3. files <= files'
  BY <1>1, FilesAreCounted DEF contents
<1>4. InMainFiles \subseteq InMainFiles'
  BY <1>1, MainFilesGrow DEF contents
<1>. QED BY <1>2, <1>3, <1>4

LEMMA MoveLogIsGood ==
    ASSUME KeptInv, RecoveryInv', NEW p \in Proc, MoveLog(p)
    PROVE  Good
<1>1. /\ FilesInv /\ LogsAdd /\ Traces(p) /\ proc[p] \in Process /\ proc[p].at = "moveLog"
      /\ holder = p /\ proc[p].moved /\ Unwritten
  BY KeptIsSafe DEF MoveLog, At, WellFormed, Repairing, Maintained, Opening
<1>2. UNCHANGED <<contents, backups, holder>>
  BY DEF MoveLog
<1>3. PICK stage \in {"prepare", "moveLogBack", "moveMainBack"} : GoTo(p, stage)
  BY DEF MoveLog
<1>4. /\ proc'[p].at = stage /\ SameWork(p) /\ proc'[p].file = proc[p].file
      /\ \A q \in Proc \ {p} : proc'[q] = proc[q]
  BY <1>3, GoesTo
<1>5. target'.main = target.main /\ \A q \in Proc : quarantine'[q].main = quarantine[q].main
  BY <1>1 DEF MoveLog, FilesInv, Bundle
<1>6. LogsAdd' /\ files <= files' /\ InMainFiles \subseteq InMainFiles' /\ Unwritten' /\ Spare'
  <2>1. LogsAdd' /\ files <= files' /\ InMainFiles \subseteq InMainFiles' /\ UNCHANGED <<Unwritten, Spare>>
    BY <1>2, <1>5, LogIsMoved
  <2>. QED BY <1>1, <2>1, UnwrittenIsSpare
<1>7. Traces(p)'
  BY <1>1, <1>4, <1>5, <1>6, TracesStay DEF SameWork, Untouched
<1>8. Kept(p)'
  BY <1>1, <1>4, <1>6 DEF Kept, Migrating, Maintained, Opening, SameWork
<1>. QED BY <1>1, <1>2, <1>4, <1>5, <1>6, <1>7, <1>8, HolderIsGood

LEMMA MoveLogBackIsGood ==
    ASSUME KeptInv, RecoveryInv', NEW p \in Proc, MoveLogBack(p)
    PROVE  Good
<1>1. /\ FilesInv /\ LogsAdd /\ Traces(p) /\ proc[p] \in Process /\ proc[p].at = "moveLogBack"
      /\ holder = p /\ Spare
  BY KeptIsSafe DEF MoveLogBack, At, WellFormed, Repairing, Maintained, Opening
<1>2. UNCHANGED <<contents, backups, holder>> /\ GoTo(p, "moveMainBack")
  BY DEF MoveLogBack
<1>3. /\ proc'[p].at = "moveMainBack" /\ SameWork(p) /\ proc'[p].file = proc[p].file
      /\ \A q \in Proc \ {p} : proc'[q] = proc[q]
  BY <1>2, GoesTo
<1>4. target'.main = target.main /\ \A q \in Proc : quarantine'[q].main = quarantine[q].main
  BY <1>1 DEF MoveLogBack, FilesInv, Bundle
<1>5. LogsAdd' /\ files <= files' /\ InMainFiles \subseteq InMainFiles' /\ Spare'
  BY <1>1, <1>2, <1>4, LogIsMoved
<1>6. Traces(p)'
  BY <1>1, <1>3, <1>4, <1>5, TracesStay DEF SameWork, Untouched
<1>7. Kept(p)'
  BY <1>3, <1>5 DEF Kept, Migrating, Maintained, Opening
<1>. QED BY <1>1, <1>2, <1>3, <1>4, <1>5, <1>6, <1>7, HolderIsGood

LEMMA MoveMainBackIsGood ==
    ASSUME KeptInv, RecoveryInv', NEW p \in Proc, MoveMainBack(p)
    PROVE  Good
<1>1. /\ FilesInv /\ LogsAdd /\ Traces(p) /\ proc[p] \in Process /\ proc[p].at = "moveMainBack"
      /\ holder = p /\ Spare
  BY KeptIsSafe DEF MoveMainBack, At, WellFormed, Repairing, Maintained, Opening
<1>2. UNCHANGED <<contents, backups, holder>> /\ Go(p, Unusable(p))
  BY DEF MoveMainBack
<1>3. /\ proc'[p].at = "report" /\ SameWork(p) /\ proc'[p].file = None
      /\ proc'[p].verdict = "unusable" /\ \A q \in Proc \ {p} : proc'[q] = proc[q]
  BY <1>2, GoesToUnusable
<1>4. Kept(p)'
  BY <1>3 DEF Kept, Migrating, Maintained, Opening, Told
<1>5. CASE /\ target' = [target EXCEPT !.main = quarantine[p].main]
           /\ quarantine' = [quarantine EXCEPT ![p].main = None]
  <2>1. /\ target'.main = quarantine[p].main /\ quarantine'[p].main = None
        /\ \A q \in Proc \ {p} : quarantine'[q].main = quarantine[q].main
    BY <1>1, <1>5 DEF FilesInv, Bundle
  <2>2. LogsAdd' /\ (Exists' <=> quarantine[p].main # None)
    BY <1>1, <1>2, <2>1 DEF LogsAdd, Exists, Traces, contents
  <2>3. files <= files'
    BY <1>1, <1>2, FilesAreCounted DEF contents
  <2>4. Traces(p)'
    BY <1>1, <1>2, <1>3, <2>1 DEF Traces, Untouched, contents
  <2>5. Exists => base[target.main].rows \subseteq Copies
    BY <1>1, LedgerIsRead, BackupsAreCopies DEF Spare
  <2>6. ASSUME NEW row, row \in InMainFiles PROVE row \in InMainFiles'
    <3>1. Copies \subseteq Copies' /\ UNCHANGED base
      BY <1>2, CopiesGrow DEF contents
    <3>2. \/ row \in Copies
          \/ \E q \in Proc : quarantine[q].main # None /\ row \in base[quarantine[q].main].rows
      BY <2>5, <2>6, RowIsInMainFiles
    <3>3. ASSUME NEW q \in Proc, quarantine[q].main # None, row \in base[quarantine[q].main].rows
          PROVE  row \in InMainFiles'
      <4>1. CASE q = p
        BY <2>1, <2>2, <3>1, <3>3, <4>1, RowIsInMainFilesNext
      <4>2. CASE q # p
        BY <2>1, <3>1, <3>3, <4>2, RowIsInMainFilesNext
      <4>. QED BY <4>1, <4>2
    <3>4. CASE row \in Copies
      BY <3>1, <3>4, RowIsInMainFilesNext
    <3>. QED BY <3>2, <3>3, <3>4
  <2>. QED BY <1>1, <1>2, <1>3, <1>4, <2>1, <2>2, <2>3, <2>4, <2>6, HolderIsGood
<1>6. CASE UNCHANGED <<target, quarantine>>
  <2>1. Steady(p) /\ Traces(p)'
    BY <1>1, <1>2, <1>3, <1>6, TracesStay, FilesAreCounted
    DEF Steady, SameWork, contents, Untouched, FilesInv
  <2>. QED BY <1>2, <1>4, <1>6, <2>1, QuietKept
<1>. QED BY <1>5, <1>6 DEF MoveMainBack

-----------------------------------------------------------------------------
(* The invariant of what the holder relies on, and what follows from it *)

LEMMA InitIsKept ==
    ASSUME Init
    PROVE  KeptInv
<1>1. RecoveryInv /\ FilesInv
  BY InitKeepsInv DEF RecoveryInv
<1>2. PICK t \in Targets :
          /\ base = [f \in FileId |-> IF f = 1 /\ t.main # None THEN t.main ELSE Empty]
          /\ wal = [f \in FileId |-> IF f = 1 THEN t.wal ELSE None]
          /\ target = [main |-> IF t.main = None THEN None ELSE 1,
                       wal |-> IF t.wal = None THEN None ELSE 1]
  BY DEF Init
<1>3. /\ quarantine = [p \in Proc |-> Nowhere] /\ proc = [p \in Proc |-> Idle]
      /\ files = 1 /\ holder = None
  BY DEF Init
<1>4. t.wal # None => t.main # None /\ t.main.rows \subseteq t.wal.rows
  BY RecoveryAssumption
<1>5. LogsAdd
  <2>1. \A f \in FileId : wal[f] # None => base[f].rows \subseteq wal[f].rows
    BY <1>2, <1>4
  <2>2. \A f \in FileId : f > files => f # 1
    BY <1>3, FilesAreCounted, <1>1
  <2>3. \A f \in FileId : f > files => base[f] = Empty /\ wal[f] = None
    BY <1>2, <2>2
  <2>4. Exists => target.main <= files
    BY <1>2, <1>3 DEF Exists
  <2>. QED BY <2>1, <2>3, <2>4 DEF LogsAdd
<1>6. ASSUME NEW p \in Proc PROVE Traces(p) /\ Kept(p)
  BY <1>3, <1>6, DatabasesAreTyped DEF Traces, Kept, Nowhere, Idle, Untouched
<1>. QED BY <1>1, <1>5, <1>6 DEF KeptInv

LEMMA StepIsGood ==
    ASSUME KeptInv, [Next]_vars
    PROVE  Good
<1>1. RecoveryInv'
  BY StepKeepsInv DEF KeptInv
<1>2. ASSUME NEW p \in Proc, NEW prog \in Program, Start(p, prog) PROVE Good
  BY <1>1, <1>2, StartIsGood
<1>3. ASSUME NEW p \in Proc,
             \/ Take(p) \/ TakeHeld(p) \/ Gate(p) \/ Prepare(p) \/ Ensure(p) \/ Stamp(p)
             \/ Migrate(p) \/ Fail(p) \/ Check(p) \/ Commit(p) \/ Finish(p)
      PROVE  Good
  BY <1>1, <1>3, TakeIsGood, TakeHeldIsGood, GateIsGood, PrepareIsGood, EnsureIsGood,
     StampIsGood, MigrateIsGood, FailIsGood, CheckIsGood, CommitIsGood, FinishIsGood
<1>4. ASSUME NEW p \in Proc,
             \/ Verify(p) \/ SafetyBackup(p) \/ Transfer(p) \/ Confirm(p) \/ CopyBack(p) \/ Remove(p)
             \/ MoveMain(p) \/ MoveLog(p) \/ Discard(p) \/ MoveLogBack(p) \/ MoveMainBack(p)
             \/ Report(p) \/ Crash(p)
      PROVE  Good
  BY <1>1, <1>4, VerifyIsGood, SafetyBackupIsGood, TransferIsGood, ConfirmIsGood, CopyBackIsGood,
     RemoveIsGood, MoveMainIsGood, MoveLogIsGood, DiscardIsGood, MoveLogBackIsGood,
     MoveMainBackIsGood, ReportIsGood, CrashIsGood
<1>5. CASE UNCHANGED vars
  <2>1. UNCHANGED <<contents, target, quarantine, backups, holder, proc>>
    BY <1>5 DEF vars, contents
  <2>2. FilesInv /\ LogsAdd /\ LogsAdd'
    BY <2>1, SameLedger DEF KeptInv, RecoveryInv
  <2>3. ASSUME NEW p \in Proc PROVE Traces(p)' /\ Kept(p)'
    <3>1. Traces(p) /\ Kept(p)
      BY DEF KeptInv
    <3>2. Traces(p)'
      BY <2>1, <3>1 DEF Traces, contents
    <3>3. Bystands
      <4>1. Exists => Content(target).version \in Nat
        BY <2>2, RecoveryAssumption, ContentIsTyped DEF Database
      <4>. QED BY <2>1, <4>1, SameLedger DEF Bystands, contents
    <3>4. Kept(p)'
      BY <1>1, <2>1, <2>2, <3>3, KeptStays
    <3>. QED BY <3>2, <3>4
  <2>4. InMainFiles \subseteq InMainFiles'
    BY <2>1, <2>2, MainFilesGrow DEF contents
  <2>. QED BY <1>1, <2>2, <2>3, <2>4 DEF Good, KeptInv
<1>. QED BY <1>2, <1>3, <1>4, <1>5 DEF Next

LEMMA KeptInvHolds == Spec => []KeptInv
<1>1. Init => KeptInv
  BY InitIsKept
<1>2. KeptInv /\ [Next]_vars => KeptInv'
  BY StepIsGood DEF Good
<1>. QED BY <1>1, <1>2, PTL DEF Spec

(* No row that is in a main file at the ledger's path or in a quarantine, or in a   *)
(* backup, is ever lost to both: a restore that replaces the ledger has copied it   *)
(* first, what it discards or removes nobody has written to, a quarantine only      *)
(* moves it, and a migration adds to it (applyRestore, rollbackFailedRestore,       *)
(* quarantine), in whatever order the processes run, fail and are killed.           *)
THEOREM MainFilesAreKept == Spec => MainFilesKept
<1>1. KeptInv /\ [Next]_vars => InMainFiles \subseteq InMainFiles'
  BY StepIsGood DEF Good
<1>. QED BY <1>1, KeptInvHolds, PTL DEF Spec, MainFilesKept

(* Every schema step that the holder of the collection lock runs finds a backup of  *)
(* the same rows at a version below: what prepareMigration copied is still what     *)
(* applyMigration meets, although other commands may migrate the ledger meanwhile.  *)
THEOREM OwnersMigrateUndoably == Spec => OwnerMigratesUndoably
<1>1. ASSUME KeptInv, NEW p \in Proc, NEW f \in FileId,
             holder = p /\ At(p, "migrate") /\ proc[p].file = f
      PROVE  Undoable(f)
  <2>1. FilesInv /\ LogsAdd /\ Migrating(p) /\ f # None
    BY <1>1, KeptIsSafe, DatabasesAreTyped DEF Kept
  <2>2. target.main = f /\ Attached(f) /\ Covered(Content(target)) /\ Exists
    BY <1>1, <2>1 DEF Migrating, At, Exists
  <2>3. Covered(Live(f))
    BY <2>1, <2>2, LedgerIsRead
  <2>. QED BY <2>3 DEF Covered, Undoable
<1>2. KeptInv => \A p \in Proc, f \in FileId :
                    holder = p /\ At(p, "migrate") /\ proc[p].file = f => Undoable(f)
  BY <1>1
<1>. QED BY <1>2, KeptInvHolds, PTL DEF OwnerMigratesUndoably

(* What restore and reset report is so while they hold the lock: a ledger said to   *)
(* be restored is the snapshot, one said to be kept has the rows from before, a     *)
(* fresh one is empty, and each is sound and of the version that collection needs   *)
(* (applyRestore, rollbackFailedRestore, runDBReset).                               *)
THEOREM ReportsAreTrue == Spec => []ReportTrue
<1>1. ASSUME KeptInv, NEW p \in Proc, At(p, "report") PROVE Told(p)
  <2>1. proc[p].at = "report" /\ proc[p].prog \in Maintenance
    BY <1>1, KeptIsSafe DEF At, WellFormed, Repairing
  <2>. QED BY <1>1, <2>1, KeptIsSafe DEF Maintained
<1>2. KeptInv => ReportTrue
  BY <1>1 DEF ReportTrue, Told
<1>. QED BY <1>2, KeptInvHolds, PTL
=============================================================================
