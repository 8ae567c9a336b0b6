-------------------------- MODULE OwnershipProofs --------------------------
(***************************************************************************)
(* What holds of Ownership for any number of ledgers, locks, processes,    *)
(* builds and crashes.                                                     *)
(***************************************************************************)
EXTENDS Ownership, TLAPS

Record == [prog : Program \cup {"run", None}, ledger : Ledger \cup {None},
           build : 0 .. MaxBuild, at : Stage, on : Lock \cup {None},
           for : {"own", "legacy", "recheck", "stop", "started", "exit", "exec"},
           pid : Pid \cup {None}, open : BOOLEAN, was : BOOLEAN, seen : 0 .. MaxBuild]

(* A process that is not dead works for a ledger at a lock, and signals only   *)
(* a process it has read.                                                      *)
WellFormed(r) ==
    /\ r.prog = None => r.at = "dead" /\ ~r.open
    /\ r.prog # None => r.ledger \in Ledger /\ r.on \in Lock
    /\ r.at = "signal" => r.pid \in Pid

(* The lock under which a process keeps a ledger open: an old collector knows  *)
(* the shared one only.                                                        *)
KeptLock(r) == IF r.prog = "old" THEN FirstLock(r.ledger) ELSE LockOf[r.ledger]

(* Who holds what at which stage: a probe and an acquisition hold the lock     *)
(* they are about, and the ledger is open only under its kept lock.            *)
Holding(p, r, h) ==
    /\ r.at \in {"unprobe", "stampPid", "stampVersion"} => h[r.on] = p
    /\ r.at = "open" \/ r.open => h[KeptLock(r)] = p

(* The stages of a command that looks for a daemon. *)
Judging == {"probe", "unprobe", "readPid", "readVersion", "owner", "signal"}

(* How the stages follow each other.  The guard's release leaves the ledger    *)
(* open, and it is never its own lock that is released then.                   *)
Staged(r) ==
    /\ r.open => r.at \in {"collect", "dropVersion", "dropPid"}
                 \/ (r.at = "unlock" /\ r.for = "started")
    /\ r.for = "started" => r.at \in {"dropVersion", "dropPid", "unlock"}
                            /\ r.prog = "run" /\ r.on # LockOf[r.ledger]
    /\ r.prog = "ensure" => r.at \in Judging
    /\ r.prog = "old" => r.at \notin Judging
    /\ r.for = "recheck" => r.prog \notin {"ensure", "restore"}
    /\ r.at \in {"take", "stampPid", "stampVersion"} =>
         /\ r.prog = "restore" => r.on = LockOf[r.ledger]
         /\ r.prog = "old" => r.on = FirstLock(r.ledger)

Sound(p, r, h) == r \in Record /\ WellFormed(r) /\ Holding(p, r, h) /\ Staged(r)

OwnershipInv ==
    /\ TypeOK
    /\ \A p \in Pid : Sound(p, proc[p], held)

LEMMA LocksAreTyped ==
    ASSUME NEW l \in Ledger
    PROVE  LockOf[l] \in Lock /\ FirstLock(l) \in Lock
BY OwnershipAssumption DEF FirstLock

LEMMA KeptLockIsTyped ==
    ASSUME NEW r, r.ledger \in Ledger
    PROVE  KeptLock(r) \in Lock
BY LocksAreTyped DEF KeptLock

LEMMA RecordIsTyped == TypeOK => proc \in [Pid -> Record]
BY DEF TypeOK, Record

(* A process that does nothing stays sound while no lock is taken from it.     *)
LEMMA UndisturbedIsSound ==
    ASSUME OwnershipInv, NEW q \in Pid, NEW h, \A k \in Lock : held[k] = q => h[k] = q
    PROVE  Sound(q, proc[q], h)
<1>1. Sound(q, proc[q], held)
  BY DEF OwnershipInv
<1>2. proc[q].ledger \in Ledger => KeptLock(proc[q]) \in Lock
  BY KeptLockIsTyped
<1>3. proc[q].at \in {"unprobe", "stampPid", "stampVersion", "open"} \/ proc[q].open
      => proc[q].ledger \in Ledger /\ proc[q].on \in Lock
  BY <1>1 DEF Sound, WellFormed
<1>4. Holding(q, proc[q], h)
  BY <1>1, <1>2, <1>3 DEF Sound, Holding
<1>. QED BY <1>1, <1>4 DEF Sound

(* A step of p that gives p a sound record, and takes no lock from another     *)
(* process, keeps the invariant.                                               *)
LEMMA OneProcessStep ==
    ASSUME OwnershipInv, NEW p \in Pid, NEW r, Go(p, r),
           held' \in [Lock -> Pid \cup {None}],
           \A k \in Lock, q \in Pid \ {p} : held[k] = q => held'[k] = q,
           Sound(p, r, held'),
           pidFile' \in [Lock -> Pid \cup {None}],
           verFile' \in [Lock -> (0 .. MaxBuild) \cup {None}],
           migrated' \subseteq Ledger, image' \in 1 .. MaxBuild, faults' \in 0 .. MaxFaults
    PROVE  OwnershipInv'
<1>1. proc \in [Pid -> Record]
  BY RecordIsTyped DEF OwnershipInv
<1>2. proc' = [proc EXCEPT ![p] = r] /\ r \in Record
  BY DEF Go, Sound
<1>3. proc' \in [Pid -> Record]
  BY <1>1, <1>2
<1>4. TypeOK'
  BY <1>3 DEF TypeOK, Record
<1>5. ASSUME NEW q \in Pid PROVE Sound(q, proc[q], held)'
  <2>1. CASE q = p
    BY <1>1, <1>2, <2>1
  <2>2. CASE q # p
    <3>1. proc'[q] = proc[q]
      BY <1>1, <1>2, <2>2
    <3>2. Sound(q, proc[q], held')
      BY <2>2, UndisturbedIsSound
    <3>. QED BY <3>1, <3>2
  <2>. QED BY <2>1, <2>2
<1>. QED BY <1>4, <1>5 DEF OwnershipInv

LEMMA OneProcessMove ==
    ASSUME OwnershipInv, NEW p \in Pid, NEW r, Go(p, r),
           held' \in [Lock -> Pid \cup {None}],
           \A k \in Lock, q \in Pid \ {p} : held[k] = q => held'[k] = q,
           Sound(p, r, held'),
           UNCHANGED <<files, migrated, image, faults>>
    PROVE  OwnershipInv'
<1>1. /\ pidFile' \in [Lock -> Pid \cup {None}]
      /\ verFile' \in [Lock -> (0 .. MaxBuild) \cup {None}]
      /\ migrated' \subseteq Ledger /\ image' \in 1 .. MaxBuild /\ faults' \in 0 .. MaxFaults
  BY DEF OwnershipInv, TypeOK, files
<1>. QED BY <1>1, OneProcessStep

(* The records of a dead and of a starting process are sound.                  *)
LEMMA DeadIsSound == ASSUME NEW p \in Pid, NEW h PROVE Sound(p, Dead, h)
BY OwnershipAssumption DEF Sound, Record, Stage, WellFormed, Holding, Staged, Dead

LEMMA StartedIsSound ==
    ASSUME NEW p \in Pid, NEW h, NEW prog \in Program \cup {"run"}, NEW l \in Ledger,
           NEW b \in 0 .. MaxBuild
    PROVE  Sound(p, Started(prog, l, b), h)
<1> DEFINE r == Started(prog, l, b)
<1>1. /\ r.prog = prog /\ r.ledger = l /\ r.build = b /\ r.on = FirstLock(l)
      /\ r.at = IF prog \in {"ensure", "restore"} THEN "probe" ELSE "take"
      /\ r.for = IF prog \in {"ensure", "restore"} /\ LegacyOf[l] # None THEN "legacy" ELSE "own"
      /\ r.pid = None /\ r.open = FALSE /\ r.was = FALSE /\ r.seen = 0
  BY DEF Started, Dead
<1>2. r \in Record
  <2>1. FirstLock(l) \in Lock /\ 0 \in 0 .. MaxBuild
    BY LocksAreTyped, OwnershipAssumption
  <2>. QED BY <2>1 DEF Started, Dead, Record, Stage
<1> HIDE DEF r
<1>3. prog # None /\ FirstLock(l) \in Lock
  BY OwnershipAssumption, LocksAreTyped
<1>4. WellFormed(r)
  BY <1>1, <1>3 DEF WellFormed
<1>5. Holding(p, r, h)
  BY <1>1 DEF Holding
<1>6. Staged(r)
  BY <1>1 DEF Staged, Judging
<1>7. Sound(p, r, h)
  BY <1>2, <1>4, <1>5, <1>6 DEF Sound
<1>. QED BY <1>7 DEF r

(* What soundness says of a process at a stage, in one place. *)
LEMMA SoundHere ==
    ASSUME OwnershipInv, NEW p \in Pid, proc[p].at # "dead"
    PROVE  /\ TypeOK /\ proc[p] \in Record
           /\ WellFormed(proc[p]) /\ Holding(p, proc[p], held) /\ Staged(proc[p])
           /\ proc[p].prog # None /\ proc[p].on \in Lock /\ proc[p].ledger \in Ledger
           /\ LockOf[proc[p].ledger] \in Lock
<1>1. Sound(p, proc[p], held) /\ TypeOK
  BY DEF OwnershipInv
<1>2. proc[p].prog # None
  BY <1>1 DEF Sound, WellFormed
<1>. QED BY <1>1, <1>2, LocksAreTyped DEF Sound, WellFormed

LEMMA SpawnedIsSound ==
    ASSUME OwnershipInv, NEW p \in Pid, proc[p].at # "dead", NEW h
    PROVE  Sound(p, Spawned(p), h)
<1>1. image \in 0 .. MaxBuild /\ proc[p].ledger \in Ledger
  BY SoundHere DEF TypeOK
<1>. QED BY <1>1, StartedIsSound DEF Spawned

(* The rest of a step that touches the process and at most the locks it holds. *)
LEMMA LeavesLocks ==
    ASSUME OwnershipInv, NEW p \in Pid, UNCHANGED held
    PROVE  /\ held' \in [Lock -> Pid \cup {None}]
           /\ \A k \in Lock, q \in Pid \ {p} : held[k] = q => held'[k] = q
BY DEF OwnershipInv, TypeOK

LEMMA DropsLocks ==
    ASSUME OwnershipInv, NEW p \in Pid, held' = Without(p)
    PROVE  /\ held' \in [Lock -> Pid \cup {None}]
           /\ \A k \in Lock, q \in Pid \ {p} : held[k] = q => held'[k] = q
BY DEF OwnershipInv, TypeOK, Without

LEMMA TakesLock ==
    ASSUME OwnershipInv, NEW p \in Pid, NEW j \in Lock, Free(j), held' = [held EXCEPT ![j] = p]
    PROVE  /\ held' \in [Lock -> Pid \cup {None}]
           /\ held'[j] = p
           /\ \A k \in Lock, q \in Pid \ {p} : held[k] = q => held'[k] = q
BY OwnershipAssumption DEF OwnershipInv, TypeOK, Free

LEMMA GivesLock ==
    ASSUME OwnershipInv, NEW p \in Pid, NEW j \in Lock, held[j] = p, held' = [held EXCEPT ![j] = None]
    PROVE  /\ held' \in [Lock -> Pid \cup {None}]
           /\ \A k \in Lock, q \in Pid \ {p} : held[k] = q => held'[k] = q
BY DEF OwnershipInv, TypeOK

(* A process on its way out. *)
LEMMA LeavingIsSound ==
    ASSUME OwnershipInv, NEW p \in Pid, proc[p].at # "dead", proc[p].prog # "ensure",
           proc[p].at = "collect" \/ ~proc[p].open
    PROVE  Sound(p, Leaving(p), held)
<1>1. /\ proc[p] \in Record /\ proc[p].ledger \in Ledger /\ proc[p].prog # None
      /\ OwnLock(p) \in Lock /\ Holding(p, proc[p], held)
  BY SoundHere DEF OwnLock
<1>2. ASSUME NEW k \in Lock
      PROVE  Sound(p, [proc[p] EXCEPT !.open = @ /\ Is(p, {"run", "old"}), !.at = "dropVersion",
                                      !.for = "exit", !.on = k], held)
  <2> DEFINE open == proc[p].open /\ Is(p, {"run", "old"})
             r == [proc[p] EXCEPT !.open = open, !.at = "dropVersion", !.for = "exit", !.on = k]
  <2>1. open \in BOOLEAN /\ (open => proc[p].open)
    BY <1>1 DEF Record
  <2> HIDE DEF open
  <2>2. r \in Record
    BY <1>1, <1>2, <2>1 DEF Record, Stage
  <2>3. /\ r.prog = proc[p].prog /\ r.ledger = proc[p].ledger /\ r.on = k
        /\ r.at = "dropVersion" /\ r.for = "exit" /\ r.open = open
    BY <1>1 DEF Record
  <2>4. KeptLock(r) = KeptLock(proc[p])
    BY <2>3 DEF KeptLock
  <2> HIDE DEF r
  <2>5. WellFormed(r) /\ Holding(p, r, held) /\ Staged(r)
    BY <1>1, <1>2, <2>1, <2>3, <2>4 DEF WellFormed, Holding, Staged, Judging
  <2>6. Sound(p, r, held)
    BY <2>2, <2>5 DEF Sound
  <2>. QED BY <2>6 DEF r, open
<1> DEFINE mine == {k \in Lock : held[k] = p}
<1>3. mine # {} => (CHOOSE k \in mine : TRUE) \in Lock
  OBVIOUS
<1>. QED BY <1>1, <1>2, <1>3, DeadIsSound DEF Leaving

LEMMA ResumedIsSound ==
    ASSUME OwnershipInv, NEW p \in Pid, proc[p].at # "dead", NEW h
    PROVE  Sound(p, Resumed(p), h)
BY SpawnedIsSound, DeadIsSound DEF Resumed

LEMMA StartKeeps ==
    ASSUME OwnershipInv, NEW p \in Pid, NEW prog \in Program, NEW l \in Ledger, Start(p, prog, l)
    PROVE  OwnershipInv'
<1>1. TypeOK /\ (IF prog = "old" THEN 0 ELSE image) \in 0 .. MaxBuild
  BY OwnershipAssumption DEF OwnershipInv, TypeOK
<1>2. Sound(p, Started(prog, l, IF prog = "old" THEN 0 ELSE image), held')
  BY <1>1, StartedIsSound
<1>. QED BY <1>1, <1>2, LeavesLocks, OneProcessMove DEF Start

LEMMA ProbeKeeps ==
    ASSUME OwnershipInv, NEW p \in Pid, Probe(p)
    PROVE  OwnershipInv'
<1>1. proc[p].at = "probe"
  BY DEF Probe, At
<1>2. /\ TypeOK /\ proc[p] \in Record /\ proc[p].on \in Lock /\ proc[p].ledger \in Ledger
      /\ OwnLock(p) \in Lock /\ OwnLock(p) = LockOf[proc[p].ledger] /\ proc[p].prog # None
      /\ Staged(proc[p])
  BY <1>1, SoundHere DEF OwnLock
<1>3. ~proc[p].open /\ proc[p].for # "started" /\ proc[p].prog # "old"
  BY <1>1, <1>2 DEF Staged, Record, Judging
<1>4. CASE Free(proc[p].on) /\ held' = [held EXCEPT ![proc[p].on] = p]
           /\ Go(p, [proc[p] EXCEPT !.at = "unprobe"])
  <2>1. Sound(p, [proc[p] EXCEPT !.at = "unprobe"], held')
    <3>1. held'[proc[p].on] = p
      BY <1>2, <1>4, TakesLock
    <3>. QED BY <1>2, <1>3, <3>1 DEF Sound, WellFormed, Holding, Staged, Judging, Record, Stage
  <2>2. /\ held' \in [Lock -> Pid \cup {None}]
        /\ \A k \in Lock, q \in Pid \ {p} : held[k] = q => held'[k] = q
    BY <1>2, <1>4, TakesLock
  <2>. QED BY <1>4, <2>1, <2>2, OneProcessMove DEF Probe
<1>5. CASE Go(p, [proc[p] EXCEPT !.at = "readPid"]) /\ UNCHANGED held
  <2>1. Sound(p, [proc[p] EXCEPT !.at = "readPid"], held')
    BY <1>2, <1>3 DEF Sound, WellFormed, Holding, Staged, Judging, Record, Stage
  <2>. QED BY <1>2, <1>5, <2>1, LeavesLocks, OneProcessMove DEF Probe
<1>6. CASE proc[p].for = "recheck" /\ Go(p, [proc[p] EXCEPT !.at = "take", !.on = OwnLock(p)])
           /\ UNCHANGED held
  <2>1. Sound(p, [proc[p] EXCEPT !.at = "take", !.on = OwnLock(p)], held')
    BY <1>2, <1>3, <1>6 DEF Sound, WellFormed, Holding, Staged, Judging, Record, Stage
  <2>. QED BY <1>2, <1>6, <2>1, LeavesLocks, OneProcessMove DEF Probe
<1>7. CASE Go(p, Dead) /\ UNCHANGED held
  BY <1>2, <1>7, DeadIsSound, LeavesLocks, OneProcessMove DEF Probe
<1>. QED BY <1>4, <1>5, <1>6, <1>7 DEF Probe, Running

LEMMA ReadPidKeeps ==
    ASSUME OwnershipInv, NEW p \in Pid, ReadPid(p)
    PROVE  OwnershipInv'
<1> DEFINE r == [proc[p] EXCEPT !.pid = pidFile[proc[p].on],
                                !.at = IF proc[p].for = "own" /\ Is(p, {"ensure"})
                                       THEN "readVersion" ELSE "owner"]
<1>1. Sound(p, proc[p], held) /\ TypeOK
  BY DEF OwnershipInv
<1>2. Sound(p, r, held')
  BY <1>1 DEF Sound, Record, Stage, WellFormed, Holding, Staged, Judging, KeptLock, ReadPid, At, TypeOK
<1>. QED BY <1>1, <1>2, LeavesLocks, OneProcessMove DEF ReadPid

LEMMA ReadVersionKeeps ==
    ASSUME OwnershipInv, NEW p \in Pid, ReadVersion(p)
    PROVE  OwnershipInv'
<1>1. Sound(p, proc[p], held) /\ TypeOK
  BY DEF OwnershipInv
<1>2. Sound(p, [proc[p] EXCEPT !.at = "owner"], held')
  BY <1>1 DEF Sound, Record, Stage, WellFormed, Holding, Staged, Judging, KeptLock, ReadVersion, At
<1>3. ASSUME NEW r, Go(p, r), Sound(p, r, held') PROVE OwnershipInv'
  BY <1>1, <1>3, LeavesLocks, OneProcessMove DEF ReadVersion
<1>. QED BY <1>2, <1>3, DeadIsSound DEF ReadVersion

LEMMA OwnerKeeps ==
    ASSUME OwnershipInv, NEW p \in Pid, Owner(p)
    PROVE  OwnershipInv'
<1>1. proc[p].at = "owner"
  BY DEF Owner, At
<1>2. /\ TypeOK /\ proc[p] \in Record /\ proc[p].on \in Lock /\ proc[p].ledger \in Ledger
      /\ OwnLock(p) \in Lock /\ OwnLock(p) = LockOf[proc[p].ledger] /\ proc[p].prog # None
      /\ Staged(proc[p])
  BY <1>1, SoundHere DEF OwnLock
<1>3. ~proc[p].open /\ proc[p].for # "started" /\ proc[p].prog # "old"
  BY <1>1, <1>2 DEF Staged, Record, Judging
<1> DEFINE probing == [proc[p] EXCEPT !.at = "probe", !.for = "own", !.pid = None]
<1>4. Sound(p, probing, held')
  BY <1>2, <1>3 DEF Sound, WellFormed, Holding, Staged, Judging, Record, Stage
<1>5. Sound(p, [probing EXCEPT !.on = OwnLock(p)], held')
  BY <1>2, <1>3 DEF Sound, WellFormed, Holding, Staged, Judging, Record, Stage
<1>6. ASSUME Is(p, {"run", "once"})
      PROVE  Sound(p, [probing EXCEPT !.for = "recheck"], held')
  BY <1>2, <1>3, <1>6 DEF Sound, WellFormed, Holding, Staged, Judging, Record, Stage, Is
<1>7. ASSUME IsCollector(proc[p].pid)
      PROVE  Sound(p, [proc[p] EXCEPT !.at = "signal"], held')
  <2>1. proc[p].pid \in Pid
    BY <1>2, <1>7 DEF IsCollector, Record
  <2>. QED BY <1>2, <1>3, <2>1 DEF Sound, WellFormed, Holding, Staged, Judging, Record, Stage
<1>8. Sound(p, LegacyVerdict(p), held')
  BY <1>4, <1>5, <1>6, DeadIsSound DEF LegacyVerdict
<1>9. ASSUME NEW r, Go(p, r), Sound(p, r, held') PROVE OwnershipInv'
  BY <1>2, <1>9, LeavesLocks, OneProcessMove DEF Owner
<1>. QED BY <1>7, <1>8, <1>9, DeadIsSound DEF Owner

LEMMA UnprobeKeeps ==
    ASSUME OwnershipInv, NEW p \in Pid, Unprobe(p)
    PROVE  OwnershipInv'
<1>1. At(p, "unprobe") /\ held' = [held EXCEPT ![proc[p].on] = None]
  BY DEF Unprobe
<1>2. proc[p].at # "dead"
  BY <1>1 DEF At
<1>3. held[proc[p].on] = p /\ ~proc[p].open /\ proc[p].for # "started" /\ proc[p].prog # "old"
  BY <1>1, <1>2, SoundHere DEF Holding, Staged, At, Record, Judging
<1>4. /\ proc[p] \in Record /\ proc[p].on \in Lock /\ proc[p].ledger \in Ledger
      /\ OwnLock(p) \in Lock /\ OwnLock(p) = LockOf[proc[p].ledger] /\ proc[p].prog # None
  BY <1>2, SoundHere DEF OwnLock
<1>5. Sound(p, FoundFree(p), held')
  <2>1. ASSUME Is(p, {"run", "once"})
        PROVE  Sound(p, [proc[p] EXCEPT !.at = "probe", !.for = "recheck"], held')
    BY <1>3, <1>4, <2>1 DEF Sound, WellFormed, Holding, Staged, Judging, Record, Stage, Is
  <2>2. Sound(p, [proc[p] EXCEPT !.at = "probe", !.for = "own", !.on = OwnLock(p)], held')
    BY <1>3, <1>4 DEF Sound, WellFormed, Holding, Staged, Judging, Record, Stage
  <2>3. ASSUME proc[p].prog # "ensure", proc[p].for # "recheck"
        PROVE  Sound(p, [proc[p] EXCEPT !.at = "take", !.on = OwnLock(p),
                                        !.was = proc[p].for = "stop"], held')
    BY <1>3, <1>4, <2>3 DEF Sound, WellFormed, Holding, Staged, Judging, Record, Stage
  <2>. QED BY <1>2, <2>1, <2>2, <2>3, SpawnedIsSound, DeadIsSound DEF FoundFree, Is
<1>6. held' \in [Lock -> Pid \cup {None}]
  BY <1>1, <1>2, SoundHere DEF TypeOK
<1>7. \A k \in Lock, q \in Pid \ {p} : held[k] = q => held'[k] = q
  BY <1>1, <1>2, <1>3, <1>4, SoundHere DEF TypeOK
<1>. QED BY <1>2, <1>5, <1>6, <1>7, SoundHere, OneProcessMove DEF Unprobe

LEMMA SignalKeeps ==
    ASSUME OwnershipInv, NEW p \in Pid, Signal(p)
    PROVE  OwnershipInv'
<1>1. proc[p].at = "signal"
  BY DEF Signal, At
<1>2. /\ TypeOK /\ proc[p] \in Record /\ proc[p].on \in Lock /\ proc[p].ledger \in Ledger
      /\ proc[p].prog # None /\ Staged(proc[p]) /\ WellFormed(proc[p])
  BY <1>1, SoundHere
<1>3. ~proc[p].open /\ proc[p].for # "started" /\ proc[p].prog # "old"
  BY <1>1, <1>2 DEF Staged, Record, Judging
<1> DEFINE waiting == [proc[p] EXCEPT !.at = "probe", !.for = "stop", !.pid = None]
           q == proc[p].pid
<1>4. ASSUME NEW h PROVE Sound(p, waiting, h)
  BY <1>2, <1>3 DEF Sound, WellFormed, Holding, Staged, Judging, Record, Stage
<1>5. q \in Pid
  BY <1>1, <1>2 DEF WellFormed
<1>6. proc \in [Pid -> Record]
  BY <1>2, RecordIsTyped
<1> HIDE DEF waiting, q
<1>7. ASSUME proc' \in [Pid -> Record], held' \in [Lock -> Pid \cup {None}],
             \A x \in Pid : Sound(x, proc'[x], held')
      PROVE  OwnershipInv'
  BY <1>2, <1>7 DEF OwnershipInv, TypeOK, Record, Signal, files
<1>8. CASE At(q, "collect") /\ Handles(q)
           /\ proc' = [proc EXCEPT ![p] = waiting, ![q] = Leaving(q)] /\ UNCHANGED held
  <2>1. p # q /\ proc[q].at # "dead" /\ proc[q].prog # "ensure"
    BY <1>1, <1>8 DEF At, Handles, Is
  <2>2. Sound(q, Leaving(q), held') /\ Sound(p, waiting, held')
    BY <1>4, <1>5, <1>8, <2>1, LeavingIsSound DEF At
  <2>3. waiting \in Record /\ Leaving(q) \in Record
    BY <2>2 DEF Sound
  <2>4. proc' \in [Pid -> Record]
    BY <1>6, <1>8, <2>3
  <2>5. ASSUME NEW x \in Pid PROVE Sound(x, proc'[x], held')
    <3>1. Sound(x, proc[x], held')
      BY <1>8, UndisturbedIsSound
    <3>. QED BY <1>5, <1>6, <1>8, <2>1, <2>2, <3>1
  <2>6. held' \in [Lock -> Pid \cup {None}]
    BY <1>8, LeavesLocks
  <2>. QED BY <1>7, <2>4, <2>5, <2>6
<1>9. CASE proc' = [proc EXCEPT ![p] = waiting, ![q] = Dead] /\ held' = Without(q)
  <2>1. Dead \in Record /\ waiting \in Record
    BY <1>4, DeadIsSound DEF Sound
  <2>2. proc' \in [Pid -> Record]
    BY <1>6, <1>9, <2>1
  <2>3. held' \in [Lock -> Pid \cup {None}]
    BY <1>5, <1>9, DropsLocks
  <2>4. ASSUME NEW x \in Pid PROVE Sound(x, proc'[x], held')
    <3>1. CASE x = q
      BY <1>5, <1>6, <1>9, <3>1, DeadIsSound
    <3>2. CASE x = p /\ x # q
      <4>1. proc'[x] = waiting
        BY <1>6, <1>9, <3>2
      <4>. QED BY <1>4, <3>2, <4>1
    <3>3. CASE x # p /\ x # q
      <4>1. proc'[x] = proc[x]
        BY <1>6, <1>9, <3>3
      <4>2. \A k \in Lock : held[k] = x => held'[k] = x
        BY <1>5, <1>9, <3>3, DropsLocks
      <4>. QED BY <4>1, <4>2, UndisturbedIsSound
    <3>. QED BY <3>1, <3>2, <3>3
  <2>. QED BY <1>7, <2>2, <2>3, <2>4
<1>10. CASE Go(p, waiting) /\ UNCHANGED held
  BY <1>2, <1>4, <1>10, LeavesLocks, OneProcessMove DEF Signal
<1>. QED BY <1>8, <1>9, <1>10 DEF Signal, waiting, q

LEMMA TakeFreeKeeps ==
    ASSUME OwnershipInv, NEW p \in Pid, TakeFree(p)
    PROVE  OwnershipInv'
<1>1. proc[p].at = "take"
  BY DEF TakeFree, At
<1>2. /\ TypeOK /\ proc[p] \in Record /\ proc[p].on \in Lock /\ proc[p].ledger \in Ledger
      /\ proc[p].prog # None /\ Staged(proc[p])
  BY <1>1, SoundHere
<1>3. ~proc[p].open /\ proc[p].for # "started" /\ proc[p].prog # "ensure"
  BY <1>1, <1>2 DEF Staged, Record, Judging
<1>4. /\ held' \in [Lock -> Pid \cup {None}] /\ held'[proc[p].on] = p
      /\ \A k \in Lock, q \in Pid \ {p} : held[k] = q => held'[k] = q
  BY <1>2, TakesLock DEF TakeFree
<1>5. Sound(p, [proc[p] EXCEPT !.at = "stampPid"], held')
  BY <1>1, <1>2, <1>3, <1>4 DEF Sound, WellFormed, Holding, Staged, Judging, Record, Stage
<1>6. Go(p, [proc[p] EXCEPT !.at = "stampPid"]) /\ UNCHANGED <<files, migrated, image, faults>>
  BY DEF TakeFree
<1>. QED BY <1>4, <1>5, <1>6, OneProcessMove

LEMMA TakeHeldKeeps ==
    ASSUME OwnershipInv, NEW p \in Pid, TakeHeld(p)
    PROVE  OwnershipInv'
<1>1. proc[p].at = "take"
  BY DEF TakeHeld, At
<1>2. /\ TypeOK /\ proc[p] \in Record /\ proc[p].on \in Lock /\ proc[p].ledger \in Ledger
      /\ proc[p].prog # None /\ Staged(proc[p])
  BY <1>1, SoundHere
<1>3. ~proc[p].open /\ proc[p].for # "started" /\ proc[p].prog # "ensure"
  BY <1>1, <1>2 DEF Staged, Record, Judging
<1>4. UNCHANGED held
  BY DEF TakeHeld
<1>5. ASSUME Is(p, {"run", "once"})
      PROVE  Sound(p, [proc[p] EXCEPT !.at = "probe", !.for = "legacy"], held')
  BY <1>2, <1>3, <1>5 DEF Sound, WellFormed, Holding, Staged, Judging, Record, Stage, Is
<1>6. Sound(p, Resumed(p), held') /\ Sound(p, Leaving(p), held')
  BY <1>1, <1>3, <1>4, ResumedIsSound, LeavingIsSound
<1>7. ASSUME NEW r, Go(p, r), Sound(p, r, held') PROVE OwnershipInv'
  BY <1>2, <1>4, <1>7, LeavesLocks, OneProcessMove DEF TakeHeld
<1>. QED BY <1>5, <1>6, <1>7 DEF TakeHeld

LEMMA StampPidKeeps ==
    ASSUME OwnershipInv, NEW p \in Pid, StampPid(p)
    PROVE  OwnershipInv'
<1>1. proc[p].at = "stampPid"
  BY DEF StampPid, At
<1>2. /\ TypeOK /\ proc[p] \in Record /\ proc[p].on \in Lock /\ proc[p].ledger \in Ledger
      /\ proc[p].prog # None /\ Staged(proc[p]) /\ Holding(p, proc[p], held)
  BY <1>1, SoundHere
<1>3. ~proc[p].open /\ proc[p].for # "started" /\ proc[p].prog # "ensure"
  BY <1>1, <1>2 DEF Staged, Record, Judging
<1>4. UNCHANGED held
  BY DEF StampPid
<1>5. Sound(p, [proc[p] EXCEPT !.at = "stampVersion"], held')
  BY <1>1, <1>2, <1>3, <1>4 DEF Sound, WellFormed, Holding, Staged, Judging, Record, Stage
<1>6. pidFile' \in [Lock -> Pid \cup {None}]
  BY <1>2 DEF StampPid, TypeOK
<1>. QED BY <1>2, <1>4, <1>5, <1>6, LeavesLocks, OneProcessStep DEF StampPid, TypeOK

LEMMA StampVersionKeeps ==
    ASSUME OwnershipInv, NEW p \in Pid, StampVersion(p)
    PROVE  OwnershipInv'
<1>1. proc[p].at = "stampVersion"
  BY DEF StampVersion, At
<1>2. /\ TypeOK /\ proc[p] \in Record /\ proc[p].on \in Lock /\ proc[p].ledger \in Ledger
      /\ OwnLock(p) \in Lock /\ OwnLock(p) = LockOf[proc[p].ledger]
      /\ proc[p].prog # None /\ Staged(proc[p]) /\ Holding(p, proc[p], held)
  BY <1>1, SoundHere DEF OwnLock
<1>3. ~proc[p].open /\ proc[p].for # "started" /\ proc[p].prog # "ensure" /\ held[proc[p].on] = p
  BY <1>1, <1>2 DEF Staged, Record, Judging, Holding
<1>4. UNCHANGED held
  BY DEF StampVersion
<1>5. ASSUME Is(p, {"run", "once"})
      PROVE  Sound(p, [proc[p] EXCEPT !.at = "take", !.on = OwnLock(p)], held')
  BY <1>2, <1>3, <1>5 DEF Sound, WellFormed, Holding, Staged, Judging, Record, Stage, Is
<1>6. ASSUME ~(Is(p, {"run", "once"}) /\ proc[p].on # OwnLock(p))
      PROVE  Sound(p, [proc[p] EXCEPT !.at = "open"], held')
  <2>1. proc[p].prog \in {"run", "once", "restore", "old"}
    BY <1>2, <1>3, OwnershipAssumption DEF Record
  <2>2. KeptLock(proc[p]) = proc[p].on
    BY <1>1, <1>2, <1>6, <2>1 DEF KeptLock, Staged, Is
  <2> DEFINE r == [proc[p] EXCEPT !.at = "open"]
  <2>3. r \in Record
    BY <1>2 DEF Record, Stage
  <2>4. /\ r.prog = proc[p].prog /\ r.ledger = proc[p].ledger /\ r.on = proc[p].on
        /\ r.at = "open" /\ r.for = proc[p].for /\ r.open = proc[p].open
    BY <1>2 DEF Record
  <2>5. KeptLock(r) = KeptLock(proc[p])
    BY <2>4 DEF KeptLock
  <2> HIDE DEF r
  <2>6. WellFormed(r) /\ Holding(p, r, held') /\ Staged(r)
    BY <1>2, <1>3, <1>4, <2>2, <2>4, <2>5 DEF WellFormed, Holding, Staged, Judging
  <2>7. Sound(p, r, held')
    BY <2>3, <2>6 DEF Sound
  <2>. QED BY <2>7 DEF r
<1>7. verFile' \in [Lock -> (0 .. MaxBuild) \cup {None}]
  BY <1>2 DEF StampVersion, TypeOK, Record
<1>8. ASSUME NEW r, Go(p, r), Sound(p, r, held') PROVE OwnershipInv'
  BY <1>2, <1>4, <1>7, <1>8, LeavesLocks, OneProcessStep DEF StampVersion, TypeOK
<1>. QED BY <1>5, <1>6, <1>8 DEF StampVersion

LEMMA OpenKeeps ==
    ASSUME OwnershipInv, NEW p \in Pid, Open(p)
    PROVE  OwnershipInv'
<1>1. proc[p].at = "open"
  BY DEF Open, At
<1>2. /\ TypeOK /\ proc[p] \in Record /\ proc[p].on \in Lock /\ proc[p].ledger \in Ledger
      /\ proc[p].prog # None /\ Staged(proc[p]) /\ Holding(p, proc[p], held)
  BY <1>1, SoundHere
<1>3. /\ ~proc[p].open /\ proc[p].for # "started" /\ proc[p].prog # "ensure"
      /\ held[KeptLock(proc[p])] = p
  BY <1>1, <1>2 DEF Staged, Record, Judging, Holding
<1>4. UNCHANGED <<held, files, image>>
  BY DEF Open
<1>5. image \in 0 .. MaxBuild
  BY <1>2 DEF TypeOK
<1>6. ASSUME NEW r \in Record, r.prog = proc[p].prog, r.ledger = proc[p].ledger, r.on \in Lock,
             \/ r.at = "collect" /\ r.for = proc[p].for
             \/ r.at = "dropVersion" /\ r.for = "started" /\ r.prog = "run" /\ r.on # LockOf[r.ledger]
      PROVE  Sound(p, r, held')
  <2>1. KeptLock(r) = KeptLock(proc[p])
    BY <1>6 DEF KeptLock
  <2>2. r.for = "recheck" => r.prog \notin {"ensure", "restore"}
    BY <1>2, <1>6 DEF Staged
  <2>3. WellFormed(r) /\ Holding(p, r, held')
    BY <1>2, <1>3, <1>4, <1>6, <2>1 DEF WellFormed, Holding
  <2>4. Staged(r)
    BY <1>3, <1>6, <2>2 DEF Staged, Judging
  <2>. QED BY <2>3, <2>4 DEF Sound
<1> DEFINE opened == [proc[p] EXCEPT !.open = TRUE]
           guard == LegacyOf[proc[p].ledger]
<1>7. Sound(p, [opened EXCEPT !.at = "collect", !.seen = image], held')
  <2> DEFINE r == [opened EXCEPT !.at = "collect", !.seen = image]
  <2>1. r \in Record /\ r.prog = proc[p].prog /\ r.ledger = proc[p].ledger /\ r.on = proc[p].on
    BY <1>2, <1>5 DEF Record, Stage
  <2>2. r.at = "collect" /\ r.for = proc[p].for
    BY <1>2 DEF Record
  <2> HIDE DEF r
  <2>3. Sound(p, r, held')
    BY <1>2, <1>6, <2>1, <2>2
  <2>. QED BY <2>3 DEF r
<1>8. Sound(p, [opened EXCEPT !.at = "collect"], held')
  <2> DEFINE r == [opened EXCEPT !.at = "collect"]
  <2>1. r \in Record /\ r.prog = proc[p].prog /\ r.ledger = proc[p].ledger /\ r.on = proc[p].on
    BY <1>2 DEF Record, Stage
  <2>2. r.at = "collect" /\ r.for = proc[p].for
    BY <1>2 DEF Record
  <2> HIDE DEF r
  <2>3. Sound(p, r, held')
    BY <1>2, <1>6, <2>1, <2>2
  <2>. QED BY <2>3 DEF r
<1>9. ASSUME Is(p, {"run"}), guard # None
      PROVE  Sound(p, [opened EXCEPT !.at = "dropVersion", !.for = "started", !.on = guard], held')
  <2> DEFINE r == [opened EXCEPT !.at = "dropVersion", !.for = "started", !.on = guard]
  <2>1. guard \in Lock /\ guard # LockOf[proc[p].ledger]
    BY <1>2, <1>9, OwnershipAssumption
  <2> HIDE DEF guard
  <2>2. r \in Record /\ r.prog = proc[p].prog /\ r.ledger = proc[p].ledger /\ r.on = guard
    BY <1>2, <2>1 DEF Record, Stage
  <2>3. r.at = "dropVersion" /\ r.for = "started"
    BY <1>2 DEF Record
  <2>4. r.prog = "run"
    BY <1>9, <2>2 DEF Is
  <2> HIDE DEF r
  <2>5. Sound(p, r, held')
    BY <1>6, <2>1, <2>2, <2>3, <2>4
  <2>. QED BY <2>5 DEF r, guard
<1>10. Sound(p, Leaving(p), held')
  BY <1>1, <1>3, <1>4, LeavingIsSound
<1>11. migrated' \subseteq Ledger /\ faults' \in 0 .. MaxFaults
  BY <1>2, OwnershipAssumption DEF Open, Fault, NoFault, TypeOK
<1>12. ASSUME NEW r, Go(p, r), Sound(p, r, held') PROVE OwnershipInv'
  BY <1>2, <1>4, <1>11, <1>12, LeavesLocks, OneProcessStep DEF TypeOK, files
<1> HIDE DEF opened, guard
<1>. QED BY <1>7, <1>8, <1>9, <1>10, <1>12 DEF Open, opened, guard

LEMMA FinishKeeps ==
    ASSUME OwnershipInv, NEW p \in Pid, Finish(p)
    PROVE  OwnershipInv'
<1>1. proc[p].at = "collect" /\ proc[p].prog # "ensure" /\ UNCHANGED <<held, files, migrated, image>>
  BY DEF Finish, At, Is
<1>2. TypeOK /\ Sound(p, Leaving(p), held')
  BY <1>1, SoundHere, LeavingIsSound
<1>3. Sound(p, [Leaving(p) EXCEPT !.was = FALSE], held')
  <2> DEFINE l == Leaving(p)
             r == [l EXCEPT !.was = FALSE]
  <2> HIDE DEF l
  <2>1. l \in Record /\ WellFormed(l) /\ Holding(p, l, held') /\ Staged(l)
    BY <1>2 DEF Sound, l
  <2>2. r \in Record
    BY <2>1 DEF Record
  <2>3. /\ r.prog = l.prog /\ r.ledger = l.ledger /\ r.on = l.on /\ r.at = l.at
        /\ r.for = l.for /\ r.open = l.open /\ r.pid = l.pid
    BY <2>1 DEF Record
  <2>4. KeptLock(r) = KeptLock(l)
    BY <2>3 DEF KeptLock
  <2> HIDE DEF r
  <2>5. WellFormed(r) /\ Holding(p, r, held')
    BY <2>1, <2>3, <2>4 DEF WellFormed, Holding
  <2>6. Staged(r)
    BY <2>1, <2>3 DEF Staged
  <2>7. Sound(p, r, held')
    BY <2>2, <2>5, <2>6 DEF Sound
  <2>. QED BY <2>7 DEF r, l
<1>4. faults' \in 0 .. MaxFaults
  BY <1>2, OwnershipAssumption DEF Finish, Fault, NoFault, TypeOK
<1>5. ASSUME NEW r, Go(p, r), Sound(p, r, held') PROVE OwnershipInv'
  BY <1>1, <1>2, <1>4, <1>5, LeavesLocks, OneProcessStep DEF TypeOK, files
<1>. QED BY <1>2, <1>3, <1>5 DEF Finish

LEMMA RetireKeeps ==
    ASSUME OwnershipInv, NEW p \in Pid, Retire(p)
    PROVE  OwnershipInv'
<1>1. proc[p].at = "collect" /\ proc[p].prog = "run" /\ UNCHANGED held
  BY DEF Retire, At, Is
<1>2. /\ TypeOK /\ proc[p] \in Record /\ proc[p].ledger \in Ledger /\ OwnLock(p) \in Lock
      /\ proc[p].prog # None /\ Staged(proc[p]) /\ Holding(p, proc[p], held)
  BY <1>1, SoundHere DEF OwnLock
<1> DEFINE r == [proc[p] EXCEPT !.at = "dropVersion", !.for = "exec", !.on = OwnLock(p)]
<1>3. r \in Record
  BY <1>2 DEF Record, Stage
<1>4. /\ r.prog = proc[p].prog /\ r.ledger = proc[p].ledger /\ r.on = OwnLock(p)
      /\ r.at = "dropVersion" /\ r.for = "exec" /\ r.open = proc[p].open
  BY <1>2 DEF Record
<1>5. KeptLock(r) = KeptLock(proc[p])
  BY <1>4 DEF KeptLock
<1> HIDE DEF r
<1>6. Sound(p, r, held')
  BY <1>1, <1>2, <1>3, <1>4, <1>5 DEF Sound, WellFormed, Holding, Staged, Judging, OwnLock
<1>7. Go(p, r)
  BY DEF Retire, r
<1>. QED BY <1>2, <1>6, <1>7, LeavesLocks, OneProcessMove DEF Retire

LEMMA DropVersionKeeps ==
    ASSUME OwnershipInv, NEW p \in Pid, DropVersion(p)
    PROVE  OwnershipInv'
<1>1. proc[p].at = "dropVersion" /\ UNCHANGED held
  BY DEF DropVersion, At
<1>2. /\ TypeOK /\ proc[p] \in Record /\ proc[p].ledger \in Ledger /\ proc[p].on \in Lock
      /\ proc[p].prog # None /\ Staged(proc[p]) /\ Holding(p, proc[p], held)
  BY <1>1, SoundHere
<1> DEFINE r == [proc[p] EXCEPT !.at = "dropPid"]
<1>3. r \in Record
  BY <1>2 DEF Record, Stage
<1>4. /\ r.prog = proc[p].prog /\ r.ledger = proc[p].ledger /\ r.on = proc[p].on
      /\ r.at = "dropPid" /\ r.for = proc[p].for /\ r.open = proc[p].open
  BY <1>2 DEF Record
<1>5. KeptLock(r) = KeptLock(proc[p])
  BY <1>4 DEF KeptLock
<1> HIDE DEF r
<1>6. Sound(p, r, held')
  BY <1>1, <1>2, <1>3, <1>4, <1>5 DEF Sound, WellFormed, Holding, Staged, Judging
<1>7. Go(p, r)
  BY DEF DropVersion, r
<1>8. verFile' \in [Lock -> (0 .. MaxBuild) \cup {None}]
  BY <1>2 DEF DropVersion, TypeOK
<1>. QED BY <1>2, <1>6, <1>7, <1>8, LeavesLocks, OneProcessStep DEF DropVersion, TypeOK

LEMMA DropPidKeeps ==
    ASSUME OwnershipInv, NEW p \in Pid, DropPid(p)
    PROVE  OwnershipInv'
<1>1. proc[p].at = "dropPid" /\ UNCHANGED held
  BY DEF DropPid, At
<1>2. /\ TypeOK /\ proc[p] \in Record /\ proc[p].ledger \in Ledger /\ proc[p].on \in Lock
      /\ proc[p].prog # None /\ Staged(proc[p]) /\ Holding(p, proc[p], held)
  BY <1>1, SoundHere
<1> DEFINE stage == IF proc[p].for = "exec" THEN "exec" ELSE "unlock"
           open == proc[p].open /\ proc[p].for = "started"
           r == [proc[p] EXCEPT !.at = stage, !.open = open]
<1>3. open \in BOOLEAN /\ (open => proc[p].open /\ proc[p].for = "started")
  BY <1>2 DEF Record
<1> HIDE DEF open
<1>4. r \in Record
  BY <1>2, <1>3 DEF Record, Stage
<1>5. /\ r.prog = proc[p].prog /\ r.ledger = proc[p].ledger /\ r.on = proc[p].on
      /\ r.at = stage /\ r.for = proc[p].for /\ r.open = open
  BY <1>2 DEF Record
<1>6. KeptLock(r) = KeptLock(proc[p])
  BY <1>5 DEF KeptLock
<1> HIDE DEF r
<1>7. WellFormed(r) /\ Holding(p, r, held')
  BY <1>1, <1>2, <1>3, <1>5, <1>6 DEF WellFormed, Holding
<1>8. Staged(r)
  BY <1>1, <1>2, <1>3, <1>5 DEF Staged, Judging
<1>9. Go(p, r) /\ Sound(p, r, held')
  BY <1>4, <1>7, <1>8 DEF DropPid, Sound, r, open
<1>10. pidFile' \in [Lock -> Pid \cup {None}]
  BY <1>2 DEF DropPid, TypeOK
<1>. QED BY <1>2, <1>9, <1>10, LeavesLocks, OneProcessStep DEF DropPid, TypeOK

LEMMA UnlockKeeps ==
    ASSUME OwnershipInv, NEW p \in Pid, Unlock(p)
    PROVE  OwnershipInv'
<1> DEFINE k == proc[p].on
           rest == {j \in Lock \ {k} : held[j] = p}
<1>1. proc[p].at = "unlock" /\ held' = [held EXCEPT ![k] = IF @ = p THEN None ELSE @]
  BY DEF Unlock, At
<1>2. /\ TypeOK /\ proc[p] \in Record /\ proc[p].ledger \in Ledger /\ k \in Lock
      /\ OwnLock(p) \in Lock /\ OwnLock(p) = LockOf[proc[p].ledger]
      /\ proc[p].prog # None /\ Staged(proc[p]) /\ Holding(p, proc[p], held)
  BY <1>1, SoundHere DEF OwnLock
<1>3. /\ held' \in [Lock -> Pid \cup {None}]
      /\ \A j \in Lock, q \in Pid \ {p} : held[j] = q => held'[j] = q
      /\ \A j \in Lock \ {k} : held'[j] = held[j]
  BY <1>1, <1>2 DEF TypeOK
<1>4. /\ proc[p].prog # "ensure"
      /\ proc[p].open => proc[p].for = "started"
      /\ proc[p].for = "started" => proc[p].prog = "run" /\ k # OwnLock(p)
  BY <1>1, <1>2 DEF Staged, Judging
<1>5. image \in 0 .. MaxBuild
  BY <1>2 DEF TypeOK
<1>6. ASSUME proc[p].for = "started"
      PROVE  Sound(p, [proc[p] EXCEPT !.at = "collect", !.for = "own", !.on = OwnLock(p), !.seen = image], held')
  <2> DEFINE r == [proc[p] EXCEPT !.at = "collect", !.for = "own", !.on = OwnLock(p), !.seen = image]
  <2>1. r \in Record
    BY <1>2, <1>5 DEF Record, Stage
  <2>2. /\ r.prog = proc[p].prog /\ r.ledger = proc[p].ledger /\ r.on = OwnLock(p)
        /\ r.at = "collect" /\ r.for = "own" /\ r.open = proc[p].open
    BY <1>2 DEF Record
  <2>3. KeptLock(r) = OwnLock(p) /\ KeptLock(proc[p]) = OwnLock(p)
    BY <1>2, <1>4, <1>6, <2>2 DEF KeptLock
  <2> HIDE DEF r
  <2>4. Holding(p, r, held')
    BY <1>2, <1>3, <1>4, <1>6, <2>2, <2>3 DEF Holding
  <2>5. WellFormed(r) /\ Staged(r)
    BY <1>2, <1>4, <2>2 DEF WellFormed, Staged, Judging
  <2>6. Sound(p, r, held')
    BY <2>1, <2>4, <2>5 DEF Sound
  <2>. QED BY <2>6 DEF r
<1>7. ASSUME proc[p].for # "started", NEW j \in Lock
      PROVE  Sound(p, [proc[p] EXCEPT !.at = "dropVersion", !.on = j], held')
  BY <1>2, <1>4, <1>7 DEF Sound, WellFormed, Holding, Staged, Judging, Record, Stage
<1>8. Sound(p, Resumed(p), held')
  BY <1>1, ResumedIsSound
<1>9. rest # {} => (CHOOSE j \in rest : TRUE) \in Lock
  OBVIOUS
<1>10. ASSUME NEW r, Go(p, r), Sound(p, r, held') PROVE OwnershipInv'
  BY <1>2, <1>3, <1>10, OneProcessMove DEF Unlock
<1> HIDE DEF rest, k
<1>. QED BY <1>6, <1>7, <1>8, <1>9, <1>10 DEF Unlock, rest, k

LEMMA ExecKeeps ==
    ASSUME OwnershipInv, NEW p \in Pid, Exec(p)
    PROVE  OwnershipInv'
<1>1. TypeOK /\ Sound(p, Spawned(p), held')
  BY SoundHere, SpawnedIsSound DEF Exec, At
<1>. QED BY <1>1, DropsLocks, OneProcessMove DEF Exec

LEMMA CrashKeeps ==
    ASSUME OwnershipInv, NEW p \in Pid, Crash(p)
    PROVE  OwnershipInv'
<1>1. TypeOK /\ faults' \in 0 .. MaxFaults
  BY OwnershipAssumption DEF OwnershipInv, TypeOK, Crash, Fault
<1>. QED BY <1>1, DropsLocks, DeadIsSound, OneProcessStep DEF Crash, TypeOK, files
-----------------------------------------------------------------------------
(* The invariant holds of every reachable state. *)
LEMMA OwnershipInvHolds == Spec => []OwnershipInv
<1>1. Init => OwnershipInv
  <2>1. ASSUME Init PROVE TypeOK
    BY <2>1, OwnershipAssumption DEF Init, TypeOK, Dead, Stage
  <2>2. ASSUME Init, NEW p \in Pid PROVE Sound(p, proc[p], held)
    BY <2>2, DeadIsSound DEF Init
  <2>. QED BY <2>1, <2>2 DEF OwnershipInv
<1>2. OwnershipInv /\ [Next]_vars => OwnershipInv'
  <2> SUFFICES ASSUME OwnershipInv, [Next]_vars PROVE OwnershipInv'
    OBVIOUS
  <2>1. ASSUME NEW p \in Pid, Step(p) PROVE OwnershipInv'
    BY <2>1, ProbeKeeps, UnprobeKeeps, ReadPidKeeps, ReadVersionKeeps, OwnerKeeps, SignalKeeps,
       TakeFreeKeeps, TakeHeldKeeps, StampPidKeeps, StampVersionKeeps, OpenKeeps, FinishKeeps,
       RetireKeeps, DropVersionKeeps, DropPidKeeps, UnlockKeeps, ExecKeeps DEF Step
  <2>2. CASE Upgrade
    <3>1. TypeOK'
      BY <2>2, OwnershipAssumption DEF OwnershipInv, TypeOK, Upgrade, files
    <3>. QED BY <2>2, <3>1 DEF OwnershipInv, Upgrade
  <2>3. CASE UNCHANGED vars
    BY <2>3 DEF OwnershipInv, TypeOK, vars
  <2>. QED BY <2>1, <2>2, <2>3, StartKeeps, CrashKeeps DEF Next
<1>. QED BY <1>1, <1>2, PTL DEF Spec

(* The types of Ownership's variables, for every value of its constants. *)
THEOREM OwnershipTypes == Spec => []TypeOK
<1>1. OwnershipInv => TypeOK
  BY DEF OwnershipInv
<1>. QED BY <1>1, OwnershipInvHolds, PTL

(* Collectors and maintenance exclude each other on every ledger, for any      *)
(* number of processes, ledgers, upgrades and crashes, when no collector of    *)
(* the time before isolation runs, or when no ledger ever shared another's     *)
(* lock.  Without that the run old_collector_races shows two of them.          *)
THEOREM OneWriter ==
    ASSUME "old" \notin Program \/ (\A l \in Ledger : LegacyOf[l] = None)
    PROVE  Spec => []OneWriterPerLedger
<1>1. OwnershipInv => OneWriterPerLedger
  <2> SUFFICES ASSUME OwnershipInv, NEW p \in Pid, NEW q \in Pid,
                      proc[p].open, proc[q].open, proc[p].ledger = proc[q].ledger
               PROVE  p = q
    BY DEF OneWriterPerLedger
  <2>1. ASSUME NEW x \in Pid, proc[x].open
        PROVE  held[LockOf[proc[x].ledger]] = x
    <3>1. Sound(x, proc[x], held)
      BY DEF OwnershipInv
    <3>2. held[KeptLock(proc[x])] = x
      BY <2>1, <3>1 DEF Sound, Holding
    <3>3. proc[x].prog # None /\ proc[x].ledger \in Ledger /\ proc[x].prog \in Program \cup {"run", None}
      BY <2>1, <3>1 DEF Sound, WellFormed, Record
    <3>4. KeptLock(proc[x]) = LockOf[proc[x].ledger]
      BY <3>3 DEF KeptLock, FirstLock
    <3>. QED BY <3>2, <3>4
  <2>. QED BY <2>1
<1>. QED BY <1>1, OwnershipInvHolds, PTL
-----------------------------------------------------------------------------
(* The stamps beside a lock.  Only who holds the lock writes them or removes    *)
(* them, so once written they stay until their writer leaves.                   *)

Stamped(p, r, h, pf, vf) ==
    /\ r.at \in {"dropVersion", "dropPid", "unlock"} => h[r.on] = p
    /\ r.at = "stampVersion" => pf[r.on] = p
    /\ r.at \in {"open", "collect"} \/ r.for = "started" =>
         /\ h[KeptLock(r)] = p /\ pf[KeptLock(r)] = p /\ vf[KeptLock(r)] = r.build

StampsInv == \A p \in Pid : Stamped(p, proc[p], held, pidFile, verFile)

(* Nothing of q's changes: neither its locks nor the stamps beside them.       *)
Spares(q) ==
    \A k \in Lock : held[k] = q => held'[k] = q /\ pidFile'[k] = pidFile[k] /\ verFile'[k] = verFile[k]

LEMMA SparedIsStamped ==
    ASSUME OwnershipInv, StampsInv, NEW q \in Pid, Spares(q)
    PROVE  Stamped(q, proc[q], held', pidFile', verFile')
<1> DEFINE r == proc[q]
<1>1. Stamped(q, r, held, pidFile, verFile) /\ Sound(q, r, held)
  BY DEF StampsInv, OwnershipInv
<1>2. ASSUME r.at # "dead" PROVE r.on \in Lock /\ KeptLock(r) \in Lock
  BY <1>2, SoundHere, KeptLockIsTyped
<1>3. r.for = "started" => r.at # "dead"
  BY <1>1 DEF Sound, Staged
<1> HIDE DEF r
<1>4. r.at \in {"stampVersion"} => held[r.on] = q
  BY <1>1 DEF Sound, Holding
<1>5. r.at \in {"dropVersion", "dropPid", "unlock"} => held'[r.on] = q
  BY <1>1, <1>2 DEF Stamped, Spares
<1>6. r.at = "stampVersion" => pidFile'[r.on] = q
  BY <1>1, <1>2, <1>4 DEF Stamped, Spares
<1>7. r.at \in {"open", "collect"} \/ r.for = "started" =>
         held'[KeptLock(r)] = q /\ pidFile'[KeptLock(r)] = q /\ verFile'[KeptLock(r)] = r.build
  BY <1>1, <1>2, <1>3 DEF Stamped, Spares
<1>8. Stamped(q, r, held', pidFile', verFile')
  BY <1>5, <1>6, <1>7 DEF Stamped
<1>. QED BY <1>8 DEF r

LEMMA OneProcessStamps ==
    ASSUME OwnershipInv, StampsInv, NEW p \in Pid, NEW r, Go(p, r),
           \A q \in Pid \ {p} : Spares(q), Stamped(p, r, held', pidFile', verFile')
    PROVE  StampsInv'
<1>1. proc \in [Pid -> Record] /\ proc' = [proc EXCEPT ![p] = r]
  BY RecordIsTyped DEF OwnershipInv, Go
<1>2. ASSUME NEW q \in Pid PROVE Stamped(q, proc'[q], held', pidFile', verFile')
  <2>1. CASE q = p
    BY <1>1, <2>1
  <2>2. CASE q # p
    <3>1. proc'[q] = proc[q] /\ Spares(q)
      BY <1>1, <2>2
    <3>. QED BY <3>1, SparedIsStamped
  <2>. QED BY <2>1, <2>2
<1>. QED BY <1>2 DEF StampsInv

(* At the other stages a process answers for no stamp. *)
Plain(r) == r.at \notin {"dropVersion", "dropPid", "unlock", "stampVersion", "open", "collect"}
            /\ r.for # "started"

LEMMA PlainIsStamped ==
    ASSUME NEW p, NEW r, Plain(r), NEW h, NEW pf, NEW vf
    PROVE  Stamped(p, r, h, pf, vf)
BY DEF Plain, Stamped

LEMMA NewIsPlain ==
    /\ Plain(Dead)
    /\ \A prog, l, b : Plain(Started(prog, l, b))
    /\ \A p : Plain(Spawned(p)) /\ Plain(Resumed(p))
<1>1. Plain(Dead)
  BY DEF Plain, Dead
<1>2. \A prog, l, b : Plain(Started(prog, l, b))
  BY DEF Plain, Started, Dead
<1>. QED BY <1>1, <1>2 DEF Spawned, Resumed

(* Who leaves has the lock it goes for. *)
LEMMA LeavingIsStamped ==
    ASSUME OwnershipInv, NEW p \in Pid, proc[p].at # "dead", NEW pf, NEW vf
    PROVE  Stamped(p, Leaving(p), held, pf, vf)
<1>1. proc[p] \in Record /\ OwnLock(p) \in Lock
  BY SoundHere DEF OwnLock
<1>2. ASSUME NEW k \in Lock, held[k] = p
      PROVE  Stamped(p, [proc[p] EXCEPT !.open = @ /\ Is(p, {"run", "old"}), !.at = "dropVersion",
                                        !.for = "exit", !.on = k], held, pf, vf)
  <2> DEFINE open == proc[p].open /\ Is(p, {"run", "old"})
             r == [proc[p] EXCEPT !.open = open, !.at = "dropVersion", !.for = "exit", !.on = k]
  <2> HIDE DEF open
  <2>1. r.on = k /\ r.at = "dropVersion" /\ r.for = "exit"
    BY <1>1 DEF Record
  <2> HIDE DEF r
  <2>2. Stamped(p, r, held, pf, vf)
    BY <1>2, <2>1 DEF Stamped
  <2>. QED BY <2>2 DEF r, open
<1> DEFINE mine == {k \in Lock : held[k] = p}
<1>3. mine # {} => (CHOOSE k \in mine : TRUE) \in Lock /\ held[CHOOSE k \in mine : TRUE] = p
  OBVIOUS
<1>. QED BY <1>1, <1>2, <1>3, PlainIsStamped, NewIsPlain DEF Leaving

(* The locks a step of p may touch, and the stamps it may write, are p's own. *)
LEMMA OwnLocksSpare ==
    ASSUME OwnershipInv, NEW p \in Pid, UNCHANGED files,
           \A k \in Lock, q \in Pid \ {p} : held[k] = q => held'[k] = q
    PROVE  \A q \in Pid \ {p} : Spares(q)
BY DEF Spares, files

LEMMA OwnStampsSpare ==
    ASSUME OwnershipInv, NEW p \in Pid, NEW j, held[j] = p, UNCHANGED held,
           \A k \in Lock \ {j} : pidFile'[k] = pidFile[k] /\ verFile'[k] = verFile[k]
    PROVE  \A q \in Pid \ {p} : Spares(q)
BY DEF Spares

LEMMA SignalStamps ==
    ASSUME OwnershipInv, StampsInv, NEW p \in Pid, Signal(p)
    PROVE  StampsInv'
<1>1. proc[p].at = "signal"
  BY DEF Signal, At
<1>2. TypeOK /\ proc[p] \in Record /\ WellFormed(proc[p]) /\ Staged(proc[p])
  BY <1>1, SoundHere
<1> DEFINE waiting == [proc[p] EXCEPT !.at = "probe", !.for = "stop", !.pid = None]
           q == proc[p].pid
<1>3. Plain(waiting) /\ q \in Pid /\ proc \in [Pid -> Record] /\ UNCHANGED files
  BY <1>1, <1>2, RecordIsTyped DEF Plain, Record, WellFormed, Signal
<1> HIDE DEF waiting, q
<1>4. CASE At(q, "collect") /\ Handles(q)
           /\ proc' = [proc EXCEPT ![p] = waiting, ![q] = Leaving(q)] /\ UNCHANGED held
  <2>1. Stamped(q, Leaving(q), held', pidFile', verFile')
    BY <1>3, <1>4, LeavingIsStamped DEF At
  <2>2. ASSUME NEW x \in Pid PROVE Stamped(x, proc'[x], held', pidFile', verFile')
    <3>1. Stamped(x, proc[x], held', pidFile', verFile')
      BY <1>3, <1>4, SparedIsStamped DEF Spares, files
    <3>. QED BY <1>3, <1>4, <2>1, <3>1, PlainIsStamped
  <2>. QED BY <2>2 DEF StampsInv
<1>5. CASE proc' = [proc EXCEPT ![p] = waiting, ![q] = Dead] /\ held' = Without(q)
  <2>1. ASSUME NEW x \in Pid PROVE Stamped(x, proc'[x], held', pidFile', verFile')
    <3>1. CASE x # q /\ x # p
      <4>1. Spares(x) /\ proc'[x] = proc[x]
        BY <1>3, <1>5, <3>1, DropsLocks DEF Spares, files
      <4>. QED BY <4>1, SparedIsStamped
    <3>2. CASE x \in {p, q}
      <4>1. proc'[x] \in {waiting, Dead}
        BY <1>3, <1>5, <3>2
      <4>. QED BY <1>3, <4>1, PlainIsStamped, NewIsPlain
    <3>. QED BY <3>1, <3>2
  <2>. QED BY <2>1 DEF StampsInv
<1>6. CASE Go(p, waiting) /\ UNCHANGED held
  <2>1. \A x \in Pid \ {p} : Spares(x)
    BY <1>3, <1>6, LeavesLocks, OwnLocksSpare
  <2>. QED BY <1>3, <1>6, <2>1, PlainIsStamped, OneProcessStamps
<1>. QED BY <1>4, <1>5, <1>6 DEF Signal, waiting, q

(* A step that looks, asks or waits, and leaves the files alone. *)
LEMMA PlainStep ==
    ASSUME OwnershipInv, StampsInv, NEW p \in Pid, NEW r, Go(p, r), Plain(r), UNCHANGED files,
           \A k \in Lock, q \in Pid \ {p} : held[k] = q => held'[k] = q
    PROVE  StampsInv'
BY OwnLocksSpare, PlainIsStamped, OneProcessStamps

LEMMA LookingStamps ==
    ASSUME OwnershipInv, StampsInv, NEW p \in Pid,
           Probe(p) \/ ReadPid(p) \/ ReadVersion(p) \/ Owner(p)
    PROVE  StampsInv'
<1>1. proc[p].at \in {"probe", "readPid", "readVersion", "owner"}
  BY DEF Probe, ReadPid, ReadVersion, Owner, At
<1>2. TypeOK /\ proc[p] \in Record /\ Staged(proc[p]) /\ proc[p].on \in Lock
  BY <1>1, SoundHere
<1>3. proc[p].for # "started" /\ UNCHANGED files
  BY <1>1, <1>2 DEF Staged, Probe, ReadPid, ReadVersion, Owner
<1>4. \A k \in Lock, q \in Pid \ {p} : held[k] = q => held'[k] = q
  <2>1. CASE UNCHANGED held
    BY <2>1, LeavesLocks
  <2>2. CASE Free(proc[p].on) /\ held' = [held EXCEPT ![proc[p].on] = p]
    BY <1>2, <2>2, TakesLock
  <2>. QED BY <2>1, <2>2 DEF Probe, Running, ReadPid, ReadVersion, Owner
<1>5. ASSUME NEW r, Go(p, r), Plain(r) PROVE StampsInv'
  BY <1>3, <1>4, <1>5, PlainStep
<1>6. /\ \A a \in {"unprobe", "readPid", "owner", "signal"} : Plain([proc[p] EXCEPT !.at = a])
      /\ Plain([proc[p] EXCEPT !.at = "take", !.on = OwnLock(p)])
  BY <1>2, <1>3 DEF Plain, Record
<1>7. CASE Probe(p)
  BY <1>5, <1>6, <1>7, NewIsPlain DEF Probe
<1>8. CASE ReadPid(p)
  <2> DEFINE a == IF proc[p].for = "own" /\ Is(p, {"ensure"}) THEN "readVersion" ELSE "owner"
             r == [proc[p] EXCEPT !.pid = pidFile[proc[p].on], !.at = a]
  <2>1. Plain(r)
    BY <1>2, <1>3 DEF Plain, Record
  <2>2. Go(p, r)
    BY <1>8 DEF ReadPid
  <2>. QED BY <1>5, <2>1, <2>2
<1>9. CASE ReadVersion(p)
  BY <1>5, <1>6, <1>9, NewIsPlain DEF ReadVersion
<1>10. CASE Owner(p)
  <2> DEFINE probing == [proc[p] EXCEPT !.at = "probe", !.for = "own", !.pid = None]
  <2>1. Plain(probing) /\ Plain([probing EXCEPT !.for = "recheck"])
        /\ Plain([probing EXCEPT !.on = OwnLock(p)])
    BY <1>2 DEF Plain, Record
  <2>2. Plain(LegacyVerdict(p))
    BY <2>1, NewIsPlain DEF LegacyVerdict
  <2>. QED BY <1>5, <1>6, <1>10, <2>2, NewIsPlain DEF Owner
<1>. QED BY <1>7, <1>8, <1>9, <1>10

LEMMA UnprobeStamps ==
    ASSUME OwnershipInv, StampsInv, NEW p \in Pid, Unprobe(p)
    PROVE  StampsInv'
<1>1. proc[p].at = "unprobe" /\ held' = [held EXCEPT ![proc[p].on] = None] /\ UNCHANGED files
  BY DEF Unprobe, At
<1>2. proc[p] \in Record /\ Staged(proc[p]) /\ proc[p].on \in Lock /\ held[proc[p].on] = p
  BY <1>1, SoundHere DEF Holding
<1>3. proc[p].for # "started"
  BY <1>1, <1>2 DEF Staged
<1>4. /\ Plain([proc[p] EXCEPT !.at = "probe", !.for = "recheck"])
      /\ Plain([proc[p] EXCEPT !.at = "probe", !.for = "own", !.on = OwnLock(p)])
      /\ Plain([proc[p] EXCEPT !.at = "take", !.on = OwnLock(p), !.was = proc[p].for = "stop"])
  BY <1>2, <1>3 DEF Plain, Record
<1>5. Plain(FoundFree(p))
  BY <1>4, NewIsPlain DEF FoundFree
<1>6. Go(p, FoundFree(p)) /\ \A k \in Lock, q \in Pid \ {p} : held[k] = q => held'[k] = q
  BY <1>1, <1>2, GivesLock DEF Unprobe
<1>. QED BY <1>1, <1>5, <1>6, PlainStep

LEMMA TakeStamps ==
    ASSUME OwnershipInv, StampsInv, NEW p \in Pid, TakeFree(p) \/ TakeHeld(p)
    PROVE  StampsInv'
<1>1. proc[p].at = "take" /\ UNCHANGED files
  BY DEF TakeFree, TakeHeld, At
<1>2. proc[p] \in Record /\ Staged(proc[p]) /\ proc[p].on \in Lock
  BY <1>1, SoundHere
<1>3. proc[p].for # "started"
  BY <1>1, <1>2 DEF Staged
<1>4. /\ Plain([proc[p] EXCEPT !.at = "stampPid"])
      /\ Plain([proc[p] EXCEPT !.at = "probe", !.for = "legacy"])
  BY <1>2, <1>3 DEF Plain, Record
<1>5. CASE TakeFree(p)
  <2>1. \A k \in Lock, q \in Pid \ {p} : held[k] = q => held'[k] = q
    BY <1>2, <1>5, TakesLock DEF TakeFree
  <2>. QED BY <1>1, <1>4, <1>5, <2>1, PlainStep DEF TakeFree
<1>6. CASE TakeHeld(p)
  <2>1. UNCHANGED held /\ \A k \in Lock, q \in Pid \ {p} : held[k] = q => held'[k] = q
    BY <1>6, LeavesLocks DEF TakeHeld
  <2>2. Stamped(p, Leaving(p), held', pidFile', verFile')
    BY <1>1, <2>1, LeavingIsStamped
  <2>3. CASE Go(p, Leaving(p))
    BY <1>1, <2>1, <2>2, <2>3, OwnLocksSpare, OneProcessStamps
  <2>4. ASSUME NEW r, Go(p, r), Plain(r) PROVE StampsInv'
    BY <1>1, <2>1, <2>4, PlainStep
  <2>. QED BY <1>4, <1>6, <2>3, <2>4, NewIsPlain DEF TakeHeld
<1>. QED BY <1>5, <1>6

LEMMA StampPidStamps ==
    ASSUME OwnershipInv, StampsInv, NEW p \in Pid, StampPid(p)
    PROVE  StampsInv'
<1> DEFINE r == [proc[p] EXCEPT !.at = "stampVersion"]
<1>1. proc[p].at = "stampPid" /\ UNCHANGED held /\ verFile' = verFile /\ Go(p, r)
  BY DEF StampPid, At
<1>2. /\ TypeOK /\ proc[p] \in Record /\ Staged(proc[p]) /\ proc[p].on \in Lock
      /\ held[proc[p].on] = p
  BY <1>1, SoundHere DEF Holding
<1>3. pidFile'[proc[p].on] = p /\ \A k \in Lock \ {proc[p].on} : pidFile'[k] = pidFile[k]
  BY <1>2 DEF StampPid, TypeOK
<1>4. r.at = "stampVersion" /\ r.on = proc[p].on /\ r.for # "started"
  BY <1>1, <1>2 DEF Record, Staged
<1> HIDE DEF r
<1>5. Stamped(p, r, held', pidFile', verFile')
  BY <1>3, <1>4 DEF Stamped
<1>6. \A q \in Pid \ {p} : Spares(q)
  BY <1>1, <1>2, <1>3, OwnStampsSpare
<1>. QED BY <1>1, <1>5, <1>6, OneProcessStamps

(* Both stamps are there when the ledger is about to be opened.                *)
LEMMA StampVersionStamps ==
    ASSUME OwnershipInv, StampsInv, NEW p \in Pid, StampVersion(p)
    PROVE  StampsInv'
<1>1. proc[p].at = "stampVersion" /\ UNCHANGED held /\ pidFile' = pidFile
  BY DEF StampVersion, At
<1>2. /\ TypeOK /\ proc[p] \in Record /\ Staged(proc[p]) /\ proc[p].on \in Lock
      /\ OwnLock(p) = LockOf[proc[p].ledger] /\ held[proc[p].on] = p /\ proc[p].prog # None
  BY <1>1, SoundHere DEF Holding, OwnLock
<1>3. /\ verFile'[proc[p].on] = proc[p].build /\ pidFile'[proc[p].on] = p
      /\ \A k \in Lock \ {proc[p].on} : verFile'[k] = verFile[k]
  BY <1>1, <1>2 DEF StampVersion, TypeOK, StampsInv, Stamped
<1>4. \A q \in Pid \ {p} : Spares(q)
  BY <1>1, <1>2, <1>3, OwnStampsSpare
<1>5. CASE Is(p, {"run", "once"}) /\ proc[p].on # OwnLock(p)
  <2>1. Plain([proc[p] EXCEPT !.at = "take", !.on = OwnLock(p)])
    BY <1>1, <1>2 DEF Plain, Record, Staged
  <2>. QED BY <1>4, <1>5, <2>1, PlainIsStamped, OneProcessStamps DEF StampVersion
<1>6. CASE ~(Is(p, {"run", "once"}) /\ proc[p].on # OwnLock(p))
  <2> DEFINE r == [proc[p] EXCEPT !.at = "open"]
  <2>1. proc[p].prog \in {"run", "once", "restore", "old"}
    BY <1>1, <1>2, OwnershipAssumption DEF Record, Staged, Judging
  <2>2. KeptLock(proc[p]) = proc[p].on
    BY <1>1, <1>2, <1>6, <2>1 DEF KeptLock, Staged, Is
  <2>3. /\ r.prog = proc[p].prog /\ r.ledger = proc[p].ledger /\ r.at = "open"
        /\ r.build = proc[p].build
    BY <1>2 DEF Record
  <2>4. KeptLock(r) = proc[p].on /\ Go(p, r)
    BY <1>6, <2>2, <2>3 DEF KeptLock, StampVersion
  <2> HIDE DEF r
  <2>5. Stamped(p, r, held', pidFile', verFile')
    BY <1>1, <1>2, <1>3, <2>3, <2>4 DEF Stamped
  <2>. QED BY <1>4, <2>4, <2>5, OneProcessStamps
<1>. QED BY <1>5, <1>6

LEMMA OpenStamps ==
    ASSUME OwnershipInv, StampsInv, NEW p \in Pid, Open(p)
    PROVE  StampsInv'
<1>1. proc[p].at = "open" /\ UNCHANGED <<held, files>>
  BY DEF Open, At
<1>2. /\ proc[p] \in Record /\ proc[p].ledger \in Ledger /\ Staged(proc[p])
      /\ Stamped(p, proc[p], held, pidFile, verFile)
  BY <1>1, SoundHere DEF StampsInv
<1>3. /\ held'[KeptLock(proc[p])] = p /\ pidFile'[KeptLock(proc[p])] = p
      /\ verFile'[KeptLock(proc[p])] = proc[p].build
  BY <1>1, <1>2 DEF Stamped, files
<1>4. \A q \in Pid \ {p} : Spares(q)
  BY <1>1, LeavesLocks, OwnLocksSpare
<1>5. ASSUME NEW r, Go(p, r), r.prog = proc[p].prog, r.ledger = proc[p].ledger,
             r.build = proc[p].build,
             r.at = "collect" \/ (r.at = "dropVersion" /\ held[r.on] = p)
      PROVE  StampsInv'
  <2>1. KeptLock(r) = KeptLock(proc[p])
    BY <1>5 DEF KeptLock
  <2>2. Stamped(p, r, held', pidFile', verFile')
    BY <1>1, <1>3, <1>5, <2>1 DEF Stamped
  <2>. QED BY <1>4, <1>5, <2>2, OneProcessStamps
<1>6. ASSUME Go(p, Leaving(p)) PROVE StampsInv'
  BY <1>1, <1>4, <1>6, LeavingIsStamped, OneProcessStamps
<1> DEFINE opened == [proc[p] EXCEPT !.open = TRUE]
           guard == LegacyOf[proc[p].ledger]
           a == [opened EXCEPT !.at = "dropVersion", !.for = "started", !.on = guard]
           b == [opened EXCEPT !.at = "collect", !.seen = image]
           c == [opened EXCEPT !.at = "collect"]
<1>7. /\ a.prog = proc[p].prog /\ a.ledger = proc[p].ledger /\ a.build = proc[p].build
      /\ a.at = "dropVersion" /\ a.on = guard
      /\ b.prog = proc[p].prog /\ b.ledger = proc[p].ledger /\ b.build = proc[p].build
      /\ b.at = "collect"
      /\ c.prog = proc[p].prog /\ c.ledger = proc[p].ledger /\ c.build = proc[p].build
      /\ c.at = "collect"
  BY <1>2 DEF Record
<1>8. Go(p, Leaving(p)) \/ (Go(p, a) /\ held[guard] = p) \/ Go(p, b) \/ Go(p, c)
  BY DEF Open
<1> HIDE DEF a, b, c
<1>. QED BY <1>5, <1>6, <1>7, <1>8

LEMMA FinishStamps ==
    ASSUME OwnershipInv, StampsInv, NEW p \in Pid, Finish(p)
    PROVE  StampsInv'
<1>1. proc[p].at = "collect" /\ UNCHANGED <<held, files>>
  BY DEF Finish, At
<1>2. \A q \in Pid \ {p} : Spares(q)
  BY <1>1, LeavesLocks, OwnLocksSpare
<1>3. Stamped(p, Leaving(p), held', pidFile', verFile')
  BY <1>1, LeavingIsStamped
<1>4. Stamped(p, [Leaving(p) EXCEPT !.was = FALSE], held', pidFile', verFile')
  <2> DEFINE l == Leaving(p)
             r == [l EXCEPT !.was = FALSE]
  <2>1. proc[p].prog # "ensure"
    BY <1>1, SoundHere DEF Staged, Judging
  <2>2. l \in Record
    BY <1>1, <2>1, LeavingIsSound DEF Sound
  <2> HIDE DEF l
  <2>3. /\ r.prog = l.prog /\ r.ledger = l.ledger /\ r.on = l.on /\ r.at = l.at
        /\ r.for = l.for /\ r.build = l.build
    BY <2>2 DEF Record
  <2>4. KeptLock(r) = KeptLock(l) /\ Stamped(p, l, held', pidFile', verFile')
    BY <1>3, <2>3 DEF KeptLock, l
  <2> HIDE DEF r
  <2>5. Stamped(p, r, held', pidFile', verFile')
    BY <2>3, <2>4 DEF Stamped
  <2>. QED BY <2>5 DEF r, l
<1>. QED BY <1>2, <1>3, <1>4, OneProcessStamps DEF Finish

LEMMA RetireStamps ==
    ASSUME OwnershipInv, StampsInv, NEW p \in Pid, Retire(p)
    PROVE  StampsInv'
<1> DEFINE r == [proc[p] EXCEPT !.at = "dropVersion", !.for = "exec", !.on = OwnLock(p)]
<1>1. proc[p].at = "collect" /\ proc[p].prog = "run" /\ UNCHANGED <<held, files>> /\ Go(p, r)
  BY DEF Retire, At, Is
<1>2. proc[p] \in Record /\ held[OwnLock(p)] = p
  BY <1>1, SoundHere DEF StampsInv, Stamped, KeptLock, OwnLock
<1>3. r.at = "dropVersion" /\ r.for = "exec" /\ r.on = OwnLock(p)
  BY <1>2 DEF Record
<1> HIDE DEF r
<1>4. Stamped(p, r, held', pidFile', verFile')
  BY <1>1, <1>2, <1>3 DEF Stamped
<1>5. \A q \in Pid \ {p} : Spares(q)
  BY <1>1, LeavesLocks, OwnLocksSpare
<1>. QED BY <1>1, <1>4, <1>5, OneProcessStamps

(* The stamps a process removes are beside a lock it holds; those of the lock  *)
(* under which it goes on to collect are beside another.                       *)
LEMMA DropStamps ==
    ASSUME OwnershipInv, StampsInv, NEW p \in Pid, DropVersion(p) \/ DropPid(p)
    PROVE  StampsInv'
<1>1. proc[p].at \in {"dropVersion", "dropPid"} /\ UNCHANGED held
  BY DEF DropVersion, DropPid, At
<1>2. /\ TypeOK /\ proc[p] \in Record /\ Staged(proc[p]) /\ proc[p].on \in Lock
      /\ proc[p].ledger \in Ledger /\ Stamped(p, proc[p], held, pidFile, verFile)
  BY <1>1, SoundHere DEF StampsInv
<1>3. held[proc[p].on] = p
  BY <1>1, <1>2 DEF Stamped
<1>4. \A k \in Lock \ {proc[p].on} : pidFile'[k] = pidFile[k] /\ verFile'[k] = verFile[k]
  BY <1>2 DEF DropVersion, DropPid, TypeOK
<1>5. ASSUME proc[p].for = "started"
      PROVE  /\ held'[KeptLock(proc[p])] = p /\ pidFile'[KeptLock(proc[p])] = p
             /\ verFile'[KeptLock(proc[p])] = proc[p].build
  <2>1. KeptLock(proc[p]) \in Lock \ {proc[p].on}
    BY <1>2, <1>5, LocksAreTyped DEF Staged, KeptLock
  <2>. QED BY <1>1, <1>2, <1>4, <1>5, <2>1 DEF Stamped
<1>6. ASSUME NEW r, Go(p, r), r.prog = proc[p].prog, r.ledger = proc[p].ledger, r.on = proc[p].on,
             r.build = proc[p].build, r.for = proc[p].for, r.at \in {"dropPid", "exec", "unlock"}
      PROVE  StampsInv'
  <2>1. KeptLock(r) = KeptLock(proc[p])
    BY <1>6 DEF KeptLock
  <2>2. Stamped(p, r, held', pidFile', verFile')
    BY <1>1, <1>3, <1>5, <1>6, <2>1 DEF Stamped
  <2>. QED BY <1>1, <1>3, <1>4, <1>6, <2>2, OwnStampsSpare, OneProcessStamps
<1>7. CASE DropVersion(p)
  <2> DEFINE r == [proc[p] EXCEPT !.at = "dropPid"]
  <2>1. /\ r.prog = proc[p].prog /\ r.ledger = proc[p].ledger /\ r.on = proc[p].on
        /\ r.build = proc[p].build /\ r.for = proc[p].for /\ r.at = "dropPid"
    BY <1>2 DEF Record
  <2>2. Go(p, r)
    BY <1>7 DEF DropVersion
  <2> HIDE DEF r
  <2>. QED BY <1>6, <2>1, <2>2
<1>8. CASE DropPid(p)
  <2> DEFINE stage == IF proc[p].for = "exec" THEN "exec" ELSE "unlock"
             open == proc[p].open /\ proc[p].for = "started"
             r == [proc[p] EXCEPT !.at = stage, !.open = open]
  <2> HIDE DEF open
  <2>1. /\ r.prog = proc[p].prog /\ r.ledger = proc[p].ledger /\ r.on = proc[p].on
        /\ r.build = proc[p].build /\ r.for = proc[p].for /\ r.at = stage
    BY <1>2 DEF Record
  <2>2. Go(p, r)
    BY <1>8 DEF DropPid, open
  <2> HIDE DEF r
  <2>. QED BY <1>6, <2>1, <2>2
<1>. QED BY <1>7, <1>8

LEMMA UnlockStamps ==
    ASSUME OwnershipInv, StampsInv, NEW p \in Pid, Unlock(p)
    PROVE  StampsInv'
<1> DEFINE k == proc[p].on
           rest == {j \in Lock \ {k} : held[j] = p}
<1>1. proc[p].at = "unlock" /\ held' = [held EXCEPT ![k] = IF @ = p THEN None ELSE @] /\ UNCHANGED files
  BY DEF Unlock, At
<1>2. /\ TypeOK /\ proc[p] \in Record /\ Staged(proc[p]) /\ k \in Lock
      /\ proc[p].ledger \in Ledger /\ OwnLock(p) = LockOf[proc[p].ledger]
      /\ Stamped(p, proc[p], held, pidFile, verFile)
  BY <1>1, SoundHere DEF StampsInv, OwnLock
<1>3. /\ \A j \in Lock, q \in Pid \ {p} : held[j] = q => held'[j] = q
      /\ \A j \in Lock \ {k} : held'[j] = held[j]
  BY <1>1, <1>2 DEF TypeOK
<1>4. \A q \in Pid \ {p} : Spares(q)
  BY <1>1, <1>3, OwnLocksSpare
<1>5. ASSUME NEW r, Go(p, r), Stamped(p, r, held', pidFile', verFile') PROVE StampsInv'
  BY <1>4, <1>5, OneProcessStamps
<1>6. ASSUME proc[p].for = "started"
      PROVE  Stamped(p, [proc[p] EXCEPT !.at = "collect", !.for = "own", !.on = OwnLock(p), !.seen = image],
                     held', pidFile', verFile')
  <2> DEFINE r == [proc[p] EXCEPT !.at = "collect", !.for = "own", !.on = OwnLock(p), !.seen = image]
  <2>1. /\ r.prog = proc[p].prog /\ r.ledger = proc[p].ledger /\ r.at = "collect"
        /\ r.build = proc[p].build
    BY <1>2 DEF Record
  <2> HIDE DEF r
  <2>2. KeptLock(r) = KeptLock(proc[p]) /\ KeptLock(r) \in Lock \ {k}
    BY <1>2, <1>6, <2>1, LocksAreTyped DEF Staged, KeptLock
  <2>3. Stamped(p, r, held', pidFile', verFile')
    BY <1>1, <1>2, <1>3, <1>6, <2>1, <2>2 DEF Stamped, files
  <2>. QED BY <2>3 DEF r
<1>7. ASSUME proc[p].for # "started", NEW j \in rest
      PROVE  Stamped(p, [proc[p] EXCEPT !.at = "dropVersion", !.on = j], held', pidFile', verFile')
  <2> DEFINE r == [proc[p] EXCEPT !.at = "dropVersion", !.on = j]
  <2>1. r.at = "dropVersion" /\ r.on = j /\ r.for = proc[p].for
    BY <1>2 DEF Record
  <2> HIDE DEF r
  <2>2. Stamped(p, r, held', pidFile', verFile')
    BY <1>3, <1>7, <2>1 DEF Stamped
  <2>. QED BY <2>2 DEF r
<1>8. Stamped(p, Resumed(p), held', pidFile', verFile')
  BY PlainIsStamped, NewIsPlain
<1>9. rest # {} => (CHOOSE j \in rest : TRUE) \in rest
  OBVIOUS
<1> HIDE DEF rest, k
<1>. QED BY <1>5, <1>6, <1>7, <1>8, <1>9 DEF Unlock, rest, k

LEMMA NextStamps ==
    ASSUME OwnershipInv, StampsInv, [Next]_vars
    PROVE  StampsInv'
<1>1. ASSUME NEW p \in Pid, Exec(p) \/ Crash(p) PROVE StampsInv'
  <2>1. PICK r : Go(p, r) /\ Plain(r)
    BY <1>1, NewIsPlain DEF Exec, Crash
  <2>2. UNCHANGED files /\ \A k \in Lock, q \in Pid \ {p} : held[k] = q => held'[k] = q
    BY <1>1, DropsLocks DEF Exec, Crash
  <2>. QED BY <2>1, <2>2, PlainStep
<1>2. ASSUME NEW p \in Pid, Step(p) PROVE StampsInv'
  BY <1>1, <1>2, LookingStamps, UnprobeStamps, SignalStamps, TakeStamps, StampPidStamps,
     StampVersionStamps, OpenStamps, FinishStamps, RetireStamps, DropStamps, UnlockStamps DEF Step
<1>3. ASSUME NEW p \in Pid, NEW prog \in Program, NEW l \in Ledger, Start(p, prog, l) PROVE StampsInv'
  <2>1. PICK r : Go(p, r) /\ Plain(r)
    BY <1>3, NewIsPlain DEF Start
  <2>2. UNCHANGED files /\ \A k \in Lock, q \in Pid \ {p} : held[k] = q => held'[k] = q
    BY <1>3, LeavesLocks DEF Start
  <2>. QED BY <2>1, <2>2, PlainStep
<1>4. CASE Upgrade \/ UNCHANGED vars
  BY <1>4 DEF Upgrade, vars, files, StampsInv
<1>. QED BY <1>1, <1>2, <1>3, <1>4 DEF Next

(* The stamps beside a lock are those of the process that collects under it:   *)
(* for any number of processes, ledgers, upgrades, crashes and re-used pids,   *)
(* and whatever collectors of the time before isolation run.                   *)
THEOREM StampsAreTrue == Spec => []StampsNameCollector
<1>1. Init => OwnershipInv /\ StampsInv
  <2> SUFFICES ASSUME Init PROVE OwnershipInv /\ StampsInv
    OBVIOUS
  <2>1. TypeOK
    BY OwnershipAssumption DEF Init, TypeOK, Dead, Stage
  <2>2. ASSUME NEW p \in Pid PROVE Sound(p, proc[p], held) /\ Stamped(p, proc[p], held, pidFile, verFile)
    BY <2>2, DeadIsSound, PlainIsStamped, NewIsPlain DEF Init
  <2>. QED BY <2>1, <2>2 DEF OwnershipInv, StampsInv
<1>2. StampsInv /\ OwnershipInv /\ [Next]_vars => StampsInv'
  BY NextStamps
<1>3. StampsInv /\ OwnershipInv => StampsNameCollector
  BY DEF StampsInv, Stamped, StampsNameCollector, At, Is, KeptLock, OwnLock
<1>. QED BY <1>1, <1>2, <1>3, OwnershipInvHolds, PTL DEF Spec
=============================================================================
