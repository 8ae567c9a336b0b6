--------------------------- MODULE MCSupervision ---------------------------
(***************************************************************************)
(* Two commands at a time on one machine.  A unit is absent, running,      *)
(* stopped, or failed beside a detached collector, and its file is this    *)
(* build's, one that no longer runs, or the user's.                        *)
(***************************************************************************)
EXTENDS Supervision

Bare == [file |-> None, loaded |-> None, enabled |-> FALSE, state |-> "inactive", runs |-> None,
         fresh |-> FALSE, tries |-> 0, retried |-> FALSE, holder |-> None, spawned |-> FALSE]
Loading(file) == [Bare EXCEPT !.file = file, !.loaded = file]
Serving(file) == [Loading(file) EXCEPT !.enabled = TRUE, !.state = "active", !.runs = file, !.holder = "unit"]
Detached(h) == [h EXCEPT !.holder = "detached"]

On(system, h, programs) == [os : {system}, host : {h}, asks : programs]

MCMachines ==
    On("linux", Bare, {"setup"})
    \cup On("linux", Serving("users"), {"newer", "setup", "force", "removeForce", "maintain"})
    \cup On("linux", Detached([Loading("stale") EXCEPT !.enabled = TRUE, !.state = "failed"]), {None})
    \cup On("linux", Detached([Loading("ours") EXCEPT !.state = "failed"]), {"remove"})
    \cup On("darwin", [Bare EXCEPT !.enabled = TRUE], {"setup"})
    \cup On("darwin", Serving("users"), {"newer", "force", "removeForce", "maintain"})
    \cup On("darwin", Loading("stale"), {"force", "remove"})
=============================================================================
