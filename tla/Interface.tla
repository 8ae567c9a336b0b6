----------------------------- MODULE Interface -----------------------------
(***************************************************************************)
(* The terminal interface while the collector writes the ledger beside it  *)
(* (internal/tui: live.go, detail.go, update.go, workspace_update.go,      *)
(* data.go).                                                               *)
(*                                                                         *)
(* One goroutine, the Bubble Tea loop, owns the model: it handles keys,    *)
(* ticks and messages one at a time.  Queries run in flights beside it,    *)
(* share the answers of one cache with it, and report by a message that    *)
(* may arrive in any order.  A flight is known by the generation of the    *)
(* load (and, for the selection and the inspector, by a sequence number)   *)
(* that was current when it was sent.                                      *)
(*                                                                         *)
(* Time.  The ledger's modification time is the number of writes it has    *)
(* had, and the answer to a query is the number of writes it saw.  The     *)
(* clock a load works under (loadNow) is the number of the load.  The day  *)
(* does not change.                                                        *)
(***************************************************************************)
EXTENDS Naturals, Sequences, FiniteSets, FiniteSetsExt

CONSTANTS Rows,        \* what a selection can be on: a harness, a session
          None,
          Bounds       \* what a behaviour may hold, see bound


VARIABLES
  bound,        \* the view a behaviour opens on (ui-state.json), and at most how many
                \* writes of the ledger, loads, moves of a selection, inspectors opened
                \* and places left it has
  writes,       \* the ledger: how often it was written
  cache,        \* Data.cache and its twins: the answers kept
  cacheGen,     \* which instance of the cache Data holds
  snapshot,     \* Data.snapshotNow: the instant live windows end at
  view, span, scope, group, row,  \* what the user asks for
  fresh,        \* Freshness: "cold", "live", "cutIn" or "stale"
  loadGen,      \* the newest load sent
  lastMTime,    \* the refresh watermark
  refreshing,   \* the loop is between Invalidate and startLoad
  detailSeq, timers,   \* the coalescing token and the armed debounce timers
  flights,      \* the queries that run, or whose message is on its way
  ws, pane,     \* the picture of the workspace, and of the other view shown
  trend,        \* the detail beside the pane's rows
  overlay, codeSeq,    \* the inspector of a session and its token
  history, returnFromActivity,  \* the places to go back to
  (* history variables *)
  dataGen,      \* the load whose data is applied (also the render memo's key)
  invalidated,  \* the writes at the last Invalidate
  stray         \* Back left the activity view and had no place to go to

data    == <<cache, cacheGen, snapshot, invalidated>>
nav     == <<view, span, scope, group, history, returnFromActivity>>
load    == <<fresh, loadGen, lastMTime, dataGen, refreshing>>
detail  == <<detailSeq, timers>>
picture == <<ws, pane, trend, row, stray>>
inspect == <<overlay, codeSeq>>
vars    == <<bound, writes, data, nav, load, detail, flights, picture, inspect>>

View  == {"workspace", "pane", "activity"}
Span  == {"today", "past", "all"}   \* a live window, one stepped back from, and the open one
Scope == {"root", "row"}
Group == {"model", "session"}

(* No picture, no answer and no query is none of the pictures and numbers. *)
ASSUME InterfaceAssumption ==
  /\ None \notin Nat
  /\ None \notin [span : Span, scope : Scope, group : Group \cup {None}, ver : Nat]

----------------------------------------------------------------------------
(* Data *)

(* filterFor, activityFilterFor, cacheKey: only a window that is still     *)
(* open, and only of usage, ends at the snapshot's instant.                *)
Capped(what, s) == s = "today" /\ what \notin {"calls", "code"}

KeyOf(what, s, sc, r, cap) ==
  [what |-> what,
   span |-> IF what = "code" THEN None ELSE s,
   scope |-> IF what = "code" THEN None ELSE sc,
   row |-> IF what \in {"trend", "code"} THEN r ELSE None,
   cap |-> IF Capped(what, s) THEN cap ELSE None]

(* snapshotClock: a flight that was sent for an earlier instance of the    *)
(* cache keeps its own clock and sets nothing.                             *)
Bound(now, obsolete) == IF obsolete \/ snapshot = None THEN now ELSE snapshot
Obsolete(f) == f.cgen # cacheGen

(* cachedSummary; the answers a view's picture takes                       *)
Kept(key)   == {e \in cache : e.key = key}
Needs(v, g) == CASE v = "workspace" -> <<"timeline", g>>
                 [] v = "pane"      -> <<"rows", "trend">>
                 [] v = "activity"  -> <<"calls">>
Here(what)  == KeyOf(what, span, scope, row, Bound(loadGen, FALSE))

(* Invalidate swaps the instances; an answer still on its way to an old    *)
(* one is lost with it.                                                    *)
Invalidate ==
  /\ cache' = {} /\ cacheGen' = cacheGen + 1 /\ snapshot' = None
  /\ invalidated' = writes

----------------------------------------------------------------------------
(* Sending flights.  The two gates: the newest main load, and the newest   *)
(* query behind a selection or an inspector.                               *)
Gate(kind) == IF kind = "load" THEN {"load"} ELSE {"detail", "code"}
(* A cancelled flight bails at its next step, which shows only in its      *)
(* message; a query that runs may still be answered before it is broken    *)
(* off.                                                                    *)
Cancel(f) == IF f.pend # None THEN [f EXCEPT !.cancelled = TRUE]
             ELSE IF f.stage = "done" THEN f
             ELSE [f EXCEPT !.todo = <<>>, !.stage = "done", !.err = TRUE]
CancelAll(fs, kinds) == {IF f.kind \in kinds THEN Cancel(f) ELSE f : f \in fs}

Flight(kind, gen, seq, v, s, sc, g, r, todo, stage) ==
  [kind |-> kind, gen |-> gen, seq |-> seq, view |-> v, span |-> s,
   scope |-> sc, group |-> g, row |-> r, todo |-> todo, stage |-> stage,
   cgen |-> cacheGen, cancelled |-> FALSE, mtime |-> 0, pend |-> None,
   err |-> FALSE]

(* The chip: a picture is held behind it, and a cold interface has none.   *)
ChipHeld == fresh   \* (a fault: the chip is not cut when a load starts)
CutIn == IF fresh = "cold" THEN "cold" ELSE "cutIn"
Held  == IF fresh = "cold" THEN "cold" ELSE "stale"

(* startLoadAfter with loadCmdAfter: a new generation, every flight before *)
(* it cancelled.                                                           *)
startLoad(v, s, sc, g, settle) ==
  /\ loadGen < bound.loads
  /\ loadGen' = loadGen + 1 /\ fresh' = CutIn
  /\ flights' = CancelAll(flights, {"load", "detail", "code"}) \cup
       {Flight("load", loadGen + 1, 0, v, s, sc, g, row, Needs(v, g),
               IF settle THEN "settle" ELSE "stat")}
  /\ stray' = FALSE
  /\ UNCHANGED <<bound, lastMTime, dataGen, refreshing>>

(* scheduleDetail: a sync that missed arms a timer under a new token.      *)
unscheduled(wanted) == UNCHANGED detail   \* (a fault: nobody arms the timer)
schedule(wanted) ==
  IF wanted
  THEN /\ detailSeq' = detailSeq + 1 /\ timers' = timers \cup {detailSeq + 1}
  ELSE UNCHANGED detail

----------------------------------------------------------------------------
(* Inside a flight *)
Update(f, g) == flights' = (flights \ {f}) \cup {g}
Done(f)      == f.stage = "done" /\ ~refreshing   \* its message, when the loop is free
FinishStat(f) == [f EXCEPT !.todo = <<>>, !.stage = "done", !.mtime = writes]   \* (a fault: the ledger's time is taken after the queries)
Finish(f)    == [f EXCEPT !.todo = <<>>, !.stage = "done"]
Next1(f)     == IF Len(f.todo) = 1 THEN Finish(f) ELSE [f EXCEPT !.todo = Tail(f.todo)]
(* A query that fails ends the flight, except that the detail of a pane    *)
(* fails for itself: its load goes on without it.                          *)
Broken(f) == IF f.kind = "load" /\ Head(f.todo) = "trend" /\ ~f.cancelled THEN Next1(f)
             ELSE [Finish(f) EXCEPT !.err = TRUE]
(* What a flight's message is compared with before it is applied.          *)
Whatever(f) == FALSE   \* (a fault: the generation is not compared)
Superseded(f) == f.gen # loadGen
Overtaken(f)  == Superseded(f) \/ f.seq # (IF f.kind = "code" THEN codeSeq ELSE detailSeq)

(* The delay of a load nobody has seen yet                                 *)
Settle(f) ==
  /\ f.stage = "settle"
  /\ Update(f, [f EXCEPT !.stage = "stat"])
  /\ UNCHANGED <<bound, writes, data, nav, load, detail, picture, inspect>>

Stat(f) ==
  /\ f.stage = "stat"
  /\ Update(f, [f EXCEPT !.stage = "run", !.mtime = writes])
  /\ UNCHANGED <<bound, writes, data, nav, load, detail, picture, inspect>>

(* summarize, and its twins: what is kept is served; else a query runs,    *)
(* and holds on to the instance of the cache its answer will go to.        *)
Query(f) ==
  /\ f.stage = "run" /\ f.pend = None
  /\ LET what == Head(f.todo)
         key  == KeyOf(what, f.span, f.scope, f.row, Bound(f.gen, Obsolete(f)))
         seeds == Capped(what, f.span) /\ ~Obsolete(f) /\ snapshot = None
     IN /\ snapshot' = IF seeds THEN f.gen ELSE snapshot
        /\ \/ Kept(key) # {} /\ \E e \in Kept(key) :
                Update(f, IF e.ok THEN Next1(f) ELSE Broken(f))
           \/ /\ Kept(key) = {}
              /\ Update(f, [f EXCEPT !.pend = [key |-> key, ver |-> writes,
                                               into |-> cacheGen]])
  /\ UNCHANGED <<bound, writes, cache, cacheGen, invalidated, nav, load, detail,
                 picture, inspect>>

(* An answer is put into the instance its query was started against.       *)
Anywhere(into) == TRUE   \* (a fault: into the cache Data holds by then)
Lands(into) == into = cacheGen
Entry(key, ver, ok, gen) == [key |-> key, ver |-> ver, ok |-> ok, gen |-> gen]
ByLoad(f) == IF f.kind = "load" THEN f.gen ELSE None

(* The query returns.  Only SessionCodeChanges keeps a failure, and not    *)
(* that of a flight cancelled meanwhile.                                   *)
Answer(f) ==
  /\ f.stage = "run" /\ f.pend # None
  /\ \E ok \in BOOLEAN :
       LET keeps == IF f.kind = "code" THEN ~f.cancelled ELSE ok
           g     == [f EXCEPT !.pend = None]
       IN /\ Update(f, IF ok /\ ~f.cancelled THEN Next1(g) ELSE Broken(g))
          /\ cache' = IF keeps /\ Lands(f.pend.into)
                      THEN cache \cup {Entry(f.pend.key, f.pend.ver, ok, ByLoad(f))}
                      ELSE cache
  /\ UNCHANGED <<bound, writes, cacheGen, snapshot, invalidated, nav, load, detail,
                 picture, inspect>>

----------------------------------------------------------------------------
(* Applying what arrived *)
Ready      == \A i \in 1..2 : Kept(Here(Needs("workspace", group)[i])) # {}
Oldest(es) == Min({e.ver : e \in es})
Pic(s, sc, g, v) == [span |-> s, scope |-> sc, group |-> g, ver |-> v]
Workspace  == Pic(span, scope, group,
                  Oldest(UNION {Kept(Here(Needs("workspace", group)[i])) : i \in 1..2}))
Own        == Kept(Here("trend"))

(* syncByToolDetail, syncByModelDetail, syncBrowsePreview: a miss leaves   *)
(* the detail that is there and asks for a load.                           *)
syncDetail(own) == trend' = IF own # {} THEN row ELSE trend

(* The base of the other views is read on the loop when the warm answer is *)
(* not there: ver is its answer, None its failure.                         *)
Base(what, ver) ==
  IF Kept(Here(what)) # {} THEN ver \in {e.ver : e \in Kept(Here(what))}
  ELSE ver \in {writes, None}

applyReload(f) ==
  \/ /\ view = "workspace" /\ Ready
     /\ ws' = Workspace /\ fresh' = "live"
     /\ UNCHANGED <<bound, detail, pane, trend, cache>>
  \/ /\ view = "workspace" /\ ~Ready
     /\ fresh' = CutIn
     /\ schedule(TRUE)
     /\ UNCHANGED <<bound, ws, pane, trend, cache>>
  \/ /\ view # "workspace"
     /\ LET what == Needs(view, group)[1]
        IN \E ver \in {None} \cup (0 .. writes) :
           /\ Base(what, ver)
           /\ \/ /\ ver = None
                 /\ fresh' = Held
                 /\ UNCHANGED <<bound, detail, pane, trend, cache>>
              \/ /\ ver # None
                 /\ fresh' = "live"
                 /\ pane' = Pic(span, scope, None, ver)
                 /\ cache' = IF Kept(Here(what)) # {} THEN cache
                             ELSE cache \cup {Entry(Here(what), ver, TRUE, None)}
                 /\ IF view = "pane"
                    THEN syncDetail(Own) /\ schedule(Own = {})
                    ELSE UNCHANGED <<bound, detail, trend>>
     /\ UNCHANGED ws

handleDataLoaded(f) ==
  /\ Done(f) /\ f.kind = "load"
  /\ flights' = flights \ {f}
  /\ \/ /\ Superseded(f)
        /\ UNCHANGED <<bound, data, load, detail, picture>>
     \/ /\ ~Superseded(f) /\ f.err
        /\ fresh' = Held
        /\ UNCHANGED <<bound, data, loadGen, lastMTime, dataGen, refreshing, detail, picture>>
     \/ /\ ~Superseded(f) /\ ~f.err
        /\ lastMTime' = f.mtime /\ dataGen' = f.gen
        /\ applyReload(f)
        /\ UNCHANGED <<bound, cacheGen, snapshot, invalidated, loadGen, refreshing, row, stray>>
  /\ UNCHANGED <<bound, writes, nav, inspect>>

(* handleDetailDebounce and detailLoadCmd: only the last timer armed still *)
(* sends a flight, for what is selected by then.                           *)
handleDetailDebounce(seq) ==
  /\ seq \in timers /\ ~refreshing
  /\ timers' = timers \ {seq}
  /\ flights' = IF seq # detailSeq THEN flights
                ELSE CancelAll(flights, Gate("detail")) \cup
                     {Flight("detail", loadGen, seq, view, span, scope, group, row,
                             CASE view = "workspace" -> Needs(view, group)
                               [] view = "pane" -> <<"trend">>
                               [] OTHER -> <<>>,
                             IF view = "activity" THEN "done" ELSE "run")}
  /\ UNCHANGED <<bound, writes, data, nav, load, detailSeq, picture, inspect>>

(* handleDetailLoaded: the sync again, now warm.  A flight that failed is  *)
(* not sent again: the pane, or the chip, says so.                         *)
handleDetailLoaded(f) ==
  /\ Done(f) /\ f.kind = "detail"
  /\ flights' = flights \ {f}
  /\ IF Overtaken(f)
     THEN UNCHANGED <<bound, fresh, detail, ws, trend>>
     ELSE \/ /\ view = "workspace" /\ Ready
             /\ ws' = Workspace /\ fresh' = "live"
             /\ UNCHANGED <<bound, detail, trend>>
          \/ /\ view = "workspace" /\ ~Ready
             /\ fresh' = IF f.err THEN "stale" ELSE CutIn
             /\ schedule(~f.err)
             /\ UNCHANGED <<bound, ws, trend>>
          \/ /\ view = "pane"
             /\ IF f.err /\ Own = {} THEN trend' = "failed" ELSE syncDetail(Own)
             /\ schedule(~f.err /\ Own = {})
             /\ UNCHANGED <<bound, fresh, ws>>
          \/ view = "activity" /\ UNCHANGED <<bound, fresh, detail, ws, trend>>
  /\ UNCHANGED <<bound, writes, data, nav, loadGen, lastMTime, dataGen, refreshing,
                 pane, row, stray, inspect>>

(* handleWorkspaceCode: the counts go to the inspector that asked.         *)
handleWorkspaceCode(f) ==
  /\ Done(f) /\ f.kind = "code"
  /\ flights' = flights \ {f}
  /\ overlay' = IF ~Overtaken(f) /\ overlay # None
                THEN [overlay EXCEPT !.text = IF f.err THEN "failed" ELSE f.row]
                ELSE overlay
  /\ UNCHANGED <<bound, writes, data, nav, load, detail, picture, codeSeq>>

----------------------------------------------------------------------------
(* The user, and the clock.  An open inspector takes every key.            *)
Free == ~refreshing /\ overlay = None
Go(v, s, sc, g) ==
  /\ view' = v /\ span' = s /\ scope' = sc /\ group' = g
Leave(v) == IF v = view THEN UNCHANGED <<bound, pane, trend>> ELSE pane' = None /\ trend' = None

(* setView *)
setView(v) ==
  /\ Free
  /\ Go(v, span, scope, group) /\ Leave(v)
  /\ startLoad(v, span, scope, group, FALSE)
  /\ UNCHANGED <<bound, writes, data, history, returnFromActivity, detail, ws, row, inspect>>

(* cycleRange, outside of the workspace: another range, at the present and *)
(* at the root of the drill.                                               *)
cycleRange(s) ==
  /\ Free /\ view # "workspace" /\ s \notin {span, "past"}
  /\ Go(view, s, "root", group)
  /\ startLoad(view, s, "root", group, FALSE)
  /\ UNCHANGED <<bound, writes, data, history, returnFromActivity, detail, ws, pane, trend, row, inspect>>

(* stepWindow, in every view: the range stays and its window moves; the    *)
(* drill survives.  The open range has none to move, and no window is      *)
(* later than the present one.                                             *)
stepWindow(s) ==
  /\ Free /\ span # "all" /\ s \notin {span, "all"}
  /\ Go(view, s, scope, group)
  /\ startLoad(view, s, scope, group, FALSE)
  /\ UNCHANGED <<bound, writes, data, history, returnFromActivity, detail, ws, pane, trend, row, inspect>>

(* workspaceSetRange: what is cached is applied at once and no flight is   *)
(* sent for it; the load that would have read it is over.                  *)
WarmFor(s) == \A i \in 1..2 :
  Kept(KeyOf(Needs("workspace", group)[i], s, scope, row, Bound(loadGen + 1, FALSE))) # {}
workspaceSetRange(s) ==
  /\ Free /\ view = "workspace" /\ s \notin {span, "past"}
  /\ Go(view, s, scope, group)
  /\ IF WarmFor(s)
     THEN /\ loadGen < bound.loads
          /\ loadGen' = loadGen + 1 /\ dataGen' = loadGen + 1
          /\ flights' = CancelAll(flights, {"load", "detail", "code"})
          /\ fresh' = "live"
          /\ ws' = Pic(s, scope, group, Oldest(UNION
               {Kept(KeyOf(Needs("workspace", group)[i], s, scope, row,
                           Bound(loadGen + 1, FALSE))) : i \in 1..2}))
          /\ stray' = FALSE
          /\ UNCHANGED <<bound, lastMTime, refreshing>>
     ELSE startLoad(view, s, scope, group, TRUE) /\ UNCHANGED ws
  /\ UNCHANGED <<bound, writes, data, history, returnFromActivity, detail, pane, trend, row, inspect>>

(* Another order, another filter: the same questions again, and the cache  *)
(* answers them (updateKey: Sort; updateFiltering: enter).                 *)
Again ==
  /\ Free
  /\ startLoad(view, span, scope, group, FALSE)
  /\ UNCHANGED <<bound, writes, data, nav, detail, ws, pane, trend, row, inspect>>

Place == [scope |-> scope, group |-> IF ws = None THEN group ELSE ws.group]
workspaceSave == Len(history) < bound.history /\ history' = Append(history, Place)

(* workspaceOpen: into the row that is selected in the rows shown          *)
workspaceOpen ==
  /\ Free /\ view = "workspace" /\ fresh # "cutIn" /\ ws # None
  /\ Place.group # "session"
  /\ workspaceSave
  /\ Go(view, ws.span, "row", "session")
  /\ startLoad(view, ws.span, "row", "session", FALSE)
  /\ UNCHANGED <<bound, writes, data, returnFromActivity, detail, ws, pane, trend, row, inspect>>

(* workspaceAction "group:" *)
chooseGroup(g) ==
  /\ Free /\ view = "workspace" /\ g # group
  /\ workspaceSave
  /\ Go(view, span, scope, g)
  /\ startLoad(view, span, scope, g, FALSE)
  /\ UNCHANGED <<bound, writes, data, returnFromActivity, detail, ws, pane, trend, row, inspect>>

(* workspaceAction "activity" *)
showActivity ==
  /\ Free /\ view = "workspace"
  /\ workspaceSave /\ returnFromActivity' = TRUE
  /\ LET s  == IF ws = None THEN span ELSE ws.span
         sc == IF ws = None THEN scope ELSE "row"
     IN Go("activity", s, sc, group) /\ startLoad("activity", s, sc, group, FALSE)
  /\ Leave("activity")
  /\ UNCHANGED <<bound, writes, data, detail, ws, row, inspect>>

(* workspaceBack, for the workspace and as the end of back: to the place   *)
(* left last, else to the root; with neither there is nothing to load.     *)
workspaceBack ==
  \/ /\ history # <<>>
     /\ LET p == history[Len(history)]
        IN /\ Go("workspace", span, p.scope, p.group)
           /\ startLoad("workspace", span, p.scope, p.group, FALSE)
     /\ history' = SubSeq(history, 1, Len(history) - 1)
  \/ /\ history = <<>> /\ scope # "root"
     /\ Go("workspace", span, "root", "model")
     /\ startLoad("workspace", span, "root", "model", FALSE)
     /\ UNCHANGED history
  \/ /\ history = <<>> /\ scope = "root" /\ view # "workspace"
     /\ Go("workspace", span, scope, group)
     /\ stray' = TRUE
     /\ UNCHANGED <<bound, load, flights, history>>

(* back, and Esc in the workspace *)
back ==
  /\ Free
  /\ \/ view = "workspace" /\ workspaceBack /\ UNCHANGED <<bound, returnFromActivity, pane, trend>>
     \/ /\ view = "activity" /\ returnFromActivity
        /\ workspaceBack /\ returnFromActivity' = FALSE /\ Leave("workspace")
     \/ /\ view = "pane" /\ scope # "root"
        /\ Go(view, span, "root", group)
        /\ startLoad(view, span, "root", group, FALSE)
        /\ UNCHANGED <<bound, history, returnFromActivity, pane, trend>>
  /\ UNCHANGED <<bound, writes, data, detail, ws, row, inspect>>

(* drill from a pane into the browser's rows (drillIntoBrowse, drillBrowse) *)
drill ==
  /\ Free /\ view = "pane" /\ pane # None /\ scope = "root"
  /\ Go(view, span, "row", group)
  /\ startLoad(view, span, "row", group, FALSE)
  /\ UNCHANGED <<bound, writes, data, history, returnFromActivity, detail, ws, pane, trend, row, inspect>>

(* setSelection *)
setSelection(r) ==
  /\ Free /\ view = "pane" /\ pane # None /\ r # row /\ detailSeq < bound.details
  /\ row' = r
  /\ LET own == Kept(KeyOf("trend", span, scope, r, Bound(loadGen, FALSE)))
     IN /\ trend' = IF own # {} THEN r ELSE trend
        /\ schedule(own = {})
  /\ UNCHANGED <<bound, writes, data, nav, load, flights, ws, pane, stray, inspect>>

(* workspaceDetails of a session, and Esc out of it                        *)
workspaceDetails(r) ==
  /\ Free /\ view = "workspace" /\ ws # None /\ Place.group = "session"
  /\ codeSeq < bound.inspects
  /\ codeSeq' = codeSeq + 1
  /\ overlay' = [session |-> r, text |-> "loading"]
  /\ flights' = CancelAll(flights, Gate("code")) \cup
       {Flight("code", loadGen, codeSeq + 1, view, span, scope, group, r, <<"code">>, "run")}
  /\ UNCHANGED <<bound, writes, data, nav, load, detail, picture>>

closeOverlay ==
  /\ ~refreshing /\ overlay # None
  /\ overlay' = None
  /\ UNCHANGED <<bound, writes, data, nav, load, detail, flights, picture, codeSeq>>

(* The refresh key, and the tick that finds the ledger written since the   *)
(* picture's data was read (handleRefreshTick).  Flights run on between    *)
(* the loop's two calls.                                                   *)
Refresh ==
  /\ ~refreshing
  /\ \/ overlay = None
     \/ writes > lastMTime
  /\ loadGen < bound.loads
  /\ Invalidate /\ refreshing' = TRUE
  /\ UNCHANGED <<bound, writes, nav, fresh, loadGen, lastMTime, dataGen, detail, flights, picture, inspect>>

handleRefreshTick == writes > lastMTime /\ Refresh

StartRefresh ==
  /\ refreshing
  /\ loadGen' = loadGen + 1 /\ fresh' = CutIn
  /\ flights' = CancelAll(flights, {"load", "detail", "code"}) \cup
       {Flight("load", loadGen + 1, 0, view, span, scope, group, row,
               Needs(view, group), "stat")}
  /\ stray' = FALSE /\ refreshing' = FALSE
  /\ UNCHANGED <<bound, writes, data, nav, lastMTime, dataGen, detail, ws, pane, trend, row, inspect>>

(* The collector *)
Write ==
  /\ writes < bound.writes /\ writes' = writes + 1
  /\ UNCHANGED <<bound, data, nav, load, detail, flights, picture, inspect>>

----------------------------------------------------------------------------
(* NewModel, Init: the first load is on its way, under generation zero.    *)
Init ==
  /\ bound \in Bounds
  /\ writes = 1
  /\ cache = {} /\ cacheGen = 0 /\ snapshot = None /\ invalidated = 0
  /\ view = bound.start /\ span = "today" /\ scope = "root" /\ group = "model"
  /\ history = <<>> /\ returnFromActivity = FALSE
  /\ fresh = "cold" /\ loadGen = 0 /\ lastMTime = 0 /\ dataGen = 0 /\ refreshing = FALSE
  /\ detailSeq = 0 /\ timers = {}
  /\ ws = None /\ pane = None /\ trend = None /\ stray = FALSE
  /\ row = CHOOSE r \in Rows : TRUE
  /\ overlay = None /\ codeSeq = 0
  /\ flights = {Flight("load", 0, 0, view, span, scope, group, row,
                       Needs(view, group), "stat")}

Step(f)    == Settle(f) \/ Stat(f) \/ Query(f) \/ Answer(f)
Deliver(f) == handleDataLoaded(f) \/ handleDetailLoaded(f) \/ handleWorkspaceCode(f)
User ==
  \/ \E v \in View : setView(v)
  \/ \E s \in Span : cycleRange(s) \/ stepWindow(s) \/ workspaceSetRange(s)
  \/ \E g \in Group : chooseGroup(g)
  \/ \E r \in Rows : setSelection(r) \/ workspaceDetails(r)
  \/ Again \/ workspaceOpen \/ showActivity \/ back \/ drill \/ closeOverlay
  \/ Refresh
Flying == \E f \in flights : Step(f) \/ Deliver(f)
Timer  == \E t \in timers : handleDetailDebounce(t)
Next   == User \/ Flying \/ Timer \/ StartRefresh \/ Write

(* The runtime runs every goroutine, delivers every message and fires      *)
(* every timer and tick; nobody has to press a key.                        *)
Fairness == /\ WF_vars(Flying) /\ WF_vars(Timer)
            /\ WF_vars(handleRefreshTick) /\ WF_vars(StartRefresh)
Spec == Init /\ [][Next]_vars /\ Fairness

----------------------------------------------------------------------------
Asked == Pic(span, scope, IF view = "workspace" THEN group ELSE None, 0)
Shown == IF view = "workspace" THEN ws ELSE pane
Same(p, q) == p.span = q.span /\ p.scope = q.scope /\ p.group = q.group
Loading == fresh = "cutIn" \/ (view = "pane" /\ fresh = "live" /\ trend \notin {row, "failed"})

TypeOK ==
  /\ writes \in 1 .. bound.writes
  /\ snapshot \in 0 .. bound.loads \cup {None} /\ cacheGen \in Nat
  /\ view \in View /\ span \in Span /\ scope \in Scope /\ group \in Group /\ row \in Rows
  /\ fresh \in {"cold", "live", "cutIn", "stale"}
  /\ loadGen \in 0 .. bound.loads /\ dataGen \in 0 .. loadGen /\ lastMTime \in 0 .. writes
  /\ timers \subseteq 1 .. detailSeq
  /\ trend \in Rows \cup {None, "failed"}
  /\ Cardinality({f \in flights : f.kind = "load" /\ f.stage # "done" /\ ~f.cancelled}) <= 1
  /\ Cardinality({f \in flights : f.kind # "load" /\ f.stage # "done" /\ ~f.cancelled}) <= 1

(* A picture called live is the answer for the window, the scope and the   *)
(* grouping the user asks for now, whatever loads he went past and in      *)
(* whatever order they came back.  The one way out of the activity view    *)
(* that loads nothing is excepted (stray).                                 *)
LiveIsAsked == fresh = "live" /\ ~stray => Shown # None /\ Same(Shown, Asked)

(* Nothing in the cache, and so no live picture, was read before the cache *)
(* was last swapped: what a refresh threw away does not come back with a   *)
(* flight that was under way, and neither does the instant its windows     *)
(* ended at.                                                               *)
RefreshIsFinal ==
  /\ ~refreshing /\ snapshot # None =>
       \A f \in flights : f.kind = "load" /\ Obsolete(f) => snapshot > f.gen
  /\ \A e \in cache : e.ver >= invalidated
  /\ fresh = "live" /\ ~refreshing /\ ~stray => Shown.ver >= invalidated

(* The refresh watermark is never past what the load that set it read: a   *)
(* write that came in between is found by the next tick.                   *)
WatermarkBeforeReads ==
  \A e \in cache : e.gen = dataGen => e.ver >= lastMTime

(* What an older load brings never replaces what a newer one did, and the  *)
(* refresh watermark never goes back, in whatever order flights return.    *)
NeverRollsBack == [][dataGen' >= dataGen /\ lastMTime' >= lastMTime]_vars

(* The inspector shows the counts of the session it was opened on.         *)
InspectorTellsItsSession ==
  overlay # None => overlay.text \in {"loading", "failed", overlay.session}

(* What the interface shows is what was asked for: the picture and the     *)
(* inspector over it.                                                      *)
ShowsWhatIsAsked == LiveIsAsked /\ InspectorTellsItsSession

(* What is loading ends: the picture comes, or its failure is shown.       *)
LoadingEnds == []<>(~Loading)

============================================================================
