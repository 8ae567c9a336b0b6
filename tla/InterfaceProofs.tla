-------------------------- MODULE InterfaceProofs --------------------------
(***************************************************************************)
(* What holds of Interface for every value of its constants: whatever the  *)
(* user does and in whatever order flights return, the data applied and    *)
(* the refresh watermark only go forward.  One fact carries it: of every   *)
(* generation there is one load, and the one of the newest generation saw  *)
(* the ledger no earlier than the load that set the watermark (NewestLoad).*)
(* And nothing a refresh threw away comes back: a flight belongs to the    *)
(* instance of the cache it was sent under (InstanceInv).  And what is     *)
(* live is what is asked for now: a change of what is asked for cuts the   *)
(* chip or brings its own picture (AskedInv), and a token is borne by one  *)
(* inspector (CodeInv).                                                    *)
(***************************************************************************)
EXTENDS Interface, FiniteSetTheorems, SequenceTheorems, TLAPS

FlightFields ==
  {"kind", "gen", "seq", "view", "span", "scope", "group", "row", "todo", "stage",
   "cgen", "cancelled", "mtime", "pend", "err"}

IsFlight(f) == f = [x \in FlightFields |-> f[x]]

(* The counters of the loop.                                               *)
Counters ==
  /\ writes \in Nat /\ loadGen \in Nat /\ dataGen \in Nat /\ lastMTime \in Nat
  /\ dataGen <= loadGen /\ lastMTime <= writes

(* A flight was sent under a generation that was current, and has seen no  *)
(* write that did not happen.                                              *)
Airworthy(f) ==
  /\ IsFlight(f)
  /\ f.gen \in Nat /\ f.gen <= loadGen
  /\ f.mtime \in Nat /\ f.mtime <= writes

(* Loads are told apart by their generation.                               *)
OneLoadEach ==
  \A f, g \in flights : f.kind = "load" /\ g.kind = "load" /\ f.gen = g.gen => f = g

NewestLoad ==
  \A f \in flights :
    f.kind = "load" /\ f.gen = loadGen /\ f.stage \in {"run", "done"} => lastMTime <= f.mtime

FlightInv ==
  /\ Counters
  /\ \A f \in flights : Airworthy(f)
  /\ OneLoadEach
  /\ NewestLoad

(* g is the flight f, further on.                                          *)
Continues(f, g) ==
  /\ IsFlight(g)
  /\ g.kind = f.kind /\ g.gen = f.gen /\ g.mtime = f.mtime

(* A change of one of a flight's other fields leaves the flight.           *)
LEMMA StageContinues ==
  ASSUME NEW f, IsFlight(f), NEW s
  PROVE  Continues(f, [f EXCEPT !.stage = s])
BY DEF IsFlight, Continues, FlightFields

LEMMA TodoContinues ==
  ASSUME NEW f, IsFlight(f), NEW t
  PROVE  Continues(f, [f EXCEPT !.todo = t])
BY DEF IsFlight, Continues, FlightFields

LEMMA ErrContinues ==
  ASSUME NEW f, IsFlight(f), NEW e
  PROVE  Continues(f, [f EXCEPT !.err = e])
BY DEF IsFlight, Continues, FlightFields

LEMMA PendContinues ==
  ASSUME NEW f, IsFlight(f), NEW p
  PROVE  Continues(f, [f EXCEPT !.pend = p])
BY DEF IsFlight, Continues, FlightFields

LEMMA CancelledContinues ==
  ASSUME NEW f, IsFlight(f)
  PROVE  Continues(f, [f EXCEPT !.cancelled = TRUE])
BY DEF IsFlight, Continues, FlightFields

LEMMA FinishContinues ==
  ASSUME NEW f, IsFlight(f)
  PROVE  Continues(f, Finish(f)) /\ Continues(f, Next1(f)) /\ Continues(f, Broken(f))
<1>1. Continues(f, Finish(f))
  BY DEF Finish, IsFlight, Continues, FlightFields
<1>2. Continues(f, Next1(f))
  BY <1>1, TodoContinues DEF Next1
<1>3. Continues(f, [Finish(f) EXCEPT !.err = TRUE])
  BY <1>1, ErrContinues DEF Continues
<1>. QED BY <1>1, <1>2, <1>3 DEF Broken

LEMMA CancelContinues ==
  ASSUME NEW f, IsFlight(f)
  PROVE  Continues(f, Cancel(f))
<1>1. Continues(f, f)
  BY DEF Continues
<1>2. Continues(f, [f EXCEPT !.todo = <<>>, !.stage = "done", !.err = TRUE])
  BY DEF IsFlight, Continues, FlightFields
<1>. QED BY <1>1, <1>2, CancelledContinues DEF Cancel

(* A new flight.                                                           *)
LEMMA FlightIsFlight ==
  ASSUME NEW kind, NEW gen, NEW seq, NEW v, NEW s, NEW sc, NEW g, NEW r, NEW todo, NEW stage
  PROVE  LET f == Flight(kind, gen, seq, v, s, sc, g, r, todo, stage)
         IN /\ IsFlight(f) /\ f.kind = kind /\ f.gen = gen /\ f.mtime = 0 /\ f.stage = stage
            /\ f.pend = None
BY DEF Flight, IsFlight, FlightFields

(* The flights go on, or new ones are sent; the loop's counters stay.      *)
LEMMA FlightGoesOn ==
  ASSUME FlightInv, NEW f \in flights, NEW g, IsFlight(g),
         g.kind = f.kind, g.gen = f.gen, g.mtime \in Nat, g.mtime <= writes,
         g.kind = "load" /\ g.gen = loadGen /\ g.stage \in {"run", "done"} => lastMTime <= g.mtime,
         Update(f, g), UNCHANGED <<writes, loadGen, dataGen, lastMTime>>
  PROVE  FlightInv'
<1>1. flights' = (flights \ {f}) \cup {g}
  BY DEF Update
<1>2. Counters'
  BY DEF FlightInv, Counters
<1>3. ASSUME NEW h \in flights' PROVE Airworthy(h)'
  BY <1>1 DEF FlightInv, Airworthy
<1>4. OneLoadEach'
  BY <1>1 DEF FlightInv, OneLoadEach
<1>5. NewestLoad'
  <2>. SUFFICES ASSUME NEW h \in flights', h.kind = "load", h.gen = loadGen, h.stage \in {"run", "done"}
                PROVE  lastMTime <= h.mtime
    BY DEF NewestLoad
  <2>1. CASE h = g
    BY <2>1
  <2>2. CASE h # g
    BY <1>1, <2>2 DEF FlightInv, NewestLoad
  <2>. QED BY <2>1, <2>2
<1>. QED BY <1>2, <1>3, <1>4, <1>5 DEF FlightInv

(* Cancelling keeps every flight's kind, generation and time, and leaves   *)
(* those alone that it is not about.                                       *)
LEMMA CancelAllContinues ==
  ASSUME NEW fs, \A f \in fs : IsFlight(f), NEW kinds, NEW g \in CancelAll(fs, kinds)
  PROVE  \E f \in fs : /\ g = IF f.kind \in kinds THEN Cancel(f) ELSE f
                       /\ Continues(f, g)
<1>1. PICK f \in fs : g = IF f.kind \in kinds THEN Cancel(f) ELSE f
  BY DEF CancelAll
<1>2. Continues(f, f) /\ Continues(f, Cancel(f))
  BY CancelContinues DEF Continues
<1>. QED BY <1>1, <1>2

(* New flights, after those of some kinds are cancelled.                   *)
Sends(kinds, new) == flights' = CancelAll(flights, kinds) \cup new

(* Of a new generation at most one load, that has read nothing yet.        *)
NewLoads(new) ==
  /\ \A f \in new : /\ IsFlight(f) /\ f.gen = loadGen + 1 /\ f.mtime = 0
                     /\ f.kind = "load" /\ f.stage \notin {"run", "done"}
  /\ \A f, g \in new : f = g

NewDetails(new) ==
  \A f \in new : IsFlight(f) /\ f.gen = loadGen /\ f.mtime = 0 /\ f.kind # "load"

(* Flights of a new generation, after every flight before it is cancelled. *)
LEMMA LoadIsSent ==
  ASSUME FlightInv, NEW new, NewLoads(new), Sends({"load", "detail", "code"}, new),
         loadGen' = loadGen + 1, dataGen' \in {dataGen, loadGen + 1},
         UNCHANGED <<writes, lastMTime>>
  PROVE  FlightInv'
<1>. DEFINE old == CancelAll(flights, {"load", "detail", "code"})
<1>1. \A f \in flights : IsFlight(f)
  BY DEF FlightInv, Airworthy
<1>2. ASSUME NEW g \in old
      PROVE  \E f \in flights : /\ g = IF f.kind \in {"load", "detail", "code"} THEN Cancel(f) ELSE f
                                /\ Continues(f, g)
  BY <1>1, CancelAllContinues
<1>. HIDE DEF old
<1>3. flights' = old \cup new
  BY DEF old, Sends
<1>. USE DEF NewLoads
<1>4. Counters'
  BY DEF FlightInv, Counters
<1>5. ASSUME NEW g \in old
      PROVE  IsFlight(g) /\ g.gen \in Nat /\ g.gen <= loadGen /\ g.mtime \in Nat /\ g.mtime <= writes
  <2>1. PICK f \in flights : Continues(f, g)
    BY <1>2
  <2>. QED BY <2>1 DEF Continues, FlightInv, Airworthy
<1>6. loadGen \in Nat /\ writes \in Nat
  BY DEF FlightInv, Counters
<1>7. ASSUME NEW h \in flights' PROVE Airworthy(h)'
  BY <1>3, <1>5, <1>6 DEF Airworthy
<1>8. ASSUME NEW f \in flights', NEW g \in flights', f.kind = "load", g.kind = "load", f.gen = g.gen
      PROVE  f = g
  <2>1. CASE f \in old /\ g \in old
    <3>1. PICK a \in flights : /\ f = IF a.kind \in {"load", "detail", "code"} THEN Cancel(a) ELSE a
                               /\ Continues(a, f)
      BY <1>2, <2>1
    <3>2. PICK b \in flights : /\ g = IF b.kind \in {"load", "detail", "code"} THEN Cancel(b) ELSE b
                               /\ Continues(b, g)
      BY <1>2, <2>1
    <3>3. a.kind = "load" /\ b.kind = "load" /\ a.gen = b.gen
      BY <1>8, <3>1, <3>2 DEF Continues
    <3>4. a = b
      BY <3>3 DEF FlightInv, OneLoadEach
    <3>. QED BY <3>1, <3>2, <3>4
  <2>2. CASE f \in new /\ g \in new
    BY <2>2
  <2>3. CASE f \in old /\ g \in new
    BY <1>5, <1>6, <1>8, <2>3
  <2>4. CASE f \in new /\ g \in old
    BY <1>5, <1>6, <1>8, <2>4
  <2>. QED BY <1>3, <2>1, <2>2, <2>3, <2>4
<1>9. NewestLoad'
  <2>. SUFFICES ASSUME NEW h \in flights', h.gen = loadGen + 1, h.stage \in {"run", "done"}
                PROVE  FALSE
    BY DEF NewestLoad
  <2>1. h \notin old
    BY <1>5, <1>6
  <2>. QED BY <1>3, <2>1
<1>10. OneLoadEach'
  BY <1>8 DEF OneLoadEach
<1>. QED BY <1>4, <1>7, <1>9, <1>10 DEF FlightInv

(* Queries behind a selection or an inspector: loads are not touched.      *)
LEMMA DetailIsSent ==
  ASSUME FlightInv, NEW kinds, kinds \subseteq {"detail", "code"},
         NEW new, NewDetails(new), Sends(kinds, new),
         UNCHANGED <<writes, loadGen, dataGen, lastMTime>>
  PROVE  FlightInv'
<1>1. \A f \in flights : IsFlight(f)
  BY DEF FlightInv, Airworthy
<1>. DEFINE old == CancelAll(flights, kinds)
<1>2. ASSUME NEW g \in old
      PROVE  \E f \in flights : /\ g = IF f.kind \in kinds THEN Cancel(f) ELSE f
                                /\ Continues(f, g)
  BY <1>1, CancelAllContinues
<1>. HIDE DEF old
<1>3. flights' = old \cup new
  BY DEF old, Sends
<1>. USE DEF NewDetails
<1>4. Counters'
  BY DEF FlightInv, Counters
<1>5. ASSUME NEW g \in old PROVE Airworthy(g)
  <2>1. PICK f \in flights : Continues(f, g)
    BY <1>2
  <2>. QED BY <2>1 DEF Continues, FlightInv, Airworthy
<1>6. ASSUME NEW h \in flights' PROVE Airworthy(h)'
  BY <1>3, <1>4, <1>5 DEF Airworthy, Counters
<1>7. ASSUME NEW g \in flights', g.kind = "load" PROVE g \in flights
  <2>1. g \in old
    BY <1>3, <1>7
  <2>2. PICK f \in flights : /\ g = IF f.kind \in kinds THEN Cancel(f) ELSE f
                             /\ Continues(f, g)
    BY <1>2, <2>1
  <2>3. f.kind \notin kinds
    BY <1>7, <2>2 DEF Continues
  <2>. QED BY <2>2, <2>3
<1>8. OneLoadEach'
  BY <1>7 DEF FlightInv, OneLoadEach
<1>9. NewestLoad'
  BY <1>7 DEF FlightInv, NewestLoad
<1>. QED BY <1>4, <1>6, <1>8, <1>9 DEF FlightInv

(* A message that is taken off, and the load it may have applied.          *)
LEMMA MessageIsTaken ==
  ASSUME FlightInv, NEW f \in flights, flights' = flights \ {f},
         UNCHANGED <<writes, loadGen>>,
         \/ UNCHANGED <<dataGen, lastMTime>>
         \/ /\ f.kind = "load" /\ f.gen = loadGen /\ f.stage = "done"
            /\ dataGen' = f.gen /\ lastMTime' = f.mtime
  PROVE  FlightInv' /\ dataGen' >= dataGen /\ lastMTime' >= lastMTime
<1>1. Airworthy(f)
  BY DEF FlightInv
<1>2. CASE UNCHANGED <<dataGen, lastMTime>>
  BY <1>2 DEF FlightInv, Counters, Airworthy, OneLoadEach, NewestLoad
<1>3. CASE f.kind = "load" /\ f.gen = loadGen /\ f.stage = "done" /\ dataGen' = f.gen /\ lastMTime' = f.mtime
  <2>1. lastMTime <= f.mtime
    BY <1>3 DEF FlightInv, NewestLoad
  <2>2. Counters'
    BY <1>1, <1>3 DEF FlightInv, Counters, Airworthy
  <2>3. \A g \in flights' : Airworthy(g)'
    BY DEF FlightInv, Airworthy
  <2>4. OneLoadEach'
    BY DEF FlightInv, OneLoadEach
  <2>5. NewestLoad'
    BY <1>3 DEF FlightInv, NewestLoad, OneLoadEach
  <2>. QED BY <1>1, <1>3, <2>1, <2>2, <2>3, <2>4, <2>5 DEF FlightInv, Counters, Airworthy
<1>. QED BY <1>2, <1>3

----------------------------------------------------------------------------
(* The steps of a flight *)

(* A flight that runs goes on running, or is done.                         *)
LEMMA RunGoesOn ==
  ASSUME FlightInv, NEW f \in flights, f.stage = "run", NEW g, Continues(f, g),
         Update(f, g), UNCHANGED <<writes, loadGen, dataGen, lastMTime>>
  PROVE  FlightInv'
<1>1. Airworthy(f)
  BY DEF FlightInv
<1>2. g.kind = "load" /\ g.gen = loadGen => lastMTime <= g.mtime
  BY DEF FlightInv, NewestLoad, Continues
<1>. QED BY <1>1, <1>2, FlightGoesOn DEF Continues, Airworthy

LEMMA SettleKeeps ==
  ASSUME FlightInv, NEW f \in flights, Settle(f)
  PROVE  FlightInv'
<1>. DEFINE g == [f EXCEPT !.stage = "stat"]
<1>1. Airworthy(f)
  BY DEF FlightInv
<1>2. Continues(f, g) /\ g.stage = "stat"
  BY <1>1, StageContinues DEF Airworthy, IsFlight, FlightFields
<1>3. Update(f, g) /\ UNCHANGED <<writes, loadGen, dataGen, lastMTime>>
  BY DEF Settle, load
<1>. HIDE DEF g
<1>. QED BY <1>1, <1>2, <1>3, FlightGoesOn DEF Continues, Airworthy

LEMMA StatKeeps ==
  ASSUME FlightInv, NEW f \in flights, Stat(f)
  PROVE  FlightInv'
<1>. DEFINE g == [f EXCEPT !.stage = "run", !.mtime = writes]
<1>1. Airworthy(f)
  BY DEF FlightInv
<1>2. IsFlight(g) /\ g.kind = f.kind /\ g.gen = f.gen /\ g.mtime = writes
  BY <1>1 DEF Airworthy, IsFlight, FlightFields
<1>3. Update(f, g) /\ UNCHANGED <<writes, loadGen, dataGen, lastMTime>>
  BY DEF Stat, load
<1>4. writes \in Nat /\ lastMTime <= writes
  BY DEF FlightInv, Counters
<1>. HIDE DEF g
<1>. QED BY <1>2, <1>3, <1>4, FlightGoesOn

LEMMA QueryKeeps ==
  ASSUME FlightInv, NEW f \in flights, Query(f)
  PROVE  FlightInv'
<1>1. IsFlight(f) /\ f.stage = "run" /\ UNCHANGED <<writes, loadGen, dataGen, lastMTime>>
  BY DEF Query, load, FlightInv, Airworthy
<1>2. PICK key : \/ \E e \in Kept(key) : Update(f, IF e.ok THEN Next1(f) ELSE Broken(f))
                 \/ Update(f, [f EXCEPT !.pend = [key |-> key, ver |-> writes, into |-> cacheGen]])
  BY DEF Query
<1>3. PICK g : Update(f, g) /\ Continues(f, g)
  BY <1>1, <1>2, FinishContinues, PendContinues
<1>. QED BY <1>1, <1>3, RunGoesOn

LEMMA AnswerKeeps ==
  ASSUME FlightInv, NEW f \in flights, Answer(f)
  PROVE  FlightInv'
<1>. DEFINE g == [f EXCEPT !.pend = None]
<1>1. IsFlight(f) /\ f.stage = "run" /\ UNCHANGED <<writes, loadGen, dataGen, lastMTime>>
  BY DEF Answer, load, FlightInv, Airworthy
<1>2. Continues(f, g)
  BY <1>1, PendContinues
<1>3. Update(f, Next1(g)) \/ Update(f, Broken(g))
  BY DEF Answer
<1>. HIDE DEF g
<1>4. Continues(f, Next1(g)) /\ Continues(f, Broken(g))
  BY <1>2, FinishContinues DEF Continues
<1>. QED BY <1>1, <1>3, <1>4, RunGoesOn

----------------------------------------------------------------------------
(* The messages *)

LEMMA LoadMessageKeeps ==
  ASSUME FlightInv, NEW f \in flights, handleDataLoaded(f)
  PROVE  FlightInv' /\ dataGen' >= dataGen /\ lastMTime' >= lastMTime
<1>1. f.kind = "load" /\ f.stage = "done" /\ flights' = flights \ {f} /\ UNCHANGED <<writes, loadGen>>
  BY DEF handleDataLoaded, Done, load
<1>2. \/ UNCHANGED <<dataGen, lastMTime>>
      \/ f.gen = loadGen /\ dataGen' = f.gen /\ lastMTime' = f.mtime
  BY DEF handleDataLoaded, Superseded, load
<1>. QED BY <1>1, <1>2, MessageIsTaken

LEMMA DetailMessageKeeps ==
  ASSUME FlightInv, NEW f \in flights, handleDetailLoaded(f) \/ handleWorkspaceCode(f)
  PROVE  FlightInv'
<1>1. flights' = flights \ {f} /\ UNCHANGED <<writes, loadGen, dataGen, lastMTime>>
  BY DEF handleDetailLoaded, handleWorkspaceCode, load
<1>. QED BY <1>1, MessageIsTaken

LEMMA DebounceKeeps ==
  ASSUME FlightInv, NEW t \in timers, handleDetailDebounce(t)
  PROVE  FlightInv'
<1>1. UNCHANGED <<writes, loadGen, dataGen, lastMTime>>
  BY DEF handleDetailDebounce, load
<1>2. CASE t # detailSeq
  BY <1>1, <1>2 DEF handleDetailDebounce, FlightInv, Counters, Airworthy, OneLoadEach, NewestLoad
<1>3. CASE t = detailSeq
  <2>. DEFINE todo == CASE view = "workspace" -> Needs(view, group)
                        [] view = "pane" -> <<"trend">>
                        [] OTHER -> <<>>
              stage == IF view = "activity" THEN "done" ELSE "run"
              g == Flight("detail", loadGen, t, view, span, scope, group, row, todo, stage)
  <2>1. Sends({"detail", "code"}, {g})
    BY <1>3 DEF handleDetailDebounce, Sends, Gate
  <2>2. NewDetails({g})
    BY FlightIsFlight DEF NewDetails
  <2>. HIDE DEF g
  <2>. QED BY <1>1, <2>1, <2>2, DetailIsSent
<1>. QED BY <1>2, <1>3

----------------------------------------------------------------------------
(* The user *)

LEMMA LoadKeeps ==
  ASSUME FlightInv, NEW v, NEW s, NEW sc, NEW g, NEW settle, startLoad(v, s, sc, g, settle), writes' = writes
  PROVE  FlightInv' /\ dataGen' = dataGen /\ lastMTime' = lastMTime
<1>. DEFINE stage == IF settle THEN "settle" ELSE "stat"
            new == Flight("load", loadGen + 1, 0, v, s, sc, g, row, Needs(v, g), stage)
<1>1. /\ Sends({"load", "detail", "code"}, {new})
      /\ loadGen' = loadGen + 1 /\ UNCHANGED <<dataGen, lastMTime>>
  BY DEF startLoad, Sends
<1>2. NewLoads({new})
  BY FlightIsFlight DEF NewLoads
<1>. HIDE DEF new
<1>. QED BY <1>1, <1>2, LoadIsSent

LEMMA StartRefreshKeeps ==
  ASSUME FlightInv, StartRefresh
  PROVE  FlightInv' /\ dataGen' = dataGen /\ lastMTime' = lastMTime
<1>. DEFINE new == Flight("load", loadGen + 1, 0, view, span, scope, group, row, Needs(view, group), "stat")
<1>1. /\ Sends({"load", "detail", "code"}, {new})
      /\ loadGen' = loadGen + 1 /\ UNCHANGED <<writes, dataGen, lastMTime>>
  BY DEF StartRefresh, Sends
<1>2. NewLoads({new})
  BY FlightIsFlight DEF NewLoads
<1>. HIDE DEF new
<1>. QED BY <1>1, <1>2, LoadIsSent

(* A warm window is applied at once, under a generation of its own.        *)
LEMMA SetRangeKeeps ==
  ASSUME FlightInv, NEW s, workspaceSetRange(s)
  PROVE  FlightInv' /\ dataGen' >= dataGen /\ lastMTime' = lastMTime
<1>1. CASE WarmFor(s)
  <2>1. /\ Sends({"load", "detail", "code"}, {})
        /\ loadGen' = loadGen + 1 /\ dataGen' = loadGen + 1 /\ UNCHANGED <<writes, lastMTime>>
    BY <1>1 DEF workspaceSetRange, Sends
  <2>2. NewLoads({})
    BY DEF NewLoads
  <2>3. FlightInv'
    BY <2>1, <2>2, LoadIsSent
  <2>. QED BY <2>1, <2>3 DEF FlightInv, Counters
<1>2. CASE ~WarmFor(s)
  <2>1. startLoad(view, s, scope, group, TRUE) /\ writes' = writes
    BY <1>2 DEF workspaceSetRange
  <2>2. FlightInv' /\ dataGen' = dataGen /\ lastMTime' = lastMTime
    BY <2>1, LoadKeeps
  <2>. QED BY <2>2 DEF FlightInv, Counters
<1>. QED BY <1>1, <1>2

LEMMA DetailsKeep ==
  ASSUME FlightInv, NEW r, workspaceDetails(r)
  PROVE  FlightInv'
<1>. DEFINE g == Flight("code", loadGen, codeSeq + 1, view, span, scope, group, r, <<"code">>, "run")
<1>1. Sends({"detail", "code"}, {g}) /\ UNCHANGED <<writes, loadGen, dataGen, lastMTime>>
  BY DEF workspaceDetails, load, Sends, Gate
<1>2. NewDetails({g})
  BY FlightIsFlight DEF NewDetails
<1>. HIDE DEF g
<1>. QED BY <1>1, <1>2, DetailIsSent

(* What neither sends nor takes off a flight.                              *)
LEMMA StillKeeps ==
  ASSUME FlightInv, writes' \in Nat, writes' >= writes,
         UNCHANGED <<flights, loadGen, dataGen, lastMTime>>
  PROVE  FlightInv'
BY DEF FlightInv, Counters, Airworthy, OneLoadEach, NewestLoad

(* back loads the place left last, or the root, or nothing.                *)
LEMMA BackKeeps ==
  ASSUME FlightInv, back
  PROVE  FlightInv' /\ dataGen' = dataGen /\ lastMTime' = lastMTime
<1>1. writes' = writes
  BY DEF back
<1>2. CASE workspaceBack
  <2>1. CASE \E v, s, sc, g : startLoad(v, s, sc, g, FALSE)
    BY <1>1, <2>1, LoadKeeps
  <2>2. CASE UNCHANGED <<load, flights>>
    BY <1>1, <2>2, StillKeeps DEF load, FlightInv, Counters
  <2>. QED BY <1>2, <2>1, <2>2 DEF workspaceBack
<1>3. CASE startLoad(view, span, "root", group, FALSE)
  BY <1>1, <1>3, LoadKeeps
<1>. QED BY <1>2, <1>3 DEF back

LEMMA UserKeeps ==
  ASSUME FlightInv, User
  PROVE  FlightInv' /\ dataGen' >= dataGen /\ lastMTime' >= lastMTime
<1>1. dataGen \in Nat /\ lastMTime \in Nat /\ writes \in Nat
  BY DEF FlightInv, Counters
<1>2. ASSUME NEW v \in View, setView(v)
      PROVE  FlightInv' /\ dataGen' = dataGen /\ lastMTime' = lastMTime
  BY <1>2, LoadKeeps DEF setView
<1>3. ASSUME NEW s \in Span, cycleRange(s)
      PROVE  FlightInv' /\ dataGen' = dataGen /\ lastMTime' = lastMTime
  BY <1>3, LoadKeeps DEF cycleRange
<1>3s. ASSUME NEW s \in Span, stepWindow(s)
      PROVE  FlightInv' /\ dataGen' = dataGen /\ lastMTime' = lastMTime
  BY <1>3s, LoadKeeps DEF stepWindow
<1>4. ASSUME NEW g \in Group, chooseGroup(g)
      PROVE  FlightInv' /\ dataGen' = dataGen /\ lastMTime' = lastMTime
  BY <1>4, LoadKeeps DEF chooseGroup
<1>5. ASSUME Again \/ workspaceOpen \/ showActivity \/ drill
      PROVE  FlightInv' /\ dataGen' = dataGen /\ lastMTime' = lastMTime
  BY <1>5, LoadKeeps DEF Again, workspaceOpen, showActivity, drill
<1>6. ASSUME NEW r \in Rows, setSelection(r)
      PROVE  FlightInv' /\ dataGen' = dataGen /\ lastMTime' = lastMTime
  BY <1>6, <1>1, StillKeeps DEF setSelection, load
<1>7. ASSUME NEW r \in Rows, workspaceDetails(r)
      PROVE  FlightInv' /\ dataGen' = dataGen /\ lastMTime' = lastMTime
  BY <1>7, DetailsKeep DEF workspaceDetails, load
<1>8. ASSUME closeOverlay \/ Refresh
      PROVE  FlightInv' /\ dataGen' = dataGen /\ lastMTime' = lastMTime
  BY <1>8, <1>1, StillKeeps DEF closeOverlay, Refresh, load
<1>9. ASSUME back
      PROVE  FlightInv' /\ dataGen' = dataGen /\ lastMTime' = lastMTime
  BY <1>9, BackKeeps
<1>10. ASSUME NEW s \in Span, workspaceSetRange(s)
       PROVE  FlightInv' /\ dataGen' >= dataGen /\ lastMTime' = lastMTime
  BY <1>10, SetRangeKeeps
<1>. QED BY <1>1, <1>2, <1>3, <1>3s, <1>4, <1>5, <1>6, <1>7, <1>8, <1>9, <1>10 DEF User

----------------------------------------------------------------------------
LEMMA InitKeeps ==
  ASSUME Init
  PROVE  FlightInv
<1>. DEFINE g == Flight("load", 0, 0, view, span, scope, group, row, Needs(view, group), "stat")
<1>1. flights = {g} /\ writes = 1 /\ loadGen = 0 /\ dataGen = 0 /\ lastMTime = 0
  BY DEF Init
<1>2. IsFlight(g) /\ g.gen = 0 /\ g.mtime = 0
  BY FlightIsFlight
<1>. HIDE DEF g
<1>. QED BY <1>1, <1>2 DEF FlightInv, Counters, Airworthy, OneLoadEach, NewestLoad

LEMMA NextKeeps ==
  ASSUME FlightInv, [Next]_vars
  PROVE  FlightInv' /\ dataGen' >= dataGen /\ lastMTime' >= lastMTime
<1>1. dataGen \in Nat /\ lastMTime \in Nat /\ writes \in Nat
  BY DEF FlightInv, Counters
<1>2. CASE User
  BY <1>2, UserKeeps
<1>3. ASSUME NEW f \in flights, Step(f)
      PROVE  FlightInv' /\ UNCHANGED <<dataGen, lastMTime>>
  <2>1. UNCHANGED <<dataGen, lastMTime>>
    BY <1>3 DEF Step, Settle, Stat, Query, Answer, load
  <2>. QED BY <1>3, <2>1, SettleKeeps, StatKeeps, QueryKeeps, AnswerKeeps DEF Step
<1>4. ASSUME NEW f \in flights, Deliver(f)
      PROVE  FlightInv' /\ dataGen' >= dataGen /\ lastMTime' >= lastMTime
  <2>1. CASE handleDataLoaded(f)
    BY <2>1, LoadMessageKeeps
  <2>2. CASE handleDetailLoaded(f) \/ handleWorkspaceCode(f)
    <3>1. UNCHANGED <<dataGen, lastMTime>>
      BY <2>2 DEF handleDetailLoaded, handleWorkspaceCode, load
    <3>. QED BY <1>1, <2>2, <3>1, DetailMessageKeeps
  <2>. QED BY <1>4, <2>1, <2>2 DEF Deliver
<1>5. CASE Flying
  BY <1>1, <1>3, <1>4, <1>5 DEF Flying
<1>6. CASE Timer
  <2>1. PICK t \in timers : handleDetailDebounce(t)
    BY <1>6 DEF Timer
  <2>2. UNCHANGED <<dataGen, lastMTime>>
    BY <2>1 DEF handleDetailDebounce, load
  <2>. QED BY <1>1, <2>1, <2>2, DebounceKeeps
<1>7. CASE StartRefresh
  BY <1>1, <1>7, StartRefreshKeeps
<1>8. CASE Write
  BY <1>1, <1>8, StillKeeps DEF Write, load
<1>9. CASE UNCHANGED vars
  BY <1>1, <1>9, StillKeeps DEF vars, load
<1>. QED BY <1>2, <1>5, <1>6, <1>7, <1>8, <1>9 DEF Next

(* Of every generation there is one load, no flight is of a generation or  *)
(* a write to come, and the newest load saw the ledger no earlier than the *)
(* one whose data is shown.                                                *)
THEOREM FlightsInOrder == Spec => []FlightInv
<1>1. Init => FlightInv
  BY InitKeeps
<1>2. FlightInv /\ [Next]_vars => FlightInv'
  BY NextKeeps
<1>. QED BY <1>1, <1>2, PTL DEF Spec

(* What an older load brings never replaces what a newer one did, and the  *)
(* refresh watermark never goes back: for any number of loads, writes and  *)
(* rows.                                                                   *)
THEOREM NeverRollsBackHolds == Spec => NeverRollsBack
<1>1. FlightInv /\ [Next]_vars => [dataGen' >= dataGen /\ lastMTime' >= lastMTime]_vars
  BY NextKeeps
<1>. QED BY <1>1, FlightsInOrder, PTL DEF Spec, NeverRollsBack

----------------------------------------------------------------------------
(* What the cache holds.  An answer that a load put into it was read after *)
(* the load looked at the ledger's time; so was the one a load waits for.  *)

Pending(f) ==
  f.pend # None => /\ f.stage \in {"run", "done"} /\ f.pend.ver \in Nat
                   /\ f.kind = "load" => f.mtime <= f.pend.ver

(* A load that still flies set nothing: the first one is of the generation *)
(* the empty picture bears.                                                *)
Unapplied(f) == f.kind = "load" /\ f.gen = dataGen => lastMTime = 0

ReadAfter(f, e) ==
  f.kind = "load" /\ f.gen = e.gen => f.stage \in {"run", "done"} /\ f.mtime <= e.ver

Fits(e) ==
  /\ e.ver \in Nat
  /\ e.gen = None \/ (e.gen \in Nat /\ e.gen <= loadGen)
  /\ e.gen = dataGen => lastMTime <= e.ver

CacheInv ==
  /\ FlightInv
  /\ \A f \in flights : Pending(f) /\ Unapplied(f)
  /\ \A e \in cache : Fits(e)
  /\ \A f \in flights, e \in cache : ReadAfter(f, e)

(* g is f further on, with the query it had or with none.                  *)
Onward(f, g) ==
  /\ Continues(f, g)
  /\ g.pend = f.pend \/ g.pend = None
  /\ f.stage \in {"run", "done"} => g.stage \in {"run", "done"}

LEMMA FinishOnward ==
  ASSUME NEW f, IsFlight(f)
  PROVE  Onward(f, Finish(f)) /\ Onward(f, Next1(f)) /\ Onward(f, Broken(f))
<1>1. Finish(f).pend = f.pend /\ Finish(f).stage = "done"
  BY DEF IsFlight, FlightFields, Finish
<1>2. Next1(f).pend = f.pend /\ Next1(f).stage \in {"done", f.stage}
  BY <1>1 DEF Next1, IsFlight, FlightFields
<1>3. IsFlight(Finish(f))
  BY FinishContinues DEF Continues
<1>4. [Finish(f) EXCEPT !.err = TRUE].pend = f.pend /\ [Finish(f) EXCEPT !.err = TRUE].stage = "done"
  BY <1>1, <1>3 DEF IsFlight, FlightFields
<1>5. Broken(f).pend = f.pend /\ Broken(f).stage \in {"done", f.stage}
  BY <1>2, <1>4 DEF Broken
<1>. QED BY <1>1, <1>2, <1>5, FinishContinues DEF Onward

LEMMA CancelOnward ==
  ASSUME NEW f, IsFlight(f)
  PROVE  Onward(f, Cancel(f)) /\ Onward(f, f)
<1>1. Cancel(f).pend = f.pend /\ (Cancel(f).stage = f.stage \/ Cancel(f).stage = "done")
  BY DEF Cancel, IsFlight, FlightFields
<1>. QED BY <1>1, CancelContinues DEF Onward, Continues

(* Every flight is an older one further on, or new and under a generation  *)
(* of its own.                                                             *)
Sent(g) == g.pend = None /\ (g.kind = "load" => g.gen = loadGen + 1 /\ loadGen' = loadGen + 1)
Traced == \A g \in flights' : Sent(g) \/ \E f \in flights : Onward(f, g)

LEMMA SendingTraced ==
  ASSUME FlightInv, NEW kinds, NEW new, Sends(kinds, new), \A g \in new : Sent(g)
  PROVE  Traced
<1>1. \A f \in flights : IsFlight(f)
  BY DEF FlightInv, Airworthy
<1>2. ASSUME NEW g \in CancelAll(flights, kinds) PROVE \E f \in flights : Onward(f, g)
  <2>1. PICK f \in flights : g = IF f.kind \in kinds THEN Cancel(f) ELSE f
    BY CancelAllContinues, <1>1
  <2>. QED BY <1>1, <2>1, CancelOnward
<1>. QED BY <1>2 DEF Traced, Sends

(* What an onward flight keeps.                                            *)
LEMMA OnwardKeeps ==
  ASSUME CacheInv, NEW f \in flights, NEW g, Onward(f, g)
  PROVE  Pending(g) /\ Unapplied(g) /\ \A e \in cache : ReadAfter(g, e)
BY DEF CacheInv, Onward, Continues, Pending, Unapplied, ReadAfter

(* The cache stays, or is swapped for an empty one, while flights go on.   *)
LEMMA CacheCarries ==
  ASSUME CacheInv, FlightInv', Traced, cache' \subseteq cache,
         loadGen' \in {loadGen, loadGen + 1}, lastMTime' = lastMTime,
         \/ dataGen' = dataGen
         \/ /\ dataGen' = loadGen + 1 /\ loadGen' = loadGen + 1
            /\ \A g \in flights' : \E f \in flights : Onward(f, g)
  PROVE  CacheInv'
<1>1. loadGen \in Nat /\ dataGen \in Nat /\ dataGen <= loadGen /\ lastMTime \in Nat
  BY DEF CacheInv, FlightInv, Counters
<1>2. \A f \in flights : f.gen \in Nat /\ f.gen <= loadGen
  BY DEF CacheInv, FlightInv, Airworthy
<1>3. ASSUME NEW g \in flights' PROVE (Pending(g) /\ Unapplied(g))'
  <2>1. CASE Sent(g)
    <3>1. g.kind = "load" => g.gen # dataGen'
      BY <1>1, <1>2, <1>3, <2>1 DEF Sent, Onward, Continues
    <3>. QED BY <2>1, <3>1 DEF Sent, Pending, Unapplied
  <2>2. CASE \E f \in flights : Onward(f, g)
    <3>1. PICK f \in flights : Onward(f, g)
      BY <2>2
    <3>2. Pending(g) /\ Unapplied(g)
      BY <3>1, OnwardKeeps
    <3>3. dataGen' = dataGen \/ g.gen # dataGen'
      BY <1>1, <1>2, <3>1 DEF Onward, Continues
    <3>. QED BY <3>2, <3>3 DEF Pending, Unapplied
  <2>. QED BY <2>1, <2>2 DEF Traced
<1>4. ASSUME NEW e \in cache' PROVE Fits(e)'
  <2>1. Fits(e)
    BY DEF CacheInv
  <2>. QED BY <1>1, <2>1, InterfaceAssumption DEF Fits
<1>5. ASSUME NEW g \in flights', NEW e \in cache' PROVE ReadAfter(g, e)
  <2>1. CASE Sent(g)
    BY <1>1, <2>1, InterfaceAssumption DEF CacheInv, Fits, ReadAfter, Sent
  <2>2. CASE \E f \in flights : Onward(f, g)
    BY <2>2, OnwardKeeps
  <2>. QED BY <2>1, <2>2 DEF Traced
<1>. QED BY <1>3, <1>4, <1>5 DEF CacheInv, ReadAfter

(* One flight goes on.                                                     *)
LEMMA UpdateTraced ==
  ASSUME FlightInv, NEW f \in flights, NEW g, Onward(f, g), Update(f, g)
  PROVE  Traced
BY CancelOnward DEF FlightInv, Airworthy, Update, Traced

LEMMA SettleCache ==
  ASSUME CacheInv, NEW f \in flights, Settle(f)
  PROVE  CacheInv'
<1>. DEFINE g == [f EXCEPT !.stage = "stat"]
<1>1. FlightInv /\ IsFlight(f) /\ f.stage = "settle"
  BY DEF CacheInv, FlightInv, Airworthy, Settle
<1>2. Onward(f, g)
  BY <1>1, StageContinues DEF Onward, IsFlight, FlightFields
<1>3. Update(f, g) /\ UNCHANGED <<cache, loadGen, dataGen, lastMTime>>
  BY DEF Settle, load, data
<1>. HIDE DEF g
<1>4. Traced /\ FlightInv'
  BY <1>1, <1>2, <1>3, UpdateTraced, SettleKeeps
<1>. QED BY <1>3, <1>4, CacheCarries

(* Nothing of the load is in the cache before it looks at the time.        *)
LEMMA StatCache ==
  ASSUME CacheInv, NEW f \in flights, Stat(f)
  PROVE  CacheInv'
<1>. DEFINE g == [f EXCEPT !.stage = "run", !.mtime = writes]
<1>1. FlightInv /\ IsFlight(f) /\ f.stage = "stat" /\ FlightInv'
  BY StatKeeps DEF CacheInv, FlightInv, Airworthy, Stat
<1>2. g.kind = f.kind /\ g.gen = f.gen /\ g.pend = f.pend
  BY <1>1 DEF IsFlight, FlightFields
<1>3. flights' = (flights \ {f}) \cup {g} /\ UNCHANGED <<cache, loadGen, dataGen, lastMTime>>
  BY DEF Stat, Update, load, data
<1>4. f.pend = None
  BY <1>1 DEF CacheInv, Pending
<1>. HIDE DEF g
<1>5. \A e \in cache : f.kind = "load" => f.gen # e.gen
  BY <1>1 DEF CacheInv, ReadAfter
<1>6. Pending(g) /\ Unapplied(g) /\ \A e \in cache : ReadAfter(g, e)
  BY <1>2, <1>4, <1>5 DEF CacheInv, Pending, Unapplied, ReadAfter
<1>7. \A h \in flights' : (Pending(h) /\ Unapplied(h))' /\ \A e \in cache' : ReadAfter(h, e)
  BY <1>3, <1>6 DEF CacheInv, Pending, Unapplied, ReadAfter
<1>8. \A e \in cache' : Fits(e)'
  BY <1>3 DEF CacheInv, Fits
<1>. QED BY <1>1, <1>7, <1>8 DEF CacheInv, ReadAfter

(* A query that starts will have seen all that is written by then.         *)
LEMMA QueryCache ==
  ASSUME CacheInv, NEW f \in flights, Query(f)
  PROVE  CacheInv'
<1>1. FlightInv /\ Airworthy(f) /\ f.stage = "run" /\ FlightInv'
  BY QueryKeeps DEF CacheInv, FlightInv, Query
<1>2. UNCHANGED <<cache, loadGen, dataGen, lastMTime>>
  BY DEF Query, load
<1>3. PICK key : \/ \E e \in Kept(key) : Update(f, IF e.ok THEN Next1(f) ELSE Broken(f))
                 \/ Update(f, [f EXCEPT !.pend = [key |-> key, ver |-> writes, into |-> cacheGen]])
  BY DEF Query
<1>4. CASE \E e \in Kept(key) : Update(f, IF e.ok THEN Next1(f) ELSE Broken(f))
  <2>1. PICK g : Onward(f, g) /\ Update(f, g)
    BY <1>1, <1>4, FinishOnward DEF Airworthy
  <2>2. Traced
    BY <1>1, <2>1, UpdateTraced
  <2>. QED BY <1>1, <1>2, <2>2, CacheCarries
<1>5. CASE Update(f, [f EXCEPT !.pend = [key |-> key, ver |-> writes, into |-> cacheGen]])
  <2>. DEFINE g == [f EXCEPT !.pend = [key |-> key, ver |-> writes, into |-> cacheGen]]
  <2>1. g.kind = f.kind /\ g.gen = f.gen /\ g.mtime = f.mtime /\ g.stage = f.stage /\ g.pend.ver = writes
    BY <1>1 DEF Airworthy, IsFlight, FlightFields
  <2>2. flights' = (flights \ {f}) \cup {g}
    BY <1>5 DEF Update
  <2>. HIDE DEF g
  <2>3. writes \in Nat /\ f.mtime <= writes
    BY <1>1 DEF FlightInv, Counters, Airworthy
  <2>4. Pending(g) /\ Unapplied(g) /\ \A e \in cache : ReadAfter(g, e)
    BY <1>1, <2>1, <2>3 DEF CacheInv, Pending, Unapplied, ReadAfter
  <2>5. \A h \in flights' : (Pending(h) /\ Unapplied(h))' /\ \A e \in cache' : ReadAfter(h, e)
    BY <1>2, <2>2, <2>4 DEF CacheInv, Pending, Unapplied, ReadAfter
  <2>6. \A e \in cache' : Fits(e)'
    BY <1>2 DEF CacheInv, Fits
  <2>. QED BY <1>1, <2>5, <2>6 DEF CacheInv, ReadAfter
<1>. QED BY <1>3, <1>4, <1>5

(* An answer is of the query that its flight waited for.                   *)
LEMMA AnswerCache ==
  ASSUME CacheInv, NEW f \in flights, Answer(f)
  PROVE  CacheInv'
<1>. DEFINE h == [f EXCEPT !.pend = None]
<1>1. FlightInv /\ Airworthy(f) /\ IsFlight(f) /\ f.stage = "run" /\ f.pend # None /\ FlightInv'
  BY AnswerKeeps DEF CacheInv, FlightInv, Answer, Airworthy
<1>2. UNCHANGED <<loadGen, dataGen, lastMTime>>
  BY DEF Answer, load
<1>3. Continues(f, h) /\ h.pend = None /\ h.stage = "run"
  BY <1>1, PendContinues DEF IsFlight, FlightFields
<1>4. Update(f, Next1(h)) \/ Update(f, Broken(h))
  BY DEF Answer
<1>5. PICK e : e.ver = f.pend.ver /\ e.gen = ByLoad(f) /\ cache' \subseteq cache \cup {e}
  <2>. PICK ok \in BOOLEAN : cache' \subseteq cache \cup {Entry(f.pend.key, f.pend.ver, ok, ByLoad(f))}
    BY DEF Answer
  <2>. QED BY DEF Entry
<1>. HIDE DEF h
<1>6. PICK g : Onward(h, g) /\ flights' = (flights \ {f}) \cup {g}
  BY <1>3, <1>4, FinishOnward DEF Update, Continues
<1>7. g.kind = f.kind /\ g.gen = f.gen /\ g.mtime = f.mtime /\ g.pend = None /\ g.stage \in {"run", "done"}
  BY <1>3, <1>6 DEF Onward, Continues
<1>8. f.pend.ver \in Nat /\ (f.kind = "load" => f.mtime <= f.pend.ver /\ (f.gen = dataGen => lastMTime = 0))
  BY <1>1 DEF CacheInv, Pending, Unapplied
<1>9. ASSUME NEW x \in cache' PROVE Fits(x)'
  <2>1. CASE x \in cache
    BY <1>2, <2>1 DEF CacheInv, Fits
  <2>2. CASE x = e
    <3>1. dataGen \in Nat /\ None \notin Nat
      BY <1>1, InterfaceAssumption DEF FlightInv, Counters
    <3>. QED BY <1>1, <1>2, <1>5, <1>8, <2>2, <3>1 DEF Fits, ByLoad, Airworthy
  <2>. QED BY <1>5, <2>1, <2>2
<1>10. ASSUME NEW k \in flights' PROVE (Pending(k) /\ Unapplied(k))'
  BY <1>2, <1>6, <1>7 DEF CacheInv, Pending, Unapplied
<1>11. ASSUME NEW k \in flights', NEW x \in cache' PROVE ReadAfter(k, x)
  <2>1. CASE x \in cache
    BY <1>6, <1>7, <2>1 DEF CacheInv, ReadAfter
  <2>2. CASE x = e
    <3>1. CASE k = g
      BY <1>5, <1>7, <1>8, <2>2, <3>1 DEF ReadAfter
    <3>2. CASE k # g
      <4>1. k \in flights /\ k # f /\ k.gen \in Nat
        BY <1>1, <1>6, <3>2 DEF FlightInv, Airworthy
      <4>2. ~(k.kind = "load" /\ k.gen = e.gen)
        BY <1>1, <1>5, <4>1, InterfaceAssumption DEF FlightInv, OneLoadEach, ByLoad
      <4>. QED BY <2>2, <4>2 DEF ReadAfter
    <3>. QED BY <3>1, <3>2
  <2>. QED BY <1>5, <2>1, <2>2
<1>. QED BY <1>1, <1>9, <1>10, <1>11 DEF CacheInv, ReadAfter

(* A load that is applied set nothing before, and no other load is of its  *)
(* generation.  What the loop reads itself is of no load.                  *)
LEMMA LoadMessageCache ==
  ASSUME CacheInv, NEW f \in flights, handleDataLoaded(f)
  PROVE  CacheInv'
<1>1. FlightInv /\ FlightInv'
  BY LoadMessageKeeps DEF CacheInv
<1>2. f.kind = "load" /\ f.stage = "done" /\ flights' = flights \ {f} /\ UNCHANGED <<writes, loadGen>>
  BY DEF handleDataLoaded, Done, load
<1>3. \/ UNCHANGED <<dataGen, lastMTime>>
      \/ f.gen = loadGen /\ dataGen' = f.gen /\ lastMTime' = f.mtime
  BY DEF handleDataLoaded, Superseded, load
<1>4. loadGen \in Nat /\ dataGen \in Nat /\ writes \in Nat /\ None \notin Nat
  BY <1>1, InterfaceAssumption DEF FlightInv, Counters
<1>5. \/ cache' = cache
      \/ \E e : e.gen = None /\ e.ver \in Nat /\ cache' = cache \cup {e}
  <2>1. CASE UNCHANGED data
    BY <2>1 DEF data
  <2>2. CASE applyReload(f)
    <3>1. CASE cache' = cache
      BY <3>1
    <3>2. CASE \E ver \in {None} \cup (0 .. writes) :
                  ver # None /\ cache' = cache \cup {Entry(Here(Needs(view, group)[1]), ver, TRUE, None)}
      <4>1. PICK ver \in {None} \cup (0 .. writes) :
                  ver # None /\ cache' = cache \cup {Entry(Here(Needs(view, group)[1]), ver, TRUE, None)}
        BY <3>2
      <4>2. ver \in Nat
        BY <1>4, <4>1
      <4>. QED BY <4>1, <4>2 DEF Entry
    <3>. QED BY <2>2, <3>1, <3>2 DEF applyReload
  <2>. QED BY <2>1, <2>2 DEF handleDataLoaded
<1>6. ASSUME NEW e \in cache' PROVE Fits(e)'
  <2>1. CASE e \in cache
    <3>1. f.gen = e.gen => f.mtime <= e.ver
      BY <1>2, <2>1 DEF CacheInv, ReadAfter
    <3>. QED BY <1>2, <1>3, <2>1, <3>1 DEF CacheInv, Fits
  <2>2. CASE e.gen = None /\ e.ver \in Nat
    <3>1. dataGen' \in Nat
      BY <1>3, <1>4
    <3>. QED BY <1>4, <2>2, <3>1 DEF Fits
  <2>. QED BY <1>5, <2>1, <2>2
<1>7. ASSUME NEW g \in flights' PROVE (Pending(g) /\ Unapplied(g))'
  BY <1>1, <1>2, <1>3 DEF CacheInv, FlightInv, OneLoadEach, Pending, Unapplied
<1>8. ASSUME NEW g \in flights', NEW e \in cache' PROVE ReadAfter(g, e)
  <2>1. g \in flights /\ g.gen \in Nat
    BY <1>1, <1>2 DEF FlightInv, Airworthy
  <2>. QED BY <1>4, <1>5, <2>1 DEF CacheInv, ReadAfter
<1>. QED BY <1>1, <1>6, <1>7, <1>8 DEF CacheInv, ReadAfter

(* What neither sends a load nor touches the cache.                        *)
LEMMA DetailCache ==
  ASSUME CacheInv,
         \/ \E f \in flights : handleDetailLoaded(f) \/ handleWorkspaceCode(f)
         \/ \E t \in timers : handleDetailDebounce(t)
         \/ \E r \in Rows : workspaceDetails(r)
  PROVE  CacheInv'
<1>1. FlightInv /\ FlightInv'
  BY DetailMessageKeeps, DebounceKeeps, DetailsKeep DEF CacheInv
<1>2. UNCHANGED <<cache, loadGen, dataGen, lastMTime>>
  BY DEF handleDetailLoaded, handleWorkspaceCode, handleDetailDebounce, workspaceDetails, load, data
<1>3. ASSUME flights' \subseteq flights PROVE Traced
  BY <1>1, <1>3, CancelOnward DEF Traced, FlightInv, Airworthy
<1>4. ASSUME NEW g, NewDetails({g}), g.pend = None, Sends({"detail", "code"}, {g}) PROVE Traced
  BY <1>1, <1>4, SendingTraced DEF NewDetails, Sent
<1>5. ASSUME NEW f \in flights, handleDetailLoaded(f) \/ handleWorkspaceCode(f)
      PROVE  Traced
  BY <1>3, <1>5 DEF handleDetailLoaded, handleWorkspaceCode
<1>6. ASSUME NEW t \in timers, handleDetailDebounce(t)
      PROVE  Traced
  <2>. DEFINE todo == CASE view = "workspace" -> Needs(view, group)
                        [] view = "pane" -> <<"trend">>
                        [] OTHER -> <<>>
              stage == IF view = "activity" THEN "done" ELSE "run"
              g == Flight("detail", loadGen, t, view, span, scope, group, row, todo, stage)
  <2>1. flights' = flights \/ Sends({"detail", "code"}, {g})
    BY <1>6 DEF handleDetailDebounce, Sends, Gate
  <2>2. NewDetails({g}) /\ g.pend = None
    BY FlightIsFlight DEF NewDetails
  <2>. HIDE DEF g
  <2>. QED BY <1>3, <1>4, <2>1, <2>2
<1>7. ASSUME NEW r \in Rows, workspaceDetails(r)
      PROVE  Traced
  <2>. DEFINE g == Flight("code", loadGen, codeSeq + 1, view, span, scope, group, r, <<"code">>, "run")
  <2>1. Sends({"detail", "code"}, {g})
    BY <1>7 DEF workspaceDetails, Sends, Gate
  <2>2. NewDetails({g}) /\ g.pend = None
    BY FlightIsFlight DEF NewDetails
  <2>. HIDE DEF g
  <2>. QED BY <1>4, <2>1, <2>2
<1>8. Traced
  BY <1>5, <1>6, <1>7
<1>. QED BY <1>1, <1>2, <1>8, CacheCarries

(* A load that is sent, with the cache as it is.                           *)
LEMMA LoadCache ==
  ASSUME CacheInv, NEW v, NEW s, NEW sc, NEW g, NEW settle, startLoad(v, s, sc, g, settle),
         writes' = writes, cache' = cache
  PROVE  CacheInv'
<1>. DEFINE stage == IF settle THEN "settle" ELSE "stat"
            new == Flight("load", loadGen + 1, 0, v, s, sc, g, row, Needs(v, g), stage)
<1>1. FlightInv /\ FlightInv'
  BY LoadKeeps DEF CacheInv
<1>2. /\ Sends({"load", "detail", "code"}, {new})
      /\ loadGen' = loadGen + 1 /\ UNCHANGED <<dataGen, lastMTime>>
  BY DEF startLoad, Sends
<1>3. Sent(new)
  BY <1>2, FlightIsFlight DEF Sent
<1>. HIDE DEF new
<1>4. Traced
  BY <1>1, <1>2, <1>3, SendingTraced
<1>. QED BY <1>1, <1>2, <1>4, CacheCarries

LEMMA StartRefreshCache ==
  ASSUME CacheInv, StartRefresh
  PROVE  CacheInv'
<1>. DEFINE new == Flight("load", loadGen + 1, 0, view, span, scope, group, row, Needs(view, group), "stat")
<1>1. FlightInv /\ FlightInv'
  BY StartRefreshKeeps DEF CacheInv
<1>2. /\ Sends({"load", "detail", "code"}, {new})
      /\ loadGen' = loadGen + 1 /\ UNCHANGED <<cache, dataGen, lastMTime>>
  BY DEF StartRefresh, Sends, data
<1>3. Sent(new)
  BY <1>2, FlightIsFlight DEF Sent
<1>. HIDE DEF new
<1>4. Traced
  BY <1>1, <1>2, <1>3, SendingTraced
<1>. QED BY <1>1, <1>2, <1>4, CacheCarries

LEMMA SetRangeCache ==
  ASSUME CacheInv, NEW s, workspaceSetRange(s)
  PROVE  CacheInv'
<1>1. FlightInv /\ FlightInv' /\ writes' = writes /\ cache' = cache
  BY SetRangeKeeps DEF CacheInv, workspaceSetRange, data
<1>2. CASE WarmFor(s)
  <2>1. /\ Sends({"load", "detail", "code"}, {})
        /\ loadGen' = loadGen + 1 /\ dataGen' = loadGen + 1 /\ lastMTime' = lastMTime
    BY <1>2 DEF workspaceSetRange, Sends
  <2>2. \A g \in flights' : \E f \in flights : Onward(f, g)
    <3>1. \A f \in flights : IsFlight(f)
      BY <1>1 DEF FlightInv, Airworthy
    <3>2. ASSUME NEW g \in CancelAll(flights, {"load", "detail", "code"})
          PROVE  \E f \in flights : Onward(f, g)
      BY <3>1, CancelAllContinues, CancelOnward
    <3>. QED BY <2>1, <3>2 DEF Sends
  <2>3. Traced
    BY <2>2 DEF Traced
  <2>. QED BY <1>1, <2>1, <2>2, <2>3, CacheCarries
<1>3. CASE ~WarmFor(s)
  <2>1. startLoad(view, s, scope, group, TRUE)
    BY <1>3 DEF workspaceSetRange
  <2>. QED BY <1>1, <2>1, LoadCache
<1>. QED BY <1>2, <1>3

(* What leaves the flights alone.                                          *)
LEMMA StillCache ==
  ASSUME CacheInv, writes' \in Nat, writes' >= writes, cache' \subseteq cache,
         UNCHANGED <<flights, loadGen, dataGen, lastMTime>>
  PROVE  CacheInv'
<1>1. FlightInv /\ FlightInv'
  BY StillKeeps DEF CacheInv
<1>2. Traced
  BY <1>1, CancelOnward DEF Traced, FlightInv, Airworthy
<1>. QED BY <1>1, <1>2, CacheCarries

LEMMA BackCache ==
  ASSUME CacheInv, back
  PROVE  CacheInv'
<1>1. writes' = writes /\ cache' = cache /\ writes \in Nat
  BY DEF back, data, CacheInv, FlightInv, Counters
<1>2. CASE workspaceBack
  <2>1. CASE \E v, s, sc, g : startLoad(v, s, sc, g, FALSE)
    BY <1>1, <2>1, LoadCache
  <2>2. CASE UNCHANGED <<load, flights>>
    BY <1>1, <2>2, StillCache DEF load
  <2>. QED BY <1>2, <2>1, <2>2 DEF workspaceBack
<1>3. CASE startLoad(view, span, "root", group, FALSE)
  BY <1>1, <1>3, LoadCache
<1>. QED BY <1>2, <1>3 DEF back

LEMMA UserCache ==
  ASSUME CacheInv, User
  PROVE  CacheInv'
<1>1. writes \in Nat
  BY DEF CacheInv, FlightInv, Counters
<1>2. ASSUME NEW v \in View, setView(v) PROVE CacheInv'
  BY <1>2, LoadCache DEF setView, data
<1>3. ASSUME NEW s \in Span, cycleRange(s) PROVE CacheInv'
  BY <1>3, LoadCache DEF cycleRange, data
<1>3s. ASSUME NEW s \in Span, stepWindow(s) PROVE CacheInv'
  BY <1>3s, LoadCache DEF stepWindow, data
<1>4. ASSUME NEW g \in Group, chooseGroup(g) PROVE CacheInv'
  BY <1>4, LoadCache DEF chooseGroup, data
<1>5. ASSUME Again \/ workspaceOpen \/ showActivity \/ drill PROVE CacheInv'
  BY <1>5, LoadCache DEF Again, workspaceOpen, showActivity, drill, data
<1>6. ASSUME NEW r \in Rows, setSelection(r) PROVE CacheInv'
  BY <1>1, <1>6, StillCache DEF setSelection, load, data
<1>7. ASSUME closeOverlay PROVE CacheInv'
  BY <1>1, <1>7, StillCache DEF closeOverlay, load, data
<1>8. ASSUME Refresh PROVE CacheInv'
  BY <1>1, <1>8, StillCache DEF Refresh, Invalidate
<1>9. ASSUME NEW r \in Rows, workspaceDetails(r) PROVE CacheInv'
  BY <1>9, DetailCache
<1>. QED BY <1>2, <1>3, <1>3s, <1>4, <1>5, <1>6, <1>7, <1>8, <1>9, SetRangeCache, BackCache DEF User

LEMMA InitCache ==
  ASSUME Init
  PROVE  CacheInv
<1>. DEFINE g == Flight("load", 0, 0, view, span, scope, group, row, Needs(view, group), "stat")
<1>1. flights = {g} /\ cache = {} /\ lastMTime = 0 /\ FlightInv
  BY InitKeeps DEF Init
<1>2. g.pend = None
  BY FlightIsFlight
<1>. HIDE DEF g
<1>. QED BY <1>1, <1>2 DEF CacheInv, Pending, Unapplied

LEMMA NextCache ==
  ASSUME CacheInv, [Next]_vars
  PROVE  CacheInv'
<1>1. writes \in Nat
  BY DEF CacheInv, FlightInv, Counters
<1>2. CASE User
  BY <1>2, UserCache
<1>3. ASSUME NEW f \in flights, Step(f) PROVE CacheInv'
  BY <1>3, SettleCache, StatCache, QueryCache, AnswerCache DEF Step
<1>4. ASSUME NEW f \in flights, Deliver(f) PROVE CacheInv'
  BY <1>4, LoadMessageCache, DetailCache DEF Deliver
<1>5. CASE Flying
  BY <1>3, <1>4, <1>5 DEF Flying
<1>6. CASE Timer
  BY <1>6, DetailCache DEF Timer
<1>7. CASE StartRefresh
  BY <1>7, StartRefreshCache
<1>8. CASE Write
  BY <1>1, <1>8, StillCache DEF Write, load, data
<1>9. CASE UNCHANGED vars
  BY <1>1, <1>9, StillCache DEF vars, load, data
<1>. QED BY <1>2, <1>5, <1>6, <1>7, <1>8, <1>9 DEF Next

(* The refresh watermark is never past what the load that set it read: a   *)
(* write that came in between is found by the next tick, for any number of *)
(* loads and writes.                                                       *)
THEOREM WatermarkHolds == Spec => []WatermarkBeforeReads
<1>1. Init => CacheInv
  BY InitCache
<1>2. CacheInv /\ [Next]_vars => CacheInv'
  BY NextCache
<1>3. CacheInv => WatermarkBeforeReads
  BY DEF CacheInv, Fits, WatermarkBeforeReads
<1>. QED BY <1>1, <1>2, <1>3, PTL DEF Spec

----------------------------------------------------------------------------
(* What a refresh leaves behind.  A flight belongs to the instance of the  *)
(* cache it was sent under; those of an earlier one are older than every   *)
(* flight of the present one, and so set neither the clock nor the cache.  *)

Instanced(f) == f.cgen \in Nat /\ f.cgen <= cacheGen /\ (refreshing => Obsolete(f))

(* What a query brings into the present instance it read after the swap.   *)
Fresh(f) ==
  f.pend # None => /\ f.pend.into \in Nat /\ f.pend.into <= cacheGen /\ f.pend.ver \in Nat
                   /\ f.pend.into = cacheGen => invalidated <= f.pend.ver

Outdated(f) == f.kind = "load" /\ Obsolete(f)

Instance ==
  /\ cacheGen \in Nat /\ refreshing \in BOOLEAN
  /\ invalidated \in Nat /\ invalidated <= writes
  /\ snapshot \in Nat \cup {None} /\ (refreshing => snapshot = None)

InstanceInv ==
  /\ FlightInv
  /\ Instance
  /\ \A f \in flights : Instanced(f) /\ Fresh(f)
  /\ \A f \in flights : Outdated(f) /\ ~refreshing => f.gen < loadGen
  /\ \A f, g \in flights : Outdated(f) /\ ~Obsolete(g) => f.gen < g.gen
  /\ \A f \in flights : Outdated(f) /\ snapshot # None => f.gen < snapshot
  /\ \A e \in cache : e.ver \in Nat /\ invalidated <= e.ver

(* g is f further on, of the same instance, with the query it had or none,  *)
(* and asks for the same row.                                              *)
Goes(f, g) ==
  /\ IsFlight(g)
  /\ g.kind = f.kind /\ g.gen = f.gen /\ g.cgen = f.cgen
  /\ g.seq = f.seq /\ g.row = f.row
  /\ g.pend = f.pend \/ g.pend = None

LEMMA FinishGoes ==
  ASSUME NEW f, IsFlight(f)
  PROVE  Goes(f, f) /\ Goes(f, Next1(f)) /\ Goes(f, Broken(f))
<1>1. Goes(f, f)
  BY DEF Goes
<1>2. Goes(f, Finish(f)) /\ Goes(f, [f EXCEPT !.todo = Tail(f.todo)])
  BY DEF Goes, Finish, IsFlight, FlightFields
<1>3. Goes(f, Next1(f))
  BY <1>2 DEF Next1
<1>4. \A h : Goes(f, h) => Goes(f, [h EXCEPT !.err = TRUE])
  BY DEF Goes, IsFlight, FlightFields
<1>5. Goes(f, [Finish(f) EXCEPT !.err = TRUE])
  BY <1>2, <1>4
<1>. QED BY <1>1, <1>3, <1>5 DEF Broken

LEMMA CancelGoes ==
  ASSUME NEW f, IsFlight(f)
  PROVE  Goes(f, Cancel(f))
<1>1. Goes(f, f) /\ Goes(f, [f EXCEPT !.cancelled = TRUE])
  BY DEF Goes, IsFlight, FlightFields
<1>2. Goes(f, [f EXCEPT !.todo = <<>>, !.stage = "done", !.err = TRUE])
  BY DEF Goes, IsFlight, FlightFields
<1>. QED BY <1>1, <1>2 DEF Cancel

(* A flight that is sent now: of the present instance, under the newest    *)
(* generation.                                                             *)
Newest(g) == g.cgen = cacheGen /\ g.pend = None /\ g.gen = loadGen'

Carried(new) == \A g \in flights' : g \in new \/ \E f \in flights : Goes(f, g)

LEMMA FlightIsNewest ==
  ASSUME NEW kind, NEW seq, NEW v, NEW s, NEW sc, NEW g, NEW r, NEW todo, NEW stage
  PROVE  Newest(Flight(kind, loadGen', seq, v, s, sc, g, r, todo, stage))
BY DEF Flight, Newest

LEMMA SendingCarried ==
  ASSUME FlightInv, NEW kinds, NEW new, Sends(kinds, new)
  PROVE  Carried(new)
<1>1. \A f \in flights : IsFlight(f)
  BY DEF FlightInv, Airworthy
<1>2. ASSUME NEW g \in CancelAll(flights, kinds) PROVE \E f \in flights : Goes(f, g)
  <2>1. PICK f \in flights : g = IF f.kind \in kinds THEN Cancel(f) ELSE f
    BY DEF CancelAll
  <2>. QED BY <1>1, <2>1, CancelGoes, FinishGoes
<1>. QED BY <1>2 DEF Carried, Sends

LEMMA UpdateCarried ==
  ASSUME FlightInv, NEW f \in flights, NEW g, Goes(f, g), Update(f, g)
  PROVE  Carried({})
BY FinishGoes DEF FlightInv, Airworthy, Update, Carried

(* The instance stays while flights go on and, when no refresh is under    *)
(* way or the load that ends it begins, new ones are sent.                 *)
LEMMA InstanceStays ==
  ASSUME InstanceInv, FlightInv', NEW new, Carried(new), \A g \in new : Newest(g),
         UNCHANGED <<cacheGen, invalidated, snapshot>>,
         \A e \in cache' : e \notin cache => e.ver \in Nat /\ invalidated <= e.ver,
         loadGen' \in {loadGen, loadGen + 1}, writes' >= writes, writes' \in Nat,
         \/ refreshing' = refreshing /\ (refreshing => new = {})
         \/ refreshing /\ ~refreshing' /\ loadGen' = loadGen + 1 /\ refreshing' \in BOOLEAN
  PROVE  InstanceInv'
<1>1. loadGen \in Nat /\ writes \in Nat /\ \A f \in flights : f.gen \in Nat /\ f.gen <= loadGen
  BY DEF InstanceInv, FlightInv, Counters, Airworthy
<1>2. Instance'
  BY <1>1 DEF InstanceInv, Instance
<1>3. ASSUME NEW f \in flights, Outdated(f), ~refreshing' \/ new # {} PROVE f.gen < loadGen'
  BY <1>1, <1>3 DEF InstanceInv, Instance
<1>4. ASSUME NEW g \in flights' PROVE (Instanced(g) /\ Fresh(g))' /\ (Outdated(g)' /\ ~refreshing' => g.gen < loadGen')
  <2>1. CASE g \in new
    BY <2>1 DEF InstanceInv, Instance, Newest, Instanced, Fresh, Obsolete, Outdated
  <2>2. CASE \E f \in flights : Goes(f, g)
    <3>1. PICK f \in flights : Goes(f, g)
      BY <2>2
    <3>2. Instanced(f) /\ Fresh(f)
      BY DEF InstanceInv
    <3>. QED BY <1>3, <3>1, <3>2 DEF Goes, Instanced, Fresh, Obsolete, Outdated
  <2>. QED BY <2>1, <2>2 DEF Carried
<1>5. ASSUME NEW f \in flights', NEW g \in flights', Outdated(f)', ~Obsolete(g)' PROVE f.gen < g.gen
  <2>1. PICK a \in flights : Goes(a, f)
    BY <1>5 DEF Carried, Newest, Outdated, Obsolete
  <2>2. Outdated(a) /\ a.gen = f.gen
    BY <1>5, <2>1 DEF Goes, Outdated, Obsolete
  <2>3. CASE g \in new
    BY <1>3, <2>2, <2>3 DEF Newest
  <2>4. CASE \E b \in flights : Goes(b, g)
    BY <1>5, <2>2, <2>4 DEF InstanceInv, Goes, Obsolete
  <2>. QED BY <2>3, <2>4 DEF Carried
<1>6. ASSUME NEW f \in flights', Outdated(f)', snapshot' # None PROVE f.gen < snapshot'
  <2>1. PICK a \in flights : Goes(a, f)
    BY <1>6 DEF Carried, Newest, Outdated, Obsolete
  <2>. QED BY <1>6, <2>1 DEF InstanceInv, Goes, Outdated, Obsolete
<1>7. \A e \in cache' : e.ver \in Nat /\ invalidated' <= e.ver
  BY DEF InstanceInv
<1>. QED BY <1>2, <1>4, <1>5, <1>6, <1>7 DEF InstanceInv

LEMMA SettleInstance ==
  ASSUME InstanceInv, NEW f \in flights, Settle(f) \/ Stat(f)
  PROVE  InstanceInv'
<1>1. FlightInv /\ FlightInv' /\ IsFlight(f) /\ writes \in Nat
  BY SettleKeeps, StatKeeps DEF InstanceInv, FlightInv, Airworthy, Counters
<1>2. PICK g : Goes(f, g) /\ Update(f, g)
  <2>1. CASE Settle(f)
    <3>. DEFINE h == [f EXCEPT !.stage = "stat"]
    <3>1. Goes(f, h)
      BY <1>1 DEF Goes, IsFlight, FlightFields
    <3>2. Update(f, h)
      BY <2>1, Zenon DEF Settle
    <3>. QED BY <3>1, <3>2, Zenon
  <2>2. CASE Stat(f)
    <3>. DEFINE h == [f EXCEPT !.stage = "run", !.mtime = writes]
    <3>1. Goes(f, h)
      BY <1>1 DEF Goes, IsFlight, FlightFields
    <3>2. Update(f, h)
      BY <2>2, Zenon DEF Stat
    <3>. QED BY <3>1, <3>2, Zenon
  <2>. QED BY <2>1, <2>2
<1>3. Carried({})
  BY <1>1, <1>2, UpdateCarried
<1>4. UNCHANGED <<writes, cacheGen, invalidated, snapshot, cache, loadGen, refreshing>>
  BY DEF Settle, Stat, data, load
<1>. QED BY <1>1, <1>3, <1>4, InstanceStays

(* A query sets the clock only for its own instance, and has seen all that *)
(* was written.                                                            *)
LEMMA QueryInstance ==
  ASSUME InstanceInv, NEW f \in flights, Query(f)
  PROVE  InstanceInv'
<1>1. FlightInv /\ FlightInv' /\ Airworthy(f) /\ IsFlight(f)
  BY QueryKeeps DEF InstanceInv, FlightInv, Airworthy
<1>2. UNCHANGED <<writes, cacheGen, invalidated, cache, loadGen, refreshing>>
  BY DEF Query, load
<1>3. PICK key : \/ \E e \in Kept(key) : Update(f, IF e.ok THEN Next1(f) ELSE Broken(f))
                 \/ Update(f, [f EXCEPT !.pend = [key |-> key, ver |-> writes, into |-> cacheGen]])
  BY DEF Query
<1>4. snapshot' = snapshot \/ (~Obsolete(f) /\ snapshot' = f.gen)
  BY DEF Query
<1>5. writes \in Nat /\ invalidated <= writes /\ cacheGen \in Nat
  BY <1>1 DEF InstanceInv, Instance, FlightInv, Counters
<1>6. PICK g : /\ flights' = (flights \ {f}) \cup {g}
               /\ g.kind = f.kind /\ g.gen = f.gen /\ g.cgen = f.cgen /\ Fresh(g)
  <2>1. CASE \E e \in Kept(key) : Update(f, IF e.ok THEN Next1(f) ELSE Broken(f))
    <3>1. PICK g : Goes(f, g) /\ Update(f, g)
      BY <1>1, <2>1, FinishGoes
    <3>. QED BY <3>1 DEF Goes, Update, InstanceInv, Fresh
  <2>2. CASE Update(f, [f EXCEPT !.pend = [key |-> key, ver |-> writes, into |-> cacheGen]])
    <3>. DEFINE g == [f EXCEPT !.pend = [key |-> key, ver |-> writes, into |-> cacheGen]]
    <3>1. g.kind = f.kind /\ g.gen = f.gen /\ g.cgen = f.cgen
          /\ g.pend = [key |-> key, ver |-> writes, into |-> cacheGen]
      BY <1>1 DEF IsFlight, FlightFields
    <3>2. flights' = (flights \ {f}) \cup {g}
      BY <2>2 DEF Update
    <3>. HIDE DEF g
    <3>. QED BY <1>5, <3>1, <3>2 DEF Fresh
  <2>. QED BY <1>3, <2>1, <2>2
<1>7. Instance'
  BY <1>1, <1>2, <1>4 DEF InstanceInv, Instance, Instanced, Airworthy
<1>8. \A h \in flights' : /\ (Instanced(h) /\ Fresh(h))'
                          /\ (Outdated(h)' /\ ~refreshing' => h.gen < loadGen')
  BY <1>2, <1>6 DEF InstanceInv, Instanced, Fresh, Outdated, Obsolete
<1>9. \A a, b \in flights' : Outdated(a)' /\ ~Obsolete(b)' => a.gen < b.gen
  BY <1>2, <1>6 DEF InstanceInv, Outdated, Obsolete
<1>10. \A h \in flights' : Outdated(h)' /\ snapshot' # None => h.gen < snapshot'
  BY <1>2, <1>4, <1>6 DEF InstanceInv, Outdated, Obsolete
<1>. QED BY <1>1, <1>2, <1>7, <1>8, <1>9, <1>10 DEF InstanceInv

(* An answer lands in the instance its query was started against.          *)
LEMMA AnswerInstance ==
  ASSUME InstanceInv, NEW f \in flights, Answer(f)
  PROVE  InstanceInv'
<1>. DEFINE h == [f EXCEPT !.pend = None]
<1>1. FlightInv /\ FlightInv' /\ IsFlight(f)
  BY AnswerKeeps DEF InstanceInv, FlightInv, Airworthy
<1>2. UNCHANGED <<writes, cacheGen, snapshot, invalidated, loadGen, refreshing>>
  BY DEF Answer, load
<1>3. Goes(f, h)
  BY <1>1 DEF Goes, IsFlight, FlightFields
<1>4. Update(f, Next1(h)) \/ Update(f, Broken(h))
  BY DEF Answer
<1>5. ASSUME NEW e \in cache', e \notin cache PROVE e.ver \in Nat /\ invalidated <= e.ver
  <2>1. f.pend # None /\ f.pend.into = cacheGen /\ e.ver = f.pend.ver
    BY <1>5 DEF Answer, Lands, Entry
  <2>. QED BY <2>1 DEF InstanceInv, Fresh
<1>. HIDE DEF h
<1>6. Carried({})
  <2>1. PICK g : Goes(h, g) /\ Update(f, g)
    BY <1>3, <1>4, FinishGoes DEF Goes
  <2>2. Goes(f, g)
    BY <1>3, <2>1 DEF Goes
  <2>. QED BY <1>1, <2>1, <2>2, UpdateCarried
<1>7. writes \in Nat
  BY <1>1 DEF FlightInv, Counters
<1>. QED BY <1>1, <1>2, <1>5, <1>6, <1>7, InstanceStays

(* The loop reads the base of a view itself only where the cache has none. *)
LEMMA BaseIsFresh ==
  ASSUME InstanceInv, NEW what, NEW ver, Base(what, ver), ver # None
  PROVE  ver \in Nat /\ invalidated <= ver
BY DEF Base, Kept, InstanceInv, Instance, FlightInv, Counters

LEMMA MessageInstance ==
  ASSUME InstanceInv, NEW f \in flights, Deliver(f)
  PROVE  InstanceInv'
<1>1. FlightInv /\ FlightInv' /\ writes \in Nat
  BY LoadMessageKeeps, DetailMessageKeeps DEF InstanceInv, FlightInv, Counters, Deliver
<1>2. /\ flights' = flights \ {f}
      /\ UNCHANGED <<writes, cacheGen, snapshot, invalidated, loadGen, refreshing>>
  BY DEF Deliver, handleDataLoaded, handleDetailLoaded, handleWorkspaceCode, data, load
<1>3. Carried({})
  BY <1>1, <1>2, FinishGoes DEF Carried, FlightInv, Airworthy
<1>4. ASSUME NEW e \in cache', e \notin cache PROVE e.ver \in Nat /\ invalidated <= e.ver
  <2>1. handleDataLoaded(f) /\ applyReload(f)
    BY <1>4 DEF Deliver, handleDataLoaded, handleDetailLoaded, handleWorkspaceCode, data
  <2>2. PICK ver \in {None} \cup (0 .. writes) :
           Base(Needs(view, group)[1], ver) /\ ver # None /\ e = Entry(Here(Needs(view, group)[1]), ver, TRUE, None)
    BY <1>4, <2>1 DEF applyReload
  <2>. QED BY <2>2, BaseIsFresh DEF Entry
<1>. QED BY <1>1, <1>2, <1>3, <1>4, InstanceStays

LEMMA DebounceInstance ==
  ASSUME InstanceInv, NEW t \in timers, handleDetailDebounce(t)
  PROVE  InstanceInv'
<1>1. FlightInv /\ FlightInv' /\ writes \in Nat
  BY DebounceKeeps DEF InstanceInv, FlightInv, Counters
<1>2. /\ UNCHANGED <<writes, cache, cacheGen, snapshot, invalidated, loadGen, refreshing>>
      /\ ~refreshing
  BY DEF handleDetailDebounce, data, load
<1>. DEFINE todo == CASE view = "workspace" -> Needs(view, group)
                      [] view = "pane" -> <<"trend">>
                      [] OTHER -> <<>>
            stage == IF view = "activity" THEN "done" ELSE "run"
            g == Flight("detail", loadGen', t, view, span, scope, group, row, todo, stage)
<1>3. flights' = flights \/ Sends({"detail", "code"}, {g})
  BY <1>2 DEF handleDetailDebounce, Sends, Gate
<1>4. Newest(g)
  BY FlightIsNewest
<1>. HIDE DEF g
<1>5. Carried({g})
  BY <1>1, <1>3, SendingCarried, FinishGoes DEF Carried, FlightInv, Airworthy
<1>. QED BY <1>1, <1>2, <1>4, <1>5, InstanceStays

LEMMA DetailsInstance ==
  ASSUME InstanceInv, NEW r, workspaceDetails(r)
  PROVE  InstanceInv'
<1>1. FlightInv /\ FlightInv' /\ writes \in Nat
  BY DetailsKeep DEF InstanceInv, FlightInv, Counters
<1>2. /\ UNCHANGED <<writes, cache, cacheGen, snapshot, invalidated, loadGen, refreshing>>
      /\ ~refreshing
  BY DEF workspaceDetails, Free, data, load
<1>. DEFINE g == Flight("code", loadGen', codeSeq + 1, view, span, scope, group, r, <<"code">>, "run")
<1>3. Sends({"detail", "code"}, {g})
  BY <1>2 DEF workspaceDetails, Sends, Gate
<1>4. Newest(g)
  BY FlightIsNewest
<1>. HIDE DEF g
<1>5. Carried({g})
  BY <1>1, <1>3, SendingCarried
<1>. QED BY <1>1, <1>2, <1>4, <1>5, InstanceStays

LEMMA LoadInstance ==
  ASSUME InstanceInv, NEW v, NEW s, NEW sc, NEW g, NEW settle, startLoad(v, s, sc, g, settle),
         ~refreshing, UNCHANGED <<writes, data>>
  PROVE  InstanceInv'
<1>. DEFINE stage == IF settle THEN "settle" ELSE "stat"
            new == Flight("load", loadGen', 0, v, s, sc, g, row, Needs(v, g), stage)
<1>1. FlightInv /\ FlightInv' /\ writes \in Nat
  BY LoadKeeps DEF InstanceInv, FlightInv, Counters
<1>2. /\ UNCHANGED <<writes, cache, cacheGen, snapshot, invalidated, refreshing>>
      /\ loadGen' = loadGen + 1
  BY DEF startLoad, data
<1>3. Sends({"load", "detail", "code"}, {new})
  BY <1>2 DEF startLoad, Sends
<1>4. Newest(new)
  BY FlightIsNewest
<1>. HIDE DEF new
<1>5. Carried({new})
  BY <1>1, <1>3, SendingCarried
<1>. QED BY <1>1, <1>2, <1>4, <1>5, InstanceStays

LEMMA StartRefreshInstance ==
  ASSUME InstanceInv, StartRefresh
  PROVE  InstanceInv'
<1>. DEFINE new == Flight("load", loadGen', 0, view, span, scope, group, row, Needs(view, group), "stat")
<1>1. FlightInv /\ FlightInv' /\ writes \in Nat
  BY StartRefreshKeeps DEF InstanceInv, FlightInv, Counters
<1>2. /\ UNCHANGED <<writes, cache, cacheGen, snapshot, invalidated>>
      /\ refreshing /\ ~refreshing' /\ refreshing' \in BOOLEAN /\ loadGen' = loadGen + 1
  BY DEF StartRefresh, data
<1>3. Sends({"load", "detail", "code"}, {new})
  BY <1>2 DEF StartRefresh, Sends
<1>4. Newest(new)
  BY FlightIsNewest
<1>. HIDE DEF new
<1>5. Carried({new})
  BY <1>1, <1>3, SendingCarried
<1>6. \A e \in cache' : e \notin cache => e.ver \in Nat /\ invalidated <= e.ver
  BY <1>2
<1>7. /\ UNCHANGED <<cacheGen, invalidated, snapshot>>
      /\ loadGen' \in {loadGen, loadGen + 1} /\ writes' >= writes /\ writes' \in Nat
  BY <1>1, <1>2
<1>8. refreshing /\ ~refreshing' /\ loadGen' = loadGen + 1 /\ refreshing' \in BOOLEAN
  BY <1>2
<1>9. FlightInv' /\ \A h \in {new} : Newest(h)
  BY <1>1, <1>4
<1>. QED BY <1>5, <1>6, <1>7, <1>8, <1>9, InstanceStays

LEMMA SetRangeInstance ==
  ASSUME InstanceInv, NEW s, workspaceSetRange(s)
  PROVE  InstanceInv'
<1>1. FlightInv /\ FlightInv' /\ writes \in Nat /\ ~refreshing /\ UNCHANGED <<writes, data>>
  BY SetRangeKeeps DEF InstanceInv, FlightInv, Counters, workspaceSetRange, Free
<1>2. CASE WarmFor(s)
  <2>1. /\ Sends({"load", "detail", "code"}, {})
        /\ loadGen' = loadGen + 1 /\ refreshing' = refreshing
    BY <1>2 DEF workspaceSetRange, Sends
  <2>2. Carried({})
    BY <1>1, <2>1, SendingCarried
  <2>. QED BY <1>1, <2>1, <2>2, InstanceStays DEF data
<1>3. CASE ~WarmFor(s)
  <2>1. startLoad(view, s, scope, group, TRUE)
    BY <1>3 DEF workspaceSetRange
  <2>. QED BY <1>1, <2>1, LoadInstance
<1>. QED BY <1>2, <1>3

LEMMA StillInstance ==
  ASSUME InstanceInv, writes' \in Nat, writes' >= writes,
         UNCHANGED <<flights, data, load>>
  PROVE  InstanceInv'
<1>1. FlightInv /\ FlightInv' /\ UNCHANGED <<cache, cacheGen, snapshot, invalidated, loadGen, refreshing>>
  BY StillKeeps DEF InstanceInv, data, load
<1>2. Carried({})
  BY <1>1, FinishGoes DEF Carried, FlightInv, Airworthy
<1>. QED BY <1>1, <1>2, InstanceStays

(* A refresh makes every flight one of an earlier instance.                *)
LEMMA RefreshInstance ==
  ASSUME InstanceInv, Refresh
  PROVE  InstanceInv'
<1>1. FlightInv /\ FlightInv' /\ writes \in Nat
  BY StillKeeps DEF InstanceInv, FlightInv, Counters, Refresh
<1>2. /\ UNCHANGED <<writes, flights, loadGen>>
      /\ cache' = {} /\ cacheGen' = cacheGen + 1 /\ snapshot' = None
      /\ invalidated' = writes /\ refreshing' = TRUE
  BY DEF Refresh, Invalidate
<1>3. Instance'
  BY <1>1, <1>2 DEF InstanceInv, Instance
<1>4. \A f \in flights' : (Instanced(f) /\ Fresh(f) /\ Obsolete(f))'
  BY <1>2 DEF InstanceInv, Instance, Instanced, Fresh, Obsolete
<1>. QED BY <1>1, <1>2, <1>3, <1>4 DEF InstanceInv

LEMMA BackInstance ==
  ASSUME InstanceInv, back
  PROVE  InstanceInv'
<1>1. UNCHANGED <<writes, data>> /\ writes \in Nat /\ ~refreshing
  BY DEF back, Free, InstanceInv, FlightInv, Counters
<1>2. CASE workspaceBack
  <2>1. CASE \E v, s, sc, g : startLoad(v, s, sc, g, FALSE)
    BY <1>1, <2>1, LoadInstance
  <2>2. CASE UNCHANGED <<load, flights>>
    BY <1>1, <2>2, StillInstance
  <2>. QED BY <1>2, <2>1, <2>2 DEF workspaceBack
<1>3. CASE startLoad(view, span, "root", group, FALSE)
  BY <1>1, <1>3, LoadInstance
<1>. QED BY <1>2, <1>3 DEF back

LEMMA UserInstance ==
  ASSUME InstanceInv, User
  PROVE  InstanceInv'
<1>1. writes \in Nat
  BY DEF InstanceInv, FlightInv, Counters
<1>2. ASSUME NEW v \in View, setView(v) PROVE InstanceInv'
  BY <1>2, LoadInstance DEF setView, Free
<1>3. ASSUME NEW s \in Span, cycleRange(s) PROVE InstanceInv'
  BY <1>3, LoadInstance DEF cycleRange, Free
<1>3s. ASSUME NEW s \in Span, stepWindow(s) PROVE InstanceInv'
  BY <1>3s, LoadInstance DEF stepWindow, Free
<1>4. ASSUME NEW g \in Group, chooseGroup(g) PROVE InstanceInv'
  BY <1>4, LoadInstance DEF chooseGroup, Free
<1>5. ASSUME Again \/ workspaceOpen \/ showActivity \/ drill PROVE InstanceInv'
  BY <1>5, LoadInstance DEF Again, workspaceOpen, showActivity, drill, Free
<1>6. ASSUME NEW r \in Rows, setSelection(r) PROVE InstanceInv'
  BY <1>1, <1>6, StillInstance DEF setSelection
<1>7. ASSUME closeOverlay PROVE InstanceInv'
  BY <1>1, <1>7, StillInstance DEF closeOverlay
<1>8. ASSUME NEW r \in Rows, workspaceDetails(r) PROVE InstanceInv'
  BY <1>8, DetailsInstance
<1>. QED BY <1>2, <1>3, <1>3s, <1>4, <1>5, <1>6, <1>7, <1>8, SetRangeInstance, BackInstance, RefreshInstance DEF User

LEMMA InitInstance ==
  ASSUME Init
  PROVE  InstanceInv
<1>. DEFINE g == Flight("load", 0, 0, view, span, scope, group, row, Needs(view, group), "stat")
<1>1. /\ flights = {g} /\ cache = {} /\ cacheGen = 0 /\ snapshot = None /\ invalidated = 0
      /\ writes = 1 /\ refreshing = FALSE /\ FlightInv
  BY InitKeeps DEF Init
<1>2. g.pend = None /\ g.cgen = cacheGen
  BY DEF Flight
<1>. HIDE DEF g
<1>3. Instance
  <2>1. refreshing \in BOOLEAN /\ (refreshing => snapshot = None)
    BY <1>1, Zenon
  <2>2. cacheGen \in Nat /\ invalidated \in Nat /\ invalidated <= writes
    BY <1>1
  <2>. QED BY <1>1, <2>1, <2>2, Zenon DEF Instance
<1>4. Instanced(g) /\ Fresh(g) /\ ~Obsolete(g)
  BY <1>1, <1>2 DEF Instanced, Fresh, Obsolete
<1>. QED BY <1>1, <1>3, <1>4 DEF InstanceInv, Outdated

LEMMA NextInstance ==
  ASSUME InstanceInv, [Next]_vars
  PROVE  InstanceInv'
<1>1. writes \in Nat
  BY DEF InstanceInv, FlightInv, Counters
<1>2. ASSUME NEW f \in flights, Step(f) \/ Deliver(f) PROVE InstanceInv'
  BY <1>2, SettleInstance, QueryInstance, AnswerInstance, MessageInstance DEF Step
<1>3. CASE Flying
  BY <1>2, <1>3 DEF Flying
<1>4. CASE Timer
  BY <1>4, DebounceInstance DEF Timer
<1>5. CASE Write
  BY <1>1, <1>5, StillInstance DEF Write
<1>6. CASE UNCHANGED vars
  BY <1>1, <1>6, StillInstance DEF vars
<1>7. CASE User
  BY <1>7, UserInstance
<1>8. CASE StartRefresh
  BY <1>8, StartRefreshInstance
<1>. QED BY <1>3, <1>4, <1>5, <1>6, <1>7, <1>8 DEF Next

(* Of some numbers one is the least: their intervals from 0 are finite     *)
(* sets, and among those one has none of the others inside.                *)
LEMMA MinIsIn ==
  ASSUME NEW S \in SUBSET Nat, S # {}
  PROVE  Min(S) \in S
<1>. DEFINE Spans == {0 .. n : n \in S}
            R == StrictSubsetOrdering(Nat)
            F == FiniteSubsetsOf(Nat)
<1>1. IsWellFoundedOn(R, F)
  BY FS_StrictSubsetOrderingWellFounded
<1>2. Spans \subseteq F /\ Spans # {}
  <2>1. ASSUME NEW n \in S PROVE 0 .. n \in F
    <3>1. IsFiniteSet(0 .. n)
      BY FS_Interval
    <3>. QED BY <3>1 DEF FiniteSubsetsOf
  <2>2. Spans # {}
    OBVIOUS
  <2>. HIDE DEF F
  <2>. QED BY <2>1, <2>2
<1>. HIDE DEF R, F
<1>3. PICK X \in Spans : \A Y \in Spans : ~(<<Y, X>> \in R)
  BY <1>1, <1>2, WFMin
<1>4. PICK x \in S : X = 0 .. x
  OBVIOUS
<1>5. ASSUME NEW y \in S PROVE x <= y
  <2>. SUFFICES ASSUME y < x PROVE FALSE
    OBVIOUS
  <2>1. 0 .. y \in Spans
    OBVIOUS
  <2>2. 0 .. y \subseteq 0 .. x /\ 0 .. y # 0 .. x
    <3>1. x \in 0 .. x /\ x \notin 0 .. y
      OBVIOUS
    <3>. QED BY <3>1
  <2>3. 0 .. x \in SUBSET Nat /\ 0 .. y \in SUBSET Nat
    OBVIOUS
  <2>4. <<0 .. y, 0 .. x>> \in R
    BY <2>2, <2>3 DEF StrictSubsetOrdering, R
  <2>. QED BY <1>3, <1>4, <2>1, <2>4
<1>. QED BY <1>5 DEF Min

(* What is put together from the cache was read after the swap.            *)
LEMMA OldestIsFresh ==
  ASSUME InstanceInv, NEW es, es \subseteq cache, es # {}
  PROVE  Oldest(es) \in Nat /\ invalidated <= Oldest(es)
<1>. DEFINE vers == {e.ver : e \in es}
<1>1. vers \in SUBSET Nat /\ vers # {} /\ \A n \in vers : invalidated <= n
  BY DEF InstanceInv
<1>2. Oldest(es) = Min(vers)
  BY DEF Oldest
<1>. HIDE DEF vers
<1>. QED BY <1>1, <1>2, MinIsIn

LEMMA WorkspaceIsFresh ==
  ASSUME InstanceInv, Ready
  PROVE  Workspace.ver \in Nat /\ invalidated <= Workspace.ver
<1>. DEFINE es == UNION {Kept(Here(Needs("workspace", group)[i])) : i \in 1..2}
<1>1. es \subseteq cache /\ es # {}
  BY DEF Ready, Kept
<1>2. Workspace.ver = Oldest(es)
  BY DEF Workspace, Pic
<1>. HIDE DEF es
<1>. QED BY <1>1, <1>2, OldestIsFresh

(* A live picture is as the cache is.                                      *)
PictureInv ==
  /\ InstanceInv
  /\ fresh = "live" /\ ~refreshing /\ ~stray => Shown.ver \in Nat /\ invalidated <= Shown.ver

LEMMA PictureStays ==
  ASSUME PictureInv, InstanceInv', UNCHANGED <<view, ws, pane, fresh, refreshing, stray, invalidated>>
  PROVE  PictureInv'
BY DEF PictureInv, Shown

LEMMA LoadPicture ==
  ASSUME InstanceInv', NEW v, NEW s, NEW sc, NEW g, NEW settle, startLoad(v, s, sc, g, settle)
  PROVE  PictureInv'
BY DEF PictureInv, startLoad, CutIn

LEMMA LoadMessagePicture ==
  ASSUME PictureInv, InstanceInv', NEW f \in flights, handleDataLoaded(f)
  PROVE  PictureInv'
<1>1. UNCHANGED <<view, refreshing, stray, invalidated>>
  BY DEF handleDataLoaded, data, load, nav, picture
<1>2. CASE Superseded(f)
  BY <1>1, <1>2, PictureStays DEF handleDataLoaded, load, picture
<1>3. CASE f.err /\ ~Superseded(f)
  BY <1>3 DEF handleDataLoaded, PictureInv, Held
<1>4. CASE applyReload(f)
  <2>1. CASE view = "workspace" /\ Ready /\ ws' = Workspace
    <3>1. Workspace.ver \in Nat /\ invalidated <= Workspace.ver
      BY <2>1, WorkspaceIsFresh DEF PictureInv
    <3>2. Shown' = Workspace
      BY <1>1, <2>1 DEF Shown
    <3>. QED BY <1>1, <3>1, <3>2 DEF PictureInv
  <2>2. CASE fresh' # "live"
    BY <2>2 DEF PictureInv
  <2>3. CASE /\ view # "workspace"
             /\ \E ver \in {None} \cup (0 .. writes) :
                  Base(Needs(view, group)[1], ver) /\ ver # None /\ pane' = Pic(span, scope, None, ver)
    <3>1. PICK ver : Base(Needs(view, group)[1], ver) /\ ver # None /\ pane' = Pic(span, scope, None, ver)
      BY <2>3
    <3>2. ver \in Nat /\ invalidated <= ver
      BY <3>1, BaseIsFresh DEF PictureInv
    <3>3. Shown'.ver = ver
      BY <1>1, <2>3, <3>1 DEF Shown, Pic
    <3>. QED BY <1>1, <3>2, <3>3 DEF PictureInv
  <2>. QED BY <1>4, <2>1, <2>2, <2>3 DEF applyReload, CutIn, Held
<1>. QED BY <1>2, <1>3, <1>4 DEF handleDataLoaded

LEMMA DetailMessagePicture ==
  ASSUME PictureInv, InstanceInv', NEW f \in flights, handleDetailLoaded(f)
  PROVE  PictureInv'
<1>1. UNCHANGED <<view, refreshing, stray, invalidated, pane>>
  BY DEF handleDetailLoaded, data, nav
<1>2. CASE UNCHANGED <<fresh, ws>>
  BY <1>1, <1>2, PictureStays
<1>3. CASE view = "workspace" /\ Ready /\ ws' = Workspace
  <2>1. Workspace.ver \in Nat /\ invalidated <= Workspace.ver
    BY <1>3, WorkspaceIsFresh DEF PictureInv
  <2>2. Shown' = Workspace
    BY <1>1, <1>3 DEF Shown
  <2>. QED BY <1>1, <2>1, <2>2 DEF PictureInv
<1>4. CASE fresh' # "live"
  BY <1>4 DEF PictureInv
<1>. QED BY <1>2, <1>3, <1>4 DEF handleDetailLoaded, CutIn

(* workspaceSetRange applies what is cached for the other window.          *)
LEMMA WarmIsFresh ==
  ASSUME InstanceInv, NEW s, workspaceSetRange(s), WarmFor(s)
  PROVE  LET es == UNION {Kept(KeyOf(Needs("workspace", group)[i], s, scope, row,
                                     Bound(loadGen + 1, FALSE))) : i \in 1..2}
         IN  /\ ws' = Pic(s, scope, group, Oldest(es))
             /\ Oldest(es) \in Nat /\ invalidated <= Oldest(es)
<1>. DEFINE key(i) == KeyOf(Needs("workspace", group)[i], s, scope, row, Bound(loadGen + 1, FALSE))
            es == UNION {Kept(key(i)) : i \in 1..2}
<1>1. ws' = Pic(s, scope, group, Oldest(es))
  BY Zenon DEF workspaceSetRange
<1>2. \A i \in 1..2 : Kept(key(i)) # {}
  BY Zenon DEF WarmFor
<1>3. \A i \in 1..2 : Kept(key(i)) \subseteq cache
  BY DEF Kept
<1>4. es \subseteq cache /\ es # {}
  <2>. HIDE DEF key
  <2>. QED BY <1>2, <1>3
<1>5. Oldest(es) \in Nat /\ invalidated <= Oldest(es)
  <2>. HIDE DEF es
  <2>. QED BY <1>4, OldestIsFresh
<1>. QED BY <1>1, <1>5, Zenon

LEMMA SetRangePicture ==
  ASSUME PictureInv, InstanceInv', NEW s, workspaceSetRange(s)
  PROVE  PictureInv'
<1>1. CASE WarmFor(s)
  <2>. DEFINE es == UNION {Kept(KeyOf(Needs("workspace", group)[i], s, scope, row,
                                      Bound(loadGen + 1, FALSE))) : i \in 1..2}
  <2>1. ws' = Pic(s, scope, group, Oldest(es)) /\ Oldest(es) \in Nat /\ invalidated <= Oldest(es)
    BY <1>1, WarmIsFresh DEF PictureInv
  <2>. HIDE DEF es
  <2>2. view' = "workspace" /\ invalidated' = invalidated
    BY DEF workspaceSetRange, Go, data
  <2>3. Shown'.ver = Oldest(es)
    BY <2>1, <2>2 DEF Shown, Pic
  <2>. QED BY <2>1, <2>2, <2>3 DEF PictureInv
<1>2. CASE ~WarmFor(s)
  BY <1>2, LoadPicture DEF workspaceSetRange
<1>. QED BY <1>1, <1>2

LEMMA BackPicture ==
  ASSUME InstanceInv', back
  PROVE  PictureInv'
<1>1. CASE workspaceBack
  <2>1. CASE \E v, s, sc, g : startLoad(v, s, sc, g, FALSE)
    BY <2>1, LoadPicture
  <2>2. CASE stray' = TRUE
    BY <2>2 DEF PictureInv
  <2>. QED BY <1>1, <2>1, <2>2 DEF workspaceBack
<1>2. CASE startLoad(view, span, "root", group, FALSE)
  BY <1>2, LoadPicture
<1>. QED BY <1>1, <1>2 DEF back

LEMMA UserPicture ==
  ASSUME PictureInv, InstanceInv', User
  PROVE  PictureInv'
<1>1. ASSUME NEW v \in View, setView(v) PROVE PictureInv'
  BY <1>1, LoadPicture DEF setView
<1>2. ASSUME NEW s \in Span, cycleRange(s) PROVE PictureInv'
  BY <1>2, LoadPicture DEF cycleRange
<1>2s. ASSUME NEW s \in Span, stepWindow(s) PROVE PictureInv'
  BY <1>2s, LoadPicture DEF stepWindow
<1>3. ASSUME NEW g \in Group, chooseGroup(g) PROVE PictureInv'
  BY <1>3, LoadPicture DEF chooseGroup
<1>4. ASSUME Again \/ workspaceOpen \/ showActivity \/ drill PROVE PictureInv'
  BY <1>4, LoadPicture DEF Again, workspaceOpen, showActivity, drill
<1>5. ASSUME NEW r \in Rows, setSelection(r) PROVE PictureInv'
  BY <1>5, PictureStays DEF setSelection, data, nav, load
<1>6. ASSUME NEW r \in Rows, workspaceDetails(r) PROVE PictureInv'
  BY <1>6, PictureStays DEF workspaceDetails, data, nav, load, picture
<1>7. ASSUME closeOverlay PROVE PictureInv'
  BY <1>7, PictureStays DEF closeOverlay, data, nav, load, picture
<1>8. ASSUME Refresh PROVE PictureInv'
  BY <1>8 DEF Refresh, PictureInv
<1>. QED BY <1>1, <1>2, <1>2s, <1>3, <1>4, <1>5, <1>6, <1>7, <1>8, SetRangePicture, BackPicture DEF User

LEMMA NextPicture ==
  ASSUME PictureInv, [Next]_vars
  PROVE  PictureInv'
<1>1. InstanceInv'
  BY NextInstance DEF PictureInv
<1>2. CASE User
  BY <1>1, <1>2, UserPicture
<1>3. ASSUME NEW f \in flights, Step(f) PROVE PictureInv'
  <2>1. UNCHANGED <<view, ws, pane, fresh, refreshing, stray, invalidated>>
    BY <1>3 DEF Step, Settle, Stat, Query, Answer, data, nav, load, picture
  <2>. QED BY <1>1, <2>1, PictureStays
<1>4. ASSUME NEW f \in flights, Deliver(f) PROVE PictureInv'
  <2>1. ASSUME handleWorkspaceCode(f) PROVE PictureInv'
    BY <1>1, <2>1, PictureStays DEF handleWorkspaceCode, data, nav, load, picture
  <2>. QED BY <1>1, <1>4, <2>1, LoadMessagePicture, DetailMessagePicture DEF Deliver
<1>5. CASE Flying
  BY <1>3, <1>4, <1>5 DEF Flying
<1>6. CASE Timer
  BY <1>1, <1>6, PictureStays DEF Timer, handleDetailDebounce, data, nav, load, picture
<1>7. CASE StartRefresh
  BY <1>1, <1>7 DEF StartRefresh, CutIn, PictureInv
<1>8. CASE Write
  BY <1>1, <1>8, PictureStays DEF Write, data, nav, load, picture
<1>9. CASE UNCHANGED vars
  BY <1>1, <1>9, PictureStays DEF vars, data, nav, load, picture
<1>. QED BY <1>2, <1>5, <1>6, <1>7, <1>8, <1>9 DEF Next

(* What a refresh threw away does not come back with a flight that was     *)
(* under way: not into the cache, not into a live picture, and neither     *)
(* does the instant the windows ended at; for any number of loads, writes  *)
(* and refreshes.                                                          *)
THEOREM RefreshIsFinalHolds == Spec => []RefreshIsFinal
<1>1. Init => PictureInv
  BY InitInstance DEF Init, PictureInv
<1>2. PictureInv /\ [Next]_vars => PictureInv'
  BY NextPicture
<1>3. PictureInv => RefreshIsFinal
  <2>. SUFFICES ASSUME PictureInv PROVE RefreshIsFinal
    OBVIOUS
  <2>1. ASSUME snapshot # None, NEW f \in flights, f.kind = "load", Obsolete(f)
        PROVE  snapshot > f.gen
    <3>1. f.gen < snapshot /\ f.gen \in Nat /\ snapshot \in Nat
      BY <2>1 DEF PictureInv, InstanceInv, Instance, FlightInv, Airworthy, Outdated
    <3>. QED BY <3>1
  <2>2. /\ \A e \in cache : e.ver >= invalidated
        /\ fresh = "live" /\ ~refreshing /\ ~stray => Shown.ver >= invalidated
    BY DEF PictureInv, InstanceInv, Instance
  <2>. QED BY <2>1, <2>2 DEF RefreshIsFinal
<1>. QED BY <1>1, <1>2, <1>3, PTL DEF Spec

----------------------------------------------------------------------------
(* What is live is what is asked for.  Every change of what the user asks  *)
(* for starts a load, which cuts the chip, or applies the cache's answers  *)
(* to the new question at once.                                            *)

Picture == [span : Span, scope : Scope, group : Group, ver : Nat]

NavInv ==
  /\ span \in Span /\ scope \in Scope /\ group \in Group
  /\ history \in Seq([scope : Scope, group : Group])
  /\ ws # None => ws \in Picture

AskedInv == PictureInv /\ NavInv /\ LiveIsAsked

LEMMA PictureIsThere ==
  ASSUME NEW s \in Span, NEW sc \in Scope, NEW g \in Group \cup {None}, NEW v \in Nat
  PROVE  Pic(s, sc, g, v) # None
BY InterfaceAssumption DEF Pic

LEMMA PlaceIsPlace ==
  ASSUME NavInv
  PROVE  Place \in [scope : Scope, group : Group]
BY DEF NavInv, Place, Picture

LEMMA SavedPlaces ==
  ASSUME NavInv, workspaceSave
  PROVE  history' \in Seq([scope : Scope, group : Group])
<1>1. Place \in [scope : Scope, group : Group]
  BY PlaceIsPlace
<1>. HIDE DEF Place
<1>. QED BY <1>1 DEF NavInv, workspaceSave

(* A load that is sent for what may be asked.                              *)
LEMMA LoadAsked ==
  ASSUME NavInv, PictureInv', NEW v, NEW s \in Span, NEW sc \in Scope, NEW g \in Group,
         NEW settle, startLoad(v, s, sc, g, settle), Go(v, s, sc, g), ws' = ws,
         history' \in Seq([scope : Scope, group : Group])
  PROVE  AskedInv'
<1>1. fresh' # "live"
  BY DEF startLoad, CutIn
<1>2. NavInv'
  BY DEF NavInv, Go
<1>. QED BY <1>1, <1>2 DEF AskedInv, LiveIsAsked

LEMMA AskedStays ==
  ASSUME AskedInv, PictureInv', UNCHANGED <<nav, ws, pane, fresh, stray>>
  PROVE  AskedInv'
BY DEF AskedInv, NavInv, LiveIsAsked, Shown, Asked, nav

LEMMA WorkspaceAsked ==
  ASSUME AskedInv, PictureInv', UNCHANGED nav, view = "workspace", Ready, ws' = Workspace
  PROVE  AskedInv'
<1>1. Workspace.ver \in Nat
  BY WorkspaceIsFresh DEF AskedInv, PictureInv
<1>2. Workspace = Pic(span, scope, group, Workspace.ver)
  BY DEF Workspace, Pic
<1>3. UNCHANGED <<view, span, scope, group, history>>
  BY DEF nav
<1>4. Workspace \in Picture /\ Workspace # None
  BY <1>1, <1>2, PictureIsThere DEF AskedInv, NavInv, Pic, Picture
<1>5. Same(Workspace, Pic(span, scope, group, 0))
  BY <1>2 DEF Same, Pic
<1>6. NavInv'
  BY <1>3, <1>4 DEF AskedInv, NavInv
<1>7. Shown' = Workspace /\ Asked' = Pic(span, scope, group, 0)
  BY <1>3 DEF Shown, Asked, Pic
<1>. QED BY <1>4, <1>5, <1>6, <1>7 DEF AskedInv, LiveIsAsked, Same

LEMMA LoadMessageAsked ==
  ASSUME AskedInv, PictureInv', NEW f \in flights, handleDataLoaded(f)
  PROVE  AskedInv'
<1>1. UNCHANGED <<nav, stray>>
  BY DEF handleDataLoaded, picture
<1>2. CASE Superseded(f)
  BY <1>1, <1>2, AskedStays DEF handleDataLoaded, load, picture
<1>3. CASE fresh' # "live" /\ ws' = ws
  BY <1>1, <1>3 DEF AskedInv, LiveIsAsked, NavInv, nav
<1>4. CASE applyReload(f)
  <2>1. CASE view = "workspace" /\ Ready /\ ws' = Workspace
    BY <1>1, <2>1, WorkspaceAsked
  <2>2. CASE /\ view # "workspace" /\ ws' = ws
             /\ \E ver \in {None} \cup (0 .. writes) :
                  Base(Needs(view, group)[1], ver) /\ ver # None /\ pane' = Pic(span, scope, None, ver)
    <3>1. PICK ver : Base(Needs(view, group)[1], ver) /\ ver # None /\ pane' = Pic(span, scope, None, ver)
      BY <2>2
    <3>2. ver \in Nat
      BY <3>1, BaseIsFresh DEF AskedInv, PictureInv
    <3>3. pane' # None
      BY <3>1, <3>2, PictureIsThere DEF AskedInv, NavInv
    <3>4. UNCHANGED <<view, span, scope, group, history>>
      BY <1>1 DEF nav
    <3>5. Shown' = pane' /\ Asked' = Pic(span, scope, None, 0)
      BY <2>2, <3>4 DEF Shown, Asked, Pic
    <3>6. Same(pane', Pic(span, scope, None, 0))
      BY <3>1 DEF Same, Pic
    <3>7. NavInv'
      BY <2>2, <3>4 DEF AskedInv, NavInv
    <3>. QED BY <3>3, <3>5, <3>6, <3>7 DEF AskedInv, LiveIsAsked, Same
  <2>. QED BY <1>3, <1>4, <2>1, <2>2 DEF applyReload, CutIn, Held
<1>. QED BY <1>2, <1>3, <1>4 DEF handleDataLoaded, Held, picture

LEMMA DetailMessageAsked ==
  ASSUME AskedInv, PictureInv', NEW f \in flights, handleDetailLoaded(f)
  PROVE  AskedInv'
<1>1. UNCHANGED <<nav, stray, pane>>
  BY DEF handleDetailLoaded
<1>2. CASE UNCHANGED <<fresh, ws>>
  BY <1>1, <1>2, AskedStays
<1>3. CASE view = "workspace" /\ Ready /\ ws' = Workspace
  BY <1>1, <1>3, WorkspaceAsked
<1>4. CASE fresh' # "live" /\ ws' = ws
  BY <1>1, <1>4 DEF AskedInv, LiveIsAsked, NavInv, nav
<1>. QED BY <1>2, <1>3, <1>4 DEF handleDetailLoaded, CutIn

LEMMA SetRangeAsked ==
  ASSUME AskedInv, PictureInv', NEW s \in Span, workspaceSetRange(s)
  PROVE  AskedInv'
<1>1. /\ view = "workspace" /\ Go(view, s, scope, group) /\ history' = history
      /\ span \in Span /\ scope \in Scope /\ group \in Group /\ NavInv
  BY DEF workspaceSetRange, AskedInv, NavInv
<1>2. CASE WarmFor(s)
  <2>. DEFINE es == UNION {Kept(KeyOf(Needs("workspace", group)[i], s, scope, row,
                                      Bound(loadGen + 1, FALSE))) : i \in 1..2}
  <2>1. ws' = Pic(s, scope, group, Oldest(es)) /\ Oldest(es) \in Nat
    BY <1>2, WarmIsFresh DEF AskedInv, PictureInv
  <2>. HIDE DEF es
  <2>2. ws' \in Picture /\ ws' # None
    BY <1>1, <2>1, PictureIsThere DEF Pic, Picture
  <2>3. NavInv'
    BY <1>1, <2>2 DEF NavInv, Go
  <2>4. Shown' = ws' /\ Asked' = Pic(s, scope, group, 0)
    BY <1>1 DEF Shown, Asked, Go, Pic
  <2>5. Same(ws', Pic(s, scope, group, 0))
    BY <2>1 DEF Same, Pic
  <2>. QED BY <2>2, <2>3, <2>4, <2>5 DEF AskedInv, LiveIsAsked, Same
<1>3. CASE ~WarmFor(s)
  <2>1. startLoad(view, s, scope, group, TRUE) /\ ws' = ws
    BY <1>3 DEF workspaceSetRange
  <2>. QED BY <1>1, <2>1, LoadAsked DEF AskedInv, NavInv
<1>. QED BY <1>2, <1>3

LEMMA LastOfAll ==
  ASSUME NEW S, NEW q \in Seq(S), q # <<>>
  PROVE  q[Len(q)] \in S /\ SubSeq(q, 1, Len(q) - 1) \in Seq(S)
<1>1. Len(q) \in Nat /\ Len(q) >= 1
  OBVIOUS
<1>2. q[Len(q)] \in S
  BY <1>1, ElementOfSeq
<1>3. SubSeq(q, 1, Len(q) - 1) \in Seq(S)
  BY <1>1, SubSeqProperties
<1>. QED BY <1>2, <1>3

LEMMA BackAsked ==
  ASSUME AskedInv, PictureInv', back
  PROVE  AskedInv'
<1>1. ws' = ws /\ NavInv /\ span \in Span /\ group \in Group /\ "root" \in Scope /\ "model" \in Group
  BY DEF back, AskedInv, NavInv, Scope, Group
<1>2. CASE workspaceBack
  <2>1. ASSUME history # <<>>,
               Go("workspace", span, history[Len(history)].scope, history[Len(history)].group),
               startLoad("workspace", span, history[Len(history)].scope, history[Len(history)].group, FALSE),
               history' = SubSeq(history, 1, Len(history) - 1)
        PROVE  AskedInv'
    <3>0. history \in Seq([scope : Scope, group : Group])
      BY <1>1 DEF NavInv
    <3>1. history[Len(history)] \in [scope : Scope, group : Group]
      BY <3>0, <2>1, LastOfAll
    <3>2. history' \in Seq([scope : Scope, group : Group])
      BY <3>0, <2>1, LastOfAll
    <3>3. history[Len(history)].scope \in Scope /\ history[Len(history)].group \in Group
      BY <3>1
    <3>. QED BY <1>1, <2>1, <3>2, <3>3, LoadAsked
  <2>2. ASSUME Go("workspace", span, "root", "model"),
               startLoad("workspace", span, "root", "model", FALSE), history' = history
        PROVE  AskedInv'
    BY <1>1, <2>2, LoadAsked DEF NavInv
  <2>3. ASSUME Go("workspace", span, scope, group), stray' = TRUE, history' = history
        PROVE  AskedInv'
    BY <1>1, <2>3 DEF AskedInv, NavInv, LiveIsAsked, Go
  <2>. QED BY <1>2, <2>1, <2>2, <2>3 DEF workspaceBack
<1>3. CASE Go(view, span, "root", group) /\ startLoad(view, span, "root", group, FALSE) /\ history' = history
  BY <1>1, <1>3, LoadAsked DEF NavInv
<1>. QED BY <1>2, <1>3 DEF back

LEMMA UserAsked ==
  ASSUME AskedInv, PictureInv', User
  PROVE  AskedInv'
<1>. DEFINE P == [scope : Scope, group : Group]
<1>1. /\ NavInv /\ span \in Span /\ scope \in Scope /\ group \in Group /\ history \in Seq(P)
      /\ {"root", "row"} \subseteq Scope /\ "session" \in Group
      /\ ws # None => ws.span \in Span
  BY DEF AskedInv, NavInv, Scope, Group, Picture
<1>2. ASSUME NEW v \in View, setView(v) PROVE AskedInv'
  BY <1>1, <1>2, LoadAsked DEF setView
<1>3. ASSUME NEW s \in Span, cycleRange(s) PROVE AskedInv'
  BY <1>1, <1>3, LoadAsked DEF cycleRange
<1>3s. ASSUME NEW s \in Span, stepWindow(s) PROVE AskedInv'
  BY <1>1, <1>3s, LoadAsked DEF stepWindow
<1>4. ASSUME NEW g \in Group, chooseGroup(g) PROVE AskedInv'
  BY <1>1, <1>4, LoadAsked, SavedPlaces DEF chooseGroup
<1>5. ASSUME Again PROVE AskedInv'
  <2>1. Go(view, span, scope, group) /\ startLoad(view, span, scope, group, FALSE) /\ ws' = ws /\ history' = history
    BY <1>5 DEF Again, nav, Go
  <2>. QED BY <1>1, <2>1, LoadAsked
<1>6. ASSUME workspaceOpen PROVE AskedInv'
  BY <1>1, <1>6, LoadAsked, SavedPlaces DEF workspaceOpen
<1>7. ASSUME showActivity PROVE AskedInv'
  <2>1. PICK s \in Span, sc \in Scope :
           Go("activity", s, sc, group) /\ startLoad("activity", s, sc, group, FALSE)
    BY <1>1, <1>7 DEF showActivity
  <2>2. ws' = ws /\ history' \in Seq(P)
    BY <1>1, <1>7, SavedPlaces DEF showActivity
  <2>. QED BY <1>1, <2>1, <2>2, LoadAsked
<1>8. ASSUME drill PROVE AskedInv'
  BY <1>1, <1>8, LoadAsked DEF drill
<1>9. ASSUME NEW r \in Rows, setSelection(r) PROVE AskedInv'
  BY <1>9, AskedStays DEF setSelection, load
<1>10. ASSUME NEW r \in Rows, workspaceDetails(r) PROVE AskedInv'
  BY <1>10, AskedStays DEF workspaceDetails, load, picture
<1>11. ASSUME closeOverlay PROVE AskedInv'
  BY <1>11, AskedStays DEF closeOverlay, load, picture
<1>12. ASSUME Refresh PROVE AskedInv'
  BY <1>12, AskedStays DEF Refresh, picture
<1>. QED BY <1>2, <1>3, <1>3s, <1>4, <1>5, <1>6, <1>7, <1>8, <1>9, <1>10, <1>11, <1>12,
            SetRangeAsked, BackAsked DEF User

LEMMA NextAsked ==
  ASSUME AskedInv, [Next]_vars
  PROVE  AskedInv'
<1>1. PictureInv'
  BY NextPicture DEF AskedInv
<1>2. CASE User
  BY <1>1, <1>2, UserAsked
<1>3. ASSUME NEW f \in flights, Step(f) PROVE AskedInv'
  <2>1. UNCHANGED <<nav, ws, pane, fresh, stray>>
    BY <1>3 DEF Step, Settle, Stat, Query, Answer, load, picture
  <2>. QED BY <1>1, <2>1, AskedStays
<1>4. ASSUME NEW f \in flights, Deliver(f) PROVE AskedInv'
  <2>1. ASSUME handleWorkspaceCode(f) PROVE AskedInv'
    BY <1>1, <2>1, AskedStays DEF handleWorkspaceCode, load, picture
  <2>. QED BY <1>1, <1>4, <2>1, LoadMessageAsked, DetailMessageAsked DEF Deliver
<1>5. CASE Flying
  BY <1>3, <1>4, <1>5 DEF Flying
<1>6. CASE Timer
  BY <1>1, <1>6, AskedStays DEF Timer, handleDetailDebounce, load, picture
<1>7. CASE StartRefresh
  <2>1. fresh' # "live" /\ UNCHANGED <<nav, ws>>
    BY <1>7 DEF StartRefresh, CutIn
  <2>. QED BY <1>1, <2>1 DEF AskedInv, LiveIsAsked, NavInv, nav
<1>8. CASE Write
  BY <1>1, <1>8, AskedStays DEF Write, load, picture
<1>9. CASE UNCHANGED vars
  BY <1>1, <1>9, AskedStays DEF vars, load, picture
<1>. QED BY <1>2, <1>5, <1>6, <1>7, <1>8, <1>9 DEF Next

----------------------------------------------------------------------------
(* The inspector.  Its token grows with every inspector opened, so the one *)
(* flight that bears the newest token asks for the session of the one that *)
(* is open.                                                                *)

CodeInv ==
  /\ codeSeq \in Nat
  /\ \A f \in flights : f.kind = "code" =>
       /\ f.seq \in Nat /\ f.seq <= codeSeq
       /\ f.seq = codeSeq /\ overlay # None => f.row = overlay.session
  /\ overlay # None => overlay = [session |-> overlay.session, text |-> overlay.text]
  /\ InspectorTellsItsSession

Sibling(f, g) == g.kind = f.kind /\ g.seq = f.seq /\ g.row = f.row

Told(new) == \A g \in flights' : g \in new \/ \E f \in flights : Sibling(f, g)

LEMMA CarriedTold ==
  ASSUME NEW new, Carried(new)
  PROVE  Told(new)
BY DEF Carried, Told, Goes, Sibling

LEMMA RestTold ==
  ASSUME flights' \subseteq flights
  PROVE  Told({})
BY DEF Told, Sibling

LEMMA InspectorStays ==
  ASSUME CodeInv, NEW new, Told(new), \A g \in new : g.kind # "code",
         codeSeq' = codeSeq, overlay' \in {overlay, None}
  PROVE  CodeInv'
<1>1. InspectorTellsItsSession'
  BY DEF CodeInv, InspectorTellsItsSession
<1>2. ASSUME NEW g \in flights', g.kind = "code"
      PROVE  /\ g.seq \in Nat /\ g.seq <= codeSeq
             /\ g.seq = codeSeq /\ overlay # None => g.row = overlay.session
  <2>1. PICK f \in flights : Sibling(f, g)
    BY <1>2 DEF Told
  <2>. QED BY <1>2, <2>1 DEF Sibling, CodeInv
<1>3. overlay' # None => overlay' = overlay
  OBVIOUS
<1>. QED BY <1>1, <1>2, <1>3 DEF CodeInv

(* A flight that goes on and one that is over.                             *)
LEMMA StepTold ==
  ASSUME FlightInv, NEW f \in flights, Step(f) \/ handleDataLoaded(f) \/ handleDetailLoaded(f)
  PROVE  Told({})
<1>1. IsFlight(f)
  BY DEF FlightInv, Airworthy
<1>2. ASSUME NEW g, Sibling(f, g), Update(f, g) PROVE Told({})
  BY <1>2 DEF Told, Sibling, Update
<1>3. \A h : IsFlight(h) => /\ Sibling(h, Next1(h)) /\ Sibling(h, Broken(h))
  BY FinishGoes DEF Goes, Sibling
<1>4. CASE Settle(f)
  <2>. DEFINE h == [f EXCEPT !.stage = "stat"]
  <2>1. Sibling(f, h)
    BY <1>1 DEF Sibling, IsFlight, FlightFields
  <2>2. Update(f, h)
    BY <1>4, Zenon DEF Settle
  <2>. QED BY <1>2, <2>1, <2>2, Zenon
<1>5. CASE Stat(f)
  <2>. DEFINE h == [f EXCEPT !.stage = "run", !.mtime = writes]
  <2>1. Sibling(f, h)
    BY <1>1 DEF Sibling, IsFlight, FlightFields
  <2>2. Update(f, h)
    BY <1>5, Zenon DEF Stat
  <2>. QED BY <1>2, <2>1, <2>2, Zenon
<1>6. CASE Query(f)
  <2>1. PICK key : \/ \E e \in Kept(key) : Update(f, IF e.ok THEN Next1(f) ELSE Broken(f))
                   \/ Update(f, [f EXCEPT !.pend = [key |-> key, ver |-> writes, into |-> cacheGen]])
    BY <1>6 DEF Query
  <2>2. CASE \E e \in Kept(key) : Update(f, IF e.ok THEN Next1(f) ELSE Broken(f))
    BY <1>1, <1>2, <1>3, <2>2
  <2>3. CASE Update(f, [f EXCEPT !.pend = [key |-> key, ver |-> writes, into |-> cacheGen]])
    <3>. DEFINE p == [key |-> key, ver |-> writes, into |-> cacheGen]
                h == [f EXCEPT !.pend = p]
    <3>1. Update(f, h)
      BY <2>3
    <3>. HIDE DEF p
    <3>2. Sibling(f, h)
      BY <1>1 DEF Sibling, IsFlight, FlightFields
    <3>. HIDE DEF h
    <3>. QED BY <1>2, <3>1, <3>2
  <2>. QED BY <2>1, <2>2, <2>3
<1>7. CASE Answer(f)
  <2>. DEFINE h == [f EXCEPT !.pend = None]
  <2>1. IsFlight(h) /\ Sibling(f, h)
    BY <1>1 DEF Sibling, IsFlight, FlightFields
  <2>2. Update(f, Next1(h)) \/ Update(f, Broken(h))
    BY <1>7 DEF Answer
  <2>. HIDE DEF h
  <2>3. Sibling(f, Next1(h)) /\ Sibling(f, Broken(h))
    BY <1>3, <2>1 DEF Sibling
  <2>. QED BY <1>2, <2>2, <2>3
<1>8. CASE handleDataLoaded(f) \/ handleDetailLoaded(f)
  BY <1>8, RestTold DEF handleDataLoaded, handleDetailLoaded
<1>. QED BY <1>4, <1>5, <1>6, <1>7, <1>8 DEF Step

LEMMA CodeMessageInspector ==
  ASSUME CodeInv, NEW f \in flights, handleWorkspaceCode(f)
  PROVE  CodeInv'
<1>1. f.kind = "code" /\ flights' \subseteq flights /\ codeSeq' = codeSeq
  BY DEF handleWorkspaceCode
<1>2. CASE overlay' = overlay
  BY <1>1, <1>2, RestTold, InspectorStays
<1>3. CASE ~Overtaken(f) /\ overlay # None
  <2>1. f.seq = codeSeq /\ f.row = overlay.session
    BY <1>1, <1>3 DEF Overtaken, CodeInv
  <2>2. PICK t \in {"failed", f.row} : overlay' = [overlay EXCEPT !.text = t]
    BY <1>3 DEF handleWorkspaceCode
  <2>3. overlay = [session |-> overlay.session, text |-> overlay.text]
    BY <1>3 DEF CodeInv
  <2>4. overlay' = [session |-> overlay.session, text |-> t]
    BY <2>2, <2>3
  <2>5. overlay'.session = overlay.session /\ overlay'.text = t
    BY <2>4
  <2>. QED BY <1>1, <1>3, <2>1, <2>2, <2>4, <2>5 DEF CodeInv, InspectorTellsItsSession
<1>. QED BY <1>2, <1>3 DEF handleWorkspaceCode

(* The inspector that is opened has a token no flight has borne.           *)
LEMMA DetailsInspector ==
  ASSUME FlightInv, CodeInv, NEW r, workspaceDetails(r)
  PROVE  CodeInv'
<1>. DEFINE new == Flight("code", loadGen, codeSeq + 1, view, span, scope, group, r, <<"code">>, "run")
<1>1. Sends({"detail", "code"}, {new})
  BY DEF workspaceDetails, Sends, Gate
<1>2. new.seq = codeSeq + 1 /\ new.row = r
  BY DEF Flight
<1>. HIDE DEF new
<1>3. Told({new})
  BY <1>1, SendingCarried, CarriedTold
<1>4. codeSeq' = codeSeq + 1 /\ overlay' = [session |-> r, text |-> "loading"]
  BY DEF workspaceDetails
<1>5. overlay'.session = r /\ overlay'.text = "loading"
  BY <1>4
<1>6. ASSUME NEW g \in flights', g.kind = "code"
      PROVE  /\ g.seq \in Nat /\ g.seq <= codeSeq'
             /\ g.seq = codeSeq' /\ overlay' # None => g.row = overlay'.session
  <2>1. CASE g = new
    BY <1>2, <1>4, <1>5, <2>1 DEF CodeInv
  <2>2. CASE \E f \in flights : Sibling(f, g)
    BY <1>4, <1>6, <2>2 DEF CodeInv, Sibling
  <2>. QED BY <1>3, <2>1, <2>2 DEF Told
<1>. QED BY <1>4, <1>5, <1>6 DEF CodeInv, InspectorTellsItsSession

LEMMA LoadInspector ==
  ASSUME FlightInv, CodeInv, UNCHANGED inspect,
         NEW v, NEW s, NEW sc, NEW g, NEW settle, startLoad(v, s, sc, g, settle)
  PROVE  CodeInv'
<1>. DEFINE stage == IF settle THEN "settle" ELSE "stat"
            new == Flight("load", loadGen + 1, 0, v, s, sc, g, row, Needs(v, g), stage)
<1>1. Sends({"load", "detail", "code"}, {new})
  BY DEF startLoad, Sends
<1>2. new.kind = "load"
  BY DEF Flight
<1>. HIDE DEF new
<1>3. Told({new})
  BY <1>1, SendingCarried, CarriedTold
<1>. QED BY <1>2, <1>3, InspectorStays DEF inspect

LEMMA StillInspector ==
  ASSUME CodeInv, UNCHANGED <<flights, codeSeq>>, overlay' \in {overlay, None}
  PROVE  CodeInv'
BY RestTold, InspectorStays

LEMMA UserInspector ==
  ASSUME FlightInv, CodeInv, User
  PROVE  CodeInv'
<1>1. ASSUME NEW v \in View, setView(v) PROVE CodeInv'
  BY <1>1, LoadInspector DEF setView
<1>2. ASSUME NEW s \in Span, cycleRange(s) PROVE CodeInv'
  BY <1>2, LoadInspector DEF cycleRange
<1>2s. ASSUME NEW s \in Span, stepWindow(s) PROVE CodeInv'
  BY <1>2s, LoadInspector DEF stepWindow
<1>3. ASSUME NEW g \in Group, chooseGroup(g) PROVE CodeInv'
  BY <1>3, LoadInspector DEF chooseGroup
<1>4. ASSUME Again \/ workspaceOpen \/ showActivity \/ drill PROVE CodeInv'
  BY <1>4, LoadInspector DEF Again, workspaceOpen, showActivity, drill
<1>5. ASSUME NEW s \in Span, workspaceSetRange(s) PROVE CodeInv'
  <2>1. CASE WarmFor(s)
    <3>1. Sends({"load", "detail", "code"}, {}) /\ UNCHANGED inspect
      BY <1>5, <2>1 DEF workspaceSetRange, Sends
    <3>2. Told({})
      BY <3>1, SendingCarried, CarriedTold
    <3>. QED BY <3>1, <3>2, InspectorStays DEF inspect
  <2>2. CASE ~WarmFor(s)
    BY <1>5, <2>2, LoadInspector DEF workspaceSetRange
  <2>. QED BY <2>1, <2>2
<1>6. ASSUME back PROVE CodeInv'
  <2>1. UNCHANGED inspect
    BY <1>6 DEF back
  <2>2. CASE \E v, s, sc, g : startLoad(v, s, sc, g, FALSE)
    BY <2>1, <2>2, LoadInspector
  <2>3. CASE UNCHANGED flights
    BY <2>1, <2>3, StillInspector DEF inspect
  <2>. QED BY <1>6, <2>2, <2>3 DEF back, workspaceBack
<1>7. ASSUME NEW r \in Rows, setSelection(r) PROVE CodeInv'
  BY <1>7, StillInspector DEF setSelection, inspect
<1>8. ASSUME closeOverlay \/ Refresh PROVE CodeInv'
  BY <1>8, StillInspector DEF closeOverlay, Refresh, inspect
<1>. QED BY <1>1, <1>2, <1>2s, <1>3, <1>4, <1>5, <1>6, <1>7, <1>8, DetailsInspector DEF User

LEMMA NextInspector ==
  ASSUME FlightInv, CodeInv, [Next]_vars
  PROVE  CodeInv'
<1>1. CASE User
  BY <1>1, UserInspector
<1>2. ASSUME NEW f \in flights, Step(f) \/ Deliver(f) PROVE CodeInv'
  <2>1. CASE Step(f) \/ handleDataLoaded(f) \/ handleDetailLoaded(f)
    <3>1. UNCHANGED inspect
      BY <2>1 DEF Step, Settle, Stat, Query, Answer, handleDataLoaded, handleDetailLoaded
    <3>. QED BY <2>1, <3>1, StepTold, InspectorStays DEF inspect
  <2>. QED BY <1>2, <2>1, CodeMessageInspector DEF Deliver
<1>3. CASE Flying
  BY <1>2, <1>3 DEF Flying
<1>4. ASSUME NEW t \in timers, handleDetailDebounce(t) PROVE CodeInv'
  <2>. DEFINE todo == CASE view = "workspace" -> Needs(view, group)
                        [] view = "pane" -> <<"trend">>
                        [] OTHER -> <<>>
              stage == IF view = "activity" THEN "done" ELSE "run"
              g == Flight("detail", loadGen, t, view, span, scope, group, row, todo, stage)
  <2>1. flights' = flights \/ Sends({"detail", "code"}, {g})
    BY <1>4 DEF handleDetailDebounce, Sends, Gate
  <2>2. g.kind = "detail" /\ UNCHANGED inspect
    BY <1>4 DEF Flight, handleDetailDebounce
  <2>. HIDE DEF g
  <2>3. CASE flights' = flights
    BY <2>2, <2>3, StillInspector DEF inspect
  <2>4. CASE Sends({"detail", "code"}, {g})
    <3>1. Told({g})
      BY <2>4, SendingCarried, CarriedTold
    <3>. QED BY <2>2, <3>1, InspectorStays DEF inspect
  <2>. QED BY <2>1, <2>3, <2>4
<1>5. CASE Timer
  BY <1>4, <1>5 DEF Timer
<1>6. CASE StartRefresh
  <2>. DEFINE new == Flight("load", loadGen + 1, 0, view, span, scope, group, row, Needs(view, group), "stat")
  <2>1. Sends({"load", "detail", "code"}, {new}) /\ UNCHANGED inspect
    BY <1>6 DEF StartRefresh, Sends
  <2>2. new.kind = "load"
    BY DEF Flight
  <2>. HIDE DEF new
  <2>3. Told({new})
    BY <2>1, SendingCarried, CarriedTold
  <2>. QED BY <2>1, <2>2, <2>3, InspectorStays DEF inspect
<1>7. CASE Write \/ UNCHANGED vars
  BY <1>7, StillInspector DEF Write, vars, inspect
<1>. QED BY <1>1, <1>3, <1>5, <1>6, <1>7 DEF Next

(* What the interface calls live is the answer to what the user asks for   *)
(* now, and an inspector shows the counts of the session it was opened on: *)
(* for any number of loads, of ranges and views gone through, and in       *)
(* whatever order what was sent comes back.                                *)
THEOREM ShowsWhatIsAskedHolds == Spec => []ShowsWhatIsAsked
<1>1. Init => AskedInv /\ CodeInv
  <2>. SUFFICES ASSUME Init PROVE AskedInv /\ CodeInv
    OBVIOUS
  <2>1. PictureInv
    BY InitInstance DEF Init, PictureInv
  <2>2. NavInv
    BY DEF Init, NavInv, Span, Scope, Group
  <2>3. fresh # "live" /\ overlay = None /\ codeSeq = 0
    BY DEF Init
  <2>4. \A f \in flights : f.kind = "load"
    BY DEF Init, Flight
  <2>. QED BY <2>1, <2>2, <2>3, <2>4 DEF AskedInv, LiveIsAsked, CodeInv, InspectorTellsItsSession
<1>2. AskedInv /\ CodeInv /\ [Next]_vars => AskedInv' /\ CodeInv'
  BY NextAsked, NextInspector DEF AskedInv, PictureInv, InstanceInv
<1>3. AskedInv /\ CodeInv => ShowsWhatIsAsked
  BY DEF AskedInv, CodeInv, ShowsWhatIsAsked
<1>. QED BY <1>1, <1>2, <1>3, PTL DEF Spec
============================================================================
