------------------------------ MODULE MCPolled -----------------------------
(* Small instances of Polled for TLC: the eight formats that are not read    *)
(* line by line, each with courses its agent may take.                       *)
EXTENDS Polled, TLC

CONSTANTS Bad, Unlucky

Gs == INSTANCE Goose
Oc == INSTANCE OpenCode
Cr == INSTANCE Crush
Cc == INSTANCE ClaudeCode
Cp == INSTANCE Copilot
Ds == INSTANCE DSH
Cl == INSTANCE Cline
Ag == INSTANCE Agy

MCFormat == IF Unlucky \in {"copilot", "dsh", "goose"} THEN {Unlucky}
            ELSE {"goose", "opencode", "crush", "claudecode", "copilot", "dsh", "cline", "agy"}

MCStart(f) ==
    CASE f = "goose" -> Gs!Start [] f = "opencode" -> Oc!Start [] f = "crush" -> Cr!Start [] OTHER -> None
MCStages(f) == IF f = "goose" THEN 2 ELSE 1
MCGated(f) == f # "opencode"

MCLook(f, stage, seen, db, marks) ==
    CASE f = "goose" -> Gs!Look(stage, db, marks)
      [] f = "opencode" -> Oc!Look(db, marks)
      [] f = "crush" -> Cr!Look(db, marks)
      [] f = "claudecode" -> Cc!Look(seen, db)
      [] f = "copilot" -> Cp!Look(db)
      [] f = "dsh" -> Ds!Look(db)
      [] f = "cline" -> Cl!Look(db)
      [] f = "agy" -> Ag!Look(db)

MCKept(f, rows) ==
    CASE f = "goose" -> Gs!Kept(rows) [] f = "opencode" -> Oc!Kept(rows) [] OTHER -> {}

(* A course of one source at one place. *)
Course(dbs, spent) == [i \in DOMAIN dbs |-> [files |-> 1 :> dbs[i], spent |-> spent, ran |-> <<>>]]

(* Goose: rows of both tables, one unreadable for a while, one undated, one  *)
(* of nothing; unlucky: the database is deleted and begun anew.              *)
GooseRow(n) == [id |-> n, session |-> "s", at |-> n, input |-> 1, output |-> 1, total |-> 0, readable |-> TRUE, of |-> n]
GooseMessage(n) == [id |-> n, session |-> "s", at |-> 1, role |-> "assistant", calls |-> <<1, None>>, readable |-> TRUE, of |-> n]
GooseDb(usage, messages) == [usage |-> usage, messages |-> messages]
GooseSpent == [n \in 1..9 |-> 2]
GooseCourses ==
    {Course(<<GooseDb({GooseRow(1)}, {}),
              GooseDb({GooseRow(1), [GooseRow(2) EXCEPT !.readable = FALSE], GooseRow(3)}, {GooseMessage(1)}),
              GooseDb({GooseRow(1), GooseRow(2), GooseRow(3), [GooseRow(4) EXCEPT !.at = 0],
                       [GooseRow(5) EXCEPT !.input = 0, !.output = 0]},
                      {GooseMessage(1), [GooseMessage(2) EXCEPT !.role = "user"], [GooseMessage(3) EXCEPT !.readable = FALSE]}),
              GooseDb({GooseRow(1), GooseRow(2), GooseRow(3)}, {GooseMessage(1), GooseMessage(3)})>>, GooseSpent)}
GooseUnlucky ==
    {Course(<<GooseDb({GooseRow(1), GooseRow(2)}, {}),
              GooseDb({[GooseRow(1) EXCEPT !.at = 7, !.of = 7]}, {})>>, GooseSpent)}

(* opencode: messages that are completed out of order, calls, changes told   *)
(* of and taken back; a database of the time before; an unknown row.         *)
OcMessage(n) == [rowid |-> n, id |-> n, role |-> "assistant", completed |-> TRUE, model |-> "m", input |-> 1, output |-> 2,
                 cache |-> 0, reasoning |-> 1, total |-> 3, at |-> 1, parts |-> {}, diffs |-> None, updated |-> 0, of |-> n]
OcUser(diffs, when) == [OcMessage(1) EXCEPT !.role = "user", !.diffs = diffs, !.updated = when]
OcOpen(n) == [OcMessage(n) EXCEPT !.completed = FALSE, !.output = 0]
OcCalls(n) == [OcMessage(n) EXCEPT !.parts = {<<n, 1>>, <<n, 2>>}]
OcDb(modern, messages) == [modern |-> modern, messages |-> messages]
OcSpent == [n \in 1..9 |-> 3]
OpenCodeCourses ==
    {Course(<<OcDb(TRUE, {OcUser(<<1>>, 1), OcOpen(2)}),
              OcDb(TRUE, {OcUser(<<1, 2>>, 2), OcOpen(2), OcCalls(3)}),
              OcDb(TRUE, {OcUser(Bad, 3), OcCalls(2), OcCalls(3), [OcMessage(4) EXCEPT !.output = 0, !.input = 0, !.total = 0, !.reasoning = 0]})>>, OcSpent),
     Course(<<OcDb(FALSE, {OcMessage(1), OcMessage(2)}),
              OcDb(TRUE, {OcUser(<<1>>, 1), OcMessage(2), [OcMessage(3) EXCEPT !.role = Bad], OcMessage(4)}),
              OcDb(TRUE, {OcUser(<<1>>, 1), OcMessage(2), OcOpen(3), OcMessage(4)}),
              OcDb(TRUE, {OcUser(<<1>>, 1), OcMessage(2), OcMessage(3), OcMessage(4)})>>, OcSpent)}

(* Crush: a cost that grows, is lost by a concurrent write and grows again;  *)
(* a session unreadable for a while; one of a sub-agent; one that ends.      *)
CrushSession(n, cost) == [id |-> n, parent |-> None, cost |-> cost, readable |-> TRUE]
CrushStep(sessions, one, two) ==
    [files |-> 1 :> [sessions |-> sessions], spent |-> <<one, two>>, ran |-> <<>>]
CrushCourses ==
    {<<CrushStep({CrushSession(1, 1)}, 1, 0),
       CrushStep({CrushSession(1, 3), CrushSession(2, 1)}, 3, 1),
       CrushStep({[CrushSession(1, 4) EXCEPT !.readable = FALSE], CrushSession(2, 2)}, 4, 2),
       CrushStep({CrushSession(1, 2), CrushSession(2, None)}, 5, 2),
       CrushStep({CrushSession(1, 5), [CrushSession(3, 2) EXCEPT !.parent = 1]}, 8, 2)>>}

(* Claude Code: an answer streamed over two records, replayed by a sidechain *)
(* in another file, an old record without an id, hooks, an unfinished record.*)
ClaudeRecord(n, tokens) ==
    [type |-> "assistant", message |-> n, request |-> n, version |-> 1, model |-> "m", tokens |-> tokens, cost |-> 0,
     speed |-> FALSE, null |-> FALSE, at |-> 1, sidechain |-> FALSE, calls |-> {}, contexts |-> <<>>, hooks |-> 0,
     uuid |-> n, of |-> n]
ClaudeStream(tokens, calls) == [ClaudeRecord(1, tokens) EXCEPT !.calls = calls, !.contexts = ("agent" :> "a")]
ClaudeReplay == [ClaudeRecord(1, 2) EXCEPT !.sidechain = TRUE, !.request = 9, !.calls = {11}]
ClaudeOld == [ClaudeRecord(2, 3) EXCEPT !.message = None, !.version = None]
ClaudeHooks == [ClaudeRecord(4, None) EXCEPT !.type = "system", !.hooks = 2]
ClaudeHalf == [ClaudeRecord(3, None) EXCEPT !.model = "m"]
ClaudeDb(one, two) == [files |-> IF two = <<>> THEN <<one>> ELSE <<one, two>>]
ClaudeCourses ==
    {Course(<<ClaudeDb(<<ClaudeStream(1, {11})>>, <<>>),
              ClaudeDb(<<ClaudeStream(1, {11}), ClaudeStream(2, {12}), ClaudeHalf>>, <<ClaudeReplay>>),
              ClaudeDb(<<ClaudeStream(1, {11}), ClaudeStream(2, {12}), ClaudeRecord(3, 1), ClaudeHooks>>,
                       <<ClaudeReplay, ClaudeOld, ClaudeOld>>)>>, <<2, 3, 1, 0>>),
     Course(<<ClaudeDb(<<ClaudeReplay, [ClaudeRecord(2, 1) EXCEPT !.calls = {21}]>>, <<>>),
              ClaudeDb(<<ClaudeReplay, [ClaudeRecord(2, 1) EXCEPT !.calls = {21}]>>,
                       <<ClaudeStream(2, {12}), [ClaudeRecord(2, 3) EXCEPT !.request = 8, !.calls = {22}]>>)>>, <<2, 3>>)}

(* Copilot: a call told by its chat span, its log and the summary of its     *)
(* agent; a trace with a log only; a tool; a session's own events.  Unlucky: *)
(* the log is there before the span.                                         *)
CpRecord(kind, trace, span, of) ==
    [kind |-> kind, trace |-> trace, span |-> span, parent |-> None, response |-> None, model |-> "m", input |-> 2,
     cached |-> 1, output |-> 1, total |-> 0, at |-> 1, turn |-> 1, agent |-> None, call |-> None, of |-> of]
CpChat == [CpRecord("chat", "t1", "s1", 1) EXCEPT !.parent = "s2", !.response = "r1"]
CpSummary == [CpRecord("summary", "t1", "s2", 1) EXCEPT !.agent = "a"]
CpLog == [CpRecord("log", "t1", "s1", 1) EXCEPT !.response = "r1"]
CpOther == [CpRecord("log", None, None, 2) EXCEPT !.response = "r2"]
CpTurn == [CpRecord("turn", "t3", None, 3) EXCEPT !.model = None]
CpTool == [CpRecord("tool", "t1", "s4", <<1, 1>>) EXCEPT !.agent = "tool", !.input = 0, !.output = 0]
CpDb(records) == [kind |-> "otel", records |-> records]
CpEvent(type, id, name) == [type |-> type, id |-> id, name |-> name, of |-> <<0, id>>]
CpSession(records) == [kind |-> "events", session |-> "s", records |-> records]
CopilotCourses ==
    {Course(<<CpDb(<<CpChat, CpTool>>), CpDb(<<CpChat, CpTool, CpLog, CpOther, CpTurn>>),
              CpDb(<<CpChat, CpTool, CpLog, CpOther, CpTurn, CpSummary>>)>>, <<3, 3, 3>>),
     Course(<<CpSession(<<CpEvent("skill.invoked", 1, "k"), CpEvent("hook.start", None, "h")>>),
              CpSession(<<CpEvent("skill.invoked", 1, "k"), CpEvent("hook.start", None, "h"), CpEvent("hook.start", 2, "h"),
                          CpEvent("turn", 3, "x"), CpEvent("hook.start", 4, None)>>)>>, <<>>)}
CopilotUnlucky == {Course(<<CpDb(<<CpLog>>), CpDb(<<CpLog, CpChat>>)>>, <<3>>)}

(* DSH: a step's message, its usage told before by a chunk, its calls, a     *)
(* torn end, a fork under another preset.  Unlucky: a second message for a   *)
(* step whose call was recorded.                                             *)
DsRecord(type, n) == [type |-> type, seq |-> n, step |-> 1, time |-> 1, message |-> None, usage |-> None, sources |-> None,
                      call |-> None, name |-> None, of |-> 0]
DsMessage(n, of) == [DsRecord("message", n) EXCEPT !.message = of, !.of = of, !.step = of,
                                                   !.usage = [input |-> 1, output |-> 1, cached |-> None]]
DsCall(n, of) == [DsRecord("call", n) EXCEPT !.call = "c", !.name = "tool", !.of = <<of, n>>, !.step = of]
DsChunk(n) == [DsRecord("usage chunk", n) EXCEPT !.step = 0]
DsHeader(session, preset, seed) == [session |-> session, preset |-> preset, seedLength |-> seed]
DsLog(header, log, torn) == [header |-> header, log |-> log, torn |-> torn]
DsParent == <<DsChunk(0), [DsMessage(1, 1) EXCEPT !.sources = {0}], DsCall(2, 1)>>
DsStep(one, two) == [files |-> IF two = None THEN <<one>> ELSE <<one, two>>, spent |-> <<2, 2, 2>>,
                     ran |-> <<"p", "q", "p">>]
DsLost == [DsMessage(4, 3) EXCEPT !.sources = {3}, !.usage = None]
DSHCourses ==
    {<<DsStep(DsLog(DsHeader("s1", "p", 0), SubSeq(DsParent, 1, 2), TRUE), None),
       DsStep(DsLog(DsHeader("s1", "p", 0), DsParent, FALSE), None),
       DsStep(DsLog(DsHeader("s1", "p", 0), DsParent, FALSE),
              DsLog(DsHeader("s2", "q", 3), DsParent \o <<[DsMessage(3, 2) EXCEPT !.message = None], DsCall(4, 2)>>, FALSE))>>,
     <<DsStep(DsLog(None, <<DsRecord("other", 0)>>, FALSE), None),
       DsStep(DsLog(DsHeader("s1", "p", 0), DsParent \o <<DsChunk(3), DsLost>>, FALSE), None)>>}
DSHUnlucky ==
    {<<DsStep(DsLog(DsHeader("s1", "p", 0), DsParent, FALSE), None),
       DsStep(DsLog(DsHeader("s1", "p", 0), DsParent \o <<[DsMessage(3, 2) EXCEPT !.step = 1]>>, FALSE), None)>>}

(* Cline: a message told of before its metrics, a document caught half       *)
(* written, calls without an id, and the session deleted.                    *)
ClMessage(n, metrics, calls) == [id |-> n, role |-> "assistant", at |-> 1, metrics |-> metrics, calls |-> calls, of |-> n]
ClMetrics == [input |-> 3, output |-> 1, cached |-> 1]
ClDb(messages) == [session |-> "s", agent |-> "a", updated |-> 0, messages |-> messages]
Deleted(course) == Append(course, [course[Len(course)] EXCEPT !.files = <<>>])
ClineCourses ==
    LET told == Course(<<ClDb(<<ClMessage(1, None, <<"c">>)>>), ClDb(Bad),
                ClDb(<<ClMessage(1, ClMetrics, <<"c", None>>), [ClMessage(2, ClMetrics, <<>>) EXCEPT !.at = 0],
                       ClMessage(None, ClMetrics, <<"d">>), [ClMessage(3, ClMetrics, <<"e">>) EXCEPT !.role = "user"]>>)>>, <<4, 4, 4>>)
    IN {told, Deleted(told)}

(* Antigravity: results of a conversation that grow, one without its model,  *)
(* and documents whose turns are told again, a half-written one among them.  *)
AgRecord(event) == [event |-> event, conversation |-> "c", model |-> "m", status |-> "SUCCESS", turns |-> 1, usage |-> None]
AgResult(n) == [AgRecord("result") EXCEPT !.usage = [input |-> n, output |-> n, thoughts |-> 0, cached |-> 1, total |-> 2 * n]]
AgLost == [AgRecord("result") EXCEPT !.conversation = "d"]
AgStream(log) == [stream |-> TRUE, log |-> log]
AgTurn(id, total) == [id |-> id, of |-> id, tokens |-> [input |-> 1, output |-> 1, cached |-> 0, thoughts |-> 0, tool |-> 0, total |-> total]]
AgFile(log) == [stream |-> FALSE, path |-> "f", log |-> log]
AgyCourses ==
    {Course(<<AgStream(<<AgRecord("init"), AgResult(1), Bad>>), AgStream(<<AgRecord("init"), AgResult(1), AgRecord("step_update"), AgLost>>),
              AgStream(<<AgRecord("init"), AgResult(1), AgResult(2)>>)>>, [c |-> 4]),
     Course(<<AgFile(<<AgTurn("t", 0), Bad>>), AgFile(<<AgTurn("t", 0), AgTurn("t", 3), AgTurn("u", 0)>>),
              AgFile(<<AgTurn("t", 0), AgTurn("t", 3), AgTurn("u", 4), AgTurn("t", 2)>>)>>, [t |-> 3, u |-> 4])}

MCScripts(f) ==
    CASE f = "goose" -> IF Unlucky = f THEN GooseUnlucky ELSE GooseCourses
      [] f = "opencode" -> OpenCodeCourses
      [] f = "crush" -> CrushCourses
      [] f = "claudecode" -> ClaudeCourses
      [] f = "copilot" -> IF Unlucky = f THEN CopilotUnlucky ELSE CopilotCourses
      [] f = "dsh" -> IF Unlucky = f THEN DSHUnlucky ELSE DSHCourses
      [] f = "cline" -> ClineCourses
      [] f = "agy" -> AgyCourses
=============================================================================
