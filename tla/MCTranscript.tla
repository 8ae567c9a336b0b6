---------------------------- MODULE MCTranscript ---------------------------
(* Small instances of Transcript for TLC: the five formats of append-only    *)
(* logs, each with logs whose lines tell a right pass from a wrong one.  The *)
(* logs of a format come in groups, which keeps the instance small.          *)
EXTENDS Transcript

CONSTANTS Bad, m1

Cx == INSTANCE Codex
PI == INSTANCE Pi
Rc == INSTANCE Records

MCStart(f) ==
    CASE f[1] = "codex" -> Cx!Start [] f[1] = "pi" -> PI!Start [] f[1] = "kimicode" -> Rc!KimiStart
      [] OTHER -> None

MCRead(f, st, l) ==
    CASE f[1] = "codex" -> Cx!Read(st, l) [] f[1] = "pi" -> PI!Read(st, l)
      [] f[1] = "qwencode" -> Rc!QwenRead(st, l) [] f[1] = "kimicode" -> Rc!KimiRead(st, l)
      [] f[1] = "reasonix" -> Rc!ReasonixRead(st, l)

MCStateAfter(f, lines) ==
    LET after[n \in 0 .. Len(lines)] ==
            IF n = 0 THEN MCStart(f) ELSE MCRead(f, after[n - 1], lines[n]).state
    IN after[Len(lines)]

MCWaits(f, st, l) == f[1] = "pi" /\ PI!Waits(st, l)

MCResumable(f, cp) ==
    CASE f[1] = "pi" -> PI!Resumable(cp) [] f[1] = "kimicode" -> Rc!KimiResumable(cp) [] OTHER -> TRUE

(* Codex: the model named apart from the usage, running totals that grow, a  *)
(* turn's own usage, a call, and a usage of a wrong shape.                   *)
CodexLine == [type |-> "event_msg", payload |-> "token_count", info |-> "usage",
              last |-> None, total |-> None, model |-> None, id |-> None, at |-> 1]
Tokens(i, c, o, t) == [input |-> i, cached |-> c, output |-> o, total |-> t]
Turn(m) == [CodexLine EXCEPT !.type = "turn_context", !.payload = None, !.info = None, !.model = m]
Total(at, u) == [CodexLine EXCEPT !.at = at, !.total = u]
CodexLogs ==
    <<{<<Turn(m1), Total(1, Tokens(2, 1, 1, 0))>>},
      {<<Total(1, Tokens(2, 1, 1, 0)), Total(2, Tokens(4, 3, 2, 6))>>},
      {<<[CodexLine EXCEPT !.type = "response_item", !.payload = "function_call", !.info = None, !.id = 1],
         [CodexLine EXCEPT !.last = Tokens(1, 2, 1, 2)]>>,
       <<[CodexLine EXCEPT !.total = Bad]>>}>>

(* Pi: the header, a change of model, messages with calls that leave the     *)
(* model out, a compaction; and a message without usage, that ends the read. *)
PiEntry == [type |-> "message", id |-> 1, at |-> 1, cwd |-> None, role |-> "assistant", usage |-> None,
            model |-> None, provider |-> None, calls |-> <<>>]
PiUsage(i, o, r, t) == [input |-> i, output |-> o, reasoning |-> r, total |-> t]
Header == [PiEntry EXCEPT !.type = "session", !.cwd = 1, !.role = None]
Change(m) == [PiEntry EXCEPT !.type = "model_change", !.role = None, !.model = m, !.provider = 1]
Message(n) == [PiEntry EXCEPT !.id = n, !.usage = PiUsage(1, 1, 2, 0), !.calls = <<n, None>>]
PiLogs ==
    <<{<<Header, Change(m1), Message(2)>>},
      {<<Header, [PiEntry EXCEPT !.id = 3, !.type = "compaction", !.role = None, !.usage = PiUsage(1, 0, 0, 1)]>>,
       <<Header, [PiEntry EXCEPT !.id = 4]>>}>>

(* Qwen Code: a record, one of a subagent, one of another kind, a malformed  *)
(* one, and one without its output.                                          *)
QwenRecord == [type |-> "record", id |-> 1, version |-> 1, input |-> 2, output |-> 1, total |-> 1,
               cached |-> 1, thoughts |-> None, source |-> "main"]
QwenOther == [type |-> "record", id |-> None, version |-> None, input |-> None, output |-> None, total |-> None,
              cached |-> None, thoughts |-> None, source |-> None]
QwenLogs ==
    <<{<<QwenOther, [QwenRecord EXCEPT !.id = 2, !.version = None, !.total = None, !.source = "sub"]>>},
      {<<QwenRecord>>},
      {<<[QwenRecord EXCEPT !.type = "malformed"], [QwenRecord EXCEPT !.id = 3, !.output = None]>>}>>

(* Kimi Code: a usage under a header; a request and its usage; a usage after *)
(* a request that names no model, and one of a single counter.               *)
KimiRecord == [type |-> "usage.record", at |-> 1, protocol |-> None, model |-> None, alias |-> 1, step |-> None,
               usage |-> None, marked |-> FALSE, request |-> FALSE]
Request(m, n) == [KimiRecord EXCEPT !.type = "llm.request", !.model = m, !.step = n]
Usage(i, o) == [KimiRecord EXCEPT !.usage = [input |-> i, output |-> o]]
KimiLogs ==
    <<{<<[KimiRecord EXCEPT !.type = "metadata", !.protocol = "1"], Usage(1, 1)>>},
      {<<Request(m1, 1), Usage(1, 1)>>},
      {<<Request(Bad, 2), Usage(1, 1)>>,
       <<Usage(1, None)>>}>>

(* Reasonix: a record with and an old one without a time, a malformed one,   *)
(* and a current one without a time.                                         *)
ReasonixRecord == [type |-> "stats", current |-> TRUE, at |-> 1, prompt |-> 1, hit |-> 2, completion |-> 1, total |-> 0]
ReasonixLogs ==
    <<{<<ReasonixRecord, [ReasonixRecord EXCEPT !.type = "malformed"]>>,
       <<[ReasonixRecord EXCEPT !.current = FALSE, !.at = None], [ReasonixRecord EXCEPT !.at = None]>>}>>

Logs == [codex |-> CodexLogs, pi |-> PiLogs, qwencode |-> QwenLogs, kimicode |-> KimiLogs,
         reasonix |-> ReasonixLogs]

(* A format and one of its groups of logs: a log begun anew is of its group. *)
MCFormat == UNION {{<<name, i>> : i \in DOMAIN Logs[name]} : name \in DOMAIN Logs}
MCScript(f) == Logs[f[1]][f[2]]
=============================================================================
