-------------------------------- MODULE Web --------------------------------
(***************************************************************************)
(* A page of `aiusage serve' and the stream that tells it when to read     *)
(* again (internal/web: live.go, server.go, static/app.js).                *)
(*                                                                         *)
(* The server polls the ledger's watermark, the second at which its newest *)
(* row was observed, and sends one that moved to every open stream; the    *)
(* page reads again when it is told another watermark than the one it has. *)
(* A stream has one place for what has not been sent yet.  The browser     *)
(* connects again when a connection is lost; the server may be restarted.  *)
(***************************************************************************)
EXTENDS Readers

CONSTANTS
    Landed,      \* what the collector records while a page is open
    Gaps,        \* the seconds between two passes
    Prompt,      \* whether a handler sends its first ticks within a poll
    MaxDrops     \* bound on lost connections, restarts and failed reads

VARIABLES
    observed,    \* the second of the newest row, None without rows
    server,      \* [up, last, read]: the broadcaster, and what poll has read
    stream,      \* [state, slot, sent, wire]: the handler of the page, and what it sent
    page,        \* [open, watermark, base, flights, read, failed]
    drops

webVars == <<observed, server, stream, page, drops>>

(* The page's base is the watermark it has taken without reading again; its *)
(* read the most rows an answer had, and failed whether one has come back   *)
(* as an error since the last was asked for.                                *)
Connecting == [state |-> "connecting", slot |-> None, sent |-> None, wire |-> <<>>]
Closed == [open |-> FALSE, watermark |-> None, base |-> None, flights |-> <<>>, read |-> 0, failed |-> FALSE]

(* DOMContentLoaded: route reads, and then the stream is opened. *)
Loaded == [Closed EXCEPT !.open = TRUE, !.flights = <<None>>]

(* Run has set the watermark before it serves. *)
WebInit(opened) ==
    /\ observed = IF ledger.rows = <<>> THEN None ELSE 0
    /\ server = [up |-> TRUE, last |-> observed, read |-> None]
    /\ stream = Connecting
    /\ page = IF opened THEN Loaded ELSE Closed
    /\ drops = 0
----------------------------------------------------------------------------
(* The server *)

Land(b, gap) ==
    /\ page.open /\ Collect(b)
    /\ observed' = IF observed = None THEN 0 ELSE observed + gap
    /\ UNCHANGED <<server, stream, page, drops>>

(* poll: the watermark is read, and then compared under the lock. *)
PollRead ==
    /\ page.open /\ server.up /\ server.read = None /\ observed \notin {None, server.last}
    /\ server' = [server EXCEPT !.read = observed]
    /\ UNCHANGED <<readerVars, observed, stream, page, drops>>

Subscribed == stream.state \in {"subscribed", "open"}

(* A full slot keeps what it has, and the new watermark is not sent. *)
Publish ==
    /\ server.up /\ server.read # None
    /\ Prompt /\ Subscribed => stream.slot = None \/ stream.sent \notin {None, stream.slot}
    /\ server' = [server EXCEPT !.last = server.read, !.read = None]
    /\ stream' = IF Subscribed /\ stream.slot = None THEN [stream EXCEPT !.slot = server.read] ELSE stream
    /\ UNCHANGED <<readerVars, observed, page, drops>>

(* handleEvents: subscribe, send the current watermark, then what comes. *)
Subscribe ==
    /\ page.open /\ server.up /\ stream.state = "connecting"
    /\ stream' = [stream EXCEPT !.state = "subscribed"]
    /\ UNCHANGED <<readerVars, observed, server, page, drops>>

(* A fault: a stream is silent until the watermark moves. *)
SendNothing ==
    /\ stream.state = "subscribed"
    /\ stream' = [stream EXCEPT !.state = "open"]
    /\ UNCHANGED <<readerVars, observed, server, page, drops>>

SendCurrent ==
    /\ stream.state = "subscribed"
    /\ stream' = [stream EXCEPT !.state = "open", !.sent = server.last, !.wire = Append(@, server.last)]
    /\ UNCHANGED <<readerVars, observed, server, page, drops>>

SendTick ==
    /\ stream.state = "open" /\ stream.slot # None
    /\ stream' = [stream EXCEPT !.slot = None, !.sent = stream.slot, !.wire = Append(@, stream.slot)]
    /\ UNCHANGED <<readerVars, observed, server, page, drops>>

(* handleNow or handleHistory reads the ledger for the oldest request. *)
Unread == {i \in DOMAIN page.flights : page.flights[i] = None}
Answer ==
    /\ server.up /\ Unread # {}
    /\ page' = [page EXCEPT !.flights[Min(Unread)] = MaxId(ledger)]
    /\ UNCHANGED <<readerVars, observed, server, stream, drops>>
----------------------------------------------------------------------------
(* The page *)

(* moved: another watermark, and not the first. *)
Moved(wm) == wm # page.watermark /\ page.watermark # None

Tick ==
    /\ stream.wire # <<>>
    /\ LET wm == Head(stream.wire)
       IN page' = [page EXCEPT !.watermark = wm, !.base = IF None \in {wm, page.watermark} THEN wm ELSE @,
                               !.flights = IF Moved(wm) THEN Append(@, None) ELSE @,
                               !.failed = @ /\ ~Moved(wm)]
    /\ stream' = [stream EXCEPT !.wire = Tail(@)]
    /\ UNCHANGED <<readerVars, observed, server, drops>>

(* refresh: answers are rendered as they come. *)
Render(i) ==
    /\ i \in DOMAIN page.flights \ Unread
    /\ page' = [page EXCEPT !.read = Max({@, page.flights[i]}), !.flights = RemoveAt(@, i)]
    /\ UNCHANGED <<readerVars, observed, server, stream, drops>>

(* A read that fails shows its error and is not tried again. *)
RefreshFails(i) ==
    /\ drops < MaxDrops /\ i \in DOMAIN page.flights
    /\ page' = [page EXCEPT !.failed = TRUE, !.flights = RemoveAt(@, i)]
    /\ drops' = drops + 1
    /\ UNCHANGED <<readerVars, observed, server, stream>>

(* The connection is lost with what it carried; the browser connects again. *)
Drop ==
    /\ page.open /\ drops < MaxDrops /\ stream.state # "connecting"
    /\ stream' = Connecting
    /\ drops' = drops + 1
    /\ UNCHANGED <<readerVars, observed, server, page>>

(* The server ends, and runs again: its first read may fail. *)
Stop ==
    /\ page.open /\ server.up /\ drops < MaxDrops
    /\ server' = [up |-> FALSE, last |-> None, read |-> None]
    /\ stream' = Connecting
    /\ page' = [page EXCEPT !.failed = @ \/ page.flights # <<>>, !.flights = <<>>]
    /\ drops' = drops + 1
    /\ UNCHANGED <<readerVars, observed>>

Run ==
    /\ ~server.up
    /\ \E wm \in {observed, None} : server' = [up |-> TRUE, last |-> wm, read |-> None]
    /\ UNCHANGED <<readerVars, observed, stream, page, drops>>
----------------------------------------------------------------------------
WebNext ==
    \/ \E b \in Landed, gap \in Gaps : Land(b, gap)
    \/ PollRead \/ Publish \/ Subscribe \/ SendCurrent \/ SendTick \/ Answer
    \/ Tick \/ \E i \in DOMAIN page.flights : Render(i) \/ RefreshFails(i)
    \/ Drop \/ Stop \/ Run

(* The poller, the handlers and the browser go on; nobody has to write, and *)
(* nothing has to fail.                                                     *)
WebFairness ==
    /\ WF_webVars(PollRead) /\ WF_webVars(Publish) /\ WF_webVars(Subscribe)
    /\ WF_webVars(SendCurrent) /\ WF_webVars(SendTick) /\ WF_webVars(Answer)
    /\ WF_webVars(Tick) /\ WF_webVars(\E i \in DOMAIN page.flights : Render(i)) /\ WF_webVars(Run)

(* A page is in the end given every row, if the ledger's watermark is       *)
(* another than the one the page first took, whatever was dropped from a    *)
(* full slot or lost with a connection, unless it shows that its own read   *)
(* has failed (live.go:37-40, server.go:184-188, app.js:292-303).           *)
PageCatchesUp ==
    <>[](page.open /\ page.base # None /\ observed # page.base /\ ~page.failed => page.read = MaxId(ledger))
=============================================================================
