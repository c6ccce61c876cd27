---------------------------- MODULE ListrConsole ----------------------------
(***************************************************************************)
(* The operator console: what the server records about its connections and *)
(* integration runs (console-api/monitor.ts), what it answers about them    *)
(* (console-api/router.ts), and a browser tab that fetches a page once and  *)
(* keeps it up to date from the event stream (server/console/src).          *)
(*                                                                         *)
(* A page is what tells states apart: some are replaced by events that      *)
(* carry their new value, some are fetched again when an event says so, and *)
(* "runs" merges events into its list.  Logs of messages, rates, names and  *)
(* times are left out.                                                      *)
(***************************************************************************)
EXTENDS Integers, Sequences, SequencesExt, FiniteSets

CONSTANTS
    Client,        \* identities that sockets claim (console)
    Socket,        \* bound: sockets that are ever opened
    Module,        \* integration modules
    Nobody,        \* null
    ConsoleWorlds, \* what happens, see below
    MaxRuns,       \* MAX_RUNS: runs the server keeps
    MaxClosed,     \* MAX_CLOSED_PER_CLIENT: closed connections kept of a client
    MaxReplay,     \* MAX_REPLAY: events the server keeps
    MaxListed,     \* runs a page lists
    MaxChars,      \* MAX_TOTAL_BODY_CHARS
    BodyChars,     \* lengths of bodies, cut at MAX_BODY_CHARS
    MaxStarted,    \* bound: runs started
    MaxCounted     \* bound: imports, and rejected upgrades

ASSUME ConsoleAssumption ==
    /\ MaxRuns \in Nat \ {0}
    /\ MaxChars \in Nat
    /\ BodyChars \subseteq Nat

VARIABLES
    sock,       \* socket -> ConnRecord
    closed,     \* closed sockets, the last one at the end (closedByClient)
    known,      \* clients table: registered clients
    counts,     \* [imports, failed, rejected, errors], since the start
    runs,       \* runs kept, oldest first
    chars,      \* bodyChars
    started,    \* runs started
    stream,     \* [next, replay, dirty, subscribed]
    session,    \* whether the server accepts the tab's cookie
    tab,        \* the browser tab
    around      \* which of ConsoleWorlds

consoleVars == <<sock, closed, known, counts, runs, chars, started, stream, session, tab, around>>

\* The fields of around:
\*   does      names of what happens
\*   pages     pages and modules the tab opens
\*   events    bound: events emitted
\*   registered  clients that have been here before
\*   watched   another tab is subscribed all the time
\*   prompt    a page is opened on a stream that is up, and its answers arrive
\*             before anything else happens; so does the check of a hello
NoCounts == [imports |-> 0, failed |-> 0, rejected |-> 0, errors |-> 0]
NewStream == [next |-> 1, replay |-> <<>>, dirty |-> <<>>, subscribed |-> FALSE]
NewSocket == [open |-> FALSE, state |-> "none", client |-> Nobody, verifying |-> FALSE]

----------------------------------------------------------------------------
(* What the server answers                                                 *)

\* clients: sockets of registered clients by client, the others one by one.
ClientsValue(socks, registered) ==
    LET open == {s \in Socket : socks[s].open}
    IN [rows |-> [c \in registered |->
                    {<<s, socks[s].state>> : s \in {x \in open : socks[x].client = c}}],
        others |-> {<<s, socks[s].client, socks[s].state>> :
                      s \in {x \in open : socks[x].client \notin registered}}]

\* connectedClientIds
Connected(socks) ==
    {c \in Client : \E s \in Socket : socks[s].open /\ socks[s].client = c /\ socks[s].state = "authenticated"}

OverviewValue == [registered |-> Cardinality(known), connected |-> Cardinality(Connected(sock))]

\* devices, of trust and of userDetail
TrustValue == {<<c, c \in Connected(sock)>> : c \in known}

\* portsSync
PortsValue == [open |-> Cardinality({s \in Socket : sock[s].open}), rejected |-> counts.rejected]

\* connectionsFor: open ones, then closed ones newest first.
ConnectionsFor(c) ==
    LET mine == SelectSeq(closed, LAMBDA s : sock[s].client = c)
        kept == SubSeq(mine, IF Len(mine) > MaxClosed THEN Len(mine) - MaxClosed + 1 ELSE 1, Len(mine))
    IN [open |-> {s \in Socket : sock[s].open /\ sock[s].client = c}, closed |-> Reverse(kept)]

ClientDetail(c) ==
    LET conns == ConnectionsFor(c)
    IN [open |-> {<<s, sock[s].state>> : s \in conns.open},
        closed |-> [i \in DOMAIN conns.closed |-> <<conns.closed[i], sock[conns.closed[i]].state>>],
        registered |-> c \in known]

\* What integrations() takes from the monitor.
IntegrationsValue == [imports |-> counts.imports, failed |-> counts.failed, errors |-> counts.errors]

\* runSummary and listRuns: newest first.
Summary(r) == [id |-> r.id, module |-> r.module, outcome |-> r.outcome]
ListRuns(module) ==
    LET matching == SelectSeq(Reverse(runs), LAMBDA r : module \in {Nobody, r.module})
    IN [i \in 1 .. (IF Len(matching) < MaxListed THEN Len(matching) ELSE MaxListed) |-> Summary(matching[i])]

\* runDetail
RunDetail(id) ==
    IF \E r \in Range(runs) : r.id = id THEN CHOOSE r \in Range(runs) : r.id = id ELSE Nobody

PageValue(page, of) ==
    CASE page = "clients" -> ClientsValue(sock, known)
      [] page = "client" -> ClientDetail(of)
      [] page = "overview" -> OverviewValue
      [] page = "trust" -> TrustValue
      [] page = "ports" -> PortsValue
      [] page = "integrations" -> IntegrationsValue
      [] page = "run" -> RunDetail(of)
      [] OTHER -> ListRuns(of)

----------------------------------------------------------------------------
(* The event stream                                                        *)

PushBounded(s, x, max) ==
    IF Len(s) < max THEN Append(s, x) ELSE Append(SubSeq(s, Len(s) - max + 2, Len(s)), x)

\* emit, for a sequence of events without their ids: kept and written to the
\* tab if it is subscribed.
Emitted(str, t, topic, data) ==
    LET e == [id |-> str.next, topic |-> topic, data |-> data]
    IN [stream |-> [str EXCEPT !.next = @ + 1, !.replay = PushBounded(@, e, MaxReplay)],
        tab |-> IF str.subscribed THEN [t EXCEPT !.wire = Append(@, e)] ELSE t]

\* markDirty, for each of the topics
Marked(str, topics) ==
    [str EXCEPT !.dirty = @ \o SelectSeq(topics, LAMBDA t : t \notin Range(str.dirty))]

Emit(topic, data, topics) ==
    LET r == Emitted(stream, tab, topic, data)
    IN stream' = Marked(r.stream, topics) /\ tab' = r.tab

MarkDirty(topics) == stream' = Marked(stream, topics) /\ UNCHANGED tab

MayEmit == stream.next <= around.events

\* setStatsProvider
Stats(topic) == CASE topic = "client.stats" -> ClientsValue(sock, known)
                  [] topic = "integration.stats" -> IntegrationsValue
                  [] topic = "ports.stats" -> PortsValue
                  [] OTHER -> Nobody

\* flushStats, on a timer
FlushStats ==
    /\ stream.dirty # <<>> /\ MayEmit
    /\ IF ~stream.subscribed /\ ~around.watched
       THEN stream' = [stream EXCEPT !.dirty = <<>>] /\ UNCHANGED tab
       ELSE LET send(r, topic) == Emitted(r.stream, r.tab, topic, Stats(topic))
                r == FoldLeft(send, [stream |-> [stream EXCEPT !.dirty = <<>>], tab |-> tab], stream.dirty)
            IN stream' = r.stream /\ tab' = r.tab
    /\ UNCHANGED <<sock, closed, known, counts, runs, chars, started, session, around>>

----------------------------------------------------------------------------
(* Connections (the hooks of index.ts)                                     *)

InWorld(name) == name \in around.does /\ MayEmit /\ tab.asked = "no"

\* connOpened
ConnOpened(s) ==
    /\ InWorld("sockets")
    /\ sock[s].state = "none"
    /\ sock' = [sock EXCEPT ![s].open = TRUE, ![s].state = "connecting"]
    /\ MarkDirty(<<"ports.stats", "client.stats">>)
    /\ UNCHANGED <<closed, known, counts, runs, chars, started, session, around>>

\* hello: messageIn, and connChallenged when the thumbprint was computed,
\* which marks nothing.
Hello(s, c) ==
    /\ InWorld("sockets")
    /\ sock[s].open /\ sock[s].state = "connecting"
    /\ sock' = [sock EXCEPT ![s].client = c, ![s].state = "challenged"]
    /\ IF around.prompt THEN MarkDirty(<<"client.stats">>) ELSE UNCHANGED <<stream, tab>>
    /\ UNCHANGED <<closed, known, counts, runs, chars, started, session, around>>

\* auth: messageIn; the signature is verified later.
Auth(s) ==
    /\ InWorld("sockets")
    /\ sock[s].open /\ sock[s].state = "challenged" /\ ~sock[s].verifying
    /\ sock' = [sock EXCEPT ![s].verifying = TRUE]
    /\ MarkDirty(<<"client.stats">>)
    /\ UNCHANGED <<closed, known, counts, runs, chars, started, session, around>>

\* connAuthenticated or connNeedsGrant, also of a socket that was closed
\* meanwhile: its record is not among the open ones and changes all the same.
Verified(s) ==
    LET state == IF sock[s].client \in known THEN "authenticated" ELSE "needs_grant"
    IN /\ InWorld("sockets")
       /\ sock[s].verifying
       /\ sock' = [sock EXCEPT ![s].verifying = FALSE, ![s].state = state]
       /\ Emit("client.connect", Nobody, <<"client.stats">>)
       /\ UNCHANGED <<closed, known, counts, runs, chars, started, session, around>>

\* redeem_grant registers the client, which is an auth event (onAuthEvent).
Redeemed(s) ==
    /\ InWorld("sockets")
    /\ sock[s].open /\ sock[s].state = "needs_grant"
    /\ sock' = [sock EXCEPT ![s].state = "authenticated"]
    /\ known' = known \union {sock[s].client}
    /\ Emit("client.connect", Nobody, <<"trust", "client.stats">>)
    /\ UNCHANGED <<closed, counts, runs, chars, started, session, around>>

\* connClosed
ConnClosed(s) ==
    /\ InWorld("sockets")
    /\ sock[s].open
    /\ sock' = [sock EXCEPT ![s].open = FALSE, ![s].state = "closed"]
    /\ closed' = IF sock[s].client = Nobody THEN closed ELSE Append(closed, s)
    /\ Emit("client.disconnect", Nobody, <<"ports.stats", "client.stats">>)
    /\ UNCHANGED <<known, counts, runs, chars, started, session, around>>

\* verifyClient turns a socket down: its origin, or its address has too many.
UpgradeRejected ==
    /\ InWorld("counts")
    /\ counts.rejected < MaxCounted
    /\ counts' = [counts EXCEPT !.rejected = @ + 1]
    /\ MarkDirty(<<"ports.stats">>)
    /\ UNCHANGED <<sock, closed, known, runs, chars, started, session, around>>

----------------------------------------------------------------------------
(* Imports and integration runs (runObserver)                              *)

\* importFinished
ImportFinished(failed) ==
    /\ InWorld("counts")
    /\ counts.imports < MaxCounted
    /\ counts' = [counts EXCEPT !.imports = @ + 1, !.failed = @ + IF failed THEN 1 ELSE 0]
    /\ MarkDirty(<<"integration.stats">>)
    /\ UNCHANGED <<sock, closed, known, runs, chars, started, session, around>>

\* Entry n is the sum of the first n entries of s.
Sums(s) == LET sum[n \in 0 .. Len(s)] == IF n = 0 THEN 0 ELSE sum[n - 1] + s[n] IN sum

Total(s) == Sums(s)[Len(s)]

HeldChars(r) == Total(r.bodies)

HeldByEach(rs) == [i \in DOMAIN rs |-> HeldChars(rs[i])]

\* Mutation of Evicted: what the evicted run held stays counted.
EvictedUncounted(n, r) == n

\* evictRun
Evicted(n, r) == n - HeldChars(r)

RunStarted(m) ==
    LET r == [id |-> started + 1, module |-> m, outcome |-> "running", bodies |-> <<>>]
        full == Len(runs) = MaxRuns
    IN /\ InWorld("runs")
       /\ started < MaxStarted
       /\ started' = started + 1
       /\ runs' = PushBounded(runs, r, MaxRuns)
       /\ chars' = IF full THEN Evicted(chars, Head(runs)) ELSE chars
       /\ Emit("integration.run", Summary(r), <<"integration.stats">>)
       /\ UNCHANGED <<sock, closed, known, counts, session, around>>

Dropped(r) == [r EXCEPT !.bodies = [j \in DOMAIN @ |-> 0]]

\* enforceBodyBudget: the bodies of the oldest runs are dropped until the rest
\* fits.
Budgeted(rs, n) ==
    LET left == [i \in 0 .. Len(rs) |-> n - Sums(HeldByEach(rs))[i]]
        last == CHOOSE i \in 0 .. Len(rs) : /\ left[i] <= MaxChars \/ i = Len(rs)
                                            /\ \A j \in 0 .. i - 1 : left[j] > MaxChars
    IN [rs |-> [i \in DOMAIN rs |-> IF i <= last THEN Dropped(rs[i]) ELSE rs[i]], n |-> left[last]]

\* requestStarted and requestFinished with a body of n characters, for a run
\* that is still kept.
RequestFinished(i, n) ==
    LET held == [runs EXCEPT ![i].bodies = Append(@, n)]
        r == Budgeted(held, chars + n)
    IN /\ InWorld("bodies")
       /\ runs[i].outcome = "running" /\ Len(runs[i].bodies) < 2
       /\ runs' = r.rs /\ chars' = r.n
       /\ UNCHANGED <<sock, closed, known, counts, started, stream, session, tab, around>>

\* runFinished
RunFinished(i) ==
    /\ InWorld("runs")
    /\ runs[i].outcome = "running"
    /\ \E outcome \in {"complete", "error"} :
          /\ runs' = [runs EXCEPT ![i].outcome = outcome]
          /\ counts' = [counts EXCEPT !.errors = @ + IF outcome = "error" THEN 1 ELSE 0]
          /\ Emit("integration.run", Summary([runs[i] EXCEPT !.outcome = outcome]), <<"integration.stats">>)
    /\ UNCHANGED <<sock, closed, known, chars, started, session, around>>

----------------------------------------------------------------------------
(* The tab                                                                 *)

\* load, refresh: a request.  401 leads to the login screen and closes the
\* stream.
LoggedOut(t) == [t EXCEPT !.authed = FALSE, !.source = "none", !.wire = <<>>, !.asked = "no", !.answer = Nobody]

\* replaceOn and refetchOn, of the pages that useLive keeps up to date
ReplaceOn(page) == CASE page = "clients" -> {"client.stats"}
                     [] page = "integrations" -> {"integration.stats"}
                     [] OTHER -> {}
RefetchOn(page) == CASE page = "overview" -> {"client.connect", "client.disconnect", "trust", "integration.stats"}
                     [] page = "trust" -> {"client.connect", "client.disconnect", "trust"}
                     [] page = "client" -> {"client.stats"}
                     [] page = "ports" -> {"ports.stats"}
                     [] OTHER -> {}

\* A page that is opened (of a client or a run), or a filter that is set.
OpenPage(page, of) ==
    /\ tab.asked = "no" /\ tab.authed
    /\ around.prompt => tab.source = "up"
    /\ <<tab.page, tab.of>> # <<page, of>>
    /\ tab' = [tab EXCEPT !.page = page, !.of = of, !.view = Nobody, !.queued = <<>>,
                          !.paused = FALSE, !.timer = "none", !.asked = "wanted"]
    /\ UNCHANGED <<sock, closed, known, counts, runs, chars, started, stream, session, around>>

\* The router checks the session and answers.
Answer ==
    /\ tab.asked = "wanted"
    /\ IF session
       THEN tab' = [tab EXCEPT !.asked = "answered", !.answer = PageValue(tab.page, tab.of)]
            /\ UNCHANGED stream
       ELSE tab' = LoggedOut(tab) /\ stream' = [stream EXCEPT !.subscribed = FALSE]
    /\ UNCHANGED <<sock, closed, known, counts, runs, chars, started, session, around>>

\* The answer replaces what the page shows, events it got meanwhile included; a
\* run that is no longer kept is an error, and what was there stays.
Answered ==
    /\ tab.asked = "answered"
    /\ tab' = [tab EXCEPT !.view = IF tab.answer = Nobody THEN @ ELSE tab.answer, !.answer = Nobody, !.queued = <<>>, !.asked = "no", !.gap = FALSE]
    /\ UNCHANGED <<sock, closed, known, counts, runs, chars, started, stream, session, around>>

\* upsert
Upserted(list, r) ==
    IF \E i \in DOMAIN list : list[i].id = r.id
    THEN [i \in DOMAIN list |-> IF list[i].id = r.id THEN r ELSE list[i]]
    ELSE SubSeq(<<r>> \o list, 1, IF Len(list) < 2 * MaxListed THEN Len(list) + 1 ELSE 2 * MaxListed)

\* The listener of RecentRuns: a run that is not listed waits while paused.
RunShown(t, r) ==
    IF t.of \notin {Nobody, r.module} \/ t.view = Nobody THEN t
    ELSE IF t.paused /\ \A i \in DOMAIN t.view : t.view[i].id # r.id THEN [t EXCEPT !.queued = Upserted(@, r)]
    ELSE [t EXCEPT !.view = Upserted(@, r)]

\* Mutation of Throttled: no trailing call.
ThrottledLeading(t) == IF t.timer = "none" THEN [t EXCEPT !.timer = "running", !.asked = "wanted"] ELSE t

\* throttle: the first call acts, those that come while the timer runs are one.
Throttled(t) == CASE t.timer = "none" -> [t EXCEPT !.timer = "running", !.asked = "wanted"]
                  [] OTHER -> [t EXCEPT !.timer = "pending"]

\* One event at the tab.
Receive ==
    LET e == Head(tab.wire)
        t == [tab EXCEPT !.wire = Tail(@), !.lastId = e.id]
    IN /\ tab.wire # <<>>
       /\ around.prompt => tab.asked = "no"
       /\ tab' = CASE e.topic \in ReplaceOn(tab.page) -> [t EXCEPT !.view = e.data]
                   [] e.topic \in RefetchOn(tab.page) -> Throttled(t)
                   [] tab.page = "run" /\ e.topic = "integration.run" /\ e.data.id = tab.of -> [t EXCEPT !.asked = "wanted"]
                   [] tab.page = "runs" /\ e.topic = "integration.run" -> RunShown(t, e.data)
                   [] OTHER -> t
       /\ UNCHANGED <<sock, closed, known, counts, runs, chars, started, stream, session, around>>

\* The throttle's timer.
TimerFires ==
    /\ tab.timer # "none" /\ tab.asked = "no"
    /\ tab' = IF tab.timer = "pending" THEN [tab EXCEPT !.timer = "running", !.asked = "wanted"]
              ELSE [tab EXCEPT !.timer = "none"]
    /\ UNCHANGED <<sock, closed, known, counts, runs, chars, started, stream, session, around>>

\* The pointer enters and leaves the table (resume).
Pause ==
    /\ "pause" \in around.does
    /\ tab.page = "runs" /\ ~tab.paused /\ tab.view # Nobody /\ tab.asked = "no"
    /\ tab' = [tab EXCEPT !.paused = TRUE]
    /\ UNCHANGED <<sock, closed, known, counts, runs, chars, started, stream, session, around>>

Resume ==
    /\ tab.paused
    /\ tab' = [tab EXCEPT !.view = FoldLeft(Upserted, @, Reverse(tab.queued)), !.queued = <<>>, !.paused = FALSE]
    /\ UNCHANGED <<sock, closed, known, counts, runs, chars, started, stream, session, around>>

----------------------------------------------------------------------------
(* The stream of the tab, and its session                                  *)

Login ==
    /\ ~tab.authed /\ around.pages # {}
    /\ session' = TRUE
    /\ tab' = [tab EXCEPT !.authed = TRUE, !.page = "none", !.view = Nobody, !.timer = "none", !.lastId = Nobody]
    /\ UNCHANGED <<sock, closed, known, counts, runs, chars, started, stream, around>>

\* The cookie runs out, or another tab logs out: streams that are open go on.
SessionEnds ==
    /\ "sessions" \in around.does
    /\ session /\ tab.asked = "no"
    /\ session' = FALSE
    /\ UNCHANGED <<sock, closed, known, counts, runs, chars, started, stream, tab, around>>

\* Mutation of Replayed: the event the tab has seen last comes again.
ReplayedFrom(lastId) == IF lastId = Nobody THEN <<>> ELSE SelectSeq(stream.replay, LAMBDA e : e.id > lastId + 1)

Replayed(lastId) == IF lastId = Nobody THEN <<>> ELSE SelectSeq(stream.replay, LAMBDA e : e.id > lastId)

\* EventSource connects, for the first time or again; subscribe replays what it
\* missed.
Subscribe ==
    /\ tab.authed /\ tab.source # "up" /\ tab.asked = "no"
    /\ IF session
       THEN /\ tab' = [tab EXCEPT !.source = "up", !.wire = Replayed(tab.lastId),
                                  !.gap = @ \/ (tab.lastId # Nobody /\ stream.replay # <<>>
                                                  /\ stream.replay[1].id > tab.lastId + 1)]
            /\ stream' = [stream EXCEPT !.subscribed = TRUE]
       ELSE tab' = LoggedOut(tab) /\ UNCHANGED stream
    /\ UNCHANGED <<sock, closed, known, counts, runs, chars, started, session, around>>

\* The stream breaks; what is under way is lost.
StreamLost ==
    /\ "breaks" \in around.does
    /\ tab.source = "up" /\ tab.asked = "no"
    /\ around.prompt => tab.lastId # Nobody
    /\ tab' = [tab EXCEPT !.source = "down", !.wire = <<>>]
    /\ stream' = [stream EXCEPT !.subscribed = FALSE]
    /\ UNCHANGED <<sock, closed, known, counts, runs, chars, started, session, around>>

\* The server starts again: everything it keeps here is in memory.
Restart ==
    /\ "restarts" \in around.does
    /\ sock' = [s \in Socket |-> [NewSocket EXCEPT !.state = sock[s].state]]
    /\ closed' = <<>> /\ counts' = NoCounts
    /\ runs' = <<>> /\ chars' = 0 /\ started' = 0
    /\ stream' = NewStream
    /\ session' = FALSE
    /\ tab' = IF tab.source = "up" THEN [tab EXCEPT !.source = "down", !.wire = <<>>] ELSE tab
    /\ UNCHANGED <<known, around>>

----------------------------------------------------------------------------
ConsoleInit ==
    /\ around \in ConsoleWorlds
    /\ sock = [s \in Socket |-> NewSocket]
    /\ closed = <<>> /\ counts = NoCounts
    /\ known = around.registered
    /\ runs = <<>> /\ chars = 0 /\ started = 0
    /\ stream = NewStream
    /\ session = FALSE
    /\ tab = [authed |-> FALSE, source |-> "none", lastId |-> Nobody, wire |-> <<>>, page |-> "none",
              of |-> Nobody, view |-> Nobody, queued |-> <<>>, paused |-> FALSE, timer |-> "none",
              asked |-> "no", answer |-> Nobody, gap |-> FALSE]

ConsoleNext ==
    \/ \E s \in Socket :
          \/ ConnOpened(s) \/ Auth(s) \/ Verified(s) \/ Redeemed(s) \/ ConnClosed(s)
          \/ \E c \in Client : Hello(s, c)
    \/ UpgradeRejected \/ \E failed \in BOOLEAN : ImportFinished(failed)
    \/ \E m \in Module : RunStarted(m)
    \/ \E i \in DOMAIN runs : RunFinished(i) \/ \E n \in BodyChars : RequestFinished(i, n)
    \/ \E open \in around.pages : OpenPage(open[1], open[2])
    \/ Answer \/ Answered \/ Receive \/ TimerFires \/ Pause \/ Resume
    \/ FlushStats \/ Login \/ SessionEnds \/ Subscribe \/ StreamLost \/ Restart

ConsoleSpec == ConsoleInit /\ [][ConsoleNext]_consoleVars

----------------------------------------------------------------------------
(* Properties                                                              *)

\* Nothing is under way between server and tab.
TabRests ==
    /\ tab.source = "up" /\ tab.wire = <<>> /\ tab.asked = "no" /\ tab.timer = "none"
    /\ stream.dirty = <<>> /\ tab.view # Nobody /\ ~tab.paused

\* At rest a page shows what the server would answer now, after lost streams
\* with replays, throttled refetches and pauses, unless more events were missed
\* than the server keeps (useLive, RecentRuns, subscribe).  The page of a run is
\* right once it has finished, but for bodies that are dropped: neither those nor
\* the requests of a running one are announced.
PageCurrent ==
    TabRests /\ ~tab.gap =>
        CASE tab.page = "runs" ->
               LET now == ListRuns(tab.of)
               IN /\ Range(now) \subseteq Range(tab.view)
                  /\ \A r \in Range(tab.view), x \in Range(now) : r.id = x.id => r = x
          [] tab.page = "run" ->
               LET now == RunDetail(tab.of)
               IN \/ now = Nobody
                  \/ now.outcome = "running"
                  \/ Summary(tab.view) = Summary(now) /\ Len(tab.view.bodies) = Len(now.bodies)
          [] OTHER -> tab.view = PageValue(tab.page, tab.of)

\* The budget of bodies is what the kept runs hold, after evictions and drops
\* in any order with requests that finish, and never more than the limit
\* (enforceBodyBudget, evictRun).
BodiesAccounted ==
    /\ chars = Total(HeldByEach(runs))
    /\ chars <= MaxChars
=============================================================================
