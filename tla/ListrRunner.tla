------------------------------ MODULE ListrRunner ------------------------------
(***************************************************************************)
(* The integration runner (packages/server/src/integration-runner.ts): it  *)
(* calls external services for items and keeps what they answer on         *)
(* integration_results rows.  One board.                                   *)
(*                                                                         *)
(* A handler, the pump it calls and the part of a job before its first     *)
(* await run to completion: handlers wait here until no queued job could   *)
(* start.  Only the call to the service is asynchronous; its answer, its   *)
(* failure and a restart of the server come at any time after.             *)
(*                                                                         *)
(* Dates are abstracted to what they are compared with: a retry or refresh *)
(* is pending ("later", or "midnight" for a quota wait) or "due".          *)
(***************************************************************************)
EXTENDS Naturals, Sequences, FiniteSets, SequencesExt

CONSTANTS
    Item, Module,
    Links,          \* how the modules may depend on each other
    Text,           \* what an item may say
    Gone, Blank,    \* a deleted item; an item no module has inputs for
    Config,         \* the texts an enabled integration's config may have ...
    Off, Bad,       \* ... or the integration is off, or its TOML broken
    Val, NoVal,     \* what a module may produce, and no value yet
    NoRes, NoJob, NoInputs,
    MaxConcurrent,  \* max_concurrent
    DailyLimit,     \* daily_limit, or ...
    HasLimit,       \* ... none is set, and calls are not counted here
    MaxAttempts,    \* MAX_ATTEMPTS
    MayDisable,     \* may a user switch an integration off
    MaxEdits,       \* bound: edits of items and of the board
    MaxDays,        \* bound: midnights
    MaxRestarts     \* bound: restarts of the server

\* reads[m]: the modules whose values m's inputs depend on; needs[m]: those of them
\* without whose values m has no inputs.
Link == [reads : [Module -> SUBSET Module], needs : [Module -> SUBSET Module]]

ASSUME RunnerAssumption ==
    /\ Links \subseteq Link
    /\ \A l \in Links, m \in Module : m \notin l.reads[m] /\ l.needs[m] \subseteq l.reads[m]
    /\ IsFiniteSet(Item)
    /\ Gone \notin Text /\ Blank \notin Text /\ Gone # Blank
    /\ Off \notin Config /\ Bad \notin Config /\ Off # Bad
    /\ MaxConcurrent \in Nat \ {0} /\ MaxAttempts \in Nat \ {0, 1}
    /\ DailyLimit \in Nat /\ MaxEdits \in Nat /\ MaxDays \in Nat /\ MaxRestarts \in Nat
    /\ MayDisable \in BOOLEAN /\ HasLimit \in BOOLEAN

VARIABLES
    link,       \* one of Links, for good
    item,       \* item[i]: the stored item
    cfg,        \* cfg[m]: the board's integration entry for m
    res,        \* res[i][m]: the result row, or NoRes
    job,        \* job[i][m]: the entry of the jobs map, or NoJob
    queue,      \* queue[m]: the items whose job waits, in order
    used,       \* used[m]: calls counted for m today
    calls,      \* history: calls made for m today
    missed,     \* history: pairs of item and module whose waiting job a restart took,
                \* with no edit since that queues it
    crossed,    \* history: items on which a cascade triggered a module after one that
                \* reads it: the chain keeps that one from looking again
    edits, days, restarts

runnerVars == <<link, item, cfg, res, job, queue, used, calls, missed, crossed, edits, days, restarts>>

ItemInputs == Text \X Config \X [Module -> Val \union {NoVal}]

Row == [status : {"unprocessed", "complete", "error"},
        vals : Val \union {NoVal},
        inputs : ItemInputs \union {NoInputs},
        attempts : 0 .. MaxAttempts,
        attempt : {"none", "later", "midnight", "due"},     \* next_attempt_at
        refresh : {"none", "later", "due"}]                 \* next_refresh_at

\* inputs and cfg are those the run started with, of a job that runs.
JobEntry == [prio : {"edit", "refresh"}, chain : SUBSET Module, running : BOOLEAN, dirty : BOOLEAN,
             inputs : ItemInputs \union {NoInputs}, cfg : Config \union {Off}]

ASSUME RunnerValues == NoInputs \notin ItemInputs /\ NoRes \notin Row /\ NoJob \notin JobEntry

Job(i, m) == job[i][m]
Running(m) == {i \in Item : Job(i, m) # NoJob /\ Job(i, m).running}
NoJobs == \A i \in Item, m \in Module : Job(i, m) = NoJob

RunnerTypeOK ==
    /\ item \in [Item -> Text \union {Gone, Blank}]
    /\ cfg \in [Module -> Config \union {Off, Bad}]
    /\ res \in [Item -> [Module -> Row \union {NoRes}]]
    /\ job \in [Item -> [Module -> JobEntry \union {NoJob}]]
    /\ queue \in [Module -> Seq(Item)]
    /\ used \in [Module -> 0 .. DailyLimit]
    /\ calls \in [Module -> Nat]
    /\ link \in Links
    /\ missed \subseteq Item \X Module /\ crossed \subseteq Item

-----------------------------------------------------------------------------
(* Inputs.                                                                 *)

ValOf(r) == IF r = NoRes THEN NoVal ELSE r.vals

\* inputsOf on the item with the other modules' results laid over it; rs are the
\* item's result rows.  A module without inputs of the others ignores them.
Inputs(m, it, c, rs) ==
    IF it \in {Gone, Blank} \/ \E n \in link.needs[m] : ValOf(rs[n]) = NoVal THEN NoInputs
    ELSE <<it, c, [n \in Module |-> IF n \in link.reads[m] THEN ValOf(rs[n]) ELSE NoVal]>>

-----------------------------------------------------------------------------
(* The queue.                                                              *)

NewJob(p, ch) ==
    [prio |-> p, chain |-> ch, running |-> FALSE, dirty |-> FALSE,
     inputs |-> NoInputs, cfg |-> Off]

\* Mutation of Coalesce: a trigger during the run is forgotten.
CoalesceLosesRerun(j, p, ch) ==
    [j EXCEPT !.prio = IF p = "edit" THEN p ELSE @, !.chain = ch]

\* A trigger for a job that is there already.
Coalesce(j, p, ch) ==
    [j EXCEPT !.dirty = @ \/ j.running,
              !.prio = IF p = "edit" THEN p ELSE @,
              !.chain = ch]

\* Mutation of Enqueued: a trigger starts a second job.
EnqueuedTwice(j, p, ch) == NewJob(p, ch)

Enqueued(j, p, ch) == IF j = NoJob THEN NewJob(p, ch) ELSE Coalesce(j, p, ch)

\* Edits before refreshes, each in order of arrival: q with the items of urgent in front.
Sorted(q, urgent) ==
    LET before(j, k) ==
            \/ q[j] \in urgent /\ q[k] \notin urgent
            \/ (q[j] \in urgent <=> q[k] \in urgent) /\ j < k
        place(k) == 1 + Cardinality({j \in DOMAIN q : before(j, k)})
    IN [n \in DOMAIN q |-> q[CHOOSE k \in DOMAIN q : place(k) = n]]

Trigger(p, ch) == [prio |-> p, chain |-> ch]

\* The jobs map after the pairs in D are enqueued, each with its trigger.
JobsAfter(D, trigger, jobs) ==
    [i \in Item |-> [m \in Module |->
        IF <<i, m>> \in D
        THEN Enqueued(jobs[i][m], trigger[<<i, m>>].prio, trigger[<<i, m>>].chain)
        ELSE jobs[i][m]]]

\* The queue q of m, longer by the jobs of the items in new, and sorted.
QueueAfter(q, new, jobs, m) ==
    Sorted(q \o SetToSeq(new), {i \in Item : jobs[i][m] # NoJob /\ jobs[i][m].prio = "edit"})

\* The pairs in D are enqueued; jobs is job, less what the caller has just removed.
Enqueue(D, trigger, jobs) ==
    LET new(m) == {i \in Item : <<i, m>> \in D /\ jobs[i][m] = NoJob}
        crossing == {p \in D : \E n \in trigger[p].chain : p[2] \in link.reads[n]}
    IN
    /\ missed' = (missed \ {p \in D : trigger[p].prio = "edit"})
    /\ crossed' = crossed \union {p[1] : p \in crossing}
    /\ job' = JobsAfter(D, trigger, jobs)
    /\ queue' = [m \in Module |-> QueueAfter(queue[m], new(m), job', m)]

CanStart(m) == queue[m] # <<>> /\ Cardinality(Running(m)) < MaxConcurrent

\* No handler starts before the one that runs is done, its pump included.
HandlerDone == \A m \in Module : ~CanStart(m)

-----------------------------------------------------------------------------
(* onItemChanged: what it decides for each module, from the result rows as *)
(* they are when it starts.                                                *)

\* Mutation of Decide: modules that ran in this cascade may run again.
DecideAgain(m, it, c, rs, chain) ==
    LET in == Inputs(m, it, c, rs) IN
    IF c = Off \/ it = Gone THEN "skip"
    ELSE IF c = Bad THEN "config error"
    ELSE IF in = NoInputs THEN "remove"
    ELSE IF rs[m] # NoRes /\ rs[m].inputs = in /\ rs[m].status # "unprocessed" THEN "skip"
    ELSE "enqueue"

Decide(m, it, c, rs, chain) ==
    LET in == Inputs(m, it, c, rs) IN
    IF c = Off \/ m \in chain \/ it = Gone THEN "skip"
    ELSE IF c = Bad THEN "config error"
    ELSE IF in = NoInputs THEN "remove"
    ELSE IF rs[m] # NoRes /\ rs[m].inputs = in /\ rs[m].status # "unprocessed" THEN "skip"
    ELSE "enqueue"

BlankRow ==
    [status |-> "unprocessed", vals |-> NoVal, inputs |-> NoInputs,
     attempts |-> 0, attempt |-> "none", refresh |-> "none"]

OrBlank(r) == IF r = NoRes THEN BlankRow ELSE r

ConfigErrorRow(r) ==
    [OrBlank(r) EXCEPT !.status = "error", !.inputs = NoInputs, !.attempt = "none"]

\* The result rows after onItemChanged.
Decided(decision, r) ==
    CASE decision = "config error" -> ConfigErrorRow(r)
      [] decision = "remove" -> NoRes
      [] OTHER -> r

\* What onItemChanged decides for i and m when the items in S have changed.
Decision(S, i, m, it, c, rs, chain) ==
    IF i \in S THEN Decide(m, it[i], c[m], rs[i], chain) ELSE "skip"

\* The items are it now, and those in S have changed; rs are the rows, c the
\* board's entries.
ItemsChanged(S, it, c, rs) ==
    LET decision(i, m) == Decision(S, i, m, it, c, rs, {})
        D == {p \in Item \X Module : decision(p[1], p[2]) = "enqueue"}
    IN
    /\ res' = [i \in Item |-> [m \in Module |-> Decided(decision(i, m), rs[i][m])]]
    /\ Enqueue(D, [p \in D |-> Trigger("edit", {})], job)

-----------------------------------------------------------------------------
(* Handlers.                                                               *)

\* push_entity of an item.
EditItem(i, text) ==
    /\ HandlerDone
    /\ edits < MaxEdits /\ edits' = edits + 1
    /\ item[i] # Gone /\ text # item[i]
    /\ item' = [item EXCEPT ![i] = text]
    /\ ItemsChanged({i}, item', cfg, res)
    /\ UNCHANGED <<link, cfg, used, calls, days, restarts>>

\* push_delete of an item; its job, if any, is not touched.
DeleteItem(i) ==
    /\ HandlerDone
    /\ edits < MaxEdits /\ edits' = edits + 1
    /\ item[i] # Gone
    /\ item' = [item EXCEPT ![i] = Gone]
    /\ res' = [res EXCEPT ![i] = [m \in Module |-> NoRes]]
    /\ UNCHANGED <<link, cfg, job, queue, missed, crossed, used, calls, days, restarts>>

\* push_entity of the board: the results of an integration it dropped go, and
\* if one is new or configured differently, all its items count as changed.
EditBoard(m, c) ==
    LET left == [i \in Item |->
            IF c = Off /\ item[i] # Gone THEN [res[i] EXCEPT ![m] = NoRes] ELSE res[i]]
    IN
    /\ HandlerDone
    /\ edits < MaxEdits /\ edits' = edits + 1
    /\ c # cfg[m] /\ (c = Off => MayDisable)
    /\ cfg' = [cfg EXCEPT ![m] = c]
    /\ ItemsChanged(IF c = Off THEN {} ELSE Item, item, cfg', left)
    /\ UNCHANGED <<link, item, used, calls, days, restarts>>

\* tick: everything due is queued as a refresh.
Due(r) ==
    r # NoRes /\ IF r.status = "complete" THEN r.refresh = "due" ELSE r.attempt = "due"

DuePairs == {p \in Item \X Module : Due(res[p[1]][p[2]])}

RunnerTick ==
    /\ HandlerDone
    /\ DuePairs # {}
    /\ Enqueue(DuePairs, [p \in DuePairs |-> Trigger("refresh", {})], job)
    /\ UNCHANGED <<link, item, cfg, res, used, calls, edits, days, restarts>>

-----------------------------------------------------------------------------
(* runJob.                                                                 *)

WithRow(i, m, r) == res' = [res EXCEPT ![i][m] = r]

\* spend: count a call, unless the limit is reached.
OverLimit(m) == HasLimit /\ used[m] >= DailyLimit

Spend(m) ==
    IF HasLimit
    THEN /\ used' = [used EXCEPT ![m] = @ + 1]
         /\ calls' = [calls EXCEPT ![m] = @ + 1]
    ELSE UNCHANGED <<used, calls>>

QuotaRow(r, in) ==
    [OrBlank(r) EXCEPT !.status = "unprocessed", !.inputs = in, !.attempt = "midnight"]

\* Up to the call of the service.  What cannot run is settled at once.
StartJob(m) ==
    LET i == Head(queue[m])
        r == res[i][m]
        in == Inputs(m, item[i], cfg[m], res[i])
        settled == [job EXCEPT ![i][m] = NoJob]
    IN
    /\ CanStart(m)
    /\ queue' = [queue EXCEPT ![m] = Tail(@)]
    /\ \/ /\ item[i] = Gone
          /\ res' = [res EXCEPT ![i] = [n \in Module |-> NoRes]]
          /\ job' = settled
          /\ UNCHANGED <<used, calls>>
       \/ /\ item[i] # Gone
          /\ cfg[m] = Off \/ (cfg[m] # Bad /\ in = NoInputs)
          /\ WithRow(i, m, NoRes)
          /\ job' = settled
          /\ UNCHANGED <<used, calls>>
       \/ /\ item[i] # Gone
          /\ cfg[m] = Bad
          /\ WithRow(i, m, ConfigErrorRow(r))
          /\ job' = settled
          /\ UNCHANGED <<used, calls>>
       \/ /\ cfg[m] \notin {Off, Bad} /\ in # NoInputs
          /\ OverLimit(m)
          /\ WithRow(i, m, QuotaRow(r, in))
          /\ job' = settled
          /\ UNCHANGED <<used, calls>>
       \/ /\ cfg[m] \notin {Off, Bad} /\ in # NoInputs
          /\ ~OverLimit(m)
          /\ Spend(m)
          /\ WithRow(i, m, IF Job(i, m).prio = "edit"
                           THEN [OrBlank(r) EXCEPT !.status = "unprocessed"]
                           ELSE r)
          /\ job' = [job EXCEPT ![i][m].running = TRUE, ![i][m].inputs = in, ![i][m].cfg = cfg[m]]
    /\ UNCHANGED <<link, item, cfg, missed, crossed, edits, days, restarts>>

\* A module may call more than once; every further call is paid for too.
CallAgain(i, m) ==
    /\ HandlerDone
    /\ i \in Running(m)
    /\ HasLimit /\ ~OverLimit(m)
    /\ Spend(m)
    /\ UNCHANGED <<link, item, cfg, res, job, queue, missed, crossed, edits, days, restarts>>

\* The job is done and, if it was triggered again meanwhile, queued again; D are
\* the pairs that its outcome triggers, never its own.
EndJob(i, m, dirty, D, chain) ==
    LET j == Job(i, m)
        all == D \union (IF dirty THEN {<<i, m>>} ELSE {})
        trigger == [p \in all |->
            IF p = <<i, m>> THEN Trigger(j.prio, j.chain) ELSE Trigger("edit", chain)]
    IN  Enqueue(all, trigger, [job EXCEPT ![i][m] = NoJob])

Answered(i, m) ==
    /\ HandlerDone
    /\ i \in Running(m)
    /\ UNCHANGED <<link, item, cfg, used, calls, edits, days, restarts>>

\* The inputs as they are now, under the config the run started with.
LatestInputs(i, m) == Inputs(m, item[i], Job(i, m).cfg, res[i])

\* The answer is for other inputs than the item has now.
AnswerStale(i, m) ==
    /\ Answered(i, m)
    /\ LatestInputs(i, m) # Job(i, m).inputs
    /\ EndJob(i, m, Job(i, m).dirty \/ LatestInputs(i, m) # NoInputs, {}, {})
    /\ UNCHANGED res

\* Mutation of AnswerStored: the modules that read these values are not run.
AnswerWithoutCascade(i, m, v, refresh) ==
    LET j == Job(i, m) IN
    /\ Answered(i, m)
    /\ LatestInputs(i, m) = j.inputs
    /\ WithRow(i, m, [status |-> "complete", vals |-> v, inputs |-> j.inputs,
                      attempts |-> 0, attempt |-> "none", refresh |-> refresh])
    /\ EndJob(i, m, j.dirty, {}, {})

\* The answer is stored.  If the values differ from the stored ones, the modules
\* that have not run in this cascade look at the item again.
AnswerStored(i, m, v, refresh) ==
    LET j == Job(i, m)
        chain == j.chain \union {m}
        rs == [res EXCEPT ![i][m] =
                  [status |-> "complete", vals |-> v, inputs |-> j.inputs,
                   attempts |-> 0, attempt |-> "none", refresh |-> refresh]]
        looking == IF ValOf(res[i][m]) = v THEN {} ELSE {i}
        decision(x, n) == Decision(looking, x, n, item, cfg, rs, chain)
    IN
    /\ Answered(i, m)
    /\ LatestInputs(i, m) = j.inputs
    /\ res' = [x \in Item |-> [n \in Module |-> Decided(decision(x, n), rs[x][n])]]
    /\ EndJob(i, m, j.dirty,
              {p \in Item \X Module : decision(p[1], p[2]) = "enqueue"}, chain)

\* Mutation of AnswerFailed: no further attempt is scheduled.
AnswerFailedForGood(i, m) ==
    LET j == Job(i, m)
        n == OrBlank(res[i][m]).attempts + 1
    IN
    /\ Answered(i, m)
    /\ WithRow(i, m, [OrBlank(res[i][m]) EXCEPT
            !.status = "error", !.inputs = j.inputs,
            !.attempts = IF n < MaxAttempts THEN n ELSE MaxAttempts,
            !.attempt = "none"])
    /\ EndJob(i, m, j.dirty, {}, {})

\* The call failed or timed out: keep the values, retry later, up to MAX_ATTEMPTS
\* times.  The code counts on beyond that; no attempt is scheduled there either way.
\* Neither the item nor the board is looked at again.
AnswerFailed(i, m) ==
    LET j == Job(i, m)
        n == OrBlank(res[i][m]).attempts + 1
    IN
    /\ Answered(i, m)
    /\ WithRow(i, m, [OrBlank(res[i][m]) EXCEPT
            !.status = "error", !.inputs = j.inputs,
            !.attempts = IF n < MaxAttempts THEN n ELSE MaxAttempts,
            !.attempt = IF n < MaxAttempts THEN "later" ELSE "none"])
    /\ EndJob(i, m, j.dirty, {}, {})

\* A further call is over the daily limit.
AnswerOverQuota(i, m) ==
    /\ Answered(i, m)
    /\ OverLimit(m)
    /\ WithRow(i, m, QuotaRow(res[i][m], Job(i, m).inputs))
    /\ EndJob(i, m, Job(i, m).dirty, {}, {})

-----------------------------------------------------------------------------
(* Time and restarts.                                                      *)

\* The delay of a retry, or the interval to a refresh, is over.
TimePasses(i, m) ==
    LET r == res[i][m] IN
    /\ HandlerDone
    /\ r # NoRes /\ (r.attempt = "later" \/ r.refresh = "later")
    /\ WithRow(i, m, [r EXCEPT
            !.attempt = IF @ = "later" THEN "due" ELSE @,
            !.refresh = IF @ = "later" THEN "due" ELSE @])
    /\ UNCHANGED <<link, item, cfg, job, queue, used, calls, missed, crossed, edits, days, restarts>>

\* Midnight UTC: the counters start over and the quota waits are due.
Midnight ==
    /\ HandlerDone
    /\ days < MaxDays /\ days' = days + 1
    /\ used' = [m \in Module |-> 0]
    /\ calls' = [m \in Module |-> 0]
    /\ res' = [i \in Item |-> [m \in Module |->
            IF res[i][m] = NoRes THEN NoRes
            ELSE [res[i][m] EXCEPT !.attempt = IF @ = "midnight" THEN "due" ELSE @]]]
    /\ UNCHANGED <<link, item, cfg, job, queue, missed, crossed, edits, restarts>>

\* The server stops, with its jobs and counters, and starts again: results left
\* unprocessed without a pending wait are queued, then what is due.
Stalled(r) == r # NoRes /\ r.status = "unprocessed" /\ r.attempt = "none"

Waits(i, m) == Job(i, m) # NoJob /\ (~Job(i, m).running \/ Job(i, m).dirty)

Restart ==
    LET stalled == {p \in Item \X Module : Stalled(res[p[1]][p[2]])}
        D == stalled \union DuePairs
        trigger == [p \in D |-> Trigger(IF p \in stalled THEN "edit" ELSE "refresh", {})]
    IN
    /\ HandlerDone
    /\ restarts < MaxRestarts /\ restarts' = restarts + 1
    /\ job' = JobsAfter(D, trigger, [i \in Item |-> [m \in Module |-> NoJob]])
    /\ queue' = [m \in Module |-> QueueAfter(<<>>, {i \in Item : <<i, m>> \in D}, job', m)]
    /\ used' = [m \in Module |-> 0]
    /\ missed' = (missed \union {p \in Item \X Module : Waits(p[1], p[2])}) \ stalled
    /\ UNCHANGED <<link, item, cfg, res, calls, crossed, edits, days>>

-----------------------------------------------------------------------------
RunnerInit ==
    /\ link \in Links
    /\ item = [i \in Item |-> Blank]
    /\ cfg \in [Module -> Config \union {Off}]
    /\ res = [i \in Item |-> [m \in Module |-> NoRes]]
    /\ job = [i \in Item |-> [m \in Module |-> NoJob]]
    /\ queue = [m \in Module |-> <<>>]
    /\ used = [m \in Module |-> 0]
    /\ calls = [m \in Module |-> 0]
    /\ missed = {} /\ crossed = {}
    /\ edits = 0 /\ days = 0 /\ restarts = 0

Answer(i, m) ==
    \/ AnswerStale(i, m)
    \/ \E v \in Val, r \in {"none", "later"} : AnswerStored(i, m, v, r)
    \/ AnswerFailed(i, m)
    \/ AnswerOverQuota(i, m)

RunnerNext ==
    \/ \E i \in Item, t \in Text \union {Blank} : EditItem(i, t)
    \/ \E i \in Item : DeleteItem(i)
    \/ \E m \in Module, c \in Config \union {Off, Bad} : EditBoard(m, c)
    \/ RunnerTick
    \/ \E m \in Module : StartJob(m)
    \/ \E i \in Item, m \in Module : CallAgain(i, m) \/ Answer(i, m) \/ TimePasses(i, m)
    \/ Midnight
    \/ Restart

RunnerSpec == RunnerInit /\ [][RunnerNext]_runnerVars

\* The pump starts what it can, and every call ends: fetch has a timeout, and its
\* continuation has its turn in the event loop whatever handlers run in between.
RunnerFairness ==
    /\ \A m \in Module : WF_runnerVars(StartJob(m))
    /\ \A i \in Item, m \in Module : SF_runnerVars(Answer(i, m))

FairRunnerSpec == RunnerSpec /\ RunnerFairness

-----------------------------------------------------------------------------
(* Properties.                                                             *)

\* The jobs map, the queues and the running counters agree: a job that waits is
\* in its module's queue, once, and not more than max_concurrent run.
JobsAccounted ==
    \A m \in Module :
        /\ Cardinality(Running(m)) <= MaxConcurrent
        /\ \A i \in Item :
              Cardinality({k \in DOMAIN queue[m] : queue[m][k] = i})
                  = IF Job(i, m) # NoJob /\ ~Job(i, m).running THEN 1 ELSE 0

\* A result is up to date: it answers the inputs of now, well or with an error, or it
\* is unprocessed and an attempt, which looks at the inputs anew, is pending.
UpToDate(i, m) ==
    LET in == Inputs(m, item[i], cfg[m], res[i]) IN
    (item[i] # Gone /\ cfg[m] \notin {Off, Bad} /\ in # NoInputs)
        => /\ res[i][m] # NoRes
           /\ IF res[i][m].status = "unprocessed" THEN res[i][m].attempt # "none"
              ELSE res[i][m].inputs = in

\* No trigger is lost: when no job is queued or running, every enabled module's
\* result is up to date, whatever happened to item and board during the runs.
AllUpToDate == NoJobs => \A i \in Item, m \in Module : UpToDate(i, m)

\* No value that another module reads is taken away while the item has inputs: a
\* module that is read needs no values itself and is never switched off.
ValuesStay == \A m, n \in Module : n \in link.reads[m] => ~MayDisable /\ link.needs[n] = {}

\* That holds where values that are read stay, up to the jobs that waited when the
\* server stopped, on every item where no cascade triggers a module after one that
\* reads it (enqueue, runJob and onItemChanged between them).
IdleUpToDate ==
    ValuesStay /\ NoJobs => \A i \in Item \ crossed, m \in Module :
                                <<i, m>> \in missed \/ UpToDate(i, m)

\* A result whose item is gone, written after the deletion by a call under way then, is
\* one that a scheduled attempt will find and remove (runJob, writeFailure).
OrphansRetried ==
    \A i \in Item, m \in Module :
        item[i] = Gone /\ res[i][m] # NoRes => res[i][m].attempt # "none"

\* An integration the board dropped has no results once its jobs are done.
DroppedHasNoResults ==
    NoJobs => \A i \in Item, m \in Module : cfg[m] = Off => res[i][m] = NoRes

\* The limit caps the calls of a day.
CallsCapped == \A m \in Module : calls[m] <= DailyLimit

\* Triggers that modules cause each other come to an end: unless retries and
\* refreshes keep falling due meanwhile, there is again and again no job.
NothingFallsDue == [][\A i \in Item, m \in Module : ~TimePasses(i, m)]_runnerVars

RunnerRests == <>NothingFallsDue => []<>NoJobs
=============================================================================
