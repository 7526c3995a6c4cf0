------------------------- MODULE MarketDataRetention -------------------------
(***************************************************************************)
(* The audited purge of the market-data tables and the holds that stop it, *)
(* beside the jobs that go on writing the tables.                          *)
(*                                                                         *)
(* One stream with one window is stored.  The jobs that write it are the   *)
(* transactions of MarketDataStream, each in one step: what matters here   *)
(* is which rows they leave and refer to.  The purge is the transaction of *)
(* SqlAlchemyMarketDataRetentionManager.run in two steps, the selection of *)
(* its batch and the deletes, with other transactions between them; the    *)
(* control row is locked throughout.  Ages are counted in abstract days.   *)
(***************************************************************************)
EXTENDS Integers, FiniteSets, FiniteSetsExt

CONSTANTS Events,          \* contents the provider sends for the window
          RawDays, EventDays, InboxDays, DeliveredDays, FailedDays,
          ProvisionalDays, EvidenceDays,
          Limit,           \* batch_limit of a run
          MaxDay,        \* bound: days
          MaxWatermarks,   \* bound: versions of the watermark
          MaxRetries,      \* bound: manual retries of a replay job
          Redeliveries     \* bound: BOOLEAN, are events delivered again?

ASSUME RetentionOrder ==
    /\ {RawDays, EventDays, InboxDays, DeliveredDays, FailedDays, ProvisionalDays,
        EvidenceDays, Limit} \subseteq Nat \ {0}
    /\ RawDays <= EventDays /\ EventDays <= InboxDays
    /\ DeliveredDays <= FailedDays /\ InboxDays <= EvidenceDays

Tables == {"outbox", "revision", "request", "window", "decision", "event", "raw",
           "receipt", "watermark"}

VARIABLES
    day,
    store,      \* store[t]: the rows of table t
    finals,     \* rows of market_data_window_finalizations: their watermarks
    job,        \* job[e]: the replay job of the decision on event e
    retries,    \* manual retries so far
    holds,      \* active holds
    plan,       \* the batch of the purge that holds the control row
    running,    \* mode of that purge, or "none"
    audit       \* outcome of the last run

retentionVars == <<day, store, finals, job, retries, holds, plan, running, audit>>
purge == <<holds, plan, running, audit>>

-----------------------------------------------------------------------------
(* The rows.                                                               *)

Newest(rows) == CHOOSE r \in rows : \A q \in rows : q.version <= r.version
Watermark == Newest(store["watermark"])
Window == Newest(store["window"])
WindowVersion == IF store["window"] = {} THEN 0 ELSE Window.version
WindowFinal == store["window"] # {} /\ Window.state = "finalized"

\* The window lies behind the second version of the watermark and all later ones.
Passed(version) == version >= 2

\* The key of a row; receipts and outbox messages change under theirs.
Key(table, r) == IF table \in {"receipt", "outbox"} THEN r.event ELSE r

Put(table, rows) == [store EXCEPT ![table] = @ \cup rows]
Refer(e) == {r \in store["decision"] : r.event = e}

RetentionInit ==
    /\ day = 0
    /\ store = [t \in Tables |-> IF t = "watermark" THEN {[version |-> 1, at |-> 0]} ELSE {}]
    /\ finals = {}
    /\ job = [e \in Events |-> "none"]
    /\ retries = 0
    /\ holds = 0
    /\ plan = {}
    /\ running = "none"
    /\ audit = "none"

-----------------------------------------------------------------------------
(* The jobs that write the tables.                                         *)

NextDay ==
    /\ day < MaxDay
    /\ day' = day + 1
    /\ UNCHANGED <<store, finals, job, retries, holds, plan, running, audit>>

\* A poll advances the watermark; one without any version starts again at 1.
AdvanceWatermark ==
    LET version == IF store["watermark"] = {} THEN 1 ELSE Watermark.version + 1
    IN  /\ version <= MaxWatermarks
        /\ store' = Put("watermark", {[version |-> version, at |-> day]})
        /\ UNCHANGED <<day, finals, job, retries, purge>>

\* The first delivery of e: it is journalled, and changes the window unless the
\* watermark has passed it or it is final; then a replay is required.
IngestNew(e) ==
    LET late == Passed(Watermark.version) \/ WindowFinal
    IN  /\ store["watermark"] # {}
        /\ \A t \in {"receipt", "event", "raw"} : \A r \in store[t] : r.event # e
        /\ Refer(e) = {} /\ job[e] = "none"
        /\ store' = [store EXCEPT
             !["raw"] = @ \cup {[event |-> e, at |-> day]},
             !["event"] = @ \cup {[event |-> e, at |-> day]},
             !["receipt"] = @ \cup {[event |-> e, seen |-> day]},
             !["decision"] = @ \cup {[event |-> e, again |-> FALSE, replay |-> late,
                                      version |-> WindowVersion,
                                      watermark |-> Watermark.version, at |-> day]},
             !["window"] = IF late THEN @ ELSE @ \cup {[version |-> WindowVersion + 1,
                                                        state |-> "provisional", at |-> day]},
             !["outbox"] = IF late THEN @ ELSE @ \cup {[event |-> e, status |-> "pending",
                                                        at |-> day]}]
        /\ UNCHANGED <<day, finals, job, retries, purge>>

\* e is delivered again while its receipt is stored.
IngestAgain(e) ==
    /\ Redeliveries
    /\ store["watermark"] # {}
    /\ ~\E r \in Refer(e) : r.again
    /\ \E r \in store["receipt"] :
         /\ r.event = e
         /\ store' = [store EXCEPT
              !["raw"] = @ \cup {[event |-> e, at |-> day]},
              !["receipt"] = (@ \ {r}) \cup {[r EXCEPT !.seen = day]},
              !["decision"] = @ \cup {[event |-> e, again |-> TRUE, replay |-> FALSE,
                                       version |-> WindowVersion,
                                       watermark |-> Watermark.version, at |-> day]}]
    /\ UNCHANGED <<day, finals, job, retries, purge>>

Finalize ==
    /\ store["watermark"] # {} /\ Passed(Watermark.version)
    /\ store["window"] # {} /\ ~WindowFinal
    /\ store' = Put("window", {[version |-> WindowVersion + 1, state |-> "finalized",
                                at |-> Window.at]})
    /\ finals' = finals \cup {[watermark |-> Watermark.version, at |-> day]}
    /\ UNCHANGED <<day, job, retries, purge>>

\* The consumer of the outbox takes or refuses a message (external).
Deliver(e) ==
    /\ \E r \in store["outbox"] : \E status \in {"delivered", "failed"} :
         /\ r.event = e /\ r.status = "pending"
         /\ store' = [store EXCEPT !["outbox"] =
                        (@ \ {r}) \cup {[r EXCEPT !.status = status, !.at = day]}]
    /\ UNCHANGED <<day, finals, job, retries, purge>>

\* An operator asks for the replay of a decision; its job must be new.
RequestReplay(e) ==
    /\ \E r \in Refer(e) : r.replay
    /\ job[e] = "none"
    /\ store' = Put("request", {[event |-> e, at |-> day]})
    /\ job' = [job EXCEPT ![e] = "queued"]
    /\ UNCHANGED <<day, finals, retries, purge>>

\* The replay job ends.  It is applied if its lineage is stored, the window still
\* has the version of the decision and the watermark of the decision passed it.
ReplayEnds(e) ==
    /\ job[e] \in {"queued", "requeued"}
    /\ \/ \E d \in Refer(e) :
            /\ d.replay
            /\ \E r \in store["request"] : r.event = e
            /\ \E r \in store["event"] : r.event = e
            /\ \E r \in store["watermark"] : r.version = d.watermark
            /\ d.version = WindowVersion /\ Passed(d.watermark)
            /\ store' = [store EXCEPT
                 !["window"] = @ \cup {[version |-> WindowVersion + 1, state |-> "finalized",
                                        at |-> IF @ = {} THEN day ELSE Window.at]},
                 !["revision"] = @ \cup {[event |-> e, watermark |-> d.watermark, at |-> day]}]
            /\ job' = [job EXCEPT ![e] = "succeeded"]
       \/ job' = [job EXCEPT ![e] = "failed"] /\ UNCHANGED store
    /\ UNCHANGED <<day, finals, retries, purge>>

\* An operator retries the failed job, whose lineage may have expired since.
RetryJob(e) ==
    /\ job[e] = "failed"
    /\ retries < MaxRetries
    /\ retries' = retries + 1
    /\ job' = [job EXCEPT ![e] = "requeued"]
    /\ UNCHANGED <<day, store, finals, purge>>

-----------------------------------------------------------------------------
(* Holds.  They are changed under the control row that a purge keeps locked. *)

\* Mutant: the hold is stored without the control row.
PlaceHoldUnlocked ==
    /\ holds = 0
    /\ holds' = 1
    /\ UNCHANGED <<day, store, finals, job, retries, plan, running, audit>>

PlaceHold ==
    /\ running = "none"
    /\ holds = 0
    /\ holds' = 1
    /\ UNCHANGED <<day, store, finals, job, retries, plan, running, audit>>

ReleaseHold ==
    /\ running = "none"
    /\ holds > 0
    /\ holds' = holds - 1
    /\ UNCHANGED <<day, store, finals, job, retries, plan, running, audit>>

-----------------------------------------------------------------------------
(* The selection of a batch.  A candidate is a table and a row of it.      *)

Before(at, days) == at + days <= day
Rows(table, rows) == {<<table, r>> : r \in rows}

Outbox(status, days) ==
    Rows("outbox", {r \in store["outbox"] : r.status = status /\ Before(r.at, days)})

RevisionCandidates ==
    Rows("revision", {r \in store["revision"] : Before(r.at, EvidenceDays)})

\* Mutant: the job of the request is not looked at.
RequestCandidatesAnyJob ==
    Rows("request", {r \in store["request"] :
        /\ Before(r.at, EvidenceDays)
        /\ ~\E q \in store["revision"] : q.event = r.event})

\* Only when the job has ended and the revision is gone.
RequestCandidates ==
    Rows("request", {r \in store["request"] :
        /\ Before(r.at, EvidenceDays)
        /\ job[r.event] \in {"succeeded", "failed"}
        /\ ~\E q \in store["revision"] : q.event = r.event})

\* Mutant: the age of the window is enough.
WindowCandidatesUnfinalized ==
    Rows("window", {r \in store["window"] :
        r.state = "provisional" /\ Before(r.at, ProvisionalDays)})

WindowCandidates ==
    Rows("window", {r \in store["window"] :
        r.state = "provisional" /\ \E f \in finals : Before(f.at, ProvisionalDays)})

\* Decisions without a replay, and those whose request is in the same batch.
DecisionCandidates(requests) ==
    Rows("decision", {r \in store["decision"] :
        /\ Before(r.at, EventDays)
        /\ \/ ~r.replay
           \/ \E q \in requests : q[2].event = r.event})

EventCandidates ==
    Rows("event", {r \in store["event"] :
        /\ Before(r.at, EventDays)
        /\ Refer(r.event) = {}
        /\ ~\E q \in store["outbox"] : q.event = r.event})

RawCandidates == Rows("raw", {r \in store["raw"] : Before(r.at, RawDays)})

ReceiptCandidates == Rows("receipt", {r \in store["receipt"] : Before(r.seen, InboxDays)})

WatermarkCandidates ==
    Rows("watermark", {r \in store["watermark"] :
        /\ Before(r.at, EvidenceDays)
        /\ \A q \in store["decision"] \cup store["revision"] \cup finals :
             q.watermark # r.version})

\* In this order the scopes fill the batch; rows of a scope go in by age.
Candidates(requests) ==
    << Outbox("delivered", DeliveredDays), Outbox("failed", FailedDays), RevisionCandidates,
       RequestCandidates, WindowCandidates, DecisionCandidates(requests), EventCandidates,
       RawCandidates, ReceiptCandidates, WatermarkCandidates >>

Scopes == 1 .. 10

Age(c) == IF c[1] = "receipt" THEN c[2].seen ELSE c[2].at

\* A batch takes what remains of the limit from each scope in turn.
Batches ==
    UNION {LET scopes == Candidates(requests)
               all == UNION {scopes[i] : i \in Scopes}
           IN  {batch \in IF Cardinality(all) <= Limit THEN {all} ELSE kSubset(Limit, all) :
                  /\ batch \cap RequestCandidates = requests
                  /\ \A i, j \in Scopes :
                       i < j /\ batch \cap scopes[j] # {} => scopes[i] \subseteq batch
                  /\ \A i \in Scopes : \A c \in batch \cap scopes[i], d \in scopes[i] \ batch :
                       Age(c) <= Age(d)} : requests \in SUBSET RequestCandidates}

-----------------------------------------------------------------------------
(* A run.                                                                  *)

PurgeSelect(mode) ==
    /\ running = "none"
    /\ holds = 0
    /\ plan' \in Batches
    /\ running' = mode
    /\ UNCHANGED <<day, store, finals, job, retries, holds, audit>>

PurgeBlocked ==
    /\ running = "none"
    /\ holds > 0
    /\ audit' = "blocked"
    /\ UNCHANGED <<day, store, finals, job, retries, holds, plan, running>>

\* Rows are deleted by their key, whatever they hold by then.
Deleted(table, r) == \E c \in plan : c[1] = table /\ Key(table, c[2]) = Key(table, r)

PurgeCommit ==
    /\ running # "none"
    /\ store' = IF running = "execute"
                THEN [t \in Tables |-> {r \in store[t] : ~Deleted(t, r)}] ELSE store
    /\ plan' = {}
    /\ running' = "none"
    /\ audit' = "completed"
    /\ UNCHANGED <<day, finals, job, retries, holds>>

\* A statement fails: everything is rolled back and the failure is recorded.
PurgeFail ==
    /\ running # "none"
    /\ plan' = {}
    /\ running' = "none"
    /\ audit' = "failed"
    /\ UNCHANGED <<day, store, finals, job, retries, holds>>

Jobs ==
    \/ AdvanceWatermark \/ Finalize
    \/ \E e \in Events : \/ IngestNew(e) \/ IngestAgain(e) \/ Deliver(e)
                         \/ RequestReplay(e) \/ ReplayEnds(e) \/ RetryJob(e)

RetentionNext ==
    \/ NextDay \/ Jobs
    \/ PlaceHold \/ ReleaseHold
    \/ \E mode \in {"execute", "dry_run"} : PurgeSelect(mode)
    \/ PurgeBlocked \/ PurgeCommit \/ PurgeFail

RetentionSpec == RetentionInit /\ [][RetentionNext]_retentionVars

-----------------------------------------------------------------------------
(* Properties.                                                             *)

\* Every variable has its type.
RetentionTypeOK ==
    /\ day \in 0 .. MaxDay
    /\ DOMAIN store = Tables
    /\ \A t \in {"raw", "event", "request"} : \A r \in store[t] : r.event \in Events
    /\ \A t \in Tables : \A r \in store[t] :
         (IF t = "receipt" THEN r.seen ELSE r.at) \in 0 .. day
    /\ \A e \in Events : Cardinality({r \in store["receipt"] : r.event = e}) <= 1
    /\ job \in [Events -> {"none", "queued", "requeued", "succeeded", "failed"}]
    /\ retries \in 0 .. MaxRetries
    /\ holds \in 0 .. 1
    /\ running \in {"none", "execute", "dry_run"}
    /\ running = "none" => plan = {}
    /\ audit \in {"none", "blocked", "completed", "failed"}
    /\ Cardinality(plan) <= Limit

\* From the commit of a hold to its release no row of any table disappears,
\* whatever purge was under way when it was placed (place_hold, run).
HoldFreezes ==
    [][holds > 0 => \A t \in Tables : \A r \in store[t] :
                      \E q \in store'[t] : Key(t, q) = Key(t, r)]_retentionVars

\* No purge takes the newest version of the window, and a window that was
\* finalized stays so (_select_candidates).
NewestWindowKept ==
    [][store["window"] # {} =>
         /\ WindowVersion' >= WindowVersion
         /\ WindowFinal => WindowFinal']_retentionVars

\* While a decision may still be replayed, because its replay was not asked for
\* or its job has not ended, the decision, its event and its request stay: the
\* first run of a replay is never refused for a lineage the purge has removed.
ReplayLineageKept ==
    /\ \A d \in store["decision"] : d.replay => \E r \in store["event"] : r.event = d.event
    /\ \A e \in Events : job[e] = "queued" =>
         /\ \E d \in Refer(e) : d.replay
         /\ \E r \in store["request"] : r.event = e

\* A decision whose replay is over goes with its request: none is left behind
\* that no later batch selects (_select_candidates).
\* The code does not keep this: see the README, known divergences.
NoStrandedDecision ==
    \A d \in store["decision"] : d.replay /\ job[d.event] # "none" =>
        \E r \in store["request"] : r.event = d.event

\* The newest version of the watermark is never purged: ingestion would judge by
\* an older one (_select_candidates, get_latest_watermark).
\* The code does not keep this: see the README, known divergences.
LatestWatermarkKept ==
    [][store["watermark"] # {} =>
         /\ store'["watermark"] # {}
         /\ Watermark'.version >= Watermark.version]_retentionVars

\* A watermark that a decision, a finalization or a revision refers to is
\* stored, also when the reference was added while a purge was under way.
\* The code does not keep this: see the README, known divergences.
WatermarkLineageKept ==
    \A q \in store["decision"] \cup store["revision"] \cup finals :
        \E r \in store["watermark"] : r.version = q.watermark

\* A receipt goes only when its event was not seen for the whole time of
\* deduplication (_select_candidates, _delete_ids).
\* The code does not keep this: see the README, known divergences.
ReceiptOutlivesDelivery ==
    [][\A r \in store["receipt"] :
         (~\E q \in store'["receipt"] : q.event = r.event) => Before(r.seen, InboxDays)]_retentionVars
=============================================================================
