--------------------------- MODULE MarketDataStream ---------------------------
(***************************************************************************)
(* One market-data stream (one provider, pair and timeframe): the poll     *)
(* jobs that ingest candles, advance the watermark and finalize windows,   *)
(* and the replay jobs that revise a window after its finalization.        *)
(*                                                                         *)
(* The transactions run at PostgreSQL's READ COMMITTED.  The latest        *)
(* watermark and the latest version of a window are read with              *)
(*     SELECT ... ORDER BY version DESC LIMIT 1 FOR UPDATE                 *)
(* on tables that only grow.  Such a statement chooses its row when it     *)
(* starts and waits for the lock on that row; the transaction it waited    *)
(* for has inserted a newer row, not changed this one, so the row chosen   *)
(* at the start is returned.  Every locking read is therefore two steps    *)
(* here: one chooses the version, the next one takes its lock.  What a     *)
(* transaction inserts is visible to the others from its commit.           *)
(*                                                                         *)
(* A window is named by its end, counted in candles.  A payload stands for *)
(* the checksum of the candle a provider returned for the window.          *)
(***************************************************************************)
EXTENDS Integers, Sequences, FiniteSets

CONSTANTS Workers,     \* background workers (sessions)
          Payloads,    \* candle contents (checksums)
          MaxWindow,   \* windows 1..MaxWindow
          Lateness,    \* allowed lateness, in candles, rounded up
          MaxPolls     \* bound: provider responses

ASSUME StreamAssumption == /\ MaxWindow \in Nat \ {0}
                           /\ Lateness \in Nat \ {0}
                           /\ MaxPolls \in Nat

Windows == 1 .. MaxWindow
Events == Windows \X Payloads        \* an event's identity: window and checksum

VARIABLES
    watermarks,  \* high_water_event_time of each watermark version
    versions,    \* versions[w]: the immutable versions of window w
    journal,     \* journal[e]: the inbox receipt and decision of event e
    requests,    \* events whose decision has a replay request
    revised,     \* events whose replay has committed its revision
    polls,       \* provider responses so far: the clock of the receipts
    pc,          \* pc[s]: the statement worker s runs next
    job,         \* job[s]: what its job works on
    tx,          \* tx[s]: what its open transaction has read and staged
    held,        \* held[s]: the row locks of its open transaction
    outcome      \* outcome[s]: how its last job ended

store == <<watermarks, versions, journal, requests, revised>>
vars == <<store, polls, pc, job, tx, held, outcome>>

Dispositions == {"none", "accepted", "revision_required", "duplicate"}
States == {"provisional", "finalized"}
Version == [payload : Payloads, state : States]

\* No receipt and no decision yet.
Unseen == [seen |-> 0, wm |-> 0, disposition |-> "none", existing |-> 0]
NoTask == [candles |-> <<>>, at |-> 0, last |-> 0, seen |-> 0]
NoTx == [wm |-> 0, window |-> 0, row |-> 0, known |-> FALSE, tries |-> 0,
         todo |-> {}, staged |-> {}]

Init ==
    /\ watermarks = <<>>
    /\ versions = [w \in Windows |-> <<>>]
    /\ journal = [e \in Events |-> Unseen]
    /\ requests = {}
    /\ revised = {}
    /\ polls = 0
    /\ pc = [s \in Workers |-> "idle"]
    /\ job = [s \in Workers |-> NoTask]
    /\ tx = [s \in Workers |-> NoTx]
    /\ held = [s \in Workers |-> {}]
    /\ outcome = [s \in Workers |-> "none"]

-----------------------------------------------------------------------------
(* Rows, locks and the ends of transactions.                               *)

WatermarkTime(v) == watermarks[v] - Lateness
Late(w, v) == w <= WatermarkTime(v)

\* The rows a locking read returns; a window without a version has none.
WatermarkRow(v) == {<<"watermark", v>>}
WindowRow(w, r) == IF r = 0 THEN {} ELSE {<<"window", w, r>>}
RequestRow(e) == {<<"request", e>>}

Free(s, rows) == \A o \in Workers \ {s} : rows \cap held[o] = {}

GoTo(s, label) == pc' = [pc EXCEPT ![s] = label]
Read(s, t) == tx' = [tx EXCEPT ![s] = t]
Lock(s, rows) == held' = [held EXCEPT ![s] = @ \cup rows]

\* Mutant: a session that raised is left open, with its locks.
CloseForgotten(s) == /\ tx' = [tx EXCEPT ![s] = NoTx]
                     /\ UNCHANGED held

\* COMMIT or ROLLBACK: the next transaction starts with nothing read.
Close(s) == /\ tx' = [tx EXCEPT ![s] = NoTx]
            /\ held' = [held EXCEPT ![s] = {}]

\* The job ends: its session is closed and the worker takes another job.
End(s, result) ==
    /\ Close(s)
    /\ GoTo(s, "idle")
    /\ job' = [job EXCEPT ![s] = NoTask]
    /\ outcome' = [outcome EXCEPT ![s] = result]

Window(s) == job[s].at
Event(s) == <<Window(s), job[s].candles[Window(s)]>>

\* IntegrityError: the transaction is rolled back and tried once more.
Retry(s, label) ==
    /\ tx[s].tries = 0
    /\ tx' = [tx EXCEPT ![s] = [NoTx EXCEPT !.tries = 1]]
    /\ held' = [held EXCEPT ![s] = {}]
    /\ GoTo(s, label)
    /\ UNCHANGED <<job, outcome>>

-----------------------------------------------------------------------------
(* A poll job: the provider has answered with closed candles of            *)
(* consecutive windows that passed the quality check.                      *)

Fetch(s) ==
    /\ pc[s] = "idle"
    /\ polls < MaxPolls
    /\ polls' = polls + 1
    /\ \E lo \in Windows : \E hi \in lo .. MaxWindow :
         \E candles \in [lo .. hi -> Payloads] :
            job' = [job EXCEPT ![s] = [candles |-> candles, at |-> lo, last |-> hi,
                                       seen |-> polls']]
    /\ GoTo(s, "ensure")
    /\ outcome' = [outcome EXCEPT ![s] = "none"]
    /\ UNCHANGED <<store, tx, held>>

\* The stream has a watermark: it is read under its lock and returned.
EnsureWatermark(s) ==
    /\ pc[s] = "ensure"
    /\ IF watermarks = <<>>
       THEN GoTo(s, "bootstrap") /\ UNCHANGED tx
       ELSE /\ Free(s, WatermarkRow(Len(watermarks)))
            /\ GoTo(s, "ingest")
            /\ Read(s, NoTx)
    /\ UNCHANGED <<store, polls, job, held, outcome>>

\* The first watermark of the stream stands at the oldest candle.  When
\* another worker has inserted it meanwhile, the insert meets the unique key
\* and is tried again, or version 1 is already visible when it is staged and
\* the ValueError ends the poll.
BootstrapWatermark(s) ==
    /\ pc[s] = "bootstrap"
    /\ \/ /\ watermarks = <<>>
          /\ watermarks' = <<Window(s)>>
          /\ GoTo(s, "ingest")
          /\ UNCHANGED <<job, tx, held, outcome>>
       \/ /\ watermarks # <<>>
          /\ Retry(s, "ensure")
          /\ UNCHANGED watermarks
       \/ /\ watermarks # <<>>
          /\ End(s, "ingestion_failed")
          /\ UNCHANGED watermarks
    /\ UNCHANGED <<versions, journal, requests, revised, polls>>

-----------------------------------------------------------------------------
(* Ingestion of one candle, one transaction.                               *)

IngestSeek(s) ==
    /\ pc[s] = "ingest"
    /\ Read(s, [tx[s] EXCEPT !.wm = Len(watermarks)])
    /\ GoTo(s, "ingest_lock")
    /\ UNCHANGED <<store, polls, job, held, outcome>>

\* The watermark is locked; the latest version of the window is chosen.
IngestLock(s) ==
    /\ pc[s] = "ingest_lock"
    /\ Free(s, WatermarkRow(tx[s].wm))
    /\ Lock(s, WatermarkRow(tx[s].wm))
    /\ Read(s, [tx[s] EXCEPT !.row = Len(versions[Window(s)])])
    /\ GoTo(s, "ingest_row")
    /\ UNCHANGED <<store, polls, job, outcome>>

\* The window is locked; the inbox receipt is read.
IngestRow(s) ==
    /\ pc[s] = "ingest_row"
    /\ Free(s, WindowRow(Window(s), tx[s].row))
    /\ Lock(s, WindowRow(Window(s), tx[s].row))
    /\ Read(s, [tx[s] EXCEPT !.known = journal[Event(s)].seen > 0])
    /\ GoTo(s, "ingest_commit")
    /\ UNCHANGED <<store, polls, job, outcome>>

\* Mutant: the state of the window is not looked at.
DecideByArrival(w, p, v, r) ==
    IF r > 0 /\ versions[w][r].payload = p THEN "duplicate"
    ELSE IF Late(w, v) THEN "revision_required"
    ELSE "accepted"

\* The decision for an event of window w and payload p, at watermark version
\* v and window version r (0: the window has none).
Decide(w, p, v, r) ==
    IF r > 0 /\ versions[w][r].payload = p THEN "duplicate"
    ELSE IF r > 0 /\ versions[w][r].state = "finalized" THEN "revision_required"
    ELSE IF Late(w, v) THEN "revision_required"
    ELSE "accepted"

\* Mutant: the version found is left out.
DecisionUnversioned(s) ==
    [seen |-> job[s].seen, wm |-> tx[s].wm, existing |-> 0,
     disposition |-> Decide(Event(s)[1], Event(s)[2], tx[s].wm, tx[s].row)]

\* The decision with its evidence: watermark version and window version.
Decision(s) ==
    [seen |-> job[s].seen, wm |-> tx[s].wm, existing |-> tx[s].row,
     disposition |-> Decide(Event(s)[1], Event(s)[2], tx[s].wm, tx[s].row)]

\* The candle is committed: the next one, or the watermark.
NextCandle(s) ==
    /\ Close(s)
    /\ IF Window(s) = job[s].last
       THEN GoTo(s, "advance") /\ UNCHANGED job
       ELSE GoTo(s, "ingest") /\ job' = [job EXCEPT ![s].at = @ + 1]
    /\ UNCHANGED outcome

\* The receipt exists: the delivery is counted and decided a duplicate.  A
\* response older than the one that made the receipt is refused.
IngestRedelivery(s) ==
    /\ pc[s] = "ingest_commit"
    /\ tx[s].known
    /\ IF job[s].seen < journal[Event(s)].seen
       THEN End(s, "ingestion_failed")
       ELSE NextCandle(s)
    /\ UNCHANGED <<store, polls>>

\* stage_window_version: the proposed version is there already.
WindowTaken(s) == /\ Decision(s).disposition = "accepted"
                  /\ Len(versions[Window(s)]) > tx[s].row

\* Event, receipt and decision, and for an accepted event the next window
\* version, are inserted and committed together.
IngestNew(s) ==
    /\ pc[s] = "ingest_commit"
    /\ ~tx[s].known
    /\ journal[Event(s)].seen = 0
    /\ ~WindowTaken(s)
    /\ journal' = [journal EXCEPT ![Event(s)] = Decision(s)]
    /\ versions' =
         IF Decision(s).disposition = "accepted"
         THEN [versions EXCEPT ![Window(s)] =
                 Append(@, [payload |-> Event(s)[2], state |-> "provisional"])]
         ELSE versions
    /\ NextCandle(s)
    /\ UNCHANGED <<watermarks, requests, revised, polls>>

\* The event or the window version was inserted by another transaction since
\* it was looked for.  Staging it raises ValueError when the other row is
\* visible, which ends the poll; the unique key raises IntegrityError when it
\* is not, which the ingestor retries once.  A version that follows a row
\* this transaction has locked was committed before the lock was granted, so
\* it is always visible.
IngestConflict(s) ==
    /\ pc[s] = "ingest_commit"
    /\ ~tx[s].known
    /\ journal[Event(s)].seen > 0 \/ WindowTaken(s)
    /\ \/ End(s, "ingestion_failed")
       \/ /\ journal[Event(s)].seen > 0 \/ tx[s].row = 0
          /\ Retry(s, "ingest")
    /\ UNCHANGED <<store, polls>>

-----------------------------------------------------------------------------
(* The watermark is advanced to the newest candle.                         *)

AdvanceSeek(s) ==
    /\ pc[s] = "advance"
    /\ Read(s, [tx[s] EXCEPT !.wm = Len(watermarks)])
    /\ GoTo(s, "advance_commit")
    /\ UNCHANGED <<store, polls, job, held, outcome>>

\* Mutant: the next version number is not claimed, so no other can collide.
AdvanceUnnumbered(s) ==
    /\ pc[s] = "advance_commit"
    /\ Free(s, WatermarkRow(tx[s].wm))
    /\ IF job[s].last <= watermarks[tx[s].wm]
       THEN UNCHANGED watermarks
       ELSE watermarks' = Append(watermarks, job[s].last)
    /\ Close(s) /\ GoTo(s, "finalize") /\ UNCHANGED <<job, outcome>>
    /\ UNCHANGED <<versions, journal, requests, revised, polls>>

\* Under the lock of the version chosen by AdvanceSeek; a later version is
\* visible when the next number is staged, and its ValueError ends the poll.
Advance(s) ==
    /\ pc[s] = "advance_commit"
    /\ Free(s, WatermarkRow(tx[s].wm))
    /\ \/ /\ job[s].last <= watermarks[tx[s].wm]
          /\ Close(s) /\ GoTo(s, "finalize") /\ UNCHANGED <<watermarks, job, outcome>>
       \/ /\ job[s].last > watermarks[tx[s].wm]
          /\ Len(watermarks) = tx[s].wm
          /\ watermarks' = Append(watermarks, job[s].last)
          /\ Close(s) /\ GoTo(s, "finalize") /\ UNCHANGED <<job, outcome>>
       \/ /\ job[s].last > watermarks[tx[s].wm]
          /\ Len(watermarks) > tx[s].wm
          /\ End(s, "ingestion_failed")
          /\ UNCHANGED watermarks
    /\ UNCHANGED <<versions, journal, requests, revised, polls>>

-----------------------------------------------------------------------------
(* The windows the watermark has passed are finalized, in one transaction. *)

FinalizeSeek(s) ==
    /\ pc[s] = "finalize"
    /\ Read(s, [tx[s] EXCEPT !.wm = Len(watermarks)])
    /\ GoTo(s, "finalize_lock")
    /\ UNCHANGED <<store, polls, job, held, outcome>>

\* Mutant: windows up to the newest candle, without the allowed lateness.
CandidatesAtHighWater(v) ==
    {w \in Windows : /\ versions[w] # <<>>
                     /\ versions[w][Len(versions[w])].state = "provisional"
                     /\ w <= watermarks[v]}

\* list_finalization_candidate_ids: windows whose latest version is
\* provisional and whose end the watermark has passed.
Candidates(v) ==
    {w \in Windows : /\ versions[w] # <<>>
                     /\ versions[w][Len(versions[w])].state = "provisional"
                     /\ w <= WatermarkTime(v)}

FinalizeLock(s) ==
    /\ pc[s] = "finalize_lock"
    /\ Free(s, WatermarkRow(tx[s].wm))
    /\ Lock(s, WatermarkRow(tx[s].wm))
    /\ Read(s, [tx[s] EXCEPT !.todo = Candidates(tx[s].wm)])
    /\ GoTo(s, "finalize_window")
    /\ UNCHANGED <<store, polls, job, outcome>>

\* The latest version of the next candidate is chosen.
FinalizeRead(s) ==
    /\ pc[s] = "finalize_window"
    /\ \E w \in tx[s].todo :
         /\ \A x \in tx[s].todo : w <= x
         /\ Read(s, [tx[s] EXCEPT !.window = w, !.row = Len(versions[w])])
    /\ GoTo(s, "finalize_row")
    /\ UNCHANGED <<store, polls, job, held, outcome>>

\* Under its lock the finalized version is staged, unless the one read is
\* final already.  A later version is visible and raises ValueError, which
\* rolls everything back and is not retried.
FinalizeRow(s) ==
    LET w == tx[s].window
        r == tx[s].row
        final == versions[w][r].state = "finalized"
    IN  /\ pc[s] = "finalize_row"
        /\ Free(s, WindowRow(w, r))
        /\ \/ /\ final \/ Len(versions[w]) = r
              /\ Lock(s, WindowRow(w, r))
              /\ Read(s, [tx[s] EXCEPT !.todo = @ \ {w},
                                       !.staged = IF final THEN @ ELSE @ \cup {w}])
              /\ GoTo(s, "finalize_window")
              /\ UNCHANGED <<job, outcome>>
           \/ /\ ~final /\ Len(versions[w]) > r
              /\ End(s, "finalization_failed")
        /\ UNCHANGED <<store, polls>>

\* The finalized versions keep the payload of the version they follow.
FinalizeCommit(s) ==
    /\ pc[s] = "finalize_window"
    /\ tx[s].todo = {}
    /\ versions' = [w \in Windows |->
           IF w \in tx[s].staged
           THEN Append(versions[w],
                       [versions[w][Len(versions[w])] EXCEPT !.state = "finalized"])
           ELSE versions[w]]
    /\ End(s, "succeeded")
    /\ UNCHANGED <<watermarks, journal, requests, revised, polls>>

-----------------------------------------------------------------------------
(* Replay of a decision that requires a revision.                          *)

\* The operator's request and its job are inserted together, once.
EnqueueReplay(e) ==
    /\ journal[e].disposition = "revision_required"
    /\ e \notin requests
    /\ requests' = requests \cup {e}
    /\ UNCHANGED <<watermarks, versions, journal, revised, polls, pc, job, tx, held, outcome>>

\* The request is locked, and without a revision of its own the latest version
\* of the window is chosen.
ReplayStart(s, e) ==
    /\ pc[s] = "idle"
    /\ e \in requests \ revised
    /\ Free(s, RequestRow(e))
    /\ Lock(s, RequestRow(e))
    /\ job' = [job EXCEPT ![s] = [NoTask EXCEPT !.candles = [w \in {e[1]} |-> e[2]],
                                             !.at = e[1], !.last = e[1]]]
    /\ Read(s, [tx[s] EXCEPT !.row = Len(versions[e[1]])])
    /\ GoTo(s, "replay_commit")
    /\ outcome' = [outcome EXCEPT ![s] = "none"]
    /\ UNCHANGED <<store, polls>>

\* Mutant: whatever version the window has is revised.
CurrentAny(s) == TRUE

\* The window still has the version the decision was made on.
Current(s) == tx[s].row = journal[Event(s)].existing

\* The recorded watermark has passed the event.
Passed(s) == Late(Window(s), journal[Event(s)].wm)

\* The revision: a finalized version with the event's payload.
ReplayCommit(s) ==
    /\ pc[s] = "replay_commit"
    /\ Free(s, WindowRow(Window(s), tx[s].row))
    /\ Current(s) /\ Passed(s)
    /\ Len(versions[Window(s)]) = tx[s].row
    /\ versions' = [versions EXCEPT ![Window(s)] =
                      Append(@, [payload |-> Event(s)[2], state |-> "finalized"])]
    /\ revised' = revised \cup {Event(s)}
    /\ End(s, "succeeded")
    /\ UNCHANGED <<watermarks, journal, requests, polls>>

\* The replay is rejected for good (the version is no longer current), or
\* raises (the event has not passed the recorded watermark, or another version
\* was inserted meanwhile) and its job is tried again.
ReplayRefused(s) ==
    /\ pc[s] = "replay_commit"
    /\ Free(s, WindowRow(Window(s), tx[s].row))
    /\ \/ ~Current(s) /\ End(s, "rejected")
       \/ /\ Current(s)
          /\ ~Passed(s) \/ Len(versions[Window(s)]) > tx[s].row
          /\ End(s, "replay_failed")
    /\ UNCHANGED <<store, polls>>

-----------------------------------------------------------------------------
\* The worker dies: the database rolls its transaction back.
Crash(s) ==
    /\ pc[s] # "idle"
    /\ End(s, "none")
    /\ UNCHANGED <<store, polls>>

Step(s) ==
    \/ EnsureWatermark(s) \/ BootstrapWatermark(s)
    \/ IngestSeek(s) \/ IngestLock(s) \/ IngestRow(s)
    \/ IngestRedelivery(s) \/ IngestNew(s) \/ IngestConflict(s)
    \/ AdvanceSeek(s) \/ Advance(s)
    \/ FinalizeSeek(s) \/ FinalizeLock(s) \/ FinalizeRead(s) \/ FinalizeRow(s)
    \/ FinalizeCommit(s)
    \/ ReplayCommit(s) \/ ReplayRefused(s)

Next ==
    \/ \E s \in Workers : Step(s) \/ Fetch(s) \/ Crash(s)
    \/ \E s \in Workers, e \in Events : ReplayStart(s, e)
    \/ \E e \in Events : EnqueueReplay(e)

Spec == Init /\ [][Next]_vars

\* A statement that can run does run: the database grants a free lock and a
\* live worker goes on with its job.  No job has to start.
Fairness == \A s \in Workers : WF_vars(Step(s))

FairSpec == Spec /\ Fairness

-----------------------------------------------------------------------------
(* Properties.                                                             *)

\* The type of every variable; a transaction reads versions that exist and a
\* poll stands at one of its candles.
TypeOK ==
    /\ watermarks \in Seq(Windows)
    /\ versions \in [Windows -> Seq(Version)]
    /\ journal \in [Events -> [seen : 0 .. MaxPolls, wm : 0 .. Len(watermarks),
                               existing : Nat, disposition : Dispositions]]
    /\ requests \subseteq Events /\ revised \subseteq requests
    /\ polls \in 0 .. MaxPolls
    /\ \A s \in Workers :
         /\ pc[s] # "idle" => Window(s) \in DOMAIN job[s].candles
         /\ job[s].last \in 0 .. MaxWindow
         /\ tx[s].wm \in 0 .. Len(watermarks)
         /\ tx[s].todo \cup tx[s].staged \subseteq Windows

\* The watermark of a stream only moves forward, although workers advance it
\* from a version that is no longer the latest one (_advance_watermark and the
\* unique version number).
WatermarkForward ==
    \A i, j \in DOMAIN watermarks : i < j => watermarks[i] < watermarks[j]

\* A window is final only behind the watermark (finalize_eligible, apply).
FinalBehindWatermark ==
    \A w \in Windows : \A i \in DOMAIN versions[w] :
        versions[w][i].state = "finalized" => Late(w, Len(watermarks))

\* A finalized window is never provisional again, and its content changes only
\* by a replay that was requested: ingestion never touches it, even when it
\* decides on an old watermark (decide_market_data_event).
FinalOnlyRevised ==
    \A w \in Windows : \A i \in 2 .. Len(versions[w]) :
        versions[w][i - 1].state = "finalized" =>
            /\ versions[w][i].state = "finalized"
            /\ <<w, versions[w][i].payload>> \in revised

\* Of the decisions made on one version of a window at most one is replayed
\* (_apply_once): the loser is refused, never applied over the winner.
OneRevisionPerSource ==
    \A e, f \in revised :
        e[1] = f[1] /\ journal[e].existing = journal[f].existing => e = f

\* The journal tells the truth about the windows: the version an accepted
\* event proposed is that event's, every provisional version was accepted, and
\* no payload is accepted twice for one window (ingest, with its retries).
JournalMatchesWindows ==
    /\ \A e \in Events : journal[e].disposition = "accepted" =>
         /\ journal[e].existing + 1 \in DOMAIN versions[e[1]]
         /\ versions[e[1]][journal[e].existing + 1]
              = [payload |-> e[2], state |-> "provisional"]
    /\ \A w \in Windows : \A i \in DOMAIN versions[w] :
         versions[w][i].state = "provisional" =>
            LET d == journal[<<w, versions[w][i].payload>>]
            IN  d.disposition = "accepted" /\ d.existing = i - 1

\* Every job ends: the rows the workers lock never leave two of them waiting
\* for each other, and an error or a retry never leaves a job behind.
JobsEnd == \A s \in Workers : pc[s] # "idle" ~> pc[s] = "idle"

\* An event that the latest watermark has passed is not accepted: it waits for
\* a replay (decide_market_data_event).
\* The code does not keep this: see the README, known divergences.
LateNeverAccepted ==
    [][\A w \in Windows :
         Len(versions'[w]) > Len(versions[w]) /\ versions'[w][Len(versions'[w])].state = "provisional"
            => ~Late(w, Len(watermarks))]_vars

\* A finalizer that loses a race for a window ends without an error.
\* The code does not keep this: see the README, known divergences.
LosingFinalizerEnds == \A s \in Workers : outcome[s] # "finalization_failed"

\* A decision that requires a replay, made on the version the window still
\* has, can be replayed: the watermark it records has passed its event.
\* The code does not keep this: see the README, known divergences.
DecisionReplayable ==
    \A e \in Events : journal[e].disposition = "revision_required" => Late(e[1], journal[e].wm)
=============================================================================
