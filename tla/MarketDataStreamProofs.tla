------------------------ MODULE MarketDataStreamProofs ------------------------
(***************************************************************************)
(* The safety invariants of MarketDataStream, for every number of workers, *)
(* windows, payloads and polls and every allowed lateness.                 *)
(*                                                                         *)
(* What makes them inductive:                                              *)
(*   JobInv    what a job works on, and which rows it has read and locked; *)
(*   StageInv  a staged window still has the provisional version that the  *)
(*             finalizer locked, behind the watermark it read;             *)
(*   LocksExclusive  a row is locked by one worker;                        *)
(*   LogInv    the journal and the revisions only refer to what exists.    *)
(***************************************************************************)
EXTENDS MarketDataStream, TLAPS

Ingesting == {"ingest", "ingest_lock", "ingest_row", "ingest_commit"}
Finalizing == {"finalize_window", "finalize_row"}
Started == Ingesting \cup Finalizing \cup
           {"advance", "advance_commit", "finalize", "finalize_lock"}
Labels == Started \cup {"idle", "ensure", "bootstrap", "replay_commit"}

Candles == UNION {[d -> Payloads] : d \in SUBSET Windows}
Jobs == [candles : Candles, at : 0 .. MaxWindow, last : 0 .. MaxWindow,
         seen : 0 .. MaxPolls]
Txs == [wm : Nat, window : Nat, row : Nat, known : BOOLEAN, tries : {0, 1},
        todo : SUBSET Windows, staged : SUBSET Windows]
Rows == ({"watermark"} \X Nat) \cup ({"window"} \X Windows \X Nat) \cup ({"request"} \X Events)

StoreType ==
    /\ watermarks \in Seq(Windows)
    /\ versions \in [Windows -> Seq(Version)]
    /\ journal \in [Events -> [seen : 0 .. MaxPolls, wm : Nat, existing : Nat,
                               disposition : Dispositions]]
    /\ requests \in SUBSET Events
    /\ revised \in SUBSET requests
    /\ polls \in 0 .. MaxPolls

WorkerType ==
    /\ pc \in [Workers -> Labels]
    /\ job \in [Workers -> Jobs]
    /\ tx \in [Workers -> Txs]
    /\ held \in [Workers -> SUBSET Rows]
    /\ outcome = [s \in Workers |-> outcome[s]]

\* What a running job works on, and the rows it has read at each statement.
JobInv(s) ==
    /\ pc[s] # "idle" => /\ job[s].at \in 1 .. job[s].last
                         /\ job[s].at .. job[s].last \subseteq DOMAIN job[s].candles
    /\ pc[s] \notin {"idle", "replay_commit"} => job[s].seen > 0
    /\ pc[s] \in Started => watermarks # <<>>
    /\ tx[s].wm <= Len(watermarks)
    /\ pc[s] \in {"ingest_lock", "ingest_row", "ingest_commit", "advance_commit",
                  "finalize_lock"} \cup Finalizing => tx[s].wm > 0
    /\ pc[s] \in {"ingest_row", "ingest_commit", "replay_commit"} =>
         tx[s].row <= Len(versions[job[s].at])
    /\ pc[s] = "replay_commit" => Event(s) \in requests
    /\ pc[s] \notin Finalizing => tx[s].todo = {} /\ tx[s].staged = {}
    /\ pc[s] = "finalize_row" => /\ tx[s].window \in tx[s].todo
                                 /\ tx[s].row \in 1 .. Len(versions[tx[s].window])
    /\ pc[s] = "ingest_commit" => WindowRow(job[s].at, tx[s].row) \subseteq held[s]

\* What a finalizer has listed and staged.
StageInv(s) ==
    /\ \A w \in tx[s].todo \cup tx[s].staged : Late(w, tx[s].wm) /\ versions[w] # <<>>
    /\ \A w \in tx[s].staged :
         /\ versions[w][Len(versions[w])].state = "provisional"
         /\ WindowRow(w, Len(versions[w])) \subseteq held[s]

\* No row is locked by two workers.
LocksExclusive == \A s, o \in Workers : s # o => held[s] \cap held[o] = {}

\* A decision names the watermark version it was made at; a request has a
\* decision that requires it, and a revision is the version after the one its
\* decision found.  Without a watermark there is no window.
LogInv ==
    /\ \A e \in Events :
         /\ journal[e].wm <= Len(watermarks)
         /\ journal[e].disposition # "none" => journal[e].seen > 0 /\ journal[e].wm > 0
         /\ e \in requests => journal[e].disposition = "revision_required"
    /\ \A e \in revised :
         /\ journal[e].existing + 1 \in DOMAIN versions[e[1]]
         /\ versions[e[1]][journal[e].existing + 1].payload = e[2]
    /\ \A w \in Windows : versions[w] # <<>> => watermarks # <<>>

IInv == /\ StoreType /\ WorkerType /\ LocksExclusive /\ LogInv
        /\ \A s \in Workers : JobInv(s) /\ StageInv(s)
        /\ WatermarkForward /\ FinalBehindWatermark /\ FinalOnlyRevised
        /\ JournalMatchesWindows

-----------------------------------------------------------------------------
(* The store only grows, and a step leaves the other workers alone.        *)

Grow ==
    /\ Len(watermarks') >= Len(watermarks)
    /\ \A i \in 1 .. Len(watermarks) : watermarks'[i] = watermarks[i]
    /\ \A w \in Windows :
         /\ Len(versions'[w]) >= Len(versions[w])
         /\ \A i \in 1 .. Len(versions[w]) : versions'[w][i] = versions[w][i]
    /\ requests \subseteq requests'

Same(o) == /\ pc'[o] = pc[o] /\ job'[o] = job[o]
           /\ tx'[o] = tx[o] /\ held'[o] = held[o]

\* The initial state satisfies the invariant.
LEMMA InitInv == Init => IInv
<1> SUFFICES ASSUME Init PROVE IInv
  OBVIOUS
<1> USE StreamAssumption DEF Init
<1>1. StoreType
  BY DEF StoreType, Events, Unseen, Dispositions, Windows
<1>2. WorkerType
  <2>1. NoTask \in Jobs
    <3>1. <<>> \in [{} -> Payloads]
      OBVIOUS
    <3>2. {} \in SUBSET Windows
      OBVIOUS
    <3>3. <<>> \in Candles
      BY <3>1, <3>2 DEF Candles
    <3> QED BY <3>3 DEF NoTask, Jobs
  <2>2. NoTx \in Txs
    BY DEF NoTx, Txs
  <2>3. "idle" \in Labels
    BY DEF Labels
  <2> QED BY <2>1, <2>2, <2>3 DEF WorkerType
<1>3. LocksExclusive /\ LogInv
  BY DEF LocksExclusive, LogInv, Unseen
<1>4. ASSUME NEW s \in Workers PROVE JobInv(s) /\ StageInv(s)
  BY <1>4 DEF JobInv, StageInv, NoTx, NoTask, Started, Ingesting, Finalizing
<1>5. WatermarkForward /\ FinalBehindWatermark /\ FinalOnlyRevised
  BY DEF WatermarkForward, FinalBehindWatermark, FinalOnlyRevised
<1>6. JournalMatchesWindows
  BY DEF JournalMatchesWindows, Unseen
<1> QED BY <1>1, <1>2, <1>3, <1>4, <1>5, <1>6 DEF IInv

\* What a step of worker s leaves for the workers.
Moved(s) ==
    /\ WorkerType' /\ LocksExclusive'
    /\ JobInv(s)' /\ StageInv(s)'
    /\ \A o \in Workers \ {s} : Same(o)

\* The absent job and the absent transaction have their types.
LEMMA NoneType == NoTask \in Jobs /\ NoTx \in Txs
<1>1. <<>> \in [{} -> Payloads]
  OBVIOUS
<1>2. {} \in SUBSET Windows
  OBVIOUS
<1>3. <<>> \in Candles
  BY <1>1, <1>2 DEF Candles
<1>4. NoTask \in Jobs
  BY <1>3, StreamAssumption DEF NoTask, Jobs
<1>5. NoTx \in Txs
  BY DEF NoTx, Txs
<1> QED BY <1>4, <1>5

\* A running job stands at an event of the stream.
LEMMA EventIn ==
    ASSUME IInv, NEW s \in Workers, pc[s] # "idle"
    PROVE  Event(s) \in Events /\ Window(s) \in Windows /\ job[s].last \in Windows
<1>1. /\ job[s] \in Jobs
      /\ job[s].at \in 1 .. job[s].last
      /\ job[s].at .. job[s].last \subseteq DOMAIN job[s].candles
  BY DEF IInv, WorkerType, JobInv
<1>2. PICK d \in SUBSET Windows : job[s].candles \in [d -> Payloads]
  BY <1>1 DEF Jobs, Candles
<1>3. job[s].at \in d /\ job[s].last \in 1 .. MaxWindow
  BY <1>1, <1>2, StreamAssumption DEF Jobs
<1> QED BY <1>1, <1>2, <1>3 DEF Event, Window, Events, Windows

\* Taking free locks, or releasing one's own, keeps the locks exclusive.
LEMMA LocksKept ==
    ASSUME IInv, NEW s \in Workers, NEW rows \in SUBSET Rows,
           \/ held' = held
           \/ held' = [held EXCEPT ![s] = {}]
           \/ Free(s, rows) /\ held' = [held EXCEPT ![s] = @ \cup rows]
    PROVE  /\ LocksExclusive'
           /\ held' \in [Workers -> SUBSET Rows]
           /\ \A o \in Workers \ {s} : held'[o] = held[o]
<1>1. held \in [Workers -> SUBSET Rows] /\ LocksExclusive
  BY DEF IInv, WorkerType
<1>2. CASE held' = held
  BY <1>1, <1>2 DEF LocksExclusive
<1>3. CASE held' = [held EXCEPT ![s] = {}]
  BY <1>1, <1>3 DEF LocksExclusive
<1>4. CASE Free(s, rows) /\ held' = [held EXCEPT ![s] = @ \cup rows]
  BY <1>1, <1>4 DEF LocksExclusive, Free
<1> QED BY <1>2, <1>3, <1>4

\* The rows a locking read returns have their types.
LEMMA RowTypes ==
    /\ \A v \in Nat : WatermarkRow(v) \in SUBSET Rows
    /\ \A w \in Windows, r \in Nat : WindowRow(w, r) \in SUBSET Rows
    /\ \A e \in Events : RequestRow(e) \in SUBSET Rows
BY DEF WatermarkRow, WindowRow, RequestRow, Rows

\* The end of a job.
LEMMA EndMoved ==
    ASSUME IInv, StoreType', NEW s \in Workers, NEW result, End(s, result)
    PROVE  Moved(s)
<1>1. /\ LocksExclusive'
      /\ held' \in [Workers -> SUBSET Rows]
      /\ \A o \in Workers \ {s} : held'[o] = held[o]
  <2>1. held' = [held EXCEPT ![s] = {}] /\ {} \in SUBSET Rows
    BY DEF End, Close
  <2> QED BY <2>1, LocksKept
<1>2. /\ pc' \in [Workers -> Labels] /\ job' \in [Workers -> Jobs] /\ tx' \in [Workers -> Txs]
      /\ outcome' = [o \in Workers |-> outcome'[o]]
      /\ pc'[s] = "idle" /\ tx'[s] = NoTx
      /\ \A o \in Workers \ {s} : pc'[o] = pc[o] /\ job'[o] = job[o] /\ tx'[o] = tx[o]
  BY NoneType DEF End, Close, GoTo, IInv, WorkerType, Labels
<1>3. JobInv(s)' /\ StageInv(s)'
  <2>1. Len(watermarks') \in Nat
    BY DEF StoreType
  <2> QED BY <1>2, <2>1 DEF JobInv, StageInv, NoTx, Started, Ingesting, Finalizing
<1> QED BY <1>1, <1>2, <1>3 DEF Moved, WorkerType, Same

\* Starting a transaction over moves a worker to a legal state.
LEMMA RetryMoved ==
    ASSUME IInv, StoreType', NEW s \in Workers, pc[s] # "idle",
           NEW label \in {"ensure", "ingest"}, Retry(s, label),
           label = "ingest" => pc[s] \in Started,
           Len(watermarks') >= Len(watermarks), pc[s] # "replay_commit"
    PROVE  Moved(s)
<1>1. /\ LocksExclusive'
      /\ held' \in [Workers -> SUBSET Rows]
      /\ \A o \in Workers \ {s} : held'[o] = held[o]
  <2>1. held' = [held EXCEPT ![s] = {}] /\ {} \in SUBSET Rows
    BY DEF Retry
  <2> QED BY <2>1, LocksKept
<1>2. /\ pc' \in [Workers -> Labels] /\ job' = job /\ outcome' = outcome
      /\ tx' \in [Workers -> Txs] /\ pc'[s] = label /\ tx'[s] = [NoTx EXCEPT !.tries = 1]
      /\ \A o \in Workers \ {s} : pc'[o] = pc[o] /\ tx'[o] = tx[o]
  <2>1. [NoTx EXCEPT !.tries = 1] \in Txs
    BY DEF NoTx, Txs
  <2> QED BY <2>1 DEF Retry, GoTo, IInv, WorkerType, Labels, Started, Ingesting
<1>3. StageInv(s)'
  BY <1>2 DEF StageInv, NoTx
<1>4. JobInv(s)'
  <2>1. Len(watermarks) \in Nat /\ Len(watermarks') \in Nat /\ JobInv(s)
    BY DEF IInv, StoreType
  <2>2. label = "ingest" => watermarks' # <<>>
    BY <2>1 DEF JobInv, IInv, StoreType
  <2> QED BY <1>2, <2>1, <2>2 DEF JobInv, NoTx, Started, Ingesting, Finalizing
<1> QED BY <1>1, <1>2, <1>3, <1>4 DEF Moved, WorkerType, Same, IInv

\* Going on to the next candle moves a worker to a legal state.
LEMMA NextCandleMoved ==
    ASSUME IInv, StoreType', NEW s \in Workers, pc[s] = "ingest_commit", NextCandle(s),
           Len(watermarks') >= Len(watermarks)
    PROVE  Moved(s)
<1>1. /\ LocksExclusive'
      /\ held' \in [Workers -> SUBSET Rows]
      /\ \A o \in Workers \ {s} : held'[o] = held[o]
  <2>1. held' = [held EXCEPT ![s] = {}] /\ {} \in SUBSET Rows
    BY DEF NextCandle, Close
  <2> QED BY <2>1, LocksKept
<1>2. /\ job[s] \in Jobs /\ job[s].at \in 1 .. job[s].last /\ job[s].seen > 0
      /\ job[s].at .. job[s].last \subseteq DOMAIN job[s].candles
      /\ job[s].last \in 1 .. MaxWindow
  BY EventIn DEF IInv, WorkerType, JobInv, Windows
<1>3. /\ job' \in [Workers -> Jobs]
      /\ \A o \in Workers \ {s} : job'[o] = job[o]
      /\ job'[s].at \in 1 .. job'[s].last /\ job'[s].seen > 0
      /\ job'[s].at .. job'[s].last \subseteq DOMAIN job'[s].candles
  <2>1. CASE job' = job
    BY <2>1, <1>2 DEF IInv, WorkerType
  <2>2. CASE Window(s) # job[s].last /\ job' = [job EXCEPT ![s].at = @ + 1]
    <3>1. job'[s] = [job[s] EXCEPT !.at = @ + 1]
      BY <2>2 DEF IInv, WorkerType
    <3>2. job[s].at + 1 \in 1 .. job[s].last /\ job[s].at + 1 \in 0 .. MaxWindow
      BY <2>2, <1>2, StreamAssumption DEF Window, Jobs
    <3>3. job'[s] \in Jobs
      BY <3>1, <3>2, <1>2 DEF Jobs
    <3> QED BY <2>2, <3>1, <3>2, <3>3, <1>2 DEF IInv, WorkerType, Jobs
  <2> QED BY <2>1, <2>2 DEF NextCandle
<1>4. /\ pc' \in [Workers -> Labels] /\ tx' \in [Workers -> Txs] /\ outcome' = outcome
      /\ pc'[s] \in {"advance", "ingest"} /\ tx'[s] = NoTx
      /\ \A o \in Workers \ {s} : pc'[o] = pc[o] /\ tx'[o] = tx[o]
  BY NoneType DEF NextCandle, Close, GoTo, IInv, WorkerType, Labels, Started, Ingesting
<1>5. StageInv(s)'
  BY <1>4 DEF StageInv, NoTx
<1>6. JobInv(s)'
  <2>1. Len(watermarks) \in Nat /\ Len(watermarks') \in Nat /\ watermarks # <<>>
    BY DEF IInv, StoreType, JobInv, Started, Ingesting
  <2>2. watermarks' # <<>>
    BY <2>1 DEF IInv, StoreType
  <2> QED BY <1>3, <1>4, <2>1, <2>2 DEF JobInv, NoTx, Started, Ingesting, Finalizing
<1> QED BY <1>1, <1>3, <1>4, <1>5, <1>6 DEF Moved, WorkerType, Same, IInv

\* An unchanged store.
LEMMA StoreKept ==
    ASSUME IInv, UNCHANGED store, polls' \in 0 .. MaxPolls
    PROVE  StoreType' /\ Grow
BY DEF store, IInv, StoreType, Grow

\* A statement that reads into the transaction and may lock free rows.
LEMMA ReadTyped ==
    ASSUME IInv, NEW s \in Workers, NEW t \in Txs, NEW label \in Labels,
           NEW rows \in SUBSET Rows, Read(s, t), GoTo(s, label),
           held' = held \/ (Free(s, rows) /\ Lock(s, rows)),
           UNCHANGED <<job, outcome>>
    PROVE  /\ WorkerType' /\ LocksExclusive'
           /\ \A o \in Workers \ {s} : Same(o)
           /\ pc'[s] = label /\ tx'[s] = t /\ job' = job
<1>1. /\ LocksExclusive'
      /\ held' \in [Workers -> SUBSET Rows]
      /\ \A o \in Workers \ {s} : held'[o] = held[o]
  BY LocksKept DEF Lock
<1>2. /\ pc' \in [Workers -> Labels] /\ tx' \in [Workers -> Txs]
      /\ pc'[s] = label /\ tx'[s] = t
      /\ \A o \in Workers \ {s} : pc'[o] = pc[o] /\ tx'[o] = tx[o]
  BY DEF Read, GoTo, IInv, WorkerType
<1> QED BY <1>1, <1>2 DEF WorkerType, IInv, Same

\* The steps that choose a watermark version.
LEMMA SeekMoved ==
    ASSUME IInv, NEW s \in Workers, IngestSeek(s) \/ AdvanceSeek(s) \/ FinalizeSeek(s)
    PROVE  StoreType' /\ Grow /\ Moved(s)
<1> DEFINE t == [tx[s] EXCEPT !.wm = Len(watermarks)]
<1>1. StoreType' /\ Grow /\ UNCHANGED store
  <2>1. UNCHANGED <<store, polls>>
    BY DEF IngestSeek, AdvanceSeek, FinalizeSeek
  <2> QED BY <2>1, StoreKept DEF IInv, StoreType
<1>2. /\ Len(watermarks) \in Nat /\ JobInv(s) /\ StageInv(s) /\ tx[s] \in Txs
      /\ pc[s] \in {"ingest", "advance", "finalize"}
      /\ job[s].at \in 1 .. job[s].last /\ watermarks # <<>> /\ Len(watermarks) > 0
      /\ tx[s].todo = {} /\ tx[s].staged = {}
  <3>1. Len(watermarks) \in Nat /\ JobInv(s) /\ StageInv(s) /\ tx[s] \in Txs
    BY DEF IInv, StoreType, WorkerType
  <3>2. pc[s] \in {"ingest", "advance", "finalize"}
    BY DEF IngestSeek, AdvanceSeek, FinalizeSeek
  <3>3. watermarks # <<>> /\ watermarks \in Seq(Windows)
    BY <3>1, <3>2 DEF JobInv, Started, Ingesting, IInv, StoreType
  <3> QED BY <3>1, <3>2, <3>3 DEF JobInv, Started, Ingesting, Finalizing
<1>3. t \in Txs /\ {} \in SUBSET Rows
  BY <1>2 DEF Txs
<1>4. PICK label \in {"ingest_lock", "advance_commit", "finalize_lock"} : GoTo(s, label)
  BY DEF IngestSeek, AdvanceSeek, FinalizeSeek
<1>5. label \in Labels /\ Read(s, t) /\ held' = held /\ UNCHANGED <<job, outcome>>
  BY DEF IngestSeek, AdvanceSeek, FinalizeSeek, Labels, Started, Ingesting
<1>6. /\ WorkerType' /\ LocksExclusive'
      /\ \A o \in Workers \ {s} : Same(o)
      /\ pc'[s] = label /\ tx'[s] = t /\ job' = job
  <2> HIDE DEF t
  <2> QED BY <1>3, <1>4, <1>5, ReadTyped
<1>7. JobInv(s)'
  BY <1>1, <1>2, <1>6 DEF JobInv, Txs, store, Started, Ingesting, Finalizing
<1>8. StageInv(s)'
  BY <1>2, <1>6 DEF StageInv, Txs
<1> QED BY <1>1, <1>6, <1>7, <1>8 DEF Moved

\* Locking the watermark for an ingestion moves a worker to a legal state.
LEMMA IngestLockMoved ==
    ASSUME IInv, NEW s \in Workers, IngestLock(s)
    PROVE  StoreType' /\ Grow /\ Moved(s)
<1> DEFINE t == [tx[s] EXCEPT !.row = Len(versions[Window(s)])]
<1>1. StoreType' /\ Grow /\ UNCHANGED store
  BY StoreKept DEF IInv, StoreType, IngestLock
<1>2. JobInv(s) /\ tx[s] \in Txs /\ pc[s] = "ingest_lock" /\ Window(s) \in Windows
  BY EventIn DEF IInv, WorkerType, IngestLock
<1>3. t \in Txs /\ Len(versions[Window(s)]) \in Nat
  <2>1. versions[Window(s)] \in Seq(Version)
    BY <1>2 DEF IInv, StoreType
  <2>2. Len(versions[Window(s)]) \in Nat
    BY <2>1
  <2> QED BY <1>2, <2>2 DEF Txs
<1>4. WatermarkRow(tx[s].wm) \in SUBSET Rows /\ "ingest_row" \in Labels
  BY <1>2, RowTypes DEF Txs, Labels, Started, Ingesting
<1>5. /\ WorkerType' /\ LocksExclusive'
      /\ \A o \in Workers \ {s} : Same(o)
      /\ pc'[s] = "ingest_row" /\ tx'[s] = t /\ job' = job
  <2>1. /\ Read(s, t) /\ GoTo(s, "ingest_row") /\ UNCHANGED <<job, outcome>>
        /\ Free(s, WatermarkRow(tx[s].wm)) /\ Lock(s, WatermarkRow(tx[s].wm))
    BY DEF IngestLock
  <2> HIDE DEF t
  <2> QED BY <1>3, <1>4, <2>1, ReadTyped
<1>6. JobInv(s)'
  BY <1>1, <1>2, <1>3, <1>5 DEF JobInv, Txs, store, Started, Ingesting, Finalizing, Window
<1>7. StageInv(s)'
  BY <1>2, <1>5 DEF JobInv, StageInv, Txs, Finalizing
<1> QED BY <1>1, <1>5, <1>6, <1>7 DEF Moved

\* Locking the window for an ingestion moves a worker to a legal state.
LEMMA IngestRowMoved ==
    ASSUME IInv, NEW s \in Workers, IngestRow(s)
    PROVE  StoreType' /\ Grow /\ Moved(s)
<1> DEFINE known == journal[Event(s)].seen > 0
           t == [tx[s] EXCEPT !.known = known]
           row == WindowRow(Window(s), tx[s].row)
<1>1. StoreType' /\ Grow /\ UNCHANGED store
  BY StoreKept DEF IInv, StoreType, IngestRow
<1>2. JobInv(s) /\ tx[s] \in Txs /\ pc[s] = "ingest_row" /\ Window(s) \in Windows
  BY EventIn DEF IInv, WorkerType, IngestRow
<1>3. t \in Txs
  <2>1. known \in BOOLEAN
    OBVIOUS
  <2> HIDE DEF known
  <2> QED BY <1>2, <2>1 DEF Txs
<1>4. row \in SUBSET Rows /\ "ingest_commit" \in Labels
  BY <1>2, RowTypes DEF Txs, Labels, Started, Ingesting
<1>5. /\ WorkerType' /\ LocksExclusive'
      /\ \A o \in Workers \ {s} : Same(o)
      /\ pc'[s] = "ingest_commit" /\ tx'[s] = t /\ job' = job
  <2>1. /\ Read(s, t) /\ GoTo(s, "ingest_commit") /\ UNCHANGED <<job, outcome>>
        /\ Free(s, row) /\ Lock(s, row)
    BY DEF IngestRow
  <2> HIDE DEF t, row
  <2> QED BY <1>3, <1>4, <2>1, ReadTyped
<1>6. /\ t.wm = tx[s].wm /\ t.row = tx[s].row
      /\ t.todo = tx[s].todo /\ t.staged = tx[s].staged /\ row \subseteq held'[s]
  BY <1>2 DEF Txs, IngestRow, Lock, IInv, WorkerType
<1>7. JobInv(s)'
  <2> HIDE DEF t, row
  <2>1. WindowRow(job'[s].at, tx'[s].row) \subseteq held'[s]
    BY <1>5, <1>6 DEF row, Window
  <2> QED BY <1>1, <1>2, <1>5, <1>6, <2>1
        DEF JobInv, store, Started, Ingesting, Finalizing, Window, Event
<1>8. StageInv(s)'
  <2> HIDE DEF t, row
  <2> QED BY <1>2, <1>5, <1>6 DEF JobInv, StageInv, Finalizing
<1> QED BY <1>1, <1>5, <1>7, <1>8 DEF Moved

\* Locking the watermark for a finalization moves a worker to a legal state.
LEMMA FinalizeLockMoved ==
    ASSUME IInv, NEW s \in Workers, FinalizeLock(s)
    PROVE  StoreType' /\ Grow /\ Moved(s)
<1> DEFINE list == Candidates(tx[s].wm)
           t == [tx[s] EXCEPT !.todo = list]
<1>1. StoreType' /\ Grow /\ UNCHANGED store
  BY StoreKept DEF IInv, StoreType, FinalizeLock
<1>2. JobInv(s) /\ tx[s] \in Txs /\ pc[s] = "finalize_lock"
  BY DEF IInv, WorkerType, FinalizeLock
<1>3. /\ list \in SUBSET Windows
      /\ \A w \in list : Late(w, tx[s].wm) /\ versions[w] # <<>>
  BY DEF Candidates, Late
<1>4. t \in Txs /\ t.wm = tx[s].wm /\ t.todo = list /\ t.staged = {}
  <2> HIDE DEF list
  <2> QED BY <1>2, <1>3 DEF Txs, JobInv, Finalizing
<1>5. WatermarkRow(tx[s].wm) \in SUBSET Rows /\ "finalize_window" \in Labels
  BY <1>2, RowTypes DEF Txs, Labels, Started, Finalizing
<1>6. /\ WorkerType' /\ LocksExclusive'
      /\ \A o \in Workers \ {s} : Same(o)
      /\ pc'[s] = "finalize_window" /\ tx'[s] = t /\ job' = job
  <2>1. /\ Read(s, t) /\ GoTo(s, "finalize_window") /\ UNCHANGED <<job, outcome>>
        /\ Free(s, WatermarkRow(tx[s].wm)) /\ Lock(s, WatermarkRow(tx[s].wm))
    BY DEF FinalizeLock
  <2> HIDE DEF t
  <2> QED BY <1>4, <1>5, <2>1, ReadTyped
<1> HIDE DEF t, list
<1>7. JobInv(s)'
  BY <1>1, <1>2, <1>4, <1>6 DEF JobInv, store, Started, Ingesting, Finalizing
<1>8. StageInv(s)'
  BY <1>1, <1>3, <1>4, <1>6 DEF StageInv, store, Late, WatermarkTime
<1> QED BY <1>1, <1>6, <1>7, <1>8 DEF Moved

\* Choosing a window to finalize moves a worker to a legal state.
LEMMA FinalizeReadMoved ==
    ASSUME IInv, NEW s \in Workers, FinalizeRead(s)
    PROVE  StoreType' /\ Grow /\ Moved(s)
<1>1. StoreType' /\ Grow /\ UNCHANGED store
  BY StoreKept DEF IInv, StoreType, FinalizeRead
<1>2. JobInv(s) /\ StageInv(s) /\ tx[s] \in Txs /\ pc[s] = "finalize_window"
  BY DEF IInv, WorkerType, FinalizeRead
<1>3. PICK w \in tx[s].todo :
        Read(s, [tx[s] EXCEPT !.window = w, !.row = Len(versions[w])])
  BY DEF FinalizeRead
<1> DEFINE n == Len(versions[w])
           t == [tx[s] EXCEPT !.window = w, !.row = n]
<1>4. w \in Windows /\ w \in Nat /\ n \in Nat /\ n >= 1
  <2>1. w \in Windows /\ versions[w] # <<>>
    BY <1>2, <1>3 DEF StageInv, Txs
  <2>2. versions[w] \in Seq(Version)
    BY <2>1 DEF IInv, StoreType
  <2> QED BY <2>1, <2>2 DEF Windows
<1>5. /\ t \in Txs /\ t.wm = tx[s].wm /\ t.todo = tx[s].todo /\ t.staged = tx[s].staged
      /\ t.window = w /\ t.row = n
  <2> HIDE DEF n
  <2> QED BY <1>2, <1>4 DEF Txs
<1>6. /\ WorkerType' /\ LocksExclusive'
      /\ \A o \in Workers \ {s} : Same(o)
      /\ pc'[s] = "finalize_row" /\ tx'[s] = t /\ job' = job
  <2>1. "finalize_row" \in Labels /\ {} \in SUBSET Rows
    BY DEF Labels, Started, Finalizing
  <2>2. Read(s, t) /\ GoTo(s, "finalize_row") /\ UNCHANGED <<job, held, outcome>>
    BY <1>3 DEF FinalizeRead
  <2> HIDE DEF t
  <2> QED BY <1>5, <2>1, <2>2, ReadTyped
<1>7. held' = held
  BY DEF FinalizeRead
<1> HIDE DEF t
<1>8. JobInv(s)'
  BY <1>1, <1>2, <1>3, <1>4, <1>5, <1>6 DEF JobInv, store, Started, Ingesting, Finalizing
<1>9. StageInv(s)'
  BY <1>1, <1>2, <1>5, <1>6, <1>7 DEF StageInv, store, Late, WatermarkTime
<1> QED BY <1>1, <1>6, <1>8, <1>9 DEF Moved

\* Staging a finalized version moves a worker to a legal state.
LEMMA FinalizeRowMoved ==
    ASSUME IInv, NEW s \in Workers, FinalizeRow(s)
    PROVE  StoreType' /\ Grow /\ Moved(s)
<1> DEFINE w == tx[s].window
           r == tx[s].row
           final == versions[w][r].state = "finalized"
           staged == IF final THEN tx[s].staged ELSE tx[s].staged \cup {w}
           todo == tx[s].todo \ {w}
           t == [tx[s] EXCEPT !.todo = todo, !.staged = staged]
<1>1. StoreType' /\ Grow /\ UNCHANGED store
  BY StoreKept DEF IInv, StoreType, FinalizeRow
<1>2. JobInv(s) /\ StageInv(s) /\ tx[s] \in Txs /\ pc[s] = "finalize_row"
  BY DEF IInv, WorkerType, FinalizeRow
<1>3. CASE ~final /\ Len(versions[w]) > r /\ End(s, "finalization_failed")
  BY <1>1, <1>3, EndMoved
<1>4. CASE /\ final \/ Len(versions[w]) = r
           /\ Lock(s, WindowRow(w, r)) /\ Read(s, t)
           /\ GoTo(s, "finalize_window") /\ UNCHANGED <<job, outcome>>
  <2>1. w \in tx[s].todo /\ w \in Windows /\ r \in 1 .. Len(versions[w]) /\ r \in Nat
    BY <1>2 DEF JobInv, Txs
  <2>2. /\ t \in Txs /\ t.wm = tx[s].wm /\ t.window = w /\ t.row = r
        /\ t.todo = todo /\ t.staged = staged
    <3>1. todo \in SUBSET Windows /\ staged \in SUBSET Windows
      BY <1>2, <2>1 DEF Txs
    <3> HIDE DEF todo, staged
    <3> QED BY <1>2, <3>1 DEF Txs
  <2>3. WindowRow(w, r) \in SUBSET Rows /\ "finalize_window" \in Labels
    BY <2>1, RowTypes DEF Labels, Started, Finalizing
  <2>4. Free(s, WindowRow(w, r))
    BY DEF FinalizeRow
  <2>5. /\ WorkerType' /\ LocksExclusive'
        /\ \A o \in Workers \ {s} : Same(o)
        /\ pc'[s] = "finalize_window" /\ tx'[s] = t /\ job' = job
    <3> HIDE DEF t, w, r, final
    <3> QED BY <1>4, <2>2, <2>3, <2>4, ReadTyped
  <2>6. held'[s] = held[s] \cup WindowRow(w, r)
    BY <1>4 DEF Lock, IInv, WorkerType
  <2>7. \A x \in todo \cup staged : Late(x, tx[s].wm) /\ versions[x] # <<>>
    BY <1>2, <2>1 DEF StageInv
  <2>8. ASSUME NEW x \in staged
        PROVE  /\ versions[x][Len(versions[x])].state = "provisional"
               /\ WindowRow(x, Len(versions[x])) \subseteq held'[s]
    <3>1. CASE x \in tx[s].staged
      BY <3>1, <1>2, <2>6 DEF StageInv
    <3>2. CASE x = w /\ ~final
      <4>1. Len(versions[w]) = r
        BY <1>4, <3>2
      <4>2. versions[w][r] \in Version
        BY <2>1 DEF IInv, StoreType
      <4>3. versions[w][r].state = "provisional"
        BY <3>2, <4>2 DEF Version, States
      <4> QED BY <3>2, <4>1, <4>3, <2>6
    <3> QED BY <3>1, <3>2
  <2>9. JobInv(s)'
    <3> HIDE DEF t, w, r, staged, todo
    <3> QED BY <1>1, <1>2, <2>2, <2>5 DEF JobInv, store, Started, Ingesting, Finalizing
  <2>10. StageInv(s)'
    <3> HIDE DEF t, w, r, staged, todo
    <3> QED BY <1>1, <2>2, <2>5, <2>7, <2>8 DEF StageInv, store, Late, WatermarkTime
  <2> QED BY <1>1, <2>5, <2>9, <2>10 DEF Moved
<1> QED BY <1>3, <1>4 DEF FinalizeRow

\* Finding a watermark moves a worker to a legal state.
LEMMA EnsureWatermarkMoved ==
    ASSUME IInv, NEW s \in Workers, EnsureWatermark(s)
    PROVE  StoreType' /\ Grow /\ Moved(s)
<1>1. StoreType' /\ Grow /\ UNCHANGED store
  BY StoreKept DEF IInv, StoreType, EnsureWatermark
<1>2. JobInv(s) /\ StageInv(s) /\ tx[s] \in Txs /\ pc[s] = "ensure" /\ watermarks \in Seq(Windows)
  BY DEF IInv, WorkerType, EnsureWatermark, StoreType
<1>3. PICK label \in {"bootstrap", "ingest"}, t \in {tx[s], NoTx} :
        /\ GoTo(s, label) /\ Read(s, t)
        /\ label = "ingest" => watermarks # <<>>
  <2>1. CASE watermarks = <<>>
    <3>1. GoTo(s, "bootstrap") /\ Read(s, tx[s])
      BY <2>1 DEF EnsureWatermark, Read, IInv, WorkerType
    <3> QED BY <3>1
  <2>2. CASE watermarks # <<>>
    <3>1. GoTo(s, "ingest") /\ Read(s, NoTx)
      BY <2>2 DEF EnsureWatermark
    <3> QED BY <2>2, <3>1
  <2> QED BY <2>1, <2>2
<1>4. t \in Txs /\ label \in Labels /\ {} \in SUBSET Rows
  BY <1>2, NoneType DEF Labels, Started, Ingesting
<1>5. UNCHANGED <<job, held, outcome>>
  BY DEF EnsureWatermark
<1>6. /\ WorkerType' /\ LocksExclusive'
      /\ \A o \in Workers \ {s} : Same(o)
      /\ pc'[s] = label /\ tx'[s] = t /\ job' = job
  BY <1>3, <1>4, <1>5, ReadTyped
<1>7. t.todo = {} /\ t.staged = {} /\ t.wm <= Len(watermarks)
  BY <1>2 DEF JobInv, NoTx, Finalizing
<1>8. JobInv(s)'
  BY <1>1, <1>2, <1>3, <1>6, <1>7 DEF JobInv, store, Started, Ingesting, Finalizing
<1>9. StageInv(s)'
  BY <1>6, <1>7 DEF StageInv
<1> QED BY <1>1, <1>6, <1>8, <1>9 DEF Moved

\* A new watermark version: the log grows.
LEMMA WatermarkAppended ==
    ASSUME IInv, NEW v \in Windows, watermarks' = Append(watermarks, v),
           UNCHANGED <<versions, journal, requests, revised, polls>>
    PROVE  StoreType' /\ Grow /\ Len(watermarks') = Len(watermarks) + 1
           /\ watermarks'[Len(watermarks')] = v /\ watermarks' # <<>>
<1>1. watermarks \in Seq(Windows) /\ StoreType
  BY DEF IInv, StoreType
<1>2. /\ watermarks' \in Seq(Windows) /\ Len(watermarks') = Len(watermarks) + 1
      /\ watermarks'[Len(watermarks')] = v /\ watermarks' # <<>>
      /\ \A i \in 1 .. Len(watermarks) : watermarks'[i] = watermarks[i]
  BY <1>1
<1>3. StoreType'
  BY <1>1, <1>2 DEF StoreType
<1>4. Grow
  BY <1>1, <1>2 DEF StoreType, Grow
<1> QED BY <1>2, <1>3, <1>4

\* Storing the first watermark is growth and moves a worker to a legal state.
LEMMA BootstrapMoved ==
    ASSUME IInv, NEW s \in Workers, BootstrapWatermark(s)
    PROVE  StoreType' /\ Grow /\ Moved(s)
<1>1. /\ JobInv(s) /\ StageInv(s) /\ tx[s] \in Txs /\ pc[s] = "bootstrap"
      /\ watermarks \in Seq(Windows) /\ Window(s) \in Windows
  BY EventIn DEF IInv, WorkerType, BootstrapWatermark, StoreType
<1>2. CASE /\ watermarks = <<>> /\ watermarks' = <<Window(s)>>
           /\ GoTo(s, "ingest") /\ UNCHANGED <<job, tx, held, outcome>>
  <2>1. StoreType' /\ Grow /\ Len(watermarks') = 1 /\ watermarks' # <<>>
    <3>1. watermarks' = Append(watermarks, Window(s))
      BY <1>2
    <3> QED BY <1>1, <1>2, <3>1, WatermarkAppended DEF BootstrapWatermark
  <2>2. /\ WorkerType' /\ LocksExclusive'
        /\ \A o \in Workers \ {s} : Same(o)
        /\ pc'[s] = "ingest" /\ tx'[s] = tx[s] /\ job' = job
    <3>1. Read(s, tx[s]) /\ "ingest" \in Labels /\ {} \in SUBSET Rows
      BY <1>2 DEF Read, IInv, WorkerType, Labels, Started, Ingesting
    <3> QED BY <1>1, <1>2, <3>1, ReadTyped
  <2>3. JobInv(s)'
    BY <1>1, <1>2, <2>1, <2>2 DEF JobInv, Started, Ingesting, Finalizing, Txs
  <2>4. StageInv(s)'
    BY <1>1, <2>2 DEF StageInv, JobInv, Finalizing
  <2> QED BY <2>1, <2>2, <2>3, <2>4 DEF Moved
<1>3. CASE Retry(s, "ensure") /\ UNCHANGED watermarks
  <2>1. StoreType' /\ Grow /\ Len(watermarks') >= Len(watermarks)
    BY <1>1, <1>3, StoreKept DEF BootstrapWatermark, store, IInv, StoreType
  <2> QED BY <1>1, <1>3, <2>1, RetryMoved
<1>4. CASE End(s, "ingestion_failed") /\ UNCHANGED watermarks
  <2>1. StoreType' /\ Grow
    BY <1>1, <1>4, StoreKept DEF BootstrapWatermark, store, IInv, StoreType
  <2> QED BY <1>4, <2>1, EndMoved
<1> QED BY <1>2, <1>3, <1>4 DEF BootstrapWatermark

\* Fetching candles moves a worker to a legal state.
LEMMA FetchMoved ==
    ASSUME IInv, NEW s \in Workers, Fetch(s)
    PROVE  StoreType' /\ Grow /\ Moved(s)
<1>1. polls' \in 1 .. MaxPolls /\ UNCHANGED store
  BY StreamAssumption DEF IInv, StoreType, Fetch
<1>2. StoreType' /\ Grow
  BY <1>1, StoreKept
<1>3. PICK lo \in Windows : \E hi \in lo .. MaxWindow : \E candles \in [lo .. hi -> Payloads] :
        job' = [job EXCEPT ![s] = [candles |-> candles, at |-> lo, last |-> hi, seen |-> polls']]
  BY DEF Fetch
<1>a. PICK hi \in lo .. MaxWindow : \E candles \in [lo .. hi -> Payloads] :
        job' = [job EXCEPT ![s] = [candles |-> candles, at |-> lo, last |-> hi, seen |-> polls']]
  BY <1>3
<1>4. PICK candles \in [lo .. hi -> Payloads] :
        job' = [job EXCEPT ![s] = [candles |-> candles, at |-> lo, last |-> hi, seen |-> polls']]
  BY <1>a
<1> DEFINE j == [candles |-> candles, at |-> lo, last |-> hi, seen |-> polls']
<1>5. j \in Jobs /\ lo \in 1 .. hi /\ lo .. hi = DOMAIN candles
  <2>1. lo .. hi \in SUBSET Windows /\ lo \in 1 .. hi /\ lo \in 0 .. MaxWindow /\ hi \in 0 .. MaxWindow
    BY StreamAssumption DEF Windows
  <2>2. candles \in Candles
    BY <2>1 DEF Candles
  <2> QED BY <1>1, <2>1, <2>2 DEF Jobs
<1>6. /\ LocksExclusive'
      /\ held' \in [Workers -> SUBSET Rows]
      /\ \A o \in Workers \ {s} : held'[o] = held[o]
  <2>1. held' = held /\ {} \in SUBSET Rows
    BY DEF Fetch
  <2> QED BY <2>1, LocksKept
<1>7. /\ job' \in [Workers -> Jobs] /\ job'[s] = j
      /\ \A o \in Workers \ {s} : job'[o] = job[o]
  <2> HIDE DEF j
  <2>1. job' = [job EXCEPT ![s] = j]
    BY <1>4 DEF j
  <2> QED BY <1>5, <2>1 DEF IInv, WorkerType
<1>8. /\ pc' \in [Workers -> Labels] /\ tx' = tx /\ pc[s] = "idle" /\ pc'[s] = "ensure"
      /\ outcome' = [o \in Workers |-> outcome'[o]]
      /\ \A o \in Workers \ {s} : pc'[o] = pc[o]
  BY DEF Fetch, GoTo, IInv, WorkerType, Labels
<1>9. JobInv(s) /\ tx[s] \in Txs
  BY DEF IInv, WorkerType
<1>10. JobInv(s)'
  BY <1>1, <1>5, <1>7, <1>8, <1>9 DEF JobInv, store, Started, Ingesting, Finalizing
<1>11. StageInv(s)'
  BY <1>8, <1>9 DEF StageInv, JobInv, Finalizing
<1>12. WorkerType'
  BY <1>6, <1>7, <1>8 DEF WorkerType, IInv
<1> QED BY <1>2, <1>6, <1>7, <1>8, <1>10, <1>11, <1>12 DEF Moved, Same

\* Starting a replay moves a worker to a legal state.
LEMMA ReplayStartMoved ==
    ASSUME IInv, NEW s \in Workers, NEW e \in Events, ReplayStart(s, e)
    PROVE  StoreType' /\ Grow /\ Moved(s)
<1> DEFINE n == Len(versions[e[1]])
           t == [tx[s] EXCEPT !.row = n]
           c == [w \in {e[1]} |-> e[2]]
           j == [NoTask EXCEPT !.candles = c, !.at = e[1], !.last = e[1]]
<1>1. StoreType' /\ Grow /\ UNCHANGED store
  BY StoreKept DEF IInv, StoreType, ReplayStart
<1>2. /\ JobInv(s) /\ StageInv(s) /\ tx[s] \in Txs /\ pc[s] = "idle" /\ e \in requests
      /\ tx[s].todo = {} /\ tx[s].staged = {}
  BY DEF IInv, WorkerType, ReplayStart, JobInv, Finalizing
<1>3. e[1] \in Windows /\ e[2] \in Payloads /\ e = <<e[1], e[2]>> /\ n \in Nat
  <2>1. e[1] \in Windows /\ e[2] \in Payloads /\ e = <<e[1], e[2]>>
    BY DEF Events
  <2>2. versions[e[1]] \in Seq(Version)
    BY <2>1 DEF IInv, StoreType
  <2> QED BY <2>1, <2>2
<1>4. /\ t \in Txs /\ t.row = n /\ t.wm = tx[s].wm /\ t.todo = {} /\ t.staged = {}
  <2> HIDE DEF n
  <2> QED BY <1>2, <1>3 DEF Txs
<1>5. /\ j \in Jobs /\ j.at = e[1] /\ j.last = e[1] /\ j.candles = c
      /\ DOMAIN c = {e[1]} /\ c[e[1]] = e[2] /\ e[1] \in 1 .. e[1]
  <2>1. c \in Candles
    <3>1. c \in [{e[1]} -> Payloads] /\ {e[1]} \in SUBSET Windows
      BY <1>3
    <3> QED BY <3>1 DEF Candles
  <2>2. DOMAIN c = {e[1]} /\ c[e[1]] = e[2] /\ e[1] \in 0 .. MaxWindow /\ e[1] \in 1 .. e[1]
    BY <1>3, StreamAssumption DEF Windows
  <2> HIDE DEF c
  <2>3. j \in Jobs /\ j.at = e[1] /\ j.last = e[1] /\ j.candles = c
    BY <2>1, <2>2, NoneType DEF Jobs
  <2> QED BY <2>2, <2>3
<1>6. /\ LocksExclusive'
      /\ held' \in [Workers -> SUBSET Rows]
      /\ \A o \in Workers \ {s} : held'[o] = held[o]
  <2>1. /\ Free(s, RequestRow(e)) /\ held' = [held EXCEPT ![s] = @ \cup RequestRow(e)]
        /\ RequestRow(e) \in SUBSET Rows
    BY RowTypes DEF ReplayStart, Lock
  <2> QED BY <2>1, LocksKept
<1>7. /\ job' \in [Workers -> Jobs] /\ job'[s] = j
      /\ \A o \in Workers \ {s} : job'[o] = job[o]
  <2>1. job' = [job EXCEPT ![s] = j]
    BY DEF ReplayStart
  <2> HIDE DEF j
  <2> QED BY <1>5, <2>1 DEF IInv, WorkerType
<1>8. /\ pc' \in [Workers -> Labels] /\ pc'[s] = "replay_commit"
      /\ outcome' = [o \in Workers |-> outcome'[o]]
      /\ tx' \in [Workers -> Txs] /\ tx'[s] = t
      /\ \A o \in Workers \ {s} : pc'[o] = pc[o] /\ tx'[o] = tx[o]
  <2>1. tx' = [tx EXCEPT ![s] = t]
    BY DEF ReplayStart, Read
  <2> HIDE DEF t
  <2> QED BY <1>4, <2>1 DEF ReplayStart, GoTo, IInv, WorkerType, Labels
<1> HIDE DEF t, j, c
<1>9. Event(s)' = e
  BY <1>3, <1>5, <1>7 DEF Event, Window
<1>10. JobInv(s)'
  <2>1. job'[s].at \in 1 .. job'[s].last /\ job'[s].at .. job'[s].last \subseteq DOMAIN job'[s].candles
    BY <1>3, <1>5, <1>7 DEF Windows
  <2>2. tx'[s].row <= Len(versions'[job'[s].at])
    BY <1>1, <1>3, <1>4, <1>5, <1>7, <1>8 DEF store
  <2> QED BY <1>1, <1>2, <1>4, <1>8, <1>9, <2>1, <2>2
        DEF JobInv, store, Started, Ingesting, Finalizing
<1>11. StageInv(s)'
  BY <1>4, <1>8 DEF StageInv
<1>12. WorkerType'
  BY <1>6, <1>7, <1>8 DEF WorkerType, IInv
<1> QED BY <1>1, <1>6, <1>7, <1>8, <1>10, <1>11, <1>12 DEF Moved, Same

\* The steps that end a job, or go on to the next candle, without writing.
LEMMA IngestRedeliveryMoved ==
    ASSUME IInv, NEW s \in Workers, IngestRedelivery(s)
    PROVE  StoreType' /\ Grow /\ Moved(s)
<1>1. StoreType' /\ Grow /\ UNCHANGED store /\ pc[s] = "ingest_commit"
  BY StoreKept DEF IInv, StoreType, IngestRedelivery
<1>2. Len(watermarks') >= Len(watermarks)
  BY <1>1 DEF Grow
<1>3. CASE End(s, "ingestion_failed")
  BY <1>1, <1>3, EndMoved
<1>4. CASE NextCandle(s)
  BY <1>1, <1>2, <1>4, NextCandleMoved
<1> QED BY <1>1, <1>3, <1>4 DEF IngestRedelivery

\* A conflict at commit moves a worker to a legal state.
LEMMA IngestConflictMoved ==
    ASSUME IInv, NEW s \in Workers, IngestConflict(s)
    PROVE  StoreType' /\ Grow /\ Moved(s)
<1>1. StoreType' /\ Grow /\ UNCHANGED store /\ pc[s] = "ingest_commit"
  BY StoreKept DEF IInv, StoreType, IngestConflict
<1>2. Len(watermarks') >= Len(watermarks) /\ pc[s] \in Started
  BY <1>1 DEF Grow, Started, Ingesting
<1>3. CASE End(s, "ingestion_failed")
  BY <1>1, <1>3, EndMoved
<1>4. CASE Retry(s, "ingest")
  BY <1>1, <1>2, <1>4, RetryMoved
<1> QED BY <1>3, <1>4 DEF IngestConflict

\* The end of a job moves a worker to a legal state.
LEMMA EndsMoved ==
    ASSUME IInv, NEW s \in Workers, ReplayRefused(s) \/ Crash(s)
    PROVE  StoreType' /\ Grow /\ Moved(s)
<1>1. UNCHANGED <<store, polls>>
  BY DEF ReplayRefused, Crash
<1>2. StoreType' /\ Grow
  BY <1>1, StoreKept DEF IInv, StoreType
<1>3. PICK result : End(s, result)
  BY DEF ReplayRefused, Crash
<1> QED BY <1>2, <1>3, EndMoved

\* Advancing the watermark is growth and moves a worker to a legal state.
LEMMA AdvanceMoved ==
    ASSUME IInv, NEW s \in Workers, Advance(s)
    PROVE  StoreType' /\ Grow /\ Moved(s)
<1>1. /\ JobInv(s) /\ pc[s] = "advance_commit" /\ job[s].last \in Windows
      /\ watermarks \in Seq(Windows) /\ watermarks # <<>>
  BY EventIn DEF IInv, Advance, StoreType, JobInv, Started
<1>2. StoreType' /\ Grow /\ Len(watermarks') >= Len(watermarks) /\ watermarks' # <<>>
  <2>1. CASE watermarks' = watermarks
    BY <1>1, <2>1, StoreKept DEF Advance, store, IInv, StoreType
  <2>2. CASE watermarks' = Append(watermarks, job[s].last)
    BY <1>1, <2>2, WatermarkAppended DEF Advance
  <2> QED BY <2>1, <2>2 DEF Advance
<1>3. CASE End(s, "ingestion_failed")
  BY <1>2, <1>3, EndMoved
<1>4. CASE Close(s) /\ GoTo(s, "finalize") /\ UNCHANGED <<job, outcome>>
  <2>1. /\ LocksExclusive'
        /\ held' \in [Workers -> SUBSET Rows]
        /\ \A o \in Workers \ {s} : held'[o] = held[o]
    <3>1. held' = [held EXCEPT ![s] = {}] /\ {} \in SUBSET Rows
      BY <1>4 DEF Close
    <3> QED BY <3>1, LocksKept
  <2>2. /\ pc' \in [Workers -> Labels] /\ tx' \in [Workers -> Txs]
        /\ pc'[s] = "finalize" /\ tx'[s] = NoTx
        /\ \A o \in Workers \ {s} : pc'[o] = pc[o] /\ tx'[o] = tx[o]
    BY <1>4, NoneType DEF Close, GoTo, IInv, WorkerType, Labels, Started
  <2>3. JobInv(s)'
    <3>1. Len(watermarks') \in Nat
      BY <1>2 DEF StoreType
    <3> QED BY <1>1, <1>2, <1>4, <2>2, <3>1 DEF JobInv, NoTx, Started, Ingesting, Finalizing
  <2>4. StageInv(s)'
    BY <2>2 DEF StageInv, NoTx
  <2> QED BY <1>2, <1>4, <2>1, <2>2, <2>3, <2>4 DEF Moved, WorkerType, Same, IInv
<1> QED BY <1>3, <1>4 DEF Advance

\* Windows that keep their versions or get one more.
LEMMA VersionsAppended ==
    ASSUME IInv, versions' = [w \in Windows |-> versions'[w]],
           \A w \in Windows : \/ versions'[w] = versions[w]
                              \/ \E v \in Version : versions'[w] = Append(versions[w], v),
           UNCHANGED watermarks, requests \subseteq requests'
    PROVE  versions' \in [Windows -> Seq(Version)] /\ Grow
<1>1. versions \in [Windows -> Seq(Version)] /\ watermarks \in Seq(Windows)
  BY DEF IInv, StoreType
<1>2. ASSUME NEW w \in Windows
      PROVE  /\ versions'[w] \in Seq(Version)
             /\ Len(versions'[w]) >= Len(versions[w])
             /\ \A i \in 1 .. Len(versions[w]) : versions'[w][i] = versions[w][i]
  <2>1. versions[w] \in Seq(Version)
    BY <1>1
  <2>2. CASE versions'[w] = versions[w]
    BY <2>1, <2>2
  <2>3. CASE \E v \in Version : versions'[w] = Append(versions[w], v)
    BY <2>1, <2>3
  <2> QED BY <2>2, <2>3
<1>3. versions' \in [Windows -> Seq(Version)]
  BY <1>2
<1>4. Grow
  <2>1. Len(watermarks') >= Len(watermarks)
        /\ \A i \in 1 .. Len(watermarks) : watermarks'[i] = watermarks[i]
    BY <1>1
  <2> QED BY <1>2, <2>1 DEF Grow
<1> QED BY <1>3, <1>4

\* What is written when a candle is committed.
LEMMA IngestNewWrites ==
    ASSUME IInv, NEW s \in Workers, IngestNew(s)
    PROVE  LET w == Window(s)
               n == Len(versions[w])
               new == [payload |-> Event(s)[2], state |-> "provisional"]
           IN  /\ Decision(s) \in [seen : 1 .. MaxPolls, wm : 1 .. Len(watermarks), existing : Nat,
                                   disposition : Dispositions]
               /\ new \in Version /\ n \in Nat
               /\ \A x \in Windows \ {w} : versions'[x] = versions[x]
               /\ \/ Decision(s).disposition # "accepted" /\ versions' = versions
                  \/ /\ Decision(s).disposition = "accepted"
                     /\ versions'[w] = Append(versions[w], new)
                     /\ tx[s].row = n /\ Decision(s).existing = n
                     /\ n > 0 => versions[w][n].state = "provisional"
<1> DEFINE w == Window(s)
           n == Len(versions[w])
           new == [payload |-> Event(s)[2], state |-> "provisional"]
<1>1. /\ JobInv(s) /\ job[s] \in Jobs /\ tx[s] \in Txs /\ pc[s] = "ingest_commit"
      /\ Event(s) \in Events /\ w \in Windows
      /\ versions \in [Windows -> Seq(Version)] /\ watermarks \in Seq(Windows)
  BY EventIn DEF IInv, WorkerType, StoreType, IngestNew
<1>2. /\ job[s].seen \in 1 .. MaxPolls /\ tx[s].wm \in 1 .. Len(watermarks)
      /\ tx[s].row \in Nat /\ tx[s].row <= n /\ n \in Nat
  <2>1. versions[w] \in Seq(Version)
    BY <1>1
  <2>2. n \in Nat /\ Len(watermarks) \in Nat
    BY <1>1, <2>1
  <2>3. job[s].seen \in 1 .. MaxPolls
    BY <1>1, StreamAssumption DEF JobInv, Jobs
  <2>4. /\ tx[s].wm \in 1 .. Len(watermarks)
        /\ tx[s].row \in Nat /\ tx[s].row <= n
    BY <1>1, <2>2 DEF JobInv, Txs, Window
  <2> QED BY <2>2, <2>3, <2>4
<1>3. Decide(Event(s)[1], Event(s)[2], tx[s].wm, tx[s].row) \in Dispositions
  BY DEF Decide, Dispositions
<1>4. Decision(s) \in [seen : 1 .. MaxPolls, wm : 1 .. Len(watermarks), existing : Nat,
                       disposition : Dispositions]
  BY <1>2, <1>3 DEF Decision
<1>5. new \in Version /\ Event(s)[1] = w
  BY <1>1 DEF Version, States, Events, Event
<1>6. CASE Decision(s).disposition # "accepted"
  <2>1. versions' = versions
    BY <1>6 DEF IngestNew
  <2> QED BY <1>2, <1>4, <1>5, <1>6, <2>1
<1>7. CASE Decision(s).disposition = "accepted"
  <2>1. versions'[w] = Append(versions[w], new) /\ \A x \in Windows \ {w} : versions'[x] = versions[x]
    BY <1>1, <1>7 DEF IngestNew
  <2>2. tx[s].row = n
    BY <1>2, <1>7 DEF IngestNew, WindowTaken
  <2>3. Decision(s).existing = n
    BY <2>2 DEF Decision
  <2>4. n > 0 => versions[w][n].state = "provisional"
    <3>1. n > 0 => versions[w][n] \in Version
      BY <1>1, <1>2
    <3>2. n > 0 => versions[w][n].state # "finalized"
      BY <1>5, <1>7, <2>2 DEF Decision, Decide
    <3> QED BY <3>1, <3>2 DEF Version, States
  <2> HIDE DEF n, new, w
  <2> QED BY <1>2, <1>4, <1>5, <1>7, <2>1, <2>2, <2>3, <2>4 DEF w, n, new
<1> QED BY <1>6, <1>7

\* Committing an ingestion is growth and moves a worker to a legal state.
LEMMA IngestNewMoved ==
    ASSUME IInv, NEW s \in Workers, IngestNew(s)
    PROVE  StoreType' /\ Grow /\ Moved(s)
<1> DEFINE w == Window(s)
           new == [payload |-> Event(s)[2], state |-> "provisional"]
<1>1. /\ Decision(s) \in [seen : 1 .. MaxPolls, wm : 1 .. Len(watermarks), existing : Nat,
                          disposition : Dispositions]
      /\ new \in Version
      /\ \A x \in Windows \ {w} : versions'[x] = versions[x]
      /\ versions' = versions \/ versions'[w] = Append(versions[w], new)
  BY IngestNewWrites
<1>2. versions' = [x \in Windows |-> versions'[x]]
  BY DEF IngestNew, IInv, StoreType
<1>3. versions' \in [Windows -> Seq(Version)] /\ Grow
  <2>1. \A x \in Windows : \/ versions'[x] = versions[x]
                           \/ \E v \in Version : versions'[x] = Append(versions[x], v)
    BY <1>1
  <2>2. UNCHANGED watermarks /\ requests \subseteq requests'
    BY DEF IngestNew
  <2> QED BY <1>2, <2>1, <2>2, VersionsAppended
<1>4. journal' \in [Events -> [seen : 0 .. MaxPolls, wm : Nat, existing : Nat,
                               disposition : Dispositions]]
  <2>1. Decision(s) \in [seen : 0 .. MaxPolls, wm : Nat, existing : Nat, disposition : Dispositions]
    BY <1>1
  <2> QED BY <2>1 DEF IngestNew, IInv, StoreType
<1>5. StoreType'
  BY <1>3, <1>4 DEF StoreType, IngestNew, IInv
<1>6. Len(watermarks') >= Len(watermarks)
  BY <1>3 DEF Grow
<1> QED BY <1>3, <1>5, <1>6, NextCandleMoved DEF IngestNew

\* What is written when the finalizer commits.
LEMMA FinalizeCommitWrites ==
    ASSUME IInv, NEW s \in Workers, FinalizeCommit(s), NEW w \in Windows
    PROVE  LET n == Len(versions[w])
               new == [versions[w][n] EXCEPT !.state = "finalized"]
           IN  \/ w \notin tx[s].staged /\ versions'[w] = versions[w]
               \/ /\ w \in tx[s].staged /\ Late(w, tx[s].wm)
                  /\ n \in Nat \ {0} /\ versions[w][n].state = "provisional"
                  /\ new \in Version /\ new.state = "finalized"
                  /\ versions'[w] = Append(versions[w], new)
                  /\ WindowRow(w, n) \subseteq held[s]
<1>1. StageInv(s) /\ versions[w] \in Seq(Version)
  BY DEF IInv, StoreType
<1>2. CASE w \notin tx[s].staged
  BY <1>2 DEF FinalizeCommit
<1>3. CASE w \in tx[s].staged
  <2> DEFINE n == Len(versions[w])
             new == [versions[w][n] EXCEPT !.state = "finalized"]
  <2>1. Late(w, tx[s].wm) /\ n \in Nat \ {0} /\ versions[w][n].state = "provisional"
        /\ WindowRow(w, n) \subseteq held[s]
    BY <1>1, <1>3 DEF StageInv
  <2>2. versions[w][n] \in Version
    BY <1>1, <2>1
  <2>3. new \in Version /\ new.state = "finalized"
    BY <2>2 DEF Version, States
  <2>4. versions'[w] = Append(versions[w], new)
    BY <1>3 DEF FinalizeCommit
  <2> QED BY <1>3, <2>1, <2>3, <2>4
<1> QED BY <1>2, <1>3

\* Committing a finalization is growth and moves a worker to a legal state.
LEMMA FinalizeCommitMoved ==
    ASSUME IInv, NEW s \in Workers, FinalizeCommit(s)
    PROVE  StoreType' /\ Grow /\ Moved(s)
<1>1. \A x \in Windows : \/ versions'[x] = versions[x]
                         \/ \E v \in Version : versions'[x] = Append(versions[x], v)
  BY FinalizeCommitWrites
<1>2. versions' = [x \in Windows |-> versions'[x]] /\ UNCHANGED watermarks
      /\ requests \subseteq requests'
  BY DEF FinalizeCommit
<1>3. versions' \in [Windows -> Seq(Version)] /\ Grow
  BY <1>1, <1>2, VersionsAppended
<1>4. StoreType'
  BY <1>3 DEF StoreType, FinalizeCommit, IInv
<1> QED BY <1>3, <1>4, EndMoved DEF FinalizeCommit

\* What is written when a replay commits.
LEMMA ReplayCommitWrites ==
    ASSUME IInv, NEW s \in Workers, ReplayCommit(s)
    PROVE  LET w == Window(s)
               new == [payload |-> Event(s)[2], state |-> "finalized"]
           IN  /\ Event(s) \in requests /\ Event(s) \in Events /\ w \in Windows
               /\ Event(s) = <<w, Event(s)[2]>> /\ new \in Version
               /\ versions'[w] = Append(versions[w], new)
               /\ \A x \in Windows \ {w} : versions'[x] = versions[x]
               /\ journal[Event(s)].existing = Len(versions[w])
               /\ Late(w, journal[Event(s)].wm)
               /\ Free(s, WindowRow(w, Len(versions[w])))
<1>1. pc[s] = "replay_commit" /\ JobInv(s)
  BY DEF ReplayCommit, IInv
<1>2. Event(s) \in requests /\ Event(s) \in Events /\ Window(s) \in Windows
  BY <1>1, EventIn DEF JobInv
<1>3. Event(s) = <<Window(s), Event(s)[2]>> /\ Event(s)[2] \in Payloads
  BY <1>2 DEF Event, Events
<1> QED BY <1>2, <1>3 DEF ReplayCommit, Current, Passed, Version, States, IInv, StoreType

\* Committing a replay is growth and moves a worker to a legal state.
LEMMA ReplayCommitMoved ==
    ASSUME IInv, NEW s \in Workers, ReplayCommit(s)
    PROVE  StoreType' /\ Grow /\ Moved(s)
<1>1. \A x \in Windows : \/ versions'[x] = versions[x]
                         \/ \E v \in Version : versions'[x] = Append(versions[x], v)
  BY ReplayCommitWrites
<1>2. versions' = [x \in Windows |-> versions'[x]] /\ UNCHANGED watermarks
      /\ requests \subseteq requests'
  BY DEF ReplayCommit, IInv, StoreType
<1>3. versions' \in [Windows -> Seq(Version)] /\ Grow
  BY <1>1, <1>2, VersionsAppended
<1>4. revised' \in SUBSET requests
  BY ReplayCommitWrites DEF ReplayCommit, IInv, StoreType
<1>5. StoreType'
  BY <1>3, <1>4 DEF StoreType, ReplayCommit, IInv
<1> QED BY <1>3, <1>5, EndMoved DEF ReplayCommit

-----------------------------------------------------------------------------
(* The other workers.                                                      *)

\* A worker that takes no step keeps its part of the invariant while the store
\* grows, provided the windows it has staged keep their versions.
LEMMA OtherWorker ==
    ASSUME IInv, StoreType', Grow, NEW o \in Workers, Same(o),
           \A w \in tx[o].staged : versions'[w] = versions[w]
    PROVE  JobInv(o)' /\ StageInv(o)'
<1>1. /\ JobInv(o) /\ StageInv(o) /\ job[o] \in Jobs /\ tx[o] \in Txs
      /\ watermarks \in Seq(Windows) /\ watermarks' \in Seq(Windows)
      /\ versions \in [Windows -> Seq(Version)] /\ versions' \in [Windows -> Seq(Version)]
  BY DEF IInv, StoreType, WorkerType
<1>2. watermarks # <<>> => watermarks' # <<>>
  BY <1>1 DEF Grow
<1>3. /\ Len(watermarks) \in Nat /\ Len(watermarks') \in Nat /\ Len(watermarks') >= Len(watermarks)
      /\ tx[o].wm \in Nat /\ tx[o].row \in Nat
  BY <1>1 DEF Grow, Txs
<1>4. \A w \in Windows : /\ Len(versions[w]) \in Nat /\ Len(versions'[w]) \in Nat
                         /\ Len(versions'[w]) >= Len(versions[w])
                         /\ versions[w] # <<>> => versions'[w] # <<>>
  <2> TAKE w \in Windows
  <2>1. versions[w] \in Seq(Version) /\ versions'[w] \in Seq(Version)
    BY <1>1
  <2> QED BY <2>1 DEF Grow
<1>5. pc[o] # "idle" => job[o].at \in Windows
  BY EventIn DEF Window
<1>6. pc[o] = "finalize_row" => tx[o].window \in Windows
  BY <1>1 DEF JobInv, Txs
<1>7. Event(o)' = Event(o) /\ requests \subseteq requests'
  BY DEF Same, Event, Window, Grow
<1>8. JobInv(o)'
  <2>1. pc[o] \in {"ingest_row", "ingest_commit", "replay_commit"} =>
          tx[o].row <= Len(versions'[job[o].at])
    <3>1. pc[o] \in {"ingest_row", "ingest_commit", "replay_commit"} =>
            /\ tx[o].row <= Len(versions[job[o].at])
            /\ job[o].at \in Windows
      BY <1>1, <1>5 DEF JobInv
    <3> QED BY <1>3, <1>4, <3>1
  <2>2. pc[o] = "finalize_row" => /\ tx[o].window \in tx[o].todo
                                  /\ tx[o].row \in 1 .. Len(versions'[tx[o].window])
    <3>1. pc[o] = "finalize_row" => /\ tx[o].window \in tx[o].todo
                                    /\ tx[o].row \in 1 .. Len(versions[tx[o].window])
      BY <1>1 DEF JobInv
    <3> QED BY <1>3, <1>4, <1>6, <3>1
  <2>3. tx[o].wm <= Len(watermarks')
    BY <1>1, <1>3 DEF JobInv
  <2>4. pc[o] = "replay_commit" => Event(o)' \in requests'
    BY <1>1, <1>7 DEF JobInv
  <2>5. pc[o] \in Started => watermarks' # <<>>
    BY <1>1, <1>2 DEF JobInv
  <2> QED BY <1>1, <2>1, <2>2, <2>3, <2>4, <2>5 DEF JobInv, Same
<1>9. StageInv(o)'
  <2>1. ASSUME NEW w \in tx[o].todo \cup tx[o].staged
        PROVE  Late(w, tx[o].wm)' /\ versions'[w] # <<>>
    <3>1. w \in Windows /\ Late(w, tx[o].wm) /\ versions[w] # <<>>
      BY <1>1, <2>1 DEF StageInv, Txs
    <3>2. tx[o].wm > 0
      BY <1>1, <2>1 DEF JobInv, Finalizing
    <3>3. watermarks'[tx[o].wm] = watermarks[tx[o].wm]
      <4>1. tx[o].wm \in 1 .. Len(watermarks)
        BY <1>1, <1>3, <3>2 DEF JobInv
      <4>2. \A i \in 1 .. Len(watermarks) : watermarks'[i] = watermarks[i]
        BY DEF Grow
      <4> QED BY <4>1, <4>2
    <3> QED BY <1>4, <3>1, <3>3 DEF Late, WatermarkTime, Same
  <2>2. \A w \in tx[o].staged : versions'[w] = versions[w]
    OBVIOUS
  <2> QED BY <1>1, <2>1, <2>2 DEF StageInv, Same
<1> QED BY <1>8, <1>9

\* Two workers do not hold the lock of the latest version of one window.
LEMMA StagedAlone ==
    ASSUME IInv, NEW s \in Workers, NEW o \in Workers, s # o, NEW w \in tx[o].staged,
           \/ WindowRow(w, Len(versions[w])) \subseteq held[s]
           \/ Free(s, WindowRow(w, Len(versions[w])))
    PROVE  FALSE
<1>1. /\ WindowRow(w, Len(versions[w])) \subseteq held[o]
      /\ w \in Windows /\ versions[w] # <<>>
  BY DEF IInv, StageInv, WorkerType, Txs
<1>2. versions[w] \in Seq(Version)
  BY <1>1 DEF IInv, StoreType
<1>3. <<"window", w, Len(versions[w])>> \in WindowRow(w, Len(versions[w]))
  BY <1>1, <1>2 DEF WindowRow
<1> QED BY <1>1, <1>3 DEF Free, IInv, LocksExclusive

\* The worker steps, by what they write.
Reads(s) == \/ EnsureWatermark(s) \/ IngestSeek(s) \/ IngestLock(s) \/ IngestRow(s)
            \/ IngestRedelivery(s) \/ IngestConflict(s) \/ AdvanceSeek(s)
            \/ FinalizeSeek(s) \/ FinalizeLock(s) \/ FinalizeRead(s) \/ FinalizeRow(s)
            \/ ReplayRefused(s) \/ Fetch(s) \/ Crash(s) \/ \E e \in Events : ReplayStart(s, e)
Marks(s) == BootstrapWatermark(s) \/ Advance(s)
Writes(s) == IngestNew(s) \/ FinalizeCommit(s) \/ ReplayCommit(s)

\* A window on which a worker has staged a version does not change under it.
LEMMA StagedKept ==
    ASSUME IInv, NEW s \in Workers, Reads(s) \/ Marks(s) \/ Writes(s),
           NEW o \in Workers \ {s}, NEW w \in tx[o].staged
    PROVE  versions'[w] = versions[w]
<1>1. w \in Windows
  BY DEF IInv, WorkerType, Txs
<1>2. CASE Reads(s)
  BY <1>2 DEF Reads, store, EnsureWatermark, IngestSeek, IngestLock, IngestRow, IngestRedelivery,
       IngestConflict, AdvanceSeek, FinalizeSeek, FinalizeLock, FinalizeRead, FinalizeRow,
       ReplayRefused, Fetch, Crash, ReplayStart
<1>3. CASE Marks(s)
  BY <1>3 DEF Marks, BootstrapWatermark, Advance
<1>4. CASE IngestNew(s)
  <2>1. SUFFICES ASSUME versions'[w] # versions[w] PROVE FALSE
    OBVIOUS
  <2>2. w = Window(s) /\ tx[s].row = Len(versions[w])
    BY <1>1, <1>4, <2>1, IngestNewWrites
  <2>3. WindowRow(w, Len(versions[w])) \subseteq held[s]
    BY <1>4, <2>2 DEF IInv, JobInv, IngestNew, Window
  <2> QED BY <2>3, StagedAlone
<1>5. CASE FinalizeCommit(s)
  <2>1. SUFFICES ASSUME versions'[w] # versions[w] PROVE FALSE
    OBVIOUS
  <2>2. WindowRow(w, Len(versions[w])) \subseteq held[s]
    BY <1>1, <1>5, <2>1, FinalizeCommitWrites
  <2> QED BY <2>2, StagedAlone
<1>6. CASE ReplayCommit(s)
  <2>1. SUFFICES ASSUME versions'[w] # versions[w] PROVE FALSE
    OBVIOUS
  <2>2. Free(s, WindowRow(w, Len(versions[w])))
    BY <1>1, <1>6, <2>1, ReplayCommitWrites
  <2> QED BY <2>2, StagedAlone
<1> QED BY <1>2, <1>3, <1>4, <1>5, <1>6 DEF Writes

\* Every step of a worker keeps the invariant of all workers.
LEMMA WorkersKept ==
    ASSUME IInv, NEW s \in Workers, Reads(s) \/ Marks(s) \/ Writes(s)
    PROVE  /\ StoreType' /\ Grow /\ WorkerType' /\ LocksExclusive'
           /\ \A o \in Workers : JobInv(o)' /\ StageInv(o)'
<1>1. StoreType' /\ Grow /\ Moved(s)
  <2>1. CASE EnsureWatermark(s)
    BY <2>1, EnsureWatermarkMoved
  <2>2. CASE IngestSeek(s) \/ AdvanceSeek(s) \/ FinalizeSeek(s)
    BY <2>2, SeekMoved
  <2>3. CASE IngestLock(s)
    BY <2>3, IngestLockMoved
  <2>4. CASE IngestRow(s)
    BY <2>4, IngestRowMoved
  <2>5. CASE IngestRedelivery(s)
    BY <2>5, IngestRedeliveryMoved
  <2>6. CASE IngestConflict(s)
    BY <2>6, IngestConflictMoved
  <2>7. CASE FinalizeLock(s)
    BY <2>7, FinalizeLockMoved
  <2>8. CASE FinalizeRead(s)
    BY <2>8, FinalizeReadMoved
  <2>9. CASE FinalizeRow(s)
    BY <2>9, FinalizeRowMoved
  <2>10. CASE ReplayRefused(s) \/ Crash(s)
    BY <2>10, EndsMoved
  <2>11. CASE Fetch(s)
    BY <2>11, FetchMoved
  <2>12. CASE \E e \in Events : ReplayStart(s, e)
    BY <2>12, ReplayStartMoved
  <2>13. CASE BootstrapWatermark(s)
    BY <2>13, BootstrapMoved
  <2>14. CASE Advance(s)
    BY <2>14, AdvanceMoved
  <2>15. CASE IngestNew(s)
    BY <2>15, IngestNewMoved
  <2>16. CASE FinalizeCommit(s)
    BY <2>16, FinalizeCommitMoved
  <2>17. CASE ReplayCommit(s)
    BY <2>17, ReplayCommitMoved
  <2> QED BY <2>1, <2>2, <2>3, <2>4, <2>5, <2>6, <2>7, <2>8, <2>9, <2>10, <2>11, <2>12, <2>13, <2>14, <2>15, <2>16, <2>17
       DEF Reads, Marks, Writes
<1>2. ASSUME NEW o \in Workers, o # s PROVE JobInv(o)' /\ StageInv(o)'
  <2>1. Same(o)
    BY <1>1, <1>2 DEF Moved
  <2>2. \A w \in tx[o].staged : versions'[w] = versions[w]
    BY <1>2, StagedKept
  <2> QED BY <1>1, <2>1, <2>2, OtherWorker
<1> QED BY <1>1, <1>2 DEF Moved

-----------------------------------------------------------------------------
(* The store.                                                              *)

Ledger == /\ LogInv /\ WatermarkForward /\ FinalBehindWatermark
          /\ FinalOnlyRevised /\ JournalMatchesWindows

\* What a watermark version has passed, the latest one has passed.
LEMMA LateStays ==
    ASSUME IInv, NEW v \in 1 .. Len(watermarks), NEW w \in Windows, Late(w, v)
    PROVE  Late(w, Len(watermarks))
<1>1. watermarks \in Seq(Windows) /\ WatermarkForward
  BY DEF IInv, StoreType
<1>2. watermarks[v] <= watermarks[Len(watermarks)]
  <2>1. /\ v < Len(watermarks) \/ v = Len(watermarks)
        /\ v \in DOMAIN watermarks /\ Len(watermarks) \in DOMAIN watermarks
    BY <1>1
  <2>2. watermarks[v] \in Int /\ watermarks[Len(watermarks)] \in Int
    <3>1. watermarks[v] \in Windows /\ watermarks[Len(watermarks)] \in Windows
      BY <1>1, <2>1
    <3> QED BY <3>1 DEF Windows
  <2>3. v < Len(watermarks) => watermarks[v] < watermarks[Len(watermarks)]
    BY <1>1, <2>1 DEF WatermarkForward
  <2> QED BY <2>1, <2>2, <2>3
<1> QED BY <1>1, <1>2, StreamAssumption DEF Late, WatermarkTime, Windows

\* A step that leaves the store, or only moves the watermark forward.
LEMMA LedgerMarked ==
    ASSUME IInv, StoreType', Grow, UNCHANGED <<versions, journal, requests, revised>>,
           \/ watermarks' = watermarks
           \/ \E v \in Windows : /\ watermarks' = Append(watermarks, v)
                                 /\ watermarks = <<>> \/ v > watermarks[Len(watermarks)]
    PROVE  Ledger'
<1>1. /\ Ledger /\ watermarks \in Seq(Windows) /\ watermarks' \in Seq(Windows)
      /\ Len(watermarks') >= Len(watermarks) /\ StoreType
  BY DEF IInv, StoreType, Ledger, Grow
<1>2. CASE watermarks' = watermarks
  BY <1>1, <1>2 DEF Ledger, LogInv, WatermarkForward, FinalBehindWatermark, FinalOnlyRevised,
                    JournalMatchesWindows, Late, WatermarkTime
<1>3. ASSUME NEW v \in Windows, watermarks' = Append(watermarks, v),
             watermarks = <<>> \/ v > watermarks[Len(watermarks)]
      PROVE  Ledger'
  <2> DEFINE n == Len(watermarks)
  <2>1. /\ n \in Nat /\ Len(watermarks') = n + 1 /\ watermarks'[n + 1] = v
        /\ \A i \in 1 .. n : watermarks'[i] = watermarks[i] /\ watermarks[i] \in Windows
        /\ watermarks' # <<>> /\ DOMAIN watermarks' = 1 .. n + 1 /\ DOMAIN watermarks = 1 .. n
    BY <1>1, <1>3
  <2>2. \A i \in 1 .. n : watermarks[i] < v
    <3> SUFFICES ASSUME NEW i \in 1 .. n PROVE watermarks[i] < v
      OBVIOUS
    <3>1. n > 0 /\ n \in 1 .. n /\ watermarks # <<>> /\ i \in Int
      BY <1>1, <2>1
    <3>2. watermarks[i] \in Int /\ watermarks[n] \in Int /\ v \in Int
      BY <2>1, <3>1 DEF Windows
    <3>3. watermarks[n] < v
      BY <1>3, <3>1, <3>2
    <3>4. i < n => watermarks[i] < watermarks[n]
      BY <1>1, <2>1, <3>1 DEF Ledger, WatermarkForward
    <3>5. i = n \/ i < n
      <4> HIDE DEF n
      <4>1. i \in 1 .. n /\ n \in Nat
        BY <2>1
      <4> QED BY <4>1
    <3> HIDE DEF n
    <3> QED BY <3>2, <3>3, <3>4, <3>5
  <2>3. WatermarkForward'
    <3> SUFFICES ASSUME NEW i \in 1 .. n + 1, NEW j \in 1 .. n + 1, i < j
                 PROVE  watermarks'[i] < watermarks'[j]
      BY <2>1 DEF WatermarkForward
    <3>1. CASE j = n + 1
      BY <3>1, <2>1, <2>2
    <3>2. CASE j \in 1 .. n
      BY <3>2, <1>1, <2>1 DEF Ledger, WatermarkForward
    <3> QED BY <2>1, <3>1, <3>2
  <2>4. FinalBehindWatermark'
    <3> SUFFICES ASSUME NEW w \in Windows, NEW i \in DOMAIN versions[w],
                        versions[w][i].state = "finalized"
                 PROVE  w <= watermarks'[n + 1] - Lateness
      BY <2>1 DEF FinalBehindWatermark, Late, WatermarkTime
    <3>1. versions[w] # <<>>
      BY <1>1 DEF StoreType
    <3>2. n > 0 /\ w <= watermarks[n] - Lateness
      BY <1>1, <2>1, <3>1 DEF Ledger, LogInv, FinalBehindWatermark, Late, WatermarkTime
    <3>3. watermarks[n] < v /\ watermarks[n] \in Windows
      BY <2>1, <2>2, <3>2
    <3> QED BY <2>1, <3>2, <3>3, StreamAssumption DEF Windows
  <2>5. LogInv'
    <3>1. \A e \in Events : journal[e].wm \in Nat
      BY <1>1 DEF StoreType
    <3> QED BY <1>1, <2>1, <3>1 DEF Ledger, LogInv
  <2>6. FinalOnlyRevised' /\ JournalMatchesWindows'
    BY <1>1 DEF Ledger, FinalOnlyRevised, JournalMatchesWindows
  <2> QED BY <2>3, <2>4, <2>5, <2>6 DEF Ledger
<1> QED BY <1>2, <1>3

\* A step that only reads keeps the store invariants.
LEMMA LedgerRead ==
    ASSUME IInv, NEW s \in Workers, Reads(s), StoreType', Grow
    PROVE  Ledger'
<1>1. UNCHANGED store
  BY DEF Reads, EnsureWatermark, IngestSeek, IngestLock, IngestRow, IngestRedelivery,
       IngestConflict, AdvanceSeek, FinalizeSeek, FinalizeLock, FinalizeRead, FinalizeRow,
       ReplayRefused, Fetch, Crash, ReplayStart
<1> QED BY <1>1, LedgerMarked DEF store

\* A new watermark version keeps the store invariants.
LEMMA LedgerMarks ==
    ASSUME IInv, NEW s \in Workers, Marks(s), StoreType', Grow
    PROVE  Ledger'
<1>1. UNCHANGED <<versions, journal, requests, revised>>
  BY DEF Marks, BootstrapWatermark, Advance
<1>2. pc[s] # "idle" /\ Window(s) \in Windows /\ job[s].last \in Windows
  BY EventIn DEF Marks, BootstrapWatermark, Advance
<1>3. CASE BootstrapWatermark(s)
  <2>1. watermarks' = watermarks \/ (watermarks = <<>> /\ watermarks' = Append(watermarks, Window(s)))
    <3>1. watermarks' = watermarks \/ (watermarks = <<>> /\ watermarks' = <<Window(s)>>)
      BY <1>3 DEF BootstrapWatermark
    <3>2. <<Window(s)>> = Append(<<>>, Window(s))
      OBVIOUS
    <3> QED BY <3>1, <3>2
  <2> QED BY <1>1, <1>2, <2>1, LedgerMarked
<1>4. CASE Advance(s)
  <2>1. \/ watermarks' = watermarks
        \/ /\ watermarks' = Append(watermarks, job[s].last)
           /\ job[s].last > watermarks[Len(watermarks)]
    BY <1>4 DEF Advance
  <2> QED BY <1>1, <1>2, <2>1, LedgerMarked
<1> QED BY <1>3, <1>4 DEF Marks

\* Versions of windows that were there before the step are there after it.
LEMMA VersionsStay ==
    ASSUME IInv, StoreType', Grow, NEW w \in Windows
    PROVE  /\ DOMAIN versions[w] = 1 .. Len(versions[w]) /\ DOMAIN versions'[w] = 1 .. Len(versions'[w])
           /\ Len(versions[w]) \in Nat /\ Len(versions'[w]) \in Nat
           /\ \A i \in DOMAIN versions[w] : i \in DOMAIN versions'[w] /\ versions'[w][i] = versions[w][i]
<1>1. versions[w] \in Seq(Version) /\ versions'[w] \in Seq(Version)
  BY DEF IInv, StoreType
<1>2. /\ DOMAIN versions[w] = 1 .. Len(versions[w]) /\ DOMAIN versions'[w] = 1 .. Len(versions'[w])
      /\ Len(versions[w]) \in Nat /\ Len(versions'[w]) \in Nat
  BY <1>1
<1> QED BY <1>2 DEF Grow

\* An appended version.
LEMMA OneMore ==
    ASSUME IInv, NEW w \in Windows, NEW v \in Version, versions'[w] = Append(versions[w], v)
    PROVE  LET n == Len(versions[w])
           IN  /\ n \in Nat /\ Len(versions'[w]) = n + 1 /\ DOMAIN versions'[w] = 1 .. n + 1
               /\ versions'[w][n + 1] = v
               /\ \A i \in 1 .. n : versions'[w][i] = versions[w][i]
<1>1. versions[w] \in Seq(Version)
  BY DEF IInv, StoreType
<1> QED BY <1>1

\* A committed ingestion keeps the store invariants.
LEMMA LedgerIngested ==
    ASSUME IInv, NEW s \in Workers, IngestNew(s), StoreType', Grow
    PROVE  Ledger'
<1> DEFINE w == Window(s)
           e == Event(s)
           n == Len(versions[w])
           new == [payload |-> e[2], state |-> "provisional"]
<1>1. /\ Ledger /\ StoreType /\ e \in Events /\ w \in Windows /\ e = <<w, e[2]>>
  <2>1. pc[s] # "idle"
    BY DEF IngestNew
  <2>2. Event(s) \in Events /\ Window(s) \in Windows
    BY <2>1, EventIn
  <2> QED BY <2>2 DEF IInv, Ledger, Event, Events
<1>2. /\ UNCHANGED <<watermarks, requests, revised>> /\ journal[e].seen = 0
      /\ journal' = [journal EXCEPT ![e] = Decision(s)]
  BY DEF IngestNew
<1>3. /\ Decision(s) \in [seen : 1 .. MaxPolls, wm : 1 .. Len(watermarks), existing : Nat,
                          disposition : Dispositions]
      /\ new \in Version /\ n \in Nat
      /\ \A x \in Windows \ {w} : versions'[x] = versions[x]
      /\ \/ Decision(s).disposition # "accepted" /\ versions' = versions
         \/ /\ Decision(s).disposition = "accepted"
            /\ versions'[w] = Append(versions[w], new)
            /\ Decision(s).existing = n
            /\ n > 0 => versions[w][n].state = "provisional"
  BY IngestNewWrites
<1>4. /\ journal'[e] = Decision(s)
      /\ \A f \in Events \ {e} : journal'[f] = journal[f]
      /\ journal[e].disposition = "none" /\ e \notin requests /\ revised \subseteq requests
  <2>1. journal'[e] = Decision(s) /\ \A f \in Events \ {e} : journal'[f] = journal[f]
    BY <1>1, <1>2 DEF StoreType
  <2>2. journal[e].disposition = "none"
    BY <1>1, <1>2 DEF Ledger, LogInv
  <2> QED BY <1>1, <2>1, <2>2 DEF Ledger, LogInv, StoreType
<1>5. \/ versions' = versions /\ Decision(s).disposition # "accepted"
      \/ /\ Decision(s).disposition = "accepted" /\ Decision(s).existing = n
         /\ Len(versions'[w]) = n + 1 /\ DOMAIN versions'[w] = 1 .. n + 1
         /\ versions'[w][n + 1] = new /\ \A i \in 1 .. n : versions'[w][i] = versions[w][i]
         /\ n > 0 => versions[w][n].state = "provisional"
  BY <1>1, <1>3, OneMore
<1>6. \A x \in Windows : \A i \in DOMAIN versions'[x] :
        \/ i \in DOMAIN versions[x] /\ versions'[x][i] = versions[x][i]
        \/ x = w /\ i = n + 1 /\ versions'[x][i] = new /\ Decision(s).disposition = "accepted"
           /\ Decision(s).existing = n /\ (n > 0 => versions[w][n].state = "provisional")
  <2> SUFFICES ASSUME NEW x \in Windows, NEW i \in DOMAIN versions'[x]
               PROVE  \/ i \in DOMAIN versions[x] /\ versions'[x][i] = versions[x][i]
                      \/ x = w /\ i = n + 1 /\ versions'[x][i] = new /\ Decision(s).disposition = "accepted"
                         /\ Decision(s).existing = n /\ (n > 0 => versions[w][n].state = "provisional")
    OBVIOUS
  <2>1. DOMAIN versions[w] = 1 .. n
    BY <1>1, VersionsStay
  <2>2. CASE x # w
    BY <1>3, <2>2
  <2>3. CASE x = w
    <3> HIDE DEF n, w, new
    <3> QED BY <1>3, <1>5, <2>1, <2>3
  <2> QED BY <2>2, <2>3
<1> HIDE DEF n, w, new, e
<1>7. WatermarkForward'
  BY <1>1, <1>2 DEF Ledger, WatermarkForward
<1>8. FinalBehindWatermark'
  BY <1>1, <1>2, <1>6 DEF Ledger, FinalBehindWatermark, Late, WatermarkTime, new
<1>9. FinalOnlyRevised'
  <2> SUFFICES ASSUME NEW x \in Windows, NEW i \in 2 .. Len(versions'[x]),
                      versions'[x][i - 1].state = "finalized"
               PROVE  /\ versions'[x][i].state = "finalized"
                      /\ <<x, versions'[x][i].payload>> \in revised'
    BY DEF FinalOnlyRevised
  <2>1. /\ i \in DOMAIN versions'[x] /\ i - 1 \in DOMAIN versions'[x]
        /\ DOMAIN versions[x] = 1 .. Len(versions[x]) /\ Len(versions[x]) \in Nat
    BY VersionsStay
  <2>2. i - 1 \in DOMAIN versions[x] /\ versions[x][i - 1].state = "finalized"
    BY <1>6, <2>1 DEF new
  <2>3. i \in DOMAIN versions[x] /\ versions'[x][i] = versions[x][i]
    <3>1. n + 1 = i /\ x = w => n = i - 1 /\ n > 0
      BY <1>3
    <3> QED BY <1>6, <2>1, <2>2, <3>1
  <2>4. i \in 2 .. Len(versions[x])
    BY <2>1, <2>3
  <2> QED BY <1>1, <1>2, <2>2, <2>3, <2>4 DEF Ledger, FinalOnlyRevised
<1>10. JournalMatchesWindows'
  <2>1. ASSUME NEW f \in Events, journal'[f].disposition = "accepted"
        PROVE  /\ journal'[f].existing + 1 \in DOMAIN versions'[f[1]]
               /\ versions'[f[1]][journal'[f].existing + 1] = [payload |-> f[2], state |-> "provisional"]
    <3>1. CASE f = e
      <4>1. f[1] = w /\ f[2] = e[2]
        BY <3>1, <1>1
      <4>2. /\ journal'[f].existing = n /\ DOMAIN versions'[w] = 1 .. n + 1
            /\ versions'[w][n + 1] = new
        BY <1>4, <1>5, <2>1, <3>1
      <4> QED BY <1>3, <4>1, <4>2 DEF new
    <3>2. CASE f # e
      <4>1. /\ journal'[f] = journal[f] /\ f[1] \in Windows
            /\ journal[f].existing + 1 \in DOMAIN versions[f[1]]
            /\ versions[f[1]][journal[f].existing + 1] = [payload |-> f[2], state |-> "provisional"]
        BY <1>1, <1>4, <2>1, <3>2 DEF Ledger, JournalMatchesWindows, Events
      <4> QED BY <4>1, VersionsStay
    <3> QED BY <3>1, <3>2
  <2>2. ASSUME NEW x \in Windows, NEW i \in DOMAIN versions'[x],
               versions'[x][i].state = "provisional"
        PROVE  /\ journal'[<<x, versions'[x][i].payload>>].disposition = "accepted"
               /\ journal'[<<x, versions'[x][i].payload>>].existing = i - 1
    <3>1. CASE i \in DOMAIN versions[x] /\ versions'[x][i] = versions[x][i]
      <4> DEFINE f == <<x, versions[x][i].payload>>
      <4>1. journal[f].disposition = "accepted" /\ journal[f].existing = i - 1
        BY <1>1, <2>2, <3>1 DEF Ledger, JournalMatchesWindows
      <4>2. f \in Events
        <5>1. versions[x][i] \in Version
          BY <1>1, <3>1 DEF StoreType
        <5> QED BY <5>1 DEF Events, Version
      <4>3. journal'[f] = journal[f]
        BY <1>4, <4>1, <4>2
      <4> QED BY <3>1, <4>1, <4>3
    <3>2. CASE x = w /\ i = n + 1 /\ versions'[x][i] = new /\ Decision(s).disposition = "accepted"
               /\ Decision(s).existing = n
      <4>1. <<x, versions'[x][i].payload>> = e
        BY <3>2, <1>1 DEF new
      <4> QED BY <1>3, <1>4, <3>2, <4>1
    <3> QED BY <1>6, <3>1, <3>2
  <2> QED BY <2>1, <2>2 DEF JournalMatchesWindows
<1>11. LogInv'
  <2>1. ASSUME NEW f \in Events
        PROVE  /\ journal'[f].wm <= Len(watermarks')
               /\ journal'[f].disposition # "none" => journal'[f].seen > 0 /\ journal'[f].wm > 0
               /\ f \in requests' => journal'[f].disposition = "revision_required"
    <3>1. CASE f = e
      <4>1. journal'[f].wm \in 1 .. Len(watermarks) /\ journal'[f].seen \in 1 .. MaxPolls
        BY <1>3, <1>4, <3>1
      <4>2. Len(watermarks) \in Nat
        BY <1>1 DEF StoreType
      <4> QED BY <1>2, <1>4, <3>1, <4>1, <4>2, StreamAssumption
    <3>2. CASE f # e
      BY <1>1, <1>2, <1>4, <3>2 DEF Ledger, LogInv
    <3> QED BY <3>1, <3>2
  <2>2. ASSUME NEW f \in revised'
        PROVE  /\ journal'[f].existing + 1 \in DOMAIN versions'[f[1]]
               /\ versions'[f[1]][journal'[f].existing + 1].payload = f[2]
    <3>1. f \in Events /\ f # e /\ f[1] \in Windows /\ f \in revised
      BY <1>1, <1>2, <1>4 DEF StoreType, Events
    <3>2. /\ journal'[f] = journal[f]
          /\ journal[f].existing + 1 \in DOMAIN versions[f[1]]
          /\ versions[f[1]][journal[f].existing + 1].payload = f[2]
      BY <1>1, <1>4, <3>1 DEF Ledger, LogInv
    <3> QED BY <3>1, <3>2, VersionsStay
  <2>3. watermarks' # <<>>
    BY <1>2 DEF IngestNew, IInv, JobInv, Started, Ingesting
  <2> QED BY <2>1, <2>2, <2>3 DEF LogInv
<1> QED BY <1>7, <1>8, <1>9, <1>10, <1>11 DEF Ledger

\* Finalized versions are appended behind the watermark, and one that follows
\* a finalized version belongs to a revision.
LEMMA LedgerFinal ==
    ASSUME IInv, StoreType', Grow, UNCHANGED <<watermarks, journal, requests>>,
           revised \subseteq revised', watermarks # <<>>,
           \A x \in Windows :
              \/ versions'[x] = versions[x]
              \/ \E v \in Version :
                   /\ versions'[x] = Append(versions[x], v) /\ v.state = "finalized"
                   /\ Late(x, Len(watermarks))
                   /\ Len(versions[x]) > 0 /\ versions[x][Len(versions[x])].state = "finalized"
                        => <<x, v.payload>> \in revised',
           \A e \in revised' \ revised :
              /\ journal[e].existing + 1 \in DOMAIN versions'[e[1]]
              /\ versions'[e[1]][journal[e].existing + 1].payload = e[2]
    PROVE  Ledger'
<1>1. Ledger /\ StoreType
  BY DEF IInv, Ledger
<1>2. ASSUME NEW x \in Windows, NEW i \in DOMAIN versions'[x]
      PROVE  \/ i \in DOMAIN versions[x] /\ versions'[x][i] = versions[x][i]
             \/ /\ i = Len(versions[x]) + 1 /\ versions'[x][i].state = "finalized"
                /\ Late(x, Len(watermarks))
                /\ Len(versions[x]) > 0 /\ versions[x][Len(versions[x])].state = "finalized"
                     => <<x, versions'[x][i].payload>> \in revised'
  <2>1. CASE versions'[x] = versions[x]
    BY <2>1
  <2>2. CASE versions'[x] # versions[x]
    <3>a. PICK v \in Version :
            /\ versions'[x] = Append(versions[x], v) /\ v.state = "finalized"
            /\ Late(x, Len(watermarks))
            /\ Len(versions[x]) > 0 /\ versions[x][Len(versions[x])].state = "finalized"
                 => <<x, v.payload>> \in revised'
      BY <2>2
    <3> DEFINE n == Len(versions[x])
    <3>1. /\ n \in Nat /\ DOMAIN versions'[x] = 1 .. n + 1 /\ versions'[x][n + 1] = v
          /\ \A k \in 1 .. n : versions'[x][k] = versions[x][k]
      BY <3>a, OneMore
    <3>2. DOMAIN versions[x] = 1 .. n
      BY VersionsStay
    <3> HIDE DEF n
    <3>3. i = n + 1 \/ i \in 1 .. n
      BY <3>1
    <3> QED BY <3>a, <3>1, <3>2, <3>3 DEF n
  <2> QED BY <2>1, <2>2
<1>3. WatermarkForward'
  BY <1>1 DEF Ledger, WatermarkForward
<1>4. FinalBehindWatermark'
  BY <1>1, <1>2 DEF Ledger, FinalBehindWatermark, Late, WatermarkTime
<1>5. FinalOnlyRevised'
  <2> SUFFICES ASSUME NEW x \in Windows, NEW i \in 2 .. Len(versions'[x]),
                      versions'[x][i - 1].state = "finalized"
               PROVE  /\ versions'[x][i].state = "finalized"
                      /\ <<x, versions'[x][i].payload>> \in revised'
    BY DEF FinalOnlyRevised
  <2>1. /\ i \in DOMAIN versions'[x] /\ i - 1 \in DOMAIN versions'[x]
        /\ DOMAIN versions[x] = 1 .. Len(versions[x]) /\ Len(versions[x]) \in Nat
        /\ \A k \in DOMAIN versions[x] : versions'[x][k] = versions[x][k]
    BY VersionsStay
  <2>2. CASE i \in DOMAIN versions[x] /\ versions'[x][i] = versions[x][i]
    <3>1. i \in 2 .. Len(versions[x]) /\ i - 1 \in DOMAIN versions[x]
      BY <2>1, <2>2
    <3> QED BY <1>1, <2>1, <2>2, <3>1 DEF Ledger, FinalOnlyRevised
  <2>3. CASE /\ i = Len(versions[x]) + 1 /\ versions'[x][i].state = "finalized"
             /\ Len(versions[x]) > 0 /\ versions[x][Len(versions[x])].state = "finalized"
                  => <<x, versions'[x][i].payload>> \in revised'
    <3>1. Len(versions[x]) > 0 /\ i - 1 = Len(versions[x]) /\ i - 1 \in DOMAIN versions[x]
      BY <2>1, <2>3
    <3> QED BY <2>1, <2>3, <3>1
  <2> QED BY <1>2, <2>1, <2>2, <2>3
<1>6. JournalMatchesWindows'
  <2>1. ASSUME NEW f \in Events, journal[f].disposition = "accepted"
        PROVE  /\ journal[f].existing + 1 \in DOMAIN versions'[f[1]]
               /\ versions'[f[1]][journal[f].existing + 1] = [payload |-> f[2], state |-> "provisional"]
    <3>1. /\ f[1] \in Windows
          /\ journal[f].existing + 1 \in DOMAIN versions[f[1]]
          /\ versions[f[1]][journal[f].existing + 1] = [payload |-> f[2], state |-> "provisional"]
      BY <1>1, <2>1 DEF Ledger, JournalMatchesWindows, Events
    <3> QED BY <3>1, VersionsStay
  <2>2. ASSUME NEW x \in Windows, NEW i \in DOMAIN versions'[x],
               versions'[x][i].state = "provisional"
        PROVE  /\ journal[<<x, versions'[x][i].payload>>].disposition = "accepted"
               /\ journal[<<x, versions'[x][i].payload>>].existing = i - 1
    <3>1. i \in DOMAIN versions[x] /\ versions'[x][i] = versions[x][i]
      BY <1>2, <2>2
    <3> QED BY <1>1, <2>2, <3>1 DEF Ledger, JournalMatchesWindows
  <2> QED BY <2>1, <2>2 DEF JournalMatchesWindows
<1>7. LogInv'
  <2>1. ASSUME NEW f \in revised'
        PROVE  /\ journal[f].existing + 1 \in DOMAIN versions'[f[1]]
               /\ versions'[f[1]][journal[f].existing + 1].payload = f[2]
    <3>1. CASE f \in revised
      <4>1. /\ f[1] \in Windows
            /\ journal[f].existing + 1 \in DOMAIN versions[f[1]]
            /\ versions[f[1]][journal[f].existing + 1].payload = f[2]
        BY <1>1, <3>1 DEF Ledger, LogInv, StoreType, Events
      <4> QED BY <4>1, VersionsStay
    <3>2. CASE f \in revised' \ revised
      BY <3>2
    <3> QED BY <2>1, <3>1, <3>2
  <2> QED BY <1>1, <2>1 DEF Ledger, LogInv
<1> QED BY <1>3, <1>4, <1>5, <1>6, <1>7 DEF Ledger

\* A committed finalization keeps the store invariants.
LEMMA LedgerFinalized ==
    ASSUME IInv, NEW s \in Workers, FinalizeCommit(s), StoreType', Grow
    PROVE  Ledger'
<1>1. /\ UNCHANGED <<watermarks, journal, requests>> /\ revised' = revised
      /\ watermarks # <<>> /\ tx[s].wm \in 1 .. Len(watermarks)
  <2>1. pc[s] \in Finalizing /\ pc[s] \in Started /\ JobInv(s) /\ tx[s] \in Txs
        /\ watermarks \in Seq(Windows)
    BY DEF FinalizeCommit, Finalizing, Started, IInv, WorkerType, StoreType
  <2>2. tx[s].wm \in Nat /\ tx[s].wm > 0 /\ tx[s].wm <= Len(watermarks) /\ watermarks # <<>>
    BY <2>1 DEF JobInv, Txs
  <2> QED BY <2>1, <2>2 DEF FinalizeCommit
<1>2. ASSUME NEW x \in Windows
      PROVE  \/ versions'[x] = versions[x]
             \/ \E v \in Version :
                  /\ versions'[x] = Append(versions[x], v) /\ v.state = "finalized"
                  /\ Late(x, Len(watermarks))
                  /\ Len(versions[x]) > 0 /\ versions[x][Len(versions[x])].state = "finalized"
                       => <<x, v.payload>> \in revised'
  <2> DEFINE n == Len(versions[x])
             new == [versions[x][n] EXCEPT !.state = "finalized"]
  <2>1. \/ versions'[x] = versions[x]
        \/ /\ Late(x, tx[s].wm) /\ versions[x][n].state = "provisional"
           /\ new \in Version /\ new.state = "finalized" /\ versions'[x] = Append(versions[x], new)
    BY FinalizeCommitWrites
  <2>2. Late(x, tx[s].wm) => Late(x, Len(watermarks))
    BY <1>1, LateStays
  <2> HIDE DEF new
  <2> QED BY <2>1, <2>2
<1> QED BY <1>1, <1>2, LedgerFinal

\* A committed replay keeps the store invariants.
LEMMA LedgerReplayed ==
    ASSUME IInv, NEW s \in Workers, ReplayCommit(s), StoreType', Grow
    PROVE  Ledger'
<1> DEFINE w == Window(s)
           e == Event(s)
           new == [payload |-> e[2], state |-> "finalized"]
           n == Len(versions[w])
<1>1. /\ e \in requests /\ e \in Events /\ w \in Windows /\ e = <<w, e[2]>> /\ new \in Version
      /\ versions'[w] = Append(versions[w], new)
      /\ \A x \in Windows \ {w} : versions'[x] = versions[x]
      /\ journal[e].existing = n /\ Late(w, journal[e].wm)
  BY ReplayCommitWrites
<1>2. UNCHANGED <<watermarks, journal, requests>> /\ revised' = revised \cup {e}
  BY DEF ReplayCommit
<1>3. watermarks # <<>> /\ Late(w, Len(watermarks))
  <2>1. /\ journal[e].wm \in Nat /\ journal[e].wm <= Len(watermarks)
        /\ journal[e].disposition = "revision_required" /\ watermarks \in Seq(Windows)
    BY <1>1 DEF IInv, StoreType, LogInv
  <2>2. journal[e].wm > 0
    BY <1>1, <2>1 DEF IInv, LogInv
  <2>3. journal[e].wm \in 1 .. Len(watermarks) /\ watermarks # <<>>
    BY <2>1, <2>2
  <2> QED BY <1>1, <2>3, LateStays
<1>4. /\ n \in Nat /\ DOMAIN versions'[w] = 1 .. n + 1 /\ versions'[w][n + 1] = new
  BY <1>1, OneMore
<1>5. new.state = "finalized" /\ new.payload = e[2]
  OBVIOUS
<1>6. \A x \in Windows :
        \/ versions'[x] = versions[x]
        \/ \E v \in Version :
             /\ versions'[x] = Append(versions[x], v) /\ v.state = "finalized"
             /\ Late(x, Len(watermarks))
             /\ Len(versions[x]) > 0 /\ versions[x][Len(versions[x])].state = "finalized"
                  => <<x, v.payload>> \in revised'
  <2> HIDE DEF new, w, e
  <2> QED BY <1>1, <1>2, <1>3, <1>5
<1>7. \A f \in revised' \ revised :
        /\ journal[f].existing + 1 \in DOMAIN versions'[f[1]]
        /\ versions'[f[1]][journal[f].existing + 1].payload = f[2]
  <2>1. \A f \in revised' \ revised : f = e
    BY <1>2
  <2>2. e[1] = w
    BY <1>1
  <2> HIDE DEF new, w, e, n
  <2> QED BY <1>1, <1>4, <1>5, <2>1, <2>2
<1> QED BY <1>2, <1>3, <1>6, <1>7, LedgerFinal

\* A replay request changes nothing else.
LEMMA RequestKept ==
    ASSUME IInv, NEW e \in Events, EnqueueReplay(e)
    PROVE  IInv'
<1>1. StoreType' /\ Grow
  BY DEF EnqueueReplay, IInv, StoreType, Grow
<1>2. UNCHANGED <<watermarks, versions, journal, revised, pc, job, tx, held, outcome>>
      /\ requests' = requests \cup {e} /\ journal[e].disposition = "revision_required"
  BY DEF EnqueueReplay
<1>3. WorkerType' /\ LocksExclusive'
  BY <1>2 DEF IInv, WorkerType, LocksExclusive
<1>4. ASSUME NEW o \in Workers PROVE JobInv(o)' /\ StageInv(o)'
  BY <1>1, <1>2, OtherWorker DEF Same
<1>5. LogInv'
  BY <1>2 DEF IInv, LogInv
<1>6. /\ WatermarkForward' /\ FinalBehindWatermark' /\ FinalOnlyRevised'
      /\ JournalMatchesWindows'
  BY <1>2 DEF IInv, WatermarkForward, FinalBehindWatermark, FinalOnlyRevised,
              JournalMatchesWindows, Late, WatermarkTime
<1> QED BY <1>1, <1>3, <1>4, <1>5, <1>6 DEF IInv

-----------------------------------------------------------------------------
\* The invariant is inductive.
LEMMA NextInv == IInv /\ [Next]_vars => IInv'
<1> SUFFICES ASSUME IInv, [Next]_vars PROVE IInv'
  OBVIOUS
<1>1. ASSUME NEW s \in Workers, Reads(s) \/ Marks(s) \/ Writes(s) PROVE IInv'
  <2>1. /\ StoreType' /\ Grow /\ WorkerType' /\ LocksExclusive'
        /\ \A o \in Workers : JobInv(o)' /\ StageInv(o)'
    BY <1>1, WorkersKept
  <2>2. Ledger'
    <3>1. CASE Reads(s)
      BY <2>1, <3>1, LedgerRead
    <3>2. CASE Marks(s)
      BY <2>1, <3>2, LedgerMarks
    <3>3. CASE Writes(s)
      <4>1. CASE IngestNew(s)
        BY <2>1, <4>1, LedgerIngested
      <4>2. CASE FinalizeCommit(s)
        BY <2>1, <4>2, LedgerFinalized
      <4>3. CASE ReplayCommit(s)
        BY <2>1, <4>3, LedgerReplayed
      <4> QED BY <3>3, <4>1, <4>2, <4>3 DEF Writes
    <3> QED BY <1>1, <3>1, <3>2, <3>3
  <2> QED BY <2>1, <2>2 DEF IInv, Ledger
<1>2. CASE \E s \in Workers : Step(s) \/ Fetch(s) \/ Crash(s)
  BY <1>1, <1>2 DEF Step, Reads, Marks, Writes
<1>3. CASE \E s \in Workers, e \in Events : ReplayStart(s, e)
  BY <1>1, <1>3 DEF Reads
<1>4. CASE \E e \in Events : EnqueueReplay(e)
  BY <1>4, RequestKept
<1>5. CASE UNCHANGED vars
  <2>1. UNCHANGED <<watermarks, versions, journal, requests, revised, polls, pc, job, tx, held, outcome>>
    BY <1>5 DEF vars, store
  <2>2. StoreType' /\ Grow
    BY <2>1 DEF IInv, StoreType, Grow
  <2>3. WorkerType' /\ LocksExclusive'
    BY <2>1 DEF IInv, WorkerType, LocksExclusive
  <2>4. ASSUME NEW o \in Workers PROVE JobInv(o)' /\ StageInv(o)'
    BY <2>1, <2>2, OtherWorker DEF Same
  <2>5. LogInv'
    BY <2>1 DEF IInv, LogInv
  <2>6. /\ WatermarkForward' /\ FinalBehindWatermark' /\ FinalOnlyRevised'
        /\ JournalMatchesWindows'
    BY <2>1 DEF IInv, WatermarkForward, FinalBehindWatermark, FinalOnlyRevised,
                JournalMatchesWindows, Late, WatermarkTime
  <2> QED BY <2>2, <2>3, <2>4, <2>5, <2>6 DEF IInv
<1> QED BY <1>2, <1>3, <1>4, <1>5 DEF Next

\* The inductive invariant always holds.
LEMMA Inductive == Spec => []IInv
<1>1. Init => IInv
  BY InitInv
<1>2. IInv /\ [Next]_vars => IInv'
  BY NextInv
<1> QED BY <1>1, <1>2, PTL DEF Spec

-----------------------------------------------------------------------------
\* Every variable keeps its type, a transaction reads versions that exist and
\* a job stands at one of its candles.
THEOREM StreamTypeCorrect == Spec => []TypeOK
<1>1. IInv => TypeOK
  <2> SUFFICES ASSUME IInv PROVE TypeOK
    OBVIOUS
  <2>1. journal \in [Events -> [seen : 0 .. MaxPolls, wm : 0 .. Len(watermarks),
                                existing : Nat, disposition : Dispositions]]
    <3>1. \A e \in Events : journal[e] \in [seen : 0 .. MaxPolls, wm : 0 .. Len(watermarks),
                                            existing : Nat, disposition : Dispositions]
      BY DEF IInv, StoreType, LogInv
    <3> QED BY <3>1 DEF IInv, StoreType
  <2>2. ASSUME NEW s \in Workers
        PROVE  /\ pc[s] # "idle" => Window(s) \in DOMAIN job[s].candles
               /\ job[s].last \in 0 .. MaxWindow
               /\ tx[s].wm \in 0 .. Len(watermarks)
               /\ tx[s].todo \cup tx[s].staged \subseteq Windows
    <3>1. JobInv(s) /\ job[s] \in Jobs /\ tx[s] \in Txs /\ Len(watermarks) \in Nat
      BY DEF IInv, WorkerType, StoreType
    <3> QED BY <3>1 DEF JobInv, Jobs, Txs, Window
  <2> QED BY <2>1, <2>2 DEF TypeOK, IInv, StoreType
<1> QED BY <1>1, Inductive, PTL

\* The watermark of a stream only moves forward, whatever version of it the
\* workers read before they advance it.
THEOREM WatermarkMonotonic == Spec => []WatermarkForward
<1>1. IInv => WatermarkForward
  BY DEF IInv
<1> QED BY <1>1, Inductive, PTL

\* No window is final before the watermark has passed it.
THEOREM FinalIsBehindWatermark == Spec => []FinalBehindWatermark
<1>1. IInv => FinalBehindWatermark
  BY DEF IInv
<1> QED BY <1>1, Inductive, PTL

\* A finalized window stays final, and only a replay changes its content.
THEOREM FinalIsImmutable == Spec => []FinalOnlyRevised
<1>1. IInv => FinalOnlyRevised
  BY DEF IInv
<1> QED BY <1>1, Inductive, PTL

\* The journal of decisions and the versions of the windows agree.
THEOREM JournalIsTruthful == Spec => []JournalMatchesWindows
<1>1. IInv => JournalMatchesWindows
  BY DEF IInv
<1> QED BY <1>1, Inductive, PTL

\* At most one of the decisions made on one version of a window is replayed.
THEOREM RevisionsDoNotCollide == Spec => []OneRevisionPerSource
<1>1. IInv => OneRevisionPerSource
  <2> SUFFICES ASSUME IInv, NEW e \in revised, NEW f \in revised, e[1] = f[1],
                      journal[e].existing = journal[f].existing
               PROVE  e = f
    BY DEF OneRevisionPerSource
  <2>1. e[2] = f[2]
    BY DEF IInv, LogInv
  <2>2. e \in Events /\ f \in Events
    BY DEF IInv, StoreType
  <2> QED BY <2>1, <2>2 DEF Events
<1> QED BY <1>1, Inductive, PTL
=============================================================================
