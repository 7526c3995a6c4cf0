-------------------------- MODULE WatchlistSchedule --------------------------
(***************************************************************************)
(* The schedule of one watchlist entry: it is created, paused and resumed  *)
(* by operators while scheduler processes turn due slots into poll jobs    *)
(* (db/market_data_polling.py, market_data/polling.py).                    *)
(*                                                                         *)
(* A row keeps the entry twice: in columns, which the scheduler selects    *)
(* by, and as a JSON document, which everything is read from.  An operator *)
(* reads the clock and the row, which it does not lock, in statements of   *)
(* their own.  A flush writes those columns that differ from what the      *)
(* session has loaded, and always the whole document.                      *)
(***************************************************************************)
EXTENDS Integers

CONSTANTS
    Scheduler, Operator,    \* processes
    NoEntry, NoCall,
    Interval,               \* polling_interval_seconds
    MaxTime, MaxCalls       \* bounds: the clock and the operators' calls

NoTime == -1
Entry == [state : {"active", "paused"}, next : Nat, last : Nat \cup {NoTime},
          created : Nat, updated : Nat]

ASSUME ScheduleAssumption ==
    /\ Interval \in Nat \ {0} /\ MaxTime \in Nat /\ MaxCalls \in Nat
    /\ Scheduler \cap Operator = {} /\ NoCall \notin Scheduler
    /\ NoEntry \notin [column : Entry, document : Entry]

VARIABLES
    now,
    row,        \* [column, document], each with the fields of an entry, or NoEntry
    locker,     \* the scheduler that holds the row's lock, or NoCall
    session,    \* a scheduler's [at, loaded, entry], an operator's
                \* [step, began, loaded, entry], or NoCall
    jobs,       \* slot -> the poll job enqueued for it
    calls,      \* operators' calls so far
    overlapped  \* some operator's flush met another row than the call began with

scheduleVars == <<now, row, locker, session, jobs, calls, overlapped>>

Slots == 0 .. MaxTime + Interval
NoJob == [status |-> "none", at |-> NoTime]
Loaded(s) == session[s].loaded

ScheduleInit ==
    /\ now = 0 /\ row = NoEntry /\ locker = NoCall /\ calls = 0 /\ overlapped = FALSE
    /\ session = [s \in Scheduler \cup Operator |-> NoCall]
    /\ jobs = [t \in Slots |-> NoJob]

ScheduleTick == now < MaxTime /\ now' = now + 1 /\ UNCHANGED <<row, locker, session, jobs, calls, overlapped>>

-----------------------------------------------------------------------------
(* The entry *)

\* MarketDataWatchlistEntry.build
Built(at) == [state |-> "active", next |-> at, last |-> NoTime, created |-> at, updated |-> at]

\* validate_entry, as far as it is about the schedule
EntryValid(e) ==
    /\ e.updated >= e.created /\ e.next >= e.created
    /\ e.last # NoTime => e.last >= e.created

\* Mutant of FirstAfter: a scheduler that was down catches up slot by slot.
FirstAfterSlot(slot, at) == slot + Interval

\* mark_enqueued: the slot is the time that was due, the next one the first after the clock
FirstAfter(slot, at) ==
    LET missed == IF at < slot THEN 0 ELSE (at - slot) \div Interval + 1
    IN slot + missed * Interval
Enqueued(e, at) == [e EXCEPT !.next = FirstAfter(e.next, at), !.last = e.next, !.updated = at]

\* stage, and the flush of what it has changed in the row that was loaded
Flushed(loaded, entry) ==
    [column |-> [f \in DOMAIN entry |->
                    IF entry[f] = loaded.column[f] THEN row.column[f] ELSE entry[f]],
     document |-> entry]

\* The table's CHECK constraints on the schedule
Admitted(r) == r.column.updated >= r.column.created /\ r.column.next >= r.column.created

-----------------------------------------------------------------------------
(* Operators: step names what the call does next, began is the row when it *)
(* began.  The row that pause and resume have read is not kept: stage      *)
(* reads it again, as create does.                                         *)

Proceed(o, step, began, loaded, entry) ==
    /\ session' = [session EXCEPT ![o] = [step |-> step, began |-> began, loaded |-> loaded,
                                         entry |-> entry]]
    /\ UNCHANGED <<now, row, locker, jobs, overlapped>>

Call(o, step, entry) ==
    /\ session[o] = NoCall /\ calls < MaxCalls
    /\ calls' = calls + 1
    /\ Proceed(o, step, row, NoEntry, entry)

\* A stream that has an entry already is given a new one in the same row.
Create(o) == Call(o, "row", Built(now))

Pause(o) ==
    /\ row # NoEntry /\ row.document.state # "paused"
    /\ Call(o, "clock", [row.document EXCEPT !.state = "paused"])

Resume(o) ==
    /\ row # NoEntry /\ row.document.state # "active"
    /\ Call(o, "clock", [row.document EXCEPT !.state = "active"])

\* _set_state: the entry it has read changes state now, and a resumed one is due.
Changed(entry) ==
    [entry EXCEPT !.updated = now, !.next = IF entry.state = "active" THEN now ELSE @]

ReadClock(o) ==
    /\ session[o] # NoCall /\ session[o].step = "clock"
    /\ Proceed(o, "row", session[o].began, NoEntry, Changed(session[o].entry))
    /\ UNCHANGED calls

ReadRow(o) ==
    /\ session[o] # NoCall /\ session[o].step = "row"
    /\ Proceed(o, "flush", session[o].began, row, session[o].entry)
    /\ UNCHANGED calls

Written(o) ==
    IF Loaded(o) = NoEntry
    THEN [column |-> session[o].entry, document |-> session[o].entry]
    ELSE Flushed(Loaded(o), session[o].entry)

\* save: the flush waits for a scheduler's lock; a second insert or a broken
\* CHECK ends the call without a change.
SaveEntry(o) ==
    /\ session[o] # NoCall /\ session[o].step = "flush" /\ locker = NoCall
    /\ IF (Loaded(o) = NoEntry /\ row # NoEntry) \/ ~Admitted(Written(o))
       THEN UNCHANGED <<row, overlapped>>
       ELSE /\ row' = Written(o)
            /\ overlapped' = (overlapped \/ row # session[o].began \/ row # Loaded(o))
    /\ session' = [session EXCEPT ![o] = NoCall]
    /\ UNCHANGED <<now, locker, jobs, calls>>

-----------------------------------------------------------------------------
(* Schedulers: enqueue_due *)

\* list_due FOR UPDATE SKIP LOCKED; the clock was read before
SelectDue(s) ==
    /\ session[s] = NoCall /\ row # NoEntry /\ locker = NoCall
    /\ \E at \in 0 .. now :
        /\ row.column.state = "active" /\ row.column.next <= at
        /\ session' = [session EXCEPT ![s] =
                         [at |-> at, loaded |-> row, entry |-> Enqueued(row.document, at)]]
    /\ locker' = s
    /\ UNCHANGED <<now, row, jobs, calls, overlapped>>

\* The job of the slot, unless it has one already, and the advanced entry
Enqueue(s) ==
    /\ session[s] # NoCall /\ EntryValid(session[s].entry)
    /\ LET slot == session[s].entry.last
       IN jobs' = IF jobs[slot] # NoJob THEN jobs
                  ELSE [jobs EXCEPT ![slot] = [status |-> "queued", at |-> session[s].at]]
    /\ row' = Flushed(Loaded(s), session[s].entry)
    /\ locker' = NoCall /\ session' = [session EXCEPT ![s] = NoCall]
    /\ UNCHANGED <<now, calls, overlapped>>

\* An error or a crash rolls both back.
AbortEnqueue(s) ==
    /\ session[s] # NoCall
    /\ locker' = NoCall /\ session' = [session EXCEPT ![s] = NoCall]
    /\ UNCHANGED <<now, row, jobs, calls, overlapped>>

-----------------------------------------------------------------------------
(* Workers *)

\* The refusals of the poll runner before it tries a route; none is retried.
Verdict(slot) ==
    CASE row.document.state # "active" -> "watchlist_not_active"
      [] row.document.last = NoTime \/ slot < row.document.created
         \/ slot > row.document.last -> "poll_schedule_invalid"
      [] OTHER -> "polled"

Poll(slot) ==
    /\ jobs[slot].status = "queued"
    /\ jobs' = [jobs EXCEPT ![slot].status = Verdict(slot)]
    /\ UNCHANGED <<now, row, locker, session, calls, overlapped>>

ScheduleNext ==
    \/ ScheduleTick
    \/ \E o \in Operator : Create(o) \/ Pause(o) \/ Resume(o) \/ ReadClock(o)
                          \/ ReadRow(o) \/ SaveEntry(o)
    \/ \E s \in Scheduler : SelectDue(s) \/ Enqueue(s) \/ AbortEnqueue(s)
    \/ \E slot \in Slots : Poll(slot)

ScheduleSpec == ScheduleInit /\ [][ScheduleNext]_scheduleVars

-----------------------------------------------------------------------------
\* No entry that a scheduler has selected makes it raise, which ends its process.
SchedulerNeverRaises ==
    \A s \in Scheduler : session[s] # NoCall => EntryValid(session[s].entry)

\* A poll job is refused for its slot only if the entry was created anew since it
\* was enqueued.
RefusedForNewEntry ==
    \A t \in Slots : jobs[t].status = "poll_schedule_invalid" =>
        jobs[t].at <= row.document.created

\* A later slot is never before the time an earlier one was enqueued at: a scheduler
\* that was down leaves no queue of old slots to catch up with
\* (docs/v0.3/14-durable-watchlist-polling.md:48).
NoBacklog ==
    \A t, u \in Slots :
        t < u /\ jobs[t] # NoJob /\ jobs[u] # NoJob => u >= jobs[t].at

\* Unless an operator wrote over a commit that fell between its first and its last
\* statement, the schedulers do not raise, the columns they select by are those of the
\* document, no job is refused for its slot without reason, and there is no backlog.
\* (Where one did, columns older than the document may let a scheduler raise.)
ScheduleKept ==
    ~overlapped =>
        /\ SchedulerNeverRaises
        /\ row # NoEntry => row.column = row.document
        /\ RefusedForNewEntry
        /\ NoBacklog
=============================================================================
