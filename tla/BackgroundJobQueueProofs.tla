----------------------- MODULE BackgroundJobQueueProofs -----------------------
(***************************************************************************)
(* Proofs about the job queue, for any number of workers, clients and jobs *)
(* and any policy: types, one runner per attempt, the lease as a fence     *)
(* against stale workers, and valid stored rows.                           *)
(*                                                                         *)
(* The inductive invariant rests on LockInv: a session that holds a row    *)
(* lock has an up-to-date copy of the row, which is what makes the later   *)
(* write safe although the row was read in an earlier step.                *)
(***************************************************************************)
EXTENDS BackgroundJobQueue, TLAPS

WorkerOps == {"none", "claim", "heartbeat", "succeed", "fail"}
ClientOps == {"none", "enqueue", "request_cancel", "retry_failed"}

\* Workers and clients only make their own calls, and always about a job.
CallInv ==
    /\ \A w \in Worker :
        /\ call[w].op \in WorkerOps
        /\ call[w].op \in {"heartbeat", "succeed", "fail"} =>
              run[w] # NoRun /\ call[w].job = run[w].job
        /\ call[w].op = "claim" =>
              /\ run[w] = NoRun
              /\ call[w].job # NoJob => call[w].row.status \in {"queued", "running"}
    /\ \A c \in Client :
        /\ call[c].op \in ClientOps
        /\ call[c].op # "none" => call[c].job \in Job

\* A running attempt was counted on its row when it was claimed.
RunInv ==
    \A w \in Worker : run[w] # NoRun =>
        /\ run[w].job \in Job
        /\ run[w].attempt >= 1
        /\ run[w].attempt <= job[run[w].job].attempts

\* The holder of a row lock is in a locking call on that row and its copy of
\* the row is current.
LockInv ==
    \A j \in Job : lock[j] # NoOne =>
        /\ call[lock[j]].job = j
        /\ call[lock[j]].op \notin {"none", "enqueue"}
        /\ call[lock[j]].row = job[j]

\* A row that was not inserted yet is not locked, and no request is about it.
AbsentInv ==
    /\ \A j \in Job : job[j].status = "absent" => job[j].attempts = 0 /\ lock[j] = NoOne
    /\ \A c \in Client : call[c].op \in {"request_cancel", "retry_failed"} =>
                            job[call[c].job].status # "absent"

IInv == TypeOK /\ CallInv /\ RunInv /\ LockInv /\ AbsentInv
            /\ OneRunnerPerAttempt /\ LeaseMatchesAttempt

-----------------------------------------------------------------------------
(* What the row transitions do to the fields the invariants speak of.      *)

\* Every field of a row can be set to any value of its type.
LEMMA FieldUpdate ==
    ASSUME NEW r \in Row
    PROVE  /\ \A v \in Status : [r EXCEPT !.status = v] \in Row
           /\ \A v \in 0..MaxProgress : [r EXCEPT !.progress = v] \in Row
           /\ \A v \in Nat : [r EXCEPT !.attempts = v] \in Row
           /\ \A v \in Nat : [r EXCEPT !.budget = v] \in Row
           /\ \A v \in Int : [r EXCEPT !.delay = v] \in Row
           /\ \A v \in Worker \cup {NoOne} : [r EXCEPT !.owner = v] \in Row
           /\ \A v \in Int : [r EXCEPT !.lease = v] \in Row
           /\ \A v \in BOOLEAN : [r EXCEPT !.cancel = v] \in Row
           /\ \A v \in BOOLEAN : [r EXCEPT !.result = v] \in Row
           /\ \A v \in Error : [r EXCEPT !.error = v] \in Row
           /\ \A v \in BOOLEAN : [r EXCEPT !.started = v] \in Row
           /\ \A v \in BOOLEAN : [r EXCEPT !.finished = v] \in Row
BY DEF Row

\* The constants the transitions store are values of their fields' types.
LEMMA FieldValues ==
    /\ \A x \in {"queued", "running", "succeeded", "failed", "cancelled"} : x \in Status
    /\ NoOne \in Worker \cup {NoOne}
    /\ \A w \in Worker : w \in Worker \cup {NoOne}
    /\ 0 \in Int /\ 0 \in 0..MaxProgress /\ MaxProgress \in 0..MaxProgress
    /\ TRUE \in BOOLEAN /\ FALSE \in BOOLEAN
    /\ "none" \in Error /\ "handler_error" \in Error /\ "attempts_exhausted" \in Error
BY PolicyAssumption DEF Status, Error

\* What a transition makes of a row: row t, with this status, attempts and owner.
RowStep(t, status, attempts, owner) ==
    t \in Row /\ t.status = status /\ t.attempts = attempts /\ t.owner = owner

\* The absent row is a row.
LEMMA NoRowType == NoRow \in Row
BY PolicyAssumption DEF NoRow, Row, Status, Error

\* A new job (BackgroundJobBuilder.build) is a queued row without attempts.
LEMMA NewRowType == RowStep(NewRow, "queued", 0, NoOne)
BY NoRowType, FieldUpdate, FieldValues DEF NewRow, RowStep, NoRow

\* _cancelled makes a terminal row without a lease.
LEMMA CancelledType ==
    ASSUME NEW r \in Row PROVE RowStep(Cancelled(r), "cancelled", r.attempts, NoOne)
<1>1. Cancelled(r) \in Row
  BY FieldUpdate, FieldValues DEF Cancelled
<1>2. QED BY <1>1 DEF RowStep, Cancelled, Row

\* claim_next settles an exhausted job as a failed row without a lease.
LEMMA ExhaustedType ==
    ASSUME NEW r \in Row PROVE RowStep(Exhausted(r), "failed", r.attempts, NoOne)
<1>1. Exhausted(r) \in Row
  BY FieldUpdate, FieldValues DEF Exhausted
<1>2. QED BY <1>1 DEF RowStep, Exhausted, Row

\* claim_next makes a running row leased by the claimant.
LEMMA ClaimedType ==
    ASSUME NEW r \in Row, NEW w \in Worker, NEW a \in Nat
    PROVE  RowStep(Claimed(r, w, a), "running", r.attempts + 1, w)
<1>1. r.attempts + 1 \in Nat
  BY DEF Row
<1>2. LeaseDuration - a \in Int
  BY PolicyAssumption
<1>3. Claimed(r, w, a) \in Row
  BY <1>1, <1>2, FieldUpdate, FieldValues DEF Claimed
<1>4. QED BY <1>3 DEF RowStep, Claimed, Row

\* heartbeat keeps status, attempt and owner.
LEMMA HeartbeatenType ==
    ASSUME NEW r \in Row, NEW p \in 0..MaxProgress, NEW a \in Nat
    PROVE  RowStep(Heartbeaten(r, p, a), r.status, r.attempts, r.owner)
<1>1. LeaseDuration - a \in Int
  BY PolicyAssumption
<1>2. Heartbeaten(r, p, a) \in Row
  BY <1>1, FieldUpdate DEF Heartbeaten
<1>3. QED BY <1>2 DEF RowStep, Heartbeaten, Row

\* succeed makes a terminal row without a lease.
LEMMA SucceededType ==
    ASSUME NEW r \in Row PROVE RowStep(Succeeded(r), "succeeded", r.attempts, NoOne)
<1>1. Succeeded(r) \in Row
  BY FieldUpdate, FieldValues DEF Succeeded
<1>2. QED BY <1>1 DEF RowStep, Succeeded, Row

\* fail requeues the row without a lease.
LEMMA RequeuedType ==
    ASSUME NEW r \in Row, NEW d \in Int
    PROVE  RowStep(Requeued(r, d), "queued", r.attempts, NoOne)
<1>1. Requeued(r, d) \in Row
  BY FieldUpdate, FieldValues DEF Requeued
<1>2. QED BY <1>1 DEF RowStep, Requeued, Row

\* fail makes a terminal row without a lease.
LEMMA FailedType ==
    ASSUME NEW r \in Row PROVE RowStep(Failed(r), "failed", r.attempts, NoOne)
<1>1. Failed(r) \in Row
  BY FieldUpdate, FieldValues DEF Failed
<1>2. QED BY <1>1 DEF RowStep, Failed, Row

\* retry_failed requeues the row.
LEMMA RetriedType ==
    ASSUME NEW r \in Row, NEW a \in Nat
    PROVE  RowStep(Retried(r, a), "queued", r.attempts, r.owner)
<1>1. r.attempts + 1 \in Nat /\ -a \in Int
  BY DEF Row
<1>2. Retried(r, a) \in Row
  BY <1>1, FieldUpdate, FieldValues DEF Retried
<1>3. QED BY <1>2 DEF RowStep, Retried, Row

\* The passing of time changes only the remaining times of a row.
LEMMA AgedType ==
    ASSUME NEW r \in Row PROVE RowStep(Aged(r), r.status, r.attempts, r.owner)
<1>1. /\ (IF r.status = "absent" THEN 0 ELSE CountDown(r.delay)) \in Int
      /\ (IF r.owner = NoOne THEN 0 ELSE CountDown(r.lease)) \in Int
  BY PolicyAssumption DEF CountDown, Row
<1>2. Aged(r) \in Row
  BY <1>1, FieldUpdate DEF Aged
<1>3. QED BY <1>2 DEF RowStep, Aged, Row

\* The delay of a retry is within its bound.
LEMMA RetryDelayType ==
    ASSUME NEW a \in Nat, a >= 1
    PROVE  RetryDelayAfter(a) \in Nat
BY PolicyAssumption DEF RetryDelayAfter

\* The absent call is a call.
LEMMA NoCallType == NoCall \in Call
BY NoRowType, PolicyAssumption DEF NoCall, Call, Operation

\* The record a call starts with.
LEMMA NewCallType ==
    ASSUME NEW op \in Operation, NEW j \in Job \cup {NoJob},
           NEW p \in 0..MaxProgress, NEW b \in BOOLEAN
    PROVE  /\ NewCall(op, j, p, b) \in Call
           /\ NewCall(op, j, p, b).op = op
           /\ NewCall(op, j, p, b).job = j
<1>1. /\ \A x \in Call, v \in Operation : [x EXCEPT !.op = v] \in Call
      /\ \A x \in Call, v \in Job \cup {NoJob} : [x EXCEPT !.job = v] \in Call
      /\ \A x \in Call, v \in 0..MaxProgress : [x EXCEPT !.arg = v] \in Call
      /\ \A x \in Call, v \in BOOLEAN : [x EXCEPT !.retry = v] \in Call
  BY DEF Call
<1>2. NewCall(op, j, p, b) \in Call
  BY <1>1, NoCallType DEF NewCall
<1>3. QED BY <1>2, NoCallType DEF Call, NewCall

-----------------------------------------------------------------------------
(* The inductive step, by the kind of step a session takes.                *)

\* A session that is in no call holds no lock.
LEMMA IdleHoldsNothing ==
    ASSUME IInv, NEW s \in Session, call[s].op = "none"
    PROVE  \A j \in Job : lock[j] # s
BY SessionAssumption DEF IInv, LockInv, Session

\* Starting a call changes nothing but the call itself.
LEMMA BeginInv ==
    ASSUME IInv, NEW s \in Session, call[s].op = "none",
           NEW op \in Operation, NEW j \in Job \cup {NoJob},
           NEW p \in 0..MaxProgress, NEW b \in BOOLEAN,
           Begin(s, op, j, p, b),
           UNCHANGED <<job, lock, run, crashes>>,
           s \in Worker =>
               /\ op \in WorkerOps
               /\ op \in {"heartbeat", "succeed", "fail"} =>
                     run[s] # NoRun /\ j = run[s].job
               /\ op = "claim" => run[s] = NoRun /\ j = NoJob,
           s \in Client => op \in ClientOps /\ j \in Job,
           op \in {"request_cancel", "retry_failed"} => job[j].status # "absent"
    PROVE  IInv'
<1> DEFINE c == NewCall(op, j, p, b)
<1>1. c \in Call /\ c.op = op /\ c.job = j /\ call' = [call EXCEPT ![s] = c]
  BY NewCallType DEF Begin
<1> HIDE DEF c
<1>2. TypeOK'
  BY <1>1 DEF IInv, TypeOK
<1>3. CallInv'
  <2>1. \A x \in Session : call'[x] = IF x = s THEN c ELSE call[x]
    BY <1>1 DEF IInv, TypeOK
  <2>2. CASE s \in Worker
    BY <1>1, <2>1, <2>2, SessionAssumption DEF IInv, CallInv, Session
  <2>3. CASE s \in Client
    BY <1>1, <2>1, <2>3, SessionAssumption DEF IInv, CallInv, Session
  <2>4. QED BY <2>2, <2>3 DEF Session
<1>4. RunInv'
  BY DEF IInv, RunInv
<1>5. LockInv'
  BY <1>1, IdleHoldsNothing DEF IInv, TypeOK, LockInv, Session
<1>6. AbsentInv'
  BY <1>1 DEF IInv, TypeOK, AbsentInv, Session
<1>7. OneRunnerPerAttempt' /\ LeaseMatchesAttempt'
  BY DEF IInv, OneRunnerPerAttempt, LeaseMatchesAttempt
<1>8. QED BY <1>2, <1>3, <1>4, <1>5, <1>6, <1>7 DEF IInv

\* The lock and a fresh copy of the row, for any locking call.
LEMMA AcquireInv ==
    ASSUME IInv, NEW s \in Session, NEW j \in Job,
           call[s].op \notin {"none", "enqueue"},
           \A k \in Job : lock[k] # s, lock[j] = NoOne, job[j].status # "absent",
           lock' = [lock EXCEPT ![j] = s],
           NEW c \in Call, c.op = call[s].op, c.job = j, c.row = job[j],
           IF call[s].op = "claim" THEN job[j].status \in {"queued", "running"}
                                   ELSE call[s].job = j,
           call' = [call EXCEPT ![s] = c],
           UNCHANGED <<job, run, crashes>>
    PROVE  IInv'
<1>1. TypeOK'
  BY DEF IInv, TypeOK
<1>2. CallInv'
  <2>1. \A x \in Session : call'[x] = IF x = s THEN c ELSE call[x]
    BY DEF IInv, TypeOK
  <2>2. CASE s \in Worker
    BY <2>1, <2>2, SessionAssumption DEF IInv, CallInv, Session
  <2>3. CASE s \in Client
    BY <2>1, <2>3, SessionAssumption DEF IInv, CallInv, Session
  <2>4. QED BY <2>2, <2>3 DEF Session
<1>3. RunInv'
  BY DEF IInv, RunInv
<1>4. LockInv'
  BY SessionAssumption DEF IInv, TypeOK, LockInv, Session
<1>5. AbsentInv'
  BY DEF IInv, TypeOK, AbsentInv, Session
<1>6. OneRunnerPerAttempt' /\ LeaseMatchesAttempt'
  BY DEF IInv, OneRunnerPerAttempt, LeaseMatchesAttempt
<1>7. QED BY <1>1, <1>2, <1>3, <1>4, <1>5, <1>6 DEF IInv

\* A commit that keeps the attempts and at most clears the owner, ending the
\* call and perhaps the run of a worker.
LEMMA CommitInv ==
    ASSUME IInv, NEW s \in Session, NEW j \in Job, lock[j] = s,
           NEW r, NEW x, x # "absent", NEW o \in {NoOne, job[j].owner},
           RowStep(r, x, job[j].attempts, o),
           Write(j, r), Return(s, j), crashes' = crashes,
           UNCHANGED run \/ (s \in Worker /\ FinishRun(s))
    PROVE  IInv'
<1>1. TypeOK'
  BY NoCallType DEF IInv, TypeOK, RowStep, Write, Return, FinishRun, Context, NoRun
<1>2. CallInv'
  BY SessionAssumption DEF IInv, TypeOK, CallInv, Session, Return, FinishRun, NoCall,
                           WorkerOps, ClientOps
<1>3. RunInv'
  BY DEF IInv, TypeOK, RunInv, RowStep, Write, FinishRun
<1>4. LockInv'
  BY SessionAssumption DEF IInv, TypeOK, LockInv, Session, Write, Return
<1>5. OneRunnerPerAttempt'
  BY DEF IInv, TypeOK, OneRunnerPerAttempt, FinishRun
<1>6. LeaseMatchesAttempt'
  BY SessionAssumption
     DEF IInv, TypeOK, RunInv, LeaseMatchesAttempt, FinishRun, RowStep, Write, Session
<1>7. AbsentInv'
  BY DEF IInv, TypeOK, CallInv, AbsentInv, RowStep, Write, Return, NoCall, Session
<1>8. QED BY <1>1, <1>2, <1>3, <1>4, <1>5, <1>6, <1>7 DEF IInv

\* A call that locked no row ends without touching the table.
LEMMA EndInv ==
    ASSUME IInv, NEW s \in Session, \A k \in Job : lock[k] # s,
           call' = [call EXCEPT ![s] = NoCall],
           UNCHANGED <<job, lock, run, crashes>>
    PROVE  IInv'
<1>1. TypeOK'
  BY NoCallType DEF IInv, TypeOK
<1>2. CallInv'
  BY SessionAssumption DEF IInv, TypeOK, CallInv, Session, NoCall, WorkerOps, ClientOps
<1>3. LockInv'
  BY DEF IInv, TypeOK, LockInv
<1>4. AbsentInv'
  BY DEF IInv, TypeOK, AbsentInv, NoCall, Session
<1>5. RunInv' /\ OneRunnerPerAttempt' /\ LeaseMatchesAttempt'
  BY DEF IInv, RunInv, OneRunnerPerAttempt, LeaseMatchesAttempt
<1>6. QED BY <1>1, <1>2, <1>3, <1>4, <1>5 DEF IInv

\* Who Holds a row has read its current value and has its job in the table.
LEMMA HoldsRow ==
    ASSUME IInv, NEW s \in Session, NEW op, Holds(s, op)
    PROVE  /\ call[s].job \in Job
           /\ lock[call[s].job] = s
           /\ call[s].row = job[call[s].job]
           /\ call[s].row \in Row
           /\ call[s].age \in Nat
           /\ call[s].arg \in 0..MaxProgress
           /\ call[s].op = op
<1>1. call[s] \in Call
  BY DEF IInv, TypeOK
<1>2. call[s].job \in Job /\ lock[call[s].job] = s /\ call[s].op = op
  BY <1>1 DEF Holds, Call
<1>3. call[s].row = job[call[s].job]
  BY <1>2, SessionAssumption DEF IInv, LockInv, Session
<1>4. QED BY <1>1, <1>2, <1>3 DEF Call

\* A claim counts the attempt on the row and on the run it starts.
LEMMA ClaimCommitInv ==
    ASSUME IInv, NEW w \in Worker, ClaimCommit(w)
    PROVE  IInv'
<1> DEFINE j == call[w].job
           r == call[w].row
           t == Claimed(r, w, call[w].age)
<1>1. /\ j \in Job /\ lock[j] = w /\ r = job[j] /\ r \in Row
      /\ call[w].age \in Nat /\ call[w].op = "claim"
  BY HoldsRow DEF ClaimCommit, Session
<1>2. /\ t \in Row /\ t.status # "absent" /\ t.attempts = r.attempts + 1
      /\ t.owner = w /\ r.attempts \in Nat
  <2>1. RowStep(t, "running", r.attempts + 1, w)
    BY <1>1, ClaimedType
  <2>2. QED BY <2>1, <1>1 DEF RowStep, Row
<1>3. /\ job' = [job EXCEPT ![j] = t]
      /\ lock' = [lock EXCEPT ![j] = NoOne]
      /\ call' = [call EXCEPT ![w] = NoCall]
      /\ run' = [run EXCEPT ![w] = [job |-> j, attempt |-> r.attempts + 1]]
      /\ crashes' = crashes
  BY <1>2 DEF ClaimCommit, Write, Return
<1> HIDE DEF j, r, t
<1>4. TypeOK'
  <2>1. [job |-> j, attempt |-> r.attempts + 1] \in Context
    BY <1>1, <1>2 DEF Context
  <2>2. QED BY <1>1, <1>2, <1>3, <2>1, NoCallType DEF IInv, TypeOK
<1>5. CallInv'
  BY <1>1, <1>3, SessionAssumption
     DEF IInv, TypeOK, CallInv, Session, NoCall, WorkerOps, ClientOps
<1>6. RunInv'
  BY <1>1, <1>2, <1>3 DEF IInv, TypeOK, RunInv, Context, Row
<1>7. LockInv'
  BY <1>1, <1>3, SessionAssumption DEF IInv, TypeOK, LockInv, Session
<1>8. OneRunnerPerAttempt'
  BY <1>1, <1>2, <1>3 DEF IInv, TypeOK, RunInv, OneRunnerPerAttempt, Context
<1>9. LeaseMatchesAttempt'
  BY <1>1, <1>2, <1>3 DEF IInv, TypeOK, RunInv, LeaseMatchesAttempt
<1>10. AbsentInv'
  BY <1>1, <1>2, <1>3, SessionAssumption DEF IInv, TypeOK, CallInv, AbsentInv, NoCall, Session
<1>11. QED BY <1>4, <1>5, <1>6, <1>7, <1>8, <1>9, <1>10 DEF IInv

\* A claim that skips a cancelled or exhausted row keeps looking.
LEMMA ClaimContinueInv ==
    ASSUME IInv, NEW w \in Worker, ClaimContinue(w)
    PROVE  IInv'
<1> DEFINE j == call[w].job
           r == call[w].row
           c == [call[w] EXCEPT !.job = NoJob, !.row = NoRow]
<1>1. /\ j \in Job /\ lock[j] = w /\ r = job[j] /\ r \in Row
      /\ call[w].op = "claim"
  BY HoldsRow DEF ClaimContinue, Session
<1>2. PICK t, x : /\ x # "absent" /\ RowStep(t, x, r.attempts, NoOne)
                  /\ job' = [job EXCEPT ![j] = t]
  BY <1>1, CancelledType, ExhaustedType DEF ClaimContinue, Write
<1>3. /\ lock' = [lock EXCEPT ![j] = NoOne]
      /\ call' = [call EXCEPT ![w] = c]
      /\ run' = run /\ crashes' = crashes
  BY DEF ClaimContinue
<1>4. c \in Call /\ c.op = "claim" /\ c.job = NoJob
  BY <1>1, NoRowType DEF IInv, TypeOK, Call, Session
<1> HIDE DEF j, r, c
<1>5. TypeOK'
  BY <1>1, <1>2, <1>3, <1>4 DEF IInv, TypeOK, RowStep
<1>6. CallInv'
  BY <1>1, <1>3, <1>4, SessionAssumption DEF IInv, TypeOK, CallInv, Session
<1>7. RunInv'
  BY <1>1, <1>2, <1>3 DEF IInv, TypeOK, RunInv, RowStep
<1>8. LockInv'
  BY <1>1, <1>2, <1>3, <1>4, SessionAssumption DEF IInv, TypeOK, LockInv, Session, RowStep
<1>9. OneRunnerPerAttempt'
  BY <1>3 DEF IInv, OneRunnerPerAttempt
<1>10. LeaseMatchesAttempt'
  BY <1>1, <1>2, <1>3, SessionAssumption
     DEF IInv, TypeOK, RunInv, LeaseMatchesAttempt, RowStep, Session
<1>11. AbsentInv'
  BY <1>1, <1>2, <1>3, <1>4, SessionAssumption
     DEF IInv, TypeOK, CallInv, AbsentInv, RowStep, Session
<1>12. QED BY <1>5, <1>6, <1>7, <1>8, <1>9, <1>10, <1>11 DEF IInv

\* A heartbeat that raises turns into a fail call on the same locked row.
LEMMA HeartbeatRaiseInv ==
    ASSUME IInv, NEW w \in Worker, NEW b \in BOOLEAN, HeartbeatRaise(w, b)
    PROVE  IInv'
<1> DEFINE j == call[w].job
           d == NewCall("fail", j, 0, b)
           c == [d EXCEPT !.row = call[w].row]
<1>1. /\ j \in Job /\ lock[j] = w /\ call[w].op = "heartbeat"
      /\ call[w].row = job[j] /\ call[w].row \in Row
  BY HoldsRow DEF HeartbeatRaise, Session
<1>2. d \in Call /\ d.op = "fail" /\ d.job = j
  <2>1. "fail" \in Operation /\ j \in Job \cup {NoJob} /\ 0 \in 0..MaxProgress
    BY <1>1, PolicyAssumption DEF Operation
  <2>2. QED BY <2>1, NewCallType
<1>3. call' = [call EXCEPT ![w] = c] /\ UNCHANGED <<job, lock, run, crashes>>
  BY DEF HeartbeatRaise
<1> HIDE DEF d
<1>4. c \in Call /\ c.op = "fail" /\ c.job = j /\ c.row = job[j]
  BY <1>1, <1>2 DEF Call
<1>5. run[w] # NoRun /\ j = run[w].job
  BY <1>1 DEF IInv, CallInv
<1> HIDE DEF j, c
<1>6. TypeOK'
  BY <1>1, <1>3, <1>4 DEF IInv, TypeOK
<1>7. CallInv'
  BY <1>3, <1>4, <1>5, SessionAssumption
     DEF IInv, TypeOK, CallInv, Session, WorkerOps
<1>8. LockInv'
  BY <1>1, <1>3, <1>4, SessionAssumption DEF IInv, TypeOK, LockInv, Session
<1>9. AbsentInv'
  BY <1>3, <1>4, SessionAssumption DEF IInv, TypeOK, AbsentInv, Session
<1>10. RunInv' /\ OneRunnerPerAttempt' /\ LeaseMatchesAttempt'
  BY <1>3 DEF IInv, RunInv, OneRunnerPerAttempt, LeaseMatchesAttempt
<1>11. QED BY <1>6, <1>7, <1>8, <1>9, <1>10 DEF IInv

\* An insert only ever meets an absent row, which no run refers to.
LEMMA EnqueueCommitInv ==
    ASSUME IInv, NEW c \in Client, EnqueueCommit(c)
    PROVE  IInv'
<1> DEFINE j == call[c].job
           t == IF job[j].status = "absent" THEN NewRow ELSE job[j]
<1>1. j \in Job /\ call[c].op = "enqueue"
  BY DEF EnqueueCommit, IInv, CallInv
<1>2. /\ job' = [job EXCEPT ![j] = t]
      /\ call' = [call EXCEPT ![c] = NoCall]
      /\ lock' = lock /\ run' = run /\ crashes' = crashes
  BY DEF EnqueueCommit, Write
<1>3. \A k \in Job : lock[k] # c
  BY <1>1, SessionAssumption DEF IInv, LockInv, Session
<1>4. CASE job[j].status # "absent"
  <2>1. job' = job
    BY <1>1, <1>2, <1>4 DEF IInv, TypeOK
  <2>2. QED BY <1>2, <1>3, <2>1, EndInv DEF Session
<1>5. CASE job[j].status = "absent"
  <2>1. t \in Row /\ t.status # "absent" /\ t.attempts = 0 /\ t.owner = NoOne
    BY <1>5, NewRowType DEF RowStep
  <2>2. job[j].attempts = 0 /\ lock[j] = NoOne
    BY <1>1, <1>5 DEF IInv, AbsentInv
  <2> HIDE DEF j, t
  <2>3. TypeOK'
    BY <1>1, <1>2, <2>1, NoCallType DEF IInv, TypeOK
  <2>4. CallInv'
    BY <1>2, SessionAssumption DEF IInv, TypeOK, CallInv, Session, NoCall, WorkerOps, ClientOps
  <2>5. RunInv'
    BY <1>1, <1>2, <2>1, <2>2 DEF IInv, TypeOK, RunInv
  <2>6. LockInv'
    BY <1>1, <1>2, <1>3, <2>2 DEF IInv, TypeOK, LockInv
  <2>7. OneRunnerPerAttempt'
    BY <1>2 DEF IInv, OneRunnerPerAttempt
  <2>8. LeaseMatchesAttempt'
    BY <1>1, <1>2, <2>1, SessionAssumption DEF IInv, TypeOK, RunInv, LeaseMatchesAttempt
  <2>9. AbsentInv'
    BY <1>1, <1>2, <2>1, SessionAssumption DEF IInv, TypeOK, CallInv, AbsentInv, NoCall, Session
  <2>10. QED BY <2>3, <2>4, <2>5, <2>6, <2>7, <2>8, <2>9 DEF IInv
<1>6. QED BY <1>4, <1>5

\* A crash releases the worker's locks and ends its run.
LEMMA CrashInv ==
    ASSUME IInv, NEW w \in Worker, Crash(w)
    PROVE  IInv'
<1>1. /\ crashes' = crashes + 1
      /\ lock' = [j \in Job |-> IF lock[j] = w THEN NoOne ELSE lock[j]]
      /\ call' = [call EXCEPT ![w] = NoCall]
      /\ run' = [run EXCEPT ![w] = NoRun]
      /\ job' = job
  BY DEF Crash, FinishRun
<1>2. TypeOK'
  <2>1. NoRun \in Context
    BY DEF NoRun, Context
  <2>2. lock' \in [Job -> Session \cup {NoOne}]
    BY <1>1 DEF IInv, TypeOK
  <2>3. call' \in [Session -> Call] /\ run' \in [Worker -> Context]
    BY <1>1, <2>1, NoCallType DEF IInv, TypeOK
  <2>4. QED BY <1>1, <2>2, <2>3 DEF IInv, TypeOK
<1>3. CallInv'
  BY <1>1, SessionAssumption DEF IInv, TypeOK, CallInv, Session, NoCall, WorkerOps
<1>4. RunInv'
  BY <1>1 DEF IInv, TypeOK, RunInv
<1>5. LockInv'
  BY <1>1 DEF IInv, TypeOK, LockInv
<1>6. AbsentInv'
  BY <1>1, SessionAssumption DEF IInv, TypeOK, AbsentInv, Session
<1>7. OneRunnerPerAttempt' /\ LeaseMatchesAttempt'
  BY <1>1 DEF IInv, TypeOK, OneRunnerPerAttempt, LeaseMatchesAttempt
<1>8. QED BY <1>2, <1>3, <1>4, <1>5, <1>6, <1>7 DEF IInv

\* Time changes only timers, and those of a session's copy as those of the row.
LEMMA TickInv ==
    ASSUME IInv, Tick
    PROVE  IInv'
<1>1. \A j \in Job : RowStep(job'[j], job[j].status, job[j].attempts, job[j].owner)
  BY AgedType DEF Tick, IInv, TypeOK
<1>2. \A s \in Session :
        /\ call'[s] \in Call
        /\ call'[s].op = call[s].op /\ call'[s].job = call[s].job
        /\ call[s].op # "none" =>
              call'[s].row = Aged(call[s].row) /\ call'[s].row.status = call[s].row.status
  <2>1. TAKE s \in Session
  <2>2. call[s] \in Call /\ call[s].row \in Row
    BY DEF IInv, TypeOK, Call
  <2>3. Aged(call[s].row) \in Row /\ Aged(call[s].row).status = call[s].row.status
    BY <2>2, AgedType DEF RowStep
  <2>4. call'[s] = IF call[s].op = "none" THEN call[s]
                   ELSE [call[s] EXCEPT !.age = call[s].age + 1, !.row = Aged(call[s].row)]
    BY DEF Tick
  <2>5. CASE call[s].op = "none"
    BY <2>2, <2>4, <2>5
  <2>6. CASE call[s].op # "none"
    <3>1. call'[s] = [call[s] EXCEPT !.age = call[s].age + 1, !.row = Aged(call[s].row)]
      BY <2>4, <2>6
    <3> DEFINE c == [call[s] EXCEPT !.age = call[s].age + 1]
    <3>2. c \in Call /\ c.op = call[s].op /\ c.job = call[s].job
      BY <2>2 DEF Call
    <3>3. call'[s] = [c EXCEPT !.row = Aged(call[s].row)]
      BY <3>1
    <3> HIDE DEF c
    <3>4. call'[s] \in Call
      BY <2>3, <3>2, <3>3 DEF Call
    <3>5. QED BY <2>3, <3>2, <3>3, <3>4 DEF Call
  <2>7. QED BY <2>5, <2>6
<1>3. UNCHANGED <<lock, run, crashes>> /\ job' = [j \in Job |-> Aged(job[j])]
  BY DEF Tick
<1>4. TypeOK'
  <2>1. job' \in [Job -> Row]
    BY <1>1, <1>3 DEF RowStep
  <2>2. call' \in [Session -> Call]
    BY <1>2 DEF Tick
  <2>3. QED BY <1>3, <2>1, <2>2 DEF IInv, TypeOK
<1>5. CallInv'
  BY <1>2, <1>3 DEF IInv, CallInv, Session
<1>6. RunInv'
  BY <1>1, <1>3 DEF IInv, RunInv, RowStep
<1>7. LockInv'
  BY <1>2, <1>3 DEF IInv, TypeOK, LockInv
<1>8. AbsentInv'
  BY <1>1, <1>2, <1>3 DEF IInv, CallInv, AbsentInv, RowStep, Session
<1>9. OneRunnerPerAttempt'
  BY <1>3 DEF IInv, OneRunnerPerAttempt
<1>10. LeaseMatchesAttempt'
  BY <1>1, <1>3 DEF IInv, RunInv, LeaseMatchesAttempt, RowStep
<1>11. QED BY <1>4, <1>5, <1>6, <1>7, <1>8, <1>9, <1>10 DEF IInv

\* The inductive invariant holds initially.
LEMMA InitInv == Init => IInv
<1> SUFFICES ASSUME Init PROVE IInv
  OBVIOUS
<1>1. TypeOK
  BY NoRowType, NoCallType DEF Init, TypeOK, Context, NoRun
<1>2. CallInv /\ RunInv /\ LockInv
  BY DEF Init, CallInv, RunInv, LockInv, NoCall, WorkerOps, ClientOps, Session
<1>3. AbsentInv
  BY DEF Init, AbsentInv, NoRow, NoCall, Session
<1>4. OneRunnerPerAttempt /\ LeaseMatchesAttempt
  BY DEF Init, OneRunnerPerAttempt, LeaseMatchesAttempt
<1>5. QED BY <1>1, <1>2, <1>3, <1>4 DEF IInv

\* Taking a row's lock, for the calls that know their job.
LEMMA LockRowInv ==
    ASSUME IInv, NEW s \in Session, LockRow(s)
    PROVE  IInv'
<1> DEFINE j == call[s].job
           c == [call[s] EXCEPT !.row = job[j]]
<1>1. call[s] \in Call
  BY DEF IInv, TypeOK
<1>2. /\ call[s].op \in {"heartbeat", "succeed", "fail", "request_cancel", "retry_failed"}
      /\ lock[j] = NoOne /\ lock' = [lock EXCEPT ![j] = s]
      /\ call' = [call EXCEPT ![s] = c]
      /\ UNCHANGED <<job, run, crashes>>
  BY <1>1 DEF LockRow
<1>3. j \in Job /\ job[j].status # "absent"
  <2>1. CASE s \in Worker
    <3>1. run[s] # NoRun /\ j = run[s].job
      BY <1>2, <2>1 DEF IInv, CallInv, WorkerOps
    <3>2. j \in Job /\ job[j].attempts >= 1
      BY <3>1, <2>1 DEF IInv, TypeOK, RunInv, Context, Row
    <3>3. QED BY <3>2 DEF IInv, AbsentInv
  <2>2. CASE s \in Client
    BY <1>2, <2>2 DEF IInv, CallInv, AbsentInv, ClientOps
  <2>3. QED BY <2>1, <2>2 DEF Session
<1>4. \A k \in Job : lock[k] # s
  BY <1>2, <1>3, SessionAssumption DEF IInv, LockInv, Session
<1>5. c \in Call /\ c.op = call[s].op /\ c.job = j /\ c.row = job[j]
  BY <1>1, <1>3 DEF IInv, TypeOK, Call
<1> HIDE DEF c
<1>6. QED BY <1>2, <1>3, <1>4, <1>5, AcquireInv

\* Selecting and locking a claimable row keeps the invariant.
LEMMA ClaimSelectInv ==
    ASSUME IInv, NEW w \in Worker, NEW j \in Job, ClaimSelect(w, j)
    PROVE  IInv'
<1> DEFINE c == [call[w] EXCEPT !.job = j, !.row = job[j]]
<1>1. call[w] \in Call /\ w \in Session
  BY DEF IInv, TypeOK, Session
<1>2. /\ call[w].op = "claim" /\ call[w].job = NoJob
      /\ lock[j] = NoOne /\ job[j].status \in {"queued", "running"}
      /\ lock' = [lock EXCEPT ![j] = w]
      /\ call' = [call EXCEPT ![w] = c]
      /\ UNCHANGED <<job, run, crashes>>
  BY <1>1 DEF ClaimSelect, ClaimCandidates, Claimable
<1>3. \A k \in Job : lock[k] # w
  BY <1>1, <1>2, SessionAssumption DEF IInv, LockInv, Session
<1>4. c \in Call /\ c.op = call[w].op /\ c.job = j /\ c.row = job[j]
  BY <1>1 DEF IInv, TypeOK, Call
<1> HIDE DEF c
<1>5. QED BY <1>1, <1>2, <1>3, <1>4, AcquireInv

\* The write of a worker's or an operator's call, as CommitInv wants it.
LEMMA HeartbeatCommitInv ==
    ASSUME IInv, NEW w \in Worker, HeartbeatCommit(w)
    PROVE  IInv'
<1> DEFINE j == call[w].job
           t == Heartbeaten(call[w].row, call[w].arg, call[w].age)
<1>1. /\ j \in Job /\ lock[j] = w /\ call[w].row = job[j] /\ call[w].row \in Row
      /\ call[w].age \in Nat /\ call[w].arg \in 0..MaxProgress
  BY HoldsRow DEF HeartbeatCommit, Session
<1>2. RowStep(t, "running", job[j].attempts, job[j].owner)
  <2>1. job[j].status = "running"
    BY <1>1 DEF HeartbeatCommit, OwnedRunning
  <2>2. RowStep(t, job[j].status, job[j].attempts, job[j].owner)
    BY <1>1, HeartbeatenType
  <2>3. QED BY <2>1, <2>2
<1>3. Write(j, t) /\ Return(w, j) /\ UNCHANGED <<run, crashes>>
  BY DEF HeartbeatCommit
<1> HIDE DEF j, t
<1>4. QED BY <1>1, <1>2, <1>3, CommitInv DEF Session

\* Committing a success keeps the invariant.
LEMMA SucceedCommitInv ==
    ASSUME IInv, NEW w \in Worker, SucceedCommit(w)
    PROVE  IInv'
<1> DEFINE j == call[w].job
           r == call[w].row
           t == IF r.cancel THEN Cancelled(r) ELSE Succeeded(r)
<1>1. j \in Job /\ lock[j] = w /\ r = job[j] /\ r \in Row
  BY HoldsRow DEF SucceedCommit, Session
<1>2. PICK x : x # "absent" /\ RowStep(t, x, job[j].attempts, NoOne)
  <2>1. \/ RowStep(t, "cancelled", job[j].attempts, NoOne)
        \/ RowStep(t, "succeeded", job[j].attempts, NoOne)
    BY <1>1, CancelledType, SucceededType
  <2>2. QED BY <2>1
<1>3. Write(j, t) /\ Return(w, j) /\ FinishRun(w) /\ crashes' = crashes
  BY DEF SucceedCommit
<1> HIDE DEF j, r, t
<1>4. QED BY <1>1, <1>2, <1>3, CommitInv DEF Session

\* Committing a failure keeps the invariant.
LEMMA FailCommitInv ==
    ASSUME IInv, NEW w \in Worker, FailCommit(w)
    PROVE  IInv'
<1> DEFINE j == call[w].job
           r == call[w].row
           d == RetryDelayAfter(run[w].attempt) - call[w].age
<1>1. /\ j \in Job /\ lock[j] = w /\ r = job[j] /\ r \in Row
      /\ call[w].age \in Nat /\ call[w].op = "fail"
  BY HoldsRow DEF FailCommit, Session
<1>2. run[w].attempt \in Nat /\ run[w].attempt >= 1
  BY <1>1 DEF IInv, TypeOK, CallInv, RunInv, Context
<1>3. d \in Int
  BY <1>1, <1>2, RetryDelayType
<1>4. Return(w, j) /\ FinishRun(w) /\ crashes' = crashes
  BY DEF FailCommit
<1>5. Write(j, Cancelled(r)) \/ Write(j, Requeued(r, d)) \/ Write(j, Failed(r))
  BY DEF FailCommit
<1>6. PICK t, x : x # "absent" /\ RowStep(t, x, job[j].attempts, NoOne) /\ Write(j, t)
  BY <1>1, <1>3, <1>5, CancelledType, RequeuedType, FailedType
<1> HIDE DEF j, r, d
<1>7. QED BY <1>1, <1>4, <1>6, CommitInv DEF Session

\* The lost lease: nothing is written.
LEMMA ConflictInv ==
    ASSUME IInv, NEW w \in Worker, Conflict(w)
    PROVE  IInv'
<1> DEFINE j == call[w].job
<1>1. j \in Job /\ lock[j] = w
  BY HoldsRow DEF Conflict, Session
<1>2. RowStep(job[j], job[j].status, job[j].attempts, job[j].owner) /\ Write(j, job[j])
  BY <1>1 DEF IInv, TypeOK, RowStep, Write, Conflict
<1>3. job[j].status # "absent"
  BY <1>1, SessionAssumption DEF IInv, AbsentInv, Session
<1>4. Return(w, j) /\ FinishRun(w) /\ crashes' = crashes
  BY DEF Conflict
<1> HIDE DEF j
<1>5. QED BY <1>1, <1>2, <1>3, <1>4, CommitInv DEF Session

\* Committing a cancellation request keeps the invariant.
LEMMA RequestCancelInv ==
    ASSUME IInv, NEW c \in Client, RequestCancelCommit(c)
    PROVE  IInv'
<1> DEFINE j == call[c].job
           r == call[c].row
<1>1. j \in Job /\ lock[j] = c /\ r = job[j] /\ r \in Row /\ c \in Session
  BY HoldsRow DEF RequestCancelCommit, Session
<1>2. r.status # "absent"
  BY <1>1, SessionAssumption DEF IInv, AbsentInv, Session
<1>3. Return(c, j) /\ UNCHANGED <<run, crashes>>
  BY DEF RequestCancelCommit
<1>4. CASE r.status \in Terminal /\ job' = job
  <2>1. RowStep(r, r.status, job[j].attempts, job[j].owner) /\ Write(j, r)
    BY <1>1, <1>4 DEF IInv, TypeOK, RowStep, Write
  <2> HIDE DEF j, r
  <2>2. QED BY <1>1, <1>2, <1>3, <2>1, CommitInv
<1>5. CASE Write(j, Cancelled(r))
  <2>1. RowStep(Cancelled(r), "cancelled", job[j].attempts, NoOne)
    BY <1>1, CancelledType
  <2> HIDE DEF j, r
  <2>2. QED BY <1>1, <1>3, <1>5, <2>1, CommitInv
<1>6. CASE Write(j, [r EXCEPT !.cancel = TRUE])
  <2>1. RowStep([r EXCEPT !.cancel = TRUE], r.status, job[j].attempts, job[j].owner)
    <3>1. [r EXCEPT !.cancel = TRUE] \in Row
      BY <1>1, FieldUpdate, FieldValues
    <3>2. QED BY <1>1, <3>1 DEF RowStep, Row
  <2> HIDE DEF j, r
  <2>2. QED BY <1>1, <1>2, <1>3, <1>6, <2>1, CommitInv
<1>7. QED BY <1>4, <1>5, <1>6 DEF RequestCancelCommit

\* Committing a manual retry keeps the invariant.
LEMMA RetryFailedInv ==
    ASSUME IInv, NEW c \in Client, RetryFailedCommit(c)
    PROVE  IInv'
<1> DEFINE j == call[c].job
           r == call[c].row
           t == IF r.status = "failed" /\ r.attempts < HardLimit
                THEN Retried(r, call[c].age) ELSE r
<1>1. /\ j \in Job /\ lock[j] = c /\ r = job[j] /\ r \in Row /\ c \in Session
      /\ call[c].age \in Nat
  BY HoldsRow DEF RetryFailedCommit, Session
<1>2. r.status # "absent"
  BY <1>1, SessionAssumption DEF IInv, AbsentInv, Session
<1>3. \/ RowStep(t, "queued", job[j].attempts, job[j].owner)
      \/ RowStep(t, r.status, job[j].attempts, job[j].owner)
  BY <1>1, RetriedType DEF RowStep
<1>4. Return(c, j) /\ UNCHANGED <<run, crashes>> /\ Write(j, t)
  BY DEF RetryFailedCommit
<1> HIDE DEF j, r, t
<1>5. QED BY <1>1, <1>2, <1>3, <1>4, CommitInv

-----------------------------------------------------------------------------
\* Every step keeps the inductive invariant.
LEMMA NextInv == IInv /\ [Next]_vars => IInv'
<1> SUFFICES ASSUME IInv, [Next]_vars PROVE IInv'
  OBVIOUS
<1>0. 0 \in 0..MaxProgress /\ NoJob \in Job \cup {NoJob}
  BY PolicyAssumption
<1>1. ASSUME NEW w \in Worker, WorkerStep(w) PROVE IInv'
  <2> USE <1>0 DEF Session
  <2>0. run[w] # NoRun => run[w].job \in Job
    BY DEF IInv, RunInv
  <2>1. CASE ClaimStart(w)
    <3>1. w \notin Client
      BY SessionAssumption
    <3>2. QED BY <2>1, <3>1, BeginInv DEF ClaimStart, Operation, WorkerOps
  <2>2. CASE \E j \in Job : ClaimSelect(w, j)
    BY <2>2, ClaimSelectInv
  <2>3. CASE ClaimNothing(w)
    <3>1. \A k \in Job : lock[k] # w
      BY <2>3, SessionAssumption DEF ClaimNothing, IInv, LockInv
    <3>2. QED BY <2>3, <3>1, EndInv DEF ClaimNothing
  <2>4. CASE ClaimContinue(w)
    BY <2>4, ClaimContinueInv
  <2>5. CASE ClaimCommit(w)
    BY <2>5, ClaimCommitInv
  <2>6. CASE \E p \in 0..(MaxProgress - 1) : HeartbeatStart(w, p)
    <3>1. PICK p \in 0..(MaxProgress - 1) : HeartbeatStart(w, p)
      BY <2>6
    <3>2. p \in 0..MaxProgress /\ w \notin Client
      BY SessionAssumption, PolicyAssumption
    <3>3. QED BY <2>0, <3>1, <3>2, BeginInv DEF HeartbeatStart, InHandler, Operation, WorkerOps
  <2>7. CASE SucceedStart(w)
    <3>1. w \notin Client
      BY SessionAssumption
    <3>2. QED BY <2>0, <2>7, <3>1, BeginInv DEF SucceedStart, InHandler, Operation, WorkerOps
  <2>8. CASE \E retryable \in BOOLEAN : FailStart(w, retryable)
    <3>1. w \notin Client
      BY SessionAssumption
    <3>2. QED BY <2>0, <2>8, <3>1, BeginInv DEF FailStart, InHandler, Operation, WorkerOps
  <2>9. CASE HeartbeatCommit(w)
    BY <2>9, HeartbeatCommitInv
  <2>10. CASE \E retryable \in BOOLEAN : HeartbeatRaise(w, retryable)
    BY <2>10, HeartbeatRaiseInv
  <2>11. CASE SucceedCommit(w)
    BY <2>11, SucceedCommitInv
  <2>12. CASE FailCommit(w)
    BY <2>12, FailCommitInv
  <2>13. CASE Conflict(w)
    BY <2>13, ConflictInv
  <2>14. QED BY <1>1, <2>1, <2>2, <2>3, <2>4, <2>5, <2>6, <2>7, <2>8, <2>9, <2>10,
                <2>11, <2>12, <2>13 DEF WorkerStep
<1>2. ASSUME NEW w \in Worker, Crash(w) PROVE IInv'
  BY <1>2, CrashInv
<1>3. ASSUME NEW c \in Client, ClientStep(c) PROVE IInv'
  <2> USE <1>0 DEF Session
  <2>0. c \notin Worker
    BY SessionAssumption
  <2>1. CASE \E j \in Job : EnqueueStage(c, j)
    BY <2>0, <2>1, BeginInv DEF EnqueueStage, Operation, ClientOps
  <2>2. CASE EnqueueCommit(c)
    BY <2>2, EnqueueCommitInv
  <2>3. CASE \E j \in Job, op \in {"request_cancel", "retry_failed"} : OperatorStart(c, op, j)
    BY <2>0, <2>3, BeginInv DEF OperatorStart, Operation, ClientOps
  <2>4. CASE RequestCancelCommit(c)
    BY <2>4, RequestCancelInv
  <2>5. CASE RetryFailedCommit(c)
    BY <2>5, RetryFailedInv
  <2>6. QED BY <1>3, <2>1, <2>2, <2>3, <2>4, <2>5 DEF ClientStep
<1>4. ASSUME NEW s \in Session, LockRow(s) PROVE IInv'
  BY <1>4, LockRowInv
<1>5. CASE Tick
  BY <1>5, TickInv
<1>6. CASE UNCHANGED vars
  BY <1>6 DEF vars, IInv, TypeOK, CallInv, RunInv, LockInv, AbsentInv,
              OneRunnerPerAttempt, LeaseMatchesAttempt
<1>7. QED BY <1>1, <1>2, <1>3, <1>4, <1>5, <1>6 DEF Next

\* The invariant holds in every state of every behaviour.
LEMMA Invariance == Spec => []IInv
<1>1. QED BY InitInv, NextInv, PTL DEF Spec

\* Type correctness: every stored row, every call's copy of a row and every run
\* context stays within its type.
THEOREM TypeCorrect == Spec => []TypeOK
<1>1. IInv => TypeOK
  BY DEF IInv
<1>2. QED BY <1>1, Invariance, PTL

\* claim_next never hands the same attempt of a job to two workers.
THEOREM SingleRunner == Spec => []OneRunnerPerAttempt
<1>1. IInv => OneRunnerPerAttempt
  BY DEF IInv
<1>2. QED BY <1>1, Invariance, PTL

\* The lease_owner comparison of _owned_running is a sufficient fence: a worker
\* that passes it is executing the attempt the row counts.
THEOREM LeaseFence == Spec => []LeaseMatchesAttempt
<1>1. IInv => LeaseMatchesAttempt
  BY DEF IInv
<1>2. QED BY <1>1, Invariance, PTL

-----------------------------------------------------------------------------
(* What any step may do to a row.                                          *)

\* The transitions of the repository with the conditions they are taken under.
RowChange(r, t) ==
    \/ t = r
    \/ t = Aged(r)
    \/ r.status = "absent" /\ t = NewRow
    \/ /\ r.status = "queued" \/ (r.status = "running" /\ r.cancel)
       /\ t = Cancelled(r)
    \/ r.status = "running" /\ t = [r EXCEPT !.cancel = TRUE]
    \/ /\ r.status \in {"queued", "running"} /\ ~r.cancel
       /\ r.attempts >= r.budget /\ t = Exhausted(r)
    \/ /\ r.status \in {"queued", "running"} /\ ~r.cancel
       /\ r.attempts < r.budget
       /\ \E w \in Worker, a \in Nat : t = Claimed(r, w, a)
    \/ /\ r.status = "running"
       /\ \E p \in 0..MaxProgress, a \in Nat :
            p >= r.progress /\ p < MaxProgress /\ t = Heartbeaten(r, p, a)
    \/ r.status = "running" /\ ~r.cancel /\ t = Succeeded(r)
    \/ /\ r.status = "running" /\ ~r.cancel /\ r.attempts < r.budget
       /\ \E d \in Int : t = Requeued(r, d)
    \/ r.status = "running" /\ ~r.cancel /\ t = Failed(r)
    \/ /\ r.status = "failed" /\ r.attempts < HardLimit
       /\ \E a \in Nat : t = Retried(r, a)

\* Only the row a session has locked changes, and it changes from its current
\* value by one of the transitions.
LEMMA LockedChange ==
    ASSUME IInv, NEW j \in Job, NEW t, RowChange(job[j], t), Write(j, t)
    PROVE  \A k \in Job : RowChange(job[k], job'[k])
<1>1. \A k \in Job : job'[k] = IF k = j THEN t ELSE job[k]
  BY DEF IInv, TypeOK, Write
<1>2. \A k \in Job : RowChange(job[k], job[k])
  BY DEF RowChange
<1>3. QED BY <1>1, <1>2

\* A table that is left alone has changed no row.
LEMMA SameTable ==
    ASSUME job' = job PROVE \A k \in Job : RowChange(job[k], job'[k])
BY DEF RowChange

\* What one worker commits changes a row in one of the permitted ways.
LEMMA WorkerRowChange ==
    ASSUME IInv, NEW w \in Worker, WorkerStep(w)
    PROVE  \A k \in Job : RowChange(job[k], job'[k])
<1> DEFINE j == call[w].job
           r == call[w].row
<1>1. CASE ClaimContinue(w)
  <2>1. /\ j \in Job /\ r = job[j] /\ call[w].op = "claim" /\ j # NoJob
        /\ r.status \in {"queued", "running"}
    BY <1>1, HoldsRow DEF ClaimContinue, Session, Holds, IInv, CallInv
  <2>2. \E t : RowChange(job[j], t) /\ Write(j, t)
    BY <1>1, <2>1 DEF ClaimContinue, RowChange
  <2>3. QED BY <2>1, <2>2, LockedChange
<1>2. CASE ClaimCommit(w)
  <2>1. /\ j \in Job /\ r = job[j] /\ call[w].op = "claim" /\ j # NoJob
        /\ r.status \in {"queued", "running"} /\ call[w].age \in Nat
    BY <1>2, HoldsRow DEF ClaimCommit, Session, Holds, IInv, CallInv
  <2>2. \E t : RowChange(job[j], t) /\ Write(j, t)
    BY <1>2, <2>1 DEF ClaimCommit, RowChange
  <2>3. QED BY <2>1, <2>2, LockedChange
<1>3. CASE HeartbeatCommit(w)
  <2>1. /\ j \in Job /\ r = job[j] /\ r.status = "running"
        /\ call[w].age \in Nat /\ call[w].arg \in 0..MaxProgress
    BY <1>3, HoldsRow DEF HeartbeatCommit, OwnedRunning, Session
  <2>2. \E t : RowChange(job[j], t) /\ Write(j, t)
    BY <1>3, <2>1 DEF HeartbeatCommit, RowChange
  <2>3. QED BY <2>1, <2>2, LockedChange
<1>4. CASE SucceedCommit(w)
  <2>1. j \in Job /\ r = job[j] /\ r.status = "running"
    BY <1>4, HoldsRow DEF SucceedCommit, OwnedRunning, Session
  <2>2. \E t : RowChange(job[j], t) /\ Write(j, t)
    BY <1>4, <2>1 DEF SucceedCommit, RowChange
  <2>3. QED BY <2>1, <2>2, LockedChange
<1>5. CASE FailCommit(w)
  <2>1. /\ j \in Job /\ r = job[j] /\ r.status = "running" /\ call[w].op = "fail"
        /\ call[w].age \in Nat
    BY <1>5, HoldsRow DEF FailCommit, OwnedRunning, Session
  <2>2. run[w].attempt \in Nat /\ run[w].attempt >= 1
    BY <2>1 DEF IInv, TypeOK, CallInv, RunInv, Context
  <2>3. RetryDelayAfter(run[w].attempt) - call[w].age \in Int
    BY <2>1, <2>2, RetryDelayType
  <2>4. \E t : RowChange(job[j], t) /\ Write(j, t)
    BY <1>5, <2>1, <2>3 DEF FailCommit, RowChange
  <2>5. QED BY <2>1, <2>4, LockedChange
<1>6. CASE job' = job
  BY <1>6, SameTable
<1>7. QED
  BY <1>1, <1>2, <1>3, <1>4, <1>5, <1>6
     DEF WorkerStep, ClaimStart, ClaimSelect, ClaimNothing, HeartbeatStart, SucceedStart,
         FailStart, HeartbeatRaise, Conflict

\* Every step changes each row in one of the permitted ways.
LEMMA RowChanges ==
    ASSUME IInv, [Next]_vars
    PROVE  \A k \in Job : RowChange(job[k], job'[k])
<1>1. ASSUME NEW w \in Worker, WorkerStep(w) \/ Crash(w)
      PROVE  \A k \in Job : RowChange(job[k], job'[k])
  BY <1>1, WorkerRowChange, SameTable DEF Crash
<1>2. ASSUME NEW c \in Client, ClientStep(c)
      PROVE  \A k \in Job : RowChange(job[k], job'[k])
  <2> DEFINE j == call[c].job
             r == call[c].row
  <2>1. CASE EnqueueCommit(c)
    <3>1. j \in Job
      BY <2>1 DEF EnqueueCommit, IInv, CallInv
    <3>2. \E t : RowChange(job[j], t) /\ Write(j, t)
      BY <2>1 DEF EnqueueCommit, RowChange
    <3>3. QED BY <3>1, <3>2, LockedChange
  <2>2. CASE RequestCancelCommit(c)
    <3>1. j \in Job /\ r = job[j]
      BY <2>2, HoldsRow DEF RequestCancelCommit, Session
    <3>2. job' = job \/ \E t : RowChange(job[j], t) /\ Write(j, t)
      BY <2>2, <3>1 DEF RequestCancelCommit, RowChange
    <3>3. QED BY <3>1, <3>2, LockedChange, SameTable
  <2>3. CASE RetryFailedCommit(c)
    <3>1. j \in Job /\ r = job[j] /\ call[c].age \in Nat
      BY <2>3, HoldsRow DEF RetryFailedCommit, Session
    <3>2. \E t : RowChange(job[j], t) /\ Write(j, t)
      BY <2>3, <3>1 DEF RetryFailedCommit, RowChange
    <3>3. QED BY <3>1, <3>2, LockedChange
  <2>4. CASE job' = job
    BY <2>4, SameTable
  <2>5. QED BY <1>2, <2>1, <2>2, <2>3, <2>4 DEF ClientStep, EnqueueStage, OperatorStart
<1>3. CASE Tick
  BY <1>3 DEF Tick, RowChange
<1>4. CASE job' = job
  BY <1>4, SameTable
<1>5. QED BY <1>1, <1>2, <1>3, <1>4 DEF Next, vars, LockRow

-----------------------------------------------------------------------------
(* The row invariant: a valid row, within the hard limit, whose            *)
(* cancellation flag is set only while it runs or once it is cancelled;    *)
(* a waiting row has no progress, so a claim leaves it below 100 percent.  *)

RowGood(r) ==
    /\ RowValid(r)
    /\ r.budget <= HardLimit
    /\ r.cancel => r.status \in {"running", "cancelled"}
    /\ r.status \in {"absent", "queued"} => r.progress = 0
    /\ r.status = "absent" => r.attempts = 0

\* Every transition keeps a good row good, hands no attempt back and drops no
\* accepted cancellation.
LEMMA RowGoodStep ==
    ASSUME NEW r \in Row, RowGood(r), NEW t, RowChange(r, t)
    PROVE  RowGood(t) /\ t.attempts >= r.attempts
           /\ (r.cancel => t.cancel /\ t.status \in {r.status, "cancelled"})
<1> USE DEF RowGood, RowValid, Terminal
<1>0. /\ r.attempts \in Nat /\ r.budget \in Nat /\ r.progress \in 0..MaxProgress
      /\ HardLimit \in Nat /\ PolicyAttempts \in Nat /\ PolicyAttempts <= HardLimit
      /\ MaxProgress \in Nat
  BY PolicyAssumption DEF Row
<1>1. CASE t = r
  BY <1>0, <1>1
<1>2. CASE t = Aged(r)
  BY <1>0, <1>2 DEF Aged, Row
<1>3. CASE r.status = "absent" /\ t = NewRow
  BY <1>0, <1>3 DEF NewRow, NoRow
<1>4. CASE (r.status = "queued" \/ (r.status = "running" /\ r.cancel)) /\ t = Cancelled(r)
  BY <1>0, <1>4 DEF Cancelled, Row
<1>5. CASE r.status = "running" /\ t = [r EXCEPT !.cancel = TRUE]
  BY <1>0, <1>5 DEF Row
<1>6. CASE /\ r.status \in {"queued", "running"} /\ ~r.cancel
           /\ r.attempts >= r.budget /\ t = Exhausted(r)
  BY <1>0, <1>6 DEF Exhausted, Row
<1>7. CASE /\ r.status \in {"queued", "running"} /\ ~r.cancel
           /\ r.attempts < r.budget
           /\ \E w \in Worker, a \in Nat : t = Claimed(r, w, a)
  <2>1. PICK w \in Worker, a \in Nat : t = Claimed(r, w, a)
    BY <1>7
  <2>2. w # NoOne
    BY SessionAssumption
  <2>3. r.progress < MaxProgress /\ ~r.result
    BY <1>0, <1>7, PolicyAssumption
  <2>4. /\ t.status = "running" /\ t.owner = w /\ t.started = TRUE /\ t.finished = FALSE
        /\ t.error = "none" /\ t.attempts = r.attempts + 1 /\ t.budget = r.budget
        /\ t.progress = r.progress /\ t.result = r.result /\ t.cancel = r.cancel
    BY <2>1 DEF Claimed, Row
  <2>5. QED BY <1>0, <1>7, <2>2, <2>3, <2>4
<1>8. CASE /\ r.status = "running"
           /\ \E p \in 0..MaxProgress, a \in Nat :
                p >= r.progress /\ p < MaxProgress /\ t = Heartbeaten(r, p, a)
  BY <1>0, <1>8 DEF Heartbeaten, Row
<1>9. CASE r.status = "running" /\ ~r.cancel /\ t = Succeeded(r)
  BY <1>0, <1>9 DEF Succeeded, Row
<1>10. CASE /\ r.status = "running" /\ ~r.cancel /\ r.attempts < r.budget
            /\ \E d \in Int : t = Requeued(r, d)
  BY <1>0, <1>10 DEF Requeued, Row
<1>11. CASE r.status = "running" /\ ~r.cancel /\ t = Failed(r)
  BY <1>0, <1>11 DEF Failed, Row
<1>12. CASE /\ r.status = "failed" /\ r.attempts < HardLimit
            /\ \E a \in Nat : t = Retried(r, a)
  BY <1>0, <1>12 DEF Retried, Row
<1>13. QED
  BY <1>1, <1>2, <1>3, <1>4, <1>5, <1>6, <1>7, <1>8, <1>9, <1>10, <1>11, <1>12
     DEF RowChange

\* Every row of the table is good.
RowsGood == \A j \in Job : RowGood(job[j])

\* The row invariant holds initially.
LEMMA RowsGoodInit == Init => RowsGood
BY PolicyAssumption DEF Init, RowsGood, RowGood, RowValid, NoRow, Terminal

\* The permitted changes keep the row invariant.
LEMMA RowsGoodNext ==
    ASSUME IInv, RowsGood, [Next]_vars
    PROVE  /\ RowsGood'
           /\ \A j \in Job : /\ job'[j].attempts >= job[j].attempts
                             /\ job[j].cancel => /\ job'[j].cancel
                                                /\ job'[j].status \in {job[j].status, "cancelled"}
<1>1. \A j \in Job : job[j] \in Row /\ RowGood(job[j]) /\ RowChange(job[j], job'[j])
  BY RowChanges DEF IInv, TypeOK, RowsGood
<1>2. \A j \in Job : /\ RowGood(job'[j])
                     /\ job'[j].attempts >= job[j].attempts
                     /\ job[j].cancel => /\ job'[j].cancel
                                        /\ job'[j].status \in {job[j].status, "cancelled"}
  BY <1>1, RowGoodStep
<1>3. QED BY <1>2 DEF RowsGood

\* The row invariant always holds.
LEMMA RowsGoodInvariance == Spec => []RowsGood
<1>1. QED BY RowsGoodInit, RowsGoodNext, Invariance, PTL DEF Spec

\* Every row the repository stores passes validate_lifecycle, also the exhausted
\* one that claim_next stores without validation.
THEOREM StoredRowsValid == Spec => []RowsValid
<1>1. RowsGood => RowsValid
  BY DEF RowsGood, RowGood, RowsValid
<1>2. QED BY <1>1, RowsGoodInvariance, PTL

\* No step of any session loses an accepted cancellation.
THEOREM CancellationKept == Spec => CancellationSticks
<1>1. IInv /\ RowsGood /\ [Next]_vars =>
        [\A j \in Job : job[j].cancel =>
            job'[j].cancel /\ job'[j].status \in {job[j].status, "cancelled"}]_vars
  BY RowsGoodNext
<1>2. QED BY <1>1, Invariance, RowsGoodInvariance, PTL DEF Spec, CancellationSticks

\* Neither automatic nor manual retries exceed MAX_BACKGROUND_JOB_ATTEMPTS.
THEOREM BoundedAttempts == Spec => AttemptsBounded
<1>1. RowsGood => \A j \in Job : job[j].budget <= HardLimit
  BY DEF RowsGood, RowGood
<1>2. IInv /\ RowsGood /\ [Next]_vars =>
        [\A j \in Job : job'[j].attempts >= job[j].attempts]_vars
  BY RowsGoodNext
<1>3. QED BY <1>1, <1>2, Invariance, RowsGoodInvariance, PTL DEF Spec, AttemptsBounded

\* Whoever commits while executing an attempt is executing the row's own.
Authorised ==
    \A j \in Job, w \in Worker :
        lock[j] = w /\ lock'[j] = NoOne /\ job'[j] # job[j] /\ run[w] # NoRun
            => job[j].status = "running" /\ job[j].attempts = run[w].attempt

\* A session that returns releases its own lock only.
LEMMA ForeignReturn ==
    ASSUME IInv, NEW s \in Session, NEW k \in Job, lock[k] = s,
           lock' = [lock EXCEPT ![k] = NoOne],
           NEW w \in Worker, NEW j \in Job, lock[j] = w, lock'[j] = NoOne
    PROVE  w = s /\ j = k
BY SessionAssumption DEF IInv, TypeOK, LockInv, Session

\* A worker that commits a change of a row it runs is in the current attempt of the row.
LEMMA AuthorisedStep ==
    ASSUME IInv, [Next]_vars PROVE Authorised
<1> SUFFICES ASSUME NEW j \in Job, NEW w \in Worker, lock[j] = w, lock'[j] = NoOne,
                    job'[j] # job[j], run[w] # NoRun
             PROVE  job[j].status = "running" /\ job[j].attempts = run[w].attempt
  BY DEF Authorised
<1>0. w # NoOne /\ w \in Session
  BY SessionAssumption DEF Session
<1>1. call[w].op # "claim"
  BY DEF IInv, CallInv
<1>2. ASSUME NEW v \in Worker,
             HeartbeatCommit(v) \/ SucceedCommit(v) \/ FailCommit(v)
      PROVE  job[j].status = "running" /\ job[j].attempts = run[w].attempt
  <2>1. /\ call[v].job \in Job /\ lock[call[v].job] = v
        /\ call[v].row = job[call[v].job] /\ OwnedRunning(v)
        /\ call[v].op \in {"heartbeat", "succeed", "fail"}
        /\ lock' = [lock EXCEPT ![call[v].job] = NoOne]
    BY <1>2, HoldsRow DEF HeartbeatCommit, SucceedCommit, FailCommit, Return, Session
  <2>2. v = w /\ call[v].job = j
    BY <2>1, ForeignReturn DEF Session
  <2>3. job[j].status = "running" /\ job[j].owner = w
    BY <2>1, <2>2 DEF OwnedRunning
  <2>4. j = run[w].job
    BY <2>1, <2>2 DEF IInv, CallInv
  <2>5. QED BY <2>3, <2>4 DEF IInv, LeaseMatchesAttempt
<1>3. ASSUME NEW v \in Worker, ClaimContinue(v) \/ ClaimCommit(v) PROVE FALSE
  <2>1. /\ call[v].job \in Job /\ lock[call[v].job] = v /\ call[v].op = "claim"
        /\ lock' = [lock EXCEPT ![call[v].job] = NoOne]
    BY <1>3, HoldsRow DEF ClaimContinue, ClaimCommit, Return, Session
  <2>2. QED BY <1>1, <2>1, ForeignReturn DEF Session
<1>4. ASSUME NEW c \in Client, RequestCancelCommit(c) \/ RetryFailedCommit(c) PROVE FALSE
  <2>1. /\ call[c].job \in Job /\ lock[call[c].job] = c
        /\ lock' = [lock EXCEPT ![call[c].job] = NoOne]
    BY <1>4, HoldsRow DEF RequestCancelCommit, RetryFailedCommit, Return, Session
  <2>2. QED BY <2>1, ForeignReturn, SessionAssumption DEF Session
<1>5. CASE lock' = lock
  BY <1>0, <1>5
<1>6. ASSUME NEW v \in Worker, WorkerStep(v)
      PROVE  job[j].status = "running" /\ job[j].attempts = run[w].attempt
  BY <1>2, <1>3, <1>5, <1>6
     DEF WorkerStep, ClaimStart, ClaimSelect, ClaimNothing, HeartbeatStart, SucceedStart,
         FailStart, HeartbeatRaise, Conflict
<1>7. ASSUME NEW c \in Client, ClientStep(c)
      PROVE  job[j].status = "running" /\ job[j].attempts = run[w].attempt
  BY <1>4, <1>5, <1>7 DEF ClientStep, EnqueueStage, EnqueueCommit, OperatorStart
<1>8. QED BY <1>5, <1>6, <1>7 DEF Next, vars, Crash, LockRow, Tick

\* A worker whose lease was reclaimed, cancelled or retried writes nothing.
THEOREM StaleWorkersRejected == Spec => StaleWorkerRejected
<1>1. IInv /\ [Next]_vars => [Authorised]_vars
  BY AuthorisedStep
<1>2. QED BY <1>1, Invariance, PTL DEF Spec, StaleWorkerRejected, Authorised

-----------------------------------------------------------------------------
(* The queue implements the atomic life cycle: a step simulation.          *)

\* A job that was not inserted yet has the attempts of its policy.
AbsentBudget == \A j \in Job : job[j].status = "absent" => job[j].budget = PolicyAttempts

\* No transition leads back to the absent status, and time changes no budget.
LEMMA AbsentBudgetStep ==
    ASSUME IInv, AbsentBudget, [Next]_vars
    PROVE  AbsentBudget'
<1> SUFFICES ASSUME NEW k \in Job, job'[k].status = "absent"
             PROVE  job'[k].budget = PolicyAttempts
  BY DEF AbsentBudget
<1>1. RowChange(job[k], job'[k]) /\ job[k] \in Row
  BY RowChanges DEF IInv, TypeOK
<1>2. job'[k] = job[k] \/ job'[k] = Aged(job[k])
  <2>1. \A a \in Nat : Retried(job[k], a).status = "queued"
    BY <1>1 DEF Retried, Row
  <2>2. \A w \in Worker, a \in Nat : Claimed(job[k], w, a).status = "running"
    BY <1>1 DEF Claimed, Row
  <2>3. \A p \in 0..MaxProgress, a \in Nat : Heartbeaten(job[k], p, a).status = job[k].status
    BY <1>1 DEF Heartbeaten, Row
  <2>4. \A d \in Int : Requeued(job[k], d).status = "queued"
    BY <1>1 DEF Requeued, Row
  <2>5. /\ NewRow.status = "queued" /\ Cancelled(job[k]).status = "cancelled"
        /\ Exhausted(job[k]).status = "failed" /\ Succeeded(job[k]).status = "succeeded"
        /\ Failed(job[k]).status = "failed"
        /\ [job[k] EXCEPT !.cancel = TRUE].status = job[k].status
    BY <1>1 DEF NewRow, NoRow, Cancelled, Exhausted, Succeeded, Failed, Row
  <2>6. QED BY <1>1, <2>1, <2>2, <2>3, <2>4, <2>5 DEF RowChange
<1>3. Aged(job[k]).status = job[k].status /\ Aged(job[k]).budget = job[k].budget
  BY <1>1 DEF Aged, Row
<1>4. QED BY <1>2, <1>3 DEF AbsentBudget

\* What the simulation knows of every state.
SimInv == IInv /\ RowsGood /\ AbsentBudget

\* The simulation's invariant holds in every behaviour.
LEMMA SimInvariance == Spec => []SimInv
<1>1. Init => AbsentBudget
  BY DEF Init, AbsentBudget, NoRow
<1>2. IInv /\ AbsentBudget /\ [Next]_vars => AbsentBudget'
  BY AbsentBudgetStep
<1>3. QED BY <1>1, <1>2, Invariance, RowsGoodInvariance, PTL DEF Spec, SimInv

\* A row of the life cycle, by its fields.
LifeRow(status, progress, attempts, budget, owner, cancel) ==
    [status |-> status, progress |-> progress, attempts |-> attempts,
     budget |-> budget, owner |-> owner, cancel |-> cancel]

LifeRows == [status : Status, progress : 0..MaxProgress, attempts : Nat, budget : Nat,
             owner : Worker \cup {NoOne}, cancel : BOOLEAN]

\* A row of the life cycle is determined by its six fields.
LEMMA LifeRowFields ==
    ASSUME NEW q \in LifeRows, NEW s, NEW p, NEW a, NEW b, NEW o, NEW c,
           q.status = s, q.progress = p, q.attempts = a,
           q.budget = b, q.owner = o, q.cancel = c
    PROVE  q = LifeRow(s, p, a, b, o, c)
BY DEF LifeRows, LifeRow

\* What an update of some fields leaves of a row, once for each kind of update:
\* the lemmas below prove these equations, the simulation cites them by name.
HeartbeatEdited(f, j, p) ==
    [f EXCEPT ![j].progress = p]
      = [f EXCEPT ![j] = LifeRow(f[j].status, p, f[j].attempts, f[j].budget,
                                 f[j].owner, f[j].cancel)]
ClaimEdited(f, j, w) ==
    [f EXCEPT ![j].status = "running", ![j].owner = w, ![j].attempts = @ + 1]
      = [f EXCEPT ![j] = LifeRow("running", f[j].progress, f[j].attempts + 1,
                                 f[j].budget, w, f[j].cancel)]
EnqueueEdited(f, j) ==
    [f EXCEPT ![j].status = "queued"]
      = [f EXCEPT ![j] = LifeRow("queued", f[j].progress, f[j].attempts,
                                 f[j].budget, f[j].owner, f[j].cancel)]
CancelEdited(f, j) ==
    [f EXCEPT ![j].cancel = TRUE, ![j].status = IF @ = "queued" THEN "cancelled" ELSE @]
      = [f EXCEPT ![j] = LifeRow(IF f[j].status = "queued" THEN "cancelled" ELSE f[j].status,
                                 f[j].progress, f[j].attempts, f[j].budget,
                                 f[j].owner, TRUE)]
RetryEdited(f, j) ==
    [f EXCEPT ![j].status = "queued", ![j].progress = 0,
              ![j].budget = f[j].attempts + 1, ![j].cancel = FALSE]
      = [f EXCEPT ![j] = LifeRow("queued", 0, f[j].attempts, f[j].attempts + 1,
                                 f[j].owner, FALSE)]

\* A claim writes three fields.
LEMMA ClaimEdit ==
    ASSUME NEW f \in [Job -> LifeRows], NEW j \in Job, NEW w \in Worker
    PROVE  ClaimEdited(f, j, w)
<1> DEFINE r == f[j]
           s == "running"
           a == r.attempts + 1
           q == [r EXCEPT !.status = s, !.owner = w, !.attempts = a]
<1>1. [f EXCEPT ![j].status = "running", ![j].owner = w, ![j].attempts = @ + 1]
        = [f EXCEPT ![j] = q]
  OBVIOUS
<1>2. r \in LifeRows /\ s \in Status /\ a \in Nat
  BY DEF LifeRows, Status
<1> HIDE DEF r, s, a
<1>3. /\ q \in LifeRows
      /\ q.status = s /\ q.progress = r.progress /\ q.attempts = a
      /\ q.budget = r.budget /\ q.owner = w /\ q.cancel = r.cancel
  BY <1>2 DEF LifeRows
<1> HIDE DEF q
<1>4. q = LifeRow(s, r.progress, a, r.budget, w, r.cancel)
  BY <1>3, LifeRowFields
<1>5. QED BY <1>1, <1>4 DEF ClaimEdited, r, s, a

\* A manual retry writes four fields.
LEMMA RetryEdit ==
    ASSUME NEW f \in [Job -> LifeRows], NEW j \in Job
    PROVE  RetryEdited(f, j)
<1> DEFINE r == f[j]
           s == "queued"
           p == 0
           b == r.attempts + 1
           c == FALSE
           q == [r EXCEPT !.status = s, !.progress = p, !.budget = b, !.cancel = c]
<1>1. [f EXCEPT ![j].status = "queued", ![j].progress = 0,
                ![j].budget = f[j].attempts + 1, ![j].cancel = FALSE]
        = [f EXCEPT ![j] = q]
  OBVIOUS
<1>2. r \in LifeRows /\ s \in Status /\ p \in 0..MaxProgress /\ b \in Nat /\ c \in BOOLEAN
  BY PolicyAssumption DEF LifeRows, Status
<1> HIDE DEF r, s, p, b, c
<1>3. /\ q \in LifeRows
      /\ q.status = s /\ q.progress = p /\ q.attempts = r.attempts
      /\ q.budget = b /\ q.owner = r.owner /\ q.cancel = c
  BY <1>2 DEF LifeRows
<1> HIDE DEF q
<1>4. q = LifeRow(s, p, r.attempts, b, r.owner, c)
  BY <1>3, LifeRowFields
<1>5. QED BY <1>1, <1>4 DEF RetryEdited, r, s, p, b, c

\* A cancellation request writes two fields.
LEMMA CancelEdit ==
    ASSUME NEW f \in [Job -> LifeRows], NEW j \in Job
    PROVE  CancelEdited(f, j)
<1> DEFINE r == f[j]
           s == IF r.status = "queued" THEN "cancelled" ELSE r.status
           c == TRUE
           q == [r EXCEPT !.cancel = c, !.status = s]
<1>1. [f EXCEPT ![j].cancel = TRUE, ![j].status = IF @ = "queued" THEN "cancelled" ELSE @]
        = [f EXCEPT ![j] = q]
  OBVIOUS
<1>2. r \in LifeRows /\ s \in Status /\ c \in BOOLEAN
  BY DEF LifeRows, Status
<1> HIDE DEF r, s, c
<1>3. /\ q \in LifeRows
      /\ q.status = s /\ q.progress = r.progress /\ q.attempts = r.attempts
      /\ q.budget = r.budget /\ q.owner = r.owner /\ q.cancel = c
  BY <1>2 DEF LifeRows
<1> HIDE DEF q
<1>4. q = LifeRow(s, r.progress, r.attempts, r.budget, r.owner, c)
  BY <1>3, LifeRowFields
<1>5. QED BY <1>1, <1>4 DEF CancelEdited, r, s, c

\* An insert writes the status.
LEMMA EnqueueEdit ==
    ASSUME NEW f \in [Job -> LifeRows], NEW j \in Job
    PROVE  EnqueueEdited(f, j)
<1> DEFINE r == f[j]
           s == "queued"
           q == [r EXCEPT !.status = s]
<1>1. [f EXCEPT ![j].status = "queued"]
        = [f EXCEPT ![j] = q]
  OBVIOUS
<1>2. r \in LifeRows /\ s \in Status
  BY DEF LifeRows, Status
<1> HIDE DEF r, s
<1>3. /\ q \in LifeRows
      /\ q.status = s /\ q.progress = r.progress /\ q.attempts = r.attempts
      /\ q.budget = r.budget /\ q.owner = r.owner /\ q.cancel = r.cancel
  BY <1>2 DEF LifeRows
<1> HIDE DEF q
<1>4. q = LifeRow(s, r.progress, r.attempts, r.budget, r.owner, r.cancel)
  BY <1>3, LifeRowFields
<1>5. QED BY <1>1, <1>4 DEF EnqueueEdited, r, s

\* A heartbeat writes the progress.
LEMMA HeartbeatEdit ==
    ASSUME NEW f \in [Job -> LifeRows], NEW j \in Job, NEW p \in 0..MaxProgress
    PROVE  HeartbeatEdited(f, j, p)
<1> DEFINE r == f[j]
           q == [r EXCEPT !.progress = p]
<1>1. [f EXCEPT ![j].progress = p]
        = [f EXCEPT ![j] = q]
  OBVIOUS
<1>2. r \in LifeRows
  OBVIOUS
<1> HIDE DEF r
<1>3. /\ q \in LifeRows
      /\ q.status = r.status /\ q.progress = p /\ q.attempts = r.attempts
      /\ q.budget = r.budget /\ q.owner = r.owner /\ q.cancel = r.cancel
  BY <1>2 DEF LifeRows
<1> HIDE DEF q
<1>4. q = LifeRow(r.status, p, r.attempts, r.budget, r.owner, r.cancel)
  BY <1>3, LifeRowFields
<1>5. QED BY <1>1, <1>4 DEF HeartbeatEdited, r

\* What the atomic life cycle sees of a row.
LEMMA TimelessFields ==
    ASSUME IInv, NEW j \in Job
    PROVE  /\ TimelessRows[j] = LifeRow(job[j].status, job[j].progress, job[j].attempts,
                                         job[j].budget, job[j].owner, job[j].cancel)
           /\ TimelessRows[j].status = job[j].status
           /\ TimelessRows[j].progress = job[j].progress
           /\ TimelessRows[j].attempts = job[j].attempts
           /\ TimelessRows[j].budget = job[j].budget
           /\ TimelessRows[j].owner = job[j].owner
           /\ TimelessRows[j].cancel = job[j].cancel
BY DEF TimelessRows, Timeless, LifeRow

\* The rows the life cycle sees make a table of its kind.
LEMMA TimelessTable == IInv => TimelessRows \in [Job -> LifeRows]
<1> SUFFICES ASSUME IInv, NEW j \in Job PROVE Timeless(job[j]) \in LifeRows
  BY DEF TimelessRows
<1>1. job[j] \in Row
  BY DEF IInv, TypeOK
<1>2. QED BY <1>1 DEF Timeless, Row, LifeRows

\* A written row shows up as one row of the life cycle.
LEMMA TimelessWrite ==
    ASSUME IInv, NEW j \in Job, NEW t, Write(j, t)
    PROVE  TimelessRows' = [TimelessRows EXCEPT ![j] = Timeless(t)]
<1>1. \A k \in Job : job'[k] = IF k = j THEN t ELSE job[k]
  BY DEF IInv, TypeOK, Write
<1>2. QED BY <1>1 DEF TimelessRows

\* What the life cycle sees of each transition.
LEMMA TimelessTransitions ==
    ASSUME NEW r \in Row
    PROVE  /\ \A w \in Worker, a \in Nat : Timeless(Claimed(r, w, a)) =
                LifeRow("running", r.progress, r.attempts + 1, r.budget, w, r.cancel)
           /\ \A p \in 0..MaxProgress, a \in Nat : Timeless(Heartbeaten(r, p, a)) =
                LifeRow(r.status, p, r.attempts, r.budget, r.owner, r.cancel)
           /\ Timeless(Succeeded(r)) =
                LifeRow("succeeded", MaxProgress, r.attempts, r.budget, NoOne, r.cancel)
           /\ \A d \in Int : Timeless(Requeued(r, d)) =
                LifeRow("queued", 0, r.attempts, r.budget, NoOne, r.cancel)
           /\ Timeless(Failed(r)) =
                LifeRow("failed", r.progress, r.attempts, r.budget, NoOne, r.cancel)
           /\ Timeless(Exhausted(r)) =
                LifeRow("failed", r.progress, r.attempts, r.budget, NoOne, r.cancel)
           /\ Timeless(Cancelled(r)) =
                LifeRow("cancelled", r.progress, r.attempts, r.budget, NoOne, TRUE)
           /\ Timeless([r EXCEPT !.cancel = TRUE]) =
                LifeRow(r.status, r.progress, r.attempts, r.budget, r.owner, TRUE)
           /\ \A a \in Nat : Timeless(Retried(r, a)) =
                LifeRow("queued", 0, r.attempts, r.attempts + 1, r.owner, FALSE)
<1>1. \A w \in Worker, a \in Nat : Timeless(Claimed(r, w, a)) =
        LifeRow("running", r.progress, r.attempts + 1, r.budget, w, r.cancel)
  BY DEF Timeless, LifeRow, Claimed, Row
<1>2. \A p \in 0..MaxProgress, a \in Nat : Timeless(Heartbeaten(r, p, a)) =
        LifeRow(r.status, p, r.attempts, r.budget, r.owner, r.cancel)
  BY DEF Timeless, LifeRow, Heartbeaten, Row
<1>3. Timeless(Succeeded(r)) =
        LifeRow("succeeded", MaxProgress, r.attempts, r.budget, NoOne, r.cancel)
  BY DEF Timeless, LifeRow, Succeeded, Row
<1>4. \A d \in Int : Timeless(Requeued(r, d)) =
        LifeRow("queued", 0, r.attempts, r.budget, NoOne, r.cancel)
  BY DEF Timeless, LifeRow, Requeued, Row
<1>5. Timeless(Failed(r)) =
        LifeRow("failed", r.progress, r.attempts, r.budget, NoOne, r.cancel)
  BY DEF Timeless, LifeRow, Failed, Row
<1>6. Timeless(Exhausted(r)) =
        LifeRow("failed", r.progress, r.attempts, r.budget, NoOne, r.cancel)
  BY DEF Timeless, LifeRow, Exhausted, Row
<1>7. Timeless(Cancelled(r)) =
        LifeRow("cancelled", r.progress, r.attempts, r.budget, NoOne, TRUE)
  BY DEF Timeless, LifeRow, Cancelled, Row
<1>8. Timeless([r EXCEPT !.cancel = TRUE]) =
        LifeRow(r.status, r.progress, r.attempts, r.budget, r.owner, TRUE)
  BY DEF Timeless, LifeRow, Row
<1>9. \A a \in Nat : Timeless(Retried(r, a)) =
        LifeRow("queued", 0, r.attempts, r.attempts + 1, r.owner, FALSE)
  BY DEF Timeless, LifeRow, Retried, Row
<1>10. QED BY <1>1, <1>2, <1>3, <1>4, <1>5, <1>6, <1>7, <1>8, <1>9

\* The clock does not show.
LEMMA TimelessTick == ASSUME IInv, Tick PROVE UNCHANGED Lifecycle!vars
<1>1. \A r \in Row : Timeless(Aged(r)) = Timeless(r)
  BY DEF Timeless, Aged, Row
<1>2. \A j \in Job : Timeless(job'[j]) = Timeless(job[j])
  BY <1>1 DEF Tick, IInv, TypeOK
<1>3. QED BY <1>2 DEF Tick, TimelessRows, Lifecycle!vars

\* What a session that has a row locked knows of it.
LEMMA LockedRow ==
    ASSUME SimInv, NEW s \in Session, NEW op, Holds(s, op)
    PROVE  /\ call[s].job \in Job /\ call[s].op = op
           /\ call[s].row = job[call[s].job] /\ job[call[s].job] \in Row
           /\ RowValid(job[call[s].job])
           /\ call[s].age \in Nat /\ call[s].arg \in 0..MaxProgress
BY HoldsRow DEF SimInv, IInv, RowsGood, RowGood

\* A row that ends with another status and no owner.
LEMMA SettleShown ==
    ASSUME SimInv, NEW j \in Job, NEW t, Write(j, t), NEW s \in Status,
           Timeless(t) = LifeRow(s, job[j].progress, job[j].attempts, job[j].budget,
                                 NoOne, job[j].cancel)
    PROVE  TimelessRows' = [TimelessRows EXCEPT ![j].status = s, ![j].owner = NoOne]
<1> DEFINE f == TimelessRows
<1>1. f' = [f EXCEPT ![j] = LifeRow(s, f[j].progress, f[j].attempts, f[j].budget,
                                    NoOne, f[j].cancel)]
  BY TimelessWrite, TimelessFields DEF SimInv
<1>2. f \in [Job -> LifeRows]
  BY TimelessTable DEF SimInv
<1> HIDE DEF f
<1> DEFINE r == f[j]
           q == [r EXCEPT !.status = s, !.owner = NoOne]
<1>3. [f EXCEPT ![j].status = s, ![j].owner = NoOne] = [f EXCEPT ![j] = q]
  BY <1>2
<1>4. r \in LifeRows
  BY <1>2
<1> HIDE DEF r
<1>5. /\ q \in LifeRows
      /\ q.status = s /\ q.progress = r.progress /\ q.attempts = r.attempts
      /\ q.budget = r.budget /\ q.owner = NoOne /\ q.cancel = r.cancel
  BY <1>4 DEF LifeRows
<1> HIDE DEF q
<1>6. q = LifeRow(s, r.progress, r.attempts, r.budget, NoOne, r.cancel)
  BY <1>5, LifeRowFields
<1>7. QED BY <1>1, <1>3, <1>6 DEF f, r

\* A cancellation of a row that asked for it.
LEMMA CancelShown ==
    ASSUME SimInv, NEW j \in Job, job[j].cancel, Write(j, Cancelled(job[j]))
    PROVE  TimelessRows' = [TimelessRows EXCEPT ![j].status = "cancelled", ![j].owner = NoOne]
<1>1. job[j] \in Row /\ job[j].cancel = TRUE
  BY DEF SimInv, IInv, TypeOK, Row
<1>2. Timeless(Cancelled(job[j])) = LifeRow("cancelled", job[j].progress, job[j].attempts,
                                            job[j].budget, NoOne, job[j].cancel)
  BY <1>1, TimelessTransitions
<1>3. QED BY <1>2, SettleShown DEF Status

\* A row that leaves its worker with another status and progress.
LEMMA LeaveShown ==
    ASSUME SimInv, NEW j \in Job, NEW t, Write(j, t), NEW s \in Status, NEW p \in 0..MaxProgress,
           Timeless(t) = LifeRow(s, p, job[j].attempts, job[j].budget, NoOne, job[j].cancel)
    PROVE  Lifecycle!Leave(j, s, p)
<1> DEFINE f == TimelessRows
<1>1. f' = [f EXCEPT ![j] = LifeRow(s, p, f[j].attempts, f[j].budget, NoOne, f[j].cancel)]
  BY TimelessWrite, TimelessFields DEF SimInv
<1>2. f \in [Job -> LifeRows]
  BY TimelessTable DEF SimInv
<1> HIDE DEF f
<1> DEFINE r == f[j]
           q == [r EXCEPT !.status = s, !.progress = p, !.owner = NoOne]
<1>3. [f EXCEPT ![j].status = s, ![j].progress = p, ![j].owner = NoOne]
        = [f EXCEPT ![j] = q]
  BY <1>2
<1>4. r \in LifeRows
  BY <1>2
<1> HIDE DEF r
<1>5. /\ q \in LifeRows
      /\ q.status = s /\ q.progress = p /\ q.attempts = r.attempts
      /\ q.budget = r.budget /\ q.owner = NoOne /\ q.cancel = r.cancel
  BY <1>4 DEF LifeRows
<1> HIDE DEF q
<1>6. q = LifeRow(s, p, r.attempts, r.budget, NoOne, r.cancel)
  BY <1>5, LifeRowFields
<1>7. QED BY <1>1, <1>3, <1>6 DEF f, r, Lifecycle!Leave

\* claim_next starts an attempt.
LEMMA ClaimSimulated ==
    ASSUME SimInv, NEW w \in Worker, ClaimCommit(w)
    PROVE  \E j \in Job : Lifecycle!Claim(w, j)
<1> DEFINE j == call[w].job
           r == job[j]
           t == Claimed(r, w, call[w].age)
<1>1. /\ j \in Job /\ r \in Row /\ call[w].row = r /\ call[w].op = "claim"
      /\ call[w].age \in Nat
  BY LockedRow DEF ClaimCommit, Session
<1>2. r.status \in {"queued", "running"} /\ run[w] = NoRun
  BY <1>1, SessionAssumption DEF SimInv, IInv, CallInv
<1>3. ~r.cancel /\ r.attempts < r.budget /\ Write(j, t)
      /\ run' = [run EXCEPT ![w] = [job |-> j, attempt |-> r.attempts + 1]]
  BY <1>1 DEF ClaimCommit, Claimed, Row
<1>4. Timeless(t) = LifeRow("running", r.progress, r.attempts + 1, r.budget, w, r.cancel)
  BY <1>1, TimelessTransitions
<1>5. TimelessRows' = [TimelessRows EXCEPT ![j] = Timeless(t)]
  BY <1>1, <1>3, TimelessWrite DEF SimInv
<1>6. TimelessRows' = [TimelessRows EXCEPT ![j].status = "running", ![j].owner = w,
                                           ![j].attempts = @ + 1]
  <2> DEFINE f == TimelessRows
  <2>1. f' = [f EXCEPT ![j] = LifeRow("running", f[j].progress, f[j].attempts + 1,
                                      f[j].budget, w, f[j].cancel)]
    BY <1>1, <1>4, <1>5, TimelessFields DEF SimInv
  <2>2. f \in [Job -> LifeRows]
    BY TimelessTable DEF SimInv
  <2> HIDE DEF f, j
  <2>3. [f EXCEPT ![j].status = "running", ![j].owner = w, ![j].attempts = @ + 1]
          = [f EXCEPT ![j] = LifeRow("running", f[j].progress, f[j].attempts + 1,
                                     f[j].budget, w, f[j].cancel)]
    <3>1. f \in [Job -> LifeRows] /\ j \in Job
      BY <1>1, <2>2
    <3>2. ClaimEdited(f, j, w)
      BY <3>1, ClaimEdit
    <3>3. QED BY <3>2 DEF ClaimEdited
  <2>4. QED BY <2>1, <2>3 DEF f
<1>7. QED
  BY <1>1, <1>2, <1>3, <1>6, TimelessFields
     DEF SimInv, Lifecycle!Claim, Lifecycle!Idle, Lifecycle!NoRun, Lifecycle!Open, NoRun

\* claim_next settles the row it may not start.
LEMMA SettleSimulated ==
    ASSUME SimInv, NEW w \in Worker, ClaimContinue(w)
    PROVE  \E j \in Job : Lifecycle!Settle(j)
<1> DEFINE j == call[w].job
           r == job[j]
<1>1. j \in Job /\ r \in Row /\ call[w].row = r /\ call[w].op = "claim" /\ run' = run
  BY LockedRow DEF ClaimContinue, Session
<1>2. r.status \in {"queued", "running"}
  BY <1>1, SessionAssumption DEF SimInv, IInv, CallInv
<1>3. CASE r.cancel /\ Write(j, Cancelled(r))
  <2>1. TimelessRows' = [TimelessRows EXCEPT ![j].status = "cancelled", ![j].owner = NoOne]
    BY <1>1, <1>3, CancelShown
  <2>2. QED
    BY <1>1, <1>2, <1>3, <2>1, TimelessFields DEF SimInv, Lifecycle!Settle, Lifecycle!Open
<1>4. CASE ~r.cancel /\ r.attempts >= r.budget /\ Write(j, Exhausted(r))
  <2>1. Timeless(Exhausted(r))
          = LifeRow("failed", r.progress, r.attempts, r.budget, NoOne, r.cancel)
    BY <1>1, TimelessTransitions
  <2>2. TimelessRows' = [TimelessRows EXCEPT ![j].status = "failed", ![j].owner = NoOne]
    BY <1>1, <1>4, <2>1, SettleShown DEF Status
  <2>3. QED
    BY <1>1, <1>2, <1>4, <2>2, TimelessFields DEF SimInv, Lifecycle!Settle, Lifecycle!Open
<1>5. QED BY <1>1, <1>3, <1>4 DEF ClaimContinue

\* Who passes _owned_running owns the row of its run in the life cycle.
LEMMA OwnsSimulated ==
    ASSUME SimInv, NEW w \in Worker, NEW op \in {"heartbeat", "succeed", "fail"},
           Holds(w, op), OwnedRunning(w)
    PROVE  Lifecycle!Owns(w) /\ run[w].job = call[w].job
<1>1. /\ call[w].job \in Job /\ call[w].op = op /\ call[w].row = job[call[w].job]
  BY LockedRow DEF Session
<1>2. run[w] # NoRun /\ call[w].job = run[w].job
  BY <1>1 DEF SimInv, IInv, CallInv
<1>3. QED
  BY <1>1, <1>2, TimelessFields
     DEF SimInv, OwnedRunning, Lifecycle!Owns, Lifecycle!Idle, Lifecycle!NoRun, NoRun

\* heartbeat stores a progress that does not move back.
LEMMA HeartbeatSimulated ==
    ASSUME SimInv, NEW w \in Worker, HeartbeatCommit(w)
    PROVE  \E p \in 0..(MaxProgress - 1) : Lifecycle!Heartbeat(w, p)
<1> DEFINE j == call[w].job
           r == job[j]
           p == call[w].arg
           t == Heartbeaten(r, p, call[w].age)
<1>1. /\ j \in Job /\ r \in Row /\ call[w].row = r
      /\ call[w].age \in Nat /\ p \in 0..MaxProgress
  BY LockedRow DEF HeartbeatCommit, Session
<1>2. Lifecycle!Owns(w) /\ run[w].job = j
  BY OwnsSimulated DEF HeartbeatCommit
<1>3. p >= r.progress /\ p < MaxProgress /\ Write(j, t) /\ run' = run
  BY <1>1 DEF HeartbeatCommit
<1>4. Timeless(t) = LifeRow(r.status, p, r.attempts, r.budget, r.owner, r.cancel)
  BY <1>1, TimelessTransitions
<1>5. TimelessRows' = [TimelessRows EXCEPT ![j] = Timeless(t)]
  BY <1>1, <1>3, TimelessWrite DEF SimInv
<1>6. p \in 0..(MaxProgress - 1)
  BY <1>1, <1>3, PolicyAssumption
<1>7. TimelessRows' = [TimelessRows EXCEPT ![j].progress = p]
  <2> DEFINE f == TimelessRows
  <2>1. f' = [f EXCEPT ![j] = LifeRow(f[j].status, p, f[j].attempts, f[j].budget,
                                      f[j].owner, f[j].cancel)]
    BY <1>1, <1>4, <1>5, TimelessFields DEF SimInv
  <2>2. f \in [Job -> LifeRows]
    BY TimelessTable DEF SimInv
  <2> HIDE DEF f, j, p
  <2>3. [f EXCEPT ![j].progress = p]
          = [f EXCEPT ![j] = LifeRow(f[j].status, p, f[j].attempts, f[j].budget,
                                     f[j].owner, f[j].cancel)]
    <3>1. f \in [Job -> LifeRows] /\ j \in Job /\ p \in 0..MaxProgress
      BY <1>1, <2>2
    <3>2. HeartbeatEdited(f, j, p)
      BY <3>1, HeartbeatEdit
    <3>3. QED BY <3>2 DEF HeartbeatEdited
  <2>4. QED BY <2>1, <2>3 DEF f
<1>8. TimelessRows[j].progress = r.progress
  BY <1>1, TimelessFields DEF SimInv
<1> HIDE DEF p, t, j, r
<1>9. QED BY <1>2, <1>3, <1>6, <1>7, <1>8 DEF Lifecycle!Heartbeat

\* succeed ends the run, as a success or as the cancellation that was asked for.
LEMMA SucceedSimulated ==
    ASSUME SimInv, NEW w \in Worker, SucceedCommit(w)
    PROVE  Lifecycle!Succeed(w)
<1> DEFINE j == call[w].job
           r == job[j]
<1>1. j \in Job /\ r \in Row /\ call[w].row = r
  BY LockedRow DEF SucceedCommit, Session
<1>2. Lifecycle!Owns(w) /\ run[w].job = j /\ Lifecycle!Finish(w)
  BY OwnsSimulated DEF SucceedCommit, FinishRun, Lifecycle!Finish, Lifecycle!NoRun, NoRun
<1>3. TimelessRows[j].cancel = r.cancel
  BY <1>1, TimelessFields DEF SimInv
<1>4. CASE r.cancel
  <2>1. Write(j, Cancelled(r))
    BY <1>1, <1>4 DEF SucceedCommit
  <2>2. TimelessRows' = [TimelessRows EXCEPT ![j].status = "cancelled", ![j].owner = NoOne]
    BY <1>1, <1>4, <2>1, CancelShown
  <2>3. QED BY <1>2, <1>3, <1>4, <2>2 DEF Lifecycle!Succeed
<1>5. CASE ~r.cancel
  <2>1. Write(j, Succeeded(r))
    BY <1>1, <1>5 DEF SucceedCommit
  <2>2. Timeless(Succeeded(r))
          = LifeRow("succeeded", MaxProgress, r.attempts, r.budget, NoOne, r.cancel)
    BY <1>1, TimelessTransitions
  <2>3. Lifecycle!Leave(j, "succeeded", MaxProgress)
    BY <1>1, <2>1, <2>2, LeaveShown, PolicyAssumption DEF Status
  <2>4. QED BY <1>2, <1>3, <1>5, <2>3 DEF Lifecycle!Succeed
<1>6. QED BY <1>4, <1>5

\* fail ends the run: cancelled, queued again or failed.
LEMMA FailSimulated ==
    ASSUME SimInv, NEW w \in Worker, FailCommit(w)
    PROVE  \E retryable \in BOOLEAN : Lifecycle!Fail(w, retryable)
<1> DEFINE j == call[w].job
           r == job[j]
           delay == RetryDelayAfter(run[w].attempt) - call[w].age
<1>1. /\ j \in Job /\ r \in Row /\ call[w].row = r /\ call[w].age \in Nat
      /\ call[w].retry \in BOOLEAN /\ call[w].op = "fail"
  BY LockedRow DEF FailCommit, Session, SimInv, IInv, TypeOK, Call
<1>2. Lifecycle!Owns(w) /\ run[w].job = j /\ Lifecycle!Finish(w)
  BY OwnsSimulated DEF FailCommit, FinishRun, Lifecycle!Finish, Lifecycle!NoRun, NoRun
<1>3. /\ TimelessRows[j].cancel = r.cancel /\ TimelessRows[j].attempts = r.attempts
      /\ TimelessRows[j].budget = r.budget /\ TimelessRows[j].progress = r.progress
  BY <1>1, TimelessFields DEF SimInv
<1>4. delay \in Int
  <2>1. run[w] # NoRun /\ run[w].attempt >= 1 /\ run[w].attempt \in Nat
    BY <1>1 DEF SimInv, IInv, CallInv, RunInv, TypeOK, Context
  <2>2. QED BY <1>1, <2>1, RetryDelayType
<1> DEFINE again == call[w].retry /\ r.attempts < r.budget
<1> HIDE DEF delay
<1>5. CASE r.cancel /\ Write(j, Cancelled(r))
  <2>1. TimelessRows' = [TimelessRows EXCEPT ![j].status = "cancelled", ![j].owner = NoOne]
    BY <1>1, <1>5, CancelShown
  <2>2. QED BY <1>1, <1>2, <1>3, <1>5, <2>1 DEF Lifecycle!Fail
<1>6. CASE ~r.cancel /\ again /\ Write(j, Requeued(r, delay))
  <2>1. Timeless(Requeued(r, delay))
          = LifeRow("queued", 0, r.attempts, r.budget, NoOne, r.cancel)
    BY <1>1, <1>4, TimelessTransitions
  <2>2. Lifecycle!Leave(j, "queued", 0)
    BY <1>1, <1>6, <2>1, LeaveShown, PolicyAssumption DEF Status
  <2>3. QED BY <1>1, <1>2, <1>3, <1>6, <2>2 DEF Lifecycle!Fail
<1>7. CASE ~r.cancel /\ ~again /\ Write(j, Failed(r))
  <2>1. Timeless(Failed(r))
          = LifeRow("failed", r.progress, r.attempts, r.budget, NoOne, r.cancel)
    BY <1>1, TimelessTransitions
  <2>2. Lifecycle!Leave(j, "failed", r.progress)
    BY <1>1, <1>7, <2>1, LeaveShown DEF Status, Row
  <2>3. QED BY <1>1, <1>2, <1>3, <1>7, <2>2 DEF Lifecycle!Fail
<1>8. QED BY <1>1, <1>5, <1>6, <1>7 DEF FailCommit, delay

\* A run given up, or lost with its worker, writes no row.
LEMMA AbandonSimulated ==
    ASSUME SimInv, NEW w \in Worker, Conflict(w) \/ Crash(w)
    PROVE  Lifecycle!Abandon(w) \/ UNCHANGED Lifecycle!vars
<1>1. run' = [run EXCEPT ![w] = NoRun] /\ job' = job
  BY DEF Conflict, Crash, FinishRun
<1>2. TimelessRows' = TimelessRows
  BY <1>1 DEF TimelessRows
<1>3. run[w] = NoRun => run' = run
  BY <1>1 DEF SimInv, IInv, TypeOK
<1>4. QED
  BY <1>1, <1>2, <1>3 DEF Lifecycle!Abandon, Lifecycle!Idle, Lifecycle!Finish, Lifecycle!NoRun,
                          Lifecycle!vars, NoRun

\* A cancellation request cancels a waiting row and marks a running one.
LEMMA RequestCancelSimulated ==
    ASSUME SimInv, NEW c \in Client, RequestCancelCommit(c)
    PROVE  \/ \E j \in Job : Lifecycle!RequestCancel(j)
           \/ UNCHANGED Lifecycle!vars
<1> DEFINE j == call[c].job
           r == job[j]
           f == TimelessRows
           s == IF r.status = "queued" THEN "cancelled" ELSE r.status
<1>1. j \in Job /\ r \in Row /\ call[c].row = r /\ RowValid(r) /\ run' = run
  BY LockedRow DEF RequestCancelCommit, Session
<1>2. CASE job' = job
  BY <1>1, <1>2 DEF TimelessRows, Lifecycle!vars
<1>3. ASSUME NEW t, Write(j, t), r.status \in {"queued", "running"},
             Timeless(t) = LifeRow(s, r.progress, r.attempts, r.budget, r.owner, TRUE)
      PROVE  Lifecycle!RequestCancel(j)
  <2>1. f' = [f EXCEPT ![j] = LifeRow(IF f[j].status = "queued" THEN "cancelled" ELSE f[j].status,
                                      f[j].progress, f[j].attempts, f[j].budget,
                                      f[j].owner, TRUE)]
    <3>1. f' = [f EXCEPT ![j] = Timeless(t)]
      BY <1>1, <1>3, TimelessWrite DEF SimInv
    <3>2. /\ f[j].status = r.status /\ f[j].progress = r.progress
          /\ f[j].attempts = r.attempts /\ f[j].budget = r.budget /\ f[j].owner = r.owner
      BY <1>1, TimelessFields DEF SimInv
    <3>3. QED BY <1>3, <3>1, <3>2
  <2>2. f \in [Job -> LifeRows] /\ f[j].status = r.status
    BY <1>1, TimelessTable, TimelessFields DEF SimInv
  <2> HIDE DEF f, j
  <2>3. [f EXCEPT ![j].cancel = TRUE, ![j].status = IF @ = "queued" THEN "cancelled" ELSE @]
          = [f EXCEPT ![j] = LifeRow(IF f[j].status = "queued" THEN "cancelled" ELSE f[j].status,
                                     f[j].progress, f[j].attempts, f[j].budget,
                                     f[j].owner, TRUE)]
    <3>1. f \in [Job -> LifeRows] /\ j \in Job
      BY <1>1, <2>2
    <3>2. CancelEdited(f, j)
      BY <3>1, CancelEdit
    <3>3. QED BY <3>2 DEF CancelEdited
  <2>4. f' = [f EXCEPT ![j].cancel = TRUE,
                       ![j].status = IF @ = "queued" THEN "cancelled" ELSE @]
    BY <2>1, <2>3
  <2>5. QED BY <1>1, <1>3, <2>2, <2>4 DEF f, Lifecycle!RequestCancel, Lifecycle!Open
<1>4. CASE r.status = "queued" /\ Write(j, Cancelled(r))
  <2>1. Timeless(Cancelled(r)) = LifeRow("cancelled", r.progress, r.attempts, r.budget, NoOne, TRUE)
    BY <1>1, TimelessTransitions
  <2>2. r.owner = NoOne /\ s = "cancelled"
    BY <1>1, <1>4 DEF RowValid
  <2>3. QED BY <1>1, <1>3, <1>4, <2>1, <2>2
<1>5. CASE r.status = "running" /\ Write(j, [r EXCEPT !.cancel = TRUE])
  <2>1. Timeless([r EXCEPT !.cancel = TRUE])
          = LifeRow(r.status, r.progress, r.attempts, r.budget, r.owner, TRUE)
    BY <1>1, TimelessTransitions
  <2>2. s = r.status
    BY <1>5
  <2>3. QED BY <1>1, <1>3, <1>5, <2>1, <2>2
<1>6. QED BY <1>1, <1>2, <1>4, <1>5 DEF RequestCancelCommit

\* A manual retry of a failed row below the hard limit; any other is refused.
LEMMA RetrySimulated ==
    ASSUME SimInv, NEW c \in Client, RetryFailedCommit(c)
    PROVE  \/ \E j \in Job : Lifecycle!Retry(j)
           \/ UNCHANGED Lifecycle!vars
<1> DEFINE j == call[c].job
           r == job[j]
           t == Retried(r, call[c].age)
           f == TimelessRows
<1>1. j \in Job /\ r \in Row /\ call[c].row = r /\ call[c].age \in Nat /\ RowValid(r) /\ run' = run
  BY LockedRow DEF RetryFailedCommit, Session
<1>2. CASE ~(r.status = "failed" /\ r.attempts < HardLimit)
  <2>1. job' = job
    BY <1>1, <1>2 DEF RetryFailedCommit, Write, SimInv, IInv, TypeOK
  <2>2. QED BY <1>1, <2>1 DEF TimelessRows, Lifecycle!vars
<1>3. CASE r.status = "failed" /\ r.attempts < HardLimit
  <2>1. Write(j, t) /\ r.owner = NoOne
    BY <1>1, <1>3 DEF RetryFailedCommit, RowValid, Terminal
  <2>2. Timeless(t) = LifeRow("queued", 0, r.attempts, r.attempts + 1, r.owner, FALSE)
    BY <1>1, TimelessTransitions
  <2>3. f' = [f EXCEPT ![j] = LifeRow("queued", 0, f[j].attempts, f[j].attempts + 1,
                                      f[j].owner, FALSE)]
    <3>1. f' = [f EXCEPT ![j] = Timeless(t)]
      BY <1>1, <2>1, TimelessWrite DEF SimInv
    <3>2. f[j].attempts = r.attempts /\ f[j].owner = r.owner
      BY <1>1, TimelessFields DEF SimInv
    <3>3. QED BY <2>2, <3>1, <3>2
  <2>4. f \in [Job -> LifeRows] /\ f[j].status = r.status /\ f[j].attempts = r.attempts
    BY <1>1, TimelessTable, TimelessFields DEF SimInv
  <2> HIDE DEF f, j, t
  <2>5. [f EXCEPT ![j].status = "queued", ![j].progress = 0,
                  ![j].budget = f[j].attempts + 1, ![j].cancel = FALSE]
          = [f EXCEPT ![j] = LifeRow("queued", 0, f[j].attempts, f[j].attempts + 1,
                                     f[j].owner, FALSE)]
    <3>1. f \in [Job -> LifeRows] /\ j \in Job
      BY <1>1, <2>4
    <3>2. RetryEdited(f, j)
      BY <3>1, RetryEdit
    <3>3. QED BY <3>2 DEF RetryEdited
  <2>6. f' = [f EXCEPT ![j].status = "queued", ![j].progress = 0,
                       ![j].budget = f[j].attempts + 1, ![j].cancel = FALSE]
    BY <2>3, <2>5
  <2>7. QED BY <1>1, <1>3, <2>4, <2>6 DEF f, Lifecycle!Retry
<1>4. QED BY <1>2, <1>3

\* An insert of a row that is still absent; otherwise the existing one is kept.
LEMMA EnqueueSimulated ==
    ASSUME SimInv, NEW c \in Client, EnqueueCommit(c)
    PROVE  \/ \E j \in Job : Lifecycle!Enqueue(j)
           \/ UNCHANGED Lifecycle!vars
<1> DEFINE j == call[c].job
           r == job[j]
           f == TimelessRows
<1>1. j \in Job /\ r \in Row /\ run' = run /\ RowGood(r)
  BY DEF EnqueueCommit, SimInv, IInv, CallInv, TypeOK, RowsGood
<1>2. CASE r.status # "absent"
  <2>1. job' = job
    BY <1>1, <1>2 DEF EnqueueCommit, Write, SimInv, IInv, TypeOK
  <2>2. QED BY <1>1, <2>1 DEF TimelessRows, Lifecycle!vars
<1>3. CASE r.status = "absent"
  <2>1. Write(j, NewRow)
    BY <1>3 DEF EnqueueCommit
  <2>2. /\ r.progress = 0 /\ r.attempts = 0 /\ r.budget = PolicyAttempts
        /\ r.owner = NoOne /\ r.cancel = FALSE
    BY <1>1, <1>3 DEF RowGood, RowValid, SimInv, AbsentBudget, Row
  <2>3. Timeless(NewRow) = LifeRow("queued", 0, 0, PolicyAttempts, NoOne, FALSE)
    BY DEF Timeless, NewRow, NoRow, LifeRow
  <2>4. f' = [f EXCEPT ![j] = LifeRow("queued", f[j].progress, f[j].attempts, f[j].budget,
                                      f[j].owner, f[j].cancel)]
    <3>1. f' = [f EXCEPT ![j] = Timeless(NewRow)]
      BY <1>1, <2>1, TimelessWrite DEF SimInv
    <3>2. /\ f[j].progress = r.progress /\ f[j].attempts = r.attempts
          /\ f[j].budget = r.budget /\ f[j].owner = r.owner /\ f[j].cancel = r.cancel
      BY <1>1, TimelessFields DEF SimInv
    <3> HIDE DEF f, r
    <3>3. QED BY <2>2, <2>3, <3>1, <3>2
  <2>5. f \in [Job -> LifeRows] /\ f[j].status = r.status
    BY <1>1, TimelessTable, TimelessFields DEF SimInv
  <2> HIDE DEF f, j
  <2>6. [f EXCEPT ![j].status = "queued"]
          = [f EXCEPT ![j] = LifeRow("queued", f[j].progress, f[j].attempts, f[j].budget,
                                     f[j].owner, f[j].cancel)]
    <3>1. f \in [Job -> LifeRows] /\ j \in Job
      BY <1>1, <2>5
    <3>2. EnqueueEdited(f, j)
      BY <3>1, EnqueueEdit
    <3>3. QED BY <3>2 DEF EnqueueEdited
  <2>7. f' = [f EXCEPT ![j].status = "queued"]
    BY <2>4, <2>6
  <2>8. QED BY <1>1, <1>3, <2>5, <2>7 DEF f, Lifecycle!Enqueue
<1>4. QED BY <1>2, <1>3

\* Every step of the queue is a step of the life cycle or does not show in it.
LEMMA StepSimulated ==
    ASSUME SimInv, [Next]_vars
    PROVE  [Lifecycle!Next]_(Lifecycle!vars)
<1>1. CASE UNCHANGED <<job, run>>
  BY <1>1 DEF TimelessRows, Lifecycle!vars
<1>2. ASSUME NEW w \in Worker, WorkerStep(w) \/ Crash(w)
      PROVE  [Lifecycle!Next]_(Lifecycle!vars)
  <2>1. CASE ClaimCommit(w)
    BY <2>1, ClaimSimulated DEF Lifecycle!Next
  <2>2. CASE ClaimContinue(w)
    BY <2>2, SettleSimulated DEF Lifecycle!Next
  <2>3. CASE HeartbeatCommit(w)
    BY <2>3, HeartbeatSimulated DEF Lifecycle!Next
  <2>4. CASE SucceedCommit(w)
    BY <2>4, SucceedSimulated DEF Lifecycle!Next
  <2>5. CASE FailCommit(w)
    BY <2>5, FailSimulated DEF Lifecycle!Next
  <2>6. CASE Conflict(w) \/ Crash(w)
    BY <2>6, AbandonSimulated DEF Lifecycle!Next
  <2>7. QED
    BY <1>1, <1>2, <2>1, <2>2, <2>3, <2>4, <2>5, <2>6
       DEF WorkerStep, ClaimStart, ClaimSelect, ClaimNothing, HeartbeatStart, SucceedStart,
           FailStart, HeartbeatRaise
<1>3. ASSUME NEW c \in Client, ClientStep(c)
      PROVE  [Lifecycle!Next]_(Lifecycle!vars)
  <2>1. CASE EnqueueCommit(c)
    BY <2>1, EnqueueSimulated DEF Lifecycle!Next
  <2>2. CASE RequestCancelCommit(c)
    BY <2>2, RequestCancelSimulated DEF Lifecycle!Next
  <2>3. CASE RetryFailedCommit(c)
    BY <2>3, RetrySimulated DEF Lifecycle!Next
  <2>4. QED BY <1>1, <1>3, <2>1, <2>2, <2>3 DEF ClientStep, EnqueueStage, OperatorStart
<1>4. CASE Tick
  BY <1>4, TimelessTick DEF SimInv
<1>5. CASE \E s \in Session : LockRow(s)
  BY <1>1, <1>5 DEF LockRow
<1>6. CASE UNCHANGED vars
  BY <1>1, <1>6 DEF vars
<1>7. QED BY <1>2, <1>3, <1>4, <1>5, <1>6 DEF Next

\* The queue with its locks, copies of rows, clock readings and crashes
\* implements the atomic life cycle: each call takes effect at its commit, on
\* the row as it is then, and only for the worker that owns the lease.
THEOREM QueueImplementsLifecycle == Spec => AtomicLifecycle
<1>1. Init => Lifecycle!Init
  BY DEF Init, TimelessRows, Timeless, NoRow, NoRun, Lifecycle!Init, Lifecycle!Absent,
         Lifecycle!NoRun
<1>2. SimInv /\ [Next]_vars => [Lifecycle!Next]_(Lifecycle!vars)
  BY StepSimulated
<1>3. QED BY <1>1, <1>2, SimInvariance, PTL DEF Spec, AtomicLifecycle, Lifecycle!Spec
=============================================================================
