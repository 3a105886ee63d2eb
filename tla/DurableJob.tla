------------------------------ MODULE DurableJob -------------------------------
(***************************************************************************)
(* The durable-job engine (ADR 0051): a job row in the broker's ledger and *)
(* the worker thread of each gateway process that claims it, runs the      *)
(* agent one bounded segment at a time and delivers the result             *)
(* (shared/job_worker.py, job_segment.py, job_worker_runtime.py), with the *)
(* agent's guard for side effects (plugins/hermes-smd-jobs).               *)
(*                                                                         *)
(* The ledger itself is the broker's, in another repository: Claimable,    *)
(* Claimed and Write say what this code and its ledger double in           *)
(* tests/test_job_worker.py take it to do.  One job; every call to the     *)
(* ledger is a step, so two workers and the clock of the lease interleave. *)
(***************************************************************************)
EXTENDS Naturals, FiniteSets

CONSTANTS Workers,     \* gateway processes, one worker thread each
          StepKeys,    \* side effects the agent may want
          Budget,      \* budget_cents of the row
          MaxAttempts, \* max_attempts
          MaxCost,     \* bound: cents one segment costs at most
          MaxFaults    \* bound: crashes, lost replies and overrun leases, together

ASSUME JobAssumption == /\ IsFiniteSet(Workers)
                        /\ Budget \in Nat \ {0}
                        /\ {MaxAttempts, MaxCost, MaxFaults} \subseteq Nat

VARIABLES
    job,      \* the row
    journal,  \* keys idem_begin has recorded for the job, each with who called it
    pc,       \* where each worker is
    run,      \* the locals of its run_one
    env,      \* whether HERMES_JOB_ID is set in the process's environment
    faults,   \* history: what went wrong so far
    paid,     \* history: cents the provider was paid
    carried,  \* history: times the result was handed to its channel
    stored,   \* history: the result is in durable storage
    late,     \* history: segments each worker began after the cancel
    fired     \* history: times the job fired each side effect

workerVars == << pc, run, env >>
resultVars == << carried, stored >>
vars == << job, journal, workerVars, faults, paid, resultVars, late, fired >>

Terminal == {"delivered", "done", "needs_review", "cancelled"}
Statuses == Terminal \cup {"queued", "running", "complete", "delivering"}
Verdicts == {"needs_review", "cancelled"}
Ledger   == {"read", "root", "refresh", "error", "spend", "complete",
             "delivering", "delivered", "done", "park"}
Places   == Ledger \cup {"boot", "off", "idle", "fire", "running", "put", "deliver"}
Segments == [cost : 0..MaxCost, completed : BOOLEAN]

Row == [status : Statuses, epoch : Nat, attempts : Nat, spent : Nat, cancel : BOOLEAN,
        root : BOOLEAN, result : BOOLEAN, error : BOOLEAN, leased : BOOLEAN,
        model : BOOLEAN, channel : BOOLEAN]

\* run_one's epoch, job["spent_cents"] as last read, seg, and the status to park with.
Run == [epoch : Nat, seen : Nat, seg : Segments, verdict : Verdicts]

NoSegment == [cost |-> 0, completed |-> FALSE]
NoRun == [epoch |-> 0, seen |-> 0, seg |-> NoSegment, verdict |-> "needs_review"]

TypeOK == /\ job \in Row
          /\ journal \subseteq StepKeys \X {"job", "turn"}
          /\ pc \in [Workers -> Places]
          /\ run \in [Workers -> Run]
          /\ env \in [Workers -> BOOLEAN]
          /\ {faults, paid, carried} \subseteq Nat
          /\ stored \in BOOLEAN
          /\ late \in [Workers -> Nat]
          /\ fired \in [StepKeys -> Nat]

\* start_background_job has queued the row; HERMES_MODEL and deliver_to may be empty.
Init == /\ \E model, channel \in BOOLEAN :
              job = [status |-> "queued", epoch |-> 0, attempts |-> 0, spent |-> 0,
                     cancel |-> FALSE, root |-> FALSE, result |-> FALSE, error |-> FALSE,
                     leased |-> FALSE, model |-> model, channel |-> channel]
        /\ journal = {}
        /\ pc = [w \in Workers |-> "boot"]
        /\ run = [w \in Workers |-> NoRun]
        /\ env = [w \in Workers |-> FALSE]
        /\ faults = 0 /\ paid = 0 /\ carried = 0
        /\ stored = FALSE
        /\ late = [w \in Workers |-> 0]
        /\ fired = [k \in StepKeys |-> 0]

------------------------------------------------------------------------------
\* The ledger and the transport to it.

Fault == faults < MaxFaults /\ faults' = faults + 1

Claimable == job.status \notin Terminal /\ ~job.leased
Claimed == [job EXCEPT !.epoch = @ + 1, !.attempts = @ + 1,
                       !.status = "running", !.leased = TRUE]
\* Mutated: a record without the epoch fence.
FencedNever(w) == FALSE

Fenced(w) == run[w].epoch # job.epoch

\* The worker goes on at p; leaving run_one it forgets its locals.
Resting == {"boot", "off", "idle"}
Go(w, p, r) == /\ pc' = [pc EXCEPT ![w] = p]
               /\ run' = [run EXCEPT ![w] = IF p \in Resting THEN NoRun ELSE r]
Goto(w, p) == Go(w, p, run[w])
Park(w, status) == Go(w, "park", [run[w] EXCEPT !.verdict = status])

\* record(job_id, epoch, fields), from place p: a no-op answered False when the
\* epoch is stale, upon which the worker stops.  A request that raises after
\* connect may have been applied; JobLedgerError ends run_one.
Record(w, p, new, next, r) ==
    /\ pc[w] = p
    /\ \/ /\ job' = IF Fenced(w) THEN job ELSE new
          /\ Go(w, IF Fenced(w) THEN "idle" ELSE next, r)
          /\ UNCHANGED faults
       \/ /\ Fault
          /\ job' \in {job, IF Fenced(w) THEN job ELSE new}
          /\ Goto(w, "idle")
    /\ UNCHANGED << journal, env, paid, resultVars, late, fired >>

------------------------------------------------------------------------------
\* The worker thread.

\* _worker_loop waits for the broker, and gives up for good after its deadline.
Ready(w) == /\ pc[w] = "boot"
            /\ Goto(w, "idle") \/ Goto(w, "off")
            /\ UNCHANGED << job, journal, env, faults, paid, resultVars, late, fired >>

\* Mutated: the sweep takes queued jobs only.
ClaimQueuedOnly(w) ==
    /\ pc[w] = "idle"
    /\ job.status = "queued"
    /\ job' = Claimed
    /\ \/ Go(w, "read", [run[w] EXCEPT !.epoch = Claimed.epoch]) /\ UNCHANGED faults
       \/ Fault /\ UNCHANGED << pc, run >>
    /\ UNCHANGED << journal, env, paid, resultVars, late, fired >>

\* sweep: list_claimable, then run_one claims.
Claim(w) ==
    /\ pc[w] = "idle"
    /\ Claimable
    /\ job' = Claimed
    /\ \/ Go(w, "read", [run[w] EXCEPT !.epoch = Claimed.epoch]) /\ UNCHANGED faults
       \/ Fault /\ UNCHANGED << pc, run >>
    /\ UNCHANGED << journal, env, paid, resultVars, late, fired >>

\* Mutated: the attempts of the row are not looked at.
ReadRowAnyAttempt(w) ==
    /\ pc[w] = "read"
    /\ IF ~job.model THEN Park(w, "needs_review")
       ELSE Goto(w, IF job.root THEN "refresh" ELSE "root")
    /\ UNCHANGED << job, journal, env, faults, paid, resultVars, late, fired >>

\* run_one up to the segment loop: identity, attempts, and the root session.
ReadRow(w) ==
    /\ pc[w] = "read"
    /\ IF ~job.model \/ job.attempts > MaxAttempts THEN Park(w, "needs_review")
       ELSE Goto(w, IF job.root THEN "refresh" ELSE "root")
    /\ UNCHANGED << job, journal, env, faults, paid, resultVars, late, fired >>

RecordRoot(w) == Record(w, "root", [job EXCEPT !.root = TRUE], "refresh", run[w])

\* The head of the segment loop reads the row again, for the cancel and the spend.
Refresh(w) ==
    /\ pc[w] = "refresh"
    /\ IF job.cancel THEN Park(w, "cancelled")
       ELSE IF job.spent >= Budget THEN Park(w, "needs_review")
       ELSE Go(w, "fire", [run[w] EXCEPT !.seen = job.spent])
    /\ UNCHANGED << job, journal, env, faults, paid, resultVars, late, fired >>

\* A read raises; the sweep logs the crash and goes on.
ReadRaises(w) ==
    /\ pc[w] \in {"read", "refresh"}
    /\ Fault
    /\ Goto(w, "idle")
    /\ UNCHANGED << job, journal, env, paid, resultVars, late, fired >>

\* run_segment before the agent runs: the cost breaker or the estimate refuses
\* it, or the lineage or the agent cannot be built, which raises.
RefuseSegment(w) ==
    /\ pc[w] = "fire"
    /\ Park(w, "needs_review") \/ Goto(w, "idle")
    /\ UNCHANGED << job, journal, env, faults, paid, resultVars, late, fired >>

FireSegment(w) ==
    /\ pc[w] = "fire"
    /\ Goto(w, "running")
    /\ env' = [env EXCEPT ![w] = TRUE]
    /\ late' = IF job.cancel THEN [late EXCEPT ![w] = @ + 1] ELSE late
    /\ UNCHANGED << job, journal, faults, paid, resultVars, fired >>

\* The journal has the key: idem_begin answers "review", for nothing here ever
\* calls idem_complete.
Journaled(k) == \E who \in {"job", "turn"} : << k, who >> \in journal

\* Mutated: the effect is fired first and journaled after.
SideEffectThenJournal(w, k) ==
    /\ pc[w] = "running"
    /\ ~Journaled(k)
    /\ fired' = [fired EXCEPT ![k] = @ + 1]
    /\ \/ journal' = journal \cup {<< k, "job" >>} /\ UNCHANGED faults
       \/ Fault /\ UNCHANGED journal
    /\ UNCHANGED << job, workerVars, paid, resultVars, late >>

\* The agent guards a side effect with job_record_sideeffect and fires it on
\* "proceed"; a guard whose answer is lost is a tool error.
SideEffect(w, k) ==
    /\ pc[w] = "running"
    /\ ~Journaled(k)
    /\ journal' = journal \cup {<< k, "job" >>}
    /\ \/ fired' = [fired EXCEPT ![k] = @ + 1] /\ UNCHANGED faults
       \/ Fault /\ UNCHANGED fired
    /\ UNCHANGED << job, workerVars, paid, resultVars, late >>

\* An interactive turn of the same process calls the guard: the environment is
\* the process's, so while a segment runs the key goes to the job's journal.
InTurnSideEffect(w, k) ==
    /\ env[w]
    /\ ~Journaled(k)
    /\ journal' = journal \cup {<< k, "turn" >>}
    /\ UNCHANGED << job, workerVars, faults, paid, resultVars, late, fired >>

\* The agent's segment ends; its environment is put back.  An exception reports
\* nothing of what was spent.
SegmentEnds(w) ==
    /\ pc[w] = "running"
    /\ env' = [env EXCEPT ![w] = FALSE]
    /\ \E s \in Segments : /\ paid' = paid + s.cost
                           /\ \/ Go(w, "spend", [run[w] EXCEPT !.seg = s])
                              \/ Goto(w, "error")
    /\ UNCHANGED << job, journal, faults, resultVars, late, fired >>

RecordError(w) == Record(w, "error", [job EXCEPT !.error = TRUE], "idle", run[w])

\* Mutated: the next segment begins without reading the row again.
RecordSpendReadOnce(w) ==
    LET total == run[w].seen + run[w].seg.cost
    IN  Record(w, "spend", [job EXCEPT !.spent = total],
               IF total > Budget THEN "park" ELSE IF run[w].seg.completed THEN "put" ELSE "fire",
               [run[w] EXCEPT !.seen = total, !.seg = NoSegment])

\* The spend and the tip are recorded; then the budget and completion decide.
RecordSpend(w) ==
    LET total == run[w].seen + run[w].seg.cost
    IN  Record(w, "spend", [job EXCEPT !.spent = total],
               IF total > Budget THEN "park" ELSE IF run[w].seg.completed THEN "put" ELSE "refresh",
               [run[w] EXCEPT !.seen = 0, !.seg = NoSegment])

\* _finish: store the result, record it, and say so before delivering.
PutResult(w) ==
    /\ pc[w] = "put"
    /\ \/ stored' = TRUE /\ Goto(w, "complete")
       \/ UNCHANGED stored /\ Goto(w, "idle")
    /\ UNCHANGED << job, journal, env, faults, paid, carried, late, fired >>

RecordComplete(w) == Record(w, "complete", [job EXCEPT !.status = "complete", !.result = TRUE],
                            "delivering", run[w])

RecordDelivering(w) == Record(w, "delivering", [job EXCEPT !.status = "delivering"],
                              "deliver", run[w])

\* Mutated: a delivery that fails counts as made.
DeliverFailureDone(w) ==
    /\ pc[w] = "deliver"
    /\ Goto(w, "delivered")
    /\ carried' \in {carried, IF job.channel THEN carried + 1 ELSE carried}
    /\ UNCHANGED << job, journal, env, faults, paid, stored, late, fired >>

\* Mutated: a delivery that fails is left for the next attempt.
DeliverRetried(w) ==
    /\ pc[w] = "deliver"
    /\ \/ /\ Goto(w, "delivered")
          /\ carried' = IF job.channel THEN carried + 1 ELSE carried
       \/ /\ job.channel
          /\ Goto(w, "idle")
          /\ carried' \in {carried, carried + 1}
    /\ UNCHANGED << job, journal, env, faults, paid, stored, late, fired >>

\* deliver_result: no channel is a success; a failure may have handed it over.
Deliver(w) ==
    /\ pc[w] = "deliver"
    /\ \/ /\ Goto(w, "delivered")
          /\ carried' = IF job.channel THEN carried + 1 ELSE carried
       \/ /\ job.channel
          /\ Park(w, "needs_review")
          /\ carried' \in {carried, carried + 1}
    /\ UNCHANGED << job, journal, env, faults, paid, stored, late, fired >>

RecordDelivered(w) == Record(w, "delivered", [job EXCEPT !.status = "delivered"], "done", run[w])

RecordDone(w) == Record(w, "done", [job EXCEPT !.status = "done"], "idle", run[w])

\* Mutated: parking is not fenced.
DeadLetterUnfenced(w) ==
    /\ pc[w] = "park"
    /\ job' = [job EXCEPT !.status = run[w].verdict, !.error = TRUE]
    /\ Goto(w, "idle")
    /\ UNCHANGED << journal, env, faults, paid, resultVars, late, fired >>

\* _dead_letter: it does not look at the answer.
DeadLetter(w) == Record(w, "park", [job EXCEPT !.status = run[w].verdict, !.error = TRUE],
                        "idle", run[w])

Step(w) == \/ Ready(w) \/ Claim(w) \/ ReadRow(w) \/ RecordRoot(w) \/ Refresh(w)
           \/ RefuseSegment(w) \/ FireSegment(w) \/ SegmentEnds(w)
           \/ RecordError(w) \/ RecordSpend(w)
           \/ PutResult(w) \/ RecordComplete(w) \/ RecordDelivering(w)
           \/ Deliver(w) \/ RecordDelivered(w) \/ RecordDone(w) \/ DeadLetter(w)

------------------------------------------------------------------------------
\* Around it.

\* The process dies, at any point, and is started again: what it knew is gone,
\* and a running segment was paid for.
Restart(w) ==
    /\ pc[w] # "boot"
    /\ Fault
    /\ Goto(w, "boot")
    /\ env' = [env EXCEPT ![w] = FALSE]
    /\ \E c \in 0..MaxCost : paid' = IF pc[w] = "running" THEN paid + c ELSE paid
    /\ UNCHANGED << job, journal, resultVars, late, fired >>

\* The worker that carries the row's epoch is still at it.
Held == \E w \in Workers : pc[w] \notin Resting /\ ~Fenced(w)

\* The lease runs out: nothing renews it, so a long segment may outlive it.
LeaseExpires ==
    /\ job.leased
    /\ job' = [job EXCEPT !.leased = FALSE]
    /\ IF Held THEN Fault ELSE UNCHANGED faults
    /\ UNCHANGED << journal, workerVars, paid, resultVars, late, fired >>

\* The tool job_cancel; the ledger raises the flag on a live row only.
Cancel == /\ job.status \notin Terminal
          /\ ~job.cancel
          /\ job' = [job EXCEPT !.cancel = TRUE]
          /\ UNCHANGED << journal, workerVars, faults, paid, resultVars, late, fired >>

Next == \/ \E w \in Workers : \/ Step(w) \/ ReadRaises(w) \/ Restart(w)
                              \/ \E k \in StepKeys : SideEffect(w, k) \/ InTurnSideEffect(w, k)
        \/ LeaseExpires
        \/ Cancel

Spec == Init /\ [][Next]_vars

\* Every live worker thread loops, and a lease's clock runs.
FairSpec == /\ Spec
            /\ \A w \in Workers : WF_vars(Step(w))
            /\ WF_vars(LeaseExpires)

------------------------------------------------------------------------------
(* Properties.                                                            *)

\* The provider is paid at most the budget and one segment per attempt that ran:
\* whatever crashes, raises, is fenced or loses its reply (the pre-spend
\* ceiling, the epoch fence and the attempts backstop together).
PaidBounded == paid <= Budget - 1 + MaxCost * MaxAttempts

\* The row never forgets money: a worker that was overtaken cannot put back the
\* spend it had read before another one's segments were recorded.
SpentNeverFalls == [][job'.spent >= job.spent]_job

\* A job that came to rest stays there: no worker that was overtaken, and no
\* second claim, takes it anywhere else (the one step left is delivered to done).
TerminalIsFinal == [][job.status \in Terminal =>
                        job'.status \in {job.status} \cup
                            IF job.status = "delivered" THEN {"done"} ELSE {}]_job

\* A job says delivered only with its result in durable storage, recorded, and
\* handed to its channel if it names one.
DoneMeansDelivered ==
    job.status \in {"delivered", "done"} =>
        stored /\ job.result /\ (job.channel => carried > 0)

\* Unless something crashed, lost a reply or outlived its lease, the channel
\* gets the result once, however many attempts it took.
QuietRunDeliversOnce == faults = 0 => carried <= 1

\* A cancel stops the work: after it a worker begins at most the one segment it
\* had already decided on.
CancelStopsWork == \A w \in Workers : late[w] <= 1

\* A side effect the job guards fires once, over every resume.
StepFiredOnce == \A k \in StepKeys : fired[k] <= 1

\* The job comes to rest, unless every worker thread gave up at its readiness
\* barrier or the agent goes on for ever with segments that cost nothing.
FreeSegment == \E w \in Workers : pc[w] = "spend" /\ run[w].seg = NoSegment
JobSettles == \/ <>(job.status \in Terminal)
              \/ <>[](\A w \in Workers : pc[w] = "off")
              \/ []<>FreeSegment

(* What the proofs rest on. *)

Working(w) == pc[w] \notin Resting
Owns(w) == Working(w) /\ ~Fenced(w)

\* No worker is ahead of the row, and one worker at most carries its epoch.
EpochsOwned == /\ \A w \in Workers : Working(w) => run[w].epoch \in 1..job.epoch
               /\ \A v, w \in Workers :
                     Working(v) /\ Working(w) /\ run[v].epoch = run[w].epoch => v = w

\* What holds of a worker in run_one.  On a settled row only the owner's last
\* write, delivered to done, is left; what the owner read of the spend is what
\* the row still says; the result is stored before it is recorded, and recorded
\* before it is delivered.
WorkerInv(w) ==
    /\ Owns(w) => /\ pc[w] = "done" <=> job.status \in Terminal
                  /\ pc[w] = "done" => job.status = "delivered"
    /\ Owns(w) /\ pc[w] \in {"fire", "running", "spend"} => run[w].seen = job.spent
    /\ pc[w] \in {"complete", "delivering", "deliver", "delivered", "done"} => stored
    /\ Owns(w) /\ pc[w] \in {"delivering", "deliver", "delivered", "done"} => job.result
    /\ pc[w] = "delivered" /\ job.channel => carried > 0

JobInv == /\ EpochsOwned
          /\ \A w \in Workers : WorkerInv(w)
          /\ job.result => stored
          /\ DoneMeansDelivered

\* The journal has every side effect that was fired.
FiredJournaled == \A k \in StepKeys : fired[k] <= 1 /\ (fired[k] > 0 => Journaled(k))

\* Who began a segment after the cancel finds the cancel at its next read.
LateInv == \A w \in Workers : late[w] <= 1 /\ (late[w] > 0 => job.cancel /\ pc[w] # "fire")

\* While nothing went wrong the lease keeps everyone else out, and what was
\* handed to the channel is in the hands of a worker about to settle the job.
QuietInv == faults = 0 =>
    /\ \A w \in Workers : Working(w) => Owns(w) /\ job.leased
    /\ carried <= 1
    /\ \/ carried = 0 \/ job.status \in Terminal
       \/ \E w \in Workers : pc[w] \in {"delivered", "park"}

\* The workers that may still pay for a segment before they read the row again;
\* what an attempt adds to the money no row has recorded, a segment at most, is
\* taken from the attempts that are left.
Open == {w \in Workers :
            \/ pc[w] = "read" /\ job.attempts <= MaxAttempts /\ job.spent < Budget
            \/ pc[w] \in {"root", "refresh"} /\ job.spent < Budget
            \/ pc[w] \in {"fire", "running"}}
Floor == IF job.spent < Budget THEN job.spent ELSE Budget - 1
Tries == IF job.attempts < MaxAttempts THEN job.attempts ELSE MaxAttempts
Closed == Tries - Cardinality(Open)
Credit == MaxCost * Closed
PaidInv == /\ paid <= Floor + Credit
           /\ \A w \in Workers : Owns(w) /\ pc[w] = "spend" =>
                 paid + MaxCost <= Floor + run[w].seg.cost + Credit

\* An interactive turn's guard is never journaled: "the synchronous in-turn path
\* is not journaled", the variables being "unset outside a background job".
InTurnNotJournaled == \A k \in StepKeys : << k, "turn" >> \notin journal
===============================================================================
