---------------------------- MODULE DurableJobProofs ---------------------------
(***************************************************************************)
(* Proofs about the durable-job engine, for any number of workers, any     *)
(* budget, any number of attempts, and any number of restarts, lost        *)
(* replies and outlived leases.                                            *)
(***************************************************************************)
EXTENDS DurableJob, FiniteSetTheorems, TLAPS

(***************************************************************************)
(* Types.                                                                  *)
(***************************************************************************)

\* What leaves run_one has no locals, and what goes on has those it is given.
LEMMA GoTypes ==
    ASSUME TypeOK, NEW w \in Workers, NEW p \in Places, NEW r \in Run, Go(w, p, r)
    PROVE  pc' \in [Workers -> Places] /\ run' \in [Workers -> Run]
<1>1. NoRun \in Run
  BY JobAssumption DEF NoRun, NoSegment, Run, Segments, Verdicts
<1>2. QED
  BY <1>1 DEF Go, TypeOK

\* A record ends in one of three ways: nothing was written and the worker
\* stopped; the owner's write was applied and the worker stopped; or the
\* owner's write was applied and it goes on.
LEMMA RecordOutcomes ==
    ASSUME NEW w \in Workers, NEW p, NEW new, NEW next, NEW r, Record(w, p, new, next, r)
    PROVE  /\ pc[w] = p
           /\ UNCHANGED << journal, env, paid, carried, stored, late, fired >>
           /\ \/ job' = job /\ Go(w, "idle", r)
              \/ ~Fenced(w) /\ job' = new /\ Go(w, "idle", r)
              \/ ~Fenced(w) /\ job' = new /\ Go(w, next, r)
BY DEF Record, Go, Goto, Resting, resultVars

LEMMA RecordTypes ==
    ASSUME TypeOK, NEW w \in Workers, NEW p, NEW new \in Row, NEW next \in Places,
           NEW r \in Run, Record(w, p, new, next, r)
    PROVE  TypeOK'
<1>1. "idle" \in Places /\ faults' \in Nat
  BY JobAssumption DEF Places, Record, Fault, TypeOK
<1>2. pc' \in [Workers -> Places] /\ run' \in [Workers -> Run]
  BY <1>1, RecordOutcomes, GoTypes
<1>3. QED
  BY <1>1, <1>2, RecordOutcomes DEF TypeOK

LEMMA TypeInit == Init => TypeOK
<1>1. SUFFICES ASSUME Init PROVE TypeOK
  OBVIOUS
<1>2. NoRun \in Run
  BY JobAssumption DEF NoRun, NoSegment, Run, Segments, Verdicts
<1>3. job \in Row
  <2>1. "queued" \in Statuses
    BY DEF Statuses
  <2>2. QED
    BY <1>1, <2>1 DEF Init, Row
<1>4. "boot" \in Places
  BY DEF Places
<1>5. faults = 0 /\ paid = 0 /\ carried = 0 /\ stored = FALSE /\ journal = {}
  BY <1>1, Zenon DEF Init
<1>6. pc \in [Workers -> Places] /\ run \in [Workers -> Run]
  BY <1>1, <1>2, <1>4 DEF Init
<1>7. env \in [Workers -> BOOLEAN] /\ late \in [Workers -> Nat] /\ fired \in [StepKeys -> Nat]
  BY <1>1 DEF Init
<1>8. {faults, paid, carried} \subseteq Nat
  BY <1>5
<1>9. stored \in BOOLEAN /\ journal \subseteq StepKeys \X {"job", "turn"}
  BY <1>5, Zenon
<1>10. QED
  BY <1>3, <1>6, <1>7, <1>8, <1>9, Zenon DEF TypeOK

\* A worker's locals stay typed: the status it parks with, the epoch it claimed,
\* what it read and what its segment reported.
LEMMA LocalTypes ==
    ASSUME TypeOK, NEW w \in Workers
    PROVE  /\ run[w] \in Run
           /\ \A v \in Verdicts : [run[w] EXCEPT !.verdict = v] \in Run
           /\ [run[w] EXCEPT !.epoch = job.epoch + 1] \in Run
           /\ [run[w] EXCEPT !.seen = job.spent] \in Run
           /\ \A s \in Segments : [run[w] EXCEPT !.seg = s] \in Run
           /\ [run[w] EXCEPT !.seen = 0, !.seg = NoSegment] \in Run
           /\ run[w].seen + run[w].seg.cost \in Nat
<1>1. run[w] \in Run /\ job.epoch \in Nat /\ job.spent \in Nat
  BY DEF TypeOK, Row
<1>2. NoSegment \in Segments
  BY JobAssumption DEF NoSegment, Segments
<1>3. run[w].seen \in Nat /\ run[w].seg.cost \in Nat
  BY <1>1, JobAssumption DEF Run, Segments
<1>4. /\ \A v \in Verdicts : [run[w] EXCEPT !.verdict = v] \in Run
      /\ [run[w] EXCEPT !.epoch = job.epoch + 1] \in Run
      /\ [run[w] EXCEPT !.seen = job.spent] \in Run
  BY <1>1 DEF Run
<1>5. \A s \in Segments : [run[w] EXCEPT !.seg = s] \in Run
  BY <1>1 DEF Run
<1>6. [run[w] EXCEPT !.seen = 0, !.seg = NoSegment] \in Run
  BY <1>1, <1>2 DEF Run
<1>7. run[w].seen + run[w].seg.cost \in Nat
  BY <1>3
<1>8. QED
  BY <1>1, <1>4, <1>5, <1>6, <1>7

\* A claim moves the epoch on.
LEMMA ClaimedRow ==
    ASSUME TypeOK
    PROVE  Claimed \in Row /\ Claimed.epoch = job.epoch + 1
<1>1. job \in Row /\ job.epoch + 1 \in Nat /\ job.attempts + 1 \in Nat
  BY DEF TypeOK, Row
<1>2. "running" \in Statuses
  BY DEF Statuses
<1>3. Claimed = [[[[job EXCEPT !.epoch = job.epoch + 1] EXCEPT !.attempts = job.attempts + 1]
                     EXCEPT !.status = "running"] EXCEPT !.leased = TRUE]
  BY <1>1 DEF Claimed, Row
<1>4. QED
  BY <1>1, <1>2, <1>3 DEF Row

\* Every step of a worker keeps the types.
LEMMA TypeWorker ==
    ASSUME TypeOK, NEW w \in Workers, Step(w)
    PROVE  TypeOK'
<1> USE DEF resultVars
<1>1. run[w] \in Run
  BY LocalTypes
<1>2. {"idle", "off", "read", "root", "refresh", "fire", "running", "error", "spend", "put",
       "complete", "delivering", "deliver", "delivered", "done", "park"} \subseteq Places
  BY DEF Places, Ledger
<1>3. {"running", "complete", "delivering", "delivered", "done", "needs_review", "cancelled"}
        \subseteq Statuses
  BY DEF Statuses, Terminal
<1>4. ASSUME NEW v \in Verdicts, Park(w, v)
      PROVE  pc' \in [Workers -> Places] /\ run' \in [Workers -> Run]
  BY <1>2, <1>4, LocalTypes, GoTypes DEF Park
<1>5. ASSUME NEW p \in Places, Goto(w, p)
      PROVE  pc' \in [Workers -> Places] /\ run' \in [Workers -> Run]
  BY <1>1, <1>5, GoTypes DEF Goto
<1>6. CASE Ready(w)
  BY <1>2, <1>5, <1>6 DEF Ready, TypeOK
<1>7. CASE Claim(w)
  <2>1. Claimed \in Row /\ Claimed.epoch = job.epoch + 1
    BY ClaimedRow
  <2>2. [run[w] EXCEPT !.epoch = Claimed.epoch] \in Run
    BY <2>1, LocalTypes
  <2>3. pc' \in [Workers -> Places] /\ run' \in [Workers -> Run]
    BY <1>2, <1>7, <2>2, GoTypes DEF Claim, TypeOK
  <2>4. faults' \in Nat
    BY <1>7 DEF Claim, Fault, TypeOK
  <2>5. QED
    BY <1>7, <2>1, <2>3, <2>4 DEF Claim, TypeOK
<1>8. CASE ReadRow(w)
  BY <1>2, <1>4, <1>5, <1>8 DEF ReadRow, TypeOK, Verdicts
<1>9. CASE RecordRoot(w)
  <2>1. [job EXCEPT !.root = TRUE] \in Row
    BY DEF TypeOK, Row
  <2>2. QED
    BY <1>1, <1>2, <1>9, <2>1, RecordTypes DEF RecordRoot
<1>10. CASE Refresh(w)
  <2>1. pc' \in [Workers -> Places] /\ run' \in [Workers -> Run]
    BY <1>2, <1>4, <1>10, LocalTypes, GoTypes DEF Refresh, Verdicts
  <2>2. QED
    BY <1>10, <2>1 DEF Refresh, TypeOK
<1>11. CASE RefuseSegment(w)
  BY <1>2, <1>4, <1>5, <1>11 DEF RefuseSegment, TypeOK, Verdicts
<1>12. CASE FireSegment(w)
  BY <1>2, <1>5, <1>12 DEF FireSegment, TypeOK
<1>13. CASE SegmentEnds(w)
  <2>1. PICK s \in Segments : /\ paid' = paid + s.cost
                              /\ \/ Go(w, "spend", [run[w] EXCEPT !.seg = s])
                                 \/ Goto(w, "error")
    BY <1>13 DEF SegmentEnds
  <2>2. pc' \in [Workers -> Places] /\ run' \in [Workers -> Run]
    BY <1>2, <1>5, <2>1, LocalTypes, GoTypes
  <2>3. paid' \in Nat
    BY <2>1, JobAssumption DEF Segments, TypeOK
  <2>4. QED
    BY <1>13, <2>2, <2>3 DEF SegmentEnds, TypeOK
<1>14. CASE RecordError(w)
  <2>1. [job EXCEPT !.error = TRUE] \in Row
    BY DEF TypeOK, Row
  <2>2. QED
    BY <1>1, <1>2, <1>14, <2>1, RecordTypes DEF RecordError
<1>15. CASE RecordSpend(w)
  <2> DEFINE total == run[w].seen + run[w].seg.cost
             next == IF total > Budget THEN "park"
                     ELSE IF run[w].seg.completed THEN "put" ELSE "refresh"
  <2>1. [job EXCEPT !.spent = total] \in Row
    BY LocalTypes DEF TypeOK, Row
  <2>2. next \in Places
    BY <1>2
  <2>3. Record(w, "spend", [job EXCEPT !.spent = total], next,
               [run[w] EXCEPT !.seen = 0, !.seg = NoSegment])
    BY <1>15 DEF RecordSpend
  <2>4. QED
    BY <2>1, <2>2, <2>3, LocalTypes, RecordTypes
<1>16. CASE PutResult(w)
  BY <1>2, <1>5, <1>16 DEF PutResult, TypeOK
<1>17. CASE RecordComplete(w)
  <2>1. [job EXCEPT !.status = "complete", !.result = TRUE] \in Row
    BY <1>3 DEF TypeOK, Row
  <2>2. QED
    BY <1>1, <1>2, <1>17, <2>1, RecordTypes DEF RecordComplete
<1>18. CASE RecordDelivering(w)
  <2>1. [job EXCEPT !.status = "delivering"] \in Row
    BY <1>3 DEF TypeOK, Row
  <2>2. QED
    BY <1>1, <1>2, <1>18, <2>1, RecordTypes DEF RecordDelivering
<1>19. CASE Deliver(w)
  <2>1. pc' \in [Workers -> Places] /\ run' \in [Workers -> Run] /\ carried' \in Nat
    BY <1>2, <1>4, <1>5, <1>19 DEF Deliver, Verdicts, TypeOK
  <2>2. QED
    BY <1>19, <2>1 DEF Deliver, TypeOK
<1>20. CASE RecordDelivered(w)
  <2>1. [job EXCEPT !.status = "delivered"] \in Row
    BY <1>3 DEF TypeOK, Row
  <2>2. QED
    BY <1>1, <1>2, <1>20, <2>1, RecordTypes DEF RecordDelivered
<1>21. CASE RecordDone(w)
  <2>1. [job EXCEPT !.status = "done"] \in Row
    BY <1>3 DEF TypeOK, Row
  <2>2. QED
    BY <1>1, <1>2, <1>21, <2>1, RecordTypes DEF RecordDone
<1>22. CASE DeadLetter(w)
  <2>1. run[w].verdict \in Statuses
    BY <1>1, <1>3 DEF Run, Verdicts
  <2>2. [job EXCEPT !.status = run[w].verdict, !.error = TRUE] \in Row
    BY <2>1 DEF TypeOK, Row
  <2>3. QED
    BY <1>1, <1>2, <1>22, <2>2, RecordTypes DEF DeadLetter
<1>23. QED
  BY <1>6, <1>7, <1>8, <1>9, <1>10, <1>11, <1>12, <1>13, <1>14, <1>15, <1>16, <1>17, <1>18,
     <1>19, <1>20, <1>21, <1>22 DEF Step

\* Faults, the guards of side effects, the lease and the cancel keep the types.
LEMMA TypeStep ==
    ASSUME TypeOK, [Next]_vars
    PROVE  TypeOK'
<1> USE DEF resultVars, workerVars
<1>1. ASSUME NEW w \in Workers, ReadRaises(w)
      PROVE  TypeOK'
  <2>1. "idle" \in Places /\ run[w] \in Run
    BY LocalTypes DEF Places
  <2>2. QED
    BY <1>1, <2>1, GoTypes DEF ReadRaises, Goto, Fault, TypeOK
<1>2. ASSUME NEW w \in Workers, Restart(w)
      PROVE  TypeOK'
  <2>1. "boot" \in Places /\ run[w] \in Run
    BY LocalTypes DEF Places
  <2>2. paid' \in Nat /\ faults' \in Nat
    BY <1>2, JobAssumption DEF Restart, Fault, TypeOK
  <2>3. QED
    BY <1>2, <2>1, <2>2, GoTypes DEF Restart, Goto, TypeOK
<1>3. ASSUME NEW w \in Workers, NEW k \in StepKeys, SideEffect(w, k)
      PROVE  TypeOK'
  BY <1>3 DEF SideEffect, Fault, TypeOK
<1>4. ASSUME NEW w \in Workers, NEW k \in StepKeys, InTurnSideEffect(w, k)
      PROVE  TypeOK'
  BY <1>4 DEF InTurnSideEffect, TypeOK
<1>5. CASE LeaseExpires
  <2>1. job \in Row
    BY DEF TypeOK
  <2>2. [job EXCEPT !.leased = FALSE] \in Row
    BY <2>1 DEF Row
  <2>3. faults' \in Nat
    BY <1>5 DEF LeaseExpires, Fault, TypeOK
  <2>4. QED
    BY <1>5, <2>2, <2>3 DEF LeaseExpires, TypeOK
<1>6. CASE Cancel
  <2>1. job \in Row
    BY DEF TypeOK
  <2>2. [job EXCEPT !.cancel = TRUE] \in Row
    BY <2>1 DEF Row
  <2>3. QED
    BY <1>6, <2>2 DEF Cancel, TypeOK
<1>7. CASE UNCHANGED vars
  BY <1>7 DEF vars, TypeOK
<1>8. QED
  BY <1>1, <1>2, <1>3, <1>4, <1>5, <1>6, <1>7, TypeWorker DEF Next

\* The row, the workers and the counters keep their types.
THEOREM TypeCorrect == Spec => []TypeOK
<1>1. TypeOK /\ [Next]_vars => TypeOK'
  BY TypeStep
<1>2. QED
  BY <1>1, TypeInit, PTL DEF Spec

-------------------------------------------------------------------------------
(***************************************************************************)
(* The invariant.                                                          *)
(***************************************************************************)

\* What every step but a claim leaves alone, and what only grows.
Steady == /\ job'.epoch = job.epoch
          /\ job'.channel = job.channel
          /\ stored => stored'
          /\ carried' \in Nat /\ carried' >= carried

\* A worker that keeps out of the way of a step keeps its invariant: it is not
\* the owner, or the row is unchanged.
LEMMA OthersKeep ==
    ASSUME TypeOK, NEW v \in Workers, WorkerInv(v), Steady,
           pc'[v] = pc[v], run'[v] = run[v],
           Owns(v) => /\ job'.status = job.status /\ job'.spent = job.spent
                      /\ job.result => job'.result
    PROVE  WorkerInv(v)'
<1>1. Owns(v)' = Owns(v) /\ carried \in Nat
  BY DEF Owns, Working, Fenced, Steady, TypeOK
<1>2. QED
  BY <1>1 DEF WorkerInv, Steady

\* One worker takes a step in run_one, on the row only when it owns it.
LEMMA WorkerKeeps ==
    ASSUME TypeOK, JobInv, Steady, NEW w \in Workers,
           \A v \in Workers \ {w} : pc'[v] = pc[v] /\ run'[v] = run[v],
           Working(w)' => Working(w) /\ run'[w].epoch = run[w].epoch,
           job' = job \/ Owns(w),
           WorkerInv(w)', job'.result => stored', DoneMeansDelivered'
    PROVE  JobInv'
<1>1. EpochsOwned'
  BY DEF JobInv, EpochsOwned, Steady, Working
<1>2. ASSUME NEW v \in Workers, v # w
      PROVE  WorkerInv(v)'
  <2>1. Owns(v) => job' = job
    BY <1>2 DEF JobInv, EpochsOwned, Owns, Fenced
  <2>2. QED
    BY <1>2, <2>1, OthersKeep DEF JobInv
<1>3. QED
  BY <1>1, <1>2 DEF JobInv

\* A worker that comes to rest needs only the row to be right.
LEMMA LeavingKeeps ==
    ASSUME TypeOK, JobInv, Steady, NEW w \in Workers,
           NEW p \in Resting, NEW r, Go(w, p, r),
           job' = job \/ Owns(w),
           job'.result => stored', DoneMeansDelivered'
    PROVE  JobInv'
<1>1. pc'[w] = p /\ \A v \in Workers \ {w} : pc'[v] = pc[v] /\ run'[v] = run[v]
  BY DEF Go, TypeOK
<1>2. ~Working(w)' /\ WorkerInv(w)'
  BY <1>1 DEF Working, WorkerInv, Owns, Resting
<1>3. QED
  BY <1>1, <1>2, WorkerKeeps

\* A record by the owner keeps the invariant when what it writes, and where it
\* goes on, does; a worker that is fenced only stops.
LEMMA RecordKeeps ==
    ASSUME TypeOK, JobInv, NEW w \in Workers, NEW p \in Places \ Resting,
           NEW new, NEW next \in Places, NEW r \in Run,
           Record(w, p, new, next, r),
           r.epoch = run[w].epoch,
           new.epoch = job.epoch, new.channel = job.channel,
           Owns(w) => /\ new.result => stored
                      /\ new.status \in {"delivered", "done"} =>
                            stored /\ new.result /\ (new.channel => carried > 0),
           ASSUME Owns(w), job' = new, pc'[w] = next, run'[w] = r, next \notin Resting
           PROVE  WorkerInv(w)'
    PROVE  JobInv'
<1>1. /\ pc[w] = p /\ Working(w) /\ Steady
      /\ UNCHANGED << stored, carried >>
  BY RecordOutcomes DEF Working, Steady, TypeOK
<1>2. job' = job \/ (job' = new /\ Owns(w))
  BY <1>1, RecordOutcomes DEF Owns
<1>3. (job'.result => stored') /\ DoneMeansDelivered'
  BY <1>1, <1>2 DEF JobInv, DoneMeansDelivered
<1>4. CASE Go(w, "idle", r)
  BY <1>1, <1>2, <1>3, <1>4, LeavingKeeps DEF Resting
<1>5. CASE ~Fenced(w) /\ job' = new /\ Go(w, next, r)
  <2>1. CASE next \in Resting
    BY <1>1, <1>2, <1>3, <1>5, <2>1, LeavingKeeps
  <2>2. CASE next \notin Resting
    <3>1. /\ pc'[w] = next /\ run'[w] = r
          /\ \A v \in Workers \ {w} : pc'[v] = pc[v] /\ run'[v] = run[v]
      BY <1>5, <2>2 DEF Go, TypeOK
    <3>2. Owns(w) /\ WorkerInv(w)'
      BY <1>1, <1>5, <2>2, <3>1 DEF Owns
    <3>3. QED
      BY <1>1, <1>2, <1>3, <3>1, <3>2, WorkerKeeps
  <2>3. QED
    BY <2>1, <2>2
<1>6. QED
  BY <1>4, <1>5, RecordOutcomes

\* A worker that goes on within run_one, the row unchanged.
LEMMA GoingKeeps ==
    ASSUME TypeOK, JobInv, NEW w \in Workers, Working(w),
           NEW p \in Places \ Resting, NEW r \in Run, Go(w, p, r),
           r.epoch = run[w].epoch, UNCHANGED job,
           stored => stored', carried' \in Nat, carried' >= carried,
           ASSUME pc'[w] = p, run'[w] = r, Owns(w)' = Owns(w)
           PROVE  WorkerInv(w)'
    PROVE  JobInv'
<1>1. Steady
  BY DEF Steady
<1>2. /\ pc'[w] = p /\ run'[w] = r
      /\ \A v \in Workers \ {w} : pc'[v] = pc[v] /\ run'[v] = run[v]
  BY DEF Go, TypeOK
<1>3. Working(w)' /\ Owns(w)' = Owns(w)
  BY <1>2 DEF Working, Owns, Fenced
<1>4. (job'.result => stored') /\ DoneMeansDelivered'
  BY <1>1 DEF JobInv, DoneMeansDelivered, Steady, TypeOK
<1>5. QED
  BY <1>1, <1>2, <1>3, <1>4, WorkerKeeps

\* A worker that comes to rest without writing.
LEMMA RestingKeeps ==
    ASSUME TypeOK, JobInv, NEW w \in Workers, NEW p \in Resting, NEW r, Go(w, p, r),
           UNCHANGED << job, carried >>, stored => stored'
    PROVE  JobInv'
<1>1. Steady /\ (job'.result => stored') /\ DoneMeansDelivered'
  BY DEF Steady, JobInv, DoneMeansDelivered, TypeOK
<1>2. QED
  BY <1>1, LeavingKeeps

\* A claim takes the row from whoever owned it, and no settled row is claimed.
LEMMA ClaimKeeps ==
    ASSUME TypeOK, JobInv, NEW w \in Workers, Claim(w)
    PROVE  JobInv'
<1>1. /\ job'.epoch = job.epoch + 1 /\ job.epoch \in Nat
      /\ job'.status = "running" /\ job'.channel = job.channel /\ job'.result = job.result
      /\ UNCHANGED << stored, carried >>
  <2>1. job' = Claimed /\ job \in Row /\ UNCHANGED << stored, carried >>
    BY DEF Claim, TypeOK, resultVars
  <2>2. QED
    BY <2>1, ClaimedRow DEF Claimed, Row
<1>2. /\ \A v \in Workers \ {w} : pc'[v] = pc[v] /\ run'[v] = run[v]
      /\ ~Working(w)
      /\ \/ pc'[w] = "read" /\ run'[w].epoch = job'.epoch
         \/ pc'[w] = pc[w] /\ run'[w] = run[w]
  BY ClaimedRow DEF Claim, Go, Resting, Working, TypeOK, Run
<1>3. EpochsOwned'
  <2>1. \A v \in Workers : Working(v) => run[v].epoch \in 1..job.epoch
    BY DEF JobInv, EpochsOwned
  <2>2. \A v \in Workers : Working(v)' => \/ v = w /\ run'[v].epoch = job'.epoch
                                          \/ v # w /\ Working(v) /\ run'[v].epoch = run[v].epoch
    BY <1>2 DEF Working
  <2>3. \A v \in Workers : Working(v)' => run'[v].epoch \in 1..job'.epoch
    BY <1>1, <2>1, <2>2
  <2>4. \A u, v \in Workers :
           Working(u)' /\ Working(v)' /\ run'[u].epoch = run'[v].epoch => u = v
    BY <1>1, <2>1, <2>2 DEF JobInv, EpochsOwned
  <2>5. QED
    BY <2>3, <2>4 DEF EpochsOwned
<1>4. ASSUME NEW v \in Workers
      PROVE  WorkerInv(v)'
  <2>1. CASE v # w
    <3>1. ~Owns(v)'
      BY <1>1, <1>2, <2>1 DEF JobInv, EpochsOwned, Owns, Working, Fenced
    <3>2. QED
      BY <1>1, <1>2, <2>1, <3>1 DEF JobInv, WorkerInv
  <2>2. CASE v = w
    BY <1>1, <1>2, <2>2 DEF WorkerInv, Owns, Working, Resting, Terminal
  <2>3. QED
    BY <2>1, <2>2
<1>5. QED
  BY <1>1, <1>3, <1>4 DEF JobInv, DoneMeansDelivered

\* The writes of run_one and _finish.
LEMMA WritesKeep ==
    ASSUME TypeOK, JobInv, NEW w \in Workers,
           \/ RecordRoot(w) \/ RecordError(w) \/ RecordSpend(w) \/ RecordComplete(w)
           \/ RecordDelivering(w) \/ RecordDelivered(w) \/ RecordDone(w) \/ DeadLetter(w)
    PROVE  JobInv'
<1> USE DEF Steady
<1>1. run[w] \in Run /\ job \in Row /\ WorkerInv(w) /\ DoneMeansDelivered
      /\ (job.result => stored)
  BY LocalTypes DEF TypeOK, JobInv
<1>2. /\ {"root", "error", "spend", "complete", "delivering", "delivered", "done", "park",
          "refresh", "put", "deliver"} \subseteq Places \ Resting
      /\ "idle" \in Places
  BY DEF Places, Ledger, Resting
<1>3. ASSUME NEW p \in Places \ Resting, NEW new, NEW next \in Places, NEW r \in Run,
             Record(w, p, new, next, r)
      PROVE  pc[w] = p /\ UNCHANGED << stored, carried >>
  BY <1>3, RecordOutcomes
<1>4. CASE RecordRoot(w)
  <2> DEFINE new == [job EXCEPT !.root = TRUE]
  <2>1. Record(w, "root", new, "refresh", run[w])
    BY <1>4 DEF RecordRoot
  <2>2. pc[w] = "root" /\ UNCHANGED << stored, carried >>
    BY <1>1, <1>2, <1>3, <2>1, LocalTypes
  <2>3. /\ new.epoch = job.epoch /\ new.channel = job.channel
        /\ Owns(w) => /\ new.result => stored
                      /\ new.status \in {"delivered", "done"} =>
                            stored /\ new.result /\ (new.channel => carried > 0)
    BY <1>1, <2>2 DEF Row, DoneMeansDelivered, WorkerInv
  <2>4. ASSUME Owns(w), job' = new, pc'[w] = "refresh", run'[w] = run[w], "refresh" \notin Resting
        PROVE  WorkerInv(w)'
    BY <1>1, <2>2, <2>4 DEF WorkerInv, Owns, Working, Fenced, Row, Terminal
  <2>5. QED
    BY <1>1, <1>2, <2>1, <2>3, <2>4, RecordKeeps, LocalTypes DEF Run
<1>5. CASE RecordError(w)
  <2> DEFINE new == [job EXCEPT !.error = TRUE]
  <2>1. Record(w, "error", new, "idle", run[w])
    BY <1>5 DEF RecordError
  <2>2. pc[w] = "error" /\ UNCHANGED << stored, carried >>
    BY <1>1, <1>2, <1>3, <2>1, LocalTypes
  <2>3. /\ new.epoch = job.epoch /\ new.channel = job.channel
        /\ Owns(w) => /\ new.result => stored
                      /\ new.status \in {"delivered", "done"} =>
                            stored /\ new.result /\ (new.channel => carried > 0)
    BY <1>1, <2>2 DEF Row, DoneMeansDelivered, WorkerInv
  <2>4. ASSUME Owns(w), job' = new, pc'[w] = "idle", run'[w] = run[w], "idle" \notin Resting
        PROVE  WorkerInv(w)'
    BY <2>4 DEF Resting
  <2>5. QED
    BY <1>1, <1>2, <2>1, <2>3, <2>4, RecordKeeps, LocalTypes DEF Run
<1>6. CASE RecordSpend(w)
  <2> DEFINE new == [job EXCEPT !.spent = run[w].seen + run[w].seg.cost]
             next == IF run[w].seen + run[w].seg.cost > Budget THEN "park"
                     ELSE IF run[w].seg.completed THEN "put" ELSE "refresh"
             rest == [run[w] EXCEPT !.seen = 0, !.seg = NoSegment]
  <2>0. next \in {"park", "put", "refresh"}
    OBVIOUS
  <2>1. Record(w, "spend", new, next, rest)
    BY <1>6 DEF RecordSpend
  <2>2. pc[w] = "spend" /\ UNCHANGED << stored, carried >>
    BY <1>1, <1>2, <1>3, <2>1, LocalTypes, <2>0
  <2>3. /\ new.epoch = job.epoch /\ new.channel = job.channel
        /\ Owns(w) => /\ new.result => stored
                      /\ new.status \in {"delivered", "done"} =>
                            stored /\ new.result /\ (new.channel => carried > 0)
    BY <1>1, <2>2 DEF Row, DoneMeansDelivered, WorkerInv
  <2>4. ASSUME Owns(w), job' = new, pc'[w] = next, run'[w] = rest, next \notin Resting
        PROVE  WorkerInv(w)'
    BY <1>1, <2>0, <2>2, <2>4 DEF WorkerInv, Owns, Working, Fenced, Row, Terminal
  <2>5. /\ rest \in Run /\ rest.epoch = run[w].epoch
        /\ next \in Places /\ "spend" \in Places \ Resting
    BY <1>1, <1>2, <2>0, LocalTypes DEF Run
  <2> HIDE DEF new, next, rest
  <2>6. QED
    BY <2>1, <2>3, <2>4, <2>5, RecordKeeps
<1>7. CASE RecordComplete(w)
  <2> DEFINE new == [job EXCEPT !.status = "complete", !.result = TRUE]
  <2>1. Record(w, "complete", new, "delivering", run[w])
    BY <1>7 DEF RecordComplete
  <2>2. pc[w] = "complete" /\ UNCHANGED << stored, carried >>
    BY <1>1, <1>2, <1>3, <2>1, LocalTypes
  <2>3. /\ new.epoch = job.epoch /\ new.channel = job.channel
        /\ Owns(w) => /\ new.result => stored
                      /\ new.status \in {"delivered", "done"} =>
                            stored /\ new.result /\ (new.channel => carried > 0)
    BY <1>1, <2>2 DEF Row, DoneMeansDelivered, WorkerInv
  <2>4. ASSUME Owns(w), job' = new, pc'[w] = "delivering", run'[w] = run[w], "delivering" \notin Resting
        PROVE  WorkerInv(w)'
    BY <1>1, <2>2, <2>4 DEF WorkerInv, Owns, Working, Fenced, Row, Terminal
  <2>5. QED
    BY <1>1, <1>2, <2>1, <2>3, <2>4, RecordKeeps, LocalTypes DEF Run
<1>8. CASE RecordDelivering(w)
  <2> DEFINE new == [job EXCEPT !.status = "delivering"]
  <2>1. Record(w, "delivering", new, "deliver", run[w])
    BY <1>8 DEF RecordDelivering
  <2>2. pc[w] = "delivering" /\ UNCHANGED << stored, carried >>
    BY <1>1, <1>2, <1>3, <2>1, LocalTypes
  <2>3. /\ new.epoch = job.epoch /\ new.channel = job.channel
        /\ Owns(w) => /\ new.result => stored
                      /\ new.status \in {"delivered", "done"} =>
                            stored /\ new.result /\ (new.channel => carried > 0)
    BY <1>1, <2>2 DEF Row, DoneMeansDelivered, WorkerInv
  <2>4. ASSUME Owns(w), job' = new, pc'[w] = "deliver", run'[w] = run[w], "deliver" \notin Resting
        PROVE  WorkerInv(w)'
    BY <1>1, <2>2, <2>4 DEF WorkerInv, Owns, Working, Fenced, Row, Terminal
  <2>5. QED
    BY <1>1, <1>2, <2>1, <2>3, <2>4, RecordKeeps, LocalTypes DEF Run
<1>9. CASE RecordDelivered(w)
  <2> DEFINE new == [job EXCEPT !.status = "delivered"]
  <2>1. Record(w, "delivered", new, "done", run[w])
    BY <1>9 DEF RecordDelivered
  <2>2. pc[w] = "delivered" /\ UNCHANGED << stored, carried >>
    BY <1>1, <1>2, <1>3, <2>1, LocalTypes
  <2>3. /\ new.epoch = job.epoch /\ new.channel = job.channel
        /\ Owns(w) => /\ new.result => stored
                      /\ new.status \in {"delivered", "done"} =>
                            stored /\ new.result /\ (new.channel => carried > 0)
    BY <1>1, <2>2 DEF Row, DoneMeansDelivered, WorkerInv
  <2>4. ASSUME Owns(w), job' = new, pc'[w] = "done", run'[w] = run[w], "done" \notin Resting
        PROVE  WorkerInv(w)'
    BY <1>1, <2>2, <2>4 DEF WorkerInv, Owns, Working, Fenced, Row, Terminal
  <2>5. QED
    BY <1>1, <1>2, <2>1, <2>3, <2>4, RecordKeeps, LocalTypes DEF Run
<1>10. CASE RecordDone(w)
  <2> DEFINE new == [job EXCEPT !.status = "done"]
  <2>1. Record(w, "done", new, "idle", run[w])
    BY <1>10 DEF RecordDone
  <2>2. pc[w] = "done" /\ UNCHANGED << stored, carried >>
    BY <1>1, <1>2, <1>3, <2>1, LocalTypes
  <2>3. /\ new.epoch = job.epoch /\ new.channel = job.channel
        /\ Owns(w) => /\ new.result => stored
                      /\ new.status \in {"delivered", "done"} =>
                            stored /\ new.result /\ (new.channel => carried > 0)
    BY <1>1, <2>2 DEF Row, DoneMeansDelivered, WorkerInv
  <2>4. ASSUME Owns(w), job' = new, pc'[w] = "idle", run'[w] = run[w], "idle" \notin Resting
        PROVE  WorkerInv(w)'
    BY <2>4 DEF Resting
  <2>5. QED
    BY <1>1, <1>2, <2>1, <2>3, <2>4, RecordKeeps, LocalTypes DEF Run
<1>11. CASE DeadLetter(w)
  <2> DEFINE new == [job EXCEPT !.status = run[w].verdict, !.error = TRUE]
  <2>1. Record(w, "park", new, "idle", run[w])
    BY <1>11 DEF DeadLetter
  <2>2. pc[w] = "park" /\ UNCHANGED << stored, carried >>
    BY <1>1, <1>2, <1>3, <2>1, LocalTypes
  <2>3. /\ new.epoch = job.epoch /\ new.channel = job.channel
        /\ Owns(w) => /\ new.result => stored
                      /\ new.status \in {"delivered", "done"} =>
                            stored /\ new.result /\ (new.channel => carried > 0)
    BY <1>1, <2>2 DEF Row, Run, Verdicts
  <2>4. ASSUME Owns(w), job' = new, pc'[w] = "idle", run'[w] = run[w], "idle" \notin Resting
        PROVE  WorkerInv(w)'
    BY <2>4 DEF Resting
  <2>5. QED
    BY <1>1, <1>2, <2>1, <2>3, <2>4, RecordKeeps, LocalTypes DEF Run
<1>12. QED
  BY <1>4, <1>5, <1>6, <1>7, <1>8, <1>9, <1>10, <1>11

\* The steps of run_one that do not write the row, and those that end it.
LEMMA LocalStepsKeep ==
    ASSUME TypeOK, JobInv, NEW w \in Workers,
           \/ Ready(w) \/ ReadRow(w) \/ Refresh(w) \/ ReadRaises(w) \/ RefuseSegment(w)
           \/ FireSegment(w) \/ SegmentEnds(w) \/ PutResult(w) \/ Deliver(w)
    PROVE  JobInv'
<1> USE DEF resultVars
<1>1. run[w] \in Run /\ job \in Row /\ WorkerInv(w) /\ carried \in Nat
  BY LocalTypes DEF TypeOK, JobInv
<1>2. /\ {"refresh", "root", "park", "fire", "running", "spend", "error", "complete",
          "delivered"} \subseteq Places \ Resting
      /\ {"idle", "off"} \subseteq Resting
  BY DEF Places, Ledger, Resting
<1>3. ASSUME NEW v \in Verdicts, Park(w, v), UNCHANGED << job, stored >>, Working(w),
             ~(Owns(w) /\ pc[w] = "done"), carried' \in Nat, carried' >= carried
      PROVE  JobInv'
  <2> DEFINE r == [run[w] EXCEPT !.verdict = v]
  <2>1. r \in Run /\ r.epoch = run[w].epoch /\ Go(w, "park", r)
    BY <1>1, <1>3, LocalTypes DEF Park, Run
  <2>2. ASSUME pc'[w] = "park", run'[w] = r, Owns(w)' = Owns(w)
        PROVE  WorkerInv(w)'
    BY <1>1, <1>3, <2>2 DEF WorkerInv, Working
  <2> HIDE DEF r
  <2>3. QED
    BY <1>2, <1>3, <2>1, <2>2, GoingKeeps
<1>4. CASE Ready(w)
  BY <1>2, <1>4, RestingKeeps DEF Ready, Goto
<1>5. CASE ReadRow(w)
  <2>1. CASE Park(w, "needs_review")
    BY <1>3, <1>5, <2>1 DEF ReadRow, Verdicts, Working, Resting, TypeOK
  <2>2. ASSUME NEW p \in {"refresh", "root"}, Goto(w, p)
        PROVE  JobInv'
    <3>1. ASSUME pc'[w] = p, run'[w] = run[w], Owns(w)' = Owns(w)
          PROVE  WorkerInv(w)'
      BY <1>1, <1>5, <2>2, <3>1 DEF ReadRow, WorkerInv
    <3>2. /\ Working(w) /\ UNCHANGED job /\ (stored => stored')
          /\ carried' \in Nat /\ carried' >= carried
      BY <1>1, <1>5 DEF ReadRow, Working, Resting
    <3>3. QED
      BY <1>1, <1>2, <2>2, <3>1, <3>2, GoingKeeps DEF Goto
  <2>3. QED
    BY <1>5, <2>1, <2>2 DEF ReadRow
<1>6. CASE Refresh(w)
  <2>1. ASSUME NEW v \in Verdicts, Park(w, v)
        PROVE  JobInv'
    BY <1>1, <1>3, <1>6, <2>1 DEF Refresh, Working, Resting
  <2>2. CASE Go(w, "fire", [run[w] EXCEPT !.seen = job.spent])
    <3> DEFINE r == [run[w] EXCEPT !.seen = job.spent]
    <3>1. r \in Run /\ r.epoch = run[w].epoch /\ r.seen = job.spent
      BY <1>1, LocalTypes DEF Run
    <3>2. ASSUME pc'[w] = "fire", run'[w] = r, Owns(w)' = Owns(w)
          PROVE  WorkerInv(w)'
      BY <1>1, <1>6, <3>1, <3>2 DEF Refresh, WorkerInv
    <3> HIDE DEF r
    <3>3. Go(w, "fire", r)
      BY <2>2 DEF r
    <3>4. /\ Working(w) /\ UNCHANGED job /\ (stored => stored')
          /\ carried' \in Nat /\ carried' >= carried
      BY <1>1, <1>6 DEF Refresh, Working, Resting
    <3>5. QED
      BY <1>1, <1>2, <3>1, <3>2, <3>3, <3>4, GoingKeeps
  <2>3. QED
    BY <1>6, <2>1, <2>2 DEF Refresh, Verdicts
<1>7. CASE ReadRaises(w)
  BY <1>2, <1>7, RestingKeeps DEF ReadRaises, Goto
<1>8. CASE RefuseSegment(w)
  <2>1. CASE Park(w, "needs_review")
    BY <1>1, <1>3, <1>8, <2>1 DEF RefuseSegment, Verdicts, Working, Resting
  <2>2. CASE Goto(w, "idle")
    BY <1>2, <1>8, <2>2, RestingKeeps DEF RefuseSegment, Goto
  <2>3. QED
    BY <1>8, <2>1, <2>2 DEF RefuseSegment
<1>9. CASE FireSegment(w)
  <2>1. ASSUME pc'[w] = "running", run'[w] = run[w], Owns(w)' = Owns(w)
        PROVE  WorkerInv(w)'
    BY <1>1, <1>9, <2>1 DEF FireSegment, WorkerInv
  <2>2. /\ Working(w) /\ UNCHANGED job /\ (stored => stored')
        /\ carried' \in Nat /\ carried' >= carried
    BY <1>1, <1>9 DEF FireSegment, Working, Resting
  <2>3. QED
    BY <1>1, <1>2, <1>9, <2>1, <2>2, GoingKeeps DEF FireSegment, Goto
<1>10. CASE SegmentEnds(w)
  <2>1. PICK s \in Segments : \/ Go(w, "spend", [run[w] EXCEPT !.seg = s])
                              \/ Goto(w, "error")
    BY <1>10 DEF SegmentEnds
  <2>2. CASE Goto(w, "error")
    <3>1. ASSUME pc'[w] = "error", run'[w] = run[w], Owns(w)' = Owns(w)
          PROVE  WorkerInv(w)'
      BY <1>1, <1>10, <3>1 DEF SegmentEnds, WorkerInv
    <3>2. /\ Working(w) /\ UNCHANGED job /\ (stored => stored')
          /\ carried' \in Nat /\ carried' >= carried
      BY <1>1, <1>10 DEF SegmentEnds, Working, Resting
    <3>3. QED
      BY <1>1, <1>2, <2>2, <3>1, <3>2, GoingKeeps DEF Goto
  <2>3. CASE Go(w, "spend", [run[w] EXCEPT !.seg = s])
    <3> DEFINE r == [run[w] EXCEPT !.seg = s]
    <3>1. r \in Run /\ r.epoch = run[w].epoch /\ r.seen = run[w].seen
      BY <1>1, LocalTypes DEF Run
    <3>2. ASSUME pc'[w] = "spend", run'[w] = r, Owns(w)' = Owns(w)
          PROVE  WorkerInv(w)'
      BY <1>1, <1>10, <3>1, <3>2 DEF SegmentEnds, WorkerInv
    <3> HIDE DEF r
    <3>3. Go(w, "spend", r)
      BY <2>3 DEF r
    <3>4. /\ Working(w) /\ UNCHANGED job /\ (stored => stored')
          /\ carried' \in Nat /\ carried' >= carried
      BY <1>1, <1>10 DEF SegmentEnds, Working, Resting
    <3>5. QED
      BY <1>1, <1>2, <3>1, <3>2, <3>3, <3>4, GoingKeeps
  <2>4. QED
    BY <2>1, <2>2, <2>3
<1>11. CASE PutResult(w)
  <2>1. CASE stored' = TRUE /\ Goto(w, "complete")
    <3>1. ASSUME pc'[w] = "complete", run'[w] = run[w], Owns(w)' = Owns(w)
          PROVE  WorkerInv(w)'
      BY <1>1, <1>11, <2>1, <3>1 DEF PutResult, WorkerInv
    <3>2. /\ Working(w) /\ UNCHANGED job /\ (stored => stored')
          /\ carried' \in Nat /\ carried' >= carried
      BY <1>1, <1>11 DEF PutResult, Working, Resting
    <3>3. QED
      BY <1>1, <1>2, <2>1, <3>1, <3>2, GoingKeeps DEF Goto
  <2>2. CASE UNCHANGED stored /\ Goto(w, "idle")
    BY <1>2, <1>11, <2>2, RestingKeeps DEF PutResult, Goto
  <2>3. QED
    BY <1>11, <2>1, <2>2 DEF PutResult
<1>12. CASE Deliver(w)
  <2>1. CASE /\ Goto(w, "delivered")
             /\ carried' = IF job.channel THEN carried + 1 ELSE carried
    <3>1. carried' \in Nat /\ carried' >= carried /\ (job.channel => carried' > 0)
      BY <1>1, <2>1
    <3>2. ASSUME pc'[w] = "delivered", run'[w] = run[w], Owns(w)' = Owns(w)
          PROVE  WorkerInv(w)'
      BY <1>1, <1>12, <3>1, <3>2 DEF Deliver, WorkerInv
    <3>3. QED
      BY <1>1, <1>2, <1>12, <2>1, <3>1, <3>2, GoingKeeps DEF Deliver, Goto, Working, Resting
  <2>2. CASE Park(w, "needs_review") /\ carried' \in {carried, carried + 1}
    BY <1>1, <1>3, <1>12, <2>2 DEF Deliver, Verdicts, Working, Resting
  <2>3. QED
    BY <1>12, <2>1, <2>2 DEF Deliver
<1>13. QED
  BY <1>4, <1>5, <1>6, <1>7, <1>8, <1>9, <1>10, <1>11, <1>12

\* What happens around the workers.
LEMMA AroundKeeps ==
    ASSUME TypeOK, JobInv,
           \/ LeaseExpires \/ Cancel \/ UNCHANGED vars
           \/ \E w \in Workers, k \in StepKeys : SideEffect(w, k) \/ InTurnSideEffect(w, k)
    PROVE  JobInv'
<1>1. UNCHANGED << pc, run, carried, stored >>
  BY DEF LeaseExpires, Cancel, SideEffect, InTurnSideEffect, workerVars, resultVars, vars
<1>2. /\ job'.status = job.status /\ job'.spent = job.spent /\ job'.result = job.result
      /\ job'.epoch = job.epoch /\ job'.channel = job.channel
  BY DEF LeaseExpires, Cancel, SideEffect, InTurnSideEffect, vars, TypeOK, Row
<1>3. EpochsOwned'
  BY <1>1, <1>2 DEF JobInv, EpochsOwned, Working
<1>4. Steady
  BY <1>1, <1>2 DEF Steady, TypeOK
<1>5. \A w \in Workers : WorkerInv(w)'
  BY <1>1, <1>2, <1>4, OthersKeep DEF JobInv
<1>6. QED
  BY <1>1, <1>2, <1>3, <1>5 DEF JobInv, DoneMeansDelivered

-------------------------------------------------------------------------------
(***************************************************************************)
(* The theorems.                                                           *)
(***************************************************************************)

LEMMA InvInit == Init => JobInv
<1>1. SUFFICES ASSUME Init PROVE JobInv
  OBVIOUS
<1>2. job.status = "queued" /\ job.result = FALSE /\ \A w \in Workers : pc[w] = "boot"
  BY <1>1 DEF Init
<1>3. EpochsOwned
  BY <1>2 DEF EpochsOwned, Working, Resting
<1>4. \A w \in Workers : WorkerInv(w)
  BY <1>2 DEF WorkerInv, Owns, Working, Resting
<1>5. QED
  BY <1>2, <1>3, <1>4 DEF JobInv, DoneMeansDelivered

LEMMA InvStep ==
    ASSUME TypeOK, JobInv, [Next]_vars
    PROVE  JobInv'
<1>1. ASSUME NEW w \in Workers, Step(w)
      PROVE  JobInv'
  BY <1>1, ClaimKeeps, WritesKeep, LocalStepsKeep DEF Step
<1>2. ASSUME NEW w \in Workers, Restart(w)
      PROVE  JobInv'
  BY <1>2, RestingKeeps DEF Restart, Goto, Resting, resultVars
<1>3. ASSUME NEW w \in Workers, ReadRaises(w)
      PROVE  JobInv'
  BY <1>3, LocalStepsKeep
<1>4. QED
  BY <1>1, <1>2, <1>3, AroundKeeps DEF Next

\* One worker at most carries the row's epoch, what it read is what the row
\* says, and the result is stored, recorded and delivered in that order.
THEOREM JobInvariant == Spec => []JobInv
<1>1. TypeOK /\ JobInv /\ [Next]_vars => JobInv'
  BY InvStep
<1>2. QED
  BY <1>1, InvInit, TypeCorrect, PTL DEF Spec

\* A job that says delivered or done has its result stored, recorded, and handed
\* to its channel (_finish).
THEOREM DeliveredResult == Spec => []DoneMeansDelivered
<1>1. JobInv => DoneMeansDelivered
  BY DEF JobInv
<1>2. QED
  BY <1>1, JobInvariant, PTL

\* A worker writes the row only when it owns it, and what it writes neither
\* lowers the spend nor takes a settled job anywhere but from delivered to done.
LEMMA OwnersWrite ==
    ASSUME TypeOK, JobInv, NEW w \in Workers, Step(w) \/ ReadRaises(w) \/ Restart(w)
    PROVE  /\ job'.spent >= job.spent
           /\ job.status \in Terminal =>
                 job'.status = job.status \/ (job.status = "delivered" /\ job'.status = "done")
<1> DEFINE Good(j) == /\ j.spent >= job.spent
                      /\ job.status \in Terminal =>
                            j.status = job.status \/ (job.status = "delivered" /\ j.status = "done")
<1>1. job \in Row /\ job.spent \in Nat /\ run[w] \in Run /\ WorkerInv(w)
  BY DEF TypeOK, JobInv, Row
<1>2. Good(job)
  BY <1>1
<1>3. ASSUME NEW p \in Places \ Resting, NEW new, NEW next, NEW r, Record(w, p, new, next, r),
             Owns(w) /\ pc[w] = p => Good(new)
      PROVE  Good(job')
  <2>1. pc[w] = p /\ (job' = job \/ (~Fenced(w) /\ job' = new))
    BY <1>3, RecordOutcomes
  <2>2. QED
    BY <1>2, <1>3, <2>1 DEF Owns, Working
<1>4. ASSUME Owns(w), pc[w] # "done"
      PROVE  job.status \notin Terminal
  BY <1>1, <1>4 DEF WorkerInv
<1>5. {"root", "error", "spend", "complete", "delivering", "delivered", "done", "park"}
        \subseteq Places \ Resting
  BY DEF Places, Ledger, Resting
<1>6. CASE Claim(w)
  BY <1>1, <1>6 DEF Claim, Claimable, Claimed, Row
<1>7. CASE RecordRoot(w)
  <2>1. Owns(w) /\ pc[w] = "root" => Good([job EXCEPT !.root = TRUE])
    BY <1>1, <1>4 DEF Row
  <2>2. QED
    BY <1>3, <1>5, <1>7, <2>1 DEF RecordRoot
<1>8. CASE RecordError(w)
  <2>1. Owns(w) /\ pc[w] = "error" => Good([job EXCEPT !.error = TRUE])
    BY <1>1, <1>4 DEF Row
  <2>2. QED
    BY <1>3, <1>5, <1>8, <2>1 DEF RecordError
<1>9. CASE RecordSpend(w)
  <2> DEFINE total == run[w].seen + run[w].seg.cost
  <2>1. run[w].seen \in Nat /\ run[w].seg.cost \in Nat
    BY <1>1, JobAssumption DEF Run, Segments
  <2>2. Owns(w) /\ pc[w] = "spend" => total >= job.spent
    BY <1>1, <2>1 DEF WorkerInv
  <2>3. Owns(w) /\ pc[w] = "spend" => Good([job EXCEPT !.spent = total])
    BY <1>1, <1>4, <2>2 DEF Row
  <2> HIDE DEF total
  <2>4. \E next, r : Record(w, "spend", [job EXCEPT !.spent = total], next, r)
    BY <1>9 DEF RecordSpend, total
  <2>5. QED
    BY <1>3, <1>5, <2>3, <2>4
<1>10. CASE RecordComplete(w)
  <2>1. Owns(w) /\ pc[w] = "complete" =>
           Good([job EXCEPT !.status = "complete", !.result = TRUE])
    BY <1>1, <1>4 DEF Row
  <2>2. QED
    BY <1>3, <1>5, <1>10, <2>1 DEF RecordComplete
<1>11. CASE RecordDelivering(w)
  <2>1. Owns(w) /\ pc[w] = "delivering" => Good([job EXCEPT !.status = "delivering"])
    BY <1>1, <1>4 DEF Row
  <2>2. QED
    BY <1>3, <1>5, <1>11, <2>1 DEF RecordDelivering
<1>12. CASE RecordDelivered(w)
  <2>1. Owns(w) /\ pc[w] = "delivered" => Good([job EXCEPT !.status = "delivered"])
    BY <1>1, <1>4 DEF Row
  <2>2. QED
    BY <1>3, <1>5, <1>12, <2>1 DEF RecordDelivered
<1>13. CASE RecordDone(w)
  <2>1. Owns(w) /\ pc[w] = "done" => Good([job EXCEPT !.status = "done"])
    BY <1>1 DEF Row, WorkerInv
  <2>2. QED
    BY <1>3, <1>5, <1>13, <2>1 DEF RecordDone
<1>14. CASE DeadLetter(w)
  <2>1. Owns(w) /\ pc[w] = "park" =>
           Good([job EXCEPT !.status = run[w].verdict, !.error = TRUE])
    BY <1>1, <1>4 DEF Row
  <2>2. QED
    BY <1>3, <1>5, <1>14, <2>1 DEF DeadLetter
<1>15. CASE job' = job
  BY <1>2, <1>15
<1>16. QED
  BY <1>6, <1>7, <1>8, <1>9, <1>10, <1>11, <1>12, <1>13, <1>14, <1>15
     DEF Step, Ready, ReadRow, Refresh, ReadRaises, RefuseSegment, FireSegment, SegmentEnds,
         PutResult, Deliver, Restart

\* So does no step.
LEMMA RowStep ==
    ASSUME TypeOK, JobInv, [Next]_vars
    PROVE  /\ job'.spent >= job.spent
           /\ job.status \in Terminal =>
                 job'.status = job.status \/ (job.status = "delivered" /\ job'.status = "done")
<1>1. job \in Row /\ job.spent \in Nat
  BY DEF TypeOK, Row
<1>2. CASE LeaseExpires \/ Cancel
  BY <1>1, <1>2 DEF LeaseExpires, Cancel, Row
<1>3. CASE job' = job
  BY <1>1, <1>3
<1>4. QED
  BY <1>2, <1>3, OwnersWrite DEF Next, SideEffect, InTurnSideEffect, vars

\* The epoch fence keeps the row's spend from ever falling (run_one's record).
THEOREM SpendMonotone == Spec => SpentNeverFalls
<1>1. TypeOK /\ JobInv /\ [Next]_vars => [job'.spent >= job.spent]_job
  BY RowStep
<1>2. QED
  BY <1>1, TypeCorrect, JobInvariant, PTL DEF Spec, SpentNeverFalls

\* A settled job stays settled, whoever was overtaken while settling it
\* (run_one, _finish, _dead_letter).
THEOREM SettledForGood == Spec => TerminalIsFinal
<1>1. TypeOK /\ JobInv /\ [Next]_vars =>
        [job.status \in Terminal =>
            job'.status \in {job.status} \cup
                IF job.status = "delivered" THEN {"done"} ELSE {}]_job
  BY RowStep
<1>2. QED
  BY <1>1, TypeCorrect, JobInvariant, PTL DEF Spec, TerminalIsFinal

-------------------------------------------------------------------------------
(***************************************************************************)
(* What the job's guard, its cancel, its delivery and its budget promise.  *)
(***************************************************************************)

\* A record moves its own worker alone.
LEMMA RecordMoves ==
    ASSUME TypeOK, NEW w \in Workers, NEW p, NEW new, NEW next, NEW r,
           Record(w, p, new, next, r)
    PROVE  /\ \A v \in Workers \ {w} : pc'[v] = pc[v] /\ run'[v] = run[v]
           /\ pc[w] = p /\ pc'[w] \in {next, "idle"}
           /\ UNCHANGED << late, paid >>
BY RecordOutcomes DEF Go, TypeOK

\* A step of one worker leaves the others where they are, and only the head of
\* the segment loop takes it to a segment.
LEMMA OthersStay ==
    ASSUME TypeOK, NEW w \in Workers, Step(w) \/ ReadRaises(w) \/ Restart(w)
    PROVE  /\ \A v \in Workers \ {w} : pc'[v] = pc[v] /\ run'[v] = run[v] /\ late'[v] = late[v]
           /\ pc'[w] = "fire" => Refresh(w)
           /\ ~FireSegment(w) => late' = late
<1> DEFINE Alone == \A v \in Workers \ {w} : pc'[v] = pc[v] /\ run'[v] = run[v]
<1>1. CASE RecordRoot(w) \/ RecordError(w) \/ RecordComplete(w) \/ RecordDelivering(w)
             \/ RecordDelivered(w) \/ RecordDone(w) \/ DeadLetter(w)
  <2>1. Alone /\ pc'[w] # "fire" /\ late' = late
    BY <1>1, RecordMoves DEF RecordRoot, RecordError, RecordComplete, RecordDelivering,
       RecordDelivered, RecordDone, DeadLetter
  <2>2. QED
    BY <2>1
<1>2. CASE RecordSpend(w)
  <2>1. PICK new, next, r : /\ Record(w, "spend", new, next, r)
                            /\ next \in {"park", "put", "refresh"}
    BY <1>2 DEF RecordSpend
  <2>2. Alone /\ pc'[w] # "fire" /\ late' = late
    BY <2>1, RecordMoves
  <2>3. QED
    BY <2>2
<1>3. CASE Claim(w)
  <2>1. Alone /\ pc'[w] # "fire" /\ late' = late
    BY <1>3 DEF Claim, Go, TypeOK
  <2>2. QED
    BY <2>1
<1>4. CASE Refresh(w)
  <2>1. Alone /\ late' = late
    BY <1>4 DEF Refresh, Park, Go, TypeOK
  <2>2. QED
    BY <1>4, <2>1
<1>5. CASE FireSegment(w)
  <2>1. Alone /\ pc'[w] = "running" /\ \A v \in Workers \ {w} : late'[v] = late[v]
    BY <1>5 DEF FireSegment, Goto, Go, TypeOK
  <2>2. QED
    BY <1>5, <2>1
<1>6. CASE SegmentEnds(w)
  <2>1. Alone /\ pc'[w] # "fire" /\ late' = late
    BY <1>6 DEF SegmentEnds, Goto, Go, TypeOK
  <2>2. QED
    BY <2>1
<1>7. CASE \/ Ready(w) \/ ReadRow(w) \/ RefuseSegment(w) \/ PutResult(w) \/ Deliver(w)
           \/ ReadRaises(w) \/ Restart(w)
  <2>1. Alone /\ pc'[w] # "fire" /\ late' = late
    BY <1>7 DEF Ready, ReadRow, RefuseSegment, PutResult, Deliver, ReadRaises, Restart,
       Park, Goto, Go, resultVars, TypeOK
  <2>2. QED
    BY <2>1
<1>8. QED
  BY <1>1, <1>2, <1>3, <1>4, <1>5, <1>6, <1>7 DEF Step

\* Side effects are fired, and the journal written, by the two guards alone.
LEMMA WorkersDoNotFire ==
    ASSUME NEW w \in Workers, Step(w) \/ ReadRaises(w) \/ Restart(w)
    PROVE  UNCHANGED << journal, fired >>
BY DEF Step, Ready, Claim, ReadRow, RecordRoot, Refresh, RefuseSegment, FireSegment,
       SegmentEnds, RecordError, RecordSpend, PutResult, RecordComplete,
       RecordDelivering, Deliver, RecordDelivered, RecordDone, DeadLetter,
       ReadRaises, Restart, Record

LEMMA FiredStep ==
    ASSUME TypeOK, FiredJournaled, [Next]_vars
    PROVE  FiredJournaled'
<1>1. ASSUME journal \subseteq journal', fired' = fired
      PROVE  FiredJournaled'
  BY <1>1 DEF FiredJournaled, Journaled
<1>2. ASSUME NEW w \in Workers, NEW k \in StepKeys, SideEffect(w, k)
      PROVE  FiredJournaled'
  <2>1. journal \subseteq journal' /\ Journaled(k)' /\ fired[k] = 0
    BY <1>2 DEF SideEffect, FiredJournaled, Journaled, TypeOK
  <2>2. fired' = fired \/ fired' = [fired EXCEPT ![k] = @ + 1]
    BY <1>2 DEF SideEffect
  <2>3. \A j \in StepKeys : fired'[j] = fired[j] \/ (j = k /\ fired'[j] = 1)
    BY <2>1, <2>2 DEF TypeOK
  <2>4. \A j \in StepKeys : Journaled(j) => Journaled(j)'
    BY <2>1 DEF Journaled
  <2>5. QED
    BY <2>1, <2>3, <2>4 DEF FiredJournaled
<1>3. ASSUME NEW w \in Workers, NEW k \in StepKeys, InTurnSideEffect(w, k)
      PROVE  FiredJournaled'
  BY <1>1, <1>3 DEF InTurnSideEffect
<1>4. CASE LeaseExpires \/ Cancel \/ UNCHANGED vars
  BY <1>1, <1>4 DEF LeaseExpires, Cancel, vars
<1>5. QED
  BY <1>1, <1>2, <1>3, <1>4, WorkersDoNotFire DEF Next

\* Over every resume, a side effect the agent guards fires once: its key is in
\* the journal before it is fired, and the journal is never emptied
\* (job_record_sideeffect, idem_begin).
THEOREM FiredOnce == Spec => []StepFiredOnce
<1>1. Init => FiredJournaled
  BY DEF Init, FiredJournaled
<1>2. TypeOK /\ FiredJournaled /\ [Next]_vars => FiredJournaled'
  BY FiredStep
<1>3. FiredJournaled => StepFiredOnce
  BY DEF FiredJournaled, StepFiredOnce
<1>4. QED
  BY <1>1, <1>2, <1>3, TypeCorrect, PTL DEF Spec

-------------------------------------------------------------------------------

\* But for the claim, no worker's step moves the epoch, the attempts, the cancel
\* or the lease; and only the record of the spend changes the spend.
LEMMA RowFrame ==
    ASSUME TypeOK, NEW w \in Workers,
           (Step(w) /\ ~Claim(w)) \/ ReadRaises(w) \/ Restart(w)
    PROVE  /\ job'.epoch = job.epoch /\ job'.attempts = job.attempts
           /\ job'.cancel = job.cancel /\ job'.leased = job.leased
           /\ ~RecordSpend(w) => job'.spent = job.spent
<1> DEFINE Kept(j) == /\ j.epoch = job.epoch /\ j.attempts = job.attempts
                      /\ j.cancel = job.cancel /\ j.leased = job.leased
<1>1. ASSUME NEW p, NEW new, NEW next, NEW r, Record(w, p, new, next, r), Kept(new)
      PROVE  Kept(job') /\ (new.spent = job.spent => job'.spent = job.spent)
  BY <1>1, RecordOutcomes
<1>2. CASE RecordSpend(w)
  <2> DEFINE total == run[w].seen + run[w].seg.cost
  <2>1. Kept([job EXCEPT !.spent = total])
    BY DEF TypeOK, Row
  <2> HIDE DEF total
  <2>2. \E next, r : Record(w, "spend", [job EXCEPT !.spent = total], next, r)
    BY <1>2 DEF RecordSpend, total
  <2>3. QED
    BY <1>1, <1>2, <2>1, <2>2
<1>3. CASE RecordRoot(w)
  <2>1. Kept([job EXCEPT !.root = TRUE]) /\ [job EXCEPT !.root = TRUE].spent = job.spent
    BY DEF TypeOK, Row
  <2>2. QED
    BY <1>1, <1>3, <2>1 DEF RecordRoot
<1>4. CASE RecordError(w)
  <2>1. Kept([job EXCEPT !.error = TRUE]) /\ [job EXCEPT !.error = TRUE].spent = job.spent
    BY DEF TypeOK, Row
  <2>2. QED
    BY <1>1, <1>4, <2>1 DEF RecordError
<1>5. CASE RecordComplete(w)
  <2>1. Kept([job EXCEPT !.status = "complete", !.result = TRUE]) /\ [job EXCEPT !.status = "complete", !.result = TRUE].spent = job.spent
    BY DEF TypeOK, Row
  <2>2. QED
    BY <1>1, <1>5, <2>1 DEF RecordComplete
<1>6. CASE RecordDelivering(w)
  <2>1. Kept([job EXCEPT !.status = "delivering"]) /\ [job EXCEPT !.status = "delivering"].spent = job.spent
    BY DEF TypeOK, Row
  <2>2. QED
    BY <1>1, <1>6, <2>1 DEF RecordDelivering
<1>7. CASE RecordDelivered(w)
  <2>1. Kept([job EXCEPT !.status = "delivered"]) /\ [job EXCEPT !.status = "delivered"].spent = job.spent
    BY DEF TypeOK, Row
  <2>2. QED
    BY <1>1, <1>7, <2>1 DEF RecordDelivered
<1>8. CASE RecordDone(w)
  <2>1. Kept([job EXCEPT !.status = "done"]) /\ [job EXCEPT !.status = "done"].spent = job.spent
    BY DEF TypeOK, Row
  <2>2. QED
    BY <1>1, <1>8, <2>1 DEF RecordDone
<1>9. CASE DeadLetter(w)
  <2>1. Kept([job EXCEPT !.status = run[w].verdict, !.error = TRUE]) /\ [job EXCEPT !.status = run[w].verdict, !.error = TRUE].spent = job.spent
    BY DEF TypeOK, Row
  <2>2. QED
    BY <1>1, <1>9, <2>1 DEF DeadLetter
<1>10. CASE job' = job
  BY <1>10
<1>11. QED
  BY <1>2, <1>3, <1>4, <1>5, <1>6, <1>7, <1>8, <1>9, <1>10
     DEF Step, Ready, ReadRow, Refresh, RefuseSegment, FireSegment, SegmentEnds,
         PutResult, Deliver, ReadRaises, Restart

\* A claim starts an attempt under the next epoch.
LEMMA ClaimFrame ==
    ASSUME TypeOK, NEW w \in Workers, Claim(w)
    PROVE  /\ job'.epoch = job.epoch + 1 /\ job'.attempts = job.attempts + 1
           /\ job'.cancel = job.cancel /\ job'.leased /\ job'.spent = job.spent
           /\ \/ pc'[w] = "read" /\ run'[w].epoch = job'.epoch
              \/ UNCHANGED << pc, run >> /\ Fault
<1>1. /\ job'.epoch = job.epoch + 1 /\ job'.attempts = job.attempts + 1
      /\ job'.cancel = job.cancel /\ job'.leased /\ job'.spent = job.spent
  BY DEF Claim, Claimed, TypeOK, Row
<1>2. CASE Go(w, "read", [run[w] EXCEPT !.epoch = Claimed.epoch])
  <2>1. run[w] \in Run /\ Claimed = job'
    BY LocalTypes DEF Claim
  <2>2. [run[w] EXCEPT !.epoch = Claimed.epoch].epoch = job'.epoch
    BY <2>1 DEF Run
  <2>3. pc'[w] = "read" /\ run'[w] = [run[w] EXCEPT !.epoch = Claimed.epoch]
    BY <1>2 DEF Go, Resting, TypeOK
  <2>4. QED
    BY <1>1, <2>2, <2>3
<1>3. QED
  BY <1>1, <1>2 DEF Claim

\* No write takes a cancel back.
LEMMA CancelStays ==
    ASSUME TypeOK, [Next]_vars, job.cancel
    PROVE  job'.cancel
<1>1. ASSUME NEW w \in Workers, Step(w)
      PROVE  job'.cancel
  BY <1>1, RowFrame, ClaimFrame
<1>2. CASE Cancel \/ LeaseExpires
  BY <1>2 DEF Cancel, LeaseExpires, TypeOK, Row
<1>3. QED
  BY <1>1, <1>2 DEF Next, ReadRaises, Restart, SideEffect, InTurnSideEffect, vars

LEMMA LateStep ==
    ASSUME TypeOK, LateInv, [Next]_vars
    PROVE  LateInv'
<1>1. ASSUME NEW v \in Workers, late'[v] = late[v], late[v] > 0 => pc'[v] # "fire"
      PROVE  late'[v] <= 1 /\ (late'[v] > 0 => job'.cancel /\ pc'[v] # "fire")
  BY <1>1, CancelStays DEF LateInv
<1>2. ASSUME NEW w \in Workers, Step(w) \/ ReadRaises(w) \/ Restart(w)
      PROVE  LateInv'
  <2>1. ASSUME NEW v \in Workers \ {w}
        PROVE  late'[v] <= 1 /\ (late'[v] > 0 => job'.cancel /\ pc'[v] # "fire")
    BY <1>1, <1>2, OthersStay DEF LateInv
  <2>2. late'[w] <= 1 /\ (late'[w] > 0 => job'.cancel /\ pc'[w] # "fire")
    <3>1. CASE Refresh(w)
      BY <1>1, <3>1 DEF Refresh, LateInv, Park, Go, TypeOK
    <3>2. CASE FireSegment(w)
      BY <3>2 DEF FireSegment, LateInv, Goto, Go, TypeOK
    <3>3. CASE ~Refresh(w) /\ ~FireSegment(w)
      BY <1>1, <1>2, <3>3, OthersStay
    <3>4. QED
      BY <3>1, <3>2, <3>3
  <2>3. QED
    BY <2>1, <2>2 DEF LateInv
<1>3. CASE UNCHANGED << pc, late >>
  BY <1>1, <1>3 DEF LateInv
<1>4. QED
  BY <1>2, <1>3 DEF Next, LeaseExpires, Cancel, SideEffect, InTurnSideEffect, vars, workerVars

\* After a cancel a worker begins one segment at most, the one it had decided on
\* when it read the row (the head of run_one's loop).
THEOREM CancelStops == Spec => []CancelStopsWork
<1>1. Init => LateInv
  BY DEF Init, LateInv
<1>2. TypeOK /\ LateInv /\ [Next]_vars => LateInv'
  BY LateStep
<1>3. LateInv => CancelStopsWork
  BY DEF LateInv, CancelStopsWork
<1>4. QED
  BY <1>1, <1>2, <1>3, TypeCorrect, PTL DEF Spec

-------------------------------------------------------------------------------

\* While nothing went wrong, a step of a worker that keeps its epoch, or stops,
\* keeps the worker the owner of a leased row.
LEMMA QuietGo ==
    ASSUME TypeOK, QuietInv, faults = 0, NEW w \in Workers, NEW p, NEW r, Go(w, p, r),
           p \notin Resting => Working(w) /\ r.epoch = run[w].epoch,
           job'.epoch = job.epoch, job'.leased = job.leased
    PROVE  \A v \in Workers : Working(v)' => Owns(v)' /\ job'.leased
<1>1. \A v \in Workers : Working(v) => Owns(v) /\ job.leased
  BY DEF QuietInv
<1>2. ASSUME NEW v \in Workers \ {w}, Working(v)'
      PROVE  Owns(v)' /\ job'.leased
  <2>1. pc'[v] = pc[v] /\ run'[v] = run[v]
    BY DEF Go, TypeOK
  <2>2. QED
    BY <1>1, <1>2, <2>1 DEF Owns, Working, Fenced
<1>3. ASSUME Working(w)'
      PROVE  Owns(w)' /\ job'.leased
  <2>1. p \notin Resting /\ run'[w] = r
    BY <1>3 DEF Go, Working, TypeOK
  <2>2. Owns(w) /\ job.leased /\ r.epoch = run[w].epoch
    BY <1>1, <2>1
  <2>3. QED
    BY <1>3, <2>1, <2>2 DEF Owns, Fenced
<1>4. QED
  BY <1>2, <1>3

\* Two workers cannot both be in run_one.
LEMMA QuietAlone ==
    ASSUME JobInv, QuietInv, faults = 0, NEW v \in Workers, NEW w \in Workers,
           Working(v), Working(w)
    PROVE  v = w
<1>1. ~Fenced(v) /\ ~Fenced(w)
  BY DEF QuietInv, Owns
<1>2. QED
  BY <1>1 DEF JobInv, EpochsOwned, Fenced

LEMMA QuietRecord ==
    ASSUME TypeOK, JobInv, QuietInv, faults = 0, faults' = 0,
           NEW w \in Workers, NEW p \in Places \ Resting, NEW new, NEW next, NEW r,
           Record(w, p, new, next, r), r.epoch = run[w].epoch,
           job'.epoch = job.epoch, job'.leased = job.leased,
           job.status \in Terminal => job'.status \in Terminal,
           p \in {"delivered", "park"} => new.status \in Terminal
    PROVE  QuietInv'
<1>1. pc[w] = p /\ Working(w) /\ ~Fenced(w) /\ carried' = carried
  BY RecordOutcomes DEF QuietInv, Owns, Working
<1>2. Go(w, next, r) /\ job' = new
  BY <1>1 DEF Record, Fault
<1>3. \A v \in Workers : Working(v)' => Owns(v)' /\ job'.leased
  BY <1>1, <1>2, QuietGo
<1>4. ASSUME NEW v \in Workers, pc[v] \in {"delivered", "park"}
      PROVE  job'.status \in Terminal
  <2>1. Working(v)
    BY <1>4 DEF Working, Resting
  <2>2. v = w
    BY <1>1, <2>1, QuietAlone
  <2>3. QED
    BY <1>1, <1>2, <1>4, <2>2
<1>5. QED
  BY <1>1, <1>3, <1>4 DEF QuietInv

\* The steps that do not write the row and hand nothing to the channel.
LEMMA QuietLocal ==
    ASSUME TypeOK, JobInv, QuietInv, faults = 0,
           NEW w \in Workers, NEW p, NEW r, Go(w, p, r),
           p \notin Resting => Working(w) /\ r.epoch = run[w].epoch,
           pc[w] \notin {"delivered", "park"}, UNCHANGED << job, carried >>
    PROVE  QuietInv'
<1>1. \A v \in Workers : Working(v)' => Owns(v)' /\ job'.leased
  BY QuietGo
<1>2. ASSUME NEW v \in Workers, pc[v] \in {"delivered", "park"}
      PROVE  pc'[v] \in {"delivered", "park"}
  BY <1>2 DEF Go, TypeOK
<1>3. QED
  BY <1>1, <1>2 DEF QuietInv

LEMMA QuietWorker ==
    ASSUME TypeOK, JobInv, QuietInv, faults = 0, faults' = 0, NEW w \in Workers, Step(w)
    PROVE  QuietInv'
<1> USE DEF resultVars
<1>1. /\ Working(w) <=> pc[w] \notin Resting
      /\ {"read", "refresh", "root", "park", "fire", "running", "spend", "error", "put",
          "complete", "deliver", "delivered"} \cap Resting = {}
      /\ {"idle", "off"} \subseteq Resting
  BY DEF Working, Resting
<1>2. run[w] \in Run /\ job \in Row /\ carried \in Nat
  BY LocalTypes DEF TypeOK
<1>3. job.status \in Terminal => job'.status \in Terminal
  <2>1. [Next]_vars
    BY DEF Next
  <2>2. QED
    BY <2>1, RowStep DEF Terminal
<1>4. {"root", "error", "spend", "complete", "delivering", "delivered", "done", "park"}
        \subseteq Places \ Resting
  BY DEF Places, Ledger, Resting
<1>5. ASSUME NEW p \in Places \ Resting, NEW new, NEW next, Record(w, p, new, next, run[w]),
             p \in {"delivered", "park"} => new.status \in Terminal
      PROVE  QuietInv'
  <2>1. pc[w] # "idle"
    BY <1>5 DEF Record, Resting
  <2>2. job'.epoch = job.epoch /\ job'.leased = job.leased
    BY <2>1, RowFrame DEF Claim
  <2>3. QED
    BY <1>3, <1>5, <2>2, QuietRecord
<1>6. ASSUME NEW x \in Verdicts
      PROVE  [run[w] EXCEPT !.verdict = x].epoch = run[w].epoch
  BY <1>2 DEF Run
<1>7. CASE Claim(w)
  <2>1. ~job.leased /\ job.status \notin Terminal /\ carried' = carried
    BY <1>7 DEF Claim, Claimable
  <2>2. \A v \in Workers : ~Working(v)
    BY <2>1 DEF QuietInv
  <2>3. carried = 0
    BY <2>1, <2>2 DEF QuietInv, Working, Resting
  <2>4. \A v \in Workers \ {w} : pc'[v] = pc[v] /\ run'[v] = run[v]
    BY <1>7, OthersStay
  <2>5. pc'[w] = "read" /\ run'[w].epoch = job'.epoch /\ job'.leased
    BY <1>7, ClaimFrame DEF Fault
  <2>6. \A v \in Workers : Working(v)' => Owns(v)' /\ job'.leased
    BY <2>2, <2>4, <2>5 DEF Owns, Working, Fenced
  <2>7. QED
    BY <2>1, <2>3, <2>6 DEF QuietInv
<1>8. CASE RecordRoot(w)
  BY <1>4, <1>5, <1>8 DEF RecordRoot
<1>9. CASE RecordError(w)
  BY <1>4, <1>5, <1>9 DEF RecordError
<1>10. CASE RecordComplete(w)
  BY <1>4, <1>5, <1>10 DEF RecordComplete
<1>11. CASE RecordDelivering(w)
  BY <1>4, <1>5, <1>11 DEF RecordDelivering
<1>12. CASE RecordDelivered(w)
  <2>1. [job EXCEPT !.status = "delivered"].status \in Terminal
    BY <1>2 DEF Terminal, Run, Verdicts, Row
  <2>2. QED
    BY <1>4, <1>5, <1>12, <2>1 DEF RecordDelivered
<1>13. CASE RecordDone(w)
  BY <1>4, <1>5, <1>13 DEF RecordDone
<1>14. CASE DeadLetter(w)
  <2>1. [job EXCEPT !.status = run[w].verdict, !.error = TRUE].status \in Terminal
    BY <1>2 DEF Terminal, Run, Verdicts, Row
  <2>2. QED
    BY <1>4, <1>5, <1>14, <2>1 DEF DeadLetter
<1>15. CASE RecordSpend(w)
  <2>1. PICK new, next, r : Record(w, "spend", new, next, r) /\ r.epoch = run[w].epoch
    <3>1. [run[w] EXCEPT !.seen = 0, !.seg = NoSegment].epoch = run[w].epoch
      BY <1>2 DEF Run
    <3>2. QED
      BY <1>15, <3>1 DEF RecordSpend
  <2>2. pc[w] # "idle"
    BY <2>1 DEF Record
  <2>3. job'.epoch = job.epoch /\ job'.leased = job.leased
    BY <2>2, RowFrame DEF Claim
  <2>4. QED
    BY <1>3, <1>4, <2>1, <2>3, QuietRecord
<1>16. CASE Ready(w)
  BY <1>1, <1>16, QuietLocal DEF Ready, Goto
<1>17. CASE ReadRow(w) \/ RefuseSegment(w)
  <2>1. /\ pc[w] \in {"read", "fire"} /\ UNCHANGED << job, carried >>
        /\ Park(w, "needs_review") \/ \E p \in {"refresh", "root", "idle"} : Goto(w, p)
    BY <1>17 DEF ReadRow, RefuseSegment
  <2>2. CASE Park(w, "needs_review")
    BY <1>1, <1>6, <2>1, <2>2, QuietLocal DEF Park, Verdicts
  <2>3. ASSUME NEW p \in {"refresh", "root", "idle"}, Goto(w, p)
        PROVE  QuietInv'
    BY <1>1, <2>1, <2>3, QuietLocal DEF Goto
  <2>4. QED
    BY <2>1, <2>2, <2>3
<1>18. CASE Refresh(w)
  <2>1. pc[w] = "refresh" /\ UNCHANGED << job, carried >>
    BY <1>18 DEF Refresh
  <2>2. ASSUME NEW x \in Verdicts, Park(w, x)
        PROVE  QuietInv'
    BY <1>1, <1>6, <2>1, <2>2, QuietLocal DEF Park
  <2>3. CASE Go(w, "fire", [run[w] EXCEPT !.seen = job.spent])
    <3>1. [run[w] EXCEPT !.seen = job.spent].epoch = run[w].epoch
      BY <1>2 DEF Run
    <3>2. QED
      BY <1>1, <2>1, <2>3, <3>1, QuietLocal
  <2>4. QED
    BY <1>18, <2>2, <2>3 DEF Refresh, Verdicts
<1>19. CASE FireSegment(w)
  BY <1>1, <1>19, QuietLocal DEF FireSegment, Goto
<1>20. CASE SegmentEnds(w)
  <2>1. pc[w] = "running" /\ UNCHANGED << job, carried >>
    BY <1>20 DEF SegmentEnds
  <2>2. CASE Goto(w, "error")
    BY <1>1, <2>1, <2>2, QuietLocal DEF Goto
  <2>3. ASSUME NEW x \in Segments, Go(w, "spend", [run[w] EXCEPT !.seg = x])
        PROVE  QuietInv'
    <3>1. [run[w] EXCEPT !.seg = x].epoch = run[w].epoch
      BY <1>2 DEF Run
    <3>2. QED
      BY <1>1, <2>1, <2>3, <3>1, QuietLocal
  <2>4. QED
    BY <1>20, <2>2, <2>3 DEF SegmentEnds
<1>21. CASE PutResult(w)
  BY <1>1, <1>21, QuietLocal DEF PutResult, Goto
<1>22. CASE Deliver(w)
  <2>1. pc[w] = "deliver" /\ job' = job /\ Working(w)
    BY <1>1, <1>22 DEF Deliver
  <2>2. carried = 0
    <3>1. job.status \notin Terminal
      BY <2>1 DEF JobInv, WorkerInv, QuietInv
    <3>2. ASSUME NEW v \in Workers, pc[v] \in {"delivered", "park"}
          PROVE  FALSE
      <4>1. Working(v)
        BY <3>2 DEF Working, Resting
      <4>2. QED
        BY <2>1, <3>2, <4>1, QuietAlone
    <3>3. QED
      BY <3>1, <3>2 DEF QuietInv
  <2>3. carried' \in {0, 1}
    BY <1>22, <2>2 DEF Deliver
  <2>4. PICK p, r : p \in {"delivered", "park"} /\ Go(w, p, r) /\ r.epoch = run[w].epoch
    BY <1>6, <1>22 DEF Deliver, Goto, Park, Verdicts
  <2>5. \A v \in Workers : Working(v)' => Owns(v)' /\ job'.leased
    BY <1>1, <2>1, <2>4, QuietGo
  <2>6. pc'[w] \in {"delivered", "park"}
    BY <2>4 DEF Go, TypeOK
  <2>7. QED
    BY <2>3, <2>5, <2>6 DEF QuietInv
<1>23. QED
  BY <1>7, <1>8, <1>9, <1>10, <1>11, <1>12, <1>13, <1>14, <1>15, <1>16, <1>17, <1>18,
     <1>19, <1>20, <1>21, <1>22 DEF Step

\* What went wrong is not forgotten.
LEMMA FaultsStay ==
    ASSUME TypeOK, [Next]_vars
    PROVE  faults' = faults \/ faults' = faults + 1
BY DEF Next, Step, Ready, Claim, ReadRow, RecordRoot, Refresh, RefuseSegment, FireSegment,
       SegmentEnds, RecordError, RecordSpend, PutResult, RecordComplete,
       RecordDelivering, Deliver, RecordDelivered, RecordDone, DeadLetter,
       ReadRaises, Restart, SideEffect, InTurnSideEffect, LeaseExpires, Cancel, vars,
       Record, Fault

LEMMA QuietStep ==
    ASSUME TypeOK, JobInv, QuietInv, [Next]_vars
    PROVE  QuietInv'
<1>1. SUFFICES ASSUME faults' = 0 PROVE QuietInv'
  BY DEF QuietInv
<1>2. faults = 0 /\ faults \in Nat
  BY <1>1, FaultsStay DEF TypeOK
<1>3. ASSUME NEW w \in Workers, Step(w)
      PROVE  QuietInv'
  BY <1>1, <1>2, <1>3, QuietWorker
<1>4. CASE LeaseExpires
  <2>1. ~Held
    BY <1>1, <1>2, <1>4 DEF LeaseExpires, Fault
  <2>2. \A v \in Workers : ~Working(v)
    BY <1>2, <2>1 DEF Held, QuietInv, Owns, Working
  <2>3. carried = 0 \/ job.status \in Terminal
    BY <1>2, <2>2 DEF QuietInv, Working, Resting
  <2>4. UNCHANGED << pc, carried >> /\ job'.status = job.status
    BY <1>4 DEF LeaseExpires, workerVars, resultVars, TypeOK, Row
  <2>5. QED
    BY <1>2, <2>2, <2>3, <2>4 DEF QuietInv, Working
<1>5. CASE \/ Cancel \/ UNCHANGED vars
           \/ \E w \in Workers, k \in StepKeys : SideEffect(w, k) \/ InTurnSideEffect(w, k)
  <2>1. UNCHANGED << pc, run, carried >>
    BY <1>5 DEF Cancel, SideEffect, InTurnSideEffect, vars, workerVars, resultVars
  <2>2. job'.status = job.status /\ job'.epoch = job.epoch /\ job'.leased = job.leased
    BY <1>5 DEF Cancel, SideEffect, InTurnSideEffect, vars, TypeOK, Row
  <2>3. QED
    BY <1>2, <2>1, <2>2 DEF QuietInv, Owns, Working, Fenced
<1>6. ASSUME NEW w \in Workers, ReadRaises(w) \/ Restart(w)
      PROVE  FALSE
  BY <1>1, <1>2, <1>6 DEF ReadRaises, Restart, Fault
<1>7. QED
  BY <1>3, <1>4, <1>5, <1>6 DEF Next

\* Unless something crashed, lost a reply or outlived its lease, the result goes
\* to its channel once: the lease keeps every other worker out, and whoever
\* handed the result over settles the job next (run_one, _finish).
THEOREM QuietDelivery == Spec => []QuietRunDeliversOnce
<1>1. Init => QuietInv
  BY DEF Init, QuietInv, Working, Resting
<1>2. TypeOK /\ JobInv /\ QuietInv /\ [Next]_vars => QuietInv'
  BY QuietStep
<1>3. QuietInv => QuietRunDeliversOnce
  BY DEF QuietInv, QuietRunDeliversOnce
<1>4. QED
  BY <1>1, <1>2, <1>3, TypeCorrect, JobInvariant, PTL DEF Spec

-------------------------------------------------------------------------------

\* A multiple grows with its factor.
LEMMA Scaled ==
    ASSUME NEW m \in Nat, NEW a \in Int, NEW b \in Int
    PROVE  /\ m * a \in Int
           /\ a <= b => m * a <= m * b
           /\ a + 1 <= b => m * a + m <= m * b
           /\ a <= b + 1 => m * a <= m * b + m
<1>1. m * (a + 1) = m * a + m /\ m * (b + 1) = m * b + m
  OBVIOUS
<1>2. ASSUME NEW x \in Int, NEW y \in Int, x <= y
      PROVE  m * x <= m * y
  BY <1>2
<1>3. QED
  BY <1>1, <1>2

\* What is not below another is that and something more.
LEMMA Apart ==
    ASSUME NEW a \in Int, NEW b \in Int, a <= b
    PROVE  \E d \in Nat : b = a + d
<1>1. b - a \in Nat /\ b = a + (b - a)
  OBVIOUS
<1>2. QED
  BY <1>1

\* What the credit is made of, in a state and in the next.
Credited == /\ IsFiniteSet(Open) /\ Cardinality(Open) \in Nat
            /\ Tries \in Int /\ Closed \in Int /\ Closed <= MaxAttempts /\ Credit \in Int
            /\ Floor \in Nat /\ Floor <= Budget - 1
            /\ paid \in Nat /\ \A w \in Workers : run[w].seg.cost \in 0..MaxCost

LEMMA OpenTypes == TypeOK => Credited
<1> SUFFICES ASSUME TypeOK PROVE Credited
  OBVIOUS
<1>1. IsFiniteSet(Open) /\ Cardinality(Open) \in Nat
  BY FS_Subset, FS_CardinalityType, JobAssumption DEF Open
<1>2. job.attempts \in Nat /\ job.spent \in Nat
  BY DEF TypeOK, Row
<1>3. Tries \in Int /\ Closed \in Int /\ Closed <= MaxAttempts
  BY <1>1, <1>2, JobAssumption DEF Closed, Tries
<1>4. Credit \in Int
  BY <1>3, Scaled, JobAssumption DEF Credit
<1>5. Floor \in Nat /\ Floor <= Budget - 1
  BY <1>2, JobAssumption DEF Floor
<1>6. paid \in Nat /\ \A w \in Workers : run[w].seg.cost \in 0..MaxCost
  BY DEF TypeOK, Run, Segments
<1>7. QED
  BY <1>1, <1>3, <1>4, <1>5, <1>6 DEF Credited

LEMMA OpenTypesNext == TypeOK' => Credited'
BY OpenTypes, PTL

\* A worker that may no longer pay gives the credit of a segment back, one that
\* newly may takes as much, and no step takes more than that.
LEMMA CreditMoves ==
    ASSUME TypeOK, TypeOK', Tries' >= Tries, NEW w \in Workers, Open' \subseteq Open \cup {w}
    PROVE  /\ Credit <= Credit' + MaxCost
           /\ (w \in Open' => w \in Open) => Credit <= Credit'
           /\ w \notin Open' => Credit <= Credit'
           /\ Tries' = Tries + 1 => Credit <= Credit'
           /\ w \in Open /\ w \notin Open' => Credit + MaxCost <= Credit'
<1>1. /\ IsFiniteSet(Open) /\ Cardinality(Open) \in Nat /\ Cardinality(Open)' \in Nat
      /\ Closed \in Int /\ Closed' \in Int /\ MaxCost \in Nat
  BY OpenTypes, OpenTypesNext, JobAssumption DEF Credited
<1>2. /\ Cardinality(Open \cup {w}) = IF w \in Open THEN Cardinality(Open) ELSE Cardinality(Open) + 1
      /\ Cardinality(Open \ {w}) = IF w \in Open THEN Cardinality(Open) - 1 ELSE Cardinality(Open)
      /\ IsFiniteSet(Open \cup {w}) /\ IsFiniteSet(Open \ {w})
  BY <1>1, FS_AddElement, FS_RemoveElement
<1>3. Cardinality(Open') <= Cardinality(Open \cup {w})
  BY <1>2, FS_Subset
<1>4. w \notin Open' => Cardinality(Open') <= Cardinality(Open \ {w})
  <2>1. w \notin Open' => Open' \subseteq Open \ {w}
    OBVIOUS
  <2>2. QED
    BY <1>2, <2>1, FS_Subset
<1>5. Tries \in Int /\ Tries' \in Int
  BY OpenTypes, OpenTypesNext DEF Credited
<1>6. /\ Closed <= Closed' + 1
      /\ (w \in Open' => w \in Open) => Closed <= Closed'
      /\ w \notin Open' => Closed <= Closed'
      /\ Tries' = Tries + 1 => Closed <= Closed'
      /\ w \in Open /\ w \notin Open' => Closed + 1 <= Closed'
  BY <1>1, <1>2, <1>3, <1>4, <1>5 DEF Closed
<1>7. /\ Closed <= Closed' => Credit <= Credit'
      /\ Closed + 1 <= Closed' => Credit + MaxCost <= Credit'
      /\ Closed <= Closed' + 1 => Credit <= Credit' + MaxCost
  BY <1>1, Scaled DEF Credit
<1>8. QED
  BY <1>6, <1>7

\* What a step pays comes out of the credit, unless a worker reads its segment's cost.
LEMMA PaidKeeps ==
    ASSUME TypeOK, TypeOK', PaidInv, Floor <= Floor',
           \/ paid' = paid /\ Credit <= Credit'
           \/ paid' <= paid + MaxCost /\ Credit + MaxCost <= Credit',
           \A v \in Workers : (Owns(v) /\ pc[v] = "spend")' =>
              Owns(v) /\ pc[v] = "spend" /\ run'[v] = run[v]
    PROVE  PaidInv'
<1>1. /\ paid \in Nat /\ paid' \in Nat /\ Floor \in Nat /\ Floor' \in Nat
      /\ Credit \in Int /\ Credit' \in Int /\ MaxCost \in Nat
  BY OpenTypes, OpenTypesNext, JobAssumption DEF Credited
<1>2. paid' <= Floor' + Credit'
  <2>1. paid <= Floor + Credit
    BY DEF PaidInv
  <2>2. PICK raised \in Nat : Floor' = Floor + raised
    BY <1>1, Apart
  <2>3. CASE paid' = paid /\ Credit <= Credit'
    <3>1. PICK freed \in Nat : Credit' = Credit + freed
      BY <1>1, <2>3, Apart
    <3>2. QED
      BY <1>1, <2>1, <2>2, <2>3, <3>1
  <2>4. CASE paid' <= paid + MaxCost /\ Credit + MaxCost <= Credit'
    <3>1. PICK freed \in Nat : Credit' = Credit + MaxCost + freed
      <4>1. Credit + MaxCost \in Int
        BY <1>1
      <4>2. QED
        BY <1>1, <2>4, <4>1, Apart
    <3>2. QED
      BY <1>1, <2>1, <2>2, <2>4, <3>1
  <2>5. QED
    BY <2>3, <2>4
<1>3. ASSUME NEW v \in Workers, (Owns(v) /\ pc[v] = "spend")'
      PROVE  paid' + MaxCost <= Floor' + run'[v].seg.cost + Credit'
  <2>1. run[v].seg.cost \in Nat /\ run'[v] = run[v]
    BY <1>3, OpenTypes, JobAssumption DEF Credited
  <2>2. paid + MaxCost <= Floor + run[v].seg.cost + Credit
    BY <1>3 DEF PaidInv
  <2>3. QED
    BY <1>1, <2>1, <2>2
<1>4. QED
  BY <1>2, <1>3 DEF PaidInv

\* What a worker's own place lets it pay moves with that worker alone.
LEMMA OpenOthers ==
    ASSUME TypeOK, TypeOK', NEW w \in Workers, \A v \in Workers \ {w} : pc'[v] = pc[v],
           job.spent <= job'.spent, job.attempts <= job'.attempts
    PROVE  /\ Open' \subseteq Open \cup {w} /\ Tries <= Tries' /\ Floor <= Floor'
           /\ Tries' = Tries + 1 \/ job'.attempts = job.attempts \/ MaxAttempts < job'.attempts
              \/ job'.attempts # job.attempts + 1
<1>1. {job.spent, job'.spent, job.attempts, job'.attempts, MaxAttempts, Budget} \subseteq Nat
  BY JobAssumption DEF TypeOK, Row
<1>2. Open' \subseteq Open \cup {w}
  BY <1>1 DEF Open
<1>3. QED
  BY <1>1, <1>2 DEF Tries, Floor

\* The steps of a worker after which it may not pay more than before.
LEMMA PaidPlain ==
    ASSUME TypeOK, TypeOK', PaidInv, NEW w \in Workers,
           \A v \in Workers \ {w} : pc'[v] = pc[v] /\ run'[v] = run[v],
           job'.epoch = job.epoch, job'.spent = job.spent, job'.attempts = job.attempts,
           pc'[w] # "spend", w \in Open' => w \in Open,
           paid' = paid \/ (paid' <= paid + MaxCost /\ w \in Open /\ w \notin Open')
    PROVE  PaidInv'
<1>1. job.spent \in Nat /\ job.attempts \in Nat
  BY DEF TypeOK, Row
<1>2. Open' \subseteq Open \cup {w} /\ Tries <= Tries' /\ Floor <= Floor' /\ Tries \in Int /\ Tries' \in Int
  BY <1>1, OpenOthers, OpenTypes, OpenTypesNext DEF Credited
<1>3. /\ Credit <= Credit'
      /\ w \in Open /\ w \notin Open' => Credit + MaxCost <= Credit'
  BY <1>2, CreditMoves
<1>4. \A v \in Workers : (Owns(v) /\ pc[v] = "spend")' =>
         Owns(v) /\ pc[v] = "spend" /\ run'[v] = run[v]
  BY DEF Owns, Working, Fenced
<1>5. QED
  BY <1>2, <1>3, <1>4, PaidKeeps

\* The claim, which opens the next attempt and overtakes every other worker.
LEMMA PaidClaim ==
    ASSUME TypeOK, TypeOK', JobInv, PaidInv, NEW w \in Workers, Claim(w)
    PROVE  PaidInv'
<1>1. /\ \A v \in Workers \ {w} : pc'[v] = pc[v] /\ run'[v] = run[v]
      /\ paid' = paid /\ pc[w] = "idle"
  BY OthersStay DEF Step, Claim
<1>2. /\ job'.epoch = job.epoch + 1 /\ job'.attempts = job.attempts + 1 /\ job'.spent = job.spent
      /\ pc'[w] \in {"read", "idle"}
      /\ {job.spent, job.attempts, job.epoch, MaxAttempts, Budget} \subseteq Nat
  BY <1>1, ClaimFrame, JobAssumption DEF TypeOK, Row
<1>3. /\ Open' \subseteq Open \cup {w} /\ Tries <= Tries' /\ Floor <= Floor'
      /\ Tries' = Tries + 1 \/ MaxAttempts < job'.attempts
  BY <1>1, <1>2, OpenOthers
<1>4. MaxAttempts < job'.attempts => w \notin Open'
  BY <1>2 DEF Open
<1>5. Credit <= Credit'
  <2>1. Tries \in Int /\ Tries' \in Int
    BY OpenTypes, OpenTypesNext DEF Credited
  <2>2. QED
    BY <1>3, <1>4, <2>1, CreditMoves
<1>6. ASSUME NEW v \in Workers, (Owns(v) /\ pc[v] = "spend")'
      PROVE  FALSE
  <2>1. v # w
    BY <1>2, <1>6
  <2>2. Working(v) /\ run[v].epoch = job'.epoch
    BY <1>1, <1>6, <2>1 DEF Owns, Working, Fenced
  <2>3. QED
    BY <1>2, <2>2 DEF JobInv, EpochsOwned
<1>7. QED
  BY <1>1, <1>3, <1>5, <1>6, PaidKeeps

\* The record of what a segment cost, by whoever still carries the epoch.
LEMMA PaidRecordSpend ==
    ASSUME TypeOK, TypeOK', JobInv, PaidInv, NEW w \in Workers, RecordSpend(w)
    PROVE  PaidInv'
<1> DEFINE total == run[w].seen + run[w].seg.cost
<1>1. PICK next \in {"park", "put", "refresh"}, r \in Run :
         Record(w, "spend", [job EXCEPT !.spent = total], next, r)
  BY LocalTypes DEF RecordSpend
<1>2. /\ \A v \in Workers \ {w} : pc'[v] = pc[v] /\ run'[v] = run[v]
      /\ pc[w] = "spend" /\ pc'[w] \in {"park", "put", "refresh", "idle"} /\ paid' = paid
  BY <1>1, RecordMoves
<1>3. job'.epoch = job.epoch /\ job'.attempts = job.attempts
  <2>1. ~Claim(w)
    BY <1>2 DEF Claim
  <2>2. QED
    BY <2>1, RowFrame DEF Step
<1>4. w \notin Open /\ total \in Nat
  BY <1>2, LocalTypes DEF Open
<1>5. {job.spent, job.attempts, Budget, MaxCost, run[w].seen, run[w].seg.cost} \subseteq Nat
  <2>1. {job.spent, job.attempts, Budget, MaxCost} \subseteq Nat
    BY JobAssumption DEF TypeOK, Row
  <2>2. run[w].seen \in Nat
    BY LocalTypes DEF Run
  <2>3. run[w].seg.cost \in Nat
    BY OpenTypes, JobAssumption DEF Credited
  <2>4. QED
    BY <2>1, <2>2, <2>3
<1> HIDE DEF total
<1>6. CASE job' = job /\ Go(w, "idle", r)
  <2>1. pc'[w] = "idle"
    BY <1>6 DEF Go, TypeOK
  <2>2. w \notin Open'
    BY <2>1 DEF Open
  <2>3. QED
    BY <1>2, <1>6, <2>1, <2>2, PaidPlain
<1>7. CASE ~Fenced(w) /\ job' = [job EXCEPT !.spent = total]
  <2>1. job'.spent = total /\ total = job.spent + run[w].seg.cost /\ Owns(w)
    <3>1. Owns(w)
      BY <1>2, <1>7 DEF Owns, Working, Resting
    <3>2. run[w].seen = job.spent
      BY <1>2, <3>1 DEF JobInv, WorkerInv
    <3>3. QED
      BY <1>7, <3>1, <3>2 DEF total, TypeOK, Row
  <2>2. ASSUME NEW v \in Workers, (Owns(v) /\ pc[v] = "spend")'
        PROVE  FALSE
    <3>1. v # w /\ Owns(v)
      BY <1>2, <1>3, <2>2 DEF Owns, Working, Fenced
    <3>2. QED
      BY <2>1, <3>1 DEF JobInv, EpochsOwned, Owns, Fenced
  <2>3. Open' \subseteq Open \cup {w} /\ Tries <= Tries' /\ Floor <= Floor'
    BY <1>2, <1>3, <1>5, <2>1, OpenOthers
  <2>4. /\ paid + MaxCost <= Floor + run[w].seg.cost + Credit
        /\ paid <= Floor + Credit
    BY <1>2, <2>1 DEF PaidInv
  <2>5. Credit <= Credit' + MaxCost /\ (w \notin Open' => Credit <= Credit')
    BY <2>3, CreditMoves, OpenTypes, OpenTypesNext DEF Credited
  <2>6. /\ paid \in Nat /\ Floor \in Nat /\ Floor' \in Nat
        /\ Credit \in Int /\ Credit' \in Int
    BY OpenTypes, OpenTypesNext DEF Credited
  <2>7. CASE total < Budget
    <3>1. Floor' = Floor + run[w].seg.cost
      BY <1>5, <2>1, <2>7 DEF Floor
    <3>2. QED
      BY <1>2, <1>5, <2>2, <2>4, <2>5, <2>6, <3>1 DEF PaidInv
  <2>8. CASE total >= Budget
    <3>1. w \notin Open'
      BY <1>2, <1>4, <1>5, <2>1, <2>8 DEF Open
    <3>2. Credit <= Credit'
      BY <2>5, <3>1
    <3>3. QED
      BY <1>2, <2>2, <2>3, <2>4, <2>6, <3>2 DEF PaidInv
  <2>9. QED
    BY <1>4, <1>5, <2>7, <2>8
<1>8. QED
  BY <1>1, <1>6, <1>7, RecordOutcomes

\* The end of a segment: its cost is paid, and known to the worker or to nobody.
LEMMA PaidSegmentEnds ==
    ASSUME TypeOK, TypeOK', JobInv, PaidInv, NEW w \in Workers, SegmentEnds(w)
    PROVE  PaidInv'
<1>1. /\ \A v \in Workers \ {w} : pc'[v] = pc[v] /\ run'[v] = run[v]
      /\ pc[w] = "running" /\ job' = job /\ w \in Open
  BY OthersStay DEF Step, SegmentEnds, Open
<1>2. PICK s \in Segments : /\ paid' = paid + s.cost
                            /\ \/ Go(w, "spend", [run[w] EXCEPT !.seg = s])
                               \/ Goto(w, "error")
  BY DEF SegmentEnds
<1>3. /\ s.cost \in Nat /\ s.cost <= MaxCost /\ MaxCost \in Nat
      /\ paid \in Nat /\ Floor \in Nat /\ Credit \in Int /\ Credit' \in Int
  BY OpenTypes, OpenTypesNext, JobAssumption DEF Credited, Segments
<1>4. CASE Goto(w, "error")
  <2>1. pc'[w] = "error"
    BY <1>4 DEF Goto, Go, TypeOK
  <2>2. w \notin Open'
    BY <2>1 DEF Open
  <2>3. QED
    BY <1>1, <1>2, <1>3, <2>1, <2>2, PaidPlain
<1>5. CASE Go(w, "spend", [run[w] EXCEPT !.seg = s])
  <2>1. pc'[w] = "spend" /\ run'[w].seg = s
    <3>1. pc'[w] = "spend" /\ run'[w] = [run[w] EXCEPT !.seg = s]
      BY <1>5 DEF Go, Resting, TypeOK
    <3>2. QED
      BY <3>1, LocalTypes DEF Run
  <2>2. w \notin Open' /\ job.spent \in Nat /\ job.attempts \in Nat
    BY <2>1 DEF Open, TypeOK, Row
  <2>3. Open' \subseteq Open \cup {w} /\ Tries <= Tries'
    BY <1>1, <2>2, OpenOthers
  <2>4. Credit + MaxCost <= Credit'
    BY <1>1, <2>2, <2>3, CreditMoves, OpenTypes, OpenTypesNext DEF Credited
  <2>5. Floor' = Floor
    BY <1>1 DEF Floor
  <2>6. paid <= Floor + Credit
    BY DEF PaidInv
  <2>7. paid' <= Floor' + Credit' /\ paid' + MaxCost <= Floor' + s.cost + Credit'
    BY <1>2, <1>3, <2>4, <2>5, <2>6
  <2>8. ASSUME NEW v \in Workers \ {w}, (Owns(v) /\ pc[v] = "spend")'
        PROVE  paid' + MaxCost <= Floor' + run'[v].seg.cost + Credit'
    <3>1. Owns(v) /\ pc[v] = "spend" /\ run'[v] = run[v]
      BY <1>1, <2>8 DEF Owns, Working, Fenced
    <3>2. paid + MaxCost <= Floor + run[v].seg.cost + Credit /\ run[v].seg.cost \in Nat
      BY <3>1, OpenTypes, JobAssumption DEF PaidInv, Credited
    <3>3. QED
      BY <1>2, <1>3, <2>4, <2>5, <3>1, <3>2
  <2>9. QED
    BY <2>1, <2>7, <2>8 DEF PaidInv
<1>6. QED
  BY <1>2, <1>4, <1>5

\* The other steps of a worker, and its death.
LEMMA PaidWorker ==
    ASSUME TypeOK, TypeOK', JobInv, PaidInv, NEW w \in Workers,
           Step(w) \/ ReadRaises(w) \/ Restart(w)
    PROVE  PaidInv'
<1>1. CASE Claim(w)
  BY <1>1, PaidClaim
<1>2. CASE RecordSpend(w)
  BY <1>2, PaidRecordSpend
<1>3. CASE SegmentEnds(w)
  BY <1>3, PaidSegmentEnds
<1>4. SUFFICES ASSUME ~Claim(w), ~RecordSpend(w), ~SegmentEnds(w)
               PROVE  PaidInv'
  BY <1>1, <1>2, <1>3
<1>5. /\ \A v \in Workers \ {w} : pc'[v] = pc[v] /\ run'[v] = run[v]
      /\ job'.epoch = job.epoch /\ job'.spent = job.spent /\ job'.attempts = job.attempts
  BY <1>4, OthersStay, RowFrame
<1>6. ASSUME pc'[w] # "spend", w \in Open' => w \in Open,
             paid' = paid \/ (paid' <= paid + MaxCost /\ w \in Open /\ w \notin Open')
      PROVE  PaidInv'
  BY <1>5, <1>6, PaidPlain
<1>7. ASSUME pc'[w] \notin {"read", "root", "refresh", "fire", "running", "spend"}, paid' = paid
      PROVE  PaidInv'
  BY <1>6, <1>7 DEF Open
<1>8. CASE RecordError(w) \/ RecordComplete(w) \/ RecordDelivering(w)
           \/ RecordDelivered(w) \/ RecordDone(w) \/ DeadLetter(w)
  BY <1>7, <1>8, RecordMoves DEF RecordError, RecordComplete, RecordDelivering,
     RecordDelivered, RecordDone, DeadLetter
<1>9. CASE RecordRoot(w)
  <2>1. pc[w] = "root" /\ pc'[w] \in {"refresh", "idle"} /\ paid' = paid
    BY <1>9, RecordMoves DEF RecordRoot
  <2>2. QED
    BY <1>5, <1>6, <2>1 DEF Open
<1>10. CASE Ready(w) \/ RefuseSegment(w) \/ PutResult(w) \/ Deliver(w) \/ ReadRaises(w)
  BY <1>7, <1>10 DEF Ready, RefuseSegment, PutResult, Deliver, ReadRaises, Park, Goto, Go, TypeOK
<1>11. CASE ReadRow(w)
  <2>1. CASE Park(w, "needs_review")
    BY <1>7, <1>11, <2>1 DEF ReadRow, Park, Go, TypeOK
  <2>2. ASSUME ~(job.attempts > MaxAttempts), NEW p \in {"refresh", "root"}, Goto(w, p)
        PROVE  PaidInv'
    <3>1. pc[w] = "read" /\ pc'[w] \in {"refresh", "root"} /\ paid' = paid
      BY <1>11, <2>2 DEF ReadRow, Goto, Go, TypeOK
    <3>2. job.attempts <= MaxAttempts
      BY <2>2, JobAssumption DEF TypeOK, Row
    <3>3. QED
      BY <1>5, <1>6, <3>1, <3>2 DEF Open
  <2>3. QED
    BY <1>11, <2>1, <2>2 DEF ReadRow
<1>12. CASE Refresh(w)
  <2>1. CASE \E x \in Verdicts : Park(w, x)
    BY <1>7, <1>12, <2>1 DEF Refresh, Park, Go, TypeOK
  <2>2. ASSUME ~(job.spent >= Budget), Go(w, "fire", [run[w] EXCEPT !.seen = job.spent])
        PROVE  PaidInv'
    <3>1. pc[w] = "refresh" /\ pc'[w] = "fire" /\ paid' = paid
      BY <1>12, <2>2 DEF Refresh, Go, TypeOK
    <3>2. job.spent < Budget
      BY <2>2, JobAssumption DEF TypeOK, Row
    <3>3. QED
      BY <1>6, <3>1, <3>2 DEF Open
  <2>3. QED
    BY <1>12, <2>1, <2>2 DEF Refresh, Verdicts
<1>13. CASE FireSegment(w)
  <2>1. pc[w] = "fire" /\ pc'[w] = "running" /\ paid' = paid
    BY <1>13 DEF FireSegment, Goto, Go, TypeOK
  <2>2. QED
    BY <1>6, <2>1 DEF Open
<1>14. CASE Restart(w)
  <2>1. pc'[w] = "boot" /\ w \notin Open'
    BY <1>14 DEF Restart, Goto, Go, Open, TypeOK
  <2>2. CASE pc[w] = "running"
    <3>1. PICK c \in 0..MaxCost : paid' = paid + c
      BY <1>14, <2>2 DEF Restart
    <3>2. paid' <= paid + MaxCost
      BY <3>1, OpenTypes, JobAssumption DEF Credited
    <3>3. w \in Open
      BY <2>2 DEF Open
    <3>4. QED
      BY <1>6, <2>1, <3>2, <3>3
  <2>3. CASE pc[w] # "running"
    BY <1>6, <1>14, <2>1, <2>3 DEF Restart
  <2>4. QED
    BY <2>2, <2>3
<1>15. QED
  BY <1>4, <1>8, <1>9, <1>10, <1>11, <1>12, <1>13, <1>14 DEF Step

LEMMA PaidStep ==
    ASSUME TypeOK, TypeOK', JobInv, PaidInv, [Next]_vars
    PROVE  PaidInv'
<1>1. CASE \/ LeaseExpires \/ Cancel \/ UNCHANGED vars
           \/ \E w \in Workers, k \in StepKeys : SideEffect(w, k) \/ InTurnSideEffect(w, k)
  <2>1. UNCHANGED << pc, run, paid >>
    BY <1>1 DEF LeaseExpires, Cancel, SideEffect, InTurnSideEffect, vars, workerVars
  <2>2. job'.epoch = job.epoch /\ job'.spent = job.spent /\ job'.attempts = job.attempts
    BY <1>1 DEF LeaseExpires, Cancel, SideEffect, InTurnSideEffect, vars, TypeOK, Row
  <2>3. Open' = Open /\ Floor' = Floor /\ Tries' = Tries
    BY <2>1, <2>2 DEF Open, Floor, Tries
  <2>4. Credit' = Credit
    BY <2>3 DEF Credit, Closed
  <2>5. QED
    BY <2>1, <2>2, <2>3, <2>4 DEF PaidInv, Owns, Working, Fenced
<1>2. QED
  BY <1>1, PaidWorker DEF Next

LEMMA PaidInit == Init => PaidInv
<1>1. SUFFICES ASSUME Init PROVE PaidInv
  OBVIOUS
<1>2. job.attempts = 0 /\ job.spent = 0 /\ paid = 0 /\ \A w \in Workers : pc[w] = "boot"
  BY <1>1 DEF Init
<1>3. Open = {} /\ Tries = 0 /\ Floor = 0
  BY <1>2, JobAssumption DEF Open, Tries, Floor
<1>4. Closed = 0
  BY <1>3, FS_EmptySet DEF Closed
<1>5. Credit = 0
  BY <1>4, JobAssumption DEF Credit
<1>6. QED
  BY <1>2, <1>3, <1>5 DEF PaidInv

\* Whatever crashes, is overtaken or loses its reply, the provider is paid at
\* most the budget and one segment for each attempt that may run (run_one's
\* attempts backstop, pre-spend ceiling and epoch fence).
THEOREM PaidAtMost == Spec => []PaidBounded
<1>1. TypeOK /\ TypeOK' /\ JobInv /\ PaidInv /\ [Next]_vars => PaidInv'
  BY PaidStep
<1>2. ASSUME TypeOK, PaidInv
      PROVE  PaidBounded
  <2>1. Credited /\ {MaxAttempts, MaxCost} \subseteq Nat /\ Budget \in Nat
    BY <1>2, OpenTypes, JobAssumption
  <2>2. Credit <= MaxCost * MaxAttempts /\ MaxCost * MaxAttempts \in Int
    BY <2>1, Scaled DEF Credit, Credited
  <2>3. QED
    BY <1>2, <2>1, <2>2 DEF PaidInv, PaidBounded, Credited
<1>3. QED
  BY <1>1, <1>2, PaidInit, TypeCorrect, JobInvariant, PTL DEF Spec
===============================================================================
