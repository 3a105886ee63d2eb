---------------------------- MODULE EndOfTurnProofs ----------------------------
(***************************************************************************)
(* Proofs about the end of a turn, for every set of sessions, any number   *)
(* of turns, and any faults of the hooks and of the configuration.         *)
(***************************************************************************)
EXTENDS EndOfTurn, SequenceTheorems, TLAPS

(***************************************************************************)
(* The queue of the worker.                                                *)
(***************************************************************************)

\* A snapshot is a task.
LEMMA SnapshotIsTask ==
    ASSUME TypeOK, NEW s \in Sessions, NEW kind \in {"text", "settle"},
           NEW silent \in BOOLEAN
    PROVE  Snapshot(s, kind, silent) \in Task
<1>1. (s \in turnSends) \in BOOLEAN /\ (act[s] # "none") \in BOOLEAN
      /\ BoundThisTurn(s) \in BOOLEAN
  BY DEF BoundThisTurn
<1>2. QED
  BY <1>1 DEF Snapshot, Task

\* The task in hand is a task, and the others come after it.
LEMMA HeadAndTail ==
    ASSUME TypeOK, queue # << >>
    PROVE  /\ task \in Task
           /\ 1 \in DOMAIN queue /\ task = queue[1]
           /\ Tail(queue) \in Seq(Task)
           /\ \A i \in DOMAIN Tail(queue) : /\ i + 1 \in DOMAIN queue
                                            /\ Tail(queue)[i] = queue[i + 1]
<1>1. queue \in Seq(Task)
  BY DEF TypeOK
<1>2. Len(queue) \in Nat \ {0} /\ DOMAIN queue = 1 .. Len(queue)
  BY <1>1, EmptySeq, LenProperties
<1>3. QED
  BY <1>1, <1>2, HeadTailProperties DEF task

\* A task handed off comes last and leaves the task in hand where it is.
LEMMA HandedOff ==
    ASSUME TypeOK, NEW t \in Task
    PROVE  /\ Append(queue, t) \in Seq(Task)
           /\ Append(queue, t) # << >>
           /\ queue # << >> => Head(Append(queue, t)) = task
           /\ \A i \in DOMAIN Append(queue, t) :
                 Append(queue, t)[i] = t \/ (i \in DOMAIN queue /\ Append(queue, t)[i] = queue[i])
<1>1. queue \in Seq(Task) /\ Len(queue) \in Nat /\ DOMAIN queue = 1 .. Len(queue)
  BY LenProperties DEF TypeOK
<1>2. /\ Append(queue, t) \in Seq(Task)
      /\ DOMAIN Append(queue, t) = 1 .. Len(queue) + 1
      /\ \A i \in 1 .. Len(queue) : Append(queue, t)[i] = queue[i]
      /\ Append(queue, t)[Len(queue) + 1] = t
  BY <1>1, AppendProperties
<1>3. queue # << >> => Head(Append(queue, t)) = task
  <2>1. SUFFICES ASSUME queue # << >> PROVE Head(Append(queue, t)) = Head(queue)
    BY DEF task
  <2>2. Len(queue) >= 1
    BY <1>1, <2>1, EmptySeq
  <2>3. Head(Append(queue, t)) = Append(queue, t)[1] /\ Head(queue) = queue[1]
    BY <1>1, <1>2
  <2>4. QED
    BY <1>2, <2>2, <2>3
<1>4. QED
  BY <1>1, <1>2, <1>3, EmptySeq

-------------------------------------------------------------------------------
(***************************************************************************)
(* Types.                                                                  *)
(***************************************************************************)

\* The agent's steps keep the types.
LEMMA TypeAgent ==
    ASSUME TypeOK, NEW s \in Sessions, Agent(s)
    PROVE  TypeOK'
<1> USE DEF agentVars, registerVars, workerVars, historyVars, InTurn
<1>1. CASE StartTurn(s)
  BY <1>1, TurnAssumption DEF TypeOK, StartTurn
<1>2. CASE Propose(s)
  BY <1>2 DEF TypeOK, Propose
<1>3. CASE Confirm(s)
  BY <1>3 DEF TypeOK, Confirm
<1>4. CASE Draft(s)
  BY <1>4 DEF TypeOK, Draft
<1>5. CASE SendElsewhere(s)
  BY <1>5 DEF TypeOK, SendElsewhere
<1>6. CASE BrokerAnswers(s)
  BY <1>6 DEF TypeOK, BrokerAnswers
<1>7. CASE PostLlmCall(s)
  <2>1. PICK silent \in BOOLEAN :
            /\ quiet' = IF silent THEN quiet \cup {s} ELSE quiet
            /\ queue' = Append(queue, Snapshot(s, "text", silent))
    BY <1>7 DEF PostLlmCall
  <2>2. queue' \in Seq(Task) /\ queue' # << >>
    BY <2>1, SnapshotIsTask, HandedOff
  <2>3. QED
    BY <1>7, <2>1, <2>2 DEF TypeOK, PostLlmCall
<1>8. CASE PostLlmCallRepeated(s)
  <2>1. queue' \in Seq(Task) /\ queue' # << >>
    BY <1>8, SnapshotIsTask, HandedOff DEF PostLlmCallRepeated
  <2>2. QED
    BY <1>8, <2>1 DEF TypeOK, PostLlmCallRepeated
<1>9. CASE PostLlmCallSkipped(s)
  BY <1>9 DEF TypeOK, PostLlmCallSkipped
<1>10. CASE OnTurnEnd(s)
  <2>1. queue' \in Seq(Task) /\ queue' # << >>
    BY <1>10, SnapshotIsTask, HandedOff DEF OnTurnEnd
  <2>2. QED
    BY <1>10, <2>1 DEF TypeOK, OnTurnEnd
<1>11. QED
  BY <1>1, <1>2, <1>3, <1>4, <1>5, <1>6, <1>7, <1>8, <1>9, <1>10 DEF Agent

\* A finished task leaves a queue, and its session is one.
LEMMA TypeDone ==
    ASSUME TypeOK, queue # << >>, Done
    PROVE  /\ queue' \in Seq(Task) /\ wpc' = "idle"
           /\ settled' \subseteq Sessions
<1>1. task.s \in Sessions
  BY HeadAndTail DEF Task
<1>2. QED
  BY <1>1, HeadAndTail DEF Done, TypeOK

\* So does the end of the act's part.
LEMMA TypeActHandled ==
    ASSUME TypeOK, queue # << >>, ActHandled
    PROVE  /\ queue' \in Seq(Task) /\ wpc' \in {"idle", "check"}
           /\ wpc' = "check" => queue' = queue
           /\ settled' \subseteq Sessions
<1>1. CASE Done
  BY <1>1, TypeDone
<1>2. CASE wpc' = "check" /\ UNCHANGED << queue, settled >>
  BY <1>2 DEF TypeOK
<1>3. QED
  BY <1>1, <1>2 DEF ActHandled

\* The worker's steps keep the types.
LEMMA TypeWorker ==
    ASSUME TypeOK, Worker
    PROVE  TypeOK'
<1> USE DEF agentVars, registerVars, workerVars, historyVars, At, Page
<1>0. queue # << >> /\ task \in Task /\ task.s \in Sessions
  <2>1. queue # << >>
    BY DEF TypeOK, Worker, Begin, ActNone, ActCarried, ActNobody, ActSend,
           ActAnswered, TextNotOwed, TextConfigFault, TextAlreadyDelivered, TextOwed,
           TextRefused, TextClaimed, RelayHolds, RelayQueues, RelaySends,
           RelayAnswered, CheckFine, LostIsLoud, LostConfigFault, CheckLost
  <2>2. QED
    BY <2>1, HeadAndTail DEF Task
<1>1. CASE Begin
  BY <1>0, <1>1 DEF TypeOK, Begin
<1>2. CASE ActNone
  BY <1>0, <1>2 DEF TypeOK, ActNone
<1>3. CASE ActCarried
  BY <1>0, <1>3, TypeActHandled DEF TypeOK, ActCarried
<1>4. CASE ActNobody
  BY <1>0, <1>4, TypeActHandled DEF TypeOK, ActNobody
<1>5. CASE ActSend
  BY <1>0, <1>5 DEF TypeOK, ActSend
<1>6. CASE ActAnswered
  BY <1>0, <1>6, TypeActHandled DEF TypeOK, ActAnswered
<1>7. CASE TextNotOwed
  BY <1>0, <1>7, TypeDone DEF TypeOK, TextNotOwed
<1>8. CASE TextConfigFault
  BY <1>0, <1>8, TypeDone DEF TypeOK, TextConfigFault
<1>9. CASE TextAlreadyDelivered
  BY <1>0, <1>9, TypeDone DEF TypeOK, TextAlreadyDelivered
<1>10. CASE TextRefused
  BY <1>0, <1>10, TypeDone DEF TypeOK, TextRefused
<1>11. CASE TextClaimed
  BY <1>0, <1>11 DEF TypeOK, TextClaimed
<1>12. CASE RelayHolds
  BY <1>0, <1>12, TypeDone DEF TypeOK, RelayHolds
<1>13. CASE RelayQueues
  BY <1>0, <1>13, TypeDone DEF TypeOK, RelayQueues
<1>14. CASE RelaySends
  BY <1>0, <1>14 DEF TypeOK, RelaySends
<1>15. CASE RelayAnswered
  BY <1>0, <1>15, TypeDone DEF TypeOK, RelayAnswered
<1>16. CASE CheckFine
  BY <1>0, <1>16, TypeDone DEF TypeOK, CheckFine
<1>17. CASE LostIsLoud
  BY <1>0, <1>17, TypeDone DEF TypeOK, LostIsLoud
<1>18. CASE LostConfigFault
  BY <1>0, <1>18, TypeDone DEF TypeOK, LostConfigFault
<1>19. QED
  BY <1>1, <1>2, <1>3, <1>4, <1>5, <1>6, <1>7, <1>8, <1>9, <1>10, <1>11, <1>12,
     <1>13, <1>14, <1>15, <1>16, <1>17, <1>18 DEF Worker

LEMMA TypeInit == Init => TypeOK
<1>1. << >> \in Seq(Task)
  BY EmptySeq
<1>2. QED
  BY <1>1, TurnAssumption DEF Init, TypeOK

LEMMA TypeStep ==
    ASSUME TypeOK, [Next]_vars
    PROVE  TypeOK'
<1>1. CASE UNCHANGED vars
  BY <1>1 DEF TypeOK, vars, agentVars, registerVars, workerVars, historyVars
<1>2. QED
  BY <1>1, TypeAgent, TypeWorker DEF Next

\* Every reachable state of the end-of-turn delivery is well typed
\* (hook_worker._drain: a busy worker has its task).
THEOREM TypeCorrect == Spec => []TypeOK
<1>1. TypeOK /\ [Next]_vars => TypeOK'
  BY TypeStep
<1>2. QED
  BY <1>1, TypeInit, PTL DEF Spec

-------------------------------------------------------------------------------
(***************************************************************************)
(* The agent's steps and the invariant.                                    *)
(***************************************************************************)

\* A turn that is over stays over.
LEMMA OverKept ==
    ASSUME TypeOK, NEW s \in Sessions, Agent(s), NEW q \in Sessions, Over(q)
    PROVE  Over(q)'
<1> USE DEF Over, InTurn, TypeOK, agentVars
<1>1. CASE StartTurn(s)
  BY <1>1 DEF StartTurn
<1>2. CASE PostLlmCall(s) \/ PostLlmCallRepeated(s) \/ PostLlmCallSkipped(s) \/ OnTurnEnd(s)
  BY <1>2 DEF PostLlmCall, PostLlmCallRepeated, PostLlmCallSkipped, OnTurnEnd
<1>3. CASE UNCHANGED << turn, phase >>
  BY <1>3
<1>4. QED
  BY <1>1, <1>2, <1>3
     DEF Agent, Propose, Confirm, Draft, SendElsewhere, BrokerAnswers

\* What a task says of its turn stays true: the turn is over, so only a later
\* turn of its session can step, and that neither tries for the email nor
\* proposes an act.
LEMMA TaskStaysTrue ==
    ASSUME TypeOK, NEW s \in Sessions, Agent(s), NEW t \in Task, TaskTrue(t)
    PROVE  TaskTrue(t)'
<1> SUFFICES ASSUME t.email
             PROVE  /\ Over(t.s)'
                    /\ t.attempted <=> t.s \in tried'
                    /\ t.pending <=> act'[t.s] # "none"
  BY DEF TaskTrue
<1>0. /\ t.s \in Sessions /\ Over(t.s)
      /\ t.attempted <=> t.s \in tried
      /\ t.pending <=> act[t.s] # "none"
  BY DEF TaskTrue, Task
<1>1. Over(t.s)'
  BY <1>0, OverKept
<1>2. (t.s \in tried' <=> t.s \in tried) /\ (act'[t.s] # "none" <=> act[t.s] # "none")
  <2> USE <1>0 DEF Over, InTurn, TypeOK, agentVars
  <2>1. CASE Propose(s)
    BY <2>1 DEF Propose
  <2>2. CASE Confirm(s)
    BY <2>2 DEF Confirm
  <2>3. CASE Draft(s)
    BY <2>3 DEF Draft
  <2>4. CASE UNCHANGED << tried, act >>
    BY <2>4
  <2>5. QED
    BY <2>1, <2>2, <2>3, <2>4
       DEF Agent, StartTurn, SendElsewhere, BrokerAnswers, PostLlmCall,
           PostLlmCallRepeated, PostLlmCallSkipped, OnTurnEnd
<1>3. QED
  BY <1>0, <1>1, <1>2

\* The turns part.
LEMMA AgentTurns ==
    ASSUME EndOfTurnInv, NEW s \in Sessions, Agent(s)
    PROVE  TurnsInv'
<1> USE DEF EndOfTurnInv, TurnsInv, InTurn, TypeOK, agentVars
<1>1. CASE StartTurn(s)
  BY <1>1 DEF StartTurn
<1>2. CASE Propose(s)
  BY <1>2 DEF Propose
<1>3. CASE Confirm(s)
  BY <1>3 DEF Confirm
<1>4. CASE Draft(s)
  BY <1>4 DEF Draft
<1>5. CASE SendElsewhere(s)
  BY <1>5 DEF SendElsewhere
<1>6. CASE UNCHANGED << turn, turnSends, tried, act >>
  BY <1>6
<1>7. QED
  BY <1>1, <1>2, <1>3, <1>4, <1>5, <1>6
     DEF Agent, BrokerAnswers, PostLlmCall, PostLlmCallRepeated, PostLlmCallSkipped,
         OnTurnEnd

\* A snapshot taken at the end of a turn tells the truth.
LEMMA SnapshotTrue ==
    ASSUME EndOfTurnInv, NEW s \in Sessions, NEW kind, NEW silent,
           NEW t \in Task, t = Snapshot(s, kind, silent),
           phase'[s] # "agent", UNCHANGED << turn, tried, act >>
    PROVE  TaskTrue(t)'
<1>1. /\ t.s = s /\ t.email = (turn[s] = 1)
      /\ t.attempted = (s \in turnSends) /\ t.pending = (act[s] # "none")
  BY DEF Snapshot, BoundThisTurn
<1>2. turn[s] = 1 => Over(s)' /\ (s \in turnSends <=> s \in tried)
  BY DEF Over, EndOfTurnInv, TurnsInv
<1>3. QED
  BY <1>1, <1>2 DEF TaskTrue

\* The tasks part: old tasks stay true and a new one is.
LEMMA AgentTasks ==
    ASSUME EndOfTurnInv, NEW s \in Sessions, Agent(s)
    PROVE  TasksInv' /\ (queue # << >> => queue' # << >> /\ task' = task)
<1>0. TypeOK /\ queue \in Seq(Task) /\ TasksInv
  BY DEF EndOfTurnInv, TypeOK
<1>1. \A i \in DOMAIN queue : \E t \in Task : t = queue[i] /\ TaskTrue(t)'
  <2> TAKE i \in DOMAIN queue
  <2>1. PICK t \in Task : t = queue[i]
    BY <1>0
  <2>2. TaskTrue(t)'
    BY <1>0, <2>1, TaskStaysTrue DEF TasksInv
  <2>3. QED
    BY <2>1, <2>2
<1>2. CASE queue' = queue
  BY <1>2, <1>1 DEF TasksInv, task
<1>3. ASSUME NEW kind \in {"text", "settle"}, NEW silent \in BOOLEAN,
             queue' = Append(queue, Snapshot(s, kind, silent)),
             phase'[s] # "agent", UNCHANGED << turn, tried, act >>
      PROVE  TasksInv' /\ (queue # << >> => queue' # << >> /\ task' = task)
  <2>1. PICK t \in Task : t = Snapshot(s, kind, silent)
    BY <1>0, SnapshotIsTask
  <2>2. TaskTrue(t)'
    BY <1>3, <2>1, SnapshotTrue
  <2>3. \A i \in DOMAIN queue' : queue'[i] = t \/ (i \in DOMAIN queue /\ queue'[i] = queue[i])
    BY <1>0, <1>3, <2>1, HandedOff
  <2>4. TasksInv'
    BY <1>1, <2>2, <2>3 DEF TasksInv
  <2>5. queue # << >> => queue' # << >> /\ task' = task
    BY <1>0, <1>3, <2>1, HandedOff DEF task
  <2>6. QED
    BY <2>4, <2>5
<1>4. CASE PostLlmCall(s)
  <2>1. phase'[s] # "agent" /\ UNCHANGED << turn, tried, act >>
    BY <1>0, <1>4 DEF PostLlmCall, TypeOK
  <2>2. PICK silent \in BOOLEAN : queue' = Append(queue, Snapshot(s, "text", silent))
    BY <1>4 DEF PostLlmCall
  <2>3. QED
    BY <1>3, <2>1, <2>2
<1>5. CASE PostLlmCallRepeated(s)
  <2>1. phase'[s] # "agent" /\ UNCHANGED << turn, tried, act >>
    BY <1>0, <1>5 DEF PostLlmCallRepeated, TypeOK
  <2>2. queue' = Append(queue, Snapshot(s, "text", FALSE))
    BY <1>5 DEF PostLlmCallRepeated
  <2>3. QED
    BY <1>3, <2>1, <2>2
<1>6. CASE OnTurnEnd(s)
  <2>1. phase'[s] # "agent" /\ UNCHANGED << turn, tried, act >>
    BY <1>0, <1>6 DEF OnTurnEnd, TypeOK
  <2>2. queue' = Append(queue, Snapshot(s, "settle", FALSE))
    BY <1>6 DEF OnTurnEnd
  <2>3. QED
    BY <1>3, <2>1, <2>2
<1>7. QED
  BY <1>2, <1>4, <1>5, <1>6
     DEF Agent, StartTurn, Propose, Confirm, Draft, SendElsewhere, BrokerAnswers,
         PostLlmCallSkipped, workerVars

\* What the agent's steps do not touch, and how little they do to a turn that is
\* over.
LEMMA AgentLeaves ==
    ASSUME EndOfTurnInv, NEW s \in Sessions, Agent(s)
    PROVE  /\ UNCHANGED << lines, texts, claimed, textDelivered, wpc, outcome >>
           /\ answered \subseteq answered'
           /\ \A q \in Sessions : Over(q) =>
                 /\ q \in answered' <=> q \in answered
                 /\ q \in tried' <=> q \in tried
                 /\ act[q] # "open" => act'[q] # "open"
<1> USE DEF EndOfTurnInv, TypeOK, Over, InTurn, agentVars, registerVars, workerVars,
            historyVars
<1>1. CASE Propose(s)
  BY <1>1 DEF Propose
<1>2. CASE Confirm(s)
  BY <1>2 DEF Confirm
<1>3. CASE Draft(s)
  BY <1>3 DEF Draft
<1>4. CASE BrokerAnswers(s)
  BY <1>4 DEF BrokerAnswers
<1>5. CASE StartTurn(s) \/ SendElsewhere(s) \/ PostLlmCall(s) \/ PostLlmCallRepeated(s)
           \/ PostLlmCallSkipped(s) \/ OnTurnEnd(s)
  BY <1>5 DEF StartTurn, SendElsewhere, PostLlmCall, PostLlmCallRepeated,
              PostLlmCallSkipped, OnTurnEnd
<1>6. QED
  BY <1>1, <1>2, <1>3, <1>4, <1>5 DEF Agent

\* The agent's steps keep the invariant.
LEMMA AgentKeeps ==
    ASSUME EndOfTurnInv, NEW s \in Sessions, Agent(s)
    PROVE  EndOfTurnInv'
<1>1. TypeOK' /\ TurnsInv' /\ TasksInv'
  BY TypeAgent, AgentTurns, AgentTasks DEF EndOfTurnInv
<1>2. CarriedInv'
  BY AgentLeaves, OverKept DEF CarriedInv, EndOfTurnInv
<1>3. WorkerInv'
  <2>1. CASE wpc = "idle"
    BY <2>1, AgentLeaves DEF WorkerInv
  <2>2. CASE wpc # "idle"
    <3>1. queue # << >> /\ task' = task /\ task \in Task /\ task.s \in Sessions
      BY <2>2, AgentTasks, HeadAndTail DEF EndOfTurnInv, TypeOK, Task
    <3>2. task.email => Over(task.s)
      BY <3>1, HeadAndTail DEF EndOfTurnInv, TasksInv, TaskTrue
    <3>3. QED
      BY <3>1, <3>2, AgentLeaves DEF WorkerInv, EndOfTurnInv
  <2>3. QED
    BY <2>1, <2>2
<1>4. QED
  BY <1>1, <1>2, <1>3 DEF EndOfTurnInv

-------------------------------------------------------------------------------
(***************************************************************************)
(* The worker's steps and the invariant.                                   *)
(***************************************************************************)

\* A busy worker has a true task in hand.
LEMMA TaskInHand ==
    ASSUME EndOfTurnInv, queue # << >>
    PROVE  /\ task \in Task /\ task.s \in Sessions
           /\ task.email => /\ Over(task.s)
                            /\ task.attempted <=> task.s \in tried
                            /\ task.pending <=> act[task.s] # "none"
<1>1. task \in Task /\ 1 \in DOMAIN queue /\ task = queue[1]
  BY HeadAndTail DEF EndOfTurnInv
<1>2. TaskTrue(task)
  BY <1>1 DEF EndOfTurnInv, TasksInv
<1>3. QED
  BY <1>1, <1>2 DEF TaskTrue, Task

\* The turns and the tasks: the worker does not touch the turns, and only takes
\* tasks away.
LEMMA WorkerTasks ==
    ASSUME EndOfTurnInv, UNCHANGED agentVars,
           queue' = queue \/ (queue # << >> /\ queue' = Tail(queue))
    PROVE  TurnsInv' /\ TasksInv'
<1>1. TurnsInv'
  BY DEF TurnsInv, EndOfTurnInv, agentVars
<1>2. \A t \in Task : TaskTrue(t) => TaskTrue(t)'
  BY DEF TaskTrue, Over, agentVars
<1>3. queue \in Seq(Task) /\ TasksInv /\ TypeOK
  BY DEF EndOfTurnInv, TypeOK
<1>4. \A i \in DOMAIN queue' : \E t \in Task : queue'[i] = t /\ TaskTrue(t)
  <2>1. CASE queue' = queue
    BY <1>3, <2>1 DEF TasksInv
  <2>2. CASE queue # << >> /\ queue' = Tail(queue)
    BY <1>3, <2>2, HeadAndTail DEF TasksInv
  <2>3. QED
    BY <2>1, <2>2
<1>5. TasksInv'
  BY <1>2, <1>4 DEF TasksInv
<1>6. QED
  BY <1>1, <1>5

\* What is carried: a step that changes neither it nor the registers.
LEMMA WorkerCarriesNothing ==
    ASSUME EndOfTurnInv, UNCHANGED agentVars,
           UNCHANGED << claimed, answered, textDelivered, lines, texts >>
    PROVE  CarriedInv'
BY DEF EndOfTurnInv, CarriedInv, Over, agentVars

\* The end of a task leaves no worker's state behind.
LEMMA IdleWorker ==
    ASSUME EndOfTurnInv, wpc' \in {"idle", "act", "check"}
    PROVE  WorkerInv'
BY DEF WorkerInv

LEMMA QueueMoves ==
    ASSUME EndOfTurnInv, queue # << >>, Done \/ ActHandled
    PROVE  /\ queue' = queue \/ (queue # << >> /\ queue' = Tail(queue))
           /\ wpc' \in {"idle", "check"}
BY DEF Done, ActHandled

\* The worker's steps keep the invariant.
LEMMA WorkerKeeps ==
    ASSUME EndOfTurnInv, Worker
    PROVE  EndOfTurnInv'
<1> USE DEF At
<1>0. TypeOK /\ TypeOK'
  BY TypeWorker DEF EndOfTurnInv
<1>1. queue # << >>
  BY <1>0 DEF TypeOK, Worker, Begin, ActNone, ActCarried, ActNobody, ActSend,
     ActAnswered, TextNotOwed, TextConfigFault, TextAlreadyDelivered, TextOwed,
     TextRefused, TextClaimed, RelayHolds, RelayQueues, RelaySends, RelayAnswered,
     CheckFine, LostIsLoud, LostConfigFault, CheckLost
<1>2. /\ task \in Task /\ task.s \in Sessions
      /\ task.email => /\ Over(task.s)
                       /\ task.attempted <=> task.s \in tried
                       /\ task.pending <=> act[task.s] # "none"
  BY <1>1, TaskInHand
<1>3. ASSUME UNCHANGED agentVars, UNCHANGED queue,
             CarriedInv', WorkerInv'
      PROVE  EndOfTurnInv'
  BY <1>0, <1>3, WorkerTasks DEF EndOfTurnInv
<1>4. ASSUME UNCHANGED agentVars, Done \/ ActHandled, CarriedInv'
      PROVE  EndOfTurnInv'
  BY <1>0, <1>1, <1>4, WorkerTasks, QueueMoves, IdleWorker DEF EndOfTurnInv
<1>5. CASE Begin
  <2>1. CarriedInv' /\ WorkerInv'
    BY <1>5, WorkerCarriesNothing, IdleWorker DEF Begin, historyVars
  <2>2. QED
    BY <1>3, <1>5, <2>1 DEF Begin
<1>6. CASE ActNone
  <2>1. CarriedInv'
    BY <1>6, WorkerCarriesNothing DEF ActNone, registerVars, historyVars
  <2>2. WorkerInv'
    <3>1. task' = task /\ act' = act
      BY <1>6 DEF ActNone, task, agentVars
    <3>2. task.email => act[task.s] # "open"
      BY <1>2, <1>6 DEF ActNone, Owed
    <3>3. task.kind = "text" \/ wpc' = "check"
      BY <1>6 DEF ActNone
    <3>4. wpc' \in {"text", "check"}
      BY <1>6 DEF ActNone
    <3>5. QED
      BY <3>1, <3>2, <3>3, <3>4 DEF WorkerInv
  <2>3. QED
    BY <1>3, <1>6, <2>1, <2>2 DEF ActNone
<1>7. CASE ActCarried \/ ActNobody
  <2>1. CarriedInv'
    BY <1>7, WorkerCarriesNothing DEF ActCarried, ActNobody, registerVars
  <2>2. QED
    BY <1>4, <1>7, <2>1 DEF ActCarried, ActNobody
<1>8. CASE ActSend
  <2>1. PICK o \in Outcomes :
            /\ outcome' = o
            /\ lines' = [lines EXCEPT ![task.s] = @ + (IF Carried(o) THEN 1 ELSE 0)]
            /\ answered' = IF o = "refused" THEN answered ELSE answered \cup {task.s}
    BY <1>8 DEF ActSend
  <2>2. lines[task.s] = 0 /\ texts[task.s] = 0
    BY <1>2, <1>8, <1>0 DEF ActSend, Owed, EndOfTurnInv, CarriedInv, TypeOK
  <2>3. CarriedInv'
    BY <1>0, <1>2, <1>8, <2>1, <2>2
       DEF ActSend, CarriedInv, EndOfTurnInv, TypeOK, Outcomes, Carried, Over, agentVars
  <2>4. WorkerInv'
    BY <1>0, <1>2, <1>8, <2>1, <2>2
       DEF ActSend, WorkerInv, TypeOK, Outcomes, Carried, task
  <2>5. QED
    BY <1>3, <1>8, <2>3, <2>4 DEF ActSend
<1>9. CASE ActAnswered
  <2>1. CarriedInv'
    BY <1>0, <1>2, <1>9
       DEF ActAnswered, CarriedInv, WorkerInv, EndOfTurnInv, TypeOK, Over, agentVars
  <2>2. QED
    BY <1>4, <1>9, <2>1 DEF ActAnswered
<1>10. CASE TextNotOwed \/ TextConfigFault \/ TextAlreadyDelivered \/ RelayHolds
            \/ CheckFine \/ LostIsLoud \/ LostConfigFault
  <2>1. CarriedInv'
    BY <1>10, WorkerCarriesNothing
       DEF TextNotOwed, TextConfigFault, TextAlreadyDelivered, RelayHolds, CheckFine,
           LostIsLoud, LostConfigFault, registerVars
  <2>2. QED
    BY <1>4, <1>10, <2>1
       DEF TextNotOwed, TextConfigFault, TextAlreadyDelivered, RelayHolds, CheckFine,
           LostIsLoud, LostConfigFault
<1>11. CASE TextRefused
  <2>1. CarriedInv'
    BY <1>2, <1>11 DEF TextRefused, CarriedInv, EndOfTurnInv, Over, agentVars
  <2>2. QED
    BY <1>4, <1>11, <2>1 DEF TextRefused
<1>12. CASE TextClaimed
  <2>1. CarriedInv'
    BY <1>2, <1>12 DEF TextClaimed, CarriedInv, EndOfTurnInv, Over, agentVars,
                       historyVars
  <2>2. texts[task.s] = 0 /\ task.s \notin answered /\ ~task.attempted /\ task.email
    BY <1>0, <1>2, <1>12
       DEF TextClaimed, TextOwed, AnsweredOtherwise, EndOfTurnInv, CarriedInv, TypeOK
  <2>3. WorkerInv'
    BY <1>2, <1>12, <2>2
       DEF TextClaimed, TextOwed, WorkerInv, EndOfTurnInv, task, agentVars, historyVars
  <2>4. QED
    BY <1>3, <1>12, <2>1, <2>3 DEF TextClaimed
<1>13. CASE RelayQueues
  <2>1. CarriedInv'
    BY <1>13, WorkerCarriesNothing DEF RelayQueues
  <2>2. QED
    BY <1>4, <1>13, <2>1 DEF RelayQueues
<1>14. CASE RelaySends
  <2>1. PICK o \in Outcomes :
            /\ texts' = [texts EXCEPT ![task.s] = @ + (IF Carried(o) THEN 1 ELSE 0)]
            /\ answered' = IF o = "refused" THEN answered ELSE answered \cup {task.s}
    BY <1>14 DEF RelaySends
  <2>2. /\ texts[task.s] = 0 /\ task.s \notin answered /\ task.s \notin tried
        /\ Over(task.s) /\ act[task.s] # "open" /\ task.s \in textDelivered
    BY <1>2, <1>14 DEF RelaySends, EndOfTurnInv, WorkerInv
  <2>3. lines[task.s] = 0
    BY <1>0, <1>2, <2>2 DEF EndOfTurnInv, CarriedInv, TypeOK
  <2>4. CarriedInv'
    BY <1>0, <1>2, <1>14, <2>1, <2>2, <2>3
       DEF RelaySends, CarriedInv, EndOfTurnInv, TypeOK, Over, agentVars
  <2>5. WorkerInv'
    BY <1>2, <1>14 DEF RelaySends, WorkerInv, EndOfTurnInv, task, agentVars
  <2>6. QED
    BY <1>3, <1>14, <2>4, <2>5 DEF RelaySends
<1>15. CASE RelayAnswered
  <2>1. CarriedInv'
    BY <1>15, WorkerCarriesNothing DEF RelayAnswered
  <2>2. QED
    BY <1>4, <1>15, <2>1 DEF RelayAnswered
<1>16. QED
  BY <1>5, <1>6, <1>7, <1>8, <1>9, <1>10, <1>11, <1>12, <1>13, <1>14, <1>15 DEF Worker

-------------------------------------------------------------------------------
(***************************************************************************)
(* The theorems.                                                           *)
(***************************************************************************)

LEMMA InvInit == Init => EndOfTurnInv
<1>1. SUFFICES ASSUME Init PROVE EndOfTurnInv
  OBVIOUS
<1>2. TypeOK
  BY <1>1, TypeInit
<1>3. DOMAIN queue = {}
  BY <1>1 DEF Init
<1>4. TurnsInv /\ TasksInv /\ CarriedInv /\ WorkerInv
  BY <1>1, <1>3 DEF Init, TurnsInv, TasksInv, CarriedInv, WorkerInv
<1>5. QED
  BY <1>2, <1>4 DEF EndOfTurnInv

LEMMA InvStep ==
    ASSUME EndOfTurnInv, [Next]_vars
    PROVE  EndOfTurnInv'
<1>1. CASE UNCHANGED vars
  <2>1. TypeOK' /\ TurnsInv' /\ TasksInv'
    BY <1>1, TypeStep, WorkerTasks
       DEF EndOfTurnInv, vars, workerVars
  <2>2. CarriedInv'
    BY <1>1, WorkerCarriesNothing DEF vars, registerVars, historyVars
  <2>3. WorkerInv'
    BY <1>1 DEF EndOfTurnInv, WorkerInv, task, vars, agentVars, registerVars,
                workerVars, historyVars
  <2>4. QED
    BY <2>1, <2>2, <2>3 DEF EndOfTurnInv
<1>2. QED
  BY <1>1, AgentKeeps, WorkerKeeps DEF Next

\* Snapshots stay true while later turns run, and the registers remember every
\* line and text that may have been carried (_turn_snapshot,
\* TransmittedBodies.claim, answered_messages.note).
THEOREM EndOfTurnInvariant == Spec => []EndOfTurnInv
<1>1. EndOfTurnInv /\ [Next]_vars => EndOfTurnInv'
  BY InvStep
<1>2. QED
  BY <1>1, InvInit, PTL DEF Spec

\* The seat has an act line carried at most once, whatever hooks fire how often
\* and whatever answers are lost (act_delivery.deliver_if_owed).
THEOREM LineOnce == Spec => []SeatLineOnce
<1>1. EndOfTurnInv => SeatLineOnce
  BY DEF EndOfTurnInv, CarriedInv, SeatLineOnce
<1>2. QED
  BY <1>1, EndOfTurnInvariant, PTL

\* The turn's final text answers an email at most once, and only one that
\* neither its turn nor the seat's act line answered (_deliver_text_reply).
THEOREM TextAlone == Spec => []TextAloneAnswers
<1>1. EndOfTurnInv => TextAloneAnswers
  BY DEF EndOfTurnInv, CarriedInv, TextAloneAnswers
<1>2. QED
  BY <1>1, EndOfTurnInvariant, PTL

-------------------------------------------------------------------------------
(***************************************************************************)
(* Nobody's reply is lost in silence.                                      *)
(***************************************************************************)

\* What accounts for an email is never taken back.
Grow == /\ committed \subseteq committed' /\ answered \subseteq answered'
        /\ tried \subseteq tried' /\ quiet \subseteq quiet'
        /\ paged \subseteq paged' /\ unread \subseteq unread'

LEMMA ToldStays ==
    ASSUME Grow
    PROVE  \A s : (Accounted(s) => Accounted(s)') /\ (Told(s) => Told(s)')
BY DEF Grow, Accounted, Told

LEMMA AgentGrow ==
    ASSUME NEW s \in Sessions, Agent(s)
    PROVE  /\ Grow
           /\ UNCHANGED << claimed, textSeen, textDelivered, wpc, outcome, settled >>
           /\ \A q \in noted' : q \in noted \/ q \in committed'
<1> USE DEF agentVars, registerVars, workerVars, historyVars, Grow
<1>1. CASE Draft(s)
  BY <1>1 DEF Draft
<1>2. CASE PostLlmCall(s)
  BY <1>2 DEF PostLlmCall
<1>3. CASE StartTurn(s) \/ Propose(s) \/ Confirm(s) \/ SendElsewhere(s)
           \/ BrokerAnswers(s) \/ PostLlmCallRepeated(s) \/ PostLlmCallSkipped(s) \/ OnTurnEnd(s)
  BY <1>3 DEF StartTurn, Propose, Confirm, SendElsewhere, BrokerAnswers,
              PostLlmCallRepeated, PostLlmCallSkipped, OnTurnEnd
<1>4. QED
  BY <1>1, <1>2, <1>3 DEF Agent

\* A silent task is one of an email whose text is known to be silent.
Silences == \A i \in DOMAIN queue : queue[i].silent => queue[i].s \in quiet

LEMMA AgentSilences ==
    ASSUME EndOfTurnInv, Silences, NEW s \in Sessions, Agent(s)
    PROVE  Silences'
<1>1. TypeOK /\ Grow
  BY AgentGrow DEF EndOfTurnInv
<1>2. CASE queue' = queue
  BY <1>1, <1>2 DEF Silences, Grow
<1>3. ASSUME NEW kind \in {"text", "settle"}, NEW silent \in BOOLEAN,
             queue' = Append(queue, Snapshot(s, kind, silent)), silent => s \in quiet'
      PROVE  Silences'
  <2>1. PICK t \in Task : t = Snapshot(s, kind, silent)
    BY <1>1, SnapshotIsTask
  <2>2. t.silent => t.s \in quiet'
    BY <1>3, <2>1 DEF Snapshot
  <2>3. \A i \in DOMAIN queue' : queue'[i] = t \/ (i \in DOMAIN queue /\ queue'[i] = queue[i])
    BY <1>1, <1>3, <2>1, HandedOff
  <2>4. QED
    BY <1>1, <2>2, <2>3 DEF Silences, Grow
<1>4. CASE PostLlmCall(s)
  <2>1. PICK silent \in BOOLEAN :
            /\ quiet' = IF silent THEN quiet \cup {s} ELSE quiet
            /\ queue' = Append(queue, Snapshot(s, "text", silent))
    BY <1>4 DEF PostLlmCall
  <2>2. QED
    BY <1>3, <2>1
<1>5. CASE PostLlmCallRepeated(s)
  BY <1>3, <1>5 DEF PostLlmCallRepeated
<1>6. CASE OnTurnEnd(s)
  BY <1>3, <1>6 DEF OnTurnEnd
<1>7. QED
  BY <1>2, <1>4, <1>5, <1>6
     DEF Agent, StartTurn, Propose, Confirm, Draft, SendElsewhere, BrokerAnswers,
         PostLlmCallSkipped, workerVars

LEMMA LoudAgent ==
    ASSUME EndOfTurnInv, LoudInv, NEW s \in Sessions, Agent(s)
    PROVE  LoudInv'
<1>1. /\ Grow
      /\ UNCHANGED << claimed, textSeen, textDelivered, wpc, outcome, settled >>
      /\ \A q \in noted' : q \in noted \/ q \in committed'
  BY AgentGrow
<1>2. \A q : (Accounted(q) => Accounted(q)') /\ (Told(q) => Told(q)')
  BY <1>1, ToldStays
<1>3. LoudOrAnswered'
  <2>1. \A q \in settled : Told(q)
    BY DEF LoudInv, LoudOrAnswered, Told
  <2>2. QED
    BY <1>1, <1>2, <2>1 DEF LoudOrAnswered, Told
<1>4. \A q \in noted' : q \in committed'
  BY <1>1 DEF LoudInv, Grow
<1>5. Silences'
  BY AgentSilences DEF LoudInv, Silences
<1>6. CASE wpc = "idle"
  <2>1. \A q \in claimed : q \in answered
    BY <1>6 DEF LoudInv, InHand
  <2>2. \A q \in textSeen \cup textDelivered : Told(q)
    BY <1>6 DEF LoudInv, InHand, TextInHand
  <2>3. QED
    BY <1>1, <1>2, <1>3, <1>4, <1>5, <1>6, <2>1, <2>2 DEF LoudInv, Grow, Silences
<1>7. CASE wpc # "idle"
  <2>1. queue # << >> /\ task' = task
    BY <1>7, AgentTasks DEF EndOfTurnInv, TypeOK
  <2>2. /\ task.s \in Sessions
        /\ task.email => Over(task.s) /\ (task.pending => act[task.s] # "none")
    BY <2>1, TaskInHand
  <2>3. task.email /\ Owed' => Owed
    BY <2>1, <2>2, AgentLeaves DEF Owed, EndOfTurnInv, TypeOK
  <2>4. (/\ \A q \in claimed : q \in answered \/ InHand(q, {"acted"})
         /\ wpc = "acted" /\ outcome # "refused" => task.s \in answered)'
    BY <1>1, <2>1 DEF LoudInv, Grow, InHand
  <2>5. (wpc = "check" => /\ task.kind = "settle"
                          /\ task.email /\ Owed => Accounted(task.s))'
    BY <1>1, <1>2, <2>1, <2>3 DEF LoudInv
  <2>6. (\A q \in textSeen : Told(q) \/ TextInHand(q))'
    BY <1>1, <1>2, <2>1 DEF LoudInv, TextInHand, InHand
  <2>7. (\A q \in textDelivered : Told(q) \/ InHand(q, {"relay", "relayed"}))'
    BY <1>1, <1>2, <2>1 DEF LoudInv, InHand
  <2>8. QED
    BY <1>3, <1>4, <1>5, <2>4, <2>5, <2>6, <2>7 DEF LoudInv, Silences
<1>8. QED
  BY <1>6, <1>7

LEMMA WorkerGrow ==
    ASSUME Worker
    PROVE  Grow /\ UNCHANGED << agentVars, noted >> /\ textSeen \subseteq textSeen'
<1> USE DEF agentVars, registerVars, workerVars, historyVars, Grow, Page
<1>1. CASE Begin \/ ActNone \/ ActCarried \/ ActNobody \/ ActAnswered
  BY <1>1 DEF Begin, ActNone, ActCarried, ActNobody, ActAnswered
<1>2. CASE ActSend
  BY <1>2 DEF ActSend
<1>3. CASE TextNotOwed \/ TextConfigFault \/ TextAlreadyDelivered \/ TextRefused \/ TextClaimed
  BY <1>3 DEF TextNotOwed, TextConfigFault, TextAlreadyDelivered, TextRefused, TextClaimed
<1>4. CASE RelayHolds \/ RelayQueues \/ RelaySends \/ RelayAnswered
  BY <1>4 DEF RelayHolds, RelayQueues, RelaySends, RelayAnswered
<1>5. CASE CheckFine \/ LostIsLoud \/ LostConfigFault
  BY <1>5 DEF CheckFine, LostIsLoud, LostConfigFault
<1>6. QED
  BY <1>1, <1>2, <1>3, <1>4, <1>5 DEF Worker

\* The queue the worker leaves holds no new silence.
LEMMA WorkerSilences ==
    ASSUME EndOfTurnInv, Silences, Grow,
           queue' = queue \/ (queue # << >> /\ queue' = Tail(queue))
    PROVE  Silences'
<1>1. TypeOK
  BY DEF EndOfTurnInv
<1>2. CASE queue' = queue
  BY <1>2 DEF Silences, Grow
<1>3. CASE queue # << >> /\ queue' = Tail(queue)
  BY <1>1, <1>3, HeadAndTail DEF Silences, Grow
<1>4. QED
  BY <1>2, <1>3

\* A task that ends with its email accounted for.
LEMMA Finished ==
    ASSUME EndOfTurnInv, LoudInv, Grow, queue # << >>, Done,
           noted' = noted, textSeen' = textSeen,
           \A q \in claimed' : q \in answered',
           \A q \in textDelivered' : q \in textDelivered \/ (q = task.s /\ task.email),
           task.email => \E q : q = task.s /\ Told(q)'
    PROVE  LoudInv'
<1>1. \A q : (Accounted(q) => Accounted(q)') /\ (Told(q) => Told(q)')
  BY ToldStays
<1>2. wpc' = "idle" /\ queue' = Tail(queue)
  BY DEF Done
<1>3. \A q \in settled' : Told(q)'
  <2>1. \A q \in settled : Told(q)
    BY DEF LoudInv, LoudOrAnswered, Told
  <2>2. \A q \in settled' : q \in settled \/ (q = task.s /\ task.email)
    BY DEF Done
  <2>3. QED
    BY <1>1, <2>1, <2>2
<1>4. LoudOrAnswered'
  BY <1>3 DEF LoudOrAnswered, Told
<1>5. \A q \in textSeen' : Told(q)'
  BY <1>1 DEF LoudInv, TextInHand, InHand
<1>6. \A q \in textDelivered' : Told(q)'
  BY <1>1 DEF LoudInv, InHand, EndOfTurnInv, WorkerInv
<1>7. \A q \in noted' : q \in committed'
  BY DEF LoudInv, Grow
<1>8. Silences'
  BY <1>2, WorkerSilences DEF LoudInv, Silences
<1>9. QED
  BY <1>2, <1>4, <1>5, <1>6, <1>7, <1>8 DEF LoudInv, Silences

\* A task that goes on.
LEMMA GoesOn ==
    ASSUME EndOfTurnInv, LoudInv, Grow, queue' = queue, settled' = settled, noted' = noted,
           (\A q \in claimed : q \in answered \/ InHand(q, {"acted"}))',
           (wpc = "acted" /\ outcome # "refused" => task.s \in answered)',
           (wpc = "check" => /\ task.kind = "settle"
                             /\ task.email /\ Owed => Accounted(task.s))',
           (\A q \in textSeen : Told(q) \/ TextInHand(q))',
           (\A q \in textDelivered : Told(q) \/ InHand(q, {"relay", "relayed"}))'
    PROVE  LoudInv'
<1>1. \A q : (Accounted(q) => Accounted(q)') /\ (Told(q) => Told(q)')
  BY ToldStays
<1>2. \A q \in settled' : Told(q)'
  BY <1>1 DEF LoudInv, LoudOrAnswered, Told
<1>3. LoudOrAnswered'
  BY <1>2 DEF LoudOrAnswered, Told
<1>4. \A q \in noted' : q \in committed'
  BY DEF LoudInv, Grow
<1>5. Silences'
  BY WorkerSilences DEF LoudInv, Silences
<1>6. QED
  BY <1>3, <1>4, <1>5 DEF LoudInv, Silences

\* The act's part ends with its email accounted for.
LEMMA ActEnds ==
    ASSUME EndOfTurnInv, LoudInv, Grow, queue # << >>, wpc \in {"act", "acted"}, ActHandled,
           noted' = noted, textSeen' = textSeen, textDelivered' = textDelivered,
           \A q \in claimed' : q \in answered',
           \E q : q = task.s /\ Accounted(q)'
    PROVE  LoudInv'
<1>1. task.kind \in {"text", "settle"}
  BY HeadAndTail DEF EndOfTurnInv, Task
<1>2. \A q : Accounted(q)' => Told(q)'
  BY DEF Told
<1>3. CASE task.kind = "text"
  <2>1. Done
    BY <1>3 DEF ActHandled
  <2>2. QED
    BY <1>2, <2>1, Finished
<1>4. CASE task.kind = "settle"
  <2>1. wpc' = "check" /\ queue' = queue /\ settled' = settled
    BY <1>4 DEF ActHandled
  <2>2. task' = task
    BY <2>1 DEF task
  <2>3. \A q : (Accounted(q) => Accounted(q)') /\ (Told(q) => Told(q)')
    BY ToldStays
  <2>4. (\A q \in textSeen : Told(q))'
    BY <1>4, <2>3 DEF LoudInv, TextInHand
  <2>5. (\A q \in textDelivered : Told(q))'
    BY <2>3 DEF LoudInv, InHand
  <2>6. (/\ task.kind = "settle"
         /\ task.email /\ Owed => Accounted(task.s))'
    BY <1>4, <2>2
  <2>7. QED
    BY <2>1, <2>4, <2>5, <2>6, GoesOn
<1>5. QED
  BY <1>1, <1>3, <1>4

LEMMA LoudWorker ==
    ASSUME EndOfTurnInv, LoudInv, Worker
    PROVE  LoudInv'
<1> USE DEF At, registerVars, workerVars, historyVars
<1>1. /\ Grow /\ UNCHANGED << agentVars, noted >>
      /\ \A q : (Accounted(q) => Accounted(q)') /\ (Told(q) => Told(q)')
      /\ \A q : Accounted(q)' => Told(q)'
  BY WorkerGrow, ToldStays DEF Told
<1>2. queue # << >>
  BY DEF EndOfTurnInv, TypeOK, Worker, Begin, ActNone, ActCarried, ActNobody, ActSend,
     ActAnswered, TextNotOwed, TextConfigFault, TextAlreadyDelivered, TextOwed,
     TextRefused, TextClaimed, RelayHolds, RelayQueues, RelaySends, RelayAnswered,
     CheckFine, LostIsLoud, LostConfigFault, CheckLost
<1>3. /\ task.s \in Sessions
      /\ task.email => (task.attempted <=> task.s \in tried)
      /\ task.silent => task.s \in quiet
  <2>1. 1 \in DOMAIN queue /\ task = queue[1]
    BY <1>2, HeadAndTail DEF EndOfTurnInv
  <2>2. QED
    BY <1>2, <2>1, TaskInHand DEF LoudInv
<1>4. wpc # "acted" => \A q \in claimed : q \in answered'
  BY <1>1 DEF LoudInv, InHand, Grow
<1>5. CASE Begin
  <2>1. /\ wpc = "idle" /\ wpc' = "act" /\ task' = task
        /\ \A q \in textSeen' : q \in textSeen
                             \/ (q = task.s /\ task.kind = "text" /\ task.email)
        /\ UNCHANGED << queue, settled, claimed, textDelivered >>
    BY <1>5 DEF Begin, task
  <2>2. (\A q \in textSeen : Told(q) \/ TextInHand(q))'
    BY <1>1, <2>1 DEF LoudInv, TextInHand, InHand
  <2>3. (\A q \in textDelivered : Told(q))'
    BY <1>1, <2>1 DEF LoudInv, InHand
  <2>4. QED
    BY <1>1, <1>4, <2>1, <2>2, <2>3, GoesOn
<1>6. CASE ActNone
  <2>1. /\ wpc = "act" /\ wpc' \in {"text", "check"} /\ ~Owed /\ task' = task
        /\ wpc' = "check" => task.kind # "text"
        /\ UNCHANGED << queue, settled, claimed, textSeen, textDelivered >>
    BY <1>6 DEF ActNone, task
  <2>2. wpc' = "check" => task.kind = "settle"
    BY <1>2, <2>1, HeadAndTail DEF EndOfTurnInv, Task
  <2>3. ~Owed'
    BY <1>1, <2>1 DEF Owed, agentVars
  <2>4. (\A q \in textSeen : Told(q) \/ TextInHand(q))'
    BY <1>1, <2>1 DEF LoudInv, TextInHand, InHand
  <2>5. (\A q \in textDelivered : Told(q))'
    BY <1>1, <2>1 DEF LoudInv, InHand
  <2>6. QED
    BY <1>1, <1>4, <2>1, <2>2, <2>3, <2>4, <2>5, GoesOn
<1>7. CASE ActCarried
  <2>1. task.s \in committed \cup answered
    BY <1>7 DEF ActCarried, LoudInv, InHand
  <2>2. Accounted(task.s)
    BY <2>1 DEF Accounted
  <2>3. \E q : q = task.s /\ Accounted(q)'
    BY <1>1, <2>2
  <2>4. QED
    BY <1>1, <1>2, <1>4, <1>7, <2>3, ActEnds DEF ActCarried
<1>8. CASE ActNobody
  <2>1. \E q : q = task.s /\ Accounted(q)'
    BY <1>8 DEF ActNobody, Page, Accounted
  <2>2. QED
    BY <1>1, <1>2, <1>4, <1>8, <2>1, ActEnds DEF ActNobody
<1>9. CASE ActSend
  <2>1. /\ wpc = "act" /\ wpc' = "acted" /\ task' = task
        /\ claimed' = claimed \cup {task.s}
        /\ outcome' # "refused" => task.s \in answered'
        /\ UNCHANGED << queue, settled, textSeen, textDelivered >>
    BY <1>9 DEF ActSend, task
  <2>2. (\A q \in claimed : q \in answered \/ InHand(q, {"acted"}))'
    BY <1>4, <2>1 DEF InHand
  <2>3. (\A q \in textSeen : Told(q) \/ TextInHand(q))'
    BY <1>1, <2>1 DEF LoudInv, TextInHand, InHand
  <2>4. (\A q \in textDelivered : Told(q))'
    BY <1>1, <2>1 DEF LoudInv, InHand
  <2>5. QED
    BY <1>1, <2>1, <2>2, <2>3, <2>4, GoesOn
<1>10. CASE ActAnswered
  <2>1. outcome # "refused" => task.s \in answered'
    BY <1>1, <1>10 DEF ActAnswered, LoudInv, Grow
  <2>2. \A q \in claimed' : q \in answered'
    BY <1>1, <1>10, <2>1 DEF ActAnswered, LoudInv, InHand, Grow
  <2>3. task.s \in answered' \cup paged'
    BY <1>10, <2>1 DEF ActAnswered, Page
  <2>4. \E q : q = task.s /\ Accounted(q)'
    BY <2>3 DEF Accounted
  <2>5. QED
    BY <1>1, <1>2, <1>10, <2>2, <2>4, ActEnds DEF ActAnswered
<1>11. CASE TextNotOwed \/ TextConfigFault \/ TextAlreadyDelivered \/ TextRefused
  <2>1. /\ Done /\ wpc = "text" /\ claimed' = claimed /\ textSeen' = textSeen
        /\ \A q \in textDelivered' : q \in textDelivered \/ (q = task.s /\ task.email)
    BY <1>11 DEF TextNotOwed, TextConfigFault, TextAlreadyDelivered, TextRefused, TextOwed
  <2>2. ASSUME task.email
        PROVE  Told(task.s) \/ task.s \in unread' \cup paged'
    <3>1. CASE TextNotOwed
      BY <1>3, <2>2, <3>1 DEF TextNotOwed, AnsweredOtherwise, Told, Accounted
    <3>2. CASE TextConfigFault \/ TextRefused
      BY <3>2 DEF TextConfigFault, TextRefused, Page
    <3>3. CASE TextAlreadyDelivered
      BY <2>1, <3>3 DEF TextAlreadyDelivered, LoudInv, InHand
    <3>4. QED
      BY <1>11, <3>1, <3>2, <3>3
  <2>3. task.email => \E q : q = task.s /\ Told(q)'
    BY <1>1, <2>2 DEF Told, Accounted
  <2>4. QED
    BY <1>1, <1>2, <1>4, <2>1, <2>3, Finished
<1>12. CASE TextClaimed
  <2>1. /\ wpc = "text" /\ wpc' = "relay" /\ task' = task
        /\ textDelivered' = textDelivered \cup {task.s}
        /\ UNCHANGED << queue, settled, claimed, textSeen >>
    BY <1>12 DEF TextClaimed, TextOwed, task
  <2>2. (\A q \in textSeen : Told(q) \/ TextInHand(q))'
    BY <1>1, <2>1 DEF LoudInv, TextInHand, InHand
  <2>3. (\A q \in textDelivered : Told(q) \/ InHand(q, {"relay", "relayed"}))'
    BY <1>1, <2>1 DEF LoudInv, InHand
  <2>4. QED
    BY <1>1, <1>4, <2>1, <2>2, <2>3, GoesOn
<1>13. CASE RelaySends
  <2>1. /\ wpc = "relay" /\ wpc' = "relayed" /\ task' = task
        /\ UNCHANGED << queue, settled, claimed, textSeen, textDelivered >>
    BY <1>13 DEF RelaySends, task
  <2>2. (\A q \in textSeen : Told(q) \/ TextInHand(q))'
    BY <1>1, <2>1 DEF LoudInv, TextInHand, InHand
  <2>3. (\A q \in textDelivered : Told(q) \/ InHand(q, {"relay", "relayed"}))'
    BY <1>1, <2>1 DEF LoudInv, InHand
  <2>4. QED
    BY <1>1, <1>4, <2>1, <2>2, <2>3, GoesOn
<1>14. CASE RelayHolds \/ RelayQueues \/ RelayAnswered
  <2>1. /\ Done /\ wpc # "acted"
        /\ UNCHANGED << claimed, textSeen, textDelivered >>
    BY <1>14 DEF RelayHolds, RelayQueues, RelayAnswered
  <2>2. task.s \in committed' \cup paged'
    BY <1>14 DEF RelayHolds, RelayQueues, RelayAnswered, Page
  <2>3. \E q : q = task.s /\ Told(q)'
    BY <2>2 DEF Told, Accounted
  <2>4. QED
    BY <1>1, <1>2, <1>4, <2>1, <2>3, Finished
<1>15. CASE CheckFine \/ LostIsLoud \/ LostConfigFault
  <2>1. /\ Done /\ wpc = "check"
        /\ UNCHANGED << claimed, textSeen, textDelivered >>
    BY <1>15 DEF CheckFine, CheckLost, LostIsLoud, LostConfigFault
  <2>2. ASSUME task.email
        PROVE  Told(task.s) \/ task.s \in unread' \cup paged'
    <3>1. CASE CheckFine /\ Owed
      BY <2>1, <2>2, <3>1 DEF LoudInv, Told
    <3>2. CASE CheckFine /\ task.s \in textSeen
      BY <2>1, <3>2 DEF LoudInv, TextInHand, InHand
    <3>3. CASE CheckFine /\ AnsweredOtherwise
      BY <1>3, <2>2, <3>3 DEF AnsweredOtherwise, Told, Accounted
    <3>4. CASE LostIsLoud \/ LostConfigFault
      BY <3>4 DEF LostIsLoud, LostConfigFault, Page
    <3>5. QED
      BY <1>15, <2>2, <3>1, <3>2, <3>3, <3>4 DEF CheckFine
  <2>3. task.email => \E q : q = task.s /\ Told(q)'
    BY <1>1, <2>2 DEF Told, Accounted
  <2>4. QED
    BY <1>1, <1>2, <1>4, <2>1, <2>3, Finished
<1>16. QED
  BY <1>5, <1>6, <1>7, <1>8, <1>9, <1>10, <1>11, <1>12, <1>13, <1>14, <1>15 DEF Worker

LEMMA LoudInit == Init => LoudInv
<1>1. SUFFICES ASSUME Init PROVE LoudInv
  OBVIOUS
<1>2. DOMAIN queue = {}
  BY <1>1 DEF Init
<1>3. QED
  BY <1>1, <1>2 DEF Init, LoudInv, LoudOrAnswered, InHand, TextInHand

\* Once the last task of an email's turn has run, the email is answered, was
\* tried, is silent by choice, or somebody was told; only an unreadable
\* customer.yaml loses it in silence (on_turn_end, _end_of_turn_settle).
THEOREM LostIsNeverQuiet == Spec => []LoudOrAnswered
<1>1. EndOfTurnInv /\ LoudInv /\ [Next]_vars => LoudInv'
  <2>1. ASSUME EndOfTurnInv, LoudInv, UNCHANGED vars
        PROVE  LoudInv'
    BY <2>1 DEF LoudInv, LoudOrAnswered, Accounted, Told, InHand, TextInHand, Owed, task,
                vars, agentVars, registerVars, workerVars, historyVars
  <2>2. QED
    BY <2>1, LoudAgent, LoudWorker DEF Next
<1>2. LoudInv => LoudOrAnswered
  BY DEF LoudInv
<1>3. QED
  BY <1>1, <1>2, LoudInit, EndOfTurnInvariant, PTL DEF Spec
===============================================================================
