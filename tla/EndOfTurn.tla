------------------------------- MODULE EndOfTurn -------------------------------
(***************************************************************************)
(* The end of a turn in the reply plugin: what is done for an email whose  *)
(* turn drafted nothing.  The hooks post_llm_call and on_session_end only  *)
(* snapshot the turn and hand a task to one FIFO worker thread             *)
(* (shared/hook_worker.py); the worker sends an act line the turn proposed *)
(* and did not send (act_delivery), else the turn's final text as the      *)
(* reply (text_delivery), and makes a lost reply loud.                     *)
(*                                                                         *)
(* A session is opened by one email of a rostered sender on a seat whose   *)
(* adapter the text delivery is turned on for; its later turns are wakes,  *)
(* which no email opens.  The worker runs beside them.  Drafting is        *)
(* ReplyChannel's subject: here a draft call is one step with its outcome. *)
(***************************************************************************)
EXTENDS Naturals, Sequences

CONSTANTS Sessions,     \* sessions, each opened by one email
          ConfigFaults, \* whether a read of customer.yaml may fail
          HookFaults,   \* whether post_llm_call may be skipped, or fire twice
          MaxTurns      \* bound: turns of one session

ASSUME TurnAssumption == /\ ConfigFaults \in BOOLEAN
                         /\ HookFaults \in BOOLEAN
                         /\ MaxTurns \in Nat

VARIABLES
    \* the agent
    turn,          \* which turn each session is in
    phase,         \* "idle", "agent" while it runs, "posted" after post_llm_call
    act,           \* the session's act record (PENDING_ACTS): none, open, confirmed
    \* the plugin's registers
    turnSends,     \* _TURN_SENDS: sessions whose current turn tried to send
    committed,     \* _REPLIED: emails that have their reply
    answered,      \* answered_messages: emails the broker answered, or may have
    noted,         \* _ACT_BODIES: sessions with a transmitted or queued body that has the line
    claimed,       \* _ACT_BODIES: sessions whose line the seat delivers itself
    textSeen,      \* _TEXT_SEEN
    textDelivered, \* _TEXT_DELIVERED
    \* the worker
    queue,         \* tasks handed off
    wpc,           \* where the worker is in the task at the head
    outcome,       \* what the transport answered, or will answer, the worker
    \* history, per email
    tried,         \* its own turn attempted a draft or a send
    quiet,         \* its turn's final text was empty or an authored silence
    lines,         \* act lines the seat's worker had carried
    texts,         \* final texts the seat's worker had carried
    paged,         \* somebody was told it got no answer
    settled,       \* its turn's last task has run
    unread         \* customer.yaml could not be read on its behalf

agentVars    == << turn, phase, act, turnSends, tried, quiet >>
registerVars == << committed, answered, noted, claimed, textSeen, textDelivered >>
workerVars   == << queue, wpc, outcome >>
historyVars  == << lines, texts, paged, settled, unread >>
vars == << agentVars, registerVars, workerVars, historyVars >>

Outcomes == {"acked", "carried_unknown", "lost_unknown", "refused"}
Carried(o) == o \in {"acked", "carried_unknown"}

\* bound_this_turn: the email that opened the session's CURRENT turn.
BoundThisTurn(s) == turn[s] = 1

Init ==
    /\ turn = [s \in Sessions |-> 0]
    /\ phase = [s \in Sessions |-> "idle"]
    /\ act = [s \in Sessions |-> "none"]
    /\ turnSends = {} /\ committed = {} /\ answered = {} /\ noted = {}
    /\ claimed = {} /\ textSeen = {} /\ textDelivered = {}
    /\ queue = << >> /\ wpc = "idle" /\ outcome = "none"
    /\ tried = {} /\ quiet = {}
    /\ lines = [s \in Sessions |-> 0]
    /\ texts = [s \in Sessions |-> 0]
    /\ paged = {} /\ settled = {} /\ unread = {}

-------------------------------------------------------------------------------
(***************************************************************************)
(* The agent's thread.                                                     *)
(***************************************************************************)
InTurn(s) == phase[s] = "agent"

\* pre_llm_call of both plugins: the prompt's email is marked, or the mark is
\* cleared, and nothing has been attempted yet.
StartTurn(s) ==
    /\ phase[s] = "idle" /\ turn[s] < MaxTurns
    /\ turn' = [turn EXCEPT ![s] = @ + 1]
    /\ phase' = [phase EXCEPT ![s] = "agent"]
    /\ turnSends' = turnSends \ {s}
    /\ UNCHANGED << act, tried, quiet, registerVars, workerVars, historyVars >>

\* The trust gate withholds a call of the administrator's email and records the
\* act whose line the reply must carry.
Propose(s) ==
    /\ InTurn(s) /\ turn[s] = 1 /\ act[s] = "none"
    /\ act' = [act EXCEPT ![s] = "open"]
    /\ UNCHANGED << turn, phase, turnSends, tried, quiet, registerVars, workerVars,
                    historyVars >>

\* A later turn of the session hears the administrator's answer.
Confirm(s) ==
    /\ InTurn(s) /\ turn[s] > 1 /\ act[s] = "open"
    /\ act' = [act EXCEPT ![s] = "confirmed"]
    /\ UNCHANGED << turn, phase, turnSends, tried, quiet, registerVars, workerVars,
                    historyVars >>

\* Mutant of Draft: a draft the relay holds is not noted as an attempt.
DraftHeldUnnoted(s) ==
    /\ InTurn(s) /\ turn[s] = 1
    /\ tried' = tried \cup {s}
    /\ \/ UNCHANGED << turnSends, committed, noted, answered >>
       \/ /\ s \notin committed
          /\ turnSends' = turnSends \cup {s}
          /\ committed' = committed \cup {s}
          /\ UNCHANGED << noted, answered >>
    /\ UNCHANGED << turn, phase, act, quiet, claimed, textSeen, textDelivered,
                    workerVars, historyVars >>

\* The model drafts the email's reply, with or without the act line: the relay
\* holds it, it certainly fails, or it went out, may have, or is queued.
Draft(s) ==
    /\ InTurn(s) /\ turn[s] = 1
    /\ turnSends' = turnSends \cup {s}
    /\ tried' = tried \cup {s}
    /\ \/ UNCHANGED << committed, noted, answered >>
       \/ /\ s \notin committed
          /\ committed' = committed \cup {s}
          /\ \/ UNCHANGED noted
             \/ act[s] = "open" /\ noted' = noted \cup {s}
          /\ \/ UNCHANGED answered
             \/ answered' = answered \cup {s}
    /\ UNCHANGED << turn, phase, act, quiet, claimed, textSeen, textDelivered,
                    workerVars, historyVars >>

\* A wake drafts or sends something; it is no reply to the session's email.
SendElsewhere(s) ==
    /\ InTurn(s) /\ turn[s] > 1
    /\ turnSends' = turnSends \cup {s}
    /\ UNCHANGED << turn, phase, act, tried, quiet, registerVars, workerVars,
                    historyVars >>

\* The space gate answers the email itself, through the broker.
BrokerAnswers(s) ==
    /\ InTurn(s) /\ turn[s] = 1
    /\ answered' = answered \cup {s}
    /\ UNCHANGED << agentVars, committed, noted, claimed, textSeen, textDelivered,
                    workerVars, historyVars >>

\* _turn_snapshot, with the session it is of and the final text's silence.
Snapshot(s, kind, silent) ==
    [kind |-> kind, s |-> s, silent |-> silent, email |-> BoundThisTurn(s),
     attempted |-> s \in turnSends, pending |-> act[s] # "none"]

\* post_llm_call: the turn's final text is handed off.
PostLlmCall(s) ==
    /\ InTurn(s)
    /\ phase' = [phase EXCEPT ![s] = "posted"]
    /\ \E silent \in BOOLEAN :
         /\ silent => turn[s] = 1
         /\ quiet' = IF silent THEN quiet \cup {s} ELSE quiet
         /\ queue' = Append(queue, Snapshot(s, "text", silent))
    /\ UNCHANGED << turn, act, turnSends, tried, registerVars, wpc, outcome,
                    historyVars >>

\* The hook fires a second time for the turn of the email.
PostLlmCallRepeated(s) ==
    /\ phase[s] = "posted" /\ HookFaults
    /\ turn[s] = 1 /\ s \notin quiet
    /\ phase' = [phase EXCEPT ![s] = "posted_twice"]
    /\ queue' = Append(queue, Snapshot(s, "text", FALSE))
    /\ UNCHANGED << turn, act, turnSends, tried, quiet, registerVars, wpc, outcome,
                    historyVars >>

\* Hermes skips the hook, or the turn is interrupted and it never fires.
PostLlmCallSkipped(s) ==
    /\ InTurn(s) /\ HookFaults
    /\ phase' = [phase EXCEPT ![s] = "posted"]
    /\ UNCHANGED << turn, act, turnSends, tried, quiet, registerVars, workerVars,
                    historyVars >>

\* Mutant of OnTurnEnd: the hand-off is skipped while the worker is busy.
OnTurnEndSkippedBusy(s) ==
    /\ phase[s] \in {"posted", "posted_twice"}
    /\ phase' = [phase EXCEPT ![s] = "idle"]
    /\ queue' = IF wpc = "idle" THEN Append(queue, Snapshot(s, "settle", FALSE)) ELSE queue
    /\ UNCHANGED << turn, act, turnSends, tried, quiet, registerVars, wpc, outcome,
                    historyVars >>

\* on_session_end: the turn's end is handed off.
OnTurnEnd(s) ==
    /\ phase[s] \in {"posted", "posted_twice"}
    /\ phase' = [phase EXCEPT ![s] = "idle"]
    /\ queue' = Append(queue, Snapshot(s, "settle", FALSE))
    /\ UNCHANGED << turn, act, turnSends, tried, quiet, registerVars, wpc, outcome,
                    historyVars >>

-------------------------------------------------------------------------------
(***************************************************************************)
(* The worker's thread, one task at a time, in the order they came.        *)
(***************************************************************************)
task == Head(queue)

\* owed_line on the snapshot's record, as that record is now.
Owed == task.pending /\ act[task.s] = "open"

\* What answers an email without its text: the attempt the snapshot saw, the
\* relay's register, the broker's.
AnsweredOtherwise ==
    task.attempted \/ task.s \in committed \/ task.s \in answered

At(from) == wpc = from
Done == /\ queue' = Tail(queue)
        /\ wpc' = "idle"
        /\ settled' = IF task.kind = "settle" /\ task.email
                      THEN settled \cup {task.s} ELSE settled

\* After the act: a text task whose act was owed is over, a settling one goes on.
ActHandled == IF task.kind = "text" THEN Done
              ELSE wpc' = "check" /\ UNCHANGED << queue, settled >>
Page == paged' = paged \cup {task.s}

Begin ==
    /\ At("idle") /\ queue # << >>
    /\ textSeen' = IF task.kind = "text" /\ task.email
                   THEN textSeen \cup {task.s} ELSE textSeen
    /\ wpc' = "act"
    /\ UNCHANGED << agentVars, committed, answered, noted, claimed, textDelivered,
                    queue, outcome, historyVars >>

\* No act is owed: a text task goes on to the text, a settling one to the check.
ActNone ==
    /\ At("act") /\ ~Owed
    /\ wpc' = IF task.kind = "text" THEN "text" ELSE "check"
    /\ UNCHANGED << agentVars, registerVars, queue, outcome, historyVars >>

\* A transmitted reply carried the line, or the seat delivers it already.
ActCarried ==
    /\ At("act") /\ Owed
    /\ task.s \in noted \cup claimed
    /\ ActHandled
    /\ UNCHANGED << agentVars, registerVars, outcome, lines, texts, paged, unread >>

\* No email opened the turn: nobody to thread the line to.
ActNobody ==
    /\ At("act") /\ Owed
    /\ task.s \notin noted \cup claimed
    /\ ~task.email
    /\ Page /\ ActHandled
    /\ UNCHANGED << agentVars, registerVars, outcome, lines, texts, unread >>

\* The line is claimed and handed to the broker.
ActSend ==
    /\ At("act") /\ Owed
    /\ task.s \notin noted \cup claimed
    /\ task.email
    /\ claimed' = claimed \cup {task.s}
    /\ \E o \in Outcomes :
         /\ outcome' = o
         /\ lines' = [lines EXCEPT ![task.s] = @ + (IF Carried(o) THEN 1 ELSE 0)]
         /\ answered' = IF o = "refused" THEN answered ELSE answered \cup {task.s}
    /\ wpc' = "acted"
    /\ UNCHANGED << agentVars, committed, noted, textSeen, textDelivered, queue,
                    texts, paged, settled, unread >>

\* Mutant of ActAnswered: any failure gives the claim back.
ActAnsweredReleasesUnknown ==
    /\ At("acted")
    /\ IF outcome = "acked" THEN UNCHANGED << claimed, paged >>
       ELSE claimed' = claimed \ {task.s} /\ Page
    /\ ActHandled
    /\ outcome' = "none"
    /\ UNCHANGED << agentVars, committed, answered, noted, textSeen, textDelivered,
                    lines, texts, unread >>

\* A line that certainly did not go gives the claim back; a lost answer keeps
\* it; every failure is told.  The text is not considered.
ActAnswered ==
    /\ At("acted")
    /\ claimed' = IF outcome = "refused" THEN claimed \ {task.s} ELSE claimed
    /\ IF outcome = "acked" THEN UNCHANGED paged ELSE Page
    /\ ActHandled
    /\ outcome' = "none"
    /\ UNCHANGED << agentVars, committed, answered, noted, textSeen, textDelivered,
                    lines, texts, unread >>

\* Nothing to send: no email opened the turn, the text is silent, or the email
\* is answered without it.
TextNotOwed ==
    /\ At("text")
    /\ ~task.email \/ task.silent \/ AnsweredOtherwise
    /\ Done
    /\ UNCHANGED << agentVars, registerVars, outcome, lines, texts, paged, unread >>

TextOwed == At("text") /\ task.email /\ ~task.silent /\ ~AnsweredOtherwise

\* customer.yaml cannot be read: nothing is sent.
TextConfigFault ==
    /\ TextOwed /\ ConfigFaults
    /\ unread' = unread \cup {task.s}
    /\ Done
    /\ UNCHANGED << agentVars, registerVars, outcome, lines, texts, paged >>

\* The text of this email was put on the relay before.
TextAlreadyDelivered ==
    /\ TextOwed /\ task.s \in textDelivered
    /\ Done
    /\ UNCHANGED << agentVars, registerVars, outcome, lines, texts, paged, unread >>

\* Claimed, and the trust gate refuses the text.
TextRefused ==
    /\ TextOwed /\ task.s \notin textDelivered
    /\ textDelivered' = textDelivered \cup {task.s}
    /\ Page /\ Done
    /\ UNCHANGED << agentVars, committed, answered, noted, claimed, textSeen, outcome,
                    lines, texts, unread >>

\* Claimed, and put on the relay.
TextClaimed ==
    /\ TextOwed /\ task.s \notin textDelivered
    /\ textDelivered' = textDelivered \cup {task.s}
    /\ wpc' = "relay"
    /\ UNCHANGED << agentVars, committed, answered, noted, claimed, textSeen, queue,
                    outcome, historyVars >>

\* The relay reads the session's origin again: no email opened the turn the
\* session is in by now, or a gate holds the text.
RelayHolds ==
    /\ At("relay")
    /\ Page /\ Done
    /\ UNCHANGED << agentVars, registerVars, outcome, lines, texts, unread >>

\* Rate-held and durably queued.
RelayQueues ==
    /\ At("relay") /\ BoundThisTurn(task.s)
    /\ committed' = committed \cup {task.s}
    /\ Done
    /\ UNCHANGED << agentVars, answered, noted, claimed, textSeen, textDelivered,
                    outcome, lines, texts, paged, unread >>

RelaySends ==
    /\ At("relay") /\ BoundThisTurn(task.s)
    /\ \E o \in Outcomes :
         /\ outcome' = o
         /\ texts' = [texts EXCEPT ![task.s] = @ + (IF Carried(o) THEN 1 ELSE 0)]
         /\ answered' = IF o = "refused" THEN answered ELSE answered \cup {task.s}
    /\ wpc' = "relayed"
    /\ UNCHANGED << agentVars, committed, noted, claimed, textSeen, textDelivered,
                    queue, lines, paged, settled, unread >>

RelayAnswered ==
    /\ At("relayed")
    /\ committed' = IF outcome = "refused" THEN committed ELSE committed \cup {task.s}
    /\ IF outcome = "acked" THEN UNCHANGED paged ELSE Page
    /\ Done
    /\ outcome' = "none"
    /\ UNCHANGED << agentVars, answered, noted, claimed, textSeen, textDelivered,
                    lines, texts, unread >>

\* _end_of_turn_settle with an act still owed, or an email that is no lost reply.
CheckFine ==
    /\ At("check")
    /\ Owed \/ ~task.email \/ task.s \in textSeen \/ AnsweredOtherwise
    /\ Done
    /\ UNCHANGED << agentVars, registerVars, outcome, lines, texts, paged, unread >>

CheckLost == /\ At("check") /\ ~Owed
             /\ task.email /\ task.s \notin textSeen /\ ~AnsweredOtherwise

\* Mutant of LostIsLoud: the lost reply is not told.
LostIsQuiet ==
    /\ CheckLost
    /\ Done
    /\ UNCHANGED << agentVars, registerVars, outcome, lines, texts, paged, unread >>

\* _text_reply_lost: logged and paged.
LostIsLoud ==
    /\ CheckLost
    /\ Page /\ Done
    /\ UNCHANGED << agentVars, registerVars, outcome, lines, texts, unread >>

\* customer.yaml cannot be read: the lost reply is not told.
LostConfigFault ==
    /\ CheckLost /\ ConfigFaults
    /\ unread' = unread \cup {task.s}
    /\ Done
    /\ UNCHANGED << agentVars, registerVars, outcome, lines, texts, paged >>

-------------------------------------------------------------------------------
Agent(s) ==
    \/ StartTurn(s) \/ Propose(s) \/ Confirm(s) \/ Draft(s) \/ SendElsewhere(s)
    \/ BrokerAnswers(s) \/ PostLlmCall(s) \/ PostLlmCallRepeated(s)
    \/ PostLlmCallSkipped(s) \/ OnTurnEnd(s)

Worker ==
    \/ Begin \/ ActNone \/ ActCarried \/ ActNobody \/ ActSend \/ ActAnswered
    \/ TextNotOwed \/ TextConfigFault \/ TextAlreadyDelivered \/ TextRefused
    \/ TextClaimed \/ RelayHolds \/ RelayQueues \/ RelaySends \/ RelayAnswered
    \/ CheckFine \/ LostIsLoud \/ LostConfigFault

Next == (\E s \in Sessions : Agent(s)) \/ Worker

Spec == Init /\ [][Next]_vars

\* The worker's thread drains its queue.
FairSpec == Spec /\ WF_vars(Worker)

-------------------------------------------------------------------------------
(***************************************************************************)
(* Properties.                                                             *)
(***************************************************************************)
Task == [kind : {"text", "settle"}, s : Sessions, silent : BOOLEAN, email : BOOLEAN,
         attempted : BOOLEAN, pending : BOOLEAN]

\* Every variable has its type, and a busy worker has its task at the head of
\* the queue (hook_worker._drain).
TypeOK ==
    /\ turn \in [Sessions -> 0 .. MaxTurns]
    /\ phase \in [Sessions -> {"idle", "agent", "posted", "posted_twice"}]
    /\ act \in [Sessions -> {"none", "open", "confirmed"}]
    /\ \A S \in {turnSends, committed, answered, noted, claimed, textSeen,
                  textDelivered, tried, quiet, paged, settled, unread} : S \subseteq Sessions
    /\ queue \in Seq(Task)
    /\ wpc \in {"idle", "act", "acted", "text", "relay", "relayed", "check"}
    /\ wpc # "idle" => queue # << >>
    /\ outcome \in Outcomes \cup {"none"}
    /\ lines \in [Sessions -> Nat]
    /\ texts \in [Sessions -> Nat]

\* The seat has an act line carried at most once (act_delivery.claim: "two
\* end-of-turn hooks never send it twice"), though both hooks of a turn and the
\* hooks of later turns try, and a lost answer leaves the first in doubt.
SeatLineOnce == \A s \in Sessions : lines[s] <= 1

\* The final text answers an email that nothing else answers: it is carried at
\* most once, and never beside the seat's act line or after any attempt of the
\* email's own turn, though a later turn of the session resets what the turn
\* tried while the worker has not run yet (text_delivery, "would answer one
\* email twice"; TurnSends.reset).
TextAloneAnswers ==
    \A s \in Sessions :
        texts[s] > 0 => texts[s] = 1 /\ lines[s] = 0 /\ s \notin tried

\* Why: a task of an email names a turn that is over, so what it says of the
\* turn stays true while later turns run; whatever is carried leaves its mark in
\* the registers the next task looks at.
Over(s) == turn[s] > 1 \/ (turn[s] = 1 /\ phase[s] # "agent")
TurnsInv ==
    \A s \in Sessions :
        /\ turn[s] = 0 => s \notin tried /\ act[s] = "none"
        /\ turn[s] = 1 => (s \in turnSends <=> s \in tried)
TaskTrue(t) ==
    t.email => /\ Over(t.s)
               /\ t.attempted <=> t.s \in tried
               /\ t.pending <=> act[t.s] # "none"
TasksInv == \A i \in DOMAIN queue : TaskTrue(queue[i])
CarriedInv ==
    \A s \in Sessions :
        /\ lines[s] <= 1
        /\ lines[s] > 0 => s \in claimed /\ s \in answered
        /\ texts[s] > 0 => /\ texts[s] = 1 /\ lines[s] = 0 /\ s \notin tried
                           /\ Over(s) /\ act[s] # "open" /\ s \in textDelivered
WorkerInv ==
    /\ wpc = "acted" => /\ task.email /\ task.s \in claimed
                        /\ outcome \in Outcomes
                        /\ outcome = "refused" => lines[task.s] = 0
    /\ wpc \in {"text", "relay", "relayed"} =>
          /\ task.kind = "text"
          /\ task.email => act[task.s] # "open"
    /\ wpc \in {"relay", "relayed"} =>
          task.email /\ ~task.attempted /\ task.s \in textDelivered
    /\ wpc = "relay" => texts[task.s] = 0 /\ task.s \notin answered

\* The inductive invariant of the end of a turn: snapshots stay true, and the
\* registers remember every line and text that may have been carried
\* (_turn_snapshot, TransmittedBodies.claim, answered_messages.note).
EndOfTurnInv == TypeOK /\ TurnsInv /\ TasksInv /\ CarriedInv /\ WorkerInv

\* Once the last task of an email's turn has run, the email is answered, or was
\* tried (the model was told of the hold), or is silent by authored choice, or
\* somebody was paged (on_turn_end, "a lost text reply made loud"); only an
\* unreadable customer.yaml loses it in silence.
Accounted(s) == s \in committed \cup answered \cup tried \cup quiet \cup paged
LoudOrAnswered == \A s \in settled \ unread : Accounted(s)

\* Why: the first task of an email that sees its text, the first that puts the
\* text on the relay and the first that claims its line account for the email or
\* have it in hand, so that a later task may leave it alone; a silent snapshot
\* and a noted line speak for the email already.
Told(s) == Accounted(s) \/ s \in unread
InHand(s, steps) == wpc \in steps /\ task.s = s
TextInHand(s) == InHand(s, {"act", "acted", "text", "relay", "relayed"})
                 /\ task.kind = "text" /\ task.email
LoudInv ==
    /\ LoudOrAnswered
    /\ \A s \in noted : s \in committed
    /\ \A s \in claimed : s \in answered \/ InHand(s, {"acted"})
    /\ wpc = "acted" /\ outcome # "refused" => task.s \in answered
    /\ wpc = "check" => /\ task.kind = "settle"
                        /\ task.email /\ Owed => Accounted(task.s)
    /\ \A s \in textSeen : Told(s) \/ TextInHand(s)
    /\ \A s \in textDelivered : Told(s) \/ InHand(s, {"relay", "relayed"})
    /\ \A i \in DOMAIN queue : queue[i].silent => queue[i].s \in quiet

\* Every turn an email opened is settled (HookWorker: one bad call never stops
\* the worker), whatever later turns hand off meanwhile.
TurnsSettle ==
    \A s \in Sessions : (turn[s] = 1 /\ phase[s] = "idle") ~> s \in settled

===============================================================================
