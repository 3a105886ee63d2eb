------------------------------ MODULE ActRegister ------------------------------
(***************************************************************************)
(* A commitment act (shared/pending_acts.py, shared/act_broker.py, the     *)
(* trust gate and the establishment plugin).  A call that commits the firm *)
(* is withheld, the broker mints a row for it, and the sentence the row    *)
(* renders is read back to an administrator.  Their tagged "yes", in this  *)
(* conversation or another, attaches the row's payload to a record of the  *)
(* session; the next call of that tool runs with that payload, and the row *)
(* is committed after it.                                                  *)
(*                                                                         *)
(* A session makes one call at a time; sessions run beside each other.     *)
(* The register is in memory, with a life of ten minutes a record; the     *)
(* rows are the broker's and open for a day.                               *)
(***************************************************************************)
EXTENDS Naturals

CONSTANTS Sessions,
          Payloads, Tool,    \* what the calls carry, and the tool of each
          MaxActs,           \* bound: rows the broker mints
          MaxAnswers         \* bound: confirming answers

ASSUME ActAssumption == MaxActs \in Nat /\ MaxAnswers \in Nat

VARIABLES
    rows,     \* the broker's rows
    register, \* PENDING_ACTS
    call,     \* what each session is doing
    known,    \* what the administrators have of a row: nothing, its tag, its sentence
    answers,  \* confirming answers so far
    done,     \* history: what the vendor carried out, by row and answer
    loose,    \* history: rows whose closing was lost, or answered twice at once
    unseen    \* history: rows of a call that was not carried out and did not say so

vars == << rows, register, call, known, answers, done, loose, unseen >>

Acts == 1..MaxActs
Answers == 1..MaxAnswers

Unborn == [state |-> "unborn"]
Rows == {Unborn} \cup [state : {"open", "committed", "swept"}, payload : Payloads]

\* A PendingAct, and with an answer the ConfirmedAct in it.
NoRecord == [stage |-> "none"]
Records == {NoRecord}
    \cup [stage : {"proposed"}, act : Acts, payload : Payloads, delivered : BOOLEAN]
    \cup [stage : {"confirmed", "inflight"}, act : Acts, payload : Payloads, answer : Answers]

Resting == [pc |-> "idle"]

Init == /\ rows = [i \in Acts |-> Unborn]
        /\ register = [s \in Sessions |-> NoRecord]
        /\ call = [s \in Sessions |-> Resting]
        /\ known = [i \in Acts |-> "nothing"]
        /\ answers = 0
        /\ done = {}
        /\ loose = {}
        /\ unseen = {}

At(s, pc) == call[s].pc = pc
Do(s, c) == call' = [call EXCEPT ![s] = c]
Hold(s, rec) == register' = [register EXCEPT ![s] = rec]
Close(i, state) == rows' = [rows EXCEPT ![i] = [@ EXCEPT !.state = state]]

------------------------------------------------------------------------------
(***************************************************************************)
(* Asking.                                                                 *)
(***************************************************************************)
\* _propose_commitment_act: an administrator's turn, nothing else outstanding.
Withhold(s) ==
    /\ At(s, "idle") /\ register[s] = NoRecord
    /\ \E p \in Payloads : Do(s, [pc |-> "propose", payload |-> p])
    /\ UNCHANGED << rows, register, known, answers, done, loose, unseen >>

\* The broker mints the next row, and its answer may be lost.
Propose(s) ==
    /\ At(s, "propose")
    /\ \E i \in Acts :
          /\ rows[i] = Unborn /\ \A j \in Acts : j < i => rows[j] # Unborn
          /\ rows' = [rows EXCEPT ![i] = [state |-> "open", payload |-> call[s].payload]]
          /\ \/ Do(s, [pc |-> "note", act |-> i, payload |-> call[s].payload])
             \/ Do(s, Resting)
    /\ UNCHANGED << register, known, answers, done, loose, unseen >>

\* The broker refuses or cannot be reached: the call stays withheld.
ProposeRefused(s) ==
    /\ At(s, "propose")
    /\ Do(s, Resting)
    /\ UNCHANGED << rows, register, known, answers, done, loose, unseen >>

\* note_proposed never supersedes.
Note(s) ==
    /\ At(s, "note")
    /\ Hold(s, IF register[s] = NoRecord
               THEN [stage |-> "proposed", act |-> call[s].act,
                     payload |-> call[s].payload, delivered |-> FALSE]
               ELSE register[s])
    /\ Do(s, Resting)
    /\ UNCHANGED << rows, known, answers, done, loose, unseen >>

\* A reply goes out with the sentence the session owes (proposed, mark_delivered).
Reply(s) ==
    /\ At(s, "idle") /\ register[s].stage = "proposed" /\ ~register[s].delivered
    /\ Hold(s, [register[s] EXCEPT !.delivered = TRUE])
    /\ known' = [known EXCEPT ![register[s].act] = "sentence"]
    /\ UNCHANGED << rows, call, answers, done, loose, unseen >>

------------------------------------------------------------------------------
(***************************************************************************)
(* Answering.                                                              *)
(***************************************************************************)
\* The session has an answer to the act that is not through yet.
Acting(s, i) ==
    \/ register[s].stage \in {"confirmed", "inflight"} /\ register[s].act = i
    \/ call[s].pc \in {"mark", "allowed", "running", "ran", "commit"} /\ call[s].act = i

\* A yes that names nothing is answered with the tags of every open row, to be
\* quoted with the word yes (resolve, _ASK_NOTES).
AskWhich ==
    /\ \E i \in Acts : rows[i].state = "open"
    /\ known' = [i \in Acts |-> IF rows[i].state = "open" /\ known[i] = "nothing"
                                THEN "tag" ELSE known[i]]
    /\ UNCHANGED << rows, register, call, answers, done, loose, unseen >>

\* An administrator's message says yes under the tag of an act, and the broker
\* lists the act as open (_fetch_pending, resolve, _act_row).
Answer(s) ==
    /\ At(s, "idle") /\ answers < MaxAnswers
    /\ \E i \in Acts :
          /\ known[i] # "nothing" /\ rows[i].state = "open"
          /\ answers' = answers + 1
          /\ Do(s, [pc |-> "mark", act |-> i, payload |-> rows[i].payload, answer |-> answers + 1])
          /\ loose' = IF \E u \in Sessions : Acting(u, i) THEN loose \cup {i} ELSE loose
    /\ UNCHANGED << rows, register, known, done, unseen >>

\* mark_confirmed: the record of this act while it waits, or one adopted where
\* the session has none.
Adopts(s, i) ==
    \/ register[s] = NoRecord
    \/ register[s].stage = "proposed" /\ register[s].act = i

MarkConfirmed(s) ==
    LET c == call[s]
    IN  /\ At(s, "mark")
        /\ Hold(s, IF Adopts(s, c.act)
                   THEN [stage |-> "confirmed", act |-> c.act,
                         payload |-> c.payload, answer |-> c.answer]
                   ELSE register[s])
        /\ Do(s, Resting)
        /\ UNCHANGED << rows, known, answers, done, loose, unseen >>

------------------------------------------------------------------------------
(***************************************************************************)
(* Carrying out.                                                           *)
(***************************************************************************)
\* peek_confirmed.
Approves(s, p) == register[s].stage = "confirmed" /\ Tool[register[s].payload] = Tool[p]

Carrying(s, pc, p) ==
    [pc |-> pc, act |-> register[s].act, payload |-> p, answer |-> register[s].answer]

\* Mutant of Replay: the call keeps the arguments it came with.
ReplayKeepsArgs(s) ==
    /\ At(s, "idle")
    /\ \E p \in Payloads : Approves(s, p) /\ Do(s, Carrying(s, "allowed", p))
    /\ UNCHANGED << rows, register, known, answers, done, loose, unseen >>

\* The stored payload replaces the arguments of the call.
Replay(s) ==
    /\ At(s, "idle")
    /\ \E p \in Payloads : Approves(s, p)
    /\ Do(s, Carrying(s, "allowed", register[s].payload))
    /\ UNCHANGED << rows, register, known, answers, done, loose, unseen >>

\* A gate after the replay refuses the call, and the approval stays.
Refused(s) ==
    /\ At(s, "allowed")
    /\ Do(s, Resting)
    /\ UNCHANGED << rows, register, known, answers, done, loose, unseen >>

\* Mutant of Take: the approval is not spent until the outcome is known.
TakeNotSpent(s) ==
    /\ At(s, "allowed")
    /\ Do(s, [call[s] EXCEPT !.pc = "running"])
    /\ UNCHANGED << rows, register, known, answers, done, loose, unseen >>

\* Mutant of Take: the record is taken as it is found.
TakeUnchecked(s) ==
    /\ At(s, "allowed")
    /\ Hold(s, [register[s] EXCEPT !.stage = "inflight"])
    /\ Do(s, [call[s] EXCEPT !.pc = "running"])
    /\ UNCHANGED << rows, known, answers, done, loose, unseen >>

\* take_in_flight, if the record is still there; the call goes on in any case.
Take(s) ==
    /\ At(s, "allowed")
    /\ Hold(s, IF Approves(s, call[s].payload) THEN [register[s] EXCEPT !.stage = "inflight"]
                                               ELSE register[s])
    /\ Do(s, [call[s] EXCEPT !.pc = "running"])
    /\ UNCHANGED << rows, known, answers, done, loose, unseen >>

\* The rest of the hook raises, which blocks the call.
Blocked(s) ==
    /\ At(s, "running")
    /\ Do(s, Resting)
    /\ UNCHANGED << rows, register, known, answers, done, loose, unseen >>

\* The vendor carries it out or not, and the call may be reported as failed
\* either way: tool_call_failed knows a list of statuses and error types, and
\* takes whatever is not on it for a success.
Run(s) ==
    /\ At(s, "running")
    /\ LET c == call[s]
       IN  \E carried, failed \in BOOLEAN :
              /\ done' = IF carried THEN done \cup {[act |-> c.act, answer |-> c.answer]} ELSE done
              /\ loose' = IF carried /\ failed THEN loose \cup {c.act} ELSE loose
              /\ unseen' = IF carried \/ failed THEN unseen ELSE unseen \cup {c.act}
              /\ Do(s, [pc |-> "ran", act |-> c.act, payload |-> c.payload, failed |-> failed])
    /\ UNCHANGED << rows, register, known, answers >>

\* finish: the record in flight, if it has not expired.
Finished(s) == register[s].stage = "inflight" /\ Tool[register[s].payload] = Tool[call[s].payload]

\* Mutant of Finish: the outcome is not looked at.
FinishAlways(s) ==
    /\ At(s, "ran")
    /\ IF Finished(s)
       THEN /\ Hold(s, NoRecord)
            /\ Do(s, [pc |-> "commit", act |-> register[s].act])
            /\ UNCHANGED loose
       ELSE /\ Do(s, Resting)
            /\ loose' = loose \cup {call[s].act}
            /\ UNCHANGED register
    /\ UNCHANGED << rows, known, answers, done, unseen >>

\* _commit_confirmed_act: the record is dropped whatever the outcome.
Finish(s) ==
    /\ At(s, "ran")
    /\ IF Finished(s)
       THEN /\ Hold(s, NoRecord)
            /\ Do(s, IF call[s].failed THEN Resting ELSE [pc |-> "commit", act |-> register[s].act])
            /\ UNCHANGED loose
       ELSE /\ Do(s, Resting)
            /\ loose' = loose \cup {call[s].act}
            /\ UNCHANGED register
    /\ UNCHANGED << rows, known, answers, done, unseen >>

\* Mutant of Commit: the row is not told.
CommitSkipped(s) ==
    /\ At(s, "commit")
    /\ Do(s, Resting)
    /\ UNCHANGED << rows, register, known, answers, done, loose, unseen >>

\* act_commit closes an open row, or the request does not reach the broker.
Commit(s) ==
    /\ At(s, "commit")
    /\ \/ /\ IF rows[call[s].act].state = "open" THEN Close(call[s].act, "committed") ELSE UNCHANGED rows
          /\ UNCHANGED loose
       \/ loose' = loose \cup {call[s].act} /\ UNCHANGED rows
    /\ Do(s, Resting)
    /\ UNCHANGED << register, known, answers, done, unseen >>

------------------------------------------------------------------------------
(***************************************************************************)
(* Time and restarts.                                                      *)
(***************************************************************************)
\* Ten minutes, or the bound on sessions.
Expire(s) ==
    /\ register[s] # NoRecord
    /\ Hold(s, NoRecord)
    /\ UNCHANGED << rows, call, known, answers, done, loose, unseen >>

\* A day.
Sweep == /\ \E i \in Acts : rows[i].state = "open" /\ Close(i, "swept")
         /\ UNCHANGED << register, call, known, answers, done, loose, unseen >>

Restart ==
    /\ register' = [s \in Sessions |-> NoRecord]
    /\ call' = [s \in Sessions |-> Resting]
    /\ loose' = loose \cup {call[s].act : s \in {u \in Sessions : call[u].pc \in {"ran", "commit"}}}
    /\ UNCHANGED << rows, known, answers, done, unseen >>

Next == \/ \E s \in Sessions :
              \/ Withhold(s) \/ Propose(s) \/ ProposeRefused(s) \/ Note(s) \/ Reply(s)
              \/ Answer(s) \/ MarkConfirmed(s)
              \/ Replay(s) \/ Refused(s) \/ Take(s) \/ Blocked(s) \/ Run(s) \/ Finish(s) \/ Commit(s)
              \/ Expire(s)
        \/ AskWhich \/ Sweep \/ Restart

Spec == Init /\ [][Next]_vars

------------------------------------------------------------------------------
(***************************************************************************)
(* Properties.                                                             *)
(***************************************************************************)
Calls == {Resting}
    \cup [pc : {"propose"}, payload : Payloads]
    \cup [pc : {"note"}, act : Acts, payload : Payloads]
    \cup [pc : {"mark", "allowed", "running"}, act : Acts, payload : Payloads, answer : Answers]
    \cup [pc : {"ran"}, act : Acts, payload : Payloads, failed : BOOLEAN]
    \cup [pc : {"commit"}, act : Acts]

\* Every variable holds a value of its kind.
TypeOK == /\ rows \in [Acts -> Rows]
          /\ register \in [Sessions -> Records]
          /\ call \in [Sessions -> Calls]
          /\ known \in [Acts -> {"nothing", "tag", "sentence"}]
          /\ answers \in 0..MaxAnswers
          /\ done \subseteq [act : Acts, answer : Answers]
          /\ loose \subseteq Acts /\ unseen \subseteq Acts

\* The call that runs is the one that was answered: its payload is that of the
\* row, whichever session proposed it and whatever the model composed since
\* (mark_confirmed, peek_confirmed).
RunsWhatWasAnswered ==
    \A s \in Sessions : At(s, "running") =>
        /\ known[call[s].act] # "nothing"
        /\ rows[call[s].act].payload = call[s].payload

\* The call that runs is one whose sentence an administrator was sent:
\* "what executes is the act the administrator read" (pending_acts.py:18).
ReadBeforeItRuns ==
    \A s \in Sessions : At(s, "running") => known[call[s].act] = "sentence"

\* One yes carries out one act once: an answer that has been acted on is behind
\* no record and no call, over expiries, restarts and failed calls
\* (take_in_flight, finish).
OneYesOneAct ==
    \A d \in done, s \in Sessions :
        /\ register[s].stage = "confirmed" => register[s].answer # d.answer
        /\ call[s].pc \in {"mark", "allowed", "running"} => call[s].answer # d.answer

\* A row says committed only of an act the vendor carried out, or of one whose
\* call was not carried out and did not say so in a form tool_call_failed lists:
\* no failure that was reported is committed, though records expire, sessions
\* close each other's rows and an answer is given again (_commit_confirmed_act).
CommittedIsDone ==
    \A i \in Acts :
        rows[i].state = "committed" => i \in unseen \/ \E d \in done : d.act = i

\* An act is carried out again only where closing its row failed, or where a
\* second answer was given while the first was still being acted on.
AgainNeedsACause ==
    \A d, e \in done : d.act = e.act /\ d # e => d.act \in loose
================================================================================
