--------------------------- MODULE ActRegisterProofs ---------------------------
(***************************************************************************)
(* What each session holds agrees with the rows and with what was carried  *)
(* out (Sound), two sessions never hold one answer, nor one act that is    *)
(* not loose (Apart), and an act carried out has a closed row, is loose or *)
(* is about to be closed (Closing).                                        *)
(***************************************************************************)
EXTENDS ActRegister, TLAPS

Live == {"confirmed", "inflight"}
Answered == {"mark", "allowed", "running"}

ProposedRecords == [stage : {"proposed"}, act : Acts, payload : Payloads, delivered : BOOLEAN]
LiveRecords == [stage : Live, act : Acts, payload : Payloads, answer : Answers]
AnsweredCalls == [pc : Answered, act : Acts, payload : Payloads, answer : Answers]

\* What a record or a call says of its row.
Backs(c) == rows[c.act].state # "unborn" /\ rows[c.act].payload = c.payload
Told(c) == known[c.act] # "nothing"

DoneAct(i) == \E d \in done : d.act = i
Untouched(i) == i \in loose \/ ~DoneAct(i)
Accounted(i) == i \in unseen \/ DoneAct(i)
Unspent(a) == a <= answers /\ \A d \in done : d.answer # a
Reports(c) == c.pc = "commit" \/ (c.pc = "ran" /\ ~c.failed)

\* A session's record, against the rows and what was carried out.
SoundRecord(r) ==
    /\ r.stage # "none" => Backs(r)
    /\ r.stage \in Live => Told(r) /\ r.answer <= answers
    /\ r.stage = "confirmed" => Unspent(r.answer) /\ Untouched(r.act)

\* Its call, likewise.
SoundCall(c) ==
    /\ c.pc = "note" => Backs(c)
    /\ c.pc \in Answered => Backs(c) /\ Told(c) /\ Unspent(c.answer) /\ Untouched(c.act)
    /\ Reports(c) => Accounted(c.act)

\* A call under way and the record it came from, unless that expired.
InStep(r, c) ==
    /\ c.pc = "mark" /\ r.stage \in Live => r.answer # c.answer
    /\ c.pc = "allowed" /\ r.stage # "none" =>
          /\ r.stage = "confirmed" /\ r.act = c.act
          /\ r.payload = c.payload /\ r.answer = c.answer
    /\ c.pc \in {"running", "ran"} /\ r.stage # "none" =>
          r.stage = "inflight" /\ r.act = c.act /\ r.payload = c.payload

Sound(s) == SoundRecord(register[s]) /\ SoundCall(call[s]) /\ InStep(register[s], call[s])

HasAnswer(s, a) ==
    \/ register[s].stage \in Live /\ register[s].answer = a
    \/ call[s].pc \in Answered /\ call[s].answer = a

Apart(s, t) ==
    /\ \A a \in Answers : ~(HasAnswer(s, a) /\ HasAnswer(t, a))
    /\ \A i \in Acts : i \notin loose => ~(Acting(s, i) /\ Acting(t, i))

Closing ==
    \A i \in Acts : DoneAct(i) /\ i \notin loose /\ rows[i].state = "open" =>
        \E s \in Sessions : Reports(call[s]) /\ call[s].act = i

\* What was carried out was answered, under a row.
Counted == \A d \in done : d.answer <= answers /\ rows[d.act].state # "unborn"

ActInv == /\ TypeOK
          /\ \A s \in Sessions : Sound(s)
          /\ \A s, t \in Sessions : s # t => Apart(s, t)
          /\ CommittedIsDone /\ AgainNeedsACause /\ Closing /\ Counted

------------------------------------------------------------------------------
LEMMA RecordKinds ==
  ASSUME NEW r \in Records
  PROVE  /\ r.stage = "none" => r = NoRecord
         /\ r.stage = "proposed" => r \in ProposedRecords
         /\ r.stage \in Live => r \in LiveRecords
         /\ r.stage \in {"none", "proposed", "confirmed", "inflight"}
  BY DEF Records, NoRecord, Live, ProposedRecords, LiveRecords

LEMMA CallKinds ==
  ASSUME NEW c \in Calls
  PROVE  /\ c.pc = "propose" => c.payload \in Payloads
         /\ c.pc = "note" => c.act \in Acts /\ c.payload \in Payloads
         /\ c.pc \in Answered => c \in AnsweredCalls
         /\ c.pc = "ran" => c.act \in Acts /\ c.payload \in Payloads /\ c.failed \in BOOLEAN
         /\ c.pc = "commit" => c.act \in Acts
  BY DEF Calls, Resting, Answered, AnsweredCalls

LEMMA MoreRecords ==
  /\ NoRecord \in Records /\ NoRecord.stage = "none"
  /\ ProposedRecords \subseteq Records /\ LiveRecords \subseteq Records
  BY DEF Records, NoRecord, Live, ProposedRecords, LiveRecords

LEMMA MoreCalls ==
  /\ Resting \in Calls /\ Resting.pc = "idle"
  /\ AnsweredCalls \subseteq Calls
  BY DEF Calls, Resting, Answered, AnsweredCalls

LEMMA RowKinds ==
  ASSUME NEW r \in Rows
  PROVE  /\ r.state = "unborn" <=> r = Unborn
         /\ r.state # "unborn" =>
               r \in [state : {"open", "committed", "swept"}, payload : Payloads]
  BY DEF Rows, Unborn

\* Rows, tags, answers and losses only accumulate.
Grown ==
  /\ \A i \in Acts : rows[i].state # "unborn" =>
        rows'[i].state # "unborn" /\ rows'[i].payload = rows[i].payload
  /\ \A i \in Acts : known[i] # "nothing" => known'[i] # "nothing"
  /\ answers <= answers'
  /\ loose \subseteq loose'
  /\ unseen \subseteq unseen'

LEMMA SessionType ==
  ASSUME TypeOK, NEW s \in Sessions
  PROVE  /\ register[s] \in Records /\ call[s] \in Calls
         /\ register \in [Sessions -> Records] /\ call \in [Sessions -> Calls]
  BY DEF TypeOK

\* A record nobody touched, while nothing was carried out, stays sound.
LEMMA RecordStays ==
  ASSUME TypeOK, TypeOK', Grown, done' = done, NEW t \in Sessions,
         SoundRecord(register[t]), register'[t] = register[t]
  PROVE  SoundRecord(register[t])'
<1>1. /\ register[t] \in Records
      /\ answers \in Nat /\ answers' \in Nat /\ \A a \in Answers : a \in Nat
  BY ActAssumption DEF TypeOK, Answers
<1>2. register[t].stage # "none" => register[t].act \in Acts
  BY <1>1, RecordKinds DEF Live, ProposedRecords, LiveRecords
<1>3. register[t].stage \in Live => register[t].answer \in Answers
  BY <1>1, RecordKinds DEF Live, LiveRecords
<1> QED BY <1>1, <1>2, <1>3 DEF SoundRecord, Backs, Told, Unspent, Untouched, DoneAct, Grown, Live

\* Nor does a session that did nothing become unsound.
LEMMA SoundStays ==
  ASSUME TypeOK, TypeOK', Grown, done' = done, NEW t \in Sessions, Sound(t),
         register'[t] = register[t], call'[t] = call[t]
  PROVE  Sound(t)'
<1>1. /\ call[t] \in Calls
      /\ answers \in Nat /\ answers' \in Nat /\ \A a \in Answers : a \in Nat
  BY ActAssumption DEF TypeOK, Answers
<1>2. SoundRecord(register[t])'
  BY RecordStays DEF Sound
<1>3. SoundCall(call[t])'
  <2>1. call[t].pc = "note" \/ call[t].pc \in Answered => call[t].act \in Acts
    BY <1>1, CallKinds DEF Answered, AnsweredCalls
  <2>2. call[t].pc \in Answered => call[t].answer \in Answers
    BY <1>1, CallKinds DEF Answered, AnsweredCalls
  <2> QED BY <1>1, <2>1, <2>2
     DEF Sound, SoundCall, Backs, Told, Unspent, Untouched, Accounted, DoneAct, Reports, Grown, Answered
<1> QED BY <1>2, <1>3 DEF Sound, InStep

\* A step of one session in which nothing is carried out.
LEMMA SessionStep ==
  ASSUME ActInv, TypeOK', Grown, done' = done, NEW s \in Sessions,
         \A t \in Sessions : t # s => register'[t] = register[t] /\ call'[t] = call[t],
         Sound(s)',
         \A a \in Answers : HasAnswer(s, a)' => HasAnswer(s, a) \/ a > answers,
         \A i \in Acts : Acting(s, i)' => Acting(s, i) \/ i \in loose' \/ \A t \in Sessions : ~Acting(t, i),
         CommittedIsDone', Closing'
  PROVE  ActInv'
<1>1. ASSUME NEW t \in Sessions PROVE Sound(t)'
  BY SoundStays DEF ActInv
<1>2. ASSUME NEW t \in Sessions, t # s PROVE Apart(s, t)'
  <2>1. \A a \in Answers : HasAnswer(t, a) => a <= answers
    BY DEF ActInv, Sound, SoundRecord, SoundCall, Unspent, HasAnswer, Live
  <2>2. \A a \in Answers : HasAnswer(t, a)' => HasAnswer(t, a)
    BY <1>2 DEF HasAnswer
  <2>3. \A i \in Acts : Acting(t, i)' => Acting(t, i)
    BY <1>2 DEF Acting
  <2>4. Apart(s, t)
    BY <1>2 DEF ActInv
  <2>5. answers \in Nat /\ \A a \in Answers : a \in Nat
    BY ActAssumption DEF ActInv, TypeOK, Answers
  <2> QED BY <2>1, <2>2, <2>3, <2>4, <2>5 DEF Apart, Grown
<1>3. ASSUME NEW t \in Sessions, NEW u \in Sessions, t # u PROVE Apart(t, u)'
  <2>1. CASE t = s
    BY <2>1, <1>2, <1>3
  <2>2. CASE u = s
    BY <2>2, <1>2, <1>3 DEF Apart
  <2>3. CASE t # s /\ u # s
    <3>1. Apart(t, u)
      BY <1>3 DEF ActInv
    <3> QED BY <3>1, <2>3 DEF Apart, HasAnswer, Acting, Grown
  <2> QED BY <2>1, <2>2, <2>3
<1>4. AgainNeedsACause'
  BY DEF ActInv, AgainNeedsACause, Grown
<1>5. Counted'
  BY ActAssumption DEF ActInv, Counted, Grown, TypeOK, Answers
<1> QED BY <1>1, <1>3, <1>4, <1>5 DEF ActInv

\* One that touches nothing but the session's record and call, and takes over
\* an act and its answer if it has any.
Inherits(s, c) ==
    \/ register[s].stage \in Live /\ register[s].act = c.act /\ register[s].answer = c.answer
    \/ call[s].pc \in Answered /\ call[s].act = c.act /\ call[s].answer = c.answer

LEMMA QuietStep ==
  ASSUME ActInv, NEW s \in Sessions, UNCHANGED << rows, known, answers, done, loose, unseen >>,
         \E r \in Records : Hold(s, r), \E c \in Calls : Do(s, c),
         Sound(s)',
         register'[s].stage \in Live => Inherits(s, register'[s]),
         call'[s].pc \in Answered => Inherits(s, call'[s]),
         call'[s].pc \in {"ran", "commit"} => call'[s] = call[s],
         Reports(call[s]) => call'[s] = call[s]
  PROVE  ActInv'
<1>1. TypeOK'
  BY DEF ActInv, TypeOK, Hold, Do
<1>2. \A t \in Sessions : t # s => register'[t] = register[t] /\ call'[t] = call[t]
  BY DEF ActInv, TypeOK, Hold, Do
<1>3. Grown /\ done' = done
  BY ActAssumption DEF Grown, ActInv, TypeOK
<1>4. \A a \in Answers : HasAnswer(s, a)' => HasAnswer(s, a)
  BY DEF HasAnswer, Inherits, Live, Answered
<1>5. \A i \in Acts : Acting(s, i)' => Acting(s, i)
  BY DEF Acting, Inherits, Live, Answered
<1>6. CommittedIsDone'
  BY DEF ActInv, CommittedIsDone
<1>7. Closing'
  <2>1. \A u \in Sessions : Reports(call[u]) => call'[u] = call[u]
    BY <1>2
  <2> QED BY <2>1 DEF ActInv, Closing, DoneAct
<1> QED BY <1>1, <1>2, <1>3, <1>4, <1>5, <1>6, <1>7, SessionStep

\* What a step leaves in the session that takes it.
LEMMA Left ==
  ASSUME TypeOK, NEW s \in Sessions
  PROVE  /\ \A r : Hold(s, r) => register'[s] = r
         /\ \A c : Do(s, c) => call'[s] = c
         /\ UNCHANGED register => Hold(s, register[s])
         /\ UNCHANGED call => Do(s, call[s])
         /\ register[s] \in Records /\ call[s] \in Calls
  BY DEF TypeOK, Hold, Do

------------------------------------------------------------------------------
LEMMA WithholdKeeps ==
  ASSUME ActInv, NEW s \in Sessions, Withhold(s)
  PROVE  ActInv'
<1>1. PICK p \in Payloads : Do(s, [pc |-> "propose", payload |-> p])
  BY DEF Withhold
<1>2. Hold(s, register[s]) /\ register'[s] = register[s] /\ call'[s] = [pc |-> "propose", payload |-> p]
  BY <1>1, Left DEF ActInv, Withhold
<1>3. [pc |-> "propose", payload |-> p] \in Calls /\ register[s] \in Records
  BY Left DEF Calls, ActInv
<1>4. Sound(s)'
  BY <1>2 DEF Withhold, ActInv, Sound, SoundRecord, SoundCall, InStep, Reports, Answered, NoRecord, Live
<1>5. ~Reports(call[s]) /\ call'[s].pc \notin Answered
  BY <1>2 DEF Withhold, At, Reports, Answered
<1>6. register[s].stage \notin Live
  BY DEF Withhold, NoRecord, Live
<1> QED BY <1>1, <1>2, <1>3, <1>4, <1>5, <1>6, QuietStep DEF Withhold, Answered

LEMMA ReleaseKeeps ==
  ASSUME ActInv, NEW s \in Sessions, ProposeRefused(s) \/ Refused(s) \/ Blocked(s)
  PROVE  ActInv'
<1>1. Do(s, Resting) /\ UNCHANGED << rows, register, known, answers, done, loose, unseen >>
      /\ call[s].pc \in {"propose", "allowed", "running"}
  BY DEF ProposeRefused, Refused, Blocked, At
<1>2. Hold(s, register[s]) /\ register'[s] = register[s] /\ call'[s] = Resting
  BY <1>1, Left DEF ActInv
<1>3. Resting \in Calls /\ Resting.pc = "idle" /\ register[s] \in Records
  BY Left, MoreCalls DEF ActInv
<1>4. Sound(s)'
  BY <1>1, <1>2, <1>3
     DEF ActInv, Sound, SoundRecord, SoundCall, InStep, Reports, Answered,
     Backs, Told, Unspent, Untouched, Accounted, DoneAct
<1>5. ~Reports(call[s])
  BY <1>1 DEF Reports
<1>6. register'[s].stage \in Live => Inherits(s, register'[s])
  BY <1>2 DEF Inherits
<1> QED BY <1>1, <1>2, <1>3, <1>4, <1>5, <1>6, QuietStep DEF Answered

LEMMA NoteKeeps ==
  ASSUME ActInv, NEW s \in Sessions, Note(s)
  PROVE  ActInv'
<1> DEFINE r == [stage |-> "proposed", act |-> call[s].act, payload |-> call[s].payload, delivered |-> FALSE]
<1>1. /\ call[s].act \in Acts /\ call[s].payload \in Payloads /\ Backs(call[s])
      /\ register[s] \in Records
  BY Left, CallKinds DEF ActInv, Note, At, Sound, SoundCall
<1>2. r \in Records
  BY <1>1 DEF Records
<1>3. call'[s] = Resting /\ Resting \in Calls /\ Resting.pc = "idle" /\ Do(s, Resting)
  BY Left, MoreCalls DEF ActInv, Note
<1>4. \/ Hold(s, r) /\ register'[s] = r
      \/ Hold(s, register[s]) /\ register'[s] = register[s]
  BY Left DEF ActInv, Note
<1>5. SoundRecord(register[s])'
  <2>1. r.stage = "proposed" /\ r.act = call[s].act /\ r.payload = call[s].payload
    OBVIOUS
  <2>2. SoundRecord(register[s])
    BY DEF ActInv, Sound
  <2> HIDE DEF r
  <2> QED BY <1>1, <1>4, <2>1, <2>2
       DEF Note, SoundRecord, Live, Backs, Told, Unspent, Untouched, Accounted, DoneAct
<1>6. Sound(s)'
  BY <1>3, <1>5 DEF Sound, SoundCall, InStep, Reports, Answered
<1>7. register'[s].stage \in Live => Inherits(s, register'[s])
  BY <1>4 DEF Inherits, Live
<1>8. ~Reports(call[s])
  BY DEF Note, At, Reports
<1> HIDE DEF r
<1> QED BY <1>1, <1>2, <1>3, <1>4, <1>6, <1>7, <1>8, QuietStep DEF Note, Answered

LEMMA ExpireKeeps ==
  ASSUME ActInv, NEW s \in Sessions, Expire(s)
  PROVE  ActInv'
<1>1. Hold(s, NoRecord) /\ register'[s] = NoRecord /\ Do(s, call[s]) /\ call'[s] = call[s]
  BY Left DEF ActInv, Expire
<1>2. NoRecord \in Records /\ NoRecord.stage = "none" /\ call[s] \in Calls
  BY Left, MoreRecords DEF ActInv
<1>3. Sound(s)'
  BY <1>1, <1>2 DEF Expire, ActInv, Sound, SoundRecord, SoundCall, InStep, Reports, Live, Backs, Told,
     Unspent, Untouched, Accounted, DoneAct
<1>4. call'[s].pc \in Answered => Inherits(s, call'[s])
  BY <1>1 DEF Inherits
<1> QED BY <1>1, <1>2, <1>3, <1>4, QuietStep DEF Expire, Live

LEMMA MarkConfirmedKeeps ==
  ASSUME ActInv, NEW s \in Sessions, MarkConfirmed(s)
  PROVE  ActInv'
<1> DEFINE c == call[s]
           r == [stage |-> "confirmed", act |-> c.act, payload |-> c.payload, answer |-> c.answer]
<1>1. /\ c \in AnsweredCalls /\ SoundCall(c) /\ c.pc = "mark"
      /\ register[s] \in Records
  BY Left, CallKinds DEF ActInv, MarkConfirmed, At, Sound, Answered
<1>2. r \in Records
  BY <1>1 DEF Records, AnsweredCalls
<1>3. call'[s] = Resting /\ Resting \in Calls /\ Resting.pc = "idle" /\ Do(s, Resting)
  BY Left, MoreCalls DEF ActInv, MarkConfirmed
<1>4. \/ Hold(s, r) /\ register'[s] = r
      \/ Hold(s, register[s]) /\ register'[s] = register[s]
  BY Left DEF ActInv, MarkConfirmed
<1>5. /\ r.stage = "confirmed" /\ r.act = c.act /\ r.payload = c.payload /\ r.answer = c.answer
  OBVIOUS
<1>6. SoundRecord(register[s])
  BY DEF ActInv, Sound
<1> HIDE DEF r
<1>7. SoundRecord(register[s])'
  BY <1>1, <1>4, <1>5, <1>6
     DEF MarkConfirmed, SoundRecord, SoundCall, Live, Answered,
     Backs, Told, Unspent, Untouched, Accounted, DoneAct
<1>8. Sound(s)'
  BY <1>3, <1>7 DEF Sound, SoundCall, InStep, Reports, Answered
<1>9. register'[s].stage \in Live => Inherits(s, register'[s])
  BY <1>1, <1>4, <1>5 DEF Inherits, Answered
<1>10. ~Reports(call[s])
  BY <1>1 DEF Reports
<1> QED BY <1>1, <1>2, <1>3, <1>4, <1>8, <1>9, <1>10, QuietStep DEF MarkConfirmed, Answered

LEMMA ReplayKeeps ==
  ASSUME ActInv, NEW s \in Sessions, Replay(s)
  PROVE  ActInv'
<1> DEFINE c == Carrying(s, "allowed", register[s].payload)
<1>1. /\ register[s] \in LiveRecords /\ register[s].stage = "confirmed" /\ SoundRecord(register[s])
      /\ call[s].pc = "idle"
  BY Left, RecordKinds DEF ActInv, Replay, Approves, At, Sound, Live
<1>2. c \in Calls /\ register[s] \in Records
  BY <1>1, Left DEF Carrying, Calls, LiveRecords, ActInv
<1>3. /\ Do(s, c) /\ call'[s] = c
      /\ Hold(s, register[s]) /\ register'[s] = register[s]
  BY Left DEF ActInv, Replay
<1>4. c.pc = "allowed" /\ c.act = register[s].act /\ c.payload = register[s].payload
      /\ c.answer = register[s].answer
  BY DEF Carrying
<1> HIDE DEF c
<1>5. Sound(s)'
  BY <1>1, <1>3, <1>4 DEF Replay, Sound, SoundRecord, SoundCall, InStep, Reports, Live, Answered,
     Backs, Told, Unspent, Untouched, Accounted, DoneAct
<1>6. Inherits(s, c) /\ (register'[s].stage \in Live => Inherits(s, register'[s]))
  BY <1>1, <1>3, <1>4 DEF Inherits, Live
<1>7. ~Reports(call[s])
  BY <1>1 DEF Reports
<1> QED BY <1>2, <1>3, <1>4, <1>5, <1>6, <1>7, QuietStep DEF Replay

LEMMA TakeKeeps ==
  ASSUME ActInv, NEW s \in Sessions, Take(s)
  PROVE  ActInv'
<1> DEFINE c == [call[s] EXCEPT !.pc = "running"]
           r == [register[s] EXCEPT !.stage = "inflight"]
<1>1. /\ call[s] \in AnsweredCalls /\ call[s].pc = "allowed"
      /\ SoundCall(call[s]) /\ SoundRecord(register[s]) /\ InStep(register[s], call[s])
      /\ register[s] \in Records
  BY Left, CallKinds DEF ActInv, Take, At, Sound, Answered
<1>2. /\ c \in Calls /\ c.pc = "running" /\ c.act = call[s].act
      /\ c.payload = call[s].payload /\ c.answer = call[s].answer
  BY <1>1 DEF AnsweredCalls, Answered, Calls
<1>3. Approves(s, call[s].payload) =>
         /\ r \in Records /\ r.stage = "inflight" /\ r.act = register[s].act
         /\ r.payload = register[s].payload /\ r.answer = register[s].answer
  BY <1>1, RecordKinds DEF Approves, LiveRecords, Records, Live
<1>4. Do(s, c) /\ call'[s] = c
  BY Left DEF ActInv, Take
<1>5. \/ Approves(s, call[s].payload) /\ Hold(s, r) /\ register'[s] = r
      \/ ~Approves(s, call[s].payload) /\ Hold(s, register[s]) /\ register'[s] = register[s]
  BY Left DEF ActInv, Take
<1> HIDE DEF c, r
<1>6. register[s].stage = "none" \/ Approves(s, call[s].payload)
  BY <1>1 DEF InStep, Approves
<1>7. Sound(s)'
  BY <1>1, <1>2, <1>3, <1>4, <1>5, <1>6
     DEF Take, Approves, Sound, SoundRecord, SoundCall, InStep, Reports, Live, Answered,
     Backs, Told, Unspent, Untouched, Accounted, DoneAct
<1>8. Inherits(s, c) /\ (register'[s].stage \in Live => Inherits(s, register'[s]))
  BY <1>1, <1>2, <1>3, <1>5, <1>6 DEF Inherits, Live, Answered, Approves
<1>9. ~Reports(call[s])
  BY <1>1 DEF Reports
<1> QED BY <1>1, <1>2, <1>3, <1>4, <1>5, <1>7, <1>8, <1>9, QuietStep DEF Take

------------------------------------------------------------------------------
LEMMA ReplyKeeps ==
  ASSUME ActInv, NEW s \in Sessions, Reply(s)
  PROVE  ActInv'
<1> DEFINE r == [register[s] EXCEPT !.delivered = TRUE]
<1>1. register[s] \in ProposedRecords /\ SoundRecord(register[s]) /\ call[s].pc = "idle"
  BY Left, RecordKinds DEF ActInv, Reply, At, Sound
<1>2. /\ r \in ProposedRecords /\ r.stage = "proposed" /\ r.act = register[s].act
      /\ r.payload = register[s].payload /\ r.act \in Acts
  BY <1>1 DEF ProposedRecords
<1>3. Hold(s, r) /\ register'[s] = r /\ r \in Records
  BY <1>2, Left, MoreRecords DEF ActInv, Reply
<1> HIDE DEF r
<1>4. TypeOK'
  BY <1>1, <1>2, <1>3 DEF ActInv, TypeOK, Reply, Hold
<1>5. \A t \in Sessions : t # s => register'[t] = register[t] /\ call'[t] = call[t]
  BY <1>3 DEF ActInv, TypeOK, Hold, Reply
<1>6. Grown /\ done' = done
  BY ActAssumption DEF Grown, ActInv, TypeOK, Reply
<1>7. Sound(s)'
  BY <1>1, <1>2, <1>3 DEF Reply, Sound, SoundRecord, SoundCall, InStep, Reports, Live, Answered, Backs
<1>8. /\ \A a \in Answers : HasAnswer(s, a)' => HasAnswer(s, a)
      /\ \A i \in Acts : Acting(s, i)' => Acting(s, i)
  BY <1>2, <1>3 DEF Reply, HasAnswer, Acting, Live
<1>9. CommittedIsDone' /\ Closing'
  BY DEF Reply, ActInv, CommittedIsDone, Closing, DoneAct
<1> QED BY <1>4, <1>5, <1>6, <1>7, <1>8, <1>9, SessionStep

LEMMA ProposeKeeps ==
  ASSUME ActInv, NEW s \in Sessions, Propose(s)
  PROVE  ActInv'
<1>1. PICK i \in Acts :
         /\ rows[i] = Unborn
         /\ rows' = [rows EXCEPT ![i] = [state |-> "open", payload |-> call[s].payload]]
         /\ \/ Do(s, [pc |-> "note", act |-> i, payload |-> call[s].payload])
            \/ Do(s, Resting)
  BY DEF Propose
<1>2. /\ call[s] \in Calls /\ call[s].pc = "propose" /\ call[s].payload \in Payloads
      /\ register[s] \in Records /\ SoundRecord(register[s]) /\ register'[s] = register[s]
  BY Left, CallKinds DEF ActInv, Propose, At, Sound
<1>3. PICK c \in Calls :
         /\ Do(s, c) /\ call'[s] = c
         /\ \/ c.pc = "note" /\ c.act = i /\ c.payload = call[s].payload
            \/ c.pc = "idle"
  <2>1. [pc |-> "note", act |-> i, payload |-> call[s].payload] \in Calls
    BY <1>2 DEF Calls
  <2> QED BY <1>1, <2>1, Left, MoreCalls DEF ActInv
<1>4. [state |-> "open", payload |-> call[s].payload] \in Rows
  BY <1>2 DEF Rows
<1>5. TypeOK'
  BY <1>1, <1>3, <1>4 DEF ActInv, TypeOK, Propose, Do
<1>6. \A t \in Sessions : t # s => register'[t] = register[t] /\ call'[t] = call[t]
  BY <1>3 DEF ActInv, TypeOK, Do, Propose
<1>7. rows'[i].state = "open" /\ rows'[i].payload = call[s].payload
      /\ \A j \in Acts : j # i => rows'[j] = rows[j]
  BY <1>1 DEF ActInv, TypeOK
<1>8. Grown /\ done' = done
  BY <1>1, <1>7, ActAssumption DEF Grown, ActInv, TypeOK, Propose, Unborn
<1>9. Sound(s)'
  <2>1. register[s].stage # "none" => register[s].act \in Acts /\ register[s].act # i
    BY <1>1, <1>2, RecordKinds DEF SoundRecord, Backs, Unborn, Live, ProposedRecords, LiveRecords
  <2> QED BY <1>2, <1>3, <1>7, <2>1 DEF Propose, Sound, SoundRecord, SoundCall, InStep, Reports, Live,
          Answered, Backs, Told, Unspent, Untouched, Accounted, DoneAct
<1>10. /\ \A a \in Answers : HasAnswer(s, a)' => HasAnswer(s, a)
       /\ \A j \in Acts : Acting(s, j)' => Acting(s, j)
  BY <1>2, <1>3 DEF Propose, HasAnswer, Acting, Answered
<1>11. CommittedIsDone'
  BY <1>7 DEF Propose, ActInv, CommittedIsDone
<1>12. Closing'
  <2>1. ~DoneAct(i)
    BY <1>1 DEF ActInv, Counted, DoneAct, Unborn
  <2> QED BY <1>2, <1>3, <1>6, <1>7, <2>1 DEF Propose, ActInv, Closing, DoneAct, Reports
<1> QED BY <1>5, <1>6, <1>8, <1>9, <1>10, <1>11, <1>12, SessionStep

LEMMA AnswerKeeps ==
  ASSUME ActInv, NEW s \in Sessions, Answer(s)
  PROVE  ActInv'
<1>1. PICK i \in Acts :
         /\ known[i] # "nothing" /\ rows[i].state = "open"
         /\ Do(s, [pc |-> "mark", act |-> i, payload |-> rows[i].payload, answer |-> answers + 1])
         /\ loose' = IF \E u \in Sessions : Acting(u, i) THEN loose \cup {i} ELSE loose
  BY DEF Answer
<1> DEFINE c == [pc |-> "mark", act |-> i, payload |-> rows[i].payload, answer |-> answers + 1]
<1>2. /\ answers \in Nat /\ answers' = answers + 1 /\ answers' \in 0..MaxAnswers
      /\ answers + 1 \in Answers /\ \A a \in Answers : a \in Nat
  BY ActAssumption DEF ActInv, TypeOK, Answer, Answers
<1>3. rows[i].payload \in Payloads
  BY <1>1, RowKinds DEF ActInv, TypeOK
<1>4. /\ c \in Calls /\ c.pc = "mark" /\ c.act = i /\ c.payload = rows[i].payload
      /\ c.answer = answers'
  BY <1>2, <1>3 DEF Calls
<1>5. /\ Do(s, c) /\ call'[s] = c /\ register'[s] = register[s]
      /\ call[s].pc = "idle" /\ register[s] \in Records /\ SoundRecord(register[s])
  BY <1>1, Left DEF ActInv, Answer, At, Sound
<1> HIDE DEF c
<1>6. TypeOK'
  BY <1>1, <1>2, <1>4, <1>5 DEF ActInv, TypeOK, Answer, Do
<1>7. \A t \in Sessions : t # s => register'[t] = register[t] /\ call'[t] = call[t]
  BY <1>5 DEF ActInv, TypeOK, Do, Answer
<1>8. Grown /\ done' = done
  BY <1>1, <1>2 DEF Grown, ActInv, TypeOK, Answer
<1>9. Untouched(i)'
  <2>1. CASE \E u \in Sessions : Acting(u, i)
    BY <1>1, <2>1 DEF Untouched
  <2>2. CASE ~\E u \in Sessions : Acting(u, i)
    <3>1. \A u \in Sessions : ~(Reports(call[u]) /\ call[u].act = i)
      BY <2>2 DEF Acting, Reports
    <3>2. DoneAct(i) => i \in loose
      BY <1>1, <3>1 DEF ActInv, Closing
    <3> QED BY <1>8, <3>2 DEF Untouched, Accounted, DoneAct, Grown
  <2> QED BY <2>1, <2>2
<1>10. Unspent(call[s].answer)'
  BY <1>2, <1>4, <1>5 DEF Answer, ActInv, TypeOK, Counted, Unspent
<1>11. Sound(s)'
  <2>1. register[s].stage \in Live => register[s].answer \in Answers
    BY <1>5, RecordKinds DEF LiveRecords
  <2>2. SoundRecord(register[s])'
    BY <1>5, <1>6, <1>8, RecordStays DEF ActInv
  <2>3. SoundCall(call[s])'
    BY <1>1, <1>4, <1>5, <1>9, <1>10 DEF Answer, SoundCall, Backs, Told, Reports, Unspent, Untouched, Accounted, DoneAct
  <2>4. InStep(register[s], call[s])'
    BY <1>2, <1>4, <1>5, <2>1 DEF InStep, SoundRecord
  <2> QED BY <2>2, <2>3, <2>4 DEF Sound
<1>12. \A a \in Answers : HasAnswer(s, a)' => HasAnswer(s, a) \/ a > answers
  BY <1>2, <1>4, <1>5 DEF HasAnswer
<1>13. \A j \in Acts : Acting(s, j)' => Acting(s, j) \/ j \in loose' \/ \A t \in Sessions : ~Acting(t, j)
  BY <1>1, <1>4, <1>5 DEF Acting
<1>14. CommittedIsDone'
  BY DEF Answer, ActInv, CommittedIsDone
<1>15. Closing'
  BY <1>5, <1>7, <1>8 DEF Answer, ActInv, Closing, DoneAct, Reports, Grown
<1> QED BY <1>6, <1>7, <1>8, <1>11, <1>12, <1>13, <1>14, <1>15, SessionStep

LEMMA FinishKeeps ==
  ASSUME ActInv, NEW s \in Sessions, Finish(s)
  PROVE  ActInv'
<1>1. /\ call[s].pc = "ran" /\ call[s].act \in Acts /\ call[s].failed \in BOOLEAN
      /\ register[s] \in Records /\ SoundRecord(register[s]) /\ SoundCall(call[s])
      /\ InStep(register[s], call[s])
  BY Left, CallKinds DEF ActInv, Finish, At, Sound
<1>2. PICK c \in Calls :
         /\ Do(s, c) /\ call'[s] = c
         /\ \/ c = [pc |-> "commit", act |-> call[s].act] /\ ~call[s].failed /\ UNCHANGED loose
            \/ c = Resting /\ (call[s].failed \/ loose' = loose \cup {call[s].act})
  <2>1. Finished(s) => register[s].act = call[s].act
    BY <1>1 DEF Finished, InStep
  <2>2. [pc |-> "commit", act |-> call[s].act] \in Calls
    BY <1>1 DEF Calls
  <2>3. CASE Finished(s) /\ ~call[s].failed
    BY <2>1, <2>2, <2>3, Left DEF Finish, ActInv
  <2>4. CASE Finished(s) /\ call[s].failed
    BY <2>4, Left, MoreCalls DEF Finish, ActInv
  <2>5. CASE ~Finished(s)
    BY <2>5, Left, MoreCalls DEF Finish, ActInv
  <2> QED BY <1>1, <2>3, <2>4, <2>5
<1>3. PICK r \in Records :
         /\ Hold(s, r) /\ register'[s] = r
         /\ r = NoRecord \/ r = register[s]
  BY <1>1, Left, MoreRecords DEF Finish, ActInv
<1>4. loose \subseteq loose' /\ loose' \subseteq loose \cup {call[s].act}
  BY DEF Finish
<1>5. TypeOK'
  BY <1>1, <1>2, <1>3, <1>4 DEF ActInv, TypeOK, Finish, Do, Hold
<1>6. \A t \in Sessions : t # s => register'[t] = register[t] /\ call'[t] = call[t]
  BY <1>2, <1>3 DEF ActInv, TypeOK, Do, Hold
<1>7. Grown /\ done' = done
  BY <1>4, ActAssumption DEF Grown, ActInv, TypeOK, Finish
<1>8. c.pc \in {"idle", "commit"} /\ (c.pc = "commit" => c.act = call[s].act /\ ~call[s].failed)
  BY <1>2, MoreCalls
<1>9. Sound(s)'
  <2>1. SoundRecord(register[s])'
    BY <1>1, <1>3, <1>4, MoreRecords DEF Finish, SoundRecord, Backs, Told, Unspent, Untouched, DoneAct, Live
  <2>2. SoundCall(call[s])'
    BY <1>1, <1>2, <1>8 DEF Finish, SoundCall, Reports, Accounted, DoneAct, Answered
  <2>3. InStep(register[s], call[s])'
    BY <1>2, <1>8 DEF InStep
  <2> QED BY <2>1, <2>2, <2>3 DEF Sound
<1>10. /\ \A a \in Answers : HasAnswer(s, a)' => HasAnswer(s, a)
       /\ \A j \in Acts : Acting(s, j)' => Acting(s, j)
  BY <1>1, <1>2, <1>3, <1>8, MoreRecords DEF HasAnswer, Acting, Live, Answered
<1>11. CommittedIsDone'
  BY DEF Finish, ActInv, CommittedIsDone
<1>12. Closing'
  <2>1. Reports(call[s]) => (Reports(c) /\ c.act = call[s].act) \/ call[s].act \in loose'
    BY <1>1, <1>2 DEF Reports
  <2> QED BY <1>2, <1>6, <1>7, <2>1 DEF Finish, ActInv, Closing, DoneAct, Grown
<1> QED BY <1>5, <1>6, <1>7, <1>9, <1>10, <1>11, <1>12, SessionStep

LEMMA CommitKeeps ==
  ASSUME ActInv, NEW s \in Sessions, Commit(s)
  PROVE  ActInv'
<1> DEFINE i == call[s].act
<1>1. /\ call[s].pc = "commit" /\ i \in Acts /\ register[s] \in Records
      /\ SoundRecord(register[s]) /\ Accounted(i)
      /\ call'[s] = Resting /\ register'[s] = register[s] /\ Resting \in Calls /\ Resting.pc = "idle"
  BY Left, CallKinds, MoreCalls DEF ActInv, Commit, At, Sound, SoundCall, Reports
<1>2. \/ /\ rows[i].state = "open" /\ loose' = loose
         /\ rows' = [rows EXCEPT ![i] = [@ EXCEPT !.state = "committed"]]
      \/ rows[i].state # "open" /\ UNCHANGED << rows, loose >>
      \/ loose' = loose \cup {i} /\ UNCHANGED rows
  BY DEF Commit, Close
<1>3. rows[i].state = "open" =>
         /\ [rows[i] EXCEPT !.state = "committed"] \in Rows
         /\ [rows[i] EXCEPT !.state = "committed"].state = "committed"
         /\ [rows[i] EXCEPT !.state = "committed"].payload = rows[i].payload
  BY <1>1, RowKinds DEF ActInv, TypeOK, Rows
<1>4. TypeOK'
  BY <1>1, <1>2, <1>3 DEF ActInv, TypeOK, Commit, Do
<1>5. \A t \in Sessions : t # s => register'[t] = register[t] /\ call'[t] = call[t]
  BY DEF ActInv, TypeOK, Do, Commit
<1>6. /\ \A j \in Acts : j # i => rows'[j] = rows[j]
      /\ rows'[i] = rows[i] \/ (rows[i].state = "open" /\ rows'[i] = [rows[i] EXCEPT !.state = "committed"])
  BY <1>1, <1>2 DEF ActInv, TypeOK
<1>7. rows[i].state = "open" => rows'[i].state # "open" \/ i \in loose'
  BY <1>1, <1>2, <1>3 DEF ActInv, TypeOK
<1> HIDE DEF i
<1>8. Grown /\ done' = done
  <2>1. /\ loose \subseteq loose' /\ UNCHANGED << unseen, known, answers, done >>
        /\ answers \in Nat
    BY <1>2, ActAssumption DEF ActInv, TypeOK, Commit
  <2>2. \A j \in Acts : rows[j].state # "unborn" =>
           rows'[j].state # "unborn" /\ rows'[j].payload = rows[j].payload
    BY <1>3, <1>6
  <2> QED BY <2>1, <2>2 DEF Grown
<1>9. Sound(s)'
  <2>1. register[s].stage # "none" => register[s].act \in Acts
    BY <1>1, RecordKinds DEF ProposedRecords, LiveRecords, Live
  <2> QED BY <1>1, <1>8, <2>1 DEF Commit, Sound, SoundRecord, SoundCall, InStep, Reports, Live, Answered,
          Backs, Told, Unspent, Untouched, Accounted, DoneAct, Grown
<1>10. /\ \A a \in Answers : HasAnswer(s, a)' => HasAnswer(s, a)
       /\ \A j \in Acts : Acting(s, j)' => Acting(s, j)
  BY <1>1 DEF HasAnswer, Acting, Answered
<1>11. CommittedIsDone'
  BY <1>1, <1>6, <1>8 DEF ActInv, CommittedIsDone, Accounted, DoneAct, Grown
<1>12. Closing'
  BY <1>1, <1>3, <1>5, <1>6, <1>7, <1>8 DEF i, ActInv, Closing, DoneAct, Grown
<1> QED BY <1>4, <1>5, <1>8, <1>9, <1>10, <1>11, <1>12, SessionStep

LEMMA RunKeeps ==
  ASSUME ActInv, NEW s \in Sessions, Run(s)
  PROVE  ActInv'
<1> DEFINE c == call[s]
           new == [act |-> c.act, answer |-> c.answer]
<1>1. /\ c \in AnsweredCalls /\ c.pc = "running"
      /\ register[s] \in Records /\ Sound(s)
  BY Left, CallKinds DEF ActInv, Run, At, Answered
<1>2. PICK carried \in BOOLEAN, failed \in BOOLEAN :
         /\ done' = IF carried THEN done \cup {new} ELSE done
         /\ loose' = IF carried /\ failed THEN loose \cup {c.act} ELSE loose
         /\ unseen' = IF carried \/ failed THEN unseen ELSE unseen \cup {c.act}
         /\ Do(s, [pc |-> "ran", act |-> c.act, payload |-> c.payload, failed |-> failed])
  BY DEF Run
<1>3. /\ call'[s] = [pc |-> "ran", act |-> c.act, payload |-> c.payload, failed |-> failed]
      /\ call'[s] \in Calls /\ register' = register
      /\ \A t \in Sessions : t # s => call'[t] = call[t]
  BY <1>1, <1>2, Left DEF ActInv, TypeOK, Run, Do, Calls, AnsweredCalls
<1>4. new \in [act : Acts, answer : Answers] /\ new.act = c.act /\ new.answer = c.answer
      /\ c.act \in Acts /\ c.answer \in Answers
  BY <1>1 DEF AnsweredCalls
<1>5. UNCHANGED << rows, known, answers >> /\ loose \subseteq loose' /\ unseen \subseteq unseen'
      /\ done \subseteq done' /\ done' \subseteq done \cup {new}
  BY <1>2 DEF Run
<1>6. /\ SoundRecord(register[s]) /\ SoundCall(c)
      /\ register[s].stage # "none" => register[s].stage = "inflight"
  BY <1>1 DEF Sound, InStep
<1>7. Backs(c) /\ Unspent(c.answer) /\ Untouched(c.act)
  BY <1>1, <1>6 DEF SoundCall, Answered
<1> HIDE DEF c, new
<1>8. TypeOK'
  BY <1>2, <1>3, <1>4, <1>5 DEF ActInv, TypeOK, Do, c
<1>9. ASSUME NEW t \in Sessions, t # s PROVE Sound(t)'
  <2>1. /\ Sound(t) /\ Apart(s, t) /\ register[t] \in Records /\ call[t] \in Calls
        /\ register'[t] = register[t] /\ call'[t] = call[t]
    BY <1>3, <1>9 DEF ActInv, TypeOK
  <2>2. register[t].stage = "confirmed" =>
           register[t].answer # c.answer /\ (register[t].act = c.act => c.act \in loose)
    BY <1>1, <1>4, <2>1 DEF Apart, HasAnswer, Acting, Live, Answered, c
  <2>3. call[t].pc \in Answered =>
           call[t].answer # c.answer /\ (call[t].act = c.act => c.act \in loose)
    BY <1>1, <1>4, <2>1 DEF Apart, HasAnswer, Acting, Live, Answered, c
  <2>4. SoundRecord(register[t])'
    BY <1>4, <1>5, <2>1, <2>2 DEF Sound, SoundRecord, Backs, Told, Unspent, Untouched, DoneAct
  <2>5. SoundCall(call[t])'
    BY <1>4, <1>5, <2>1, <2>3 DEF Sound, SoundCall, Backs, Told, Unspent, Untouched, Accounted, DoneAct, Reports
  <2> QED BY <2>1, <2>4, <2>5 DEF Sound, InStep
<1>10. Sound(s)'
  <2>1. SoundRecord(register[s])'
    BY <1>3, <1>5, <1>6 DEF SoundRecord, Backs, Told, Live
  <2>2. SoundCall(call[s])'
    BY <1>2, <1>3, <1>4 DEF SoundCall, Answered, Reports, Accounted, DoneAct
  <2>3. InStep(register[s], call[s])'
    BY <1>1, <1>3 DEF Sound, InStep, c
  <2> QED BY <2>1, <2>2, <2>3 DEF Sound
<1>11. ASSUME NEW t \in Sessions, NEW u \in Sessions, t # u PROVE Apart(t, u)'
  <2>1. \A v \in Sessions, a \in Answers : HasAnswer(v, a)' => HasAnswer(v, a)
    BY <1>3 DEF HasAnswer, Answered
  <2>2. \A v \in Sessions, i \in Acts : Acting(v, i)' => Acting(v, i)
    BY <1>1, <1>3 DEF Acting, c
  <2>3. Apart(t, u)
    BY <1>11 DEF ActInv
  <2> QED BY <1>5, <2>1, <2>2, <2>3 DEF Apart
<1>12. CommittedIsDone'
  BY <1>5 DEF ActInv, CommittedIsDone
<1>13. AgainNeedsACause'
  BY <1>4, <1>5, <1>7 DEF ActInv, AgainNeedsACause, Untouched, Accounted, DoneAct
<1>14. Closing'
  <2>1. ~Reports(call[s])
    BY <1>1 DEF Reports, c
  <2>2. \A i \in Acts : i # c.act => (DoneAct(i)' <=> DoneAct(i))
    BY <1>4, <1>5 DEF DoneAct
  <2>3. CASE carried /\ ~failed
    BY <1>3, <1>5, <2>1, <2>2, <2>3 DEF ActInv, Closing, Reports
  <2>4. CASE carried /\ failed
    BY <1>2, <1>3, <1>5, <2>1, <2>2, <2>4 DEF ActInv, Closing, Reports
  <2>5. CASE ~carried
    BY <1>2, <1>3, <1>5, <2>1, <2>5 DEF ActInv, Closing, DoneAct
  <2> QED BY <2>3, <2>4, <2>5
<1>15. Counted'
  BY <1>4, <1>5, <1>7 DEF ActInv, Counted, Unspent, Backs
<1> QED BY <1>8, <1>9, <1>10, <1>11, <1>12, <1>13, <1>14, <1>15 DEF ActInv

------------------------------------------------------------------------------
\* A step of no session.
LEMMA WorldKeeps ==
  ASSUME ActInv, AskWhich \/ Sweep
  PROVE  ActInv'
<1>1. TypeOK'
  <2>1. CASE AskWhich
    BY <2>1 DEF ActInv, TypeOK, AskWhich
  <2>2. CASE Sweep
    <3>1. \A i \in Acts : rows[i].state = "open" => [rows[i] EXCEPT !.state = "swept"] \in Rows
      BY RowKinds DEF ActInv, TypeOK, Rows
    <3> QED BY <2>2, <3>1 DEF ActInv, TypeOK, Sweep, Close
  <2> QED BY <2>1, <2>2
<1>2. /\ UNCHANGED << register, call, answers, done, loose, unseen >>
      /\ \A i \in Acts : known[i] # "nothing" => known'[i] # "nothing"
  BY DEF AskWhich, Sweep
<1>3. \A i \in Acts :
         \/ rows'[i] = rows[i]
         \/ /\ rows[i].state = "open" /\ rows'[i].state = "swept"
            /\ rows'[i].payload = rows[i].payload
  <2>1. CASE AskWhich
    BY <2>1 DEF AskWhich
  <2>2. CASE Sweep
    <3>1. PICK j \in Acts : rows[j].state = "open" /\ Close(j, "swept")
      BY <2>2 DEF Sweep
    <3>2. rows[j] \in [state : {"open", "committed", "swept"}, payload : Payloads]
      BY <3>1, RowKinds DEF ActInv, TypeOK
    <3> QED BY <3>1, <3>2 DEF Close, ActInv, TypeOK
  <2> QED BY <2>1, <2>2
<1>4. Grown
  BY <1>2, <1>3, ActAssumption DEF Grown, ActInv, TypeOK
<1>5. \A s \in Sessions : Sound(s)'
  BY <1>1, <1>2, <1>4, SoundStays DEF ActInv
<1>6. \A s, t \in Sessions : s # t => Apart(s, t)'
  BY <1>2 DEF ActInv, Apart, HasAnswer, Acting
<1>7. CommittedIsDone' /\ AgainNeedsACause' /\ Closing' /\ Counted'
  BY <1>2, <1>3 DEF ActInv, TypeOK, CommittedIsDone, AgainNeedsACause, Closing, Counted, DoneAct
<1> QED BY <1>1, <1>5, <1>6, <1>7 DEF ActInv

LEMMA RestartKeeps ==
  ASSUME ActInv, Restart
  PROVE  ActInv'
<1>1. \A s \in Sessions : register'[s] = NoRecord /\ call'[s] = Resting
  BY DEF Restart
<1>2. UNCHANGED << rows, known, answers, done, unseen >> /\ loose \subseteq loose'
      /\ \A s \in Sessions : call[s].pc \in {"ran", "commit"} => call[s].act \in loose'
  BY DEF Restart
<1>3. loose' \subseteq Acts
  BY CallKinds DEF Restart, ActInv, TypeOK
<1>4. TypeOK'
  BY <1>3, MoreRecords, MoreCalls DEF ActInv, TypeOK, Restart
<1>5. \A s \in Sessions : Sound(s)'
  BY <1>1, MoreRecords, MoreCalls DEF Sound, SoundRecord, SoundCall, InStep, Reports, Live, Answered
<1>6. \A s, t \in Sessions : s # t => Apart(s, t)'
  BY <1>1, MoreRecords, MoreCalls DEF Apart, HasAnswer, Acting, Live, Answered
<1>7. CommittedIsDone' /\ AgainNeedsACause' /\ Counted'
  BY <1>2 DEF ActInv, CommittedIsDone, AgainNeedsACause, Counted
<1>8. Closing'
  BY <1>2 DEF ActInv, Closing, DoneAct, Reports
<1> QED BY <1>4, <1>5, <1>6, <1>7, <1>8 DEF ActInv

LEMMA InitActInv == Init => ActInv
<1> SUFFICES ASSUME Init PROVE ActInv
  OBVIOUS
<1>1. \A s \in Sessions : register[s] = NoRecord /\ call[s] = Resting
  BY DEF Init
<1>2. TypeOK
  BY ActAssumption, MoreRecords, MoreCalls DEF Init, TypeOK, Rows, Unborn
<1>3. \A s \in Sessions : Sound(s)
  BY <1>1, MoreRecords, MoreCalls DEF Sound, SoundRecord, SoundCall, InStep, Reports, Live, Answered
<1>4. \A s, t \in Sessions : s # t => Apart(s, t)
  BY <1>1, MoreRecords, MoreCalls DEF Apart, HasAnswer, Acting, Live, Answered
<1>5. CommittedIsDone /\ AgainNeedsACause /\ Closing /\ Counted
  BY DEF Init, CommittedIsDone, AgainNeedsACause, Closing, Counted, DoneAct, Unborn
<1> QED BY <1>2, <1>3, <1>4, <1>5 DEF ActInv

LEMMA NextActInv == ActInv /\ [Next]_vars => ActInv'
<1> SUFFICES ASSUME ActInv, [Next]_vars PROVE ActInv'
  OBVIOUS
<1>1. CASE UNCHANGED vars
  BY <1>1 DEF vars, ActInv, TypeOK, Sound, SoundRecord, SoundCall, InStep, Apart, HasAnswer, Acting,
     CommittedIsDone, AgainNeedsACause, Closing, Counted, Backs, Told, Unspent, Untouched, Accounted, DoneAct
<1>2. ASSUME NEW s \in Sessions,
             Withhold(s) \/ Propose(s) \/ ProposeRefused(s) \/ Note(s) \/ Reply(s) \/ Answer(s)
             \/ MarkConfirmed(s) \/ Replay(s) \/ Refused(s) \/ Take(s) \/ Blocked(s) \/ Run(s)
             \/ Finish(s) \/ Commit(s) \/ Expire(s)
      PROVE  ActInv'
  BY <1>2, WithholdKeeps, ProposeKeeps, ReleaseKeeps, NoteKeeps, ReplyKeeps, AnswerKeeps,
     MarkConfirmedKeeps, ReplayKeeps, TakeKeeps, RunKeeps, FinishKeeps, CommitKeeps, ExpireKeeps
<1> QED BY <1>1, <1>2, WorldKeeps, RestartKeeps DEF Next

LEMMA Inductive == Spec => []ActInv
  BY InitActInv, NextActInv, PTL DEF Spec

------------------------------------------------------------------------------
\* The rows, the register and the calls keep their types, for any sessions,
\* payloads and bounds.
THEOREM TypeCorrect == Spec => []TypeOK
<1>1. ActInv => TypeOK
  BY DEF ActInv
<1> QED BY <1>1, Inductive, PTL

\* The call that runs carries the payload of the row that was answered
\* (peek_confirmed, the replay in evaluate_tool_call).
THEOREM RunsTheAnswered == Spec => []RunsWhatWasAnswered
<1>1. ActInv => RunsWhatWasAnswered
  BY DEF ActInv, RunsWhatWasAnswered, Sound, SoundCall, Backs, Told, At, Answered
<1> QED BY <1>1, Inductive, PTL

\* An answer that was acted on approves nothing more (take_in_flight, finish).
THEOREM YesIsSpent == Spec => []OneYesOneAct
<1>1. ActInv => OneYesOneAct
  BY DEF ActInv, OneYesOneAct, Sound, SoundRecord, SoundCall, Unspent, Answered
<1> QED BY <1>1, Inductive, PTL

\* A committed row was carried out, or its call was not and did not say so: no
\* reported failure is committed (_commit_confirmed_act).
THEOREM CommittedWasDone == Spec => []CommittedIsDone
<1>1. ActInv => CommittedIsDone
  BY DEF ActInv
<1> QED BY <1>1, Inductive, PTL

\* An act is carried out twice only where its closing was lost, or a second
\* answer came while the first was in hand.
THEOREM TwiceHasACause == Spec => []AgainNeedsACause
<1>1. ActInv => AgainNeedsACause
  BY DEF ActInv
<1> QED BY <1>1, Inductive, PTL
================================================================================
