--------------------------- MODULE DeltaPollerProofs ---------------------------
(***************************************************************************)
(* No mail is lost, for every number of mails, every order of their        *)
(* stamps, every set of rejected mails and every bound.  What is settled   *)
(* stays settled; Safe says of a state of the poller, in memory or on      *)
(* disk, that whatever it would skip is settled; Cycling, that a mail of   *)
(* the listing is settled or still in the hands of the cycle.              *)
(***************************************************************************)
EXTENDS DeltaPoller, TLAPS

\* What s will not look at again is settled: the cursor passed it, the ledger
\* has it, or the watermark is above it.  A mail behind the watermark that is
\* not settled shows behind a younger one, and is skipped only once a cursor
\* was lost; before that the watermark is a baseline's.
Passed(s) == \A m \in Mails : s.link.ok /\ m <= s.link.at => Settled(m)
Ledger(s) == \A m \in Seen(s) : Settled(m)
Behind(s) == \A m \in Mails : Received[m] < s.watermark => Settled(m) \/ Late(m)
Based(s) == ~s.link.ok /\ resets = 0 => Older(s.watermark) \subseteq waived
Safe(s) == Passed(s) /\ Ledger(s) /\ Behind(s) /\ Based(s) /\ s.failing \cap Own = {}

\* A mail of the listing is settled, or still to be handled, or holds the cursor.
Listed == \A m \in Mails : m <= cycle.to =>
              \/ Settled(m) \/ cycle.held \/ m \in cycle.batch \cup cycle.failed
              \/ pc = "answer" /\ m = cycle.mail
Within == /\ \A m \in cycle.batch \cup cycle.failed \cup {cycle.mail} : m <= cycle.to
          /\ cycle.newest = 0 \/ \E k \in Mails : k <= cycle.to /\ Received[k] = cycle.newest
Answer == /\ pc = "items" => ~cycle.taken
          /\ pc = "answer" => /\ cycle.mail \in Mails \ Own
                              /\ cycle.taken => turns[cycle.mail] > 0
Cycling == /\ Listed /\ Within /\ Answer
           /\ cycle.relist => ~state.link.ok
           /\ cycle.failed \cap Own = {}

PollInv == /\ \A m \in cache : turns[m] > 0
           /\ disk # NoFile => Safe(disk)
           /\ pc = "off" => state.failing = {}
           /\ pc # "off" => Safe(state)
           /\ pc \in {"items", "answer"} => Cycling

(***************************************************************************)
(* The ledger: what marking a mail seen does to a state.                   *)
(***************************************************************************)

\* mark_seen adds one mail to the ledger, may forget others, and leaves the rest
\* of the state alone.
LEMMA MarkSeenState ==
    ASSUME NEW s \in State, NEW m \in Mails
    PROVE  /\ MarkSeen(s, m) \in State
           /\ Seen(MarkSeen(s, m)) \subseteq Seen(s) \cup {m}
           /\ Forgotten(s, m) \subseteq Mails
           /\ MarkSeen(s, m).link = s.link
           /\ MarkSeen(s, m).failing = s.failing
           /\ MarkSeen(s, m).poison = s.poison
           /\ MarkSeen(s, m).watermark = s.watermark
<1>1. s.seen \in Seq(Mails) /\ MaxSeen \in Nat \ {0}
  BY PollerAssumption DEF State
<1> DEFINE short == IF Len(s.seen) < MaxSeen THEN s.seen ELSE Tail(s.seen)
<1>2. /\ short \in Seq(Mails)
      /\ \A i \in DOMAIN short : \E j \in DOMAIN s.seen : short[i] = s.seen[j]
      /\ s.seen # << >> => Head(s.seen) \in Mails
  BY <1>1
<1>3. /\ Append(short, m) \in Seq(Mails)
      /\ \A i \in DOMAIN Append(short, m) : Append(short, m)[i] = m
                                           \/ \E j \in DOMAIN s.seen : Append(short, m)[i] = s.seen[j]
  BY <1>2
<1>4. m \notin Seen(s) => MarkSeen(s, m) = [s EXCEPT !.seen = Append(short, m)]
  BY DEF MarkSeen
<1>5. m \in Seen(s) => MarkSeen(s, m) = s
  BY DEF MarkSeen
<1>6. Len(s.seen) >= MaxSeen => s.seen # << >>
  BY <1>1
<1>7. Forgotten(s, m) \subseteq Mails
  BY <1>1, <1>2, <1>6 DEF Forgotten
<1>8. CASE m \in Seen(s)
  BY <1>5, <1>7, <1>8
<1>9. CASE m \notin Seen(s)
  <2>1. MarkSeen(s, m) \in State
    BY <1>3, <1>4, <1>9 DEF State
  <2>2. MarkSeen(s, m).seen = Append(short, m)
    BY <1>4, <1>9 DEF State
  <2>3. Seen(MarkSeen(s, m)) \subseteq Seen(s) \cup {m}
    BY <1>3, <2>2 DEF Seen
  <2>4. QED
    BY <1>4, <1>7, <1>9, <2>1, <2>3 DEF State
<1>10. QED
  BY <1>8, <1>9

\* The empty state and a state without failures of one mail are states.
LEMMA EmptyState == Empty \in State /\ Seen(Empty) = {} /\ NoCycle \in Cycle
  BY PollerAssumption DEF Empty, NoLink, State, Seen, NoCycle, Cycle

\* clear_failure leaves ledger, cursor and watermark alone.
LEMMA ClearFailureState ==
    ASSUME NEW s \in State, NEW m \in Mails
    PROVE  /\ ClearFailure(s, m) \in State
           /\ Seen(ClearFailure(s, m)) = Seen(s)
           /\ ClearFailure(s, m).link = s.link
           /\ ClearFailure(s, m).failing \subseteq s.failing
           /\ ClearFailure(s, m).watermark = s.watermark
  BY DEF ClearFailure, State, Seen

------------------------------------------------------------------------------
(***************************************************************************)
(* Types.                                                                  *)
(***************************************************************************)

\* A baseline is a state with an empty ledger and a watermark of this moment.
LEMMA BaselineState ==
    ASSUME TypeOK, NEW found, Baseline(found)
    PROVE  \E now \in Nat : /\ state' = [Empty EXCEPT !.watermark = now]
                            /\ waived' = waived \cup Older(now)
                            /\ state' \in State
<1>1. 1..arrived \subseteq Mails
  BY PollerAssumption DEF TypeOK, Mails
<1>2. Now \subseteq Nat
  BY <1>1, PollerAssumption DEF Now, Newest
<1>3. \A now \in Nat : [Empty EXCEPT !.watermark = now] \in State
  BY EmptyState DEF State
<1>4. QED
  BY <1>2, <1>3 DEF Baseline

LEMMA TypeInit == Init => TypeOK
  BY EmptyState, PollerAssumption DEF Init, TypeOK

LEMMA TypeStep == TypeOK /\ [Next]_vars => TypeOK'
<1> SUFFICES ASSUME TypeOK, [Next]_vars PROVE TypeOK'
  OBVIOUS
<1> USE DEF TypeOK, worldVars, historyVars
<1>1. CASE Arrive
  BY <1>1, PollerAssumption DEF Arrive
<1>2. CASE Expire
  <2>1. \A s \in State : [s EXCEPT !.link.ok = FALSE] \in State
    BY DEF State
  <2>2. QED
    BY <1>2, <2>1 DEF Expire
<1>3. CASE Outage
  BY <1>3 DEF Outage
<1>4. CASE CacheExpires
  BY <1>4 DEF CacheExpires
<1>5. CASE Start
  <2>1. waived' \subseteq Mails /\ old' \subseteq Mails /\ state' \in State
    BY <1>5, BaselineState DEF Start, Baseline, Older
  <2>2. disk' \in State \cup {NoFile} /\ faults' \in Nat /\ pc' = "idle"
    BY <1>5 DEF Start, Fault
  <2>3. QED
    BY <1>5, <2>1, <2>2 DEF Start
<1>6. CASE Poll
  <2>1. 1..arrived \subseteq Mails /\ state.link.at \in Nat
    BY PollerAssumption DEF Mails, State
  <2>2. (state.link.at + 1)..arrived \subseteq 1..arrived
    BY <2>1
  <2>3. \A b \in SUBSET Mails, r \in BOOLEAN :
           [NoCycle EXCEPT !.batch = b, !.to = arrived, !.relist = r] \in Cycle
    BY EmptyState DEF Cycle
  <2>4. cycle' \in Cycle
    BY <1>6, <2>1, <2>2, <2>3 DEF Poll, Relist, State
  <2>5. QED
    BY <1>6, <2>4 DEF Poll
<1>7. ASSUME NEW m \in cycle.batch, SkipOld(m), pc = "items"
      PROVE  TypeOK'
  BY <1>7, MarkSeenState DEF SkipOld, Cycle, Without
<1>8. ASSUME NEW m \in cycle.batch, Known(m), pc = "items"
      PROVE  TypeOK'
  BY <1>8 DEF Known, Cycle, Without
<1>9. ASSUME NEW m \in cycle.batch, Echo(m), pc = "items"
      PROVE  TypeOK'
  <2>1. m \in Mails
    BY DEF Cycle
  <2>2. cycle' \in Cycle
    BY <1>9, <2>1, PollerAssumption DEF Echo, Cycle, Without, Larger
  <2>3. QED
    BY <1>9, <2>1, <2>2, MarkSeenState DEF Echo
<1>10. ASSUME NEW m \in cycle.batch, Forward(m), pc = "items"
       PROVE  TypeOK'
  <2>1. m \in Mails
    BY DEF Cycle
  <2>2. cycle' \in Cycle /\ cycle'.mail = m
    <3>1. m \in 0..N
      BY <2>1, PollerAssumption DEF Mails
    <3>2. cycle.batch \ {m} \in SUBSET Mails
      BY DEF Cycle
    <3>3. \A b \in SUBSET Mails : [cycle EXCEPT !.batch = b] \in Cycle
      BY DEF Cycle
    <3>4. /\ Without(m) \in Cycle
          /\ m \in 0..N
      BY <3>1, <3>2, <3>3 DEF Without
    <3>5. \A c \in Cycle : /\ [c EXCEPT !.mail = m] \in Cycle
                           /\ [c EXCEPT !.mail = m].mail = m
                           /\ [c EXCEPT !.mail = m, !.taken = TRUE] \in Cycle
                           /\ [c EXCEPT !.mail = m, !.taken = TRUE].mail = m
      BY <3>4 DEF Cycle
    <3>6. \/ cycle' = [Without(m) EXCEPT !.mail = m]
          \/ cycle' = [Without(m) EXCEPT !.mail = m, !.taken = TRUE]
      BY <1>10 DEF Forward
    <3>7. QED
      BY <3>4, <3>5, <3>6
  <2>3. cache' \subseteq Mails /\ turns' \in [Mails -> Nat] /\ faults' \in Nat
    BY <1>10, <2>1 DEF Forward, Take, Fault
  <2>4. QED
    BY <1>10, <2>1, <2>2, <2>3 DEF Forward
<1>11. CASE Accepted
  <2>1. state' \in State /\ evicted' \subseteq Mails
    BY <1>11, MarkSeenState, ClearFailureState DEF Accepted
  <2>2. cycle' \in Cycle
    <3>1. cycle.newest \in Nat /\ Received[cycle.mail] \in Nat /\ 0 \in 0..N
      BY <1>11, PollerAssumption DEF Accepted, Cycle
    <3>2. Larger(cycle.newest, Received[cycle.mail]) \in Nat
      BY <3>1 DEF Larger
    <3>3. \A t \in Nat : [cycle EXCEPT !.forwarded = TRUE, !.mail = 0, !.taken = FALSE,
                                      !.newest = t] \in Cycle
      BY <3>1 DEF Cycle
    <3>4. cycle' = [cycle EXCEPT !.forwarded = TRUE, !.mail = 0, !.taken = FALSE,
                                 !.newest = Larger(cycle.newest, Received[cycle.mail])]
      BY <1>11 DEF Accepted, Cycle
    <3>5. QED
      BY <3>2, <3>3, <3>4
  <2>3. QED
    BY <1>11, <2>1, <2>2 DEF Accepted, Persist, Fault
<1>12. CASE Failed
  <2>1. 0 \in 0..N
    BY PollerAssumption
  <2>2. \A f \in SUBSET Mails : [cycle EXCEPT !.failed = f, !.mail = 0] \in Cycle
    BY <2>1 DEF Cycle
  <2>3. cycle' = [cycle EXCEPT !.failed = cycle.failed \cup {cycle.mail}, !.mail = 0]
    BY <1>12 DEF Failed, Cycle
  <2>4. cycle' \in Cycle
    <3>1. cycle.failed \cup {cycle.mail} \in SUBSET Mails
      BY <1>12 DEF Failed, Cycle
    <3>2. QED
      BY <2>2, <2>3, <3>1
  <2>5. QED
    BY <1>12, <2>4 DEF Failed
<1>13. ASSUME NEW m \in Mails, Account(m)
       PROVE  TypeOK'
  <2> DEFINE counted == [state EXCEPT !.failing = @ \cup {m},
                                      !.poison[m] = IF cycle.forwarded THEN @ + 1 ELSE @]
  <2>1. counted \in State
    <3>1. state.poison \in [Mails -> Nat] /\ state.failing \cup {m} \subseteq Mails
      BY DEF State
    <3>2. [state.poison EXCEPT ![m] = IF cycle.forwarded THEN @ + 1 ELSE @] \in [Mails -> Nat]
      BY <3>1
    <3>3. counted = [state EXCEPT !.failing = state.failing \cup {m},
                                  !.poison = [state.poison EXCEPT ![m] = IF cycle.forwarded THEN @ + 1 ELSE @]]
      BY DEF State
    <3>4. QED
      BY <3>1, <3>2, <3>3 DEF State
  <2>2. ClearFailure(MarkSeen(counted, m), m) \in State /\ Forgotten(counted, m) \subseteq Mails
    BY <2>1, MarkSeenState, ClearFailureState
  <2>3. state' \in State /\ evicted' \subseteq Mails
    BY <1>13, <2>1, <2>2 DEF Account, Hold
  <2>4. files' \subseteq Mails /\ faults' \in Nat
    BY <1>13 DEF Account, Hold, Fault
  <2>5. cycle' \in Cycle
    <3>1. \A f \in SUBSET Mails : /\ [cycle EXCEPT !.failed = f] \in Cycle
                                  /\ [cycle EXCEPT !.failed = f, !.held = TRUE] \in Cycle
      BY DEF Cycle
    <3>2. \/ cycle' = [cycle EXCEPT !.failed = cycle.failed \ {m}]
          \/ cycle' = [cycle EXCEPT !.failed = cycle.failed \ {m}, !.held = TRUE]
      BY <1>13 DEF Account, Hold, Cycle
    <3>3. cycle.failed \ {m} \in SUBSET Mails
      BY DEF Cycle
    <3>4. QED
      BY <3>1, <3>2, <3>3
  <2>6. QED
    BY <1>13, <2>3, <2>4, <2>5 DEF Account
<1>14. CASE FinishHeld
  BY <1>14, EmptyState DEF FinishHeld, Persist, Fault
<1>15. CASE FinishClean
  <2>1. state' \in State
    BY <1>15 DEF FinishClean, State, Cycle, Larger
  <2>2. QED
    BY <1>15, <2>1, EmptyState DEF FinishClean, Persist, Fault
<1>16. CASE Crash
  BY <1>16, EmptyState DEF Crash, Fault
<1>17. ASSUME NEW m \in Mails, Replay(m)
       PROVE  TypeOK'
  BY <1>17 DEF Replay, Take, Fault
<1>18. CASE UNCHANGED vars
  BY <1>18 DEF vars
<1>19. QED
  BY <1>1, <1>2, <1>3, <1>4, <1>5, <1>6, <1>7, <1>8, <1>9, <1>10, <1>11, <1>12, <1>13,
     <1>14, <1>15, <1>16, <1>17, <1>18 DEF Next, Poller, Item

\* Every variable keeps its type.
THEOREM TypeCorrect == Spec => []TypeOK
<1>1. TypeOK /\ [Next]_vars => TypeOK'
  BY TypeStep
<1>2. QED
  BY <1>1, TypeInit, PTL DEF Spec

------------------------------------------------------------------------------
(***************************************************************************)
(* What is settled stays settled, so a state that was safe stays safe.     *)
(***************************************************************************)

\* Nothing that settles a mail is taken back.
Grows == /\ \A m \in Mails : Settled(m) => Settled(m)'
         /\ waived \subseteq waived'
         /\ resets <= resets'
         /\ \A m \in Mails : turns[m] > 0 => turns'[m] > 0
         /\ \A m \in cache' : turns'[m] > 0

\* A mail the adapter takes has a turn, now or from before.
LEMMA Taken ==
    ASSUME TypeOK, NEW m \in Mails, Take(m), \A k \in cache : turns[k] > 0
    PROVE  /\ turns'[m] > 0
           /\ \A k \in Mails : turns[k] > 0 => turns'[k] > 0
           /\ \A k \in cache' : turns'[k] > 0
  BY DEF Take, TypeOK

\* Every step of the system grows what is settled.
LEMMA StepGrows == ASSUME TypeOK, PollInv, [Next]_vars PROVE Grows
<1> USE DEF Settled, worldVars, historyVars
<1>1. \A k \in cache : turns[k] > 0
  BY DEF PollInv
<1>2. CASE UNCHANGED << resets, cache, turns, files, waived >>
  BY <1>1, <1>2 DEF Grows, TypeOK
<1>3. CASE Expire
  BY <1>1, <1>3 DEF Expire, Grows, TypeOK
<1>4. CASE CacheExpires
  BY <1>1, <1>4 DEF CacheExpires, Grows, TypeOK
<1>5. CASE Start
  BY <1>1, <1>5 DEF Start, Baseline, Grows, TypeOK
<1>6. ASSUME NEW m \in cycle.batch, Forward(m)
      PROVE  Grows
  <2>1. m \in Mails
    BY DEF TypeOK, Cycle
  <2>2. CASE Take(m)
    BY <1>1, <1>6, <2>1, <2>2, Taken DEF Forward, Grows, TypeOK
  <2>3. CASE UNCHANGED << cache, turns >>
    BY <1>1, <1>6, <2>3 DEF Forward, Grows, TypeOK
  <2>4. QED
    BY <1>6, <2>2, <2>3 DEF Forward
<1>7. ASSUME NEW m \in Mails, Account(m)
      PROVE  Grows
  <2>1. files \subseteq files'
    BY <1>7 DEF Account, Hold
  <2>2. QED
    BY <1>1, <1>7, <2>1 DEF Account, Grows, TypeOK
<1>8. ASSUME NEW m \in Mails, Replay(m)
      PROVE  Grows
  <2>1. Take(m) /\ UNCHANGED << resets, waived >> /\ (files' = files \/ files' = files \ {m})
    BY <1>8 DEF Replay
  <2>2. QED
    BY <1>1, <2>1, Taken DEF Grows, TypeOK
<1>9. CASE Item
  <2>1. ASSUME NEW m \in cycle.batch, SkipOld(m) \/ Known(m) \/ Echo(m)
        PROVE  Grows
    BY <1>2, <2>1 DEF SkipOld, Known, Echo
  <2>2. QED
    BY <1>6, <1>9, <2>1 DEF Item
<1>10. QED
  BY <1>2, <1>3, <1>4, <1>5, <1>7, <1>8, <1>9
  DEF Next, Poller, Arrive, Outage, Poll, Accepted, Failed, FinishHeld, FinishClean, Crash, vars

\* A state that is left alone stays safe.
LEMMA SafeStays ==
    ASSUME TypeOK, TypeOK', Grows, NEW s \in State, Safe(s)
    PROVE  Safe(s)'
<1>1. Seen(s) \subseteq Mails
  BY DEF Seen, State
<1>2. resets \in Nat /\ resets' \in Nat /\ (resets' = 0 => resets = 0)
  BY DEF TypeOK, Grows
<1>3. QED
  BY <1>1, <1>2 DEF Grows, Safe, Passed, Ledger, Behind, Based

\* Marking a settled mail seen keeps a state safe.
LEMMA SafeMarked ==
    ASSUME NEW s \in State, NEW m \in Mails, Safe(s)', Settled(m)'
    PROVE  Safe(MarkSeen(s, m))'
  BY MarkSeenState DEF Safe, Passed, Ledger, Behind, Based

\* Clearing a failure keeps a state safe.
LEMMA SafeCleared ==
    ASSUME NEW s \in State, NEW m \in Mails, Safe(s)'
    PROVE  Safe(ClearFailure(s, m))'
  BY ClearFailureState DEF Safe, Passed, Ledger, Behind, Based

\* The next state of the poller is safe when its value is.
LEMMA StateIs == ASSUME NEW s, state' = s, Safe(s)' PROVE Safe(state)'
  BY DEF Safe, Passed, Ledger, Behind, Based

\* The next content of the file is safe when its value is.
LEMMA DiskIs == ASSUME NEW s, disk' = s, Safe(s)' PROVE Safe(disk)'
  BY DEF Safe, Passed, Ledger, Behind, Based

\* The file after a write, or after one that failed.
LEMMA DiskAfter ==
    ASSUME TypeOK, TypeOK', Grows, NEW s \in State, Safe(s)', Persist(s),
           disk # NoFile => Safe(disk)
    PROVE  disk' # NoFile => Safe(disk)'
<1>1. PICK d : d = disk
  OBVIOUS
<1>2. CASE disk' = s
  BY <1>2, DiskIs
<1>3. CASE disk' = disk /\ disk # NoFile
  <2>1. d \in State /\ Safe(d)
    BY <1>1, <1>3 DEF TypeOK
  <2>2. Safe(d)'
    BY <2>1, SafeStays
  <2>3. QED
    BY <1>1, <1>3, <2>2, DiskIs
<1>4. QED
  BY <1>2, <1>3 DEF Persist

\* A file no step wrote.
LEMMA DiskKept ==
    ASSUME TypeOK, TypeOK', Grows, disk' = disk, disk # NoFile => Safe(disk)
    PROVE  disk' # NoFile => Safe(disk)'
<1>1. PICK d : d = disk
  OBVIOUS
<1>2. CASE disk # NoFile
  <2>1. d \in State /\ Safe(d)
    BY <1>1, <1>2 DEF TypeOK
  <2>2. Safe(d)'
    BY <2>1, SafeStays
  <2>3. QED
    BY <1>1, <2>2, DiskIs
<1>3. QED
  BY <1>2

\* A state of the poller no step touched.
LEMMA StateKept ==
    ASSUME TypeOK, TypeOK', Grows, state' = state, Safe(state)
    PROVE  Safe(state)'
<1>1. PICK s : s = state
  OBVIOUS
<1>2. s \in State /\ Safe(s)
  BY <1>1 DEF TypeOK
<1>3. Safe(s)'
  BY <1>2, SafeStays
<1>4. QED
  BY <1>1, <1>3, StateIs

------------------------------------------------------------------------------
(***************************************************************************)
(* The invariant, one lemma per kind of step.                              *)
(***************************************************************************)

\* What every step that leaves the poller to itself keeps.
LEMMA WorldKeeps ==
    ASSUME TypeOK, TypeOK', PollInv, Grows,
           UNCHANGED << state, disk, pc, cycle >>
    PROVE  PollInv'
<1>1. disk' # NoFile => Safe(disk)'
  BY DiskKept DEF PollInv
<1>2. pc' # "off" => Safe(state)'
  BY StateKept DEF PollInv
<1>3. pc' \in {"items", "answer"} => Cycling'
  BY DEF PollInv, Cycling, Listed, Within, Answer, Grows, TypeOK, Cycle
<1>4. QED
  BY <1>1, <1>2, <1>3 DEF PollInv, Grows

\* A cursor that expires is worth no more than none.
LEMMA ExpireKeeps ==
    ASSUME TypeOK, TypeOK', PollInv, Grows, Expire
    PROVE  PollInv'
<1> DEFINE Lost(s) == [s EXCEPT !.link.ok = FALSE]
<1>1. resets' # 0
  BY DEF Expire, TypeOK
<1>2. ASSUME NEW s \in State, Safe(s)
      PROVE  Safe(Lost(s))'
  <2>1. Safe(s)'
    BY <1>2, SafeStays
  <2>2. /\ Lost(s).link.ok = FALSE /\ Lost(s).seen = s.seen
        /\ Lost(s).watermark = s.watermark /\ Lost(s).failing = s.failing
    BY DEF State
  <2>3. QED
    BY <1>1, <2>1, <2>2 DEF Safe, Passed, Ledger, Behind, Based, Seen
<1>3. disk' # NoFile => Safe(disk)'
  <2>1. PICK d : d = disk
    OBVIOUS
  <2>2. CASE disk # NoFile
    <3>1. d \in State /\ Safe(d) /\ disk' = Lost(d)
      BY <2>1, <2>2 DEF TypeOK, PollInv, Expire
    <3>2. QED
      BY <1>2, <3>1, DiskIs
  <2>3. QED
    BY <2>2 DEF Expire
<1>4. pc' # "off" => Safe(state)'
  <2>1. PICK s : s = state
    OBVIOUS
  <2>2. CASE pc # "off"
    <3>1. s \in State /\ Safe(s) /\ state' = Lost(s)
      BY <2>1, <2>2 DEF TypeOK, PollInv, Expire
    <3>2. QED
      BY <1>2, <3>1, StateIs
  <2>3. QED
    BY <2>2 DEF Expire
<1>5. pc' = "off" => state'.failing = {}
  BY DEF Expire, PollInv, TypeOK, State
<1>6. state'.link.ok = FALSE
  BY DEF Expire, TypeOK, State
<1>7. pc' \in {"items", "answer"} => Cycling'
  BY <1>6 DEF Expire, PollInv, Cycling, Listed, Within, Answer, Grows, TypeOK, Cycle
<1>8. QED
  BY <1>3, <1>4, <1>5, <1>7 DEF PollInv, Grows, Expire

\* A baseline is safe: what it is ahead of is waived.
LEMMA StartKeeps ==
    ASSUME TypeOK, TypeOK', PollInv, Grows, Start
    PROVE  PollInv'
<1>1. disk' # NoFile => Safe(disk)'
  <2>1. CASE disk' = NoFile
    BY <2>1
  <2>2. CASE disk' = disk
    BY <2>2, DiskKept DEF PollInv
  <2>3. QED
    BY <2>1, <2>2 DEF Start
<1>2. Safe(state)'
  <2>1. CASE disk # NoFile /\ state' = disk
    <3>1. PICK d : d = disk
      OBVIOUS
    <3>2. d \in State /\ Safe(d)
      BY <2>1, <3>1 DEF TypeOK, PollInv
    <3>3. QED
      BY <2>1, <3>1, <3>2, SafeStays, StateIs
  <2>2. ASSUME NEW found, Baseline(found)
        PROVE  Safe(state)'
    <3>1. PICK now \in Nat : /\ state' = [Empty EXCEPT !.watermark = now]
                             /\ waived' = waived \cup Older(now)
      BY <2>2, BaselineState
    <3>2. /\ state'.link.ok = FALSE /\ state'.watermark = now
          /\ state'.failing = {} /\ state'.seen = << >>
      BY <3>1 DEF Empty, NoLink
    <3>3. \A m \in Mails : Received[m] < now => m \in waived'
      BY <3>1 DEF Older
    <3>4. \A m \in Mails : m \in waived' => Settled(m)'
      BY DEF Settled
    <3>5. Seen(state') = {}
      BY <3>2 DEF Seen
    <3>6. QED
      BY <3>1, <3>2, <3>3, <3>4, <3>5 DEF Safe, Passed, Ledger, Behind, Based
  <2>3. QED
    BY <2>1, <2>2 DEF Start
<1>3. QED
  BY <1>1, <1>2 DEF PollInv, Grows, Start

\* A listing begins at the cursor, or with all there is.
LEMMA PollKeeps ==
    ASSUME TypeOK, TypeOK', PollInv, Grows, Poll
    PROVE  PollInv'
<1>1. disk' # NoFile => Safe(disk)'
  BY DiskKept DEF PollInv, Poll
<1>2. Safe(state) /\ Safe(state)'
  BY StateKept DEF PollInv, Poll
<1>3. /\ cycle'.batch = IF Relist THEN 1..arrived ELSE (state.link.at + 1)..arrived
      /\ cycle'.to = arrived /\ cycle'.failed = {} /\ cycle'.mail = 0
      /\ cycle'.newest = 0 /\ cycle'.relist = Relist /\ cycle'.taken = FALSE
  BY DEF Poll, NoCycle
<1>4. state.link.at \in Nat /\ arrived \in Nat /\ Mails = 1..N /\ N \in Nat
  BY PollerAssumption DEF TypeOK, State, Mails
<1>5. Listed'
  <2> SUFFICES ASSUME NEW m \in Mails, m <= arrived, m \notin cycle'.batch
               PROVE  Settled(m)'
    BY <1>3 DEF Listed
  <2>1. state.link.ok /\ m <= state.link.at
    BY <1>3, <1>4 DEF Relist
  <2>2. QED
    BY <1>2, <2>1 DEF Safe, Passed, Grows
<1>6. Cycling'
  <2>1. \A m \in cycle'.batch : m <= arrived
    BY <1>3, <1>4
  <2>2. Within'
    BY <1>3, <1>4, <2>1 DEF Within
  <2>3. cycle'.relist => ~state'.link.ok
    BY <1>3 DEF Poll, Relist
  <2>4. QED
    BY <1>3, <1>5, <2>2, <2>3 DEF Cycling, Answer, Poll
<1>7. QED
  BY <1>1, <1>2, <1>6 DEF PollInv, Grows, Poll

\* A mail that is skipped, known or the seat's own is settled.
LEMMA PassOverKeeps ==
    ASSUME TypeOK, TypeOK', PollInv, Grows, pc = "items",
           NEW m \in cycle.batch, SkipOld(m) \/ Known(m) \/ Echo(m)
    PROVE  PollInv'
<1>1. m \in Mails
  BY DEF TypeOK, Cycle
<1>2. Safe(state) /\ Cycling
  BY DEF PollInv
<1>3. Settled(m)
  <2>1. CASE SkipOld(m)
    <3>1. Received[m] < state.watermark /\ ~state.link.ok
      BY <1>2, <2>1 DEF SkipOld, Skipped, Cycling
    <3>2. CASE resets = 0
      BY <1>1, <1>2, <3>1, <3>2 DEF Safe, Based, Older, Settled
    <3>3. CASE resets > 0
      BY <1>1, <1>2, <3>1, <3>3 DEF Safe, Behind, Settled
    <3>4. QED
      BY <3>2, <3>3 DEF TypeOK
  <2>2. CASE Known(m)
    BY <1>2, <2>2 DEF Known, Safe, Ledger
  <2>3. CASE Echo(m)
    BY <2>3 DEF Echo, Settled
  <2>4. QED
    BY <2>1, <2>2, <2>3
<1>4. Settled(m)'
  BY <1>1, <1>3 DEF Grows
<1>5. disk' # NoFile => Safe(disk)'
  BY DiskKept DEF PollInv, SkipOld, Known, Echo
<1>6. Safe(state)' /\ state'.link = state.link
  <2>1. PICK s : s = state
    OBVIOUS
  <2>2. s \in State /\ Safe(s)'
    BY <1>2, <2>1, SafeStays DEF TypeOK
  <2>3. CASE state' = MarkSeen(s, m)
    BY <1>1, <1>4, <2>1, <2>2, <2>3, SafeMarked, StateIs, MarkSeenState
  <2>4. CASE state' = s
    BY <2>1, <2>2, <2>4, StateIs
  <2>5. QED
    BY <2>1, <2>3, <2>4 DEF SkipOld, Known, Echo
<1>7. /\ cycle'.batch = cycle.batch \ {m} /\ cycle'.failed = cycle.failed
      /\ cycle'.to = cycle.to /\ cycle'.held = cycle.held
      /\ cycle'.mail = cycle.mail /\ cycle'.relist = cycle.relist
      /\ cycle'.taken = cycle.taken
      /\ cycle'.newest = cycle.newest \/ cycle'.newest = Received[m]
      /\ pc' = "items"
  BY DEF SkipOld, Known, Echo, Without, TypeOK, Cycle, Larger
<1>8. Listed'
  <2> SUFFICES ASSUME NEW k \in Mails, k <= cycle'.to
               PROVE  Settled(k)' \/ cycle'.held \/ k \in cycle'.batch \cup cycle'.failed
    BY DEF Listed
  <2>1. Settled(k) \/ cycle.held \/ k \in cycle.batch \cup cycle.failed
    BY <1>2, <1>7 DEF Cycling, Listed
  <2>2. QED
    BY <1>4, <1>7, <2>1 DEF Grows
<1>9. Within'
  BY <1>1, <1>2, <1>7 DEF Cycling, Within
<1>10. Cycling'
  BY <1>2, <1>6, <1>7, <1>8, <1>9 DEF Cycling, Answer
<1>11. QED
  BY <1>5, <1>6, <1>7, <1>10 DEF PollInv, Grows

\* A mail on its way is in the hands of the cycle.
LEMMA ForwardKeeps ==
    ASSUME TypeOK, TypeOK', PollInv, Grows, pc = "items",
           NEW m \in cycle.batch, Forward(m)
    PROVE  PollInv'
<1>1. m \in Mails /\ m \notin Own
  BY DEF TypeOK, Cycle, Forward
<1>2. Safe(state) /\ Cycling
  BY DEF PollInv
<1>3. disk' # NoFile => Safe(disk)'
  BY DiskKept DEF PollInv, Forward
<1>4. Safe(state)'
  BY <1>2, StateKept DEF Forward
<1>5. /\ cycle'.batch = cycle.batch \ {m} /\ cycle'.failed = cycle.failed
      /\ cycle'.to = cycle.to /\ cycle'.held = cycle.held
      /\ cycle'.mail = m /\ cycle'.relist = cycle.relist
      /\ cycle'.newest = cycle.newest /\ pc' = "answer"
  BY DEF Forward, Without, TypeOK, Cycle
<1>6. cycle'.taken => turns'[m] > 0
  <2>1. CASE Take(m)
    BY <1>1, <2>1, Taken DEF PollInv
  <2>2. CASE cycle' = [Without(m) EXCEPT !.mail = m]
    <3>1. cycle'.taken = cycle.taken
      BY <2>2 DEF Without, TypeOK, Cycle
    <3>2. QED
      BY <1>2, <3>1 DEF Cycling, Answer
  <2>3. QED
    BY <2>1, <2>2 DEF Forward
<1>7. Listed'
  <2> SUFFICES ASSUME NEW k \in Mails, k <= cycle'.to
               PROVE  \/ Settled(k)' \/ cycle'.held \/ k \in cycle'.batch \cup cycle'.failed
                      \/ k = cycle'.mail
    BY <1>5 DEF Listed
  <2>1. Settled(k) \/ cycle.held \/ k \in cycle.batch \cup cycle.failed
    BY <1>2, <1>5 DEF Cycling, Listed
  <2>2. QED
    BY <1>5, <2>1 DEF Grows
<1>8. Cycling'
  BY <1>1, <1>2, <1>5, <1>6, <1>7 DEF Cycling, Within, Answer, Forward
<1>9. QED
  BY <1>3, <1>4, <1>5, <1>8 DEF PollInv, Grows

\* A mail the adapter took has its turn.
LEMMA AcceptedKeeps ==
    ASSUME TypeOK, TypeOK', PollInv, Grows, Accepted
    PROVE  PollInv'
<1>1. PICK m, s : m = cycle.mail /\ s = state
  OBVIOUS
<1>2. m \in Mails /\ s \in State
  BY <1>1 DEF TypeOK, Accepted
<1>3. Safe(state) /\ Cycling
  BY DEF PollInv, Accepted
<1>4. Settled(m)'
  <2>1. turns[m] > 0
    BY <1>1, <1>3 DEF Accepted, Cycling, Answer
  <2>2. turns'[m] > 0
    BY <1>2, <2>1 DEF Grows
  <2>3. QED
    BY <2>2 DEF Settled
<1>5. PICK t : t = ClearFailure(MarkSeen(s, m), m)
  OBVIOUS
<1>6. t \in State /\ Safe(t)' /\ t.link = s.link
  <2>1. Safe(s)'
    BY <1>1, <1>2, <1>3, SafeStays
  <2>2. Safe(MarkSeen(s, m))' /\ MarkSeen(s, m) \in State
    BY <1>2, <1>4, <2>1, SafeMarked, MarkSeenState
  <2>3. QED
    BY <1>2, <1>5, <2>2, SafeCleared, ClearFailureState, MarkSeenState
<1>7. state' = t
  BY <1>1, <1>5 DEF Accepted
<1>8. Safe(state)'
  BY <1>6, <1>7, StateIs
<1>9. disk' # NoFile => Safe(disk)'
  <2>1. Persist(t)
    BY <1>7 DEF Accepted
  <2>2. QED
    BY <1>6, <2>1, DiskAfter DEF PollInv
<1>10. /\ cycle'.batch = cycle.batch /\ cycle'.failed = cycle.failed
       /\ cycle'.to = cycle.to /\ cycle'.held = cycle.held
       /\ cycle'.mail = 0 /\ cycle'.relist = cycle.relist /\ cycle'.taken = FALSE
       /\ cycle'.newest = cycle.newest \/ cycle'.newest = Received[m]
       /\ pc' = "items"
  BY <1>1 DEF Accepted, TypeOK, Cycle, Larger
<1>11. Listed'
  <2> SUFFICES ASSUME NEW k \in Mails, k <= cycle'.to
               PROVE  Settled(k)' \/ cycle'.held \/ k \in cycle'.batch \cup cycle'.failed
    BY DEF Listed
  <2>1. Settled(k) \/ cycle.held \/ k \in cycle.batch \cup cycle.failed \/ k = m
    BY <1>1, <1>3, <1>10 DEF Cycling, Listed
  <2>2. QED
    BY <1>4, <1>10, <2>1 DEF Grows
<1>12. Within'
  <2>1. m <= cycle.to /\ 0 <= cycle.to
    BY <1>1, <1>3 DEF Cycling, Within, TypeOK, Cycle
  <2>2. QED
    BY <1>2, <1>3, <1>10, <2>1 DEF Cycling, Within
<1>13. Cycling'
  BY <1>1, <1>3, <1>6, <1>7, <1>10, <1>11, <1>12 DEF Cycling, Answer
<1>14. QED
  BY <1>8, <1>9, <1>10, <1>13 DEF PollInv, Grows

\* A mail that failed waits for the accounting.
LEMMA FailedKeeps ==
    ASSUME TypeOK, TypeOK', PollInv, Grows, Failed
    PROVE  PollInv'
<1>1. Safe(state) /\ Cycling
  BY DEF PollInv, Failed
<1>2. disk' # NoFile => Safe(disk)'
  BY DiskKept DEF PollInv, Failed
<1>3. Safe(state)'
  BY <1>1, StateKept DEF Failed
<1>4. /\ cycle'.batch = cycle.batch /\ cycle'.failed = cycle.failed \cup {cycle.mail}
      /\ cycle'.to = cycle.to /\ cycle'.held = cycle.held
      /\ cycle'.mail = 0 /\ cycle'.relist = cycle.relist /\ cycle'.taken = cycle.taken
      /\ cycle'.newest = cycle.newest /\ pc' = "items"
  BY DEF Failed, TypeOK, Cycle
<1>5. Listed'
  <2> SUFFICES ASSUME NEW k \in Mails, k <= cycle'.to
               PROVE  Settled(k)' \/ cycle'.held \/ k \in cycle'.batch \cup cycle'.failed
    BY DEF Listed
  <2>1. Settled(k) \/ cycle.held \/ k \in cycle.batch \cup cycle.failed \/ k = cycle.mail
    BY <1>1, <1>4 DEF Cycling, Listed
  <2>2. QED
    BY <1>4, <2>1 DEF Grows
<1>6. Within'
  <2>1. 0 <= cycle.to
    BY DEF TypeOK, Cycle
  <2>2. QED
    BY <1>1, <1>4, <2>1 DEF Cycling, Within
<1>7. Cycling'
  BY <1>1, <1>4, <1>5, <1>6 DEF Cycling, Answer, Failed
<1>8. QED
  BY <1>2, <1>3, <1>4, <1>7 DEF PollInv, Grows

\* A failure that is counted holds the cursor, or its dead letter settles it.
LEMMA AccountKeeps ==
    ASSUME TypeOK, TypeOK', PollInv, Grows, NEW m \in Mails, Account(m)
    PROVE  PollInv'
<1>1. Safe(state) /\ Cycling
  BY DEF PollInv, Account
<1>2. PICK s : s = state
  OBVIOUS
<1>3. PICK c : c = [s EXCEPT !.failing = @ \cup {m},
                             !.poison[m] = IF cycle.forwarded THEN @ + 1 ELSE @]
  OBVIOUS
<1>4. s \in State /\ Safe(s)' /\ m \notin Own
  BY <1>1, <1>2, SafeStays DEF TypeOK, Account, Cycling
<1>5. /\ c \in State /\ c.link = s.link /\ c.watermark = s.watermark
      /\ c.seen = s.seen /\ c.failing = s.failing \cup {m}
  <2>1. s.poison \in [Mails -> Nat] /\ s.failing \cup {m} \subseteq Mails
    BY <1>4 DEF State
  <2>2. [s.poison EXCEPT ![m] = IF cycle.forwarded THEN @ + 1 ELSE @] \in [Mails -> Nat]
    BY <2>1
  <2>3. c = [s EXCEPT !.failing = s.failing \cup {m},
                      !.poison = [s.poison EXCEPT ![m] = IF cycle.forwarded THEN @ + 1 ELSE @]]
    BY <1>3, <1>4 DEF State
  <2>4. QED
    BY <1>4, <2>1, <2>2, <2>3 DEF State
<1>6. Safe(c)'
  BY <1>4, <1>5 DEF Safe, Passed, Ledger, Behind, Based, Seen
<1>7. disk' # NoFile => Safe(disk)'
  BY DiskKept DEF PollInv, Account
<1>8. \/ /\ files' = files \cup {m}
         /\ state' = ClearFailure(MarkSeen(c, m), m)
         /\ cycle' = [cycle EXCEPT !.failed = @ \ {m}]
      \/ /\ state' = c
         /\ cycle' = [cycle EXCEPT !.failed = @ \ {m}, !.held = TRUE]
  BY <1>2, <1>3 DEF Account, Hold
<1>9. Safe(state)' /\ state'.link = state.link
  <2>1. CASE state' = c
    BY <1>2, <1>5, <1>6, <2>1, StateIs
  <2>2. CASE files' = files \cup {m} /\ state' = ClearFailure(MarkSeen(c, m), m)
    <3>1. Settled(m)'
      BY <2>2 DEF Settled
    <3>2. Safe(MarkSeen(c, m))' /\ MarkSeen(c, m) \in State /\ MarkSeen(c, m).link = c.link
      BY <1>5, <1>6, <3>1, SafeMarked, MarkSeenState
    <3>3. Safe(ClearFailure(MarkSeen(c, m), m))'
      BY <3>2, SafeCleared
    <3>4. state'.link = c.link
      BY <2>2, <3>2, ClearFailureState
    <3>5. QED
      BY <1>2, <1>5, <2>2, <3>3, <3>4, StateIs
  <2>3. QED
    BY <1>8, <2>1, <2>2
<1>10. /\ cycle'.batch = cycle.batch /\ cycle'.failed = cycle.failed \ {m}
       /\ cycle'.to = cycle.to /\ cycle'.mail = cycle.mail
       /\ cycle'.relist = cycle.relist /\ cycle'.taken = cycle.taken
       /\ cycle'.newest = cycle.newest /\ pc' = "items" /\ pc = "items"
       /\ (cycle.held => cycle'.held)
       /\ cycle'.held \/ m \in files'
  BY <1>8 DEF Account, TypeOK, Cycle
<1>11. Listed'
  <2> SUFFICES ASSUME NEW k \in Mails, k <= cycle'.to
               PROVE  Settled(k)' \/ cycle'.held \/ k \in cycle'.batch \cup cycle'.failed
    BY DEF Listed
  <2>1. Settled(k) \/ cycle.held \/ k \in cycle.batch \cup cycle.failed
    BY <1>1, <1>10 DEF Cycling, Listed
  <2>2. m \in files' => Settled(m)'
    BY DEF Settled
  <2>3. QED
    BY <1>10, <2>1, <2>2 DEF Grows
<1>12. Cycling'
  BY <1>1, <1>9, <1>10, <1>11 DEF Cycling, Within, Answer
<1>13. QED
  BY <1>7, <1>9, <1>10, <1>12 DEF PollInv, Grows

\* A cursor that stays writes what is safe.
LEMMA FinishHeldKeeps ==
    ASSUME TypeOK, TypeOK', PollInv, Grows, FinishHeld
    PROVE  PollInv'
<1>1. PICK s : s = state
  OBVIOUS
<1>2. s \in State /\ Safe(state)
  BY <1>1 DEF TypeOK, PollInv, FinishHeld, Done
<1>3. Safe(s)' /\ Safe(state)'
  BY <1>1, <1>2, SafeStays, StateIs DEF FinishHeld
<1>4. disk' # NoFile => Safe(disk)'
  <2>1. Persist(s)
    BY <1>1 DEF FinishHeld
  <2>2. QED
    BY <1>2, <1>3, <2>1, DiskAfter DEF PollInv
<1>5. QED
  BY <1>3, <1>4 DEF PollInv, Grows, FinishHeld

\* A cursor that moves passes only what the cycle settled, and a watermark that
\* rises leaves behind it only that, or late mail.
LEMMA FinishCleanKeeps ==
    ASSUME TypeOK, TypeOK', PollInv, Grows, FinishClean
    PROVE  PollInv'
<1>1. PICK s : s = state
  OBVIOUS
<1>2. s \in State /\ Safe(state) /\ Cycling /\ cycle \in Cycle
  BY <1>1 DEF TypeOK, PollInv, FinishClean, Done
<1>3. Safe(s)'
  BY <1>1, <1>2, SafeStays
<1>4. /\ state'.failing = {} /\ state'.seen = s.seen
      /\ state'.watermark = Larger(s.watermark, cycle.newest)
      /\ state'.link = [at |-> cycle.to, ok |-> TRUE]
  BY <1>1, <1>2 DEF FinishClean, State
<1>5. \A m \in Mails : m <= cycle.to => Settled(m)'
  BY <1>2 DEF FinishClean, Done, Cycling, Listed, Grows
<1>6. Behind(state)'
  <2> SUFFICES ASSUME NEW m \in Mails, Received[m] < state'.watermark
               PROVE  Settled(m)' \/ Late(m)
    BY DEF Behind
  <2>1. CASE Received[m] < s.watermark
    BY <1>3, <2>1 DEF Safe, Behind
  <2>2. CASE Received[m] < cycle.newest
    <3>1. PICK k \in Mails : k <= cycle.to /\ Received[k] = cycle.newest
      BY <1>2, <2>2, PollerAssumption DEF Cycling, Within, Mails
    <3>2. m \in Nat /\ k \in Nat /\ cycle.to \in Nat
      BY <1>2, PollerAssumption DEF Mails, Cycle
    <3>3. CASE m <= cycle.to
      BY <1>5, <3>3
    <3>4. CASE m > cycle.to
      <4>1. k \in 1..(m - 1)
        BY <3>1, <3>2, <3>4 DEF Mails
      <4>2. QED
        BY <2>2, <3>1, <4>1 DEF Late
    <3>5. QED
      BY <3>2, <3>3, <3>4
  <2>3. QED
    BY <1>4, <2>1, <2>2 DEF Larger
<1>7. Safe(state)'
  <2>1. Ledger(state)'
    BY <1>3, <1>4 DEF Safe, Ledger, Seen
  <2>2. Passed(state)'
    BY <1>4, <1>5 DEF Passed
  <2>3. Based(state)'
    BY <1>4 DEF Based
  <2>4. QED
    BY <1>4, <1>6, <2>1, <2>2, <2>3 DEF Safe
<1>8. PICK t : t = state'
  OBVIOUS
<1>9. disk' # NoFile => Safe(disk)'
  <2>1. Persist(state')
    BY DEF FinishClean
  <2>2. t \in State /\ Persist(t) /\ Safe(t)'
    BY <1>7, <1>8, <2>1 DEF TypeOK, Safe, Passed, Ledger, Behind, Based
  <2>3. QED
    BY <2>2, DiskAfter DEF PollInv
<1>10. QED
  BY <1>7, <1>9 DEF PollInv, Grows, FinishClean

\* A poller that dies leaves a safe file.
LEMMA CrashKeeps ==
    ASSUME TypeOK, TypeOK', PollInv, Grows, Crash
    PROVE  PollInv'
<1>1. disk' # NoFile => Safe(disk)'
  BY DiskKept DEF PollInv, Crash
<1>2. QED
  BY <1>1 DEF PollInv, Grows, Crash, Empty

------------------------------------------------------------------------------
(***************************************************************************)
(* The theorems.                                                           *)
(***************************************************************************)

LEMMA InvInit == Init => PollInv
  BY DEF Init, PollInv, Empty

LEMMA InvStep == TypeOK /\ PollInv /\ [Next]_vars => PollInv'
<1> SUFFICES ASSUME TypeOK, PollInv, [Next]_vars PROVE PollInv'
  OBVIOUS
<1>1. TypeOK' /\ Grows
  BY TypeStep, StepGrows
<1>2. CASE Arrive \/ Outage \/ CacheExpires \/ UNCHANGED vars
  BY <1>1, <1>2, WorldKeeps DEF Arrive, Outage, CacheExpires, vars
<1>3. CASE Expire
  BY <1>1, <1>3, ExpireKeeps
<1>4. CASE Start
  BY <1>1, <1>4, StartKeeps
<1>5. CASE Poll
  BY <1>1, <1>5, PollKeeps
<1>6. CASE Item
  BY <1>1, <1>6, PassOverKeeps, ForwardKeeps DEF Item
<1>7. CASE Accepted
  BY <1>1, <1>7, AcceptedKeeps
<1>8. CASE Failed
  BY <1>1, <1>8, FailedKeeps
<1>9. CASE \E m \in Mails : Account(m)
  BY <1>1, <1>9, AccountKeeps
<1>10. CASE FinishHeld \/ FinishClean
  BY <1>1, <1>10, FinishHeldKeeps, FinishCleanKeeps
<1>11. CASE Crash
  BY <1>1, <1>11, CrashKeeps
<1>12. CASE \E m \in Mails : Replay(m)
  BY <1>1, <1>12, WorldKeeps DEF Replay
<1>13. QED
  BY <1>2, <1>3, <1>4, <1>5, <1>6, <1>7, <1>8, <1>9, <1>10, <1>11, <1>12 DEF Next, Poller

\* Whatever the poller would skip, in memory or after a restart, is settled.
THEOREM PollInvariant == Spec => []PollInv
<1>1. TypeOK /\ PollInv /\ [Next]_vars => PollInv'
  BY InvStep
<1>2. QED
  BY <1>1, InvInit, TypeCorrect, PTL DEF Spec

\* No mail is lost behind the durable cursor or in the ledger, over crashes,
\* failed writes, lost answers, rejected mail and expired cursors (overlay#275).
THEOREM NoMailLost == Spec => []NoneLost
<1>1. PollInv => NoneLost
  BY DEF PollInv, Safe, Passed, Ledger, NoneLost
<1>2. QED
  BY <1>1, PollInvariant, PTL

\* A mail that failed enters the ledger only with a turn or a dead letter.
LEMMA HeldStep ==
    ASSUME TypeOK, PollInv, [Next]_vars, NEW h \in state.failing,
           h \in Seen(state') \ Seen(state)
    PROVE  turns[h] > 0 \/ h \in files'
<1>1. h \in Mails /\ pc # "off" /\ h \notin Own
  BY DEF TypeOK, State, PollInv, Safe
<1>2. state' # state
  OBVIOUS
<1>3. ASSUME NEW m \in Mails, state' = MarkSeen(state, m)
      PROVE  h = m
  BY <1>3, MarkSeenState DEF TypeOK
<1>4. CASE Item
  <2>1. PICK m \in cycle.batch : SkipOld(m) \/ Echo(m)
    BY <1>2, <1>4 DEF Item, Known, Forward
  <2>2. h = m
    BY <1>3, <2>1 DEF SkipOld, Echo, TypeOK, Cycle
  <2>3. QED
    BY <1>1, <2>1, <2>2 DEF SkipOld, Skipped, Echo
<1>5. CASE Accepted
  <2>1. cycle.mail \in Mails /\ turns[cycle.mail] > 0
    BY <1>5 DEF Accepted, TypeOK, PollInv, Cycling, Answer
  <2>2. Seen(state') \subseteq Seen(state) \cup {cycle.mail}
    BY <1>5, <2>1, MarkSeenState, ClearFailureState DEF Accepted, TypeOK
  <2>3. QED
    BY <2>1, <2>2
<1>6. ASSUME NEW m \in Mails, Account(m)
      PROVE  h \in files'
  <2>1. PICK c : c = [state EXCEPT !.failing = @ \cup {m},
                                   !.poison[m] = IF cycle.forwarded THEN @ + 1 ELSE @]
    OBVIOUS
  <2>2. c \in State /\ c.seen = state.seen
    <3>1. /\ state.poison \in [Mails -> Nat] /\ state.failing \cup {m} \subseteq Mails
          /\ state \in State
      BY DEF TypeOK, State
    <3>2. [state.poison EXCEPT ![m] = IF cycle.forwarded THEN @ + 1 ELSE @] \in [Mails -> Nat]
      BY <3>1
    <3>3. c = [state EXCEPT !.failing = state.failing \cup {m},
                            !.poison = [state.poison EXCEPT ![m] = IF cycle.forwarded THEN @ + 1 ELSE @]]
      BY <2>1, <3>1 DEF State
    <3>4. QED
      BY <3>1, <3>2, <3>3 DEF State
  <2>3. \/ files' = files \cup {m} /\ state' = ClearFailure(MarkSeen(c, m), m)
        \/ state' = c
    BY <1>6, <2>1 DEF Account, Hold
  <2>4. Seen(c) = Seen(state)
    BY <2>2 DEF Seen
  <2>5. files' = files \cup {m} /\ Seen(state') \subseteq Seen(state) \cup {m}
    BY <2>2, <2>3, <2>4, MarkSeenState, ClearFailureState
  <2>6. QED
    BY <2>5
<1>7. CASE Expire \/ FinishClean \/ Crash
  <2>1. state'.seen = state.seen \/ state' = Empty
    BY <1>7 DEF Expire, FinishClean, Crash, TypeOK, State
  <2>2. Seen(state') \subseteq Seen(state)
    BY <2>1, EmptyState DEF Seen
  <2>3. QED
    BY <2>2
<1>8. QED
  BY <1>1, <1>2, <1>4, <1>5, <1>6, <1>7
  DEF Next, Poller, Arrive, Outage, CacheExpires, Start, Poll, Failed, FinishHeld, Replay, vars

\* "a 410 during a hold can never skip the held mail": a mail that failed leaves
\* by a turn or a dead letter, whatever cursor expires when.
THEOREM HeldIsRetried == Spec => HeldNeverSkipped
<1>1. TypeOK /\ PollInv /\ [Next]_vars
        => [\A m \in state.failing :
              m \in Seen(state') \ Seen(state) => turns[m] > 0 \/ m \in files']_vars
  BY HeldStep
<1>2. QED
  BY <1>1, TypeCorrect, PollInvariant, PTL DEF Spec, HeldNeverSkipped

------------------------------------------------------------------------------
(***************************************************************************)
(* How often a mail runs.                                                  *)
(***************************************************************************)

\* The ledger holds mails, and 0 is none.
LEMMA SeenMails == (\A s \in State : Seen(s) \subseteq Mails) /\ 0 \notin Mails
<1>1. 0 \notin Mails
  BY PollerAssumption DEF Mails
<1>2. ASSUME NEW s \in State, NEW m \in Seen(s)
      PROVE  m \in Mails
  <2>1. s.seen \in Seq(Mails)
    BY DEF State
  <2>2. PICK i \in DOMAIN s.seen : m = s.seen[i]
    BY DEF Seen
  <2>3. QED
    BY <2>1, <2>2
<1>3. QED
  BY <1>1, <1>2

\* A mark that forgets nothing adds its mail.
LEMMA MarkSeenAdds ==
    ASSUME NEW s \in State, NEW m \in Mails, Forgotten(s, m) = {}
    PROVE  Seen(MarkSeen(s, m)) = Seen(s) \cup {m}
<1>1. CASE m \in Seen(s)
  BY <1>1 DEF MarkSeen
<1>2. CASE m \notin Seen(s)
  <2>1. Len(s.seen) < MaxSeen /\ s.seen \in Seq(Mails)
    BY <1>2 DEF Forgotten, State
  <2>2. MarkSeen(s, m).seen = Append(s.seen, m)
    BY <1>2, <2>1 DEF MarkSeen, State
  <2>3. PICK q \in Seq(Mails) : q = s.seen
    BY <2>1
  <2>4. /\ DOMAIN Append(q, m) = DOMAIN q \cup {Len(q) + 1}
        /\ Append(q, m)[Len(q) + 1] = m
        /\ \A i \in DOMAIN q : Append(q, m)[i] = q[i]
    OBVIOUS
  <2>5. {Append(q, m)[i] : i \in DOMAIN Append(q, m)} = {q[i] : i \in DOMAIN q} \cup {m}
    BY <2>4
  <2>6. QED
    BY <2>2, <2>3, <2>5 DEF Seen
<1>3. QED
  BY <1>1, <1>2

\* The count the accounting keeps changes no ledger.
LEMMA CountedState ==
    ASSUME TypeOK, NEW m \in Mails, NEW c,
           c = [state EXCEPT !.failing = @ \cup {m},
                             !.poison[m] = IF cycle.forwarded THEN @ + 1 ELSE @]
    PROVE  /\ c \in State /\ Seen(c) = Seen(state) /\ c.link = state.link
           /\ c.failing = state.failing \cup {m} /\ c.watermark = state.watermark
<1>1. state.poison \in [Mails -> Nat] /\ state.failing \cup {m} \subseteq Mails /\ state \in State
  BY DEF TypeOK, State
<1>2. [state.poison EXCEPT ![m] = IF cycle.forwarded THEN @ + 1 ELSE @] \in [Mails -> Nat]
  BY <1>1
<1>3. c = [state EXCEPT !.failing = state.failing \cup {m},
                        !.poison = [state.poison EXCEPT ![m] = IF cycle.forwarded THEN @ + 1 ELSE @]]
  BY <1>1 DEF State
<1>4. /\ c \in State /\ c.seen = state.seen /\ c.link = state.link
      /\ c.failing = state.failing \cup {m} /\ c.watermark = state.watermark
  BY <1>1, <1>2, <1>3 DEF State
<1>5. QED
  BY <1>4 DEF Seen

\* What the accounting of a failure does to the mail and to the state.
LEMMA Accounted ==
    ASSUME TypeOK, NEW m \in Mails, Account(m)
    PROVE  /\ state' \in State /\ state'.link = state.link /\ state'.watermark = state.watermark
           /\ state'.failing \subseteq state.failing \cup {m}
           /\ cycle'.failed = cycle.failed \ {m} /\ cycle'.batch = cycle.batch
           /\ cycle'.mail = cycle.mail /\ cycle'.to = cycle.to /\ cycle'.relist = cycle.relist
           /\ pc' = pc /\ pc = "items" /\ turns' = turns /\ m \in cycle.failed
           /\ \/ /\ Seen(state') = Seen(state)
                 /\ files' = files /\ faults' >= faults /\ evicted' = evicted
              \/ /\ Seen(state') \subseteq Seen(state) \cup {m}
                 /\ evicted' = {} => Seen(state') = Seen(state) \cup {m} /\ evicted = {}
                 /\ files' = files \cup {m} /\ faults' = faults
<1>1. PICK c : c = [state EXCEPT !.failing = @ \cup {m},
                                 !.poison[m] = IF cycle.forwarded THEN @ + 1 ELSE @]
  OBVIOUS
<1>2. /\ c \in State /\ Seen(c) = Seen(state) /\ c.link = state.link
      /\ c.failing = state.failing \cup {m} /\ c.watermark = state.watermark
  BY <1>1, CountedState
<1>3. /\ cycle'.failed = cycle.failed \ {m} /\ cycle'.batch = cycle.batch
      /\ cycle'.mail = cycle.mail /\ cycle'.to = cycle.to /\ cycle'.relist = cycle.relist
      /\ pc' = pc /\ pc = "items" /\ turns' = turns /\ m \in cycle.failed
  BY DEF Account, Hold, TypeOK, Cycle
<1>4. \/ /\ state' = c /\ files' = files /\ evicted' = evicted
         /\ faults' = faults \/ faults' = faults + 1
      \/ /\ state' = ClearFailure(MarkSeen(c, m), m)
         /\ evicted' = evicted \cup Forgotten(c, m)
         /\ files' = files \cup {m} /\ faults' = faults
  BY <1>1 DEF Account, Hold, Fault
<1>5. CASE state' = c /\ files' = files /\ evicted' = evicted /\ faults' >= faults
  BY <1>2, <1>3, <1>5
<1>6. CASE /\ state' = ClearFailure(MarkSeen(c, m), m)
           /\ evicted' = evicted \cup Forgotten(c, m)
           /\ files' = files \cup {m} /\ faults' = faults
  <2>1. /\ MarkSeen(c, m) \in State /\ Seen(MarkSeen(c, m)) \subseteq Seen(c) \cup {m}
        /\ MarkSeen(c, m).link = c.link /\ MarkSeen(c, m).failing = c.failing
        /\ MarkSeen(c, m).watermark = c.watermark
    BY <1>2, MarkSeenState
  <2>2. /\ state' \in State /\ Seen(state') = Seen(MarkSeen(c, m)) /\ state'.link = c.link
        /\ state'.failing \subseteq c.failing /\ state'.watermark = c.watermark
    BY <1>6, <2>1, ClearFailureState
  <2>3. evicted' = {} => Seen(MarkSeen(c, m)) = Seen(c) \cup {m} /\ evicted = {}
    BY <1>2, <1>6, MarkSeenAdds
  <2>4. QED
    BY <1>2, <1>3, <1>6, <2>1, <2>2, <2>3
<1>7. QED
  BY <1>4, <1>5, <1>6 DEF TypeOK

\* Every mail of a cycle is in one hand of it.
LEMMA HandsStep ==
    ASSUME TypeOK, Hands, [Next]_vars
    PROVE  Hands'
<1> USE DEF worldVars, historyVars
<1>1. CASE UNCHANGED << pc, cycle >> /\ Seen(state') = Seen(state)
  BY <1>1 DEF Hands
<1>2. CASE pc' \notin {"items", "answer"}
  BY <1>2 DEF Hands
<1>3. CASE Poll
  <2>1. cycle'.failed = {} /\ cycle'.mail = 0 /\ cycle'.batch \subseteq Nat \ {0} /\ state' = state
    BY <1>3 DEF Poll, NoCycle, TypeOK, State
  <2>2. 0 \notin Seen(state)
    BY SeenMails DEF TypeOK
  <2>3. QED
    BY <2>1, <2>2 DEF Hands
<1>4. ASSUME NEW m \in cycle.batch, pc = "items", SkipOld(m) \/ Known(m) \/ Echo(m)
      PROVE  Hands'
  <2>1. /\ cycle'.batch = cycle.batch \ {m} /\ cycle'.failed = cycle.failed
        /\ cycle'.mail = cycle.mail /\ pc' = "items"
    BY <1>4 DEF SkipOld, Known, Echo, Without, TypeOK, Cycle
  <2>2. Seen(state') \subseteq Seen(state) \cup {m}
    BY <1>4, MarkSeenState DEF SkipOld, Known, Echo, TypeOK, Cycle
  <2>3. QED
    BY <1>4, <2>1, <2>2 DEF Hands
<1>5. ASSUME NEW m \in cycle.batch, pc = "items", Forward(m)
      PROVE  Hands'
  <2>1. /\ cycle'.batch = cycle.batch \ {m} /\ cycle'.failed = cycle.failed
        /\ cycle'.mail = m /\ state' = state /\ m \notin Seen(state)
    BY <1>5 DEF Forward, Without, TypeOK, Cycle
  <2>2. QED
    BY <1>5, <2>1 DEF Hands
<1>6. CASE Accepted
  <2>1. /\ cycle'.batch = cycle.batch /\ cycle'.failed = cycle.failed /\ cycle'.mail = 0
        /\ cycle.mail \in Mails
    BY <1>6 DEF Accepted, TypeOK, Cycle
  <2>2. Seen(state') \subseteq Seen(state) \cup {cycle.mail} /\ state' \in State
    BY <1>6, <2>1, MarkSeenState, ClearFailureState DEF Accepted, TypeOK
  <2>3. 0 \notin Seen(state') /\ 0 \notin cycle.batch \cup cycle.failed
    BY <2>2, SeenMails DEF TypeOK, Cycle
  <2>4. QED
    BY <1>6, <2>1, <2>2, <2>3 DEF Hands, Accepted
<1>7. CASE Failed
  <2>1. /\ cycle'.batch = cycle.batch /\ cycle'.failed = cycle.failed \cup {cycle.mail}
        /\ cycle'.mail = 0 /\ state' = state /\ cycle.mail \in Mails
    BY <1>7 DEF Failed, TypeOK, Cycle
  <2>2. 0 \notin Seen(state) \cup cycle.batch \cup cycle.failed \cup {cycle.mail}
    BY <2>1, SeenMails DEF TypeOK, Cycle
  <2>3. QED
    BY <1>7, <2>1, <2>2 DEF Hands, Failed
<1>8. ASSUME NEW m \in Mails, Account(m)
      PROVE  Hands'
  <2>1. /\ Seen(state') \subseteq Seen(state) \cup {m} /\ m \in cycle.failed
        /\ cycle'.failed = cycle.failed \ {m} /\ cycle'.batch = cycle.batch
        /\ cycle'.mail = cycle.mail /\ pc = "items"
    BY <1>8, Accounted
  <2>2. QED
    BY <2>1 DEF Hands
<1>9. CASE Expire
  <2>1. state'.seen = state.seen
    BY <1>9 DEF Expire, TypeOK, State
  <2>2. Seen(state') = Seen(state)
    BY <2>1 DEF Seen
  <2>3. QED
    BY <1>1, <1>9, <2>2 DEF Expire
<1>10. CASE Item
  BY <1>4, <1>5, <1>10 DEF Item
<1>11. CASE Start \/ FinishHeld \/ FinishClean \/ Crash
  BY <1>2, <1>11 DEF Start, FinishHeld, FinishClean, Crash
<1>12. CASE Arrive \/ Outage \/ CacheExpires \/ UNCHANGED vars \/ \E m \in Mails : Replay(m)
  BY <1>1, <1>12 DEF Arrive, Outage, CacheExpires, Replay, vars
<1>13. QED
  BY <1>3, <1>6, <1>7, <1>8, <1>9, <1>10, <1>11, <1>12 DEF Next, Poller

\* One mail's turns and what is pending for it, against the faults.
LEMMA PendingKeeps ==
    ASSUME TypeOK, TypeOK', NEW k \in Mails, turns[k] + Pending(k) <= 1 + faults,
           \/ /\ turns'[k] = turns[k] /\ faults' >= faults
              /\ Forwardable(k)' => Forwardable(k)
              /\ k \in files' => k \in files
           \/ turns'[k] = turns[k] /\ faults' = faults /\ Forwardable(k) /\ ~Forwardable(k)'
           \/ /\ turns'[k] = turns[k] + 1 /\ faults' = faults
              /\ \/ Forwardable(k) /\ ~Forwardable(k)' /\ (k \in files' => k \in files)
                 \/ k \in files /\ k \notin files' /\ (Forwardable(k)' => Forwardable(k))
           \/ /\ turns'[k] = turns[k] + 1 /\ faults' = faults + 1
              /\ Forwardable(k)' => Forwardable(k)
              /\ k \in files' => k \in files
           \/ turns'[k] = turns[k] /\ faults' = faults + 1 /\ (k \in files' => k \in files)
    PROVE  turns'[k] + Pending(k)' <= 1 + faults'
<1>1. turns[k] \in Nat /\ turns'[k] \in Nat /\ faults \in Nat /\ faults' \in Nat
  BY DEF TypeOK
<1>2. QED
  BY <1>1 DEF Pending

\* What the ledger forgot stays forgotten.
LEMMA EvictedGrows ==
    ASSUME TypeOK, [Next]_vars, evicted' = {}
    PROVE  evicted = {}
<1> USE DEF worldVars, historyVars
<1>1. CASE evicted' = evicted
  BY <1>1
<1>2. CASE Item
  BY <1>2 DEF Item, SkipOld, Known, Echo, Forward
<1>3. CASE Accepted
  BY <1>3 DEF Accepted
<1>4. ASSUME NEW m \in Mails, Account(m)
      PROVE  evicted = {}
  BY <1>4, Accounted
<1>5. QED
  BY <1>1, <1>2, <1>3, <1>4 DEF Next, Poller, Arrive, Expire, Outage, CacheExpires, Start, Poll,
     Failed, FinishHeld, FinishClean, Crash, Replay, vars

\* A step takes a turn from what is pending for the mail, or pays for it with a
\* fault, or leaves it alone.
LEMMA TurnsStep ==
    ASSUME TypeOK, TypeOK', Hands, [Next]_vars, evicted' = {}, NEW k \in Mails,
           turns[k] + Pending(k) <= 1 + faults
    PROVE  turns'[k] + Pending(k)' <= 1 + faults'
<1> USE DEF worldVars, historyVars
<1> DEFINE Goal == turns'[k] + Pending(k)' <= 1 + faults'
<1>1. faults \in Nat /\ turns \in [Mails -> Nat] /\ state \in State /\ cycle \in Cycle
  BY DEF TypeOK
<1>2. ASSUME turns' = turns, faults' >= faults, Forwardable(k)' => Forwardable(k),
             k \in files' => k \in files
      PROVE  Goal
  BY <1>2, PendingKeeps
<1>3. CASE Arrive \/ Outage \/ CacheExpires \/ UNCHANGED vars
  BY <1>1, <1>2, <1>3 DEF Arrive, Outage, CacheExpires, vars, Forwardable
<1>4. CASE Expire
  <2>1. state'.seen = state.seen
    BY <1>1, <1>4 DEF Expire, State
  <2>2. Seen(state') = Seen(state)
    BY <2>1 DEF Seen
  <2>3. QED
    BY <1>1, <1>2, <1>4, <2>2 DEF Expire, Forwardable
<1>5. CASE Start
  BY <1>1, <1>2, <1>5 DEF Start, Fault, Forwardable
<1>6. CASE Poll
  BY <1>1, <1>2, <1>6 DEF Poll, Forwardable
<1>7. ASSUME NEW m \in cycle.batch, pc = "items", SkipOld(m) \/ Known(m) \/ Echo(m)
      PROVE  Goal
  <2>1. m \in Mails
    BY <1>1 DEF Cycle
  <2>2. Seen(state) \subseteq Seen(state')
    BY <1>1, <1>7, <2>1, MarkSeenAdds DEF SkipOld, Known, Echo
  <2>3. turns' = turns /\ faults' = faults /\ files' = files /\ pc' = "items"
    BY <1>7 DEF SkipOld, Known, Echo
  <2>4. Forwardable(k)' => Forwardable(k)
    BY <1>7, <2>2, <2>3 DEF Forwardable
  <2>5. QED
    BY <1>1, <1>2, <2>3, <2>4
<1>8. ASSUME NEW m \in cycle.batch, pc = "items", Forward(m)
      PROVE  Goal
  <2>1. /\ m \in Mails /\ m \notin Seen(state) /\ state' = state /\ files' = files
        /\ pc' = "answer" /\ cycle'.mail = m
    BY <1>1, <1>8 DEF Forward, Without, Cycle
  <2>2. Forwardable(k)' => Forwardable(k)
    BY <1>8, <2>1 DEF Forwardable
  <2>3. /\ faults' = faults \/ faults' = faults + 1
        /\ turns' = turns \/ turns' = [turns EXCEPT ![m] = @ + 1]
        /\ turns' = turns \/ faults' = faults + 1 \/ cycle'.taken
    BY <1>1, <1>8 DEF Forward, Take, Fault, Without, Cycle
  <2>4. CASE turns' = turns
    BY <1>1, <1>2, <2>1, <2>2, <2>3, <2>4
  <2>5. CASE turns' # turns /\ k # m
    <3>1. turns'[k] = turns[k] /\ faults' >= faults
      BY <1>1, <2>1, <2>3, <2>5
    <3>2. QED
      BY <2>1, <2>2, <3>1, PendingKeeps
  <2>6. CASE turns' # turns /\ k = m
    <3>1. turns'[k] = turns[k] + 1
      BY <1>1, <2>1, <2>3, <2>6
    <3>2. Forwardable(k)
      BY <1>8, <2>1, <2>6 DEF Forwardable
    <3>3. CASE faults' = faults + 1
      BY <2>1, <3>1, <3>2, <3>3, PendingKeeps
    <3>4. CASE faults' = faults /\ cycle'.taken
      <4>1. ~Forwardable(k)'
        BY <2>1, <2>6, <3>4 DEF Forwardable
      <4>2. QED
        BY <2>1, <3>1, <3>2, <3>4, <4>1, PendingKeeps
    <3>5. QED
      BY <2>3, <2>6, <3>3, <3>4
  <2>7. QED
    BY <2>4, <2>5, <2>6
<1>9. CASE Accepted
  <2>1. cycle.mail \in Mails
    BY <1>9 DEF Accepted, TypeOK
  <2>2. Forgotten(state, cycle.mail) = {}
    BY <1>9 DEF Accepted
  <2>3. Seen(state') = Seen(state) \cup {cycle.mail}
    <3>1. PICK c : c = MarkSeen(state, cycle.mail)
      OBVIOUS
    <3>2. c \in State /\ Seen(c) = Seen(state) \cup {cycle.mail}
      BY <1>1, <2>1, <2>2, <3>1, MarkSeenAdds, MarkSeenState
    <3>3. state' = ClearFailure(c, cycle.mail)
      BY <1>9, <3>1 DEF Accepted
    <3>4. QED
      BY <2>1, <3>2, <3>3, ClearFailureState
  <2>4. turns' = turns /\ files' = files /\ pc' = "items" /\ pc = "answer" /\ faults' >= faults
    BY <1>1, <1>9 DEF Accepted, Persist, Fault
  <2>5. Forwardable(k)' => Forwardable(k)
    BY <2>3, <2>4 DEF Forwardable
  <2>6. QED
    BY <1>2, <2>4, <2>5
<1>10. CASE Failed
  BY <1>1, <1>2, <1>10 DEF Failed, Forwardable
<1>11. ASSUME NEW m \in Mails, Account(m)
       PROVE  Goal
  <2>1. pc' = pc /\ pc = "items" /\ turns' = turns /\ m \in cycle.failed
    BY <1>11, Accounted
  <2>2. m \notin Seen(state)
    BY <2>1 DEF Hands
  <2>3. CASE Seen(state') = Seen(state) /\ files' = files /\ faults' >= faults
    BY <1>2, <2>1, <2>3 DEF Forwardable
  <2>4. CASE Seen(state') = Seen(state) \cup {m} /\ files' = files \cup {m} /\ faults' = faults
    <3>1. Forwardable(k)' => Forwardable(k) /\ k # m
      BY <2>1, <2>4 DEF Forwardable
    <3>2. CASE k = m
      <4>1. Forwardable(k) /\ ~Forwardable(k)'
        BY <2>1, <2>2, <3>1, <3>2 DEF Forwardable
      <4>2. QED
        BY <2>1, <2>4, <4>1, PendingKeeps
    <3>3. CASE k # m
      BY <1>1, <1>2, <2>1, <2>4, <3>1, <3>3
    <3>4. QED
      BY <3>2, <3>3
  <2>5. QED
    BY <1>11, <2>3, <2>4, Accounted
<1>12. CASE FinishHeld \/ FinishClean
  <2>1. state'.seen = state.seen
    BY <1>1, <1>12 DEF FinishHeld, FinishClean, State
  <2>2. Seen(state') = Seen(state) /\ pc = "items" /\ pc' = "idle"
    BY <1>12, <2>1 DEF FinishHeld, FinishClean, Done, Seen
  <2>3. turns' = turns /\ files' = files /\ faults' >= faults
    BY <1>1, <1>12 DEF FinishHeld, FinishClean, Persist, Fault
  <2>4. QED
    BY <1>2, <2>2, <2>3 DEF Forwardable
<1>13. CASE Crash
  <2>1. turns' = turns /\ files' = files /\ faults' = faults + 1
    BY <1>13 DEF Crash, Fault
  <2>2. QED
    BY <2>1, PendingKeeps
<1>14. ASSUME NEW m \in Mails, Replay(m)
       PROVE  Goal
  <2>1. /\ m \in files /\ turns' = [turns EXCEPT ![m] = @ + 1]
        /\ UNCHANGED << state, pc, cycle >>
        /\ \/ files' = files \ {m} /\ faults' = faults
           \/ files' = files /\ faults' = faults + 1
    BY <1>14 DEF Replay, Take, Fault
  <2>2. Forwardable(k)' = Forwardable(k)
    BY <2>1 DEF Forwardable
  <2>3. CASE k = m
    <3>1. turns'[k] = turns[k] + 1
      BY <1>1, <2>1, <2>3
    <3>2. QED
      BY <2>1, <2>2, <2>3, <3>1, PendingKeeps
  <2>4. CASE k # m
    <3>1. turns'[k] = turns[k] /\ faults' >= faults /\ (k \in files' => k \in files)
      BY <1>1, <2>1, <2>4
    <3>2. QED
      BY <2>2, <3>1, PendingKeeps
  <2>5. QED
    BY <2>3, <2>4
<1>15. CASE Item
  BY <1>7, <1>8, <1>15 DEF Item
<1>16. QED
  BY <1>3, <1>4, <1>5, <1>6, <1>9, <1>10, <1>11, <1>12, <1>13, <1>14, <1>15 DEF Next, Poller

LEMMA TurnsInit == TypeOK /\ Init => TurnsInv
  BY DEF Init, TurnsInv, Hands, Pending, Forwardable

\* A mail runs more than one turn only by as many faults: what the adapter took
\* is in the ledger before the next mail is looked at, and a dead letter leaves
\* the mail one turn and the ledger none.
THEOREM TurnsFew == Spec => []TurnsBounded
<1>1. TypeOK /\ TypeOK' /\ TurnsInv /\ [Next]_vars => TurnsInv'
  BY HandsStep, TurnsStep, EvictedGrows DEF TurnsInv
<1>2. TypeOK /\ TurnsInv => TurnsBounded
  <2>1. ASSUME TypeOK, NEW m \in Mails, turns[m] + Pending(m) <= 1 + faults
        PROVE  turns[m] <= 1 + faults
    <3>1. turns[m] \in Nat /\ faults \in Nat /\ Pending(m) \in Nat
      BY <2>1 DEF TypeOK, Pending
    <3>2. QED
      BY <2>1, <3>1
  <2>2. QED
    BY <2>1 DEF TurnsInv, TurnsBounded
<1>3. QED
  BY <1>1, <1>2, TypeCorrect, TypeInit, TurnsInit, PTL DEF Spec

------------------------------------------------------------------------------
(***************************************************************************)
(* Mail of before the poller's time.                                       *)
(***************************************************************************)

\* A state that has no new failure of that mail, whose watermark has not fallen
\* and whose cursor has not gone back keeps it out.
LEMMA GuardedKept ==
    ASSUME NEW s \in State, NEW t \in State, Guarded(s), old \subseteq Mails,
           t.failing \cap old \subseteq s.failing, t.watermark >= s.watermark,
           t.link.ok => \/ s.link.ok /\ t.link.at = s.link.at
                        \/ \A m \in old : m <= t.link.at
    PROVE  Guarded(t)
<1>1. ASSUME NEW m \in old
      PROVE  m \notin t.failing /\ Received[m] < t.watermark
  <2>1. Received[m] \in Nat /\ s.watermark \in Nat /\ t.watermark \in Nat
    BY PollerAssumption DEF State
  <2>2. m \notin s.failing /\ Received[m] < s.watermark
    BY DEF Guarded
  <2>3. QED
    BY <2>1, <2>2
<1>2. ASSUME NEW m \in old, t.link.ok
      PROVE  m <= t.link.at
  BY <1>2 DEF Guarded
<1>3. QED
  BY <1>1, <1>2 DEF Guarded

\* When no mail becomes old, the file and the memory are kept by what they keep.
LEMMA HistoryKept ==
    ASSUME TypeOK, HistoryInv, old' = old, waived' = waived, arrived' \in Nat, arrived' >= arrived,
           \A m \in old : turns'[m] = turns[m], files' \cap old \subseteq files,
           \/ disk' = disk
           \/ disk' = state' /\ Guarded(state)',
           pc' # "off" => Guarded(state)', InCycle'
    PROVE  HistoryInv'
<1>1. HistoryStaysHistory'
  BY DEF HistoryInv, HistoryStaysHistory
<1>2. old' \subseteq waived' \cap (1..arrived') /\ old' \cap files' = {}
  BY DEF HistoryInv, TypeOK
<1>3. disk' # NoFile => Guarded(disk)'
  <2>1. CASE disk' = disk
    BY <2>1 DEF HistoryInv, Guarded
  <2>2. CASE disk' = state' /\ Guarded(state)'
    BY <2>2 DEF Guarded
  <2>3. QED
    BY <2>1, <2>2
<1>4. QED
  BY <1>1, <1>2, <1>3 DEF HistoryInv, InCycle

LEMMA HistoryStart ==
    ASSUME TypeOK, TypeOK', HistoryInv, Start
    PROVE  HistoryInv'
<1> USE DEF worldVars, historyVars
<1>1. /\ pc = "off" /\ pc' = "idle"
      /\ UNCHANGED << arrived, files, turns >>
  BY DEF Start
<1>2. CASE disk # NoFile /\ state' = disk /\ UNCHANGED << disk, waived, old >>
  <2>1. Guarded(state)'
    BY <1>2 DEF HistoryInv, Guarded
  <2>2. QED
    BY <1>1, <1>2, <2>1, HistoryKept DEF InCycle, TypeOK
<1>3. ASSUME NEW found \in SUBSET (1..arrived), Baseline(found),
             disk' = NoFile \/ (found = {} /\ disk' = disk)
      PROVE  HistoryInv'
  <2>1. PICK now \in Now :
              /\ state' = [Empty EXCEPT !.watermark = now]
              /\ waived' = waived \cup Older(now)
              /\ old' = old \cup {m \in Older(now) \cap found : turns[m] = 0 /\ m \notin files}
    BY <1>3 DEF Baseline
  <2>2. old' \subseteq Older(now) /\ waived \subseteq Older(now)
    BY <2>1 DEF HistoryInv, Now
  <2>3. Guarded(state)'
    <3>1. state'.failing = {} /\ state'.watermark = now /\ state'.link.ok = FALSE
      BY <2>1, EmptyState DEF Empty, NoLink
    <3>2. QED
      BY <2>2, <3>1 DEF Guarded, Older
  <2>4. disk' # NoFile => Guarded(disk)'
    BY <1>3, <2>1 DEF HistoryInv, Guarded
  <2>5. HistoryStaysHistory'
    BY <1>1, <2>1 DEF HistoryInv, HistoryStaysHistory
  <2>6. old' \subseteq waived' \cap (1..arrived') /\ old' \cap files' = {}
    BY <1>1, <1>3, <2>1 DEF HistoryInv
  <2>7. QED
    BY <1>1, <2>3, <2>4, <2>5, <2>6 DEF HistoryInv, InCycle
<1>4. QED
  BY <1>2, <1>3 DEF Start

LEMMA HistoryPoll ==
    ASSUME TypeOK, TypeOK', HistoryInv, Poll
    PROVE  HistoryInv'
<1> USE DEF worldVars, historyVars
<1>1. /\ pc = "idle" /\ UNCHANGED << arrived, state, disk, files, turns, old, waived >>
      /\ cycle'.failed = {} /\ cycle'.to = arrived /\ cycle'.relist = Relist
      /\ cycle'.batch = (IF Relist THEN 1..arrived ELSE (state.link.at + 1)..arrived)
      /\ pc' = "items"
  BY DEF Poll, NoCycle
<1>2. Guarded(state)'
  BY <1>1 DEF HistoryInv, Guarded
<1>3. old \subseteq 1..arrived /\ state.link.at \in Nat /\ arrived \in Nat
  BY DEF HistoryInv, TypeOK, State
<1>4. ASSUME NEW m \in old, ~Relist
      PROVE  m \notin (state.link.at + 1)..arrived
  <2>1. m <= state.link.at /\ m \in Nat
    BY <1>1, <1>3, <1>4 DEF HistoryInv, Guarded, Relist
  <2>2. QED
    BY <1>3, <2>1
<1>5. InCycle'
  BY <1>1, <1>3, <1>4 DEF InCycle
<1>6. QED
  BY <1>1, <1>2, <1>3, <1>5, HistoryKept

LEMMA HistoryItem ==
    ASSUME TypeOK, TypeOK', HistoryInv, Item
    PROVE  HistoryInv'
<1> USE DEF worldVars, historyVars
<1>1. /\ pc = "items" /\ Guarded(state) /\ old \subseteq Mails /\ InCycle
      /\ state \in State /\ state' \in State /\ cycle \in Cycle /\ arrived \in Nat
  BY DEF Item, HistoryInv, InCycle, TypeOK
<1>2. PICK m \in cycle.batch : SkipOld(m) \/ Known(m) \/ Echo(m) \/ Forward(m)
  BY DEF Item
<1>3. m \in Mails
  BY <1>1 DEF Cycle
<1>4. CASE SkipOld(m) \/ Known(m) \/ Echo(m)
  <2>1. /\ cycle'.batch \subseteq cycle.batch /\ cycle'.failed = cycle.failed
        /\ cycle'.to = cycle.to /\ cycle'.relist = cycle.relist
        /\ UNCHANGED << arrived, disk, files, pc, turns, waived, old >>
    BY <1>1, <1>4 DEF SkipOld, Known, Echo, Without, Cycle
  <2>2. /\ state'.failing = state.failing /\ state'.watermark = state.watermark
        /\ state'.link = state.link
    BY <1>1, <1>3, <1>4, MarkSeenState DEF SkipOld, Known, Echo
  <2>3. Guarded(state')
    <3>1. state.watermark \in Nat
      BY <1>1 DEF State
    <3>2. QED
      BY <1>1, <2>2, <3>1, GuardedKept
  <2>4. Guarded(state)'
    BY <2>1, <2>3 DEF Guarded
  <2>5. InCycle'
    BY <1>1, <2>1 DEF InCycle
  <2>6. QED
    BY <1>1, <2>1, <2>4, <2>5, HistoryKept
<1>5. CASE Forward(m)
  <2>1. m \notin old
    <3>1. SUFFICES ASSUME m \in old PROVE FALSE
      OBVIOUS
    <3>2. cycle.relist /\ m \notin state.failing /\ Received[m] < state.watermark
      BY <1>1, <3>1 DEF InCycle, Guarded
    <3>3. QED
      BY <1>5, <3>2 DEF Forward, Skipped
  <2>2. /\ cycle'.batch \subseteq cycle.batch /\ cycle'.failed = cycle.failed
        /\ cycle'.to = cycle.to /\ cycle'.relist = cycle.relist /\ cycle'.mail = m
        /\ UNCHANGED << arrived, state, disk, files, waived, old >>
        /\ turns' = turns \/ turns' = [turns EXCEPT ![m] = @ + 1]
    BY <1>1, <1>5 DEF Forward, Take, Without, Cycle
  <2>3. \A k \in old : turns'[k] = turns[k]
    BY <1>1, <2>1, <2>2 DEF TypeOK
  <2>4. Guarded(state)'
    BY <1>1, <2>2 DEF Guarded
  <2>5. InCycle'
    BY <1>1, <2>1, <2>2 DEF InCycle
  <2>6. QED
    BY <1>1, <2>2, <2>3, <2>4, <2>5, HistoryKept
<1>6. QED
  BY <1>2, <1>4, <1>5

LEMMA HistoryAnswer ==
    ASSUME TypeOK, TypeOK', HistoryInv, Accepted \/ Failed
    PROVE  HistoryInv'
<1> USE DEF worldVars, historyVars
<1>1. /\ pc = "answer" /\ Guarded(state) /\ old \subseteq Mails /\ InCycle
      /\ state \in State /\ state' \in State /\ cycle \in Cycle /\ arrived \in Nat
      /\ cycle.mail \in Mails
  BY DEF Accepted, Failed, HistoryInv, InCycle, TypeOK
<1>2. /\ cycle'.batch = cycle.batch /\ cycle'.failed \subseteq cycle.failed \cup {cycle.mail}
      /\ cycle'.to = cycle.to /\ cycle'.relist = cycle.relist /\ pc' = "items"
      /\ UNCHANGED << arrived, files, turns, waived, old >>
      /\ disk' = disk \/ disk' = state'
  BY <1>1 DEF Accepted, Failed, Persist, Cycle
<1>3. /\ state'.failing \subseteq state.failing /\ state'.watermark = state.watermark
      /\ state'.link = state.link
  <2>1. CASE Failed
    BY <2>1 DEF Failed
  <2>2. CASE Accepted
    <3>1. PICK c : c = MarkSeen(state, cycle.mail)
      OBVIOUS
    <3>2. /\ c \in State /\ c.failing = state.failing /\ c.watermark = state.watermark
          /\ c.link = state.link
      BY <1>1, <3>1, MarkSeenState
    <3>3. state' = ClearFailure(c, cycle.mail)
      BY <2>2, <3>1 DEF Accepted
    <3>4. QED
      BY <1>1, <3>2, <3>3, ClearFailureState
  <2>3. QED
    BY <2>1, <2>2
<1>4. Guarded(state')
  <2>1. state.watermark \in Nat
    BY <1>1 DEF State
  <2>2. QED
    BY <1>1, <1>3, <2>1, GuardedKept
<1>5. Guarded(state)'
  BY <1>2, <1>4 DEF Guarded
<1>6. InCycle'
  BY <1>1, <1>2 DEF InCycle
<1>7. QED
  BY <1>1, <1>2, <1>5, <1>6, HistoryKept

LEMMA HistoryAccount ==
    ASSUME TypeOK, TypeOK', HistoryInv, NEW m \in Mails, Account(m)
    PROVE  HistoryInv'
<1> USE DEF worldVars, historyVars
<1>1. /\ state' \in State /\ state'.link = state.link /\ state'.watermark = state.watermark
      /\ state'.failing \subseteq state.failing \cup {m}
      /\ cycle'.failed = cycle.failed \ {m} /\ cycle'.batch = cycle.batch
      /\ cycle'.to = cycle.to /\ cycle'.relist = cycle.relist
      /\ pc' = pc /\ pc = "items" /\ turns' = turns /\ m \in cycle.failed
      /\ files' \subseteq files \cup {m}
  BY Accounted
<1>2. UNCHANGED << arrived, disk, waived, old >>
  BY DEF Account
<1>3. /\ Guarded(state) /\ old \subseteq Mails /\ InCycle /\ m \notin old
      /\ state \in State /\ arrived \in Nat
  BY <1>1 DEF HistoryInv, InCycle, TypeOK
<1>4. Guarded(state')
  <2>1. state.watermark \in Nat
    BY <1>3 DEF State
  <2>2. QED
    BY <1>1, <1>3, <2>1, GuardedKept
<1>5. Guarded(state)'
  BY <1>2, <1>4 DEF Guarded
<1>6. InCycle'
  BY <1>1, <1>2, <1>3 DEF InCycle
<1>7. QED
  BY <1>1, <1>2, <1>3, <1>5, <1>6, HistoryKept

LEMMA HistoryFinish ==
    ASSUME TypeOK, TypeOK', HistoryInv, FinishHeld \/ FinishClean
    PROVE  HistoryInv'
<1> USE DEF worldVars, historyVars
<1>1. /\ pc = "items" /\ pc' = "idle"
      /\ UNCHANGED << arrived, files, turns, waived, old >>
      /\ disk' = disk \/ disk' = state'
  BY DEF FinishHeld, FinishClean, Done, Persist
<1>2. /\ Guarded(state) /\ old \subseteq Mails /\ InCycle /\ arrived \in Nat
      /\ state \in State /\ state' \in State /\ cycle \in Cycle
  BY <1>1 DEF HistoryInv, InCycle, TypeOK
<1>3. Guarded(state')
  <2>1. CASE FinishHeld
    BY <1>2, <2>1 DEF FinishHeld
  <2>2. CASE FinishClean
    <3>1. /\ state'.failing = {} /\ state'.link.at = cycle.to
          /\ state'.watermark = Larger(state.watermark, cycle.newest)
      BY <1>2, <2>2 DEF FinishClean, State
    <3>2. state.watermark \in Nat /\ cycle.newest \in Nat
      BY <1>2 DEF State, Cycle
    <3>3. state'.watermark >= state.watermark
      BY <3>1, <3>2 DEF Larger
    <3>4. \A m \in old : m <= state'.link.at
      BY <1>1, <1>2, <3>1 DEF InCycle
    <3>5. QED
      BY <1>2, <3>1, <3>3, <3>4, GuardedKept
  <2>3. QED
    BY <2>1, <2>2
<1>4. Guarded(state)'
  BY <1>1, <1>3 DEF Guarded
<1>5. QED
  BY <1>1, <1>2, <1>4, HistoryKept DEF InCycle

LEMMA HistoryExpire ==
    ASSUME TypeOK, TypeOK', HistoryInv, Expire
    PROVE  HistoryInv'
<1> USE DEF worldVars, historyVars
<1>1. ASSUME NEW s \in State, Guarded(s)
      PROVE  Guarded([s EXCEPT !.link.ok = FALSE])
  BY <1>1 DEF Guarded, State
<1>2. UNCHANGED << arrived, files, pc, cycle, turns, waived, old >>
  BY DEF Expire
<1>3. pc # "off" => Guarded(state)'
  BY <1>1, <1>2 DEF Expire, HistoryInv, TypeOK, Guarded
<1>4. disk' # NoFile => Guarded(disk)'
  <2>1. CASE disk = NoFile
    BY <2>1 DEF Expire
  <2>2. CASE disk # NoFile
    <3>1. disk \in State /\ Guarded(disk) /\ disk' = [disk EXCEPT !.link.ok = FALSE]
      BY <2>2 DEF TypeOK, HistoryInv, Expire
    <3>2. Guarded([disk EXCEPT !.link.ok = FALSE])
      BY <1>1, <3>1
    <3>3. QED
      BY <1>2, <3>1, <3>2 DEF Guarded
  <2>3. QED
    BY <2>1, <2>2
<1>5. QED
  BY <1>2, <1>3, <1>4 DEF HistoryInv, HistoryStaysHistory, InCycle

LEMMA HistoryStep == TypeOK /\ TypeOK' /\ HistoryInv /\ [Next]_vars => HistoryInv'
<1> SUFFICES ASSUME TypeOK, TypeOK', HistoryInv, [Next]_vars PROVE HistoryInv'
  OBVIOUS
<1> USE DEF worldVars, historyVars
<1>1. arrived \in Nat /\ old \subseteq Mails /\ turns \in [Mails -> Nat]
  BY DEF TypeOK
<1>2. CASE Arrive \/ Outage \/ CacheExpires \/ UNCHANGED vars
  <2>1. /\ UNCHANGED << state, disk, files, pc, cycle, turns, waived, old >>
        /\ arrived' \in Nat /\ arrived' >= arrived
    BY <1>1, <1>2 DEF Arrive, Outage, CacheExpires, vars
  <2>2. (pc # "off" => Guarded(state)') /\ InCycle'
    BY <2>1 DEF HistoryInv, Guarded, InCycle
  <2>3. QED
    BY <2>1, <2>2, HistoryKept
<1>3. CASE Crash
  <2>1. pc' = "off" /\ UNCHANGED << arrived, disk, files, turns, waived, old >>
    BY <1>3 DEF Crash
  <2>2. QED
    BY <1>1, <2>1, HistoryKept DEF InCycle
<1>4. ASSUME NEW m \in Mails, Replay(m)
      PROVE  HistoryInv'
  <2>1. /\ UNCHANGED << arrived, state, disk, pc, cycle, waived, old >> /\ files' \subseteq files
        /\ m \in files /\ turns' = [turns EXCEPT ![m] = @ + 1]
    BY <1>4 DEF Replay, Take
  <2>2. \A k \in old : turns'[k] = turns[k]
    BY <1>1, <2>1 DEF HistoryInv
  <2>3. (pc # "off" => Guarded(state)') /\ InCycle'
    BY <2>1 DEF HistoryInv, Guarded, InCycle
  <2>4. QED
    BY <1>1, <2>1, <2>2, <2>3, HistoryKept
<1>5. QED
  BY <1>2, <1>3, <1>4, HistoryStart, HistoryPoll, HistoryItem, HistoryAnswer, HistoryAccount,
     HistoryFinish, HistoryExpire DEF Next, Poller

\* Mail that was in the inbox when the poller started from a missing or corrupt
\* file is never run as a new turn: the watermark of that start is above it for
\* ever, in memory and on disk, and no cursor leads back to it.
THEOREM HistoryNeverRuns == Spec => []HistoryStaysHistory
<1>1. Init => HistoryInv
  BY DEF Init, HistoryInv, HistoryStaysHistory, InCycle
<1>2. TypeOK /\ TypeOK' /\ HistoryInv /\ [Next]_vars => HistoryInv'
  BY HistoryStep
<1>3. HistoryInv => HistoryStaysHistory
  BY DEF HistoryInv
<1>4. QED
  BY <1>1, <1>2, <1>3, TypeCorrect, PTL DEF Spec
===============================================================================
