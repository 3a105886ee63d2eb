-------------------------- MODULE ReplyChannelProofs --------------------------
(***************************************************************************)
(* Proofs about the reply channel, for every set of emails and recipients, *)
(* every policy, and any number of restarts.                               *)
(***************************************************************************)
EXTENDS ReplyChannel, FiniteSetTheorems, SequenceTheorems, WellFoundedInduction, TLAPS

(***************************************************************************)
(* The row table: a function with the table's ids and rows for values is a *)
(* table again, and changing one status keeps ids and emails.              *)
(***************************************************************************)

\* A function on the ids of a table, with rows for values, is a table of the
\* same length (every UPDATE of held_store keeps the row ids).
LEMMA SameIds ==
    ASSUME NEW S, NEW t \in Seq(S), NEW u \in [DOMAIN t -> S]
    PROVE  u \in Seq(S) /\ DOMAIN u = DOMAIN t
<1>1. Len(t) \in Nat /\ DOMAIN t = 1 .. Len(t)
  BY LenProperties
<1>2. u \in UNION {[1 .. n -> S] : n \in Nat}
  BY <1>1
<1>3. QED
  BY <1>2, SeqDef

\* Setting the status of one row (claim, mark_terminal).
LEMMA StatusSet ==
    ASSUME TypeOK, NEW i \in RowIds, NEW s \in RowStatus, SetStatus(i, s)
    PROVE  /\ rows' \in Seq(Row)
           /\ RowIds' = RowIds
           /\ \A j \in RowIds : /\ rows'[j].msg = rows[j].msg
                                /\ rows'[j].status = IF j = i THEN s ELSE rows[j].status
<1>1. rows \in Seq(Row) /\ RowIds = 1 .. Len(rows) /\ rows \in [RowIds -> Row]
  BY LenProperties DEF TypeOK, RowIds
<1>2. rows' = [rows EXCEPT ![i] = [rows[i] EXCEPT !.status = s]]
  BY DEF SetStatus
<1>3. \A j \in RowIds : rows[j] \in Row
  BY <1>1
<1>4. [rows[i] EXCEPT !.status = s] \in Row
  BY <1>3 DEF Row
<1>5. rows' \in [RowIds -> Row]
  BY <1>1, <1>2, <1>4
<1>6. rows' \in Seq(Row) /\ DOMAIN rows' = DOMAIN rows
  BY <1>1, <1>5, SameIds DEF RowIds
<1>7. \A j \in RowIds : /\ rows'[j].msg = rows[j].msg
                        /\ rows'[j].status = IF j = i THEN s ELSE rows[j].status
  BY <1>1, <1>2, <1>3 DEF Row
<1>8. QED
  BY <1>6, <1>7 DEF RowIds

\* The oldest row of a set of rows is one of them.
LEMMA OldestIn ==
    ASSUME TypeOK, batch # {}
    PROVE  /\ Oldest(batch) \in batch /\ Oldest(batch) \in RowIds
           /\ \A j \in batch : Oldest(batch) <= j
<1>1. batch \subseteq Nat /\ batch \subseteq RowIds
  BY LenProperties DEF TypeOK, RowIds
<1> DEFINE Less == {ss \in Nat \X Nat : ss[1] < ss[2]}
<1>2. IsWellFoundedOn(Less, Nat)
  <2>1. Less = OpToRel(<, Nat)
    BY Zenon DEF OpToRel
  <2>2. QED
    BY <2>1, NatLessThanWellFounded, Zenon
<1>3. PICK i \in batch : \A j \in batch : << j, i >> \notin Less
  <2> HIDE DEF Less
  <2>1. QED
    BY <1>1, <1>2, WFMin, Zenon
<1>4. \A j \in batch : i <= j
  <2> SUFFICES ASSUME NEW j \in batch, j < i
               PROVE  FALSE
    BY <1>1
  <2>1. i \in Nat /\ j \in Nat
    BY <1>1
  <2>2. << j, i >> \in Nat \X Nat /\ << j, i >>[1] < << j, i >>[2]
    BY <2>1
  <2>3. QED
    BY <1>3, <2>2, Zenon
<1>5. QED
  BY <1>1, <1>4 DEF Oldest

-------------------------------------------------------------------------------
(***************************************************************************)
(* Type correctness.                                                       *)
(***************************************************************************)

\* A relay step keeps the types (_relay_draft).
LEMMA TypeRelay ==
    ASSUME TypeOK, ChannelAssumption, NEW m \in Messages, Relay(m)
    PROVE  TypeOK'
<1> USE DEF TypeOK, RowIds, relayVars, sweepVars, worldVars, At, GoTo
<1>1. CASE OpenTurn(m)
  BY <1>1 DEF OpenTurn, PcValues
<1>2. CASE DraftDuplicate(m)
  BY <1>2 DEF DraftDuplicate, ChannelAssumption
<1>3. CASE DraftRefused(m)
  BY <1>3 DEF DraftRefused, ChannelAssumption
<1>4. CASE DraftPasses(m)
  BY <1>4 DEF DraftPasses, PcValues, ChannelAssumption
<1>5. CASE OrderingGuard(m)
  BY <1>5 DEF OrderingGuard, PcValues
<1>6. CASE RateCheck(m)
  BY <1>6 DEF RateCheck, PcValues
<1>7. CASE Enqueue(m)
  <2>1. HeldRow(m) \in Row
    BY DEF HeldRow, Row, RowStatus, Pending, ChannelAssumption
  <2>2. /\ rows' \in Seq(Row)
        /\ Len(rows') = Len(rows) + 1
        /\ Len(rows) \in Nat
        /\ RowIds = 1 .. Len(rows)
        /\ RowIds' = 1 .. Len(rows')
    BY <1>7, <2>1, AppendProperties, LenProperties DEF Enqueue
  <2>3. RowIds \subseteq RowIds'
    BY <2>2
  <2>4. QED
    BY <1>7, <2>2, <2>3 DEF Enqueue, PcValues
<1>8. CASE EnqueueDrops(m)
  BY <1>8 DEF EnqueueDrops, PcValues
<1>9. CASE CommitQueued(m)
  BY <1>9 DEF CommitQueued, PcValues
<1>10. CASE Transmit(m)
  <2>1. PICK o \in Outcomes :
          /\ outcome' = [outcome EXCEPT ![m] = o]
          /\ copies' = [copies EXCEPT ![m] = @ + (IF Carried(o) THEN 1 ELSE 0)]
    BY <1>10 DEF Transmit
  <2>2. QED
    BY <1>10, <2>1 DEF Transmit, PcValues
<1>11. CASE TransmitAnswered(m)
  BY <1>11 DEF TransmitAnswered, PcValues
<1>12. CASE EndTurn(m)
  BY <1>12 DEF EndTurn, PcValues
<1>13. QED
  BY <1>1, <1>2, <1>3, <1>4, <1>5, <1>6, <1>7, <1>8, <1>9, <1>10, <1>11, <1>12
     DEF Relay

\* A sweeper step keeps the types (run_sweep_once).
LEMMA TypeSweep ==
    ASSUME TypeOK, Sweep
    PROVE  TypeOK'
<1> USE DEF TypeOK, relayVars, sweepVars, worldVars
<1>1. CASE PassStarts
  BY <1>1 DEF PassStarts, HeldIds, RowIds, SweepPcs
<1>2. CASE PassEnds
  BY <1>2 DEF PassEnds, RowIds, SweepPcs
<1>3. CASE ScanExpired
  <2> DEFINE i == Oldest(batch)
  <2>1. i \in batch /\ i \in RowIds
    BY <1>3, OldestIn DEF ScanExpired
  <2>2. CASE rows[i].status = "held"
    <3>1. SetStatus(i, "sending") /\ Take("expire")
      BY <1>3, <2>2 DEF ScanExpired
    <3>2. "sending" \in RowStatus
      BY DEF RowStatus, Pending
    <3>3. rows' \in Seq(Row) /\ RowIds' = RowIds
      BY <2>1, <3>1, <3>2, StatusSet
    <3>4. QED
      BY <1>3, <2>1, <3>1, <3>3 DEF ScanExpired, Take, SweepPcs
  <2>3. CASE rows[i].status # "held"
    BY <1>3, <2>3 DEF ScanExpired, RowIds
  <2>4. QED
    BY <2>2, <2>3
<1>4. CASE Expire
  <2>1. "expired" \in RowStatus /\ row \in RowIds
    BY <1>4 DEF Expire, RowStatus, Terminal
  <2>2. rows' \in Seq(Row) /\ RowIds' = RowIds
    BY <1>4, <2>1, StatusSet DEF Expire
  <2>3. QED
    BY <1>4, <2>2 DEF Expire, SweepPcs
<1>5. CASE ScanSkipped
  BY <1>5 DEF ScanSkipped, RowIds
<1>6. CASE ScanChecked
  <2>1. Oldest(batch) \in batch /\ Oldest(batch) \in RowIds
    BY <1>6, OldestIn DEF ScanChecked
  <2>2. rows[Oldest(batch)] \in Row
    BY <2>1, LenProperties DEF RowIds
  <2>3. To[rows[Oldest(batch)].msg] \in Recipients
    BY <2>2, ChannelAssumption DEF ChannelAssumption, Row
  <2>4. rows' = rows /\ RowIds' = RowIds
    BY <1>6 DEF ScanChecked, RowIds
  <2>5. QED
    BY <1>6, <2>1, <2>3, <2>4 DEF ScanChecked, Take, SweepPcs
<1>7. CASE Claim
  <2>1. "sending" \in RowStatus /\ row \in RowIds
    BY <1>7 DEF Claim, RowStatus, Pending
  <2>2. CASE rows[row].status = "held"
    <3>1. rows' \in Seq(Row) /\ RowIds' = RowIds
      BY <1>7, <2>1, <2>2, StatusSet DEF Claim
    <3>2. QED
      BY <1>7, <2>1, <2>2, <3>1 DEF Claim, SweepPcs
  <2>3. CASE rows[row].status # "held"
    BY <1>7, <2>3 DEF Claim, SweepPcs, RowIds
  <2>4. QED
    BY <2>2, <2>3
<1>8. CASE Release
  <2>1. row \in RowIds /\ rows[row] \in Row
    BY <1>8, LenProperties DEF Release, RowIds
  <2>2. PICK o \in Outcomes :
          /\ released' = o
          /\ copies' = [copies EXCEPT ![rows[row].msg] =
                                        @ + (IF Carried(o) THEN 1 ELSE 0)]
    BY <1>8 DEF Release
  <2>3. copies' \in [Messages -> Nat]
    BY <2>1, <2>2 DEF Row
  <2>4. QED
    BY <1>8, <2>1, <2>2, <2>3 DEF Release, SweepPcs, RowIds
<1>9. CASE ReleaseAnswered
  <2> DEFINE s == IF released = "acked" THEN "sent" ELSE "failed_send"
  <2>1. s \in RowStatus /\ row \in RowIds
    BY <1>9 DEF ReleaseAnswered, RowStatus, Terminal
  <2>2. rows' \in Seq(Row) /\ RowIds' = RowIds
    BY <1>9, <2>1, StatusSet DEF ReleaseAnswered
  <2>3. QED
    BY <1>9, <2>2 DEF ReleaseAnswered, SweepPcs
<1>10. CASE PassFaults
  BY <1>10 DEF PassFaults, SweepPcs, RowIds
<1>11. QED
  BY <1>1, <1>2, <1>3, <1>4, <1>5, <1>6, <1>7, <1>8, <1>9, <1>10 DEF Sweep

\* A restart keeps the types (fail_interrupted_on_boot), and the ids and emails
\* of the rows; it settles, at most, the rows it finds mid-send.
LEMMA TypeReboot ==
    ASSUME TypeOK, ChannelAssumption, Reboot
    PROVE  /\ TypeOK'
           /\ RowIds' = RowIds
           /\ \A j \in RowIds :
                /\ rows'[j].msg = rows[j].msg
                /\ \/ rows'[j].status = rows[j].status
                   \/ /\ rows[j].status = "sending"
                      /\ rows'[j].status = "failed_interrupted"
<1>1. rows \in Seq(Row) /\ RowIds = 1 .. Len(rows) /\ rows \in [RowIds -> Row]
  BY LenProperties DEF TypeOK, RowIds
<1>2. \A j \in RowIds : rows[j] \in Row
  BY <1>1
<1>3. \A j \in RowIds : [rows[j] EXCEPT !.status = "failed_interrupted"] \in Row
  BY <1>2 DEF Row, RowStatus, Terminal
<1>4. Interrupted \in [RowIds -> Row]
  BY <1>2, <1>3 DEF Interrupted
<1>5. rows' = Interrupted \/ rows' = rows
  BY DEF Reboot
<1>6. rows' \in Seq(Row) /\ DOMAIN rows' = RowIds
  BY <1>1, <1>4, <1>5, SameIds DEF RowIds
<1>7. \A j \in RowIds : /\ rows'[j].msg = rows[j].msg
                        /\ \/ rows'[j].status = rows[j].status
                           \/ /\ rows[j].status = "sending"
                              /\ rows'[j].status = "failed_interrupted"
  BY <1>2, <1>5 DEF Interrupted, Row
<1>8. boots' \in 0 .. MaxBoots /\ store' \in BOOLEAN
  <2>1. MaxBoots \in Nat /\ boots \in 0 .. MaxBoots /\ boots < MaxBoots
    BY DEF TypeOK, Reboot, ChannelAssumption
  <2>2. boots' \in 0 .. MaxBoots
    BY <2>1 DEF Reboot
  <2>3. StoreOpens \subseteq BOOLEAN
    BY DEF StoreOpens
  <2>4. QED
    BY <2>2, <2>3 DEF Reboot
<1>9. TypeOK'
  BY <1>6, <1>8 DEF TypeOK, Reboot, RowIds, PcValues, SweepPcs
<1>10. QED
  BY <1>6, <1>7, <1>9 DEF RowIds

\* A clock step keeps the types, and the ids, emails and statuses of the rows.
LEMMA TypeTick ==
    ASSUME TypeOK, ChannelAssumption, Tick
    PROVE  /\ TypeOK'
           /\ RowIds' = RowIds
           /\ \A j \in RowIds : /\ rows'[j].msg = rows[j].msg
                                /\ rows'[j].status = rows[j].status
<1>1. rows \in Seq(Row) /\ RowIds = 1 .. Len(rows) /\ rows \in [RowIds -> Row]
  BY LenProperties DEF TypeOK, RowIds
<1>2. rows' = [i \in RowIds |-> IF rows[i].status = "held" /\ rows[i].age < HeldTTL
                               THEN [rows[i] EXCEPT !.age = @ + 1]
                               ELSE rows[i]]
  BY DEF Tick
<1>3. \A j \in RowIds : rows[j] \in Row
  BY <1>1
<1>4. \A j \in RowIds : rows[j].age < HeldTTL => [rows[j] EXCEPT !.age = @ + 1] \in Row
  BY <1>3, ChannelAssumption DEF Row, ChannelAssumption
<1>5. rows' \in [RowIds -> Row]
  BY <1>2, <1>3, <1>4
<1>6. rows' \in Seq(Row) /\ DOMAIN rows' = RowIds
  BY <1>1, <1>5, SameIds DEF RowIds
<1>7. \A j \in RowIds : /\ rows'[j].msg = rows[j].msg
                        /\ rows'[j].status = rows[j].status
  BY <1>2, <1>3 DEF Row
<1>8. TypeOK'
  BY <1>6 DEF TypeOK, Tick, RowIds, relayVars, sweepVars, worldVars
<1>9. QED
  BY <1>6, <1>7, <1>8 DEF RowIds

\* The initial state has the types.
LEMMA TypeInit ==
    ASSUME ChannelAssumption, Init
    PROVE  TypeOK
<1>1. << >> \in Seq(Row) /\ DOMAIN << >> = {}
  BY EmptySeq
<1>2. 0 \in 0 .. MaxCalls /\ 0 \in 0 .. MaxBoots
  BY DEF ChannelAssumption
<1>3. rows \in Seq(Row) /\ RowIds = {}
  BY <1>1 DEF Init, RowIds
<1>4. store \in BOOLEAN
  <2>1. StoreOpens \subseteq BOOLEAN
    BY DEF StoreOpens
  <2>2. QED
    BY <2>1 DEF Init
<1>5. QED
  BY <1>2, <1>3, <1>4 DEF Init, TypeOK, PcValues, SweepPcs

\* Every step keeps the types.
LEMMA TypeStep ==
    ASSUME TypeOK, ChannelAssumption, [Next]_vars
    PROVE  TypeOK'
<1>1. ASSUME NEW m \in Messages, Relay(m) PROVE TypeOK'
  BY <1>1, TypeRelay
<1>2. CASE Sweep
  BY <1>2, TypeSweep
<1>3. CASE Reboot
  BY <1>3, TypeReboot
<1>4. CASE Author
  BY <1>4 DEF Author, TypeOK, RowIds, relayVars, sweepVars
<1>5. CASE Tick
  BY <1>5, TypeTick
<1>6. CASE UNCHANGED vars
  BY <1>6 DEF vars, TypeOK, RowIds, relayVars, sweepVars, worldVars
<1>7. QED
  BY <1>1, <1>2, <1>3, <1>4, <1>5, <1>6 DEF Next

\* The types hold in every reachable state, for every policy, any number of
\* emails, recipients, draft calls and restarts.
THEOREM TypeCorrect == Spec => []TypeOK
<1>1. Init => TypeOK
  BY ChannelAssumption, TypeInit
<1>2. TypeOK /\ [Next]_vars => TypeOK'
  BY ChannelAssumption, TypeStep
<1>3. QED
  BY <1>1, <1>2, PTL DEF Spec

-------------------------------------------------------------------------------
(***************************************************************************)
(* The channel invariant: the register of answered emails, the turns and   *)
(* the rows agree about which replies may still go out.                    *)
(***************************************************************************)

\* A step that keeps the ids and the emails of the rows keeps the rows of each
\* email, and one row per email.
LEMMA RowsKept ==
    ASSUME RowIds' = RowIds, \A j \in RowIds : rows'[j].msg = rows[j].msg
    PROVE  /\ \A x \in Messages : RowsOf(x)' = RowsOf(x)
           /\ OneRow => OneRow'
<1>1. \A x \in Messages : RowsOf(x)' = RowsOf(x)
  BY DEF RowsOf
<1>2. OneRow => OneRow'
  BY DEF OneRow
<1>3. QED
  BY <1>1, <1>2

\* The emails' part of the invariant only reads the turns, the register, the
\* carried copies and the rows of each email.
LEMMA TurnsKept ==
    ASSUME \A x \in Messages : UnansweredFree(x),
           \A x \in Messages : RowsOf(x)' = RowsOf(x),
           UNCHANGED << pc, outcome, committed, opened, copies >>
    PROVE  \A x \in Messages : UnansweredFree(x)'
BY DEF UnansweredFree, NotYetCarried

\* A relay step that leaves the table and the carried copies alone: the draft
\* calls, the guard, the limiter, a dropped hold, a commit, the broker's answer
\* and the end of the turn.
LEMMA QuietRelay ==
    ASSUME ChannelInv, NEW m \in Messages, Relay(m),
           UNCHANGED << rows, copies >>, TypeOK'
    PROVE  ChannelInv'
<1>1. TypeOK /\ (\A x \in Messages : UnansweredFree(x)) /\ OneRow /\ HeldUncarried
  BY DEF ChannelInv
<1>2. RowIds' = RowIds /\ (\A x \in Messages : RowsOf(x)' = RowsOf(x)) /\ OneRow'
  BY <1>1 DEF RowIds, RowsOf, OneRow
<1>3. ~Enqueue(m)
  <2> SUFFICES ASSUME Enqueue(m) PROVE FALSE
    OBVIOUS
  <2>1. HeldRow(m) \in {HeldRow(m)} /\ rows' = Append(rows, HeldRow(m))
    BY DEF Enqueue
  <2>2. rows \in Seq(Row \cup {HeldRow(m)})
    BY <1>1, LenProperties DEF TypeOK
  <2>3. Len(rows') = Len(rows) + 1 /\ Len(rows) \in Nat
    BY <2>1, <2>2, AppendProperties, LenProperties
  <2>4. QED
    BY <2>3
<1>4. sw' = sw /\ row' = row
  BY <1>3 DEF Relay, OpenTurn, DraftDuplicate, DraftRefused, DraftPasses,
     OrderingGuard, RateCheck, EnqueueDrops, CommitQueued, Transmit,
     TransmitAnswered, EndTurn, sweepVars
<1>5. HeldUncarried'
  BY <1>1, <1>2, <1>4 DEF HeldUncarried, RowIds
<1>6. UnansweredFree(m)'
  <2> USE DEF UnansweredFree, NotYetCarried, TypeOK, At, GoTo, relayVars
  <2>1. CASE OpenTurn(m)
    BY <1>1, <1>2, <2>1 DEF OpenTurn
  <2>2. CASE DraftDuplicate(m)
    BY <1>1, <1>2, <2>2 DEF DraftDuplicate
  <2>3. CASE DraftRefused(m)
    BY <1>1, <1>2, <2>3 DEF DraftRefused
  <2>4. CASE DraftPasses(m)
    BY <1>1, <1>2, <2>4 DEF DraftPasses
  <2>5. CASE OrderingGuard(m)
    BY <1>1, <1>2, <2>5 DEF OrderingGuard
  <2>6. CASE RateCheck(m)
    BY <1>1, <1>2, <2>6 DEF RateCheck
  <2>7. CASE EnqueueDrops(m)
    BY <1>1, <1>2, <2>7 DEF EnqueueDrops
  <2>8. CASE CommitQueued(m)
    BY <1>1, <1>2, <2>8 DEF CommitQueued
  <2>9. CASE Transmit(m)
    BY <1>1, <1>2, <2>9 DEF Transmit, Carried
  <2>10. CASE TransmitAnswered(m)
    BY <1>1, <1>2, <2>10 DEF TransmitAnswered, Carried
  <2>11. CASE EndTurn(m)
    BY <1>1, <1>2, <2>11 DEF EndTurn
  <2>12. QED
    BY <1>3, <2>1, <2>2, <2>3, <2>4, <2>5, <2>6, <2>7, <2>8, <2>9, <2>10, <2>11
       DEF Relay
<1>7. ASSUME NEW x \in Messages, x # m
      PROVE  UnansweredFree(x)'
  <2>1. /\ pc'[x] = pc[x]
        /\ outcome'[x] = outcome[x]
        /\ x \in committed' <=> x \in committed
        /\ x \in opened' <=> x \in opened
    BY <1>1, <1>3, <1>7 DEF Relay, OpenTurn, DraftDuplicate, DraftRefused,
       DraftPasses, OrderingGuard, RateCheck, EnqueueDrops, CommitQueued,
       Transmit, TransmitAnswered, EndTurn, TypeOK, At, GoTo, relayVars
  <2>2. QED
    BY <1>1, <1>2, <2>1 DEF UnansweredFree, NotYetCarried
<1>8. AnsweredAtMostOnce'
  BY DEF ChannelInv, AnsweredAtMostOnce
<1>9. QED
  BY <1>2, <1>5, <1>6, <1>7, <1>8 DEF ChannelInv

\* What Append does to the table (held_store.enqueue): one more row, of this
\* email, held, and every other row as it was.
LEMMA RowAppended ==
    ASSUME TypeOK, ChannelAssumption, NEW m \in Messages, Enqueue(m)
    PROVE  \E n \in Nat :
             /\ n \notin RowIds
             /\ RowIds' = RowIds \cup {n}
             /\ rows'[n].msg = m /\ rows'[n].status = "held"
             /\ \A j \in RowIds : rows'[j] = rows[j] /\ j < n
<1>1. HeldRow(m) \in Row
  BY DEF HeldRow, Row, RowStatus, Pending, ChannelAssumption
<1>2. rows \in Seq(Row) /\ rows' = Append(rows, HeldRow(m))
  BY DEF TypeOK, Enqueue
<1>3. /\ Len(rows) \in Nat
      /\ Len(rows') = Len(rows) + 1
      /\ RowIds = 1 .. Len(rows)
      /\ RowIds' = 1 .. Len(rows')
      /\ rows'[Len(rows) + 1] = HeldRow(m)
      /\ \A j \in 1 .. Len(rows) : rows'[j] = rows[j]
  BY <1>1, <1>2, AppendProperties, LenProperties DEF RowIds
<1>4. RowIds' = RowIds \cup {Len(rows) + 1}
  BY <1>3
<1>5. QED
  BY <1>3, <1>4 DEF HeldRow

\* The hold that is queued (_enqueue_hold) keeps the invariant.
LEMMA EnqueueKeeps ==
    ASSUME ChannelInv, ChannelAssumption, NEW m \in Messages, Enqueue(m), TypeOK'
    PROVE  ChannelInv'
<1>1. TypeOK /\ (\A x \in Messages : UnansweredFree(x)) /\ OneRow /\ HeldUncarried
  BY DEF ChannelInv
<1>2. PICK n \in Nat : /\ n \notin RowIds
                       /\ RowIds' = RowIds \cup {n}
                       /\ rows'[n].msg = m /\ rows'[n].status = "held"
                       /\ \A j \in RowIds : rows'[j] = rows[j]
  BY <1>1, RowAppended
<1>3. RowsOf(m) = {} /\ copies[m] = 0 /\ m \in opened
  BY <1>1 DEF Enqueue, At, UnansweredFree, NotYetCarried
<1>4. OneRow'
  BY <1>1, <1>2, <1>3 DEF OneRow, RowsOf
<1>5. \A x \in Messages : x # m => RowsOf(x)' = RowsOf(x)
  BY <1>2 DEF RowsOf
<1>6. pc' = [pc EXCEPT ![m] = "queued"] /\ pc \in [Messages -> PcValues]
      /\ UNCHANGED << outcome, committed, opened, copies, sw, row >>
  BY <1>1 DEF Enqueue, GoTo, TypeOK, sweepVars
<1>7. \A x \in Messages : UnansweredFree(x)'
  BY <1>1, <1>3, <1>5, <1>6 DEF UnansweredFree, NotYetCarried
<1>8. HeldUncarried'
  <2>1. sw \in {"expire", "transmit", "answer"} => row \in RowIds
    BY <1>1 DEF TypeOK
  <2>2. QED
    BY <1>1, <1>2, <1>3, <1>6, <2>1 DEF HeldUncarried
<1>9. AnsweredAtMostOnce'
  BY <1>6 DEF ChannelInv, AnsweredAtMostOnce
<1>10. QED
  BY <1>4, <1>7, <1>8, <1>9 DEF ChannelInv

\* The live send (send_reply) keeps the invariant.
LEMMA TransmitKeeps ==
    ASSUME ChannelInv, NEW m \in Messages, Transmit(m), TypeOK'
    PROVE  ChannelInv'
<1>1. TypeOK /\ (\A x \in Messages : UnansweredFree(x)) /\ OneRow /\ HeldUncarried
      /\ AnsweredAtMostOnce
  BY DEF ChannelInv
<1>2. PICK o \in Outcomes :
        /\ outcome' = [outcome EXCEPT ![m] = o]
        /\ copies' = [copies EXCEPT ![m] = @ + (IF Carried(o) THEN 1 ELSE 0)]
  BY DEF Transmit
<1>3. RowsOf(m) = {} /\ copies[m] = 0 /\ m \in opened
  BY <1>1 DEF Transmit, At, UnansweredFree, NotYetCarried
<1>4. /\ pc' = [pc EXCEPT ![m] = "answer"]
      /\ UNCHANGED << committed, opened, rows, sw, row >>
  BY DEF Transmit, GoTo, sweepVars
<1>5. RowIds' = RowIds /\ (\A x \in Messages : RowsOf(x)' = RowsOf(x)) /\ OneRow'
  BY <1>1, <1>4 DEF RowIds, RowsOf, OneRow
<1>6. /\ outcome'[m] = o
      /\ copies'[m] = IF Carried(o) THEN 1 ELSE 0
      /\ pc'[m] = "answer"
      /\ \A x \in Messages : x # m => /\ outcome'[x] = outcome[x]
                                      /\ copies'[x] = copies[x]
                                      /\ pc'[x] = pc[x]
  BY <1>1, <1>2, <1>3, <1>4 DEF TypeOK
<1>7. UnansweredFree(m)'
  BY <1>3, <1>4, <1>5, <1>6 DEF UnansweredFree, NotYetCarried, Carried
<1>8. \A x \in Messages : x # m => UnansweredFree(x)'
  BY <1>1, <1>4, <1>5, <1>6 DEF UnansweredFree, NotYetCarried
<1>9. AnsweredAtMostOnce'
  BY <1>1, <1>6 DEF AnsweredAtMostOnce
<1>10. HeldUncarried'
  <2>1. \A i \in RowIds : rows[i].msg # m /\ rows[i].msg \in Messages
    <3>1. \A i \in RowIds : rows[i] \in Row
      BY <1>1, LenProperties DEF TypeOK, RowIds
    <3>2. QED
      BY <1>3, <3>1 DEF RowsOf, Row
  <2>2. \A i \in RowIds : copies'[rows[i].msg] = copies[rows[i].msg]
    BY <1>6, <2>1
  <2>3. sw \in {"expire", "transmit", "answer"} => row \in RowIds
    BY <1>1 DEF TypeOK
  <2>4. QED
    BY <1>1, <1>4, <1>5, <2>2, <2>3 DEF HeldUncarried
<1>11. QED
  BY <1>5, <1>7, <1>8, <1>9, <1>10 DEF ChannelInv

\* Every relay step keeps the invariant.
LEMMA RelayKeeps ==
    ASSUME ChannelInv, ChannelAssumption, NEW m \in Messages, Relay(m), TypeOK'
    PROVE  ChannelInv'
<1>1. CASE Enqueue(m)
  BY <1>1, EnqueueKeeps
<1>2. CASE Transmit(m)
  BY <1>2, TransmitKeeps
<1>3. CASE ~Enqueue(m) /\ ~Transmit(m)
  <2>1. UNCHANGED << rows, copies >>
    BY <1>3 DEF Relay, OpenTurn, DraftDuplicate, DraftRefused, DraftPasses,
       OrderingGuard, RateCheck, EnqueueDrops, CommitQueued, TransmitAnswered,
       EndTurn
  <2>2. QED
    BY <2>1, QuietRelay
<1>4. QED
  BY <1>1, <1>2, <1>3

\* The sweeper's release (_release_send) keeps the invariant: its row is the only
\* one of its email, and the email has no live reply to come.
LEMMA ReleaseKeeps ==
    ASSUME ChannelInv, Release, TypeOK'
    PROVE  ChannelInv'
<1>1. TypeOK /\ (\A x \in Messages : UnansweredFree(x)) /\ OneRow /\ HeldUncarried
      /\ AnsweredAtMostOnce
  BY DEF ChannelInv
<1> DEFINE m == rows[row].msg
<1>2. row \in RowIds /\ \A i \in RowIds : rows[i] \in Row
  BY <1>1, LenProperties DEF TypeOK, RowIds, Release
<1>3. m \in Messages
  BY <1>2 DEF Row
<1>4. /\ sw = "transmit" /\ sw' = "answer"
      /\ rows[row].status = "sending" /\ copies[m] = 0
      /\ UNCHANGED << pc, outcome, committed, opened, rows, row >>
  BY <1>1 DEF Release, HeldUncarried, relayVars
<1>5. PICK o \in Outcomes :
        copies' = [copies EXCEPT ![m] = @ + (IF Carried(o) THEN 1 ELSE 0)]
  BY DEF Release
<1>6. /\ copies'[m] \in {0, 1}
      /\ \A x \in Messages : x # m => copies'[x] = copies[x]
  BY <1>1, <1>3, <1>4, <1>5 DEF TypeOK
<1>7. RowIds' = RowIds /\ (\A x \in Messages : RowsOf(x)' = RowsOf(x)) /\ OneRow'
  BY <1>1, <1>4 DEF RowIds, RowsOf, OneRow
<1>8. RowsOf(m) # {}
  BY <1>2 DEF RowsOf
<1>9. \A x \in Messages : UnansweredFree(x)'
  BY <1>1, <1>4, <1>6, <1>7, <1>8 DEF UnansweredFree, NotYetCarried
<1>10. AnsweredAtMostOnce'
  BY <1>1, <1>6 DEF AnsweredAtMostOnce
<1>11. HeldUncarried'
  <2>1. ASSUME NEW i \in RowIds, rows[i].status \in {"held", "expired"}
        PROVE  copies'[rows[i].msg] = 0
    <3>1. i # row
      BY <1>4, <2>1
    <3>2. rows[i].msg # m
      BY <1>1, <1>2, <3>1 DEF OneRow
    <3>3. rows[i].msg \in Messages
      BY <1>2 DEF Row
    <3>4. QED
      BY <1>1, <1>6, <2>1, <3>2, <3>3 DEF HeldUncarried
  <2>2. QED
    BY <1>4, <1>7, <2>1 DEF HeldUncarried
<1>12. QED
  BY <1>7, <1>9, <1>10, <1>11 DEF ChannelInv

\* A step of the sweeper that changes at most the status of one row, and carries
\* nothing.
LEMMA QuietSweep ==
    ASSUME ChannelInv, Sweep, ~Release, TypeOK'
    PROVE  ChannelInv'
<1>1. TypeOK /\ (\A x \in Messages : UnansweredFree(x)) /\ OneRow /\ HeldUncarried
      /\ AnsweredAtMostOnce
  BY DEF ChannelInv
<1>2. UNCHANGED << pc, outcome, committed, opened, copies >>
  BY DEF Sweep, PassStarts, PassEnds, ScanExpired, Expire, ScanSkipped,
     ScanChecked, Claim, ReleaseAnswered, PassFaults, relayVars
<1>3. /\ RowIds' = RowIds
      /\ \A j \in RowIds : rows'[j].msg = rows[j].msg
      /\ HeldUncarried'
  <2>1. CASE ScanExpired
    <3> DEFINE i == Oldest(batch)
    <3>1. i \in RowIds
      BY <1>1, <2>1, OldestIn DEF ScanExpired
    <3>2. CASE rows[i].status = "held"
      <4>1. SetStatus(i, "sending") /\ row' = i /\ sw' = "expire"
        BY <2>1, <3>2 DEF ScanExpired, Take
      <4>2. /\ RowIds' = RowIds
            /\ \A j \in RowIds : /\ rows'[j].msg = rows[j].msg
                                 /\ rows'[j].status = IF j = i THEN "sending"
                                                      ELSE rows[j].status
        BY <1>1, <3>1, <4>1, StatusSet DEF RowStatus, Pending
      <4>3. QED
        BY <1>1, <1>2, <3>1, <3>2, <4>1, <4>2 DEF HeldUncarried
    <3>3. CASE rows[i].status # "held"
      <4>1. UNCHANGED << sw, row, rows >>
        BY <2>1, <3>3 DEF ScanExpired
      <4>2. QED
        BY <1>1, <1>2, <4>1 DEF HeldUncarried, RowIds
    <3>4. QED
      BY <3>2, <3>3
  <2>2. CASE Expire
    <3>1. row \in RowIds /\ copies[rows[row].msg] = 0 /\ SetStatus(row, "expired")
          /\ sw' = "scan"
      BY <1>1, <2>2 DEF Expire, TypeOK, HeldUncarried
    <3>2. /\ RowIds' = RowIds
          /\ \A j \in RowIds : /\ rows'[j].msg = rows[j].msg
                               /\ rows'[j].status = IF j = row THEN "expired"
                                                    ELSE rows[j].status
      BY <1>1, <3>1, StatusSet DEF RowStatus, Terminal
    <3>3. QED
      BY <1>1, <1>2, <3>1, <3>2 DEF HeldUncarried
  <2>3. CASE Claim
    <3>1. row \in RowIds
      BY <1>1, <2>3 DEF Claim, TypeOK
    <3>2. CASE rows[row].status = "held"
      <4>1. SetStatus(row, "sending") /\ row' = row /\ sw' = "transmit"
        BY <2>3, <3>2 DEF Claim
      <4>2. /\ RowIds' = RowIds
            /\ \A j \in RowIds : /\ rows'[j].msg = rows[j].msg
                                 /\ rows'[j].status = IF j = row THEN "sending"
                                                      ELSE rows[j].status
        BY <1>1, <3>1, <4>1, StatusSet DEF RowStatus, Pending
      <4>3. QED
        BY <1>1, <1>2, <3>1, <3>2, <4>1, <4>2 DEF HeldUncarried
    <3>3. CASE rows[row].status # "held"
      <4>1. UNCHANGED rows /\ sw' = "scan"
        BY <2>3, <3>3 DEF Claim
      <4>2. QED
        BY <1>1, <1>2, <4>1 DEF HeldUncarried, RowIds
    <3>4. QED
      BY <3>2, <3>3
  <2>4. CASE ReleaseAnswered
    <3> DEFINE s == IF released = "acked" THEN "sent" ELSE "failed_send"
    <3>1. row \in RowIds /\ SetStatus(row, s) /\ sw' = "scan"
      BY <1>1, <2>4 DEF ReleaseAnswered, TypeOK
    <3>2. s \in RowStatus /\ s \notin {"held", "expired"}
      BY DEF RowStatus, Terminal
    <3>3. /\ RowIds' = RowIds
          /\ \A j \in RowIds : /\ rows'[j].msg = rows[j].msg
                               /\ rows'[j].status = IF j = row THEN s
                                                    ELSE rows[j].status
      BY <1>1, <3>1, <3>2, StatusSet
    <3>4. QED
      BY <1>1, <1>2, <3>1, <3>2, <3>3 DEF HeldUncarried
  <2>5. CASE PassStarts \/ PassEnds \/ ScanSkipped \/ ScanChecked \/ PassFaults
    <3>1. /\ UNCHANGED rows
          /\ \/ sw' = sw /\ row' = row
             \/ sw' \in {"idle", "scan", "claim"}
      BY <2>5 DEF PassStarts, PassEnds, ScanSkipped, ScanChecked, PassFaults, Take
    <3>2. QED
      BY <1>1, <1>2, <3>1 DEF HeldUncarried, RowIds
  <2>6. QED
    BY <2>1, <2>2, <2>3, <2>4, <2>5 DEF Sweep
<1>4. (\A x \in Messages : RowsOf(x)' = RowsOf(x)) /\ OneRow'
  BY <1>1, <1>3, RowsKept
<1>5. \A x \in Messages : UnansweredFree(x)'
  BY <1>1, <1>2, <1>4, TurnsKept
<1>6. AnsweredAtMostOnce'
  BY <1>1, <1>2 DEF AnsweredAtMostOnce
<1>7. QED
  BY <1>3, <1>4, <1>5, <1>6 DEF ChannelInv

\* A restart keeps the invariant: it closes the rows it finds mid-send, and no
\* turn survives it.
LEMMA RebootKeeps ==
    ASSUME ChannelInv, ChannelAssumption, Reboot
    PROVE  ChannelInv'
<1>1. TypeOK /\ (\A x \in Messages : UnansweredFree(x)) /\ OneRow /\ HeldUncarried
      /\ AnsweredAtMostOnce
  BY DEF ChannelInv
<1>2. /\ TypeOK'
      /\ RowIds' = RowIds
      /\ \A j \in RowIds : /\ rows'[j].msg = rows[j].msg
                           /\ \/ rows'[j].status = rows[j].status
                              \/ /\ rows[j].status = "sending"
                                 /\ rows'[j].status = "failed_interrupted"
  BY <1>1, TypeReboot
<1>3. (\A x \in Messages : RowsOf(x)' = RowsOf(x)) /\ OneRow'
  BY <1>1, <1>2, RowsKept
<1>4. /\ \A x \in Messages : pc'[x] = "away"
      /\ UNCHANGED << opened, copies >>
      /\ sw' = "idle"
  BY DEF Reboot
<1>5. \A x \in Messages : UnansweredFree(x)'
  BY <1>1, <1>3, <1>4 DEF UnansweredFree, NotYetCarried
<1>6. HeldUncarried'
  BY <1>1, <1>2, <1>4 DEF HeldUncarried
<1>7. AnsweredAtMostOnce'
  BY <1>1, <1>4 DEF AnsweredAtMostOnce
<1>8. QED
  BY <1>2, <1>3, <1>5, <1>6, <1>7 DEF ChannelInv

\* Every step keeps the invariant.
LEMMA ChannelStep ==
    ASSUME ChannelInv, ChannelAssumption, [Next]_vars
    PROVE  ChannelInv'
<1>1. TypeOK'
  BY TypeStep DEF ChannelInv
<1>2. ASSUME NEW m \in Messages, Relay(m) PROVE ChannelInv'
  BY <1>1, <1>2, RelayKeeps
<1>3. CASE Sweep
  BY <1>1, <1>3, ReleaseKeeps, QuietSweep
<1>4. CASE Reboot
  BY <1>4, RebootKeeps
<1>5. CASE Author \/ Tick \/ UNCHANGED vars
  <2>1. /\ RowIds' = RowIds
        /\ \A j \in RowIds : /\ rows'[j].msg = rows[j].msg
                             /\ rows'[j].status = rows[j].status
    <3>1. CASE Tick
      BY <3>1, TypeTick DEF ChannelInv
    <3>2. CASE Author \/ UNCHANGED vars
      BY <3>2 DEF Author, vars, RowIds
    <3>3. QED
      BY <1>5, <3>1, <3>2
  <2>2. UNCHANGED << pc, outcome, committed, opened, copies, sw, row >>
    BY <1>5 DEF Author, Tick, vars, relayVars, sweepVars
  <2>3. (\A x \in Messages : RowsOf(x)' = RowsOf(x)) /\ OneRow'
    BY <2>1, RowsKept DEF ChannelInv
  <2>4. \A x \in Messages : UnansweredFree(x)'
    BY <2>2, <2>3, TurnsKept DEF ChannelInv
  <2>5. HeldUncarried' /\ AnsweredAtMostOnce'
    <3>1. sw \in {"expire", "transmit", "answer"} => row \in RowIds
      BY DEF ChannelInv, TypeOK
    <3>2. QED
      BY <2>1, <2>2, <3>1 DEF ChannelInv, HeldUncarried, AnsweredAtMostOnce
  <2>6. QED
    BY <1>1, <2>3, <2>4, <2>5 DEF ChannelInv
<1>6. QED
  BY <1>2, <1>3, <1>4, <1>5 DEF Next

\* The inductive invariant of the reply channel (_relay_draft, run_sweep_once,
\* fail_interrupted_on_boot) holds in every reachable state.
THEOREM ChannelInvariant == Spec => []ChannelInv
<1>1. Init => ChannelInv
  <2> SUFFICES ASSUME Init PROVE ChannelInv
    OBVIOUS
  <2>1. TypeOK
    BY ChannelAssumption, TypeInit
  <2>2. RowIds = {} /\ \A m \in Messages : RowsOf(m) = {}
    BY DEF Init, RowIds, RowsOf
  <2>3. QED
    BY <2>1, <2>2 DEF Init, ChannelInv, UnansweredFree, NotYetCarried, OneRow,
       HeldUncarried, AnsweredAtMostOnce
<1>2. ChannelInv /\ [Next]_vars => ChannelInv'
  BY ChannelAssumption, ChannelStep
<1>3. QED
  BY <1>1, <1>2, PTL DEF Spec

\* "One message in, at most one reply out" (relay.RepliedOnce), for any number of
\* emails, draft calls and restarts, under every policy.
THEOREM AnsweredOnce == Spec => []AnsweredAtMostOnce
<1>1. ChannelInv => AnsweredAtMostOnce
  BY DEF ChannelInv
<1>2. QED
  BY <1>1, ChannelInvariant, PTL

-------------------------------------------------------------------------------
(***************************************************************************)
(* The channel implements its promise.                                     *)
(***************************************************************************)

\* A step that settles no row and carries nothing leaves every fate alone.
LEMMA FateKept ==
    ASSUME RowIds' = RowIds,
           \A j \in RowIds : /\ rows'[j].msg = rows[j].msg
                             /\ rows'[j].status \in Pending <=> rows[j].status \in Pending,
           copies' = copies
    PROVE  Fate' = Fate
<1>1. \A x \in Messages : RowsOf(x)' = RowsOf(x) /\ RowsOf(x) \subseteq RowIds
  BY DEF RowsOf
<1>2. \A x \in Messages :
        (\E i \in RowsOf(x) : rows[i].status \in Pending)' <=>
        (\E i \in RowsOf(x) : rows[i].status \in Pending)
  BY <1>1
<1>3. QED
  BY <1>1, <1>2 DEF Fate

\* A step that settles the row of one queued email, and carries nothing, closes
\* that email or leaves it answered.
LEMMA RowSettled ==
    ASSUME ChannelInv, NEW i \in RowIds, rows[i].status = "sending",
           rows' \in Seq(Row), RowIds' = RowIds,
           NEW s \in Terminal,
           \A j \in RowIds : /\ rows'[j].msg = rows[j].msg
                             /\ rows'[j].status = IF j = i THEN s ELSE rows[j].status,
           copies' = copies
    PROVE  \/ Promise!Close(rows[i].msg)
           \/ UNCHANGED << Fate, copies >>
<1> DEFINE m == rows[i].msg
<1>1. OneRow /\ m \in Messages /\ copies[m] \in Nat
  <2>1. rows[i] \in Row
    BY LenProperties DEF ChannelInv, TypeOK, RowIds
  <2>2. QED
    BY <2>1 DEF ChannelInv, TypeOK, Row
<1>2. RowsOf(m) = {i} /\ \A x \in Messages : RowsOf(x)' = RowsOf(x)
  BY <1>1 DEF RowsOf, OneRow
<1>3. \A x \in Messages : x # m => i \notin RowsOf(x)
  BY DEF RowsOf
<1>4. \A x \in Messages : RowsOf(x) \subseteq RowIds
  BY DEF RowsOf
<1>5. \A x \in Messages : x # m => Fate'[x] = Fate[x]
  BY <1>2, <1>3, <1>4 DEF Fate
<1>6. s \notin Pending /\ "sending" \in Pending
  BY DEF Terminal, Pending
<1>7. CASE copies[m] > 0
  <2>1. Fate'[m] = "answered" /\ Fate[m] = "answered"
    BY <1>1, <1>7 DEF Fate
  <2>2. \A x \in Messages : Fate'[x] = Fate[x]
    BY <1>5, <2>1
  <2>3. Fate' = Fate
    BY <2>2 DEF Fate
  <2>4. QED
    BY <2>3
<1>8. CASE ~(copies[m] > 0)
  <2>1. Fate[m] = "queued"
    BY <1>1, <1>2, <1>6, <1>8 DEF Fate
  <2>2. Fate'[m] = "closed"
    BY <1>1, <1>2, <1>6, <1>8 DEF Fate
  <2>3. \A x \in Messages : Fate'[x] = [Fate EXCEPT ![m] = "closed"][x]
    BY <1>5, <2>2 DEF Fate
  <2>4. Fate' = [Fate EXCEPT ![m] = "closed"]
    BY <2>3 DEF Fate
  <2>5. QED
    BY <1>1, <2>1, <2>4 DEF Promise!Close
<1>9. QED
  BY <1>7, <1>8

\* A step that carries one more copy for one email that has none answers it.
LEMMA CopyCarried ==
    ASSUME ChannelInv, NEW m \in Messages, copies[m] = 0,
           rows' = rows, copies' = [copies EXCEPT ![m] = @ + 1],
           RowsOf(m) = {} \/ \E i \in RowsOf(m) : rows[i].status = "sending"
    PROVE  Promise!Answer(m)
<1>1. copies \in [Messages -> Nat] /\ RowIds' = RowIds
  BY DEF ChannelInv, TypeOK, RowIds
<1>2. \A x \in Messages : RowsOf(x)' = RowsOf(x)
  BY <1>1 DEF RowsOf
<1>3. Fate[m] \in {"unanswered", "queued"}
  BY DEF Fate, Pending
<1>4. Fate'[m] = "answered"
  BY <1>1 DEF Fate
<1>5. \A x \in Messages : x # m => Fate'[x] = Fate[x]
  BY <1>1, <1>2 DEF Fate
<1>6. \A x \in Messages : Fate'[x] = [Fate EXCEPT ![m] = "answered"][x]
  BY <1>4, <1>5 DEF Fate
<1>7. Fate' = [Fate EXCEPT ![m] = "answered"]
  BY <1>6 DEF Fate
<1>8. QED
  BY <1>3, <1>7 DEF Promise!Answer

\* A relay step is a queueing, an answer or no step of the promise.
LEMMA RelayImplements ==
    ASSUME ChannelInv, ChannelAssumption, NEW m \in Messages, Relay(m)
    PROVE  Promise!Next \/ UNCHANGED << Fate, copies >>
<1>1. TypeOK /\ OneRow /\ UnansweredFree(m)
  BY DEF ChannelInv
<1>2. CASE Enqueue(m)
  <2>1. PICK n \in Nat : /\ n \notin RowIds
                        /\ RowIds' = RowIds \cup {n}
                        /\ rows'[n].msg = m /\ rows'[n].status = "held"
                        /\ \A j \in RowIds : rows'[j] = rows[j]
    BY <1>1, <1>2, RowAppended
  <2>2. RowsOf(m) = {} /\ copies[m] = 0 /\ copies' = copies
    BY <1>1, <1>2 DEF Enqueue, At, UnansweredFree, NotYetCarried
  <2>3. RowsOf(m)' = {n}
    BY <2>1, <2>2 DEF RowsOf
  <2>4. \A x \in Messages : x # m => RowsOf(x)' = RowsOf(x) /\ RowsOf(x) \subseteq RowIds
    BY <2>1 DEF RowsOf
  <2>5. Fate[m] = "unanswered" /\ Fate'[m] = "queued"
    BY <2>1, <2>2, <2>3 DEF Fate, Pending
  <2>6. \A x \in Messages : x # m => Fate'[x] = Fate[x]
    BY <2>1, <2>2, <2>4 DEF Fate
  <2>7. \A x \in Messages : Fate'[x] = [Fate EXCEPT ![m] = "queued"][x]
    BY <2>5, <2>6 DEF Fate
  <2>8. Fate' = [Fate EXCEPT ![m] = "queued"]
    BY <2>7 DEF Fate
  <2>9. QED
    BY <2>2, <2>5, <2>8 DEF Promise!Queue, Promise!Next
<1>3. CASE Transmit(m)
  <2>1. PICK o \in Outcomes :
          copies' = [copies EXCEPT ![m] = @ + (IF Carried(o) THEN 1 ELSE 0)]
    BY <1>3 DEF Transmit
  <2>2. RowsOf(m) = {} /\ copies[m] = 0 /\ rows' = rows
    BY <1>1, <1>3 DEF Transmit, At, UnansweredFree, NotYetCarried
  <2>3. CASE Carried(o)
    <3>1. copies' = [copies EXCEPT ![m] = @ + 1]
      BY <2>1, <2>3
    <3>2. Promise!Answer(m)
      BY <2>2, <3>1, CopyCarried
    <3>3. QED
      BY <3>2 DEF Promise!Next
  <2>4. CASE ~Carried(o)
    <3>1. copies' = copies
      BY <1>1, <2>1, <2>4 DEF TypeOK
    <3>2. QED
      BY <2>2, <3>1, FateKept DEF RowIds
  <2>5. QED
    BY <2>3, <2>4
<1>4. CASE ~Enqueue(m) /\ ~Transmit(m)
  <2>1. UNCHANGED << rows, copies >>
    BY <1>4 DEF Relay, OpenTurn, DraftDuplicate, DraftRefused, DraftPasses,
       OrderingGuard, RateCheck, EnqueueDrops, CommitQueued, TransmitAnswered,
       EndTurn
  <2>2. QED
    BY <2>1, FateKept DEF RowIds
<1>5. QED
  BY <1>2, <1>3, <1>4

\* A sweeper step is an answer, a closing or no step of the promise.
LEMMA SweepImplements ==
    ASSUME ChannelInv, Sweep
    PROVE  Promise!Next \/ UNCHANGED << Fate, copies >>
<1>1. TypeOK /\ OneRow /\ HeldUncarried
  BY DEF ChannelInv
<1>2. \A i \in RowIds : rows[i].msg \in Messages
  <2>1. \A i \in RowIds : rows[i] \in Row
    BY <1>1, LenProperties DEF TypeOK, RowIds
  <2>2. QED
    BY <2>1 DEF Row
<1>3. ASSUME NEW i \in RowIds, NEW s \in Terminal, rows[i].status = "sending",
             SetStatus(i, s), copies' = copies
      PROVE  Promise!Next \/ UNCHANGED << Fate, copies >>
  <2>1. /\ rows' \in Seq(Row)
        /\ RowIds' = RowIds
        /\ \A j \in RowIds : /\ rows'[j].msg = rows[j].msg
                             /\ rows'[j].status = IF j = i THEN s ELSE rows[j].status
    BY <1>1, <1>3, StatusSet DEF RowStatus
  <2>2. Promise!Close(rows[i].msg) \/ UNCHANGED << Fate, copies >>
    BY <1>3, <2>1, RowSettled
  <2>3. QED
    BY <1>2, <2>2 DEF Promise!Next
<1>4. ASSUME NEW i \in RowIds, rows[i].status = "held", SetStatus(i, "sending"),
             copies' = copies
      PROVE  UNCHANGED << Fate, copies >>
  <2>1. /\ RowIds' = RowIds
        /\ \A j \in RowIds : /\ rows'[j].msg = rows[j].msg
                             /\ rows'[j].status = IF j = i THEN "sending"
                                                  ELSE rows[j].status
    BY <1>1, <1>4, StatusSet DEF RowStatus, Pending
  <2>2. \A j \in RowIds : rows'[j].status \in Pending <=> rows[j].status \in Pending
    BY <1>4, <2>1 DEF Pending
  <2>3. QED
    BY <1>4, <2>1, <2>2, FateKept
<1>5. CASE ScanExpired
  <2>1. Oldest(batch) \in RowIds
    BY <1>1, <1>5, OldestIn DEF ScanExpired
  <2>2. \/ rows[Oldest(batch)].status = "held" /\ SetStatus(Oldest(batch), "sending")
        \/ UNCHANGED rows
    BY <1>5 DEF ScanExpired
  <2>3. copies' = copies
    BY <1>5 DEF ScanExpired
  <2>4. QED
    BY <1>4, <2>1, <2>2, <2>3, FateKept DEF RowIds
<1>6. CASE Expire
  BY <1>1, <1>3, <1>6 DEF Expire, HeldUncarried, TypeOK, Terminal
<1>7. CASE Claim
  <2>1. row \in RowIds /\ copies' = copies
    BY <1>1, <1>7 DEF Claim, TypeOK
  <2>2. \/ rows[row].status = "held" /\ SetStatus(row, "sending")
        \/ UNCHANGED rows
    BY <1>7 DEF Claim
  <2>3. QED
    BY <1>4, <2>1, <2>2, FateKept DEF RowIds
<1>8. CASE Release
  <2> DEFINE m == rows[row].msg
  <2>1. row \in RowIds /\ m \in Messages /\ copies[m] = 0
        /\ rows[row].status = "sending" /\ rows' = rows
    BY <1>1, <1>2, <1>8 DEF Release, TypeOK, HeldUncarried
  <2>2. PICK o \in Outcomes :
          copies' = [copies EXCEPT ![m] = @ + (IF Carried(o) THEN 1 ELSE 0)]
    BY <1>8 DEF Release
  <2>3. row \in RowsOf(m)
    BY <2>1 DEF RowsOf
  <2>4. CASE Carried(o)
    <3>1. copies' = [copies EXCEPT ![m] = @ + 1]
      BY <2>2, <2>4
    <3>2. Promise!Answer(m)
      BY <2>1, <2>3, <3>1, CopyCarried
    <3>3. QED
      BY <2>1, <3>2 DEF Promise!Next
  <2>5. CASE ~Carried(o)
    <3>1. copies' = copies
      BY <1>1, <2>1, <2>2, <2>5 DEF TypeOK
    <3>2. QED
      BY <2>1, <3>1, FateKept DEF RowIds
  <2>6. QED
    BY <2>4, <2>5
<1>9. CASE ReleaseAnswered
  <2> DEFINE s == IF released = "acked" THEN "sent" ELSE "failed_send"
  <2>1. s \in Terminal
    BY DEF Terminal
  <2>2. row \in RowIds /\ rows[row].status = "sending" /\ SetStatus(row, s)
        /\ copies' = copies
    BY <1>1, <1>9 DEF ReleaseAnswered, TypeOK, HeldUncarried
  <2> HIDE DEF s
  <2>3. QED
    BY <1>3, <2>1, <2>2
<1>10. CASE PassStarts \/ PassEnds \/ ScanSkipped \/ ScanChecked \/ PassFaults
  <2>1. UNCHANGED << rows, copies >>
    BY <1>10 DEF PassStarts, PassEnds, ScanSkipped, ScanChecked, PassFaults
  <2>2. QED
    BY <2>1, FateKept DEF RowIds
<1>11. QED
  BY <1>5, <1>6, <1>7, <1>8, <1>9, <1>10 DEF Sweep

\* A restart closes the emails whose row it interrupts, all at once.
LEMMA RebootImplements ==
    ASSUME ChannelInv, ChannelAssumption, Reboot
    PROVE  Promise!Next
<1>1. /\ RowIds' = RowIds
      /\ \A j \in RowIds : /\ rows'[j].msg = rows[j].msg
                           /\ \/ rows'[j].status = rows[j].status
                              \/ /\ rows[j].status = "sending"
                                 /\ rows'[j].status = "failed_interrupted"
  BY TypeReboot DEF ChannelInv
<1>2. \A x \in Messages : RowsOf(x)' = RowsOf(x) /\ RowsOf(x) \subseteq RowIds
  BY <1>1 DEF RowsOf
<1>3. copies' = copies
  BY DEF Reboot
<1> DEFINE S == {x \in Messages : Fate[x] = "queued" /\ Fate'[x] # "queued"}
<1>4. ASSUME NEW x \in Messages
      PROVE  Fate'[x] = IF x \in S THEN "closed" ELSE Fate[x]
  <2>1. (\E i \in RowsOf(x) : rows'[i].status \in Pending)
           => (\E i \in RowsOf(x) : rows[i].status \in Pending)
    BY <1>1, <1>2 DEF Pending
  <2>2. Fate[x] = IF copies[x] > 0 THEN "answered"
                  ELSE IF RowsOf(x) = {} THEN "unanswered"
                  ELSE IF \E i \in RowsOf(x) : rows[i].status \in Pending
                  THEN "queued" ELSE "closed"
    BY DEF Fate
  <2>3. Fate'[x] = IF copies[x] > 0 THEN "answered"
                   ELSE IF RowsOf(x) = {} THEN "unanswered"
                   ELSE IF \E i \in RowsOf(x) : rows'[i].status \in Pending
                   THEN "queued" ELSE "closed"
    BY <1>2, <1>3 DEF Fate
  <2>4. QED
    BY <2>1, <2>2, <2>3
<1>5. Fate' = [x \in Messages |-> IF x \in S THEN "closed" ELSE Fate[x]]
  <2>1. Fate' = [x \in Messages |-> Fate'[x]]
    BY DEF Fate
  <2> HIDE DEF S
  <2>2. QED
    BY <1>4, <2>1, Zenon
<1>6. S \in SUBSET Messages /\ \A x \in S : Fate[x] = "queued"
  OBVIOUS
<1>7. Promise!CloseAll(S)
  <2> HIDE DEF S
  <2>1. QED
    BY <1>3, <1>5, <1>6 DEF Promise!CloseAll
<1>8. QED
  BY <1>6, <1>7 DEF Promise!Next

\* The reply channel implements its promise (ReplyPromise): an email is answered
\* once, live or out of the queue, and a reply the queue gave up is never sent.
THEOREM Implements == Spec => KeepsPromise
<1>1. Init => Promise!Init
  <2> SUFFICES ASSUME Init PROVE Promise!Init
    OBVIOUS
  <2>1. \A m \in Messages : RowsOf(m) = {} /\ copies[m] = 0
    BY DEF Init, RowIds, RowsOf
  <2>2. Fate = [m \in Messages |-> "unanswered"]
    BY <2>1 DEF Fate
  <2>3. QED
    BY <2>2 DEF Init, Promise!Init
<1>2. ChannelInv /\ [Next]_vars => Promise!Next \/ UNCHANGED << Fate, copies >>
  <2> SUFFICES ASSUME ChannelInv, [Next]_vars
               PROVE  Promise!Next \/ UNCHANGED << Fate, copies >>
    OBVIOUS
  <2>1. ASSUME NEW m \in Messages, Relay(m)
        PROVE  Promise!Next \/ UNCHANGED << Fate, copies >>
    BY <2>1, ChannelAssumption, RelayImplements
  <2>2. CASE Sweep
    BY <2>2, SweepImplements
  <2>3. CASE Reboot
    BY <2>3, ChannelAssumption, RebootImplements
  <2>4. CASE Tick
    BY <2>4, ChannelAssumption, TypeTick, FateKept DEF ChannelInv, Tick
  <2>5. CASE Author \/ UNCHANGED vars
    BY <2>5, FateKept DEF Author, vars, RowIds
  <2>6. QED
    BY <2>1, <2>2, <2>3, <2>4, <2>5 DEF Next
<1>3. ChannelInv /\ [Next]_vars => [Promise!Next]_(Promise!pvars)
  BY <1>2 DEF Promise!pvars
<1>4. QED
  BY <1>1, <1>3, ChannelInvariant, PTL DEF Spec, KeepsPromise, Promise!Spec

-------------------------------------------------------------------------------
(***************************************************************************)
(* The queue is first in, first out for each person.                       *)
(***************************************************************************)

\* What the table does in a step: rows are added behind the others, and none is
\* held again.
RowsStay == /\ RowIds \subseteq RowIds'
            /\ \A j \in RowIds : /\ rows'[j].msg = rows[j].msg
                                 /\ rows'[j].status = "held" => rows[j].status = "held"
            /\ \A j \in RowIds' \ RowIds : \A i \in RowIds : i < j

LEMMA IdsAreNaturals ==
    ASSUME TypeOK, TypeOK'
    PROVE  RowIds \subseteq Nat /\ RowIds' \subseteq Nat
<1>1. rows \in Seq(Row) /\ rows' \in Seq(Row)
  BY DEF TypeOK, Row
<1>2. QED
  BY <1>1, LenProperties DEF RowIds

\* A row that waits before another did so before the step.
LEMMA WaitedBefore ==
    ASSUME TypeOK, TypeOK', RowsStay, NEW i \in RowIds, NEW j \in RowIds', WaitsBefore(j, i)'
    PROVE  j \in RowIds /\ WaitsBefore(j, i)
<1>1. j < i /\ To[rows'[j].msg] = To[rows'[i].msg] /\ rows'[j].status = "held"
  BY DEF WaitsBefore
<1>2. j \in RowIds
  <2>1. SUFFICES ASSUME j \notin RowIds PROVE FALSE
    OBVIOUS
  <2>2. i < j
    BY <2>1 DEF RowsStay
  <2>3. i \in Nat /\ j \in Nat
    BY IdsAreNaturals
  <2>4. QED
    BY <1>1, <2>2, <2>3
<1>3. QED
  BY <1>1, <1>2 DEF RowsStay, WaitsBefore

\* Every step leaves the table so.
LEMMA TableStays ==
    ASSUME TypeOK, TypeOK', ChannelAssumption, [Next]_vars
    PROVE  RowsStay
<1>1. CASE UNCHANGED rows
  BY <1>1 DEF RowsStay, RowIds
<1>2. ASSUME NEW i \in RowIds, NEW s \in RowStatus \ {"held"}, SetStatus(i, s)
      PROVE  RowsStay
  BY <1>2, StatusSet DEF RowsStay
<1>3. ASSUME NEW m \in Messages, Enqueue(m)
      PROVE  RowsStay
  <2>1. PICK n \in Nat : /\ RowIds' = RowIds \cup {n}
                         /\ \A j \in RowIds : rows'[j] = rows[j] /\ j < n
    BY <1>3, RowAppended
  <2>2. QED
    BY <2>1 DEF RowsStay
<1>4. ASSUME NEW m \in Messages, Relay(m)
      PROVE  RowsStay
  BY <1>1, <1>3, <1>4 DEF Relay, OpenTurn, DraftDuplicate, DraftRefused, DraftPasses,
     OrderingGuard, RateCheck, EnqueueDrops, CommitQueued, Transmit, TransmitAnswered, EndTurn
<1>5. CASE Sweep
  <2>1. /\ "sending" \in RowStatus \ {"held"} /\ "expired" \in RowStatus \ {"held"}
        /\ "sent" \in RowStatus \ {"held"} /\ "failed_send" \in RowStatus \ {"held"}
    BY DEF RowStatus, Pending, Terminal
  <2>2. CASE ScanExpired
    BY <1>1, <1>2, <2>1, <2>2, OldestIn DEF ScanExpired
  <2>3. CASE Expire
    BY <1>2, <2>1, <2>3 DEF Expire, TypeOK
  <2>4. CASE Claim
    BY <1>1, <1>2, <2>1, <2>4 DEF Claim, TypeOK
  <2>5. CASE ReleaseAnswered
    BY <1>2, <2>1, <2>5 DEF ReleaseAnswered, TypeOK
  <2>6. QED
    BY <1>1, <1>5, <2>2, <2>3, <2>4, <2>5
       DEF Sweep, PassStarts, PassEnds, ScanSkipped, ScanChecked, Release, PassFaults
<1>6. CASE Reboot
  BY <1>6, TypeReboot DEF RowsStay
<1>7. CASE Tick
  BY <1>7, TypeTick DEF RowsStay
<1>8. CASE Author \/ UNCHANGED vars
  BY <1>1, <1>8 DEF Author, vars
<1>9. QED
  BY <1>4, <1>5, <1>6, <1>7, <1>8 DEF Next

\* A pass reads the oldest held rows: with a row, every older one that is held.
LEMMA PassIsClosed ==
    ASSUME TypeOK, PassStarts, NEW i \in batch', NEW j \in HeldIds, j < i
    PROVE  j \in batch'
<1> DEFINE Ahead(k) == {h \in HeldIds : h < k}
<1>1. rows \in Seq(Row) /\ RowIds = 1 .. Len(rows) /\ Len(rows) \in Nat
  BY LenProperties DEF TypeOK, RowIds
<1>2. HeldIds \subseteq 1 .. Len(rows) /\ IsFiniteSet(1 .. Len(rows))
  BY <1>1, FS_Interval DEF HeldIds
<1>3. i \in HeldIds /\ Cardinality(Ahead(i)) < SweepLimit
  BY DEF PassStarts
<1>4. Ahead(j) \subseteq Ahead(i) /\ Ahead(i) \subseteq 1 .. Len(rows)
  <2>1. \A h \in HeldIds : h \in Nat
    BY <1>2
  <2>2. \A h \in HeldIds : h < j => h < i
    BY <1>3, <2>1
  <2>3. QED
    BY <1>2, <2>2
<1>5. IsFiniteSet(Ahead(i)) /\ IsFiniteSet(Ahead(j)) /\ Cardinality(Ahead(j)) <= Cardinality(Ahead(i))
  <2>1. IsFiniteSet(Ahead(i))
    BY <1>2, <1>4, FS_Subset
  <2>2. QED
    BY <1>4, <2>1, FS_Subset
<1>6. Cardinality(Ahead(i)) \in Nat /\ Cardinality(Ahead(j)) \in Nat /\ SweepLimit \in Nat
  BY <1>5, FS_CardinalityType, ChannelAssumption
<1>7. Cardinality(Ahead(j)) < SweepLimit
  BY <1>3, <1>5, <1>6
<1>8. QED
  BY <1>7 DEF PassStarts

\* A step that leaves the sweeper where it is.
LEMMA PlaceKept ==
    ASSUME TypeOK, TypeOK', OrderInv, RowsStay,
           UNCHANGED << sw, row, batch, blocked, releasing >>
    PROVE  OrderInv'
<1>1. batch \subseteq RowIds /\ (sw \in {"claim", "transmit"} => row \in RowIds)
  BY DEF TypeOK
<1>2. ASSUME NEW i \in RowIds, NEW j \in RowIds', WaitsBefore(j, i)'
      PROVE  j \in RowIds /\ WaitsBefore(j, i) /\ To[rows'[j].msg] = To[rows[j].msg]
  BY <1>2, WaitedBefore DEF RowsStay
<1>3. PassInOrder'
  <2>1. SUFFICES ASSUME sw # "idle", releasing, NEW i \in batch, NEW j \in RowIds',
                        WaitsBefore(j, i)'
                 PROVE  j \in batch \/ To[rows'[j].msg] \in blocked \/ (sw = "claim" /\ j = row)
    BY DEF PassInOrder
  <2>2. QED
    BY <1>1, <1>2, <2>1 DEF OrderInv, PassInOrder
<1>4. NextInLine'
  <2>1. SUFFICES ASSUME sw \in {"claim", "transmit"}, NEW j \in RowIds', WaitsBefore(j, row)'
                 PROVE  FALSE
    BY DEF NextInLine
  <2>2. WaitsBefore(j, row)
    <3>1. PICK i \in RowIds : i = row
      BY <1>1, <2>1
    <3>2. WaitsBefore(j, i)'
      BY <2>1, <3>1 DEF WaitsBefore
    <3>3. QED
      BY <1>2, <3>1, <3>2
  <2>3. QED
    BY <1>2, <2>1, <2>2 DEF OrderInv, NextInLine, WaitsBefore, RowsStay, TypeOK
<1>5. QED
  BY <1>3, <1>4 DEF OrderInv

\* The sweeper's steps keep its order (run_sweep_once).
LEMMA SweepInOrder ==
    ASSUME TypeOK, TypeOK', ChannelAssumption, OrderInv, RowsStay, Sweep
    PROVE  OrderInv'
<1>1. /\ batch \subseteq RowIds /\ RowIds \subseteq Nat /\ RowIds' \subseteq Nat
      /\ \A i \in RowIds, j \in RowIds' : WaitsBefore(j, i)' =>
            j \in RowIds /\ WaitsBefore(j, i) /\ To[rows'[j].msg] = To[rows[j].msg]
  BY IdsAreNaturals, WaitedBefore DEF TypeOK, RowsStay
<1>2. CASE sw' = "idle"
  BY <1>2 DEF OrderInv, PassInOrder, NextInLine
<1>3. CASE PassStarts
  <2>1. batch' \subseteq RowIds /\ sw' = "scan" /\ rows' = rows
    BY <1>3 DEF PassStarts, HeldIds
  <2>2. ASSUME NEW i \in batch', NEW j \in RowIds', WaitsBefore(j, i)'
        PROVE  j \in batch'
    <3>1. j \in HeldIds /\ j < i
      BY <2>1, <2>2 DEF WaitsBefore, HeldIds, RowIds
    <3>2. QED
      BY <1>3, <3>1, PassIsClosed
  <2>3. QED
    BY <2>1, <2>2 DEF OrderInv, PassInOrder, NextInLine
<1>4. ASSUME sw = "scan", sw' \in {"scan", "expire"}, batch # {}, releasing' = releasing,
             blocked \subseteq blocked', batch' = batch \ {Oldest(batch)},
             releasing => \/ To[rows[Oldest(batch)].msg] \in blocked'
                          \/ Oldest(batch) \in RowIds' /\ rows'[Oldest(batch)].status # "held"
      PROVE  OrderInv'
  <2>1. ASSUME releasing, NEW i \in batch', NEW j \in RowIds', WaitsBefore(j, i)'
        PROVE  j \in batch' \/ To[rows'[j].msg] \in blocked'
    <3>1. j \in RowIds /\ WaitsBefore(j, i) /\ To[rows'[j].msg] = To[rows[j].msg]
      BY <1>1, <1>4, <2>1
    <3>2. j \in batch \/ To[rows[j].msg] \in blocked
      BY <1>4, <2>1, <3>1 DEF OrderInv, PassInOrder
    <3>3. CASE j = Oldest(batch)
      BY <1>4, <2>1, <3>1, <3>3 DEF WaitsBefore
    <3>4. QED
      BY <1>4, <3>1, <3>2, <3>3
  <2>2. QED
    BY <1>4, <2>1 DEF OrderInv, PassInOrder, NextInLine
<1>5. CASE ScanExpired
  <2>1. Oldest(batch) \in RowIds
    BY <1>5, OldestIn DEF ScanExpired
  <2>2. CASE rows[Oldest(batch)].status = "held"
    <3>1. SetStatus(Oldest(batch), "sending") /\ Take("expire")
      BY <1>5, <2>2 DEF ScanExpired
    <3>2. Oldest(batch) \in RowIds' /\ rows'[Oldest(batch)].status # "held"
      BY <2>1, <3>1, StatusSet DEF RowStatus, Pending
    <3>3. QED
      BY <1>4, <1>5, <3>1, <3>2 DEF ScanExpired, Take
  <2>3. CASE rows[Oldest(batch)].status # "held"
    BY <1>4, <1>5, <2>1, <2>3 DEF ScanExpired, RowIds
  <2>4. QED
    BY <2>2, <2>3
<1>6. CASE ScanSkipped
  BY <1>4, <1>6 DEF ScanSkipped
<1>7. CASE ScanChecked
  <2> DEFINE o == Oldest(batch)
             r == To[rows[o].msg]
  <2>1. /\ sw = "scan" /\ batch # {} /\ releasing /\ r \notin blocked
        /\ UNCHANGED << rows, releasing >>
    BY <1>7 DEF ScanChecked
  <2>2. o \in batch /\ o \in RowIds /\ \A j \in batch : o <= j
    BY <2>1, OldestIn
  <2>3. CASE Take("claim") /\ UNCHANGED blocked
    <3>1. row' = o /\ batch' = batch \ {o} /\ sw' = "claim"
      BY <2>3 DEF Take
    <3>2. ASSUME NEW i \in batch', NEW j \in RowIds', WaitsBefore(j, i)'
          PROVE  j \in batch' \/ To[rows'[j].msg] \in blocked' \/ j = row'
      <4>1. j \in RowIds /\ WaitsBefore(j, i) /\ To[rows'[j].msg] = To[rows[j].msg]
        BY <1>1, <3>1, <3>2
      <4>2. j \in batch \/ To[rows[j].msg] \in blocked
        BY <2>1, <3>1, <3>2, <4>1 DEF OrderInv, PassInOrder
      <4>3. QED
        BY <2>3, <3>1, <4>1, <4>2
    <3>3. ASSUME NEW j \in RowIds', WaitsBefore(j, o)
          PROVE  FALSE
      <4>1. j \in RowIds /\ j < o /\ To[rows[j].msg] = r
        BY <2>1, <3>3 DEF RowIds, WaitsBefore
      <4>2. j \in batch
        BY <2>1, <2>2, <3>3, <4>1 DEF OrderInv, PassInOrder
      <4>3. j \in Nat /\ o \in Nat /\ o <= j
        BY <1>1, <2>2, <4>1, <4>2
      <4>4. QED
        BY <4>1, <4>3
    <3>4. ASSUME NEW j \in RowIds', WaitsBefore(j, row)'
          PROVE  FALSE
      <4>1. WaitsBefore(j, o)
        BY <2>1, <3>1, <3>4 DEF WaitsBefore
      <4>2. QED
        BY <3>3, <4>1
    <3>5. PassInOrder'
      BY <3>1, <3>2 DEF PassInOrder
    <3>6. NextInLine'
      BY <3>4 DEF NextInLine
    <3>7. QED
      BY <3>5, <3>6 DEF OrderInv
  <2>4. CASE blocked' = blocked \cup {r} /\ batch' = batch \ {o} /\ UNCHANGED << sw, row >>
    BY <1>4, <2>1, <2>4
  <2>5. CASE batch' = {} /\ UNCHANGED << sw, row, blocked >>
    BY <2>1, <2>5 DEF OrderInv, PassInOrder, NextInLine
  <2>6. QED
    BY <1>7, <2>3, <2>4, <2>5 DEF ScanChecked
<1>8. ASSUME sw # "idle", sw' \in {"scan", "answer"}, batch' = batch, releasing' = releasing,
             blocked' = blocked,
             sw = "claim" => rows'[row].status # "held"
      PROVE  OrderInv'
  <2>1. ASSUME releasing, NEW i \in batch', NEW j \in RowIds', WaitsBefore(j, i)'
        PROVE  j \in batch' \/ To[rows'[j].msg] \in blocked'
    <3>1. j \in RowIds /\ WaitsBefore(j, i) /\ To[rows'[j].msg] = To[rows[j].msg]
      BY <1>1, <1>8, <2>1
    <3>2. ~(sw = "claim" /\ j = row)
      BY <1>8, <2>1 DEF WaitsBefore
    <3>3. QED
      BY <1>8, <2>1, <3>1, <3>2 DEF OrderInv, PassInOrder
  <2>2. QED
    BY <1>8, <2>1 DEF OrderInv, PassInOrder, NextInLine
<1>9. CASE Expire
  BY <1>8, <1>9 DEF Expire
<1>10. CASE Claim
  <2>1. row \in RowIds /\ "sending" \in RowStatus
    BY <1>10 DEF Claim, TypeOK, RowStatus, Pending
  <2>2. rows'[row].status # "held"
    BY <1>10, <2>1, StatusSet DEF Claim
  <2>3. CASE sw' = "scan"
    BY <1>8, <1>10, <2>2, <2>3 DEF Claim
  <2>4. CASE sw' = "transmit" /\ row' = row
    <3>1. ASSUME releasing, NEW i \in batch, NEW j \in RowIds', WaitsBefore(j, i)'
          PROVE  j \in batch \/ To[rows'[j].msg] \in blocked
      <4>1. j \in RowIds /\ WaitsBefore(j, i) /\ To[rows'[j].msg] = To[rows[j].msg]
        BY <1>1, <3>1
      <4>2. j # row
        BY <2>2, <3>1 DEF WaitsBefore
      <4>3. QED
        BY <1>10, <3>1, <4>1, <4>2 DEF Claim, OrderInv, PassInOrder
    <3>2. PassInOrder'
      BY <1>10, <3>1 DEF Claim, PassInOrder
    <3>3. ASSUME NEW j \in RowIds', WaitsBefore(j, row)'
          PROVE  FALSE
      <4>1. PICK i \in RowIds : i = row
        BY <2>1
      <4>2. WaitsBefore(j, i)'
        BY <2>4, <3>3, <4>1 DEF WaitsBefore
      <4>3. j \in RowIds /\ WaitsBefore(j, row)
        BY <1>1, <4>1, <4>2
      <4>4. QED
        BY <1>10, <4>3 DEF Claim, OrderInv, NextInLine
    <3>4. NextInLine'
      BY <3>3 DEF NextInLine
    <3>5. QED
      BY <3>2, <3>4 DEF OrderInv
  <2>5. QED
    BY <1>10, <2>3, <2>4 DEF Claim
<1>11. CASE Release \/ ReleaseAnswered
  BY <1>8, <1>11 DEF Release, ReleaseAnswered
<1>12. CASE PassEnds \/ PassFaults
  BY <1>2, <1>12 DEF PassEnds, PassFaults
<1>13. QED
  BY <1>3, <1>5, <1>6, <1>7, <1>9, <1>10, <1>11, <1>12 DEF Sweep

LEMMA OrderStep ==
    ASSUME TypeOK, TypeOK', ChannelAssumption, OrderInv, [Next]_vars
    PROVE  OrderInv'
<1>1. RowsStay
  BY TableStays
<1>2. ASSUME NEW m \in Messages, Relay(m)
      PROVE  OrderInv'
  BY <1>1, <1>2, PlaceKept DEF Relay, OpenTurn, DraftDuplicate, DraftRefused, DraftPasses,
     OrderingGuard, RateCheck, Enqueue, EnqueueDrops, CommitQueued, Transmit,
     TransmitAnswered, EndTurn, sweepVars
<1>3. CASE Author \/ Tick \/ UNCHANGED vars
  BY <1>1, <1>3, PlaceKept DEF Author, Tick, vars, sweepVars
<1>4. CASE Reboot
  BY <1>4 DEF Reboot, OrderInv, PassInOrder, NextInLine
<1>5. QED
  BY <1>1, <1>2, <1>3, <1>4, SweepInOrder DEF Next

\* Release is first in, first out for each person, whatever is queued, expires,
\* is refused or raises while a pass works from its snapshot (run_sweep_once).
THEOREM ReleasedFirstInFirstOut == Spec => ReleasedInOrder
<1>1. Init => OrderInv
  BY DEF Init, OrderInv, PassInOrder, NextInLine
<1>2. TypeOK /\ TypeOK' /\ OrderInv /\ [Next]_vars => OrderInv'
  BY ChannelAssumption, OrderStep
<1>3. OrderInv /\ [Next]_vars
        => [sw = "transmit" /\ sw' = "answer" =>
              \A j \in RowIds : /\ j < row
                                 /\ To[rows[j].msg] = To[rows[row].msg]
                                 => rows[j].status # "held"]_vars
  BY DEF OrderInv, NextInLine, WaitsBefore
<1>4. QED
  BY <1>1, <1>2, <1>3, TypeCorrect, PTL DEF Spec, ReleasedInOrder
===============================================================================
