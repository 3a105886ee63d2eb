--------------------------- MODULE LimitProofs ---------------------------
(***************************************************************************)
(* The two limits on what the Machine may do by itself: the sticky stop of *)
(* the cost breaker, and the rate windows of the reply channel.            *)
(*                                                                         *)
(* The sticky stop: the row, and every row some call is about to write, is *)
(* Sound: its level agrees with its cause and its counters.  Nothing       *)
(* orders the writes, so that is the inductive invariant: any of them may  *)
(* come next.                                                              *)
(*                                                                         *)
(* The rate windows (second half): at every age, a window counts no stamp  *)
(* that no send left, and all of them while nobody evicts by a shorter     *)
(* window.                                                                 *)
(***************************************************************************)
EXTENDS StickyStop, ReplyLimiter, FiniteSetTheorems, SequenceTheorems, WellFoundedInduction, TLAPS

Sound(r) == /\ r.level = "HARD_STOP" <=> r.reason # "none"
            /\ r.condition = (IF r.reason = "pause" THEN "none" ELSE r.reason)
            /\ r.failures = MaxFailures \/ r.refusals = MaxRefusals => r.level = "HARD_STOP"

\* What a call decided for the row it read: a stop is not given back.
Decided(next, saw) == Sound(next) /\ (next.level = "OK" => saw = "OK")

StopInv == /\ TypeOK
           /\ Sound(row)
           /\ \A h \in Handles : call[h].busy => Decided(call[h].next, call[h].saw)
           /\ captain.busy => Sound(captain.next)

LEMMA FreshSound == Fresh \in Rows /\ Sound(Fresh)
  BY StickyStopAssumption DEF Fresh, Rows, Meters, Sound

\* Stopped keeps a sound row sound, when the counter it is told about is the
\* only one that may have reached its limit.
LEMMA StoppedSound ==
  ASSUME NEW r \in Rows, NEW n \in Rows, NEW meter \in Meters, NEW over \in BOOLEAN,
         Sound(r),
         n.level = r.level, n.reason = r.reason, n.condition = r.condition,
         n.failures = MaxFailures \/ n.refusals = MaxRefusals => n.level = "HARD_STOP" \/ over
  PROVE  /\ Stopped(n, meter, over) \in Rows
         /\ Decided(Stopped(n, meter, over), r.level)
<1>1. CASE over /\ n.level = "OK"
  BY <1>1 DEF Stopped, Decided, Sound, Rows, Meters
<1>2. CASE ~(over /\ n.level = "OK")
  BY <1>2 DEF Stopped, Decided, Sound, Rows, Meters
<1> QED BY <1>1, <1>2

LEMMA TickedType ==
  ASSUME NEW limit \in Nat \ {0}, NEW count \in 0..limit
  PROVE  Ticked(count, limit) \subseteq 0..limit
  BY DEF Ticked, AtMost

\* Every decision on a sound row is sound.
LEMMA FailureSound ==
  ASSUME NEW r \in Rows, Sound(r), NEW next \in AfterFailure(r)
  PROVE  next \in Rows /\ Decided(next, r.level)
<1>1. PICK n \in Ticked(r.failures, MaxFailures) :
         next = Stopped([r EXCEPT !.failures = n], "failures", n >= MaxFailures)
  BY DEF AfterFailure
<1>2. n \in 0..MaxFailures
  BY TickedType, StickyStopAssumption DEF Rows
<1> DEFINE m == [r EXCEPT !.failures = n]
<1>3. m \in Rows
  BY <1>2 DEF Rows
<1>4. m.failures = MaxFailures \/ m.refusals = MaxRefusals => m.level = "HARD_STOP" \/ n >= MaxFailures
  BY <1>2, StickyStopAssumption DEF Rows, Sound
<1>5. m.level = r.level /\ m.reason = r.reason /\ m.condition = r.condition
  BY DEF Rows
<1>6. (n >= MaxFailures) \in BOOLEAN /\ "failures" \in Meters
  BY DEF Meters
<1> HIDE DEF m
<1> QED BY <1>1, <1>3, <1>4, <1>5, <1>6, StoppedSound DEF m

LEMMA RefusalSound ==
  ASSUME NEW r \in Rows, Sound(r), NEW next \in AfterRefusal(r)
  PROVE  next \in Rows /\ Decided(next, r.level)
<1>1. PICK n \in Ticked(r.refusals, MaxRefusals) :
         next = Stopped([r EXCEPT !.refusals = n], "refusals", n >= MaxRefusals)
  BY DEF AfterRefusal
<1>2. n \in 0..MaxRefusals
  BY TickedType, StickyStopAssumption DEF Rows
<1> DEFINE m == [r EXCEPT !.refusals = n]
<1>3. m \in Rows
  BY <1>2 DEF Rows
<1>4. m.failures = MaxFailures \/ m.refusals = MaxRefusals => m.level = "HARD_STOP" \/ n >= MaxRefusals
  BY <1>2, StickyStopAssumption DEF Rows, Sound
<1>5. m.level = r.level /\ m.reason = r.reason /\ m.condition = r.condition
  BY DEF Rows
<1>6. (n >= MaxRefusals) \in BOOLEAN /\ "refusals" \in Meters
  BY DEF Meters
<1> HIDE DEF m
<1> QED BY <1>1, <1>3, <1>4, <1>5, <1>6, StoppedSound DEF m

LEMMA CostSound ==
  ASSUME NEW r \in Rows, Sound(r), NEW h \in Handles, NEW next \in AfterCost(r, h)
  PROVE  next \in Rows /\ Decided(next, r.level)
<1>1. PICK c \in {AtMost(MaxCents, r.cents + charge) : charge \in 1..MaxCents} :
         next = Stopped([r EXCEPT !.cents = c], "cost", c >= Cap[h])
  BY DEF AfterCost
<1>2. c \in 0..MaxCents
  BY StickyStopAssumption DEF Rows, AtMost
<1> DEFINE m == [r EXCEPT !.cents = c]
<1>3. m \in Rows
  BY <1>2 DEF Rows
<1>4. m.failures = MaxFailures \/ m.refusals = MaxRefusals => m.level = "HARD_STOP"
  BY DEF Rows, Sound
<1>5. m.level = r.level /\ m.reason = r.reason /\ m.condition = r.condition
  BY DEF Rows
<1>6. (c >= Cap[h]) \in BOOLEAN /\ "cost" \in Meters
  BY DEF Meters
<1> HIDE DEF m
<1> QED BY <1>1, <1>3, <1>4, <1>5, <1>6, StoppedSound DEF m

LEMMA SuccessSound ==
  ASSUME NEW r \in Rows, Sound(r), NEW next \in AfterSuccess(r)
  PROVE  next \in Rows /\ Decided(next, r.level)
  BY StickyStopAssumption DEF AfterSuccess, Rows, Sound, Decided

LEMMA BusyCall ==
  ASSUME NEW c \in Calls(Rows), c.busy
  PROVE  /\ c \in [busy : {TRUE}, next : Rows, saw : {"OK", "HARD_STOP"}]
         /\ c.next \in Rows
<1>1. c # Idle
  BY DEF Idle
<1>2. c \in [busy : {TRUE}, next : Rows, saw : {"OK", "HARD_STOP"}]
  BY <1>1 DEF Calls
<1> QED BY <1>2

\* A meter's step leaves in call only what it decided on the row it read.
LEMMA MeterStep ==
  ASSUME StopInv, NEW h \in Handles, NEW decisions, Meter(h, decisions),
         \A next \in decisions : next \in Rows /\ Decided(next, row.level)
  PROVE  /\ call' \in [Handles -> Calls(Rows)]
         /\ \A k \in Handles : call'[k].busy => Decided(call'[k].next, call'[k].saw)
         /\ faults' \in 0..MaxFaults
<1> USE DEF StopInv, TypeOK
<1>1. CASE Fault /\ UNCHANGED call
  BY <1>1, StickyStopAssumption DEF Fault
<1>2. CASE (\E next \in decisions : call' = [call EXCEPT ![h] = Pending(next, row.level)])
           /\ UNCHANGED faults
  <2>1. PICK next \in decisions : call' = [call EXCEPT ![h] = Pending(next, row.level)]
    BY <1>2
  <2>2. Pending(next, row.level) \in Calls(Rows)
    BY <2>1 DEF Pending, Calls, Rows
  <2>3. Decided(Pending(next, row.level).next, Pending(next, row.level).saw)
    BY <2>1 DEF Pending
  <2> HIDE DEF TypeOK
  <2>4. call \in [Handles -> Calls(Rows)] /\ faults \in 0..MaxFaults
    BY DEF TypeOK
  <2> QED BY <1>2, <2>1, <2>2, <2>3, <2>4
<1> QED BY <1>1, <1>2 DEF Meter

\* The inductive invariant.
LEMMA InitInv == Init => StopInv
<1>1. Idle \in Calls(Rows) /\ ~Idle.busy
  BY DEF Idle, Calls
<1>2. NoAnswer \in [fresh : BOOLEAN, hard : BOOLEAN]
  BY DEF NoAnswer
<1>3. 0 \in 0..MaxFaults
  BY StickyStopAssumption
<1> SUFFICES ASSUME Init PROVE StopInv
  OBVIOUS
<1>4. TypeOK
  BY <1>1, <1>2, <1>3, FreshSound DEF Init, TypeOK
<1> QED BY <1>1, <1>4, FreshSound DEF Init, StopInv

LEMMA NextInv == StopInv /\ [Next]_vars => StopInv'
<1> SUFFICES ASSUME StopInv, [Next]_vars PROVE StopInv'
  OBVIOUS
<1>type. TypeOK /\ row \in Rows
  BY DEF StopInv, TypeOK
<1>1. ASSUME NEW h \in Handles, Put(h) PROVE StopInv'
  <2>1. call[h] \in Calls(Rows) /\ call[h].busy
    BY <1>1 DEF StopInv, TypeOK, Put
  <2>2. call[h].next \in Rows /\ Sound(call[h].next)
    BY <2>1, BusyCall DEF StopInv, Decided
  <2>3. row' \in Rows /\ Sound(row')
    BY <1>1, <2>2, <1>type DEF Put, StopInv
  <2>4. faults' \in 0..MaxFaults
    BY <1>1, StickyStopAssumption DEF Put, Fault, StopInv, TypeOK
  <2>5. /\ call' \in [Handles -> Calls(Rows)]
        /\ \A k \in Handles : call'[k].busy => Decided(call'[k].next, call'[k].saw)
    BY <1>1 DEF Put, StopInv, TypeOK, Calls, Idle
  <2> QED BY <1>1, <2>3, <2>4, <2>5 DEF Put, StopInv, TypeOK, Sound, Decided
<1>2. CASE Pin
  <2>1. row' \in Rows /\ Sound(row')
    BY <1>2, <1>type DEF Pin, Rows, Sound, Meters
  <2> QED BY <1>2, <2>1 DEF Pin, StopInv, TypeOK, Sound, Decided
<1>3. CASE ClearRead
  <2>1. [Fresh EXCEPT !.cents = row.cents] \in Rows /\ Sound([Fresh EXCEPT !.cents = row.cents])
    BY FreshSound, <1>type DEF Rows, Sound, Fresh
  <2>2. captain' \in Calls(Rows) /\ Sound(captain'.next)
    BY <1>3, <2>1, <1>type DEF ClearRead, Pending, Calls, Rows
  <2> QED BY <1>3, <2>2 DEF ClearRead, StopInv, TypeOK, Sound, Decided
<1>4. CASE ClearPut
  <2>1. row' \in Rows /\ Sound(row')
    BY <1>4, BusyCall DEF ClearPut, StopInv, TypeOK
  <2> QED BY <1>4, <2>1 DEF ClearPut, StopInv, TypeOK, Sound, Decided, Idle, Calls
<1>5. CASE NewDay
  <2> DEFINE Dated(c) == IF c.busy THEN [c EXCEPT !.next.cents = 0] ELSE c
  <2>1. \A c \in Calls(Rows) :
           /\ Dated(c) \in Calls(Rows)
           /\ Dated(c).busy = c.busy
           /\ c.busy => /\ Dated(c).saw = c.saw
                        /\ Dated(c).next.level = c.next.level
                        /\ Sound(c.next) => Sound(Dated(c).next)
    <3>1. ASSUME NEW c \in Calls(Rows), c.busy
          PROVE  /\ Dated(c) = [c EXCEPT !.next.cents = 0]
                 /\ Dated(c) \in [busy : {TRUE}, next : Rows, saw : {"OK", "HARD_STOP"}]
                 /\ Dated(c).busy /\ Dated(c).saw = c.saw
                 /\ Dated(c).next = [c.next EXCEPT !.cents = 0]
      <4>1. c \in [busy : {TRUE}, next : Rows, saw : {"OK", "HARD_STOP"}]
        BY <3>1, BusyCall
      <4>2. Dated(c) = [c EXCEPT !.next.cents = 0]
        BY <3>1
      <4>3. Dated(c).next = [c.next EXCEPT !.cents = 0]
        BY <4>1, <4>2
      <4>4. [c.next EXCEPT !.cents = 0] \in Rows
        BY <4>1, StickyStopAssumption DEF Rows
      <4> QED BY <4>1, <4>2, <4>3, <4>4
    <3>2. ASSUME NEW r \in Rows, Sound(r)
          PROVE  Sound([r EXCEPT !.cents = 0]) /\ [r EXCEPT !.cents = 0].level = r.level
      BY <3>2 DEF Rows, Sound
    <3>3. ASSUME NEW r \in Rows PROVE [r EXCEPT !.cents = 0].level = r.level
      BY DEF Rows
    <3>4. ASSUME NEW c \in Calls(Rows), ~c.busy PROVE Dated(c) = c
      BY <3>4
    <3>5. ASSUME NEW c \in Calls(Rows)
          PROVE  /\ Dated(c) \in Calls(Rows)
                 /\ Dated(c).busy = c.busy
                 /\ c.busy => /\ Dated(c).saw = c.saw
                              /\ Dated(c).next.level = c.next.level
                              /\ Sound(c.next) => Sound(Dated(c).next)
      <4>1. CASE c.busy
        <5>1. Dated(c) \in Calls(Rows) /\ c.busy = TRUE /\ Dated(c).busy = TRUE
          BY <4>1, <3>1, BusyCall DEF Calls
        <5>2. c.next \in Rows
          BY <4>1, BusyCall
        <5> QED BY <4>1, <5>1, <5>2, <3>1, <3>2, <3>3
      <4>2. CASE ~c.busy
        BY <4>2, <3>4
      <4> QED BY <4>1, <4>2
    <3> HIDE DEF Dated
    <3> QED BY <3>5
  <2>2. row' \in Rows /\ Sound(row')
    BY <1>5, StickyStopAssumption DEF NewDay, StopInv, TypeOK, Rows, Sound
  <2>3. captain' = Dated(captain) /\ \A h \in Handles : call'[h] = Dated(call[h])
    BY <1>5 DEF NewDay
  <2>4. call' \in [Handles -> Calls(Rows)]
    BY <1>5, <2>1 DEF NewDay, StopInv, TypeOK
  <2>5. \A h \in Handles : call'[h].busy => Decided(call'[h].next, call'[h].saw)
    <3> HIDE DEF Dated
    <3> SUFFICES ASSUME NEW h \in Handles, call'[h].busy
                 PROVE  Decided(call'[h].next, call'[h].saw)
      OBVIOUS
    <3>1. call[h] \in Calls(Rows) /\ call'[h] = Dated(call[h])
      BY <2>3 DEF StopInv, TypeOK
    <3>2. call[h].busy
      BY <2>1, <3>1
    <3>3. Decided(call[h].next, call[h].saw)
      BY <3>2 DEF StopInv
    <3> QED BY <2>1, <3>1, <3>2, <3>3 DEF Decided
  <2>6. captain' \in Calls(Rows) /\ (captain'.busy => Sound(captain'.next))
    BY <2>1, <2>3 DEF StopInv, TypeOK
  <2>7. UNCHANGED << cache, turn, segment, faults >>
    BY <1>5 DEF NewDay
  <2> QED BY <2>2, <2>4, <2>5, <2>6, <2>7 DEF StopInv, TypeOK
<1>6. CASE Wake
  BY <1>6 DEF Wake, StopInv, TypeOK, Sound, Decided
<1>7. CASE CacheExpires
  BY <1>7 DEF CacheExpires, NoAnswer, StopInv, TypeOK, Sound, Decided
<1>wall. ASSUME NEW hard \in BOOLEAN, Wall(hard)
         PROVE  cache' \in [fresh : BOOLEAN, hard : BOOLEAN] /\ faults' \in 0..MaxFaults
  <2>1. CASE cache.fresh /\ hard = cache.hard /\ UNCHANGED << cache, faults >>
    BY <2>1, <1>type DEF TypeOK
  <2>2. CASE cache' = [fresh |-> TRUE, hard |-> hard] /\ (UNCHANGED faults \/ Fault)
    BY <2>2, <1>type, StickyStopAssumption DEF TypeOK, Fault
  <2> QED BY <1>wall, <2>1, <2>2 DEF Wall
<1>8. CASE ToolStarts
  BY <1>8, <1>wall DEF ToolStarts, StopInv, TypeOK, Sound, Decided
<1>9. CASE ToolRefused
  <2>1. PICK next \in AfterRefusal(row) :
           call' = [call EXCEPT !["gateway"] = Pending(next, row.level)]
    BY <1>9 DEF ToolRefused
  <2>2. next \in Rows /\ Decided(next, row.level)
    BY <2>1, RefusalSound DEF StopInv, TypeOK
  <2>3. Pending(next, row.level) \in Calls(Rows)
    BY <2>2, <1>type DEF Pending, Calls, Rows
  <2>4. Pending(next, row.level).next = next /\ Pending(next, row.level).saw = row.level
    BY DEF Pending
  <2>5. /\ call' \in [Handles -> Calls(Rows)]
        /\ \A k \in Handles : call'[k].busy => Decided(call'[k].next, call'[k].saw)
    BY <2>1, <2>2, <2>3, <2>4 DEF StopInv, TypeOK
  <2> QED BY <1>9, <1>wall, <2>5 DEF ToolRefused, StopInv, TypeOK, Sound
<1>10. ASSUME NEW h \in Handles,
              \/ UNCHANGED << call, faults >>
              \/ Meter(h, AfterSuccess(row)) \/ Meter(h, AfterFailure(row))
              \/ Meter(h, AfterRefusal(row)) \/ Meter(h, AfterCost(row, h))
       PROVE  /\ call' \in [Handles -> Calls(Rows)]
              /\ \A k \in Handles : call'[k].busy => Decided(call'[k].next, call'[k].saw)
              /\ faults' \in 0..MaxFaults
  <2>1. CASE UNCHANGED << call, faults >>
    BY <2>1 DEF StopInv, TypeOK
  <2>2. Sound(row)
    BY DEF StopInv
  <2>3. CASE Meter(h, AfterSuccess(row))
    BY <2>2, <2>3, <1>type, SuccessSound, MeterStep
  <2>4. CASE Meter(h, AfterFailure(row))
    BY <2>2, <2>4, <1>type, FailureSound, MeterStep
  <2>5. CASE Meter(h, AfterRefusal(row))
    BY <2>2, <2>5, <1>type, RefusalSound, MeterStep
  <2>6. CASE Meter(h, AfterCost(row, h))
    BY <2>2, <2>6, <1>type, CostSound, MeterStep
  <2> QED BY <1>10, <2>1, <2>3, <2>4, <2>5, <2>6
<1>11. CASE ToolEnds
  <2>1. "gateway" \in Handles
    BY DEF Handles
  <2> QED BY <1>11, <2>1, <1>10 DEF ToolEnds, StopInv, TypeOK, Sound
<1>12. CASE TurnEnds
  <2>1. "gateway" \in Handles
    BY DEF Handles
  <2> QED BY <1>12, <2>1, <1>10 DEF TurnEnds, StopInv, TypeOK, Sound
<1>13. CASE SegmentStarts
  BY <1>13, StickyStopAssumption DEF SegmentStarts, Fault, StopInv, TypeOK, Sound, Decided
<1>14. CASE SegmentEnds
  <2>1. "worker" \in Handles
    BY DEF Handles
  <2> QED BY <1>14, <2>1, <1>10 DEF SegmentEnds, StopInv, TypeOK, Sound
<1>15. CASE UNCHANGED vars
  BY <1>15 DEF vars, StopInv, TypeOK, Sound, Decided
<1> QED BY <1>1, <1>2, <1>3, <1>4, <1>5, <1>6, <1>7, <1>8, <1>9, <1>11, <1>12, <1>13,
           <1>14, <1>15 DEF Next

\* Every write that is pending is sound, whatever happens to the row meanwhile
\* (StickyStopMachine's read, decide and put).
THEOREM StopInvariant == Spec => []StopInv
<1>1. Init => StopInv
  BY InitInv
<1>2. StopInv /\ [Next]_vars => StopInv'
  BY NextInv
<1> QED BY <1>1, <1>2, PTL DEF Spec

\* The state is well typed: in particular the stored condition is one that the
\* next read of the row can parse (SqliteStickyStopStore.get).
THEOREM TypeCorrect == Spec => []TypeOK
<1>1. StopInv => TypeOK
  BY DEF StopInv
<1> QED BY <1>1, StopInvariant, PTL

\* A stop has the cause that made it, for any limits and caps
\* (pin_hard_stops, clear, read_stop_state).
THEOREM CauseIsRight == Spec => []CauseMatchesLevel
<1>1. StopInv => CauseMatchesLevel
  BY DEF StopInv, Sound, CauseMatchesLevel, Hard
<1> QED BY <1>1, StopInvariant, PTL

\* A counter at its limit is a stop, whatever stale writes come in between
\* (_level_for_tool_failures, _level_for_refusals).
THEOREM LimitIsAStop == Spec => []OverLimitStops
<1>1. StopInv => OverLimitStops
  BY DEF StopInv, Sound, OverLimitStops, Hard
<1> QED BY <1>1, StopInvariant, PTL

\* Only a clear, or a meter that read the row before the stop, lowers it
\* (_forward_only).
THEOREM StopIsForward == Spec => OnlyStaleLowers
<1> DEFINE Lowered == captain.busy /\ ~captain'.busy
           Stale == \E h \in Handles : call[h].busy /\ ~call'[h].busy /\ call[h].saw = "OK"
<1>1. StopInv /\ [Next]_vars => [Hard /\ row'.level = "OK" => Lowered \/ Stale]_vars
  <2> SUFFICES ASSUME StopInv, Next, Hard, row'.level = "OK"
               PROVE  Lowered \/ Stale
    OBVIOUS
  <2>1. ASSUME NEW h \in Handles, Put(h) PROVE Stale
    <3>1. row' = call[h].next /\ call[h].busy
      BY <2>1 DEF Put, Hard
    <3>2. call[h].saw = "OK"
      BY <3>1 DEF StopInv, Decided
    <3>3. ~call'[h].busy
      BY <2>1 DEF Put, Idle, StopInv, TypeOK
    <3> QED BY <3>1, <3>2, <3>3
  <2>2. CASE ClearPut
    BY <2>2 DEF ClearPut, Idle
  <2>3. CASE Pin
    BY <2>3 DEF Pin, StopInv, TypeOK, Rows
  <2>4. CASE NewDay
    BY <2>4 DEF NewDay, Hard, StopInv, TypeOK, Rows
  <2>5. CASE ClearRead \/ Wake \/ CacheExpires \/ ToolStarts \/ ToolRefused \/ ToolEnds
             \/ TurnEnds \/ SegmentStarts \/ SegmentEnds
    BY <2>5 DEF ClearRead, Wake, CacheExpires, ToolStarts, ToolRefused, ToolEnds, TurnEnds,
                SegmentStarts, SegmentEnds, Hard
  <2> QED BY <2>1, <2>2, <2>3, <2>4, <2>5 DEF Next
<1> QED BY <1>1, StopInvariant, PTL DEF Spec, OnlyStaleLowers

-------------------------------------------------------------------------------
(***************************************************************************)
(* The rate limiter.  First the operators: what a window counts, what      *)
(* _evict leaves of it, and what a stamp and a clock step make of it.      *)
(***************************************************************************)
\* The positions of a sequence that satisfy something are finitely many.
LEMMA Countable ==
  ASSUME NEW n \in Nat, NEW S \in SUBSET (1 .. n)
  PROVE  IsFiniteSet(S) /\ Cardinality(S) \in Nat /\ Cardinality(S) <= n
<1>1. 1 \in Int /\ n \in Int
  OBVIOUS
<1>2. IsFiniteSet(1 .. n) /\ Cardinality(1 .. n) = (IF 1 > n THEN 0 ELSE n - 1 + 1)
  BY <1>1, FS_Interval, Zenon
<1>3. IsFiniteSet(S) /\ Cardinality(S) <= Cardinality(1 .. n)
  BY <1>2, FS_Subset, Zenon
<1>4. Cardinality(S) \in Nat
  BY <1>3, FS_CardinalityType, Zenon
<1> QED BY <1>2, <1>3, <1>4

\* The same positions, all moved by k, are as many.
LEMMA Moved ==
  ASSUME NEW n \in Nat, NEW S \in SUBSET (1 .. n), NEW k \in Nat
  PROVE  LET T == {i + k : i \in S}
         IN  IsFiniteSet(T) /\ Cardinality(T) = Cardinality(S)
<1> DEFINE T == {i + k : i \in S}
           f == [i \in S |-> i + k]
<1>1. f \in Bijection(S, T)
  <2>1. S \subseteq Nat
    OBVIOUS
  <2>2. f \in [S -> T]
    OBVIOUS
  <2>3. \A i, j \in S : f[i] = f[j] => i = j
    BY <2>1
  <2>4. \A t \in T : \E i \in S : f[i] = t
    OBVIOUS
  <2> HIDE DEF f, T
  <2> QED BY <2>2, <2>3, <2>4 DEF Bijection, Injection, Surjection, IsInjective
<1>2. ExistsBijection(S, T)
  BY <1>1 DEF ExistsBijection
<1> HIDE DEF T
<1>3. IsFiniteSet(T) /\ Cardinality(T) = Cardinality(S)
  BY <1>2, Countable, FS_Bijection, Zenon
<1> QED BY <1>3 DEF T

\* _evict stops: some prefix is the longest that is too old.
LEMMA PoppedIs ==
  ASSUME NEW w \in Seq(Ages), NEW W \in Nat
  PROVE  LET k == Popped(w, W)
         IN  /\ k \in 0 .. Len(w)
             /\ \A i \in 1 .. k : w[i] > W
             /\ k < Len(w) => w[k + 1] <= W
<1> DEFINE Kept == {i \in 1 .. Len(w) : w[i] <= W}
           Longest(k) == /\ \A i \in 1 .. k : w[i] > W
                         /\ k < Len(w) => w[k + 1] <= W
<1>1. /\ Len(w) \in Nat
      /\ \A i \in 1 .. Len(w) : w[i] \in Nat
  BY HorizonAssumption DEF Ages
<1>2. \E k \in 0 .. Len(w) : Longest(k)
  <2>1. CASE Kept = {}
    <3>1. \A i \in 1 .. Len(w) : w[i] > W
      BY <2>1, <1>1
    <3> WITNESS Len(w) \in 0 .. Len(w)
    <3> QED BY <3>1, <1>1
  <2>2. CASE Kept # {}
    <3> DEFINE Less == {ss \in Nat \X Nat : ss[1] < ss[2]}
    <3>1. IsWellFoundedOn(Less, Nat)
      <4>1. Less = OpToRel(<, Nat)
        BY Zenon DEF OpToRel
      <4> QED BY <4>1, NatLessThanWellFounded, Zenon
    <3>2. Kept \subseteq Nat
      OBVIOUS
    <3>3. PICK m \in Kept : \A i \in Kept : << i, m >> \notin Less
      <4> HIDE DEF Less, Kept
      <4> QED BY <2>2, <3>1, <3>2, WFMin, Zenon
    <3>4. \A i \in Kept : ~(i < m)
      <4> SUFFICES ASSUME NEW i \in Kept, i < m PROVE FALSE
        OBVIOUS
      <4>1. << i, m >> \in Nat \X Nat /\ << i, m >>[1] < << i, m >>[2]
        BY <3>2
      <4>2. << i, m >> \in Less
        BY <4>1, Zenon
      <4> QED BY <4>2, <3>3
    <3>5. m - 1 \in 0 .. Len(w)
      BY <1>1
    <3>6. \A i \in 1 .. m - 1 : w[i] > W
      BY <3>4, <1>1
    <3>7. w[(m - 1) + 1] <= W
      BY <1>1
    <3> QED BY <3>5, <3>6, <3>7
  <2> QED BY <2>1, <2>2
<1> HIDE DEF Longest
<1>3. Popped(w, W) = CHOOSE k \in 0 .. Len(w) : Longest(k)
  BY DEF Popped, Longest
<1>4. Popped(w, W) \in 0 .. Len(w) /\ Longest(Popped(w, W))
  BY <1>2, <1>3
<1> QED BY <1>4 DEF Longest

\* How many stamps are no older than a is a number.
LEMMA StampsNat ==
  ASSUME NEW w \in Seq(Ages), NEW a \in Nat
  PROVE  Stamps(w, a) \in Nat /\ Stamps(w, a) <= Len(w)
<1> DEFINE Young == {i \in 1 .. Len(w) : w[i] <= a}
<1>1. Len(w) \in Nat /\ Young \in SUBSET (1 .. Len(w)) /\ {i \in DOMAIN w : w[i] <= a} = Young
  BY LenProperties
<1>2. Stamps(w, a) = Cardinality(Young)
  BY <1>1, Zenon DEF Stamps
<1> HIDE DEF Young
<1> QED BY <1>1, <1>2, Countable

\* What _evict leaves: the stamps no older than W, all of them and in order, so
\* that its length is their count.
LEMMA EvictKeeps ==
  ASSUME NEW w \in Seq(Ages), NEW W \in Nat, InOrder(w)
  PROVE  /\ Evict(w, W) \in Seq(Ages)
         /\ InOrder(Evict(w, W))
         /\ \A a \in Nat : /\ Stamps(Evict(w, W), a) <= Stamps(w, a)
                           /\ a <= W => Stamps(Evict(w, W), a) = Stamps(w, a)
         /\ Len(Evict(w, W)) = Stamps(w, W)
<1> DEFINE k == Popped(w, W)
           e == Evict(w, W)
           Young(s, a) == {i \in 1 .. Len(s) : s[i] <= a}
<1>1. /\ k \in 0 .. Len(w)
      /\ \A i \in 1 .. k : w[i] > W
      /\ k < Len(w) => w[k + 1] <= W
  BY PoppedIs
<1>2. /\ Len(w) \in Nat /\ DOMAIN w = 1 .. Len(w)
      /\ \A i \in 1 .. Len(w) : w[i] \in Ages /\ w[i] \in Nat
  BY LenProperties, HorizonAssumption DEF Ages
<1> HIDE DEF k
<1>3. /\ e \in Seq(Ages)
      /\ Len(e) = Len(w) - k
      /\ \A i \in 1 .. Len(w) - k : e[i] = w[i + k]
  <2>1. e = SubSeq(w, k + 1, Len(w))
    BY DEF Evict, k
  <2>2. k + 1 \in Int /\ Len(w) \in Int /\ \A i \in k + 1 .. Len(w) : w[i] \in Ages
    BY <1>1, <1>2
  <2>3. /\ e \in Seq(Ages)
        /\ Len(e) = IF k + 1 <= Len(w) THEN Len(w) - (k + 1) + 1 ELSE 0
        /\ \A i \in 1 .. Len(w) - (k + 1) + 1 : e[i] = w[(k + 1) + i - 1]
    <3> HIDE DEF e
    <3> QED BY <2>1, <2>2, SubSeqProperties
  <2> HIDE DEF e
  <2>4. Len(e) = Len(w) - k
    <3>1. Len(e) = (IF k + 1 <= Len(w) THEN Len(w) - (k + 1) + 1 ELSE 0) /\ k \in 0 .. Len(w) /\ Len(w) \in Nat
      BY <2>3, <1>1, <1>2, Zenon
    <3> QED BY <3>1
  <2>5. ASSUME NEW i \in 1 .. Len(w) - k PROVE e[i] = w[i + k]
    <3>1. i \in 1 .. Len(w) - (k + 1) + 1 /\ (k + 1) + i - 1 = i + k
      BY <1>1, <1>2
    <3> QED BY <3>1, <2>3
  <2> QED BY <2>3, <2>4, <2>5
<1> HIDE DEF e
<1>4. DOMAIN e = 1 .. Len(e) /\ InOrder(e)
  <2>1. DOMAIN e = 1 .. Len(e)
    BY <1>3, LenProperties
  <2>2. ASSUME NEW i \in 1 .. Len(e), NEW j \in 1 .. Len(e), i <= j PROVE e[j] <= e[i]
    <3>1. i + k \in DOMAIN w /\ j + k \in DOMAIN w /\ i + k <= j + k
      BY <1>1, <1>2, <1>3, <2>2
    <3> QED BY <3>1, <1>3, <2>2 DEF InOrder
  <2> QED BY <2>1, <2>2 DEF InOrder
<1>5. ASSUME NEW a \in Nat
      PROVE  /\ Cardinality(Young(e, a)) <= Cardinality(Young(w, a))
             /\ a <= W => Cardinality(Young(e, a)) = Cardinality(Young(w, a))
  <2> DEFINE T == {i + k : i \in Young(e, a)}
  <2>1. Young(e, a) \in SUBSET (1 .. Len(e)) /\ Young(w, a) \in SUBSET (1 .. Len(w)) /\ Len(e) \in Nat
    BY <1>1, <1>2, <1>3
  <2>2. T \subseteq Young(w, a)
    BY <1>1, <1>2, <1>3
  <2>3. ASSUME a <= W PROVE Young(w, a) \subseteq T
    <3> SUFFICES ASSUME NEW j \in Young(w, a) PROVE j \in T
      OBVIOUS
    <3>1. j > k
      BY <1>1, <1>2, <2>3
    <3>2. j - k \in Young(e, a) /\ j = (j - k) + k
      BY <3>1, <1>1, <1>2, <1>3
    <3> QED BY <3>2
  <2> HIDE DEF Young, T
  <2>4. Cardinality(T) = Cardinality(Young(e, a))
    <3>1. k \in Nat
      BY <1>1, <1>2
    <3> QED BY <2>1, <3>1, Moved, Zenon DEF T
  <2>5. IsFiniteSet(Young(w, a))
    BY <2>1, <1>2, Countable
  <2>6. Cardinality(T) <= Cardinality(Young(w, a))
    BY <2>2, <2>5, FS_Subset, Zenon
  <2>7. a <= W => T = Young(w, a)
    BY <2>2, <2>3
  <2> QED BY <2>4, <2>6, <2>7
<1>6. \A a \in Nat : Stamps(e, a) = Cardinality(Young(e, a)) /\ Stamps(w, a) = Cardinality(Young(w, a))
  BY <1>2, <1>4, Zenon DEF Stamps
<1>7. Len(e) = Cardinality(Young(e, W))
  <2>1. \A i \in 1 .. Len(e) : e[i] <= W
    <3> SUFFICES ASSUME NEW i \in 1 .. Len(e) PROVE e[i] <= W
      OBVIOUS
    <3>1. e[1] <= W /\ 1 \in DOMAIN e /\ i \in DOMAIN e /\ 1 <= i
      BY <1>1, <1>2, <1>3, <1>4
    <3>2. e[i] <= e[1] /\ e[i] \in Nat /\ e[1] \in Nat
      BY <3>1, <1>4, <1>3, HorizonAssumption DEF InOrder, Ages
    <3> QED BY <3>1, <3>2
  <2>2. Young(e, W) = 1 .. Len(e)
    BY <2>1
  <2>3. Len(e) \in Nat
    BY <1>3
  <2>4. Cardinality(1 .. Len(e)) = (IF 1 > Len(e) THEN 0 ELSE Len(e) - 1 + 1)
    <3>1. 1 \in Int /\ Len(e) \in Int
      BY <2>3
    <3> QED BY <3>1, FS_Interval, Zenon
  <2>5. Cardinality(1 .. Len(e)) = Len(e)
    BY <2>3, <2>4
  <2> QED BY <2>2, <2>5, Zenon
<1> HIDE DEF Young
<1>8. Stamps(e, W) = Stamps(w, W)
  BY <1>5, <1>6
<1> QED BY <1>3, <1>4, <1>5, <1>6, <1>7, <1>8 DEF e

\* An allowed send appends a stamp of age 0; any other leaves the window be.
LEMMA StampAdds ==
  ASSUME NEW w \in Seq(Ages), InOrder(w)
  PROVE  /\ w \o << >> = w
         /\ w \o << 0 >> \in Seq(Ages)
         /\ InOrder(w \o << 0 >>)
         /\ \A a \in Nat : Stamps(w \o << 0 >>, a) = Stamps(w, a) + 1
<1> DEFINE s == w \o << 0 >>
           n == Len(w)
<1>1. 0 \in Ages /\ n \in Nat /\ DOMAIN w = 1 .. n /\ \A i \in 1 .. n : w[i] \in Nat
  BY LenProperties, HorizonAssumption DEF Ages
<1>2. /\ s \in Seq(Ages) /\ Len(s) = n + 1 /\ DOMAIN s = 1 .. n + 1
      /\ \A i \in 1 .. n : s[i] = w[i]
      /\ s[n + 1] = 0
  BY <1>1, LenProperties
<1> HIDE DEF s
<1>3. InOrder(s)
  BY <1>1, <1>2 DEF InOrder
<1>4. ASSUME NEW a \in Nat PROVE Stamps(s, a) = Stamps(w, a) + 1
  <2> DEFINE Young == {i \in 1 .. n : w[i] <= a}
  <2>1. Stamps(w, a) = Cardinality(Young)
    BY <1>1, Zenon DEF Stamps
  <2>2. {i \in DOMAIN s : s[i] <= a} = Young \cup {n + 1}
    BY <1>1, <1>2
  <2>3. n + 1 \notin Young /\ Young \in SUBSET (1 .. n)
    BY <1>1
  <2> HIDE DEF Young
  <2>4. IsFiniteSet(Young)
    BY <2>3, <1>1, Countable
  <2>5. Cardinality(Young \cup {n + 1}) = Cardinality(Young) + 1
    BY <2>3, <2>4, FS_AddElement, Zenon
  <2> QED BY <2>1, <2>2, <2>5 DEF Stamps
<1>5. w \o << >> = w
  BY <1>1
<1> QED BY <1>2, <1>3, <1>4, <1>5 DEF s

\* A clock step makes every stamp a step older, and keeps their order.
LEMMA AgedStamps ==
  ASSUME NEW w \in Seq(Ages), InOrder(w)
  PROVE  /\ AgedWindow(w) \in Seq(Ages)
         /\ InOrder(AgedWindow(w))
         /\ Stamps(AgedWindow(w), 0) = 0
         /\ \A a \in 1 .. Horizon : Stamps(AgedWindow(w), a) = Stamps(w, a - 1)
<1> DEFINE s == AgedWindow(w)
           n == Len(w)
<1>1. n \in Nat /\ DOMAIN w = 1 .. n /\ \A i \in 1 .. n : w[i] \in Ages /\ w[i] \in 0 .. Horizon + 1
  BY LenProperties DEF Ages
<1>2. \A i \in 1 .. n : Older(w[i]) \in Ages
  BY <1>1, HorizonAssumption DEF Ages, Older
<1>3. /\ s \in Seq(Ages) /\ Len(s) = n /\ DOMAIN s = 1 .. n
      /\ \A i \in 1 .. n : s[i] = Older(w[i])
  BY <1>1, <1>2 DEF AgedWindow
<1> HIDE DEF s
<1>4. InOrder(s)
  BY <1>1, <1>3, HorizonAssumption DEF InOrder, Older
<1>5. {i \in DOMAIN s : s[i] <= 0} = {}
  BY <1>1, <1>3, HorizonAssumption DEF Older
<1>6. Stamps(s, 0) = 0
  BY <1>5, FS_EmptySet DEF Stamps
<1>7. ASSUME NEW a \in 1 .. Horizon PROVE Stamps(s, a) = Stamps(w, a - 1)
  <2>1. {i \in DOMAIN s : s[i] <= a} = {i \in DOMAIN w : w[i] <= a - 1}
    BY <1>1, <1>3, HorizonAssumption DEF Older
  <2> QED BY <2>1 DEF Stamps
<1> QED BY <1>3, <1>4, <1>6, <1>7 DEF s

-------------------------------------------------------------------------------
(***************************************************************************)
(* The same for the history of sends, which the windows are held against.  *)
(***************************************************************************)
Sends == [to : Recipients, exempt : BOOLEAN, age : Ages]

\* Of a set of sends, those no older than a, and how many they are.
Young(l, T, a) == {i \in T : l[i].age <= a}
Count(l, T, a) == Cardinality(Young(l, T, a))

\* The sends of a set that are no older than a are finitely many.
LEMMA YoungNat ==
  ASSUME NEW l \in Seq(Sends), NEW T \in SUBSET (DOMAIN l), NEW a \in Nat
  PROVE  IsFiniteSet(Young(l, T, a)) /\ Count(l, T, a) \in Nat
<1>1. Len(l) \in Nat /\ Young(l, T, a) \in SUBSET (1 .. Len(l))
  BY LenProperties DEF Young
<1> QED BY <1>1, Countable DEF Count

\* A send is counted, at every age, in the sets it belongs to and in no other.
LEMMA SentCounted ==
  ASSUME NEW l \in Seq(Sends), NEW x \in Sends, x.age = 0, NEW m, m = Append(l, x),
         NEW T \in SUBSET (DOMAIN l), NEW a \in Nat
  PROVE  /\ Count(m, T, a) = Count(l, T, a)
         /\ Count(m, T \cup {Len(l) + 1}, a) = Count(l, T, a) + 1
<1> DEFINE n == Len(l)
<1>1. n \in Nat /\ DOMAIN l = 1 .. n
  BY LenProperties
<1>2. m[n + 1] = x /\ \A i \in 1 .. n : m[i] = l[i]
  BY <1>1
<1> HIDE DEF n
<1>3. Young(m, T, a) = Young(l, T, a)
  BY <1>1, <1>2 DEF Young
<1>4. Young(m, T \cup {n + 1}, a) = Young(l, T, a) \cup {n + 1}
  BY <1>1, <1>2 DEF Young
<1>5. n + 1 \notin Young(l, T, a)
  BY <1>1 DEF Young
<1>6. IsFiniteSet(Young(l, T, a))
  BY YoungNat
<1>7. Cardinality(Young(l, T, a) \cup {n + 1}) = Cardinality(Young(l, T, a)) + 1
  BY <1>5, <1>6, FS_AddElement, Zenon
<1> QED BY <1>3, <1>4, <1>7 DEF Count, n

\* A clock step makes every send a step older, and forgets none that a window
\* still counts.
LEMMA OlderCounted ==
  ASSUME NEW l \in Seq(Sends), NEW k \in 0 .. Len(l), NEW m,
         NEW T \in SUBSET (DOMAIN l), NEW U, NEW a \in 0 .. Horizon,
         \A j \in 1 .. k : Older(l[j].age) > Horizon,
         \A i \in 1 .. Len(l) - k : m[i].age = Older(l[i + k].age),
         U = {i \in 1 .. Len(l) - k : i + k \in T}
  PROVE  Count(m, U, a) = IF a = 0 THEN 0 ELSE Count(l, T, a - 1)
<1> DEFINE n == Len(l)
           Then == Young(m, U, a)
           Now == Young(l, T, a - 1)
           Shifted == {i + k : i \in Then}
<1>1. n \in Nat /\ k \in Nat /\ DOMAIN l = 1 .. n
  BY LenProperties
<1>2. \A i \in 1 .. n : l[i].age \in 0 .. Horizon + 1
  <2> SUFFICES ASSUME NEW i \in 1 .. n PROVE l[i].age \in Ages
    BY DEF Ages
  <2>1. l[i] \in Sends
    BY <1>1
  <2> QED BY <2>1 DEF Sends
<1>3. \A i \in 1 .. n - k : m[i].age = Older(l[i + k].age)
  OBVIOUS
<1> HIDE DEF n
<1>4. CASE a = 0
  <2>1. Then = {}
    BY <1>1, <1>2, <1>3, <1>4, HorizonAssumption DEF Older, Young, n
  <2> QED BY <2>1, <1>4, FS_EmptySet DEF Count
<1>5. CASE a # 0
  <2>1. Shifted \subseteq Now
    BY <1>1, <1>2, <1>3, <1>5, HorizonAssumption DEF Older, Young, n
  <2>2. Now \subseteq Shifted
    <3> SUFFICES ASSUME NEW j \in Now PROVE j \in Shifted
      OBVIOUS
    <3>1. j \in 1 .. n /\ j \in T /\ l[j].age <= a - 1
      BY <1>1 DEF Young
    <3>2. Older(l[j].age) <= a /\ Older(l[j].age) <= Horizon
      BY <3>1, <1>2, <1>5, HorizonAssumption DEF Older
    <3>3. ~(j \in 1 .. k)
      BY <3>1, <3>2, <1>2, HorizonAssumption DEF Older
    <3>4. j - k \in 1 .. n - k /\ (j - k) + k = j
      BY <3>1, <3>3, <1>1
    <3>5. m[j - k].age <= a
      BY <3>2, <3>4, <1>3
    <3>6. j - k \in Then
      BY <3>1, <3>4, <3>5 DEF Young, n
    <3> QED BY <3>4, <3>6
  <2>3. Then \in SUBSET (1 .. n)
    BY <1>1 DEF Young, n
  <2> HIDE DEF Then, Now
  <2>4. Cardinality(Shifted) = Cardinality(Then)
    BY <2>3, <1>1, Moved, Zenon
  <2> HIDE DEF Shifted
  <2>5. Shifted = Now
    BY <2>1, <2>2, Zenon
  <2>6. Cardinality(Then) = Cardinality(Now)
    BY <2>4, <2>5, Zenon
  <2> QED BY <2>6, <1>5 DEF Then, Now, Count
<1> QED BY <1>4, <1>5

\* The three histories, when a send is logged.
LEMMA LogSent ==
  ASSUME LimiterType, NEW x \in Sends, x.age = 0, log' = Append(log, x),
         NEW a \in Nat, NEW r \in Recipients
  PROVE  /\ Within(SeatSends, a)' = Within(SeatSends, a) + 1
         /\ Within(GlobalSends, a)' = Within(GlobalSends, a) + (IF x.exempt THEN 0 ELSE 1)
         /\ Within(SenderSends(r), a)' =
               Within(SenderSends(r), a) + (IF x.exempt \/ x.to # r THEN 0 ELSE 1)
<1> DEFINE n == Len(log)
<1>1. log \in Seq(Sends) /\ n \in Nat /\ DOMAIN log = 1 .. n
  BY LenProperties DEF LimiterType, Sends
<1>2. log'[n + 1] = x /\ DOMAIN log' = 1 .. n + 1 /\ \A i \in 1 .. n : log'[i] = log[i]
  BY <1>1, LenProperties
<1>3. ASSUME NEW T \in SUBSET (DOMAIN log)
      PROVE  /\ Count(log, T, a) \in Nat
             /\ Count(log', T, a) = Count(log, T, a)
             /\ Count(log', T \cup {n + 1}, a) = Count(log, T, a) + 1
  <2>1. Count(log, T, a) \in Nat
    BY <1>1, YoungNat
  <2>2. Count(log', T, a) = Count(log, T, a) /\ Count(log', T \cup {n + 1}, a) = Count(log, T, a) + 1
    <3>1. log \in Seq(Sends) /\ T \in SUBSET (DOMAIN log)
      BY <1>1
    <3> QED BY <3>1, SentCounted
  <2> QED BY <2>1, <2>2
<1>4. SeatSends' = SeatSends \cup {n + 1} /\ SeatSends \in SUBSET (DOMAIN log)
  BY <1>1, <1>2 DEF SeatSends
<1>5. /\ GlobalSends' = IF x.exempt THEN GlobalSends ELSE GlobalSends \cup {n + 1}
      /\ GlobalSends \in SUBSET (DOMAIN log)
  BY <1>1, <1>2 DEF GlobalSends
<1>6. /\ SenderSends(r)' = IF x.exempt \/ x.to # r THEN SenderSends(r)
                           ELSE SenderSends(r) \cup {n + 1}
      /\ SenderSends(r) \in SUBSET (DOMAIN log)
  BY <1>1, <1>2 DEF SenderSends, GlobalSends
<1>7. /\ Within(SeatSends, a) = Count(log, SeatSends, a) /\ Within(SeatSends, a)' = Count(log', SeatSends', a)
      /\ Within(GlobalSends, a) = Count(log, GlobalSends, a) /\ Within(GlobalSends, a)' = Count(log', GlobalSends', a)
      /\ Within(SenderSends(r), a) = Count(log, SenderSends(r), a)
      /\ Within(SenderSends(r), a)' = Count(log', SenderSends(r)', a)
  BY DEF Within, Count, Young
<1>8. Within(SeatSends, a)' = Within(SeatSends, a) + 1
  BY <1>3, <1>4, <1>7
<1>9. Within(GlobalSends, a)' = Within(GlobalSends, a) + (IF x.exempt THEN 0 ELSE 1)
  <2>1. Count(log', GlobalSends', a) = Count(log, GlobalSends, a) + (IF x.exempt THEN 0 ELSE 1)
    <3>1. CASE x.exempt
      <4>1. GlobalSends' = GlobalSends
        BY <3>1, <1>5
      <4>2. /\ Count(log', GlobalSends, a) = Count(log, GlobalSends, a)
            /\ Count(log, GlobalSends, a) \in Nat
        BY <1>3, <1>5
      <4>3. Count(log', GlobalSends', a) = Count(log, GlobalSends, a)
        BY <4>1, <4>2, Zenon
      <4> QED BY <4>2, <4>3, <3>1
    <3>2. CASE ~x.exempt
      BY <3>2, <1>3, <1>5
    <3> QED BY <3>1, <3>2
  <2> QED BY <2>1, <1>7
<1>10. Within(SenderSends(r), a)' =
         Within(SenderSends(r), a) + (IF x.exempt \/ x.to # r THEN 0 ELSE 1)
  <2>1. Count(log', SenderSends(r)', a) = Count(log, SenderSends(r), a) + (IF x.exempt \/ x.to # r THEN 0 ELSE 1)
    <3>1. CASE x.exempt \/ x.to # r
      <4>1. SenderSends(r)' = SenderSends(r)
        BY <3>1, <1>6
      <4>2. /\ Count(log', SenderSends(r), a) = Count(log, SenderSends(r), a)
            /\ Count(log, SenderSends(r), a) \in Nat
        BY <1>3, <1>6
      <4>3. Count(log', SenderSends(r)', a) = Count(log, SenderSends(r), a)
        BY <4>1, <4>2, Zenon
      <4> QED BY <4>2, <4>3, <3>1
    <3>2. CASE ~(x.exempt \/ x.to # r)
      BY <3>2, <1>3, <1>6
    <3> QED BY <3>1, <3>2
  <2> QED BY <2>1, <1>7
<1> QED BY <1>8, <1>9, <1>10

\* The three histories, when time passes.
LEMMA LogAged ==
  ASSUME LimiterType, Tick, NEW a \in 0 .. Horizon
  PROVE  /\ log' \in Seq(Sends)
         /\ Within(SeatSends, a)' = IF a = 0 THEN 0 ELSE Within(SeatSends, a - 1)
         /\ Within(GlobalSends, a)' = IF a = 0 THEN 0 ELSE Within(GlobalSends, a - 1)
         /\ \A r \in Recipients :
               Within(SenderSends(r), a)' = IF a = 0 THEN 0 ELSE Within(SenderSends(r), a - 1)
<1> DEFINE n == Len(log)
           ages == AgedWindow([i \in DOMAIN log |-> log[i].age])
           k == Popped(ages, Horizon)
           m == [i \in 1 .. n - k |-> [log[i + k] EXCEPT !.age = Older(@)]]
           kept(T) == {i \in 1 .. n - k : i + k \in T}
<1>1. log \in Seq(Sends) /\ n \in Nat /\ DOMAIN log = 1 .. n
  BY LenProperties DEF LimiterType, Sends
<1>2. /\ ages \in Seq(Ages) /\ Len(ages) = n
      /\ \A i \in 1 .. n : ages[i] = Older(log[i].age)
  <2>1. \A i \in 1 .. n : log[i].age \in Ages
    <3> SUFFICES ASSUME NEW i \in 1 .. n PROVE log[i].age \in Ages
      OBVIOUS
    <3>1. log[i] \in Sends
      BY <1>1
    <3> QED BY <3>1 DEF Sends
  <2>2. \A i \in 1 .. n : Older(log[i].age) \in Ages
    BY <2>1, HorizonAssumption DEF Older, Ages
  <2>3. ages = [i \in 1 .. n |-> Older(log[i].age)]
    BY <1>1 DEF AgedWindow
  <2> HIDE DEF ages
  <2>4. ages \in [1 .. n -> Ages] /\ \A i \in 1 .. n : ages[i] = Older(log[i].age)
    BY <2>2, <2>3
  <2>5. ages \in Seq(Ages) /\ Len(ages) = n
    BY <2>4, <1>1
  <2> QED BY <2>4, <2>5
<1> HIDE DEF ages
<1>3. k \in 0 .. n /\ \A j \in 1 .. k : ages[j] > Horizon
  BY <1>2, PoppedIs, HorizonAssumption
<1>4. log' = m
  BY DEF Tick, ages
<1> HIDE DEF k
<1>5. DOMAIN log' = 1 .. n - k
  BY <1>4
<1>6. ASSUME NEW i \in 1 .. n - k
      PROVE  /\ i + k \in DOMAIN log /\ log'[i] \in Sends
             /\ log'[i].exempt = log[i + k].exempt /\ log'[i].to = log[i + k].to
             /\ log'[i].age = Older(log[i + k].age)
  <2>1. i + k \in 1 .. n
    BY <1>1, <1>3
  <2>2. log[i + k] \in Sends /\ log'[i] = [log[i + k] EXCEPT !.age = Older(@)]
    BY <2>1, <1>1, <1>4
  <2>3. Older(log[i + k].age) \in Ages
    BY <2>2, HorizonAssumption DEF Sends, Ages, Older
  <2> QED BY <2>1, <2>2, <2>3, <1>1 DEF Sends
<1>7. ASSUME NEW T \in SUBSET (DOMAIN log)
      PROVE  Count(log', kept(T), a) = IF a = 0 THEN 0 ELSE Count(log, T, a - 1)
  <2>1. \A j \in 1 .. k : Older(log[j].age) > Horizon
    BY <1>2, <1>3
  <2>2. log \in Seq(Sends) /\ k \in 0 .. Len(log)
    BY <1>1, <1>3
  <2>3. kept(T) = {i \in 1 .. Len(log) - k : i + k \in T}
    OBVIOUS
  <2> HIDE DEF kept
  <2>4. \A i \in 1 .. Len(log) - k : log'[i].age = Older(log[i + k].age)
    BY <1>6
  <2> HIDE DEF n, m
  <2> QED BY <2>1, <2>2, <2>3, <2>4, OlderCounted
<1>8. SeatSends' = kept(SeatSends) /\ SeatSends \in SUBSET (DOMAIN log)
  BY <1>5, <1>6 DEF SeatSends
<1>9. GlobalSends' = kept(GlobalSends) /\ GlobalSends \in SUBSET (DOMAIN log)
  BY <1>5, <1>6 DEF GlobalSends
<1>10. ASSUME NEW r \in Recipients
       PROVE  SenderSends(r)' = kept(SenderSends(r)) /\ SenderSends(r) \in SUBSET (DOMAIN log)
  BY <1>5, <1>6, <1>9 DEF SenderSends, GlobalSends
<1>11. log' \in Seq(Sends)
  <2>1. n - k \in Nat /\ log' \in [1 .. n - k -> Sends]
    BY <1>1, <1>3, <1>4, <1>6
  <2> QED BY <2>1
<1> HIDE DEF kept, m, n
<1>12. /\ Within(SeatSends, a)' = IF a = 0 THEN 0 ELSE Within(SeatSends, a - 1)
       /\ Within(GlobalSends, a)' = IF a = 0 THEN 0 ELSE Within(GlobalSends, a - 1)
  <2>1. /\ Within(SeatSends, a)' = Count(log', SeatSends', a)
        /\ Within(GlobalSends, a)' = Count(log', GlobalSends', a)
    BY DEF Within, Count, Young
  <2> QED BY <2>1, <1>7, <1>8, <1>9 DEF Within, Count, Young
<1>13. ASSUME NEW r \in Recipients
       PROVE  Within(SenderSends(r), a)' = IF a = 0 THEN 0 ELSE Within(SenderSends(r), a - 1)
  <2>1. Within(SenderSends(r), a)' = Count(log', SenderSends(r)', a)
    BY DEF Within, Count, Young
  <2> QED BY <2>1, <1>7, <1>10 DEF Within, Count, Young
<1> QED BY <1>11, <1>12, <1>13

-------------------------------------------------------------------------------
(***************************************************************************)
(* The inductive invariant: every window agrees with the history of sends. *)
(***************************************************************************)
\* A policy is one the limiter can use, and what a caller read resolves to one.
LEMMA PoliciesAre ==
  /\ \A p \in Policies : /\ p.internalExempt \in BOOLEAN
                         /\ {p.perSenderMax, p.globalMax, p.backstopMax} \subseteq Nat
                         /\ {p.perSenderWindow, p.globalWindow, p.backstopWindow} \subseteq 1 .. Horizon
  /\ \A block \in Policies \cup {Malformed} : Resolve(block) \in Policies
<1>1. Policies \subseteq Policy /\ Default \in Policies
  BY LimiterAssumption
<1>2. ASSUME NEW p \in Policies
      PROVE  /\ p.internalExempt \in BOOLEAN
             /\ {p.perSenderMax, p.globalMax, p.backstopMax} \subseteq Nat
             /\ {p.perSenderWindow, p.globalWindow, p.backstopWindow} \subseteq 1 .. Horizon
  <2>1. p \in Policy
    BY <1>1
  <2> QED BY <2>1 DEF Policy
<1>3. ASSUME NEW block \in Policies \cup {Malformed} PROVE Resolve(block) \in Policies
  BY <1>1 DEF Resolve
<1> QED BY <1>2, <1>3

\* Of the histories, each one's counts are numbers.
LEMMA WithinNat ==
  ASSUME LimiterType, NEW a \in Nat, NEW r \in Recipients
  PROVE  /\ Within(SeatSends, a) \in Nat
         /\ Within(GlobalSends, a) \in Nat
         /\ Within(SenderSends(r), a) \in Nat
<1>1. log \in Seq(Sends)
  BY DEF LimiterType, Sends
<1>2. {SeatSends, GlobalSends, SenderSends(r)} \subseteq SUBSET (DOMAIN log)
  BY DEF SeatSends, GlobalSends, SenderSends
<1>3. \A T \in SUBSET (DOMAIN log) : Count(log, T, a) \in Nat
  BY <1>1, YoungNat
<1> QED BY <1>2, <1>3 DEF Within, Count, Young

\* The window of a check under policy p is full when it holds that many sends
\* within p's window; or, when nobody evicts by a shorter one, only then.
LEMMA FullWindow ==
  ASSUME NEW w \in Seq(Ages), InOrder(w), NEW sends, NEW D, NEW W \in 1 .. Horizon,
         Agrees(w, sends, D), SameWindows => W = D
  PROVE  /\ Len(Evict(w, W)) \in Nat
         /\ Len(Evict(w, W)) <= Within(sends, W)
         /\ SameWindows => Len(Evict(w, W)) = Within(sends, W)
<1>1. W \in Nat /\ W \in 0 .. Horizon
  BY HorizonAssumption
<1>2. Len(Evict(w, W)) = Stamps(w, W) /\ Stamps(w, W) \in Nat
  BY <1>1, EvictKeeps, StampsNat
<1>3. Stamps(w, W) <= Within(sends, W) /\ (SameWindows => Stamps(w, W) = Within(sends, W))
  BY <1>1, HorizonAssumption DEF Agrees
<1> QED BY <1>2, <1>3

\* What a check under a window of length W makes of a window w, when it adds so
\* many stamps.
Grown(w, e, W, more) ==
  /\ e \in Seq(Ages)
  /\ InOrder(e)
  /\ \A a \in Nat : /\ Stamps(e, a) \in Nat /\ Stamps(w, a) \in Nat
                    /\ Stamps(e, a) <= Stamps(w, a) + more
                    /\ a <= W => Stamps(e, a) = Stamps(w, a) + more

\* A check evicts a window by its policy, and stamps it if it allows the send.
LEMMA WindowChecked ==
  ASSUME NEW w \in Seq(Ages), NEW W \in 1 .. Horizon, NEW e, NEW more, InOrder(w),
         \/ e = Evict(w, W) \o << 0 >> /\ more = 1
         \/ e = Evict(w, W) \o << >> /\ more = 0
  PROVE  Grown(w, e, W, more)
<1> DEFINE f == Evict(w, W)
<1>1. W \in Nat
  BY HorizonAssumption
<1>2. /\ f \in Seq(Ages) /\ InOrder(f)
      /\ \A a \in Nat : Stamps(f, a) <= Stamps(w, a) /\ (a <= W => Stamps(f, a) = Stamps(w, a))
  BY <1>1, EvictKeeps
<1> HIDE DEF f
<1>3. \A a \in Nat : Stamps(f, a) \in Nat /\ Stamps(w, a) \in Nat
  BY <1>2, StampsNat
<1>4. /\ f \o << >> = f /\ f \o << 0 >> \in Seq(Ages) /\ InOrder(f \o << 0 >>)
      /\ \A a \in Nat : Stamps(f \o << 0 >>, a) = Stamps(f, a) + 1
  BY <1>2, StampAdds
<1>5. e \in Seq(Ages) /\ InOrder(e) /\ \A a \in Nat : Stamps(e, a) = Stamps(f, a) + more
  <2>1. CASE e = Evict(w, W) \o << 0 >> /\ more = 1
    <3>1. e = f \o << 0 >>
      BY <2>1 DEF f
    <3> QED BY <3>1, <2>1, <1>4
  <2>2. CASE e = Evict(w, W) \o << >> /\ more = 0
    <3>1. e = f
      BY <2>2, <1>4 DEF f
    <3> QED BY <3>1, <2>2, <1>2, <1>3
  <2> QED BY <2>1, <2>2
<1>6. more \in Nat
  OBVIOUS
<1>7. ASSUME NEW a \in Nat
      PROVE  /\ Stamps(e, a) \in Nat /\ Stamps(w, a) \in Nat
             /\ Stamps(e, a) <= Stamps(w, a) + more
             /\ a <= W => Stamps(e, a) = Stamps(w, a) + more
  <2>1. /\ Stamps(f, a) \in Nat /\ Stamps(w, a) \in Nat
        /\ Stamps(f, a) <= Stamps(w, a) /\ (a <= W => Stamps(f, a) = Stamps(w, a))
        /\ Stamps(e, a) = Stamps(f, a) + more
    BY <1>2, <1>3, <1>5
  <2> QED BY <2>1, <1>6
<1> QED BY <1>5, <1>7 DEF Grown

\* The limiter starts with no stamp and no send.
LEMMA LimiterStarts == LimiterInit => LimiterInv
<1> SUFFICES ASSUME LimiterInit PROVE LimiterInv
  OBVIOUS
<1> DEFINE none == << >>
<1>1. none \in Seq(Ages) /\ InOrder(none) /\ \A a \in Nat : Stamps(none, a) = 0
  <2>1. none \in Seq(Ages) /\ DOMAIN none = {}
    OBVIOUS
  <2> HIDE DEF none
  <2>2. \A a \in Nat : {i \in DOMAIN none : none[i] <= a} = {}
    BY <2>1
  <2> QED BY <2>1, <2>2, FS_EmptySet DEF InOrder, Stamps
<1>2. log = none /\ lim.backstop = none /\ lim.global = none /\ \A r \in Recipients : lim.perSender[r] = none
  BY DEF LimiterInit, NoStamps
<1>3. DOMAIN log = {}
  BY <1>2
<1>4. LimiterType
  <2>1. NoStamps \in Limiter
    BY <1>1 DEF NoStamps, Limiter
  <2>2. reading \in [Callers -> Policies \cup {Malformed}] /\ authored \in Policies
    BY LimiterAssumption DEF LimiterInit
  <2> QED BY <2>1, <2>2 DEF LimiterInit, LimiterType
<1>5. /\ SeatSends = {} /\ GlobalSends = {}
      /\ \A r \in Recipients : SenderSends(r) = {}
  BY <1>3 DEF SeatSends, GlobalSends, SenderSends
<1> HIDE DEF none
<1>6. ASSUME NEW D PROVE Agrees(none, {}, D)
  <2>1. \A a : Within({}, a) = 0
    BY FS_EmptySet DEF Within
  <2>2. \A a \in 0 .. Horizon : Stamps(none, a) = 0
    BY <1>1, HorizonAssumption
  <2> QED BY <2>1, <2>2 DEF Agrees
<1> QED BY <1>1, <1>2, <1>4, <1>5, <1>6 DEF LimiterInv

\* What one check does to the windows and to the three histories.
LEMMA CheckDoes ==
  ASSUME LimiterInv, NEW c \in Callers, NEW r \in Recipients, Check(c, r)
  PROVE  LET p == Resolve(reading[c])
             x == Exempt(r \in Internal, p)
             verdict == Verdict(lim, r, r \in Internal, p)
             ok == verdict = "allowed"
             stamp == IF ok THEN << 0 >> ELSE << >>
             sawGlobal == verdict # "rate_limited_backstop" /\ ~x
             sawSender == sawGlobal /\ verdict # "rate_limited_global"
         IN  /\ p \in Policies /\ x \in BOOLEAN
             /\ lim' = [perSender |-> [s \in Recipients |->
                                         IF s = r /\ sawSender
                                         THEN Evict(lim.perSender[s], p.perSenderWindow) \o stamp
                                         ELSE lim.perSender[s]],
                        global    |-> IF sawGlobal THEN Evict(lim.global, p.globalWindow) \o stamp
                                      ELSE lim.global,
                        backstop  |-> Evict(lim.backstop, p.backstopWindow) \o stamp]
             /\ log' \in Seq(Sends)
             /\ \A a \in Nat, s \in Recipients :
                  /\ Within(SeatSends, a)' = Within(SeatSends, a) + (IF ok THEN 1 ELSE 0)
                  /\ Within(GlobalSends, a)' = Within(GlobalSends, a) + (IF ok /\ ~x THEN 1 ELSE 0)
                  /\ Within(SenderSends(s), a)' =
                        Within(SenderSends(s), a) + (IF ok /\ ~x /\ s = r THEN 1 ELSE 0)
             /\ UNCHANGED << authored, reading >>
<1> DEFINE p == Resolve(reading[c])
           x == Exempt(r \in Internal, p)
           verdict == Verdict(lim, r, r \in Internal, p)
           ok == verdict = "allowed"
           stamp == IF ok THEN << 0 >> ELSE << >>
           sawGlobal == verdict # "rate_limited_backstop" /\ ~x
           sawSender == sawGlobal /\ verdict # "rate_limited_global"
           entry == [to |-> r, exempt |-> x, age |-> 0]
<1>1. LimiterType /\ log \in Seq(Sends)
  BY DEF LimiterInv, LimiterType, Sends
<1>2. p \in Policies /\ x \in BOOLEAN
  BY <1>1, PoliciesAre DEF LimiterType, Exempt
<1>3. lim' = AfterCheck(lim, r, r \in Internal, p)
  BY DEF Check
<1>4. lim' = [perSender |-> IF sawSender
                            THEN [lim.perSender EXCEPT
                                    ![r] = Evict(@, p.perSenderWindow) \o stamp]
                            ELSE lim.perSender,
              global    |-> IF sawGlobal THEN Evict(lim.global, p.globalWindow) \o stamp ELSE lim.global,
              backstop  |-> Evict(lim.backstop, p.backstopWindow) \o stamp]
  BY <1>3, Zenon DEF AfterCheck
<1>5. log' = (IF ok THEN Append(log, entry) ELSE log) /\ UNCHANGED << authored, reading >>
  BY DEF Check
<1>6. entry \in Sends /\ entry.age = 0 /\ entry.exempt = x /\ entry.to = r
  BY <1>2, HorizonAssumption DEF Sends, Ages
<1>7. lim.perSender \in [Recipients -> Seq(Ages)]
  BY <1>1 DEF LimiterType, Limiter
<1> HIDE DEF p, x, verdict, entry
<1>8. ASSUME NEW a \in Nat, NEW s \in Recipients
      PROVE  /\ Within(SeatSends, a)' = Within(SeatSends, a) + (IF ok THEN 1 ELSE 0)
             /\ Within(GlobalSends, a)' = Within(GlobalSends, a) + (IF ok /\ ~x THEN 1 ELSE 0)
             /\ Within(SenderSends(s), a)' =
                   Within(SenderSends(s), a) + (IF ok /\ ~x /\ s = r THEN 1 ELSE 0)
  <2>1. CASE ok
    <3>1. /\ Within(SeatSends, a)' = Within(SeatSends, a) + 1
          /\ Within(GlobalSends, a)' = Within(GlobalSends, a) + (IF entry.exempt THEN 0 ELSE 1)
          /\ Within(SenderSends(s), a)' =
                Within(SenderSends(s), a) + (IF entry.exempt \/ entry.to # s THEN 0 ELSE 1)
      BY <2>1, <1>1, <1>5, <1>6, LogSent
    <3>2. (IF entry.exempt THEN 0 ELSE 1) = (IF ok /\ ~x THEN 1 ELSE 0)
      BY <2>1, <1>2, <1>6
    <3>3. (IF entry.exempt \/ entry.to # s THEN 0 ELSE 1) = (IF ok /\ ~x /\ s = r THEN 1 ELSE 0)
      BY <2>1, <1>2, <1>6
    <3> QED BY <3>1, <3>2, <3>3, <2>1
  <2>2. CASE ~ok
    <3>1. log' = log
      BY <2>2, <1>5
    <3>2. /\ Within(SeatSends, a)' = Within(SeatSends, a)
          /\ Within(GlobalSends, a)' = Within(GlobalSends, a)
          /\ Within(SenderSends(s), a)' = Within(SenderSends(s), a)
      BY <3>1 DEF Within, SeatSends, GlobalSends, SenderSends
    <3>3. /\ Within(SeatSends, a) \in Nat /\ Within(GlobalSends, a) \in Nat
          /\ Within(SenderSends(s), a) \in Nat
      BY <1>1, WithinNat
    <3> QED BY <3>2, <3>3, <2>2
  <2> QED BY <2>1, <2>2
<1>9. log' \in Seq(Sends)
  BY <1>1, <1>5, <1>6
<1>10. lim'.perSender = [s \in Recipients |->
                           IF s = r /\ sawSender
                           THEN Evict(lim.perSender[s], p.perSenderWindow) \o stamp
                           ELSE lim.perSender[s]]
  <2>1. CASE sawSender
    BY <2>1, <1>4, <1>7
  <2>2. CASE ~sawSender
    BY <2>2, <1>4, <1>7
  <2> QED BY <2>1, <2>2
<1> QED BY <1>2, <1>4, <1>5, <1>8, <1>9, <1>10 DEF p, x, verdict

\* A check keeps every window in agreement with the history.
LEMMA CheckKeeps ==
  ASSUME LimiterInv, NEW c \in Callers, NEW r \in Recipients, Check(c, r)
  PROVE  LimiterInv'
<1> DEFINE p == Resolve(reading[c])
           x == Exempt(r \in Internal, p)
           verdict == Verdict(lim, r, r \in Internal, p)
           ok == verdict = "allowed"
           stamp == IF ok THEN << 0 >> ELSE << >>
           sawGlobal == verdict # "rate_limited_backstop" /\ ~x
           sawSender == sawGlobal /\ verdict # "rate_limited_global"
           one == IF ok THEN 1 ELSE 0
           oneGlobal == IF ok /\ ~x THEN 1 ELSE 0
           oneFor(s) == IF ok /\ ~x /\ s = r THEN 1 ELSE 0
<1>1. p \in Policies /\ x \in BOOLEAN
  BY CheckDoes
<1>2. /\ lim'.backstop = Evict(lim.backstop, p.backstopWindow) \o stamp
      /\ lim'.global = IF sawGlobal THEN Evict(lim.global, p.globalWindow) \o stamp ELSE lim.global
      /\ \A s \in Recipients :
            lim'.perSender[s] = IF s = r /\ sawSender
                                THEN Evict(lim.perSender[s], p.perSenderWindow) \o stamp
                                ELSE lim.perSender[s]
  <2>1. lim' = [perSender |-> [s \in Recipients |->
                                 IF s = r /\ sawSender
                                 THEN Evict(lim.perSender[s], p.perSenderWindow) \o stamp
                                 ELSE lim.perSender[s]],
                global    |-> IF sawGlobal THEN Evict(lim.global, p.globalWindow) \o stamp
                              ELSE lim.global,
                backstop  |-> Evict(lim.backstop, p.backstopWindow) \o stamp]
    BY CheckDoes, Zenon
  <2> HIDE DEF p, x, verdict, stamp, sawGlobal, sawSender
  <2> QED BY <2>1
<1>3. ASSUME NEW a \in Nat, NEW s \in Recipients
      PROVE  /\ Within(SeatSends, a)' = Within(SeatSends, a) + one
             /\ Within(GlobalSends, a)' = Within(GlobalSends, a) + oneGlobal
             /\ Within(SenderSends(s), a)' = Within(SenderSends(s), a) + oneFor(s)
             /\ Within(SeatSends, a) \in Nat /\ Within(GlobalSends, a) \in Nat
             /\ Within(SenderSends(s), a) \in Nat
  BY CheckDoes, WithinNat DEF LimiterInv
<1>4. /\ lim.backstop \in Seq(Ages) /\ InOrder(lim.backstop)
      /\ lim.global \in Seq(Ages) /\ InOrder(lim.global)
      /\ \A s \in Recipients : lim.perSender[s] \in Seq(Ages) /\ InOrder(lim.perSender[s])
  BY DEF LimiterInv, LimiterType, Limiter
<1>5. /\ {p.backstopWindow, p.globalWindow, p.perSenderWindow} \subseteq 1 .. Horizon
      /\ SameWindows => /\ p.backstopWindow = Default.backstopWindow
                        /\ p.globalWindow = Default.globalWindow
                        /\ p.perSenderWindow = Default.perSenderWindow
  BY <1>1, PoliciesAre, LimiterAssumption DEF SameWindows
<1>6. UNCHANGED << authored, reading >> /\ log' \in Seq(Sends)
  BY CheckDoes
<1> HIDE DEF p, x, verdict
<1>7. /\ ok => verdict # "rate_limited_backstop" /\ verdict # "rate_limited_global"
      /\ \/ stamp = << 0 >> /\ one = 1
         \/ stamp = << >> /\ one = 0
      /\ sawGlobal => oneGlobal = one
      /\ ~sawGlobal => oneGlobal = 0
      /\ sawSender => oneFor(r) = one
      /\ ~sawSender => oneFor(r) = 0
      /\ \A s \in Recipients : s # r => oneFor(s) = 0
      /\ one \in Nat /\ oneGlobal \in Nat /\ \A s \in Recipients : oneFor(s) \in Nat
  BY <1>1
<1> HIDE DEF stamp, one, oneGlobal, oneFor, sawGlobal, sawSender
<1>8. ASSUME NEW w \in Seq(Ages), NEW W \in 1 .. Horizon, NEW e, NEW more, InOrder(w),
             \/ e = Evict(w, W) \o stamp /\ more = one
             \/ e = w /\ more = 0
      PROVE  Grown(w, e, W, more)
  <2>1. CASE e = Evict(w, W) \o stamp /\ more = one
    <3>1. \/ e = Evict(w, W) \o << 0 >> /\ more = 1
          \/ e = Evict(w, W) \o << >> /\ more = 0
      BY <2>1, <1>7
    <3> QED BY <3>1, <1>8, WindowChecked
  <2>2. CASE e = w /\ more = 0
    <3>1. \A a \in Nat : Stamps(w, a) \in Nat
      BY <1>8, StampsNat
    <3> QED BY <3>1, <2>2, <1>8 DEF Grown
  <2> QED BY <2>1, <2>2, <1>8
<1>9. /\ lim'.backstop \in Seq(Ages) /\ InOrder(lim'.backstop)
      /\ Agrees(lim.backstop, SeatSends, Default.backstopWindow)'
  <2>1. p.backstopWindow \in 1 .. Horizon
    BY <1>5
  <2>2. Grown(lim.backstop, lim'.backstop, p.backstopWindow, one)
    BY <2>1, <1>2, <1>4, <1>8
  <2>3. ASSUME NEW a \in 0 .. Horizon
        PROVE  /\ Stamps(lim'.backstop, a) <= Within(SeatSends, a)'
               /\ SameWindows /\ a <= Default.backstopWindow =>
                     Stamps(lim'.backstop, a) = Within(SeatSends, a)'
    <3>1. a \in Nat
      BY HorizonAssumption
    <3>2. /\ Stamps(lim.backstop, a) <= Within(SeatSends, a)
          /\ SameWindows /\ a <= Default.backstopWindow => Stamps(lim.backstop, a) = Within(SeatSends, a)
      BY DEF LimiterInv, Agrees
    <3>3. /\ Stamps(lim'.backstop, a) \in Nat /\ Stamps(lim.backstop, a) \in Nat
          /\ Stamps(lim'.backstop, a) <= Stamps(lim.backstop, a) + one
          /\ a <= p.backstopWindow => Stamps(lim'.backstop, a) = Stamps(lim.backstop, a) + one
      BY <3>1, <2>2 DEF Grown
    <3>4. Within(SeatSends, a)' = Within(SeatSends, a) + one /\ Within(SeatSends, a) \in Nat
      BY <3>1, <1>3
    <3>5. one \in Nat /\ (SameWindows => p.backstopWindow = Default.backstopWindow)
      BY <1>5, <1>7
    <3> QED BY <3>2, <3>3, <3>4, <3>5
  <2> QED BY <2>2, <2>3 DEF Agrees, Grown
<1>10. /\ lim'.global \in Seq(Ages) /\ InOrder(lim'.global)
       /\ Agrees(lim.global, GlobalSends, Default.globalWindow)'
  <2>1. p.globalWindow \in 1 .. Horizon
    BY <1>5
  <2>2. \/ lim'.global = Evict(lim.global, p.globalWindow) \o stamp /\ oneGlobal = one
        \/ lim'.global = lim.global /\ oneGlobal = 0
    BY <1>2, <1>7
  <2>3. Grown(lim.global, lim'.global, p.globalWindow, oneGlobal)
    BY <2>1, <2>2, <1>4, <1>8
  <2>4. ASSUME NEW a \in 0 .. Horizon
        PROVE  /\ Stamps(lim'.global, a) <= Within(GlobalSends, a)'
               /\ SameWindows /\ a <= Default.globalWindow =>
                     Stamps(lim'.global, a) = Within(GlobalSends, a)'
    <3>1. a \in Nat
      BY HorizonAssumption
    <3>2. /\ Stamps(lim.global, a) <= Within(GlobalSends, a)
          /\ SameWindows /\ a <= Default.globalWindow => Stamps(lim.global, a) = Within(GlobalSends, a)
      BY DEF LimiterInv, Agrees
    <3>3. /\ Stamps(lim'.global, a) \in Nat /\ Stamps(lim.global, a) \in Nat
          /\ Stamps(lim'.global, a) <= Stamps(lim.global, a) + oneGlobal
          /\ a <= p.globalWindow => Stamps(lim'.global, a) = Stamps(lim.global, a) + oneGlobal
      BY <3>1, <2>3 DEF Grown
    <3>4. Within(GlobalSends, a)' = Within(GlobalSends, a) + oneGlobal /\ Within(GlobalSends, a) \in Nat
      BY <3>1, <1>3
    <3>5. oneGlobal \in Nat /\ (SameWindows => p.globalWindow = Default.globalWindow)
      BY <1>5, <1>7
    <3> QED BY <3>2, <3>3, <3>4, <3>5
  <2> QED BY <2>3, <2>4 DEF Agrees, Grown
<1>11. ASSUME NEW s \in Recipients
       PROVE  /\ lim'.perSender[s] \in Seq(Ages) /\ InOrder(lim'.perSender[s])
              /\ Agrees(lim.perSender[s], SenderSends(s), Default.perSenderWindow)'
  <2> DEFINE e == lim'.perSender[s]
             w == lim.perSender[s]
  <2>1. p.perSenderWindow \in 1 .. Horizon
    BY <1>5
  <2>2. \/ e = Evict(w, p.perSenderWindow) \o stamp /\ oneFor(s) = one
        \/ e = w /\ oneFor(s) = 0
    BY <1>2, <1>7
  <2>3. w \in Seq(Ages) /\ InOrder(w)
    BY <1>4
  <2> HIDE DEF e, w
  <2>4. Grown(w, e, p.perSenderWindow, oneFor(s))
    BY <2>1, <2>2, <2>3, <1>8
  <2>5. ASSUME NEW a \in 0 .. Horizon
        PROVE  /\ Stamps(e, a) <= Within(SenderSends(s), a)'
               /\ SameWindows /\ a <= Default.perSenderWindow =>
                     Stamps(e, a) = Within(SenderSends(s), a)'
    <3>1. a \in Nat
      BY HorizonAssumption
    <3>2. /\ Stamps(w, a) <= Within(SenderSends(s), a)
          /\ SameWindows /\ a <= Default.perSenderWindow => Stamps(w, a) = Within(SenderSends(s), a)
      BY DEF LimiterInv, Agrees, w
    <3>3. /\ Stamps(e, a) \in Nat /\ Stamps(w, a) \in Nat
          /\ Stamps(e, a) <= Stamps(w, a) + oneFor(s)
          /\ a <= p.perSenderWindow => Stamps(e, a) = Stamps(w, a) + oneFor(s)
      BY <3>1, <2>4 DEF Grown
    <3>4. Within(SenderSends(s), a)' = Within(SenderSends(s), a) + oneFor(s) /\ Within(SenderSends(s), a) \in Nat
      BY <3>1, <1>3
    <3>5. oneFor(s) \in Nat /\ (SameWindows => p.perSenderWindow = Default.perSenderWindow)
      BY <1>5, <1>7
    <3> QED BY <3>2, <3>3, <3>4, <3>5
  <2> QED BY <2>4, <2>5 DEF Agrees, Grown, e
<1>12. LimiterType'
  <2>1. lim' \in Limiter
    <3>1. lim' = [perSender |-> [s \in Recipients |-> lim'.perSender[s]],
                  global |-> lim'.global, backstop |-> lim'.backstop]
      BY CheckDoes
    <3> QED BY <3>1, <1>9, <1>10, <1>11 DEF Limiter
  <2> QED BY <2>1, <1>6 DEF LimiterInv, LimiterType, Sends
<1> QED BY <1>9, <1>10, <1>11, <1>12 DEF LimiterInv

\* Time passes over the windows as it passes over the history.
LEMMA TickKeeps ==
  ASSUME LimiterInv, Tick
  PROVE  LimiterInv'
<1>1. /\ lim.backstop \in Seq(Ages) /\ InOrder(lim.backstop)
      /\ lim.global \in Seq(Ages) /\ InOrder(lim.global)
      /\ \A r \in Recipients : lim.perSender[r] \in Seq(Ages) /\ InOrder(lim.perSender[r])
  BY DEF LimiterInv, LimiterType, Limiter
<1>2. /\ lim' = [perSender |-> [r \in Recipients |-> AgedWindow(lim.perSender[r])],
                 global    |-> AgedWindow(lim.global),
                 backstop  |-> AgedWindow(lim.backstop)]
      /\ UNCHANGED << authored, reading >>
  BY Zenon DEF Tick, Aged
<1>3. LimiterType'
  <2>1. lim' \in Limiter
    BY <1>1, <1>2, AgedStamps DEF Limiter
  <2>2. 0 \in 0 .. Horizon
    BY HorizonAssumption
  <2>3. log' \in Seq(Sends)
    BY <2>2, LogAged DEF LimiterInv
  <2> QED BY <1>2, <2>1, <2>3 DEF LimiterInv, LimiterType, Sends
<1>4. /\ lim'.backstop = AgedWindow(lim.backstop)
      /\ lim'.global = AgedWindow(lim.global)
      /\ \A r \in Recipients : lim'.perSender[r] = AgedWindow(lim.perSender[r])
  BY <1>2
<1>5. ASSUME NEW w \in Seq(Ages), NEW a \in 0 .. Horizon, InOrder(w)
      PROVE  Stamps(AgedWindow(w), a) = IF a = 0 THEN 0 ELSE Stamps(w, a - 1)
  <2>1. a = 0 \/ a \in 1 .. Horizon
    BY HorizonAssumption
  <2> QED BY <2>1, <1>5, AgedStamps
<1>6. ASSUME NEW a \in 0 .. Horizon, a # 0
      PROVE  a - 1 \in 0 .. Horizon /\ \A W \in Nat : a <= W => a - 1 <= W
  BY <1>6, HorizonAssumption
<1>7. {Default.backstopWindow, Default.globalWindow, Default.perSenderWindow} \subseteq Nat
  BY LimiterAssumption, PoliciesAre, HorizonAssumption
<1>8. Agrees(lim.backstop, SeatSends, Default.backstopWindow)'
  <2> SUFFICES ASSUME NEW a \in 0 .. Horizon
               PROVE  /\ Stamps(lim'.backstop, a) <= Within(SeatSends, a)'
                      /\ SameWindows /\ a <= Default.backstopWindow =>
                            Stamps(lim'.backstop, a) = Within(SeatSends, a)'
    BY DEF Agrees
  <2>1. /\ Stamps(lim'.backstop, a) = IF a = 0 THEN 0 ELSE Stamps(lim.backstop, a - 1)
        /\ Within(SeatSends, a)' = IF a = 0 THEN 0 ELSE Within(SeatSends, a - 1)
    BY <1>1, <1>4, <1>5, LogAged DEF LimiterInv
  <2>2. CASE a = 0
    BY <2>1, <2>2
  <2>3. CASE a # 0
    BY <2>1, <2>3, <1>6, <1>7 DEF LimiterInv, Agrees
  <2> QED BY <2>2, <2>3
<1>9. Agrees(lim.global, GlobalSends, Default.globalWindow)'
  <2> SUFFICES ASSUME NEW a \in 0 .. Horizon
               PROVE  /\ Stamps(lim'.global, a) <= Within(GlobalSends, a)'
                      /\ SameWindows /\ a <= Default.globalWindow =>
                            Stamps(lim'.global, a) = Within(GlobalSends, a)'
    BY DEF Agrees
  <2>1. /\ Stamps(lim'.global, a) = IF a = 0 THEN 0 ELSE Stamps(lim.global, a - 1)
        /\ Within(GlobalSends, a)' = IF a = 0 THEN 0 ELSE Within(GlobalSends, a - 1)
    BY <1>1, <1>4, <1>5, LogAged DEF LimiterInv
  <2>2. CASE a = 0
    BY <2>1, <2>2
  <2>3. CASE a # 0
    BY <2>1, <2>3, <1>6, <1>7 DEF LimiterInv, Agrees
  <2> QED BY <2>2, <2>3
<1>10. ASSUME NEW r \in Recipients
       PROVE  Agrees(lim.perSender[r], SenderSends(r), Default.perSenderWindow)'
  <2> SUFFICES ASSUME NEW a \in 0 .. Horizon
               PROVE  /\ Stamps(lim'.perSender[r], a) <= Within(SenderSends(r), a)'
                      /\ SameWindows /\ a <= Default.perSenderWindow =>
                            Stamps(lim'.perSender[r], a) = Within(SenderSends(r), a)'
    BY DEF Agrees
  <2>1. /\ Stamps(lim'.perSender[r], a) = IF a = 0 THEN 0 ELSE Stamps(lim.perSender[r], a - 1)
        /\ Within(SenderSends(r), a)' = IF a = 0 THEN 0 ELSE Within(SenderSends(r), a - 1)
    BY <1>1, <1>4, <1>5, LogAged DEF LimiterInv
  <2>2. CASE a = 0
    BY <2>1, <2>2
  <2>3. CASE a # 0
    BY <2>1, <2>3, <1>6, <1>7 DEF LimiterInv, Agrees
  <2> QED BY <2>2, <2>3
<1>11. /\ InOrder(lim'.backstop) /\ InOrder(lim'.global)
       /\ \A r \in Recipients : InOrder(lim'.perSender[r])
  BY <1>1, <1>4, AgedStamps
<1> QED BY <1>3, <1>8, <1>9, <1>10, <1>11 DEF LimiterInv

\* The limiter's windows agree with the sends, whatever the callers do.
THEOREM LimiterInvariant == LimiterSpec => []LimiterInv
<1>1. LimiterInv /\ [LimiterNext]_limiterVars => LimiterInv'
  <2> SUFFICES ASSUME LimiterInv, [LimiterNext]_limiterVars PROVE LimiterInv'
    OBVIOUS
  <2>1. ASSUME lim' = lim, log' = log,
               authored' \in Policies \cup {Malformed},
               reading' \in [Callers -> Policies \cup {Malformed}]
        PROVE  LimiterInv'
    <3>1. LimiterType'
      BY <2>1 DEF LimiterInv, LimiterType
    <3>2. ASSUME NEW D
          PROVE  /\ Agrees(lim.backstop, SeatSends, D)' = Agrees(lim.backstop, SeatSends, D)
                 /\ Agrees(lim.global, GlobalSends, D)' = Agrees(lim.global, GlobalSends, D)
                 /\ \A r \in Recipients : Agrees(lim.perSender[r], SenderSends(r), D)' =
                                           Agrees(lim.perSender[r], SenderSends(r), D)
      BY <2>1 DEF Agrees, Within, SeatSends, GlobalSends, SenderSends
    <3> QED BY <3>1, <3>2, <2>1 DEF LimiterInv
  <2>2. ASSUME NEW block \in Policies \cup {Malformed}, Author(block) PROVE LimiterInv'
    BY <2>2, <2>1 DEF Author, LimiterInv, LimiterType
  <2>3. ASSUME NEW c \in Callers, Read(c) PROVE LimiterInv'
    BY <2>3, <2>1 DEF Read, LimiterInv, LimiterType
  <2>4. ASSUME NEW c \in Callers, NEW r \in Recipients, Check(c, r) PROVE LimiterInv'
    BY <2>4, CheckKeeps
  <2>5. CASE Tick
    BY <2>5, TickKeeps
  <2>6. CASE UNCHANGED limiterVars
    BY <2>6, <2>1 DEF limiterVars, LimiterInv, LimiterType
  <2> QED BY <2>2, <2>3, <2>4, <2>5, <2>6 DEF LimiterNext
<1> QED BY <1>1, LimiterStarts, PTL DEF LimiterSpec

\* What a decision says, of the policy it was made under, in terms of the state
\* it leaves.
LEMMA Decides ==
  ASSUME LimiterInv, NEW c \in Callers, NEW r \in Recipients, Check(c, r)
  PROVE  LET p == Resolve(reading[c])
             x == Exempt(r \in Internal, p)
         IN  /\ last'.verdict = Verdict(lim, r, r \in Internal, p)
             /\ last'.policy = p /\ last'.exempt = x
             /\ Within(SeatSends, last.policy.backstopWindow)' =
                   Within(SeatSends, p.backstopWindow) + (IF last'.verdict = "allowed" THEN 1 ELSE 0)
             /\ Within(GlobalSends, last.policy.globalWindow)' =
                   Within(GlobalSends, p.globalWindow)
                   + (IF last'.verdict = "allowed" /\ ~x THEN 1 ELSE 0)
             /\ Within(SenderSends(last.to), last.policy.perSenderWindow)' =
                   Within(SenderSends(r), p.perSenderWindow)
                   + (IF last'.verdict = "allowed" /\ ~x THEN 1 ELSE 0)
<1> DEFINE p == Resolve(reading[c])
           x == Exempt(r \in Internal, p)
           verdict == Verdict(lim, r, r \in Internal, p)
<1>1. last'.verdict = verdict /\ last'.to = r /\ last'.policy = p /\ last'.exempt = x
  BY DEF Check
<1>2. /\ p.backstopWindow \in Nat /\ p.globalWindow \in Nat /\ p.perSenderWindow \in Nat
  <2>1. p \in Policies
    BY CheckDoes
  <2> QED BY <2>1, PoliciesAre, HorizonAssumption
<1>3. ASSUME NEW a \in Nat
      PROVE  /\ Count(log', SeatSends', a) =
                   Within(SeatSends, a) + (IF verdict = "allowed" THEN 1 ELSE 0)
             /\ Count(log', GlobalSends', a) =
                   Within(GlobalSends, a) + (IF verdict = "allowed" /\ ~x THEN 1 ELSE 0)
             /\ Count(log', SenderSends(r)', a) =
                   Within(SenderSends(r), a) + (IF verdict = "allowed" /\ ~x THEN 1 ELSE 0)
  <2>1. /\ Within(SeatSends, a)' = Count(log', SeatSends', a)
        /\ Within(GlobalSends, a)' = Count(log', GlobalSends', a)
        /\ Within(SenderSends(r), a)' = Count(log', SenderSends(r)', a)
    BY DEF Within, Count, Young
  <2>2. /\ Within(SeatSends, a)' = Within(SeatSends, a) + (IF verdict = "allowed" THEN 1 ELSE 0)
        /\ Within(GlobalSends, a)' =
              Within(GlobalSends, a) + (IF verdict = "allowed" /\ ~x THEN 1 ELSE 0)
        /\ Within(SenderSends(r), a)' =
              Within(SenderSends(r), a) + (IF verdict = "allowed" /\ ~x THEN 1 ELSE 0)
    BY CheckDoes
  <2> QED BY <2>1, <2>2
<1> HIDE DEF p, x, verdict
<1>4. /\ Within(SeatSends, last.policy.backstopWindow)' = Count(log', SeatSends', p.backstopWindow)
      /\ Within(GlobalSends, last.policy.globalWindow)' = Count(log', GlobalSends', p.globalWindow)
      /\ Within(SenderSends(last.to), last.policy.perSenderWindow)' =
            Count(log', SenderSends(r)', p.perSenderWindow)
  BY <1>1 DEF Within, Count, Young, SenderSends
<1> QED BY <1>1, <1>2, <1>3, <1>4 DEF p, x, verdict

\* Before a check, each window of the policy it uses holds no more than was sent
\* inside it; and all of it, while the policies have the same windows.
LEMMA WindowsCount ==
  ASSUME LimiterInv, NEW p \in Policies, NEW r \in Recipients
  PROVE  /\ Len(Evict(lim.backstop, p.backstopWindow)) \in Nat
         /\ Len(Evict(lim.global, p.globalWindow)) \in Nat
         /\ Len(Evict(lim.perSender[r], p.perSenderWindow)) \in Nat
         /\ Len(Evict(lim.backstop, p.backstopWindow)) <= Within(SeatSends, p.backstopWindow)
         /\ Len(Evict(lim.global, p.globalWindow)) <= Within(GlobalSends, p.globalWindow)
         /\ Len(Evict(lim.perSender[r], p.perSenderWindow)) <= Within(SenderSends(r), p.perSenderWindow)
         /\ SameWindows =>
              /\ Len(Evict(lim.backstop, p.backstopWindow)) = Within(SeatSends, p.backstopWindow)
              /\ Len(Evict(lim.global, p.globalWindow)) = Within(GlobalSends, p.globalWindow)
              /\ Len(Evict(lim.perSender[r], p.perSenderWindow)) =
                    Within(SenderSends(r), p.perSenderWindow)
<1>1. /\ lim.backstop \in Seq(Ages) /\ lim.global \in Seq(Ages) /\ lim.perSender[r] \in Seq(Ages)
  BY DEF LimiterInv, LimiterType, Limiter
<1>2. /\ p.backstopWindow \in 1 .. Horizon /\ p.globalWindow \in 1 .. Horizon
      /\ p.perSenderWindow \in 1 .. Horizon
  BY PoliciesAre
<1>3. SameWindows => /\ p.backstopWindow = Default.backstopWindow
                     /\ p.globalWindow = Default.globalWindow
                     /\ p.perSenderWindow = Default.perSenderWindow
  BY LimiterAssumption DEF SameWindows
<1>4. /\ InOrder(lim.backstop) /\ Agrees(lim.backstop, SeatSends, Default.backstopWindow)
      /\ InOrder(lim.global) /\ Agrees(lim.global, GlobalSends, Default.globalWindow)
      /\ InOrder(lim.perSender[r])
      /\ Agrees(lim.perSender[r], SenderSends(r), Default.perSenderWindow)
  BY DEF LimiterInv
<1>5. /\ Len(Evict(lim.backstop, p.backstopWindow)) \in Nat
      /\ Len(Evict(lim.backstop, p.backstopWindow)) <= Within(SeatSends, p.backstopWindow)
      /\ SameWindows =>
            Len(Evict(lim.backstop, p.backstopWindow)) = Within(SeatSends, p.backstopWindow)
  BY <1>1, <1>2, <1>3, <1>4, FullWindow
<1>6. /\ Len(Evict(lim.global, p.globalWindow)) \in Nat
      /\ Len(Evict(lim.global, p.globalWindow)) <= Within(GlobalSends, p.globalWindow)
      /\ SameWindows => Len(Evict(lim.global, p.globalWindow)) = Within(GlobalSends, p.globalWindow)
  BY <1>1, <1>2, <1>3, <1>4, FullWindow
<1>7. /\ Len(Evict(lim.perSender[r], p.perSenderWindow)) \in Nat
      /\ Len(Evict(lim.perSender[r], p.perSenderWindow)) <= Within(SenderSends(r), p.perSenderWindow)
      /\ SameWindows => Len(Evict(lim.perSender[r], p.perSenderWindow)) =
                           Within(SenderSends(r), p.perSenderWindow)
  BY <1>1, <1>2, <1>3, <1>4, FullWindow
<1> QED BY <1>5, <1>6, <1>7

\* RateLimiter.check: a send allowed under a policy leaves none of that policy's
\* windows over its cap, whatever policies admitted the sends before it, provided
\* the policies differ in caps and exemptions and not in their windows.
THEOREM CapsAreHeld ==
  ASSUME SameWindows
  PROVE  LimiterSpec => []CapsHold
<1>1. LimiterInit => CapsHold
  BY DEF LimiterInit, CapsHold, NoDecision
<1>2. LimiterInv /\ CapsHold /\ [LimiterNext]_limiterVars => CapsHold'
  <2> SUFFICES ASSUME LimiterInv, CapsHold, [LimiterNext]_limiterVars PROVE CapsHold'
    OBVIOUS
  <2>1. ASSUME NEW c \in Callers, NEW r \in Recipients, Check(c, r) PROVE CapsHold'
    <3> DEFINE p == Resolve(reading[c])
               x == Exempt(r \in Internal, p)
    <3>1. SUFFICES ASSUME last'.verdict = "allowed"
                   PROVE  /\ p.backstopMax > 0 =>
                               Within(SeatSends, last.policy.backstopWindow)' <= p.backstopMax
                          /\ ~x => /\ Within(GlobalSends, last.policy.globalWindow)' <= p.globalMax
                                   /\ Within(SenderSends(last.to), last.policy.perSenderWindow)'
                                         <= p.perSenderMax
      BY <2>1, Decides DEF CapsHold
    <3>2. p \in Policies /\ x \in BOOLEAN
      BY <2>1, CheckDoes
    <3>3. {p.backstopMax, p.globalMax, p.perSenderMax} \subseteq Nat
      BY <3>2, PoliciesAre
    <3>4. Verdict(lim, r, r \in Internal, p) = "allowed"
      BY <2>1, <3>1, Decides
    <3>5. /\ p.backstopMax > 0 => ~(Len(Evict(lim.backstop, p.backstopWindow)) >= p.backstopMax)
          /\ ~x => /\ ~(Len(Evict(lim.global, p.globalWindow)) >= p.globalMax)
                   /\ ~(Len(Evict(lim.perSender[r], p.perSenderWindow)) >= p.perSenderMax)
      BY <3>4 DEF Verdict
    <3>6. /\ Within(SeatSends, last.policy.backstopWindow)' = Within(SeatSends, p.backstopWindow) + 1
          /\ ~x => /\ Within(GlobalSends, last.policy.globalWindow)' =
                         Within(GlobalSends, p.globalWindow) + 1
                   /\ Within(SenderSends(last.to), last.policy.perSenderWindow)' =
                         Within(SenderSends(r), p.perSenderWindow) + 1
      BY <2>1, <3>1, Decides
    <3> HIDE DEF p, x
    <3> QED BY <3>2, <3>3, <3>5, <3>6, WindowsCount
  <2>2. CASE last' = NoDecision
    BY <2>2 DEF CapsHold, NoDecision
  <2>3. CASE UNCHANGED limiterVars
    BY <2>3 DEF limiterVars, CapsHold, Within, SeatSends, GlobalSends, SenderSends
  <2> QED BY <2>1, <2>2, <2>3 DEF LimiterNext, Author, Read, Tick
<1> QED BY <1>1, <1>2, LimiterInvariant, PTL DEF LimiterSpec

\* RateLimiter.check refuses only what would go over: the window a refusal names
\* is full, under the policy of that check, of sends that were really allowed,
\* whatever the policies' windows are.
THEOREM RefusalIsJustified == LimiterSpec => []RefusalJustified
<1>1. LimiterInit => RefusalJustified
  BY DEF LimiterInit, RefusalJustified, NoDecision
<1>2. LimiterInv /\ RefusalJustified /\ [LimiterNext]_limiterVars => RefusalJustified'
  <2> SUFFICES ASSUME LimiterInv, RefusalJustified, [LimiterNext]_limiterVars
               PROVE  RefusalJustified'
    OBVIOUS
  <2>1. ASSUME NEW c \in Callers, NEW r \in Recipients, Check(c, r) PROVE RefusalJustified'
    <3> DEFINE p == Resolve(reading[c])
               x == Exempt(r \in Internal, p)
               verdict == Verdict(lim, r, r \in Internal, p)
    <3>1. p \in Policies /\ {p.backstopMax, p.globalMax, p.perSenderMax} \subseteq Nat
      BY <2>1, CheckDoes, PoliciesAre
    <3>2. last'.verdict = verdict /\ last'.policy = p
      BY <2>1, Decides
    <3>3. /\ verdict = "rate_limited_backstop" =>
               /\ p.backstopMax > 0
               /\ Len(Evict(lim.backstop, p.backstopWindow)) >= p.backstopMax
          /\ verdict = "rate_limited_global" =>
               Len(Evict(lim.global, p.globalWindow)) >= p.globalMax
          /\ verdict = "rate_limited_per_sender" =>
               Len(Evict(lim.perSender[r], p.perSenderWindow)) >= p.perSenderMax
      BY DEF Verdict
    <3>4. ASSUME verdict # "allowed"
          PROVE  /\ Within(SeatSends, last.policy.backstopWindow)' =
                       Within(SeatSends, p.backstopWindow) + 0
                 /\ Within(GlobalSends, last.policy.globalWindow)' =
                       Within(GlobalSends, p.globalWindow) + 0
                 /\ Within(SenderSends(last.to), last.policy.perSenderWindow)' =
                       Within(SenderSends(r), p.perSenderWindow) + 0
      BY <2>1, <3>2, <3>4, Decides
    <3>5. /\ Within(SeatSends, p.backstopWindow) \in Nat /\ Within(GlobalSends, p.globalWindow) \in Nat
          /\ Within(SenderSends(r), p.perSenderWindow) \in Nat
      BY <3>1, PoliciesAre, HorizonAssumption, WithinNat DEF LimiterInv
    <3> HIDE DEF p, x, verdict
    <3>6. verdict = "rate_limited_backstop" =>
            p.backstopMax > 0 /\ Within(SeatSends, last.policy.backstopWindow)' >= p.backstopMax
      BY <3>1, <3>3, <3>4, <3>5, WindowsCount
    <3>7. verdict = "rate_limited_global" =>
            Within(GlobalSends, last.policy.globalWindow)' >= p.globalMax
      BY <3>1, <3>3, <3>4, <3>5, WindowsCount
    <3>8. verdict = "rate_limited_per_sender" =>
            Within(SenderSends(last.to), last.policy.perSenderWindow)' >= p.perSenderMax
      BY <3>1, <3>3, <3>4, <3>5, WindowsCount
    <3> QED BY <3>2, <3>6, <3>7, <3>8 DEF RefusalJustified
  <2>2. CASE last' = NoDecision
    BY <2>2 DEF RefusalJustified, NoDecision
  <2>3. CASE UNCHANGED limiterVars
    BY <2>3 DEF limiterVars, RefusalJustified, Within, SeatSends, GlobalSends, SenderSends
  <2> QED BY <2>1, <2>2, <2>3 DEF LimiterNext, Author, Read, Tick
<1> QED BY <1>1, <1>2, LimiterInvariant, PTL DEF LimiterSpec

===============================================================================
