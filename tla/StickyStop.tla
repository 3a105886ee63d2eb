------------------------------ MODULE StickyStop ------------------------------
(***************************************************************************)
(* The sticky stop (shared/sticky_stop.py, shared/cost_breaker.py): one    *)
(* row of a SQLite file that says whether the Machine may act.  Two        *)
(* breakers meter into it from threads of the gateway, an interactive turn *)
(* (plugins/hermes-smd-audit) and the job worker (shared/job_segment.py);  *)
(* the webhook gate, another process, pins it and clears it.  A meter and  *)
(* a clear read the row and later write all of it; nothing holds it in     *)
(* between.                                                                *)
(*                                                                         *)
(* Counters stop at their limits, past which they tell nothing apart; a    *)
(* window or a day is over at any moment.  The cents are those of today: a *)
(* total dated another day counts for nothing.                             *)
(***************************************************************************)
EXTENDS Naturals

CONSTANTS MaxFailures, \* tool_failure_hard_stop
          MaxRefusals, \* refusal_hard_stop
          Cap,         \* the cents at which each breaker stops, from the config it was built with
          MaxCents,    \* bound: cents beyond this are not told apart
          MaxFaults    \* bound: reads and writes of the file that fail

Handles == {"gateway", "worker"}

ASSUME StickyStopAssumption == /\ {MaxFailures, MaxRefusals} \subseteq Nat \ {0}
                               /\ MaxCents \in Nat
                               /\ Cap \in [Handles -> 1..MaxCents]
                               /\ MaxFaults \in Nat

VARIABLES
    row,     \* the row of sticky_stop_state
    call,    \* the meter call in progress on each breaker, under its lock
    captain, \* the clear in progress
    cache,   \* the trust plugin's _pause_cache
    turn,    \* the interactive turn: "none", "awake", "tool" while a tool runs
    segment, \* a job segment runs
    faults   \* history: faults so far

vars == << row, call, captain, cache, turn, segment, faults >>

Meters == {"failures", "refusals", "cost"}
Rows == [level     : {"OK", "HARD_STOP"},
         reason    : Meters \cup {"pause", "none"},
         condition : Meters \cup {"none"},
         failures  : 0..MaxFailures,
         refusals  : 0..MaxRefusals,
         cents     : 0..MaxCents]
Fresh == [level |-> "OK", reason |-> "none", condition |-> "none",
          failures |-> 0, refusals |-> 0, cents |-> 0]

\* A call has decided what it will write; saw is the level it read (history).
Idle == [busy |-> FALSE]
Pending(next, saw) == [busy |-> TRUE, next |-> next, saw |-> saw]

NoAnswer == [fresh |-> FALSE, hard |-> FALSE]

Hard == row.level = "HARD_STOP"

AtMost(bound, n) == IF n > bound THEN bound ELSE n

Init == /\ row = Fresh
        /\ call = [h \in Handles |-> Idle]
        /\ captain = Idle
        /\ cache = NoAnswer
        /\ turn = "none"
        /\ segment = FALSE
        /\ faults = 0

Fault == faults < MaxFaults /\ faults' = faults + 1

------------------------------------------------------------------------------
(***************************************************************************)
(* What a meter makes of the row it read.                                  *)
(***************************************************************************)
\* _tick_window: a count goes on, or starts over when its window is over.
Ticked(count, limit) == {1, AtMost(limit, count + 1)}

\* Mutant of Stopped: the level is recomputed from this meter alone.
StoppedRecomputed(r, meter, over) ==
    IF over THEN [r EXCEPT !.level = "HARD_STOP", !.reason = meter, !.condition = meter]
            ELSE [r EXCEPT !.level = "OK", !.reason = "none", !.condition = "none"]

\* _forward_only: a stop is taken once, with its cause, and never given back.
Stopped(r, meter, over) ==
    IF over /\ r.level = "OK"
    THEN [r EXCEPT !.level = "HARD_STOP", !.reason = meter, !.condition = meter]
    ELSE r

AfterFailure(r) == {Stopped([r EXCEPT !.failures = n], "failures", n >= MaxFailures) :
                        n \in Ticked(r.failures, MaxFailures)}

AfterRefusal(r) == {Stopped([r EXCEPT !.refusals = n], "refusals", n >= MaxRefusals) :
                        n \in Ticked(r.refusals, MaxRefusals)}

AfterSuccess(r) == {[r EXCEPT !.failures = 0]}

AfterCost(r, h) == {Stopped([r EXCEPT !.cents = c], "cost", c >= Cap[h]) :
                        c \in {AtMost(MaxCents, r.cents + charge) : charge \in 1..MaxCents}}

------------------------------------------------------------------------------
(***************************************************************************)
(* The breakers.                                                           *)
(***************************************************************************)
\* CostBreaker._run: the call holds the breaker's own lock, reads the row and
\* decides; one whose read fails is logged, and nothing is metered.
Meter(h, decisions) ==
    /\ ~call[h].busy
    /\ \/ /\ \E next \in decisions : call' = [call EXCEPT ![h] = Pending(next, row.level)]
          /\ UNCHANGED faults
       \/ Fault /\ UNCHANGED call

\* put: the whole row is replaced, or the write fails and the caller logs it.
Put(h) ==
    /\ call[h].busy
    /\ \/ row' = call[h].next /\ UNCHANGED faults
       \/ Fault /\ UNCHANGED row
    /\ call' = [call EXCEPT ![h] = Idle]
    /\ UNCHANGED << captain, cache, turn, segment >>

------------------------------------------------------------------------------
(***************************************************************************)
(* The operator and the Captain, through the gate.                         *)
(***************************************************************************)
\* Mutant of Pin: the cause of an earlier stop stays beside the pause.
PinKeepsCondition ==
    /\ row' = [row EXCEPT !.level = "HARD_STOP", !.reason = "pause"]
    /\ UNCHANGED << call, captain, cache, turn, segment, faults >>

\* pin_hard_stops: one UPDATE of the level and its cause.
Pin ==
    /\ row' = [row EXCEPT !.level = "HARD_STOP", !.reason = "pause", !.condition = "none"]
    /\ UNCHANGED << call, captain, cache, turn, segment, faults >>

\* clear_hard_stops: a row that is not OK is read, and written back as OK with
\* the day's spend.
ClearRead ==
    /\ Hard /\ ~captain.busy
    /\ captain' = Pending([Fresh EXCEPT !.cents = row.cents], row.level)
    /\ UNCHANGED << row, call, cache, turn, segment, faults >>

ClearPut ==
    /\ captain.busy
    /\ row' = captain.next
    /\ captain' = Idle
    /\ UNCHANGED << call, cache, turn, segment, faults >>

\* Midnight, UTC: cost_date of the row, read or written, is of another day.
NewDay ==
    LET Dated(c) == IF c.busy THEN [c EXCEPT !.next.cents = 0] ELSE c
    IN  /\ row' = [row EXCEPT !.cents = 0]
        /\ call' = [h \in Handles |-> Dated(call[h])]
        /\ captain' = Dated(captain)
        /\ UNCHANGED << cache, turn, segment, faults >>

------------------------------------------------------------------------------
(***************************************************************************)
(* The interactive turn.  The gateway breaker's lock makes a second one    *)
(* wait, and a segment's own tools pass the same wall and the same meter.  *)
(***************************************************************************)
\* The gate wakes nobody while the row is stopped, but a routine's own wake does
\* not pass the gate.
Wake ==
    /\ turn = "none"
    /\ turn' = "awake"
    /\ UNCHANGED << row, call, captain, cache, segment, faults >>

\* Mutant of Wall: the cached answer is renewed without reading the row.
WallStuck(hard) ==
    \/ cache.fresh /\ hard = cache.hard /\ UNCHANGED << cache, faults >>
    \/ /\ ~cache.fresh /\ hard = cache.hard
       /\ cache' = [fresh |-> TRUE, hard |-> hard]
       /\ UNCHANGED faults

\* _paused_hard: the level, cached for two seconds; a read that fails is "no".
Wall(hard) ==
    \/ cache.fresh /\ hard = cache.hard /\ UNCHANGED << cache, faults >>
    \/ /\ ~cache.fresh
       /\ cache' = [fresh |-> TRUE, hard |-> hard]
       /\ \/ hard = Hard /\ UNCHANGED faults
          \/ hard = FALSE /\ Fault

CacheExpires ==
    /\ cache.fresh
    /\ cache' = NoAnswer
    /\ UNCHANGED << row, call, captain, turn, segment, faults >>

\* on_pre_tool_call: a tool passes the wall and runs.
ToolStarts ==
    /\ turn = "awake" /\ ~call["gateway"].busy
    /\ Wall(FALSE)
    /\ turn' = "tool"
    /\ UNCHANGED << row, call, captain, segment >>

\* The wall refuses it, and post_tool_call counts that as a refusal.
ToolRefused ==
    /\ turn = "awake" /\ ~call["gateway"].busy
    /\ \E next \in AfterRefusal(row) :
          call' = [call EXCEPT !["gateway"] = Pending(next, row.level)]
    /\ Wall(TRUE)
    /\ UNCHANGED << row, captain, turn, segment >>

\* _meter_loop_arms: success ends a streak, which is written when there is one;
\* an error and a gate that never answered go on with it; another gate's
\* refusal counts as one; an outcome it does not know records nothing.
ToolEnds ==
    /\ turn = "tool"
    /\ turn' = "awake"
    /\ \/ UNCHANGED << call, faults >>
       \/ row.failures > 0 /\ Meter("gateway", AfterSuccess(row))
       \/ Meter("gateway", AfterFailure(row))
       \/ Meter("gateway", AfterRefusal(row))
    /\ UNCHANGED << row, captain, cache, segment >>

\* on_post_llm_call: the turn's estimated cents, when there are any.
TurnEnds ==
    /\ turn = "awake" /\ ~call["gateway"].busy
    /\ turn' = "none"
    /\ \/ UNCHANGED << call, faults >>
       \/ Meter("gateway", AfterCost(row, "gateway"))
    /\ UNCHANGED << row, captain, cache, segment >>

------------------------------------------------------------------------------
(***************************************************************************)
(* The job worker.                                                         *)
(***************************************************************************)
\* Mutant of SegmentStarts: the worker does not ask.
SegmentStartsUnasked ==
    /\ ~segment /\ ~call["worker"].busy
    /\ segment' = TRUE
    /\ UNCHANGED << row, call, captain, cache, turn, faults >>

\* run_segment: assert_allowed; while the row stops it the job is parked, and
\* a check that cannot be made lets it run.
SegmentStarts ==
    /\ ~segment /\ ~call["worker"].busy
    /\ \/ ~Hard /\ UNCHANGED faults
       \/ Hard /\ Fault
    /\ segment' = TRUE
    /\ UNCHANGED << row, call, captain, cache, turn >>

\* It ends, with its exact cents, or without when it raised or cost nothing.
SegmentEnds ==
    /\ segment
    /\ segment' = FALSE
    /\ \/ UNCHANGED << call, faults >>
       \/ Meter("worker", AfterCost(row, "worker"))
    /\ UNCHANGED << row, captain, cache, turn >>

------------------------------------------------------------------------------
Next == \/ \E h \in Handles : Put(h)
        \/ Pin \/ ClearRead \/ ClearPut \/ NewDay
        \/ Wake \/ CacheExpires \/ ToolStarts \/ ToolRefused \/ ToolEnds \/ TurnEnds
        \/ SegmentStarts \/ SegmentEnds

Spec == Init /\ [][Next]_vars

\* A tool and a segment end, a call of a breaker is answered or raises, and the
\* two seconds of the cache pass.
FairSpec == /\ Spec
            /\ WF_vars(ToolEnds) /\ WF_vars(SegmentEnds) /\ WF_vars(CacheExpires)
            /\ \A h \in Handles : WF_vars(Put(h))

------------------------------------------------------------------------------
(***************************************************************************)
(* Properties.                                                             *)
(***************************************************************************)
Calls(Row) == {Idle} \cup [busy : {TRUE}, next : Row, saw : {"OK", "HARD_STOP"}]

\* Every variable holds a value of its kind.
TypeOK == /\ row \in Rows
          /\ call \in [Handles -> Calls(Rows)]
          /\ captain \in Calls(Rows)
          /\ cache \in [fresh : BOOLEAN, hard : BOOLEAN]
          /\ turn \in {"none", "awake", "tool"}
          /\ segment \in BOOLEAN
          /\ faults \in 0..MaxFaults

\* A stop has a cause and no level but a stop has one, and the condition names
\* the meter that stopped it, none for an operator's pause: whatever writes
\* overtake each other, a page never names a meter that had nothing to do with
\* the stop (pin_hard_stops, read_stop_state).
CauseMatchesLevel ==
    /\ Hard <=> row.reason # "none"
    /\ row.condition = (IF row.reason = "pause" THEN "none" ELSE row.reason)

\* A streak or a cascade at its limit is a stop, also after a stale write: the
\* counters and the level they caused are always written together, and a clear
\* takes both back (_level_for_tool_failures, _level_for_refusals, clear).
OverLimitStops ==
    row.failures = MaxFailures \/ row.refusals = MaxRefusals => Hard

\* Besides a clear, only a write that was decided before the stop takes it back:
\* a meter that reads a stopped row leaves it stopped (_forward_only).
OnlyStaleLowers ==
    [][Hard /\ row'.level = "OK" =>
          \/ captain.busy /\ ~captain'.busy
          \/ \E h \in Handles : call[h].busy /\ ~call'[h].busy /\ call[h].saw = "OK"]_vars

\* A stop that stays halts the Machine: the wall's cached answer runs out, the
\* segment that runs is the last, and in the end nothing runs.
StopHalts == <>[]Hard => <>[](turn # "tool" /\ ~segment)

===============================================================================
