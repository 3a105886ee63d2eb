----------------------------- MODULE ReplyChannel -----------------------------
(***************************************************************************)
(* The reply channel (plugins/hermes-smd-reply): the relay that answers a  *)
(* rostered inbound email with the draft the agent made, the durable queue *)
(* of rate-held replies, and the sweeper thread that releases them.        *)
(*                                                                         *)
(* Every inbound email has one turn and a turn makes its draft calls one   *)
(* after the other, but the turns of different emails run on their own     *)
(* threads, beside the sweeper.  The relay's steps between two reads of    *)
(* shared state (the queue, the limiter, the register of answered emails)  *)
(* or across the broker call are separate actions.                         *)
(***************************************************************************)
EXTENDS SendLimits, FiniteSets

CONSTANTS Messages,    \* inbound emails
          To,          \* the person each email's reply is delivered to
          Internal,    \* the recipients the roster classes INTERNAL
          SendPolicy,  \* the authored send policy
          HeldTTL,     \* clock steps after which a held reply expires
          SweepLimit,  \* rows one sweeper pass reads
          StoreFaults, \* whether a call on the held store may raise
          MaxCalls,    \* bound: draft calls of one turn
          MaxBoots     \* bound: process restarts

ASSUME ChannelAssumption ==
    /\ To \in [Messages -> Recipients]
    /\ Internal \subseteq Recipients
    /\ SendPolicy \in Policy
    /\ HeldTTL \in Nat \ {0}
    /\ SweepLimit \in Nat \ {0}
    /\ StoreFaults \in BOOLEAN
    /\ MaxCalls \in Nat
    /\ MaxBoots \in Nat

VARIABLES
    \* the agent process, lost when it dies
    pc,         \* where each email's turn is
    calls,      \* draft calls each turn has made
    saw,        \* whether held release was on when the call read its policy
    outcome,    \* what the broker answered, or will answer, the call
    committed,  \* _REPLIED: emails that have their one reply
    lim,        \* _LIMITER: the rate windows
    store,      \* _HELD_STORE: whether this boot opened the held store
    sw,         \* where the sweeper thread is
    row,        \* the row it has in hand, 0 when none
    batch,      \* the rows of this pass it has not looked at
    due,        \* the rows of this pass that were past their TTL
    blocked,    \* recipients this pass found at their per-sender cap
    releasing,  \* held release as this pass read it
    released,   \* what the broker answered the sweeper
    \* durable
    rows,       \* the held_replies table, in id order
    \* the world
    releaseOn,  \* the authored held_release.enabled
    opened,     \* emails that have opened their turn
    boots,      \* restarts so far
    \* history
    copies      \* copies of each reply the transport carried

relayVars  == << pc, calls, saw, outcome >>
sweepVars  == << sw, row, batch, due, blocked, releasing, released >>
worldVars  == << store, releaseOn, boots >>
vars == << relayVars, committed, lim, sweepVars, rows, worldVars, opened,
           copies >>

-------------------------------------------------------------------------------
Pending   == {"held", "sending"}
Terminal  == {"sent", "expired", "failed_interrupted", "failed_send"}
RowStatus == Pending \cup Terminal

\* What the transport can do with a reply, and what its caller is told: it is
\* carried and acknowledged, carried but the answer is lost, lost before it was
\* carried (the caller cannot tell these two apart), or refused.
Outcomes == {"acked", "carried_unknown", "lost_unknown", "refused"}
Carried(o) == o \in {"acked", "carried_unknown"}
Unknown(o) == o \in {"carried_unknown", "lost_unknown"}

HeldRow(m) == [msg |-> m, status |-> "held", age |-> 0]

RowIds == DOMAIN rows
RowsOf(m) == {i \in RowIds : rows[i].msg = m}
HeldIds == {i \in RowIds : rows[i].status = "held"}

\* has_pending: keyed on who the reply is delivered to.
HasPending(r) == \E i \in RowIds : /\ To[rows[i].msg] = r
                                   /\ rows[i].status \in Pending

Oldest(S) == CHOOSE i \in S : \A j \in S : i <= j

SetStatus(i, s) == rows' = [rows EXCEPT ![i].status = s]

\* Opening the store may fail, for the whole life of the process.
StoreOpens == IF StoreFaults THEN BOOLEAN ELSE {TRUE}

Init ==
    /\ pc        = [m \in Messages |-> "away"]
    /\ calls     = [m \in Messages |-> 0]
    /\ saw       = [m \in Messages |-> FALSE]
    /\ outcome   = [m \in Messages |-> "none"]
    /\ committed = {}
    /\ lim       = NoStamps
    /\ store \in StoreOpens
    /\ sw = "idle" /\ row = 0 /\ batch = {} /\ due = {} /\ blocked = {}
    /\ releasing = FALSE /\ released = "none"
    /\ rows = << >>
    /\ releaseOn \in BOOLEAN
    /\ opened = {}
    /\ boots = 0
    /\ copies = [m \in Messages |-> 0]

-------------------------------------------------------------------------------
(***************************************************************************)
(* The relay, _relay_draft: one decision per draft call.                   *)
(***************************************************************************)
At(m, from) == pc[m] = from
GoTo(m, to) == pc' = [pc EXCEPT ![m] = to]

\* An email from the inbound router opens its turn.
OpenTurn(m) ==
    /\ m \notin opened
    /\ opened' = opened \cup {m}
    /\ GoTo(m, "turn")
    /\ UNCHANGED << calls, saw, outcome, committed, lim, sweepVars, rows,
                    worldVars, copies >>

\* A draft call of an email that already has its reply: held as a duplicate.
DraftDuplicate(m) ==
    /\ At(m, "turn") /\ calls[m] < MaxCalls
    /\ m \in committed
    /\ calls' = [calls EXCEPT ![m] = @ + 1]
    /\ UNCHANGED << pc, saw, outcome, committed, lim, sweepVars, rows,
                    worldVars, opened, copies >>

\* The draft failed in the tool, or a roster, recipient, content, checklist or
\* matter gate refuses it: dropped, and the agent may draft again.
DraftRefused(m) ==
    /\ At(m, "turn") /\ calls[m] < MaxCalls
    /\ m \notin committed
    /\ calls' = [calls EXCEPT ![m] = @ + 1]
    /\ UNCHANGED << pc, saw, outcome, committed, lim, sweepVars, rows,
                    worldVars, opened, copies >>

\* The draft passes every gate, and the policy is read.
DraftPasses(m) ==
    /\ At(m, "turn") /\ calls[m] < MaxCalls
    /\ m \notin committed
    /\ calls' = [calls EXCEPT ![m] = @ + 1]
    /\ saw' = [saw EXCEPT ![m] = releaseOn]
    /\ GoTo(m, "order")
    /\ UNCHANGED << outcome, committed, lim, sweepVars, rows, worldVars, opened,
                    copies >>

\* The ordering guard, _held_pending_for.  A store that raises never blocks a
\* send.
OrderingGuard(m) ==
    /\ At(m, "order")
    /\ \/ GoTo(m, IF saw[m] /\ store /\ HasPending(To[m]) THEN "enqueue" ELSE "limit")
       \/ StoreFaults /\ GoTo(m, "limit")
    /\ UNCHANGED << calls, saw, outcome, committed, lim, sweepVars, rows,
                    worldVars, opened, copies >>

\* The limiter decides, under its own lock.
RateCheck(m) ==
    /\ At(m, "limit")
    /\ LET r == To[m] IN
       /\ lim' = AfterCheck(lim, r, r \in Internal, SendPolicy)
       /\ GoTo(m, IF Verdict(lim, r, r \in Internal, SendPolicy) = "allowed"
                  THEN "transmit" ELSE "enqueue")
    /\ UNCHANGED << calls, saw, outcome, committed, sweepVars, rows, worldVars,
                    opened, copies >>

\* A mechanical hold is stored for release.
Enqueue(m) ==
    /\ At(m, "enqueue") /\ saw[m] /\ store
    /\ rows' = Append(rows, HeldRow(m))
    /\ GoTo(m, "queued")
    /\ UNCHANGED << calls, saw, outcome, committed, lim, sweepVars, worldVars,
                    opened, copies >>

\* Release is not authored, or the store is not open or raised: the hold drops
\* the reply and the agent is told.
EnqueueDrops(m) ==
    /\ At(m, "enqueue") /\ (~saw[m] \/ ~store \/ StoreFaults)
    /\ GoTo(m, "turn")
    /\ UNCHANGED << calls, saw, outcome, committed, lim, sweepVars, rows,
                    worldVars, opened, copies >>

\* A durably queued reply counts as the email's reply.
CommitQueued(m) ==
    /\ At(m, "queued")
    /\ committed' = committed \cup {m}
    /\ GoTo(m, "turn")
    /\ UNCHANGED << calls, saw, outcome, lim, sweepVars, rows, worldVars, opened,
                    copies >>

\* The bytes are handed to the broker.
Transmit(m) ==
    /\ At(m, "transmit")
    /\ \E o \in Outcomes :
         /\ outcome' = [outcome EXCEPT ![m] = o]
         /\ copies' = [copies EXCEPT ![m] = @ + (IF Carried(o) THEN 1 ELSE 0)]
    /\ GoTo(m, "answer")
    /\ UNCHANGED << calls, saw, committed, lim, sweepVars, rows, worldVars,
                    opened >>

\* Mutant of TransmitAnswered: a lost answer is a failure like any other.
TransmitAnsweredLostIsFailed(m) ==
    /\ At(m, "answer")
    /\ committed' = IF outcome[m] = "acked" THEN committed \cup {m} ELSE committed
    /\ outcome' = [outcome EXCEPT ![m] = "none"]
    /\ GoTo(m, "turn")
    /\ UNCHANGED << calls, saw, lim, sweepVars, rows, worldVars, opened, copies >>

\* The broker's answer: a reply that went out, or may have, is committed; one
\* that certainly did not leaves the email free for a redraft.
TransmitAnswered(m) ==
    /\ At(m, "answer")
    /\ committed' = IF outcome[m] = "refused" THEN committed ELSE committed \cup {m}
    /\ outcome' = [outcome EXCEPT ![m] = "none"]
    /\ GoTo(m, "turn")
    /\ UNCHANGED << calls, saw, lim, sweepVars, rows, worldVars, opened, copies >>

EndTurn(m) ==
    /\ At(m, "turn")
    /\ GoTo(m, "away")
    /\ UNCHANGED << calls, saw, outcome, committed, lim, sweepVars, rows,
                    worldVars, opened, copies >>

-------------------------------------------------------------------------------
(***************************************************************************)
(* The sweeper thread, run_sweep_once: one pass over the held rows, oldest *)
(* first, against the clock, the policy and the rows it read at its start. *)
(***************************************************************************)
\* Mutant of PassStarts: while release is off nothing expires.
PassStartsOffNeverExpires ==
    /\ sw = "idle" /\ store
    /\ batch' = {i \in HeldIds : Cardinality({j \in HeldIds : j < i}) < SweepLimit}
    /\ due' = {i \in HeldIds : releaseOn /\ rows[i].age >= HeldTTL}
    /\ releasing' = releaseOn
    /\ sw' = "scan"
    /\ UNCHANGED << relayVars, committed, lim, row, blocked, released, rows,
                    worldVars, opened, copies >>

PassStarts ==
    /\ sw = "idle" /\ store
    /\ batch' = {i \in HeldIds : Cardinality({j \in HeldIds : j < i}) < SweepLimit}
    /\ due' = {i \in HeldIds : rows[i].age >= HeldTTL}
    /\ releasing' = releaseOn
    /\ sw' = "scan"
    /\ UNCHANGED << relayVars, committed, lim, row, blocked, released, rows,
                    worldVars, opened, copies >>

PassEnds ==
    /\ sw = "scan" /\ batch = {}
    /\ sw' = "idle" /\ due' = {} /\ blocked' = {} /\ releasing' = FALSE
    /\ UNCHANGED << relayVars, committed, lim, row, batch, released, rows,
                    worldVars, opened, copies >>

Take(to) == /\ row' = Oldest(batch)
            /\ batch' = batch \ {Oldest(batch)}
            /\ sw' = to

\* TTL first: an expired reply is claimed and never sent.
ScanExpired ==
    /\ sw = "scan" /\ batch # {}
    /\ Oldest(batch) \in due
    /\ IF rows[Oldest(batch)].status = "held"
       THEN SetStatus(Oldest(batch), "sending") /\ Take("expire")
       ELSE UNCHANGED << sw, row, rows >> /\ batch' = batch \ {Oldest(batch)}
    /\ UNCHANGED << relayVars, committed, lim, due, blocked, releasing, released,
                    worldVars, opened, copies >>

Expire ==
    /\ sw = "expire"
    /\ SetStatus(row, "expired")
    /\ sw' = "scan" /\ row' = 0
    /\ UNCHANGED << relayVars, committed, lim, batch, due, blocked, releasing,
                    released, worldVars, opened, copies >>

\* Release is off, or the recipient is at its cap in this pass: the row waits.
ScanSkipped ==
    /\ sw = "scan" /\ batch # {}
    /\ Oldest(batch) \notin due
    /\ ~releasing \/ To[rows[Oldest(batch)].msg] \in blocked
    /\ batch' = batch \ {Oldest(batch)}
    /\ UNCHANGED << relayVars, committed, lim, sw, row, due, blocked, releasing,
                    released, rows, worldVars, opened, copies >>

\* Mutant of ScanChecked: a capped recipient is not remembered for the pass.
ScanCheckedForgetsBlocked ==
    /\ sw = "scan" /\ batch # {}
    /\ Oldest(batch) \notin due
    /\ releasing
    /\ LET r       == To[rows[Oldest(batch)].msg]
           verdict == Verdict(lim, r, r \in Internal, SendPolicy)
       IN  /\ lim' = AfterCheck(lim, r, r \in Internal, SendPolicy)
           /\ IF verdict = "allowed"
              THEN Take("claim")
              ELSE batch' = batch \ {Oldest(batch)} /\ UNCHANGED << sw, row >>
    /\ UNCHANGED << relayVars, committed, due, blocked, releasing, released,
                    rows, worldVars, opened, copies >>

\* A fresh rate decision: a refusal that bounds everyone ends the pass, one of
\* this recipient keeps the recipient's later rows behind this one.
ScanChecked ==
    /\ sw = "scan" /\ batch # {}
    /\ Oldest(batch) \notin due
    /\ releasing
    /\ LET r       == To[rows[Oldest(batch)].msg]
           verdict == Verdict(lim, r, r \in Internal, SendPolicy)
       IN  /\ r \notin blocked
           /\ lim' = AfterCheck(lim, r, r \in Internal, SendPolicy)
           /\ \/ /\ verdict = "allowed"
                 /\ Take("claim")
                 /\ UNCHANGED blocked
              \/ /\ verdict = "rate_limited_per_sender"
                 /\ blocked' = blocked \cup {r}
                 /\ batch' = batch \ {Oldest(batch)}
                 /\ UNCHANGED << sw, row >>
              \/ /\ verdict \in {"rate_limited_global", "rate_limited_backstop"}
                 /\ batch' = {}
                 /\ UNCHANGED << sw, row, blocked >>
    /\ UNCHANGED << relayVars, committed, due, releasing, released, rows,
                    worldVars, opened, copies >>

\* claim: the conditional UPDATE, held -> sending.
Claim ==
    /\ sw = "claim"
    /\ IF rows[row].status = "held"
       THEN SetStatus(row, "sending") /\ sw' = "transmit" /\ UNCHANGED row
       ELSE sw' = "scan" /\ row' = 0 /\ UNCHANGED rows
    /\ UNCHANGED << relayVars, committed, lim, batch, due, blocked, releasing,
                    released, worldVars, opened, copies >>

Release ==
    /\ sw = "transmit"
    /\ \E o \in Outcomes :
         /\ released' = o
         /\ copies' = [copies EXCEPT ![rows[row].msg] =
                                       @ + (IF Carried(o) THEN 1 ELSE 0)]
    /\ sw' = "answer"
    /\ UNCHANGED << relayVars, committed, lim, row, batch, due, blocked,
                    releasing, rows, worldVars, opened >>

\* Any exception, a lost answer included, is FAILED_SEND.
ReleaseAnswered ==
    /\ sw = "answer"
    /\ SetStatus(row, IF released = "acked" THEN "sent" ELSE "failed_send")
    /\ sw' = "scan" /\ row' = 0 /\ released' = "none"
    /\ UNCHANGED << relayVars, committed, lim, batch, due, blocked, releasing,
                    worldVars, opened, copies >>

\* The store raises under the pass: the loop logs it and waits for its next
\* interval, and the row in hand keeps the status it has.
PassFaults ==
    /\ StoreFaults
    /\ sw \in {"scan", "claim", "expire", "answer"}
    /\ sw' = "idle" /\ row' = 0 /\ batch' = {} /\ due' = {} /\ blocked' = {}
    /\ releasing' = FALSE /\ released' = "none"
    /\ UNCHANGED << relayVars, committed, lim, rows, worldVars, opened, copies >>

-------------------------------------------------------------------------------
(***************************************************************************)
(* The process dies and boots: what it kept in memory is gone, and a row   *)
(* it left mid-send is resolved by fail_interrupted_on_boot before the     *)
(* sweeper starts.  A boot that cannot open the store runs without one.    *)
(***************************************************************************)
\* Mutant of Interrupted: the rows found mid-send are queued again.
InterruptedRequeued == [i \in RowIds |->
                          IF rows[i].status = "sending"
                          THEN [rows[i] EXCEPT !.status = "held"]
                          ELSE rows[i]]

Interrupted == [i \in RowIds |->
                  IF rows[i].status = "sending"
                  THEN [rows[i] EXCEPT !.status = "failed_interrupted"]
                  ELSE rows[i]]

Reboot ==
    /\ boots < MaxBoots
    /\ boots' = boots + 1
    /\ pc' = [m \in Messages |-> "away"]
    /\ saw' = [m \in Messages |-> FALSE]
    /\ outcome' = [m \in Messages |-> "none"]
    /\ committed' = {}
    /\ lim' = NoStamps
    /\ sw' = "idle" /\ row' = 0 /\ batch' = {} /\ due' = {} /\ blocked' = {}
    /\ releasing' = FALSE /\ released' = "none"
    /\ store' \in StoreOpens
    /\ rows' = IF store' THEN Interrupted ELSE rows
    /\ UNCHANGED << calls, releaseOn, opened, copies >>

\* The firm authors held_release on or off; every later read sees it.
Author ==
    /\ releaseOn' = ~releaseOn
    /\ UNCHANGED << relayVars, committed, lim, sweepVars, rows, store, boots,
                    opened, copies >>

\* One clock step.
Tick ==
    /\ lim' = Aged(lim)
    /\ rows' = [i \in RowIds |->
                  IF rows[i].status = "held" /\ rows[i].age < HeldTTL
                  THEN [rows[i] EXCEPT !.age = @ + 1]
                  ELSE rows[i]]
    /\ UNCHANGED << relayVars, committed, sweepVars, worldVars, opened, copies >>

-------------------------------------------------------------------------------
Relay(m) ==
    \/ OpenTurn(m) \/ DraftDuplicate(m) \/ DraftRefused(m) \/ DraftPasses(m)
    \/ OrderingGuard(m) \/ RateCheck(m) \/ Enqueue(m) \/ EnqueueDrops(m)
    \/ CommitQueued(m) \/ Transmit(m) \/ TransmitAnswered(m) \/ EndTurn(m)

Sweep ==
    \/ PassStarts \/ PassEnds \/ ScanExpired \/ Expire \/ ScanSkipped
    \/ ScanChecked \/ Claim \/ Release \/ ReleaseAnswered \/ PassFaults

Next == (\E m \in Messages : Relay(m)) \/ Sweep \/ Reboot \/ Author \/ Tick

Spec == Init /\ [][Next]_vars

\* The sweeper thread loops for ever and the clock does not stop.
FairSpec == Spec /\ WF_vars(Sweep) /\ WF_vars(Tick)

-------------------------------------------------------------------------------
(***************************************************************************)
(* Properties.                                                             *)
(***************************************************************************)
PcValues == {"away", "turn", "order", "limit", "enqueue", "queued", "transmit",
             "answer"}
SweepPcs == {"idle", "scan", "expire", "claim", "transmit", "answer"}
Row == [msg : Messages, status : RowStatus, age : 0 .. HeldTTL]

\* Every variable has its type, and a thread that names a row names a row of
\* the table (pc, saw, outcome, sw, row, batch, due, blocked, rows).
TypeOK ==
    /\ pc \in [Messages -> PcValues]
    /\ calls \in [Messages -> 0 .. MaxCalls]
    /\ saw \in [Messages -> BOOLEAN]
    /\ outcome \in [Messages -> Outcomes \cup {"none"}]
    /\ committed \subseteq Messages
    /\ store \in BOOLEAN
    /\ sw \in SweepPcs
    /\ rows \in Seq(Row)
    /\ row \in RowIds \cup {0}
    /\ sw \in {"expire", "claim", "transmit", "answer"} => row \in RowIds
    /\ batch \subseteq RowIds
    /\ due \subseteq RowIds
    /\ blocked \subseteq Recipients
    /\ releasing \in BOOLEAN
    /\ released \in Outcomes \cup {"none"}
    /\ releaseOn \in BOOLEAN
    /\ opened \subseteq Messages
    /\ boots \in 0 .. MaxBoots
    /\ copies \in [Messages -> Nat]

\* "One message in, at most one reply out" (relay.RepliedOnce): whatever the
\* live path, the queue, a lost answer, a redraft, a store fault and a restart
\* do, the transport carries at most one copy of the reply to an email.
AnsweredAtMostOnce == \A m \in Messages : copies[m] <= 1

\* Why: a reply that could still be sent has not been sent, by either path.
\* The two paths share nothing but the register (_REPLIED) and the row.
NotYetCarried(m) == copies[m] = 0 /\ RowsOf(m) = {}
UnansweredFree(m) ==
    /\ m \notin opened => NotYetCarried(m) /\ pc[m] = "away"
    /\ pc[m] = "turn" /\ m \notin committed => NotYetCarried(m)
    /\ pc[m] \in {"order", "limit", "enqueue", "transmit"} => NotYetCarried(m)
    /\ pc[m] = "answer" => /\ RowsOf(m) = {}
                           /\ outcome[m] \in Outcomes
                           /\ ~Carried(outcome[m]) => copies[m] = 0
OneRow == \A i, j \in RowIds : rows[i].msg = rows[j].msg => i = j
HeldUncarried ==
    /\ \A i \in RowIds : rows[i].status \in {"held", "expired"} => copies[rows[i].msg] = 0
    /\ sw \in {"expire", "transmit"} => /\ rows[row].status = "sending"
                                       /\ copies[rows[row].msg] = 0
    /\ sw = "answer" => rows[row].status = "sending"

\* The inductive invariant of the channel: the register, the turns and the rows
\* agree about which replies may still go out.
ChannelInv == /\ TypeOK
              /\ \A m \in Messages : UnansweredFree(m)
              /\ OneRow
              /\ HeldUncarried
              /\ AnsweredAtMostOnce

\* What the queue promises, per email (ReplyPromise): the fate this state gives
\* each reply.
Fate == [m \in Messages |->
           IF copies[m] > 0 THEN "answered"
           ELSE IF RowsOf(m) = {} THEN "unanswered"
           ELSE IF \E i \in RowsOf(m) : rows[i].status \in Pending THEN "queued"
           ELSE "closed"]
Promise == INSTANCE ReplyPromise WITH fate <- Fate

\* The channel keeps its promise: an email is answered once, live or out of the
\* queue, and a reply the queue gave up (expired, failed, interrupted by a
\* process death) is never sent afterwards (held_store.claim,
\* fail_interrupted_on_boot).
KeepsPromise == Promise!Spec

\* Release is first in, first out per recipient (sweeper.run_sweep_once,
\* held_store.iter_held): when a row is handed to the transport no older row to
\* the same person is still held, though the pass works from a snapshot, skips
\* rows and asks the limiter for each.
ReleasedInOrder ==
    [][sw = "transmit" /\ sw' = "answer" =>
         \A j \in RowIds : /\ j < row
                            /\ To[rows[j].msg] = To[rows[row].msg]
                            => rows[j].status # "held"]_vars

\* Why: a row of the pass has every older row to its person before it in the
\* pass, or in hand, unless the person is at the cap; and the row the limiter
\* has let through has none.
WaitsBefore(j, i) == /\ j < i /\ To[rows[j].msg] = To[rows[i].msg]
                     /\ rows[j].status = "held"
PassInOrder ==
    sw # "idle" /\ releasing =>
        \A i \in batch : \A j \in RowIds : WaitsBefore(j, i) =>
            j \in batch \/ To[rows[j].msg] \in blocked \/ (sw = "claim" /\ j = row)
NextInLine == sw \in {"claim", "transmit"} => \A j \in RowIds : ~WaitsBefore(j, row)
OrderInv == PassInOrder /\ NextInLine

\* Every held reply is settled (run_sweep_once): released, failed, or expired at
\* its TTL even while release is off or the windows stay full.
HeldSettles ==
    \A i \in 1 .. Cardinality(Messages) :
        (i \in RowIds /\ rows[i].status \in Pending)
            ~> (i \in RowIds /\ rows[i].status \in Terminal)
===============================================================================
