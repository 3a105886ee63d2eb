------------------------------ MODULE DeltaPoller ------------------------------
(***************************************************************************)
(* The mailbox poller (shared/msgraph_poller.py) and the replay of its     *)
(* dead letters (shared/msgraph_replay.py).  A thread lists the inbox from *)
(* a cursor, forwards every new mail to the webhook adapter, and writes    *)
(* cursor, ledger, failure counts and watermark to one file.               *)
(*                                                                         *)
(* Mail is numbered in the order in which the inbox shows it, and Received *)
(* is its receivedDateTime, in no order the code relies on but one: a      *)
(* watermark skips what is older.  The mail service and the adapter, with  *)
(* its idempotency cache, are outside this repository.                     *)
(***************************************************************************)
EXTENDS Naturals, Sequences

CONSTANTS N,         \* mails that will arrive
          Received,  \* when each was received
          Own,       \* mails the seat sent itself
          Bad,       \* mails the adapter rejects for what they are
          MaxPoison, \* _MAX_POISON_FAILURES
          MaxSeen,   \* _MAX_SEEN_IDS
          MaxResets, \* bound: cursors the mail service expires
          MaxFaults  \* bound: crashes, lost answers and failed reads and writes, together

Mails == 1..N

ASSUME PollerAssumption == /\ N \in Nat
                           /\ Received \in [Mails -> Nat \ {0}]
                           /\ Own \subseteq Mails
                           /\ Bad \subseteq Mails
                           /\ {MaxPoison, MaxSeen} \subseteq Nat \ {0}
                           /\ {MaxResets, MaxFaults} \subseteq Nat

VARIABLES
    arrived, \* mails the inbox shows
    resets,  \* cursors expired so far
    up,      \* the adapter takes mail
    cache,   \* ids in the adapter's idempotency cache
    state,   \* DeltaState
    disk,    \* the state file, or NoFile
    files,   \* the dead-letter directory
    pc,      \* where the poller is
    cycle,   \* the locals of poll_once
    faults,  \* history: faults so far
    turns,   \* history: turns the adapter started, per mail
    waived,  \* history: mails a baseline announced it will not forward
    old,     \* history: those found in the inbox, nothing done for them yet
    evicted  \* history: mails the ledger forgot

worldVars == << arrived, resets, up >>
historyVars == << faults, turns, waived, old, evicted >>
vars == << worldVars, cache, state, disk, files, pc, cycle, historyVars >>

\* A cursor answers with the mails after at; one that is not ok answers with
\* all of them: none is stored, the service expired it (410), or its chain was
\* begun under another $select.
NoLink == [at |-> 0, ok |-> FALSE]
Relist == ~state.link.ok

Empty == [link |-> NoLink, seen |-> << >>, failing |-> {},
          poison |-> [m \in Mails |-> 0], watermark |-> 0]
NoFile == [missing |-> TRUE]
NoCycle == [batch |-> {}, failed |-> {}, held |-> FALSE, to |-> 0, relist |-> FALSE,
            forwarded |-> FALSE, newest |-> 0, mail |-> 0, taken |-> FALSE]

Seen(s) == {s.seen[i] : i \in DOMAIN s.seen}
Larger(a, b) == IF a >= b THEN a ELSE b

\* mark_seen: append, and forget the oldest past the bound.
Forgotten(s, m) == IF m \in Seen(s) \/ Len(s.seen) < MaxSeen THEN {} ELSE {Head(s.seen)}
MarkSeen(s, m) == IF m \in Seen(s) THEN s
                  ELSE [s EXCEPT !.seen = Append(IF Len(@) < MaxSeen THEN @ ELSE Tail(@), m)]

ClearFailure(s, m) == [s EXCEPT !.failing = @ \ {m}, !.poison[m] = 0]

Fault == faults < MaxFaults /\ faults' = faults + 1

\* persist: an atomic replacement of the file; a failure to write is logged.
Persist(new) == \/ disk' = new /\ UNCHANGED faults
                \/ disk' = disk /\ Fault

Init == /\ arrived \in 0..N
        /\ resets = 0 /\ up = TRUE /\ cache = {}
        /\ state = Empty /\ disk = NoFile /\ files = {}
        /\ pc = "off" /\ cycle = NoCycle
        /\ faults = 0
        /\ turns = [m \in Mails |-> 0]
        /\ waived = {} /\ old = {} /\ evicted = {}

------------------------------------------------------------------------------
(***************************************************************************)
(* The world: mail, the mail service, the adapter.                         *)
(***************************************************************************)
Arrive == /\ arrived < N
          /\ arrived' = arrived + 1
          /\ UNCHANGED << resets, up, cache, state, disk, files, pc, cycle, historyVars >>

\* The service expires the cursor, or an upgrade changes the $select.
Expire == /\ resets < MaxResets
          /\ resets' = resets + 1
          /\ state' = [state EXCEPT !.link.ok = FALSE]
          /\ disk' = IF disk = NoFile THEN disk ELSE [disk EXCEPT !.link.ok = FALSE]
          /\ UNCHANGED << arrived, up, cache, files, pc, cycle, historyVars >>

Outage == /\ up' = ~up
          /\ UNCHANGED << arrived, resets, cache, state, disk, files, pc, cycle, historyVars >>

\* The cache's hour is over, or the gateway restarted.
CacheExpires == /\ cache # {}
                /\ cache' = {}
                /\ UNCHANGED << worldVars, state, disk, files, pc, cycle, historyVars >>

\* The adapter is given a mail it takes: a turn, or "duplicate".
Take(m) == /\ cache' = cache \cup {m}
           /\ turns' = IF m \in cache THEN turns ELSE [turns EXCEPT ![m] = @ + 1]

------------------------------------------------------------------------------
(***************************************************************************)
(* The poller's thread.                                                    *)
(***************************************************************************)
\* _baseline: what the watermark of this moment can be.  Mail of the second of
\* the load is not older than it; the clock does not go back.
Older(t) == {m \in Mails : Received[m] < t}
Newest == {t \in {1} \cup {Received[m] : m \in 1..arrived} :
              \A m \in 1..arrived : Received[m] <= t}
Now == {now \in Newest \cup {t + 1 : t \in Newest} : waived \subseteq Older(now)}

\* Mutant of Baseline: the poller starts from an empty state.
BaselineIsEmpty(found) ==
    \E now \in Now :
        /\ state' = Empty
        /\ waived' = waived \cup Older(now)
        /\ old' = old \cup {m \in Older(now) \cap found : turns[m] = 0 /\ m \notin files}

Baseline(found) ==
    \E now \in Now :
        /\ state' = [Empty EXCEPT !.watermark = now]
        /\ waived' = waived \cup Older(now)
        /\ old' = old \cup {m \in Older(now) \cap found : turns[m] = 0 /\ m \notin files}

\* _ready, DeltaState: a file that is missing or corrupt starts the poller from
\* NOW, and so does one that cannot be read; that one may be read another time.
Start ==
    /\ pc = "off"
    /\ pc' = "idle"
    /\ \/ disk # NoFile /\ state' = disk /\ UNCHANGED << disk, waived, old, faults >>
       \/ disk = NoFile /\ Baseline(1..arrived) /\ UNCHANGED << disk, faults >>
       \/ disk # NoFile /\ Fault /\ Baseline(1..arrived) /\ disk' = NoFile
       \/ disk # NoFile /\ Fault /\ Baseline({}) /\ UNCHANGED disk
    /\ UNCHANGED << worldVars, cache, files, cycle, turns, evicted >>

\* poll_delta; a poll that fails leaves all as it is.
Poll ==
    /\ pc = "idle"
    /\ pc' = "items"
    /\ cycle' = [NoCycle EXCEPT !.batch = IF Relist THEN 1..arrived
                                          ELSE (state.link.at + 1)..arrived,
                                !.to = arrived, !.relist = Relist]
    /\ UNCHANGED << worldVars, cache, state, disk, files, historyVars >>

Without(m) == [cycle EXCEPT !.batch = @ \ {m}]

\* Mutant of Skipped: mail that is held is skipped like any other.
SkippedThoughHeld(m) == /\ cycle.relist
                        /\ m \notin Seen(state)
                        /\ Received[m] < state.watermark

\* _watermark_skip: on a listing from scratch, what is older than the watermark
\* and is not failing is marked seen and skipped.
Skipped(m) == /\ cycle.relist
              /\ m \notin Seen(state) /\ m \notin state.failing
              /\ Received[m] < state.watermark

SkipOld(m) ==
    /\ Skipped(m)
    /\ state' = MarkSeen(state, m)
    /\ evicted' = evicted \cup Forgotten(state, m)
    /\ cycle' = Without(m)
    /\ UNCHANGED << worldVars, cache, disk, files, pc, faults, turns, waived, old >>

\* _handle_message: mail the ledger knows is not forwarded again.
Known(m) ==
    /\ m \in Seen(state)
    /\ cycle' = Without(m)
    /\ UNCHANGED << worldVars, cache, state, disk, files, pc, historyVars >>

\* _handle_message: the seat's own mail.
Echo(m) ==
    /\ ~Skipped(m) /\ m \notin Seen(state) /\ m \in Own
    /\ state' = MarkSeen(state, m)
    /\ evicted' = evicted \cup Forgotten(state, m)
    /\ cycle' = [Without(m) EXCEPT !.newest = Larger(@, Received[m])]
    /\ UNCHANGED << worldVars, cache, disk, files, pc, faults, turns, waived, old >>

\* _forward: the adapter takes the mail or does not, and an answer may be lost.
\* A mail the adapter rejects for what it is fails while others pass.
Forward(m) ==
    /\ ~Skipped(m) /\ m \notin Seen(state) /\ m \notin Own
    /\ \/ /\ up /\ m \notin Bad
          /\ Take(m)
          /\ \/ cycle' = [Without(m) EXCEPT !.mail = m, !.taken = TRUE] /\ UNCHANGED faults
             \/ cycle' = [Without(m) EXCEPT !.mail = m] /\ Fault
       \/ /\ cycle' = [Without(m) EXCEPT !.mail = m]
          /\ IF up /\ m \notin Bad THEN Fault ELSE UNCHANGED faults
          /\ UNCHANGED << cache, turns >>
    /\ pc' = "answer"
    /\ UNCHANGED << worldVars, state, disk, files, waived, old, evicted >>

\* Mutant of Accepted: the cursor alone says what was forwarded.
AcceptedNotSeen ==
    /\ pc = "answer" /\ cycle.taken
    /\ state' = ClearFailure(state, cycle.mail)
    /\ Persist(state')
    /\ cycle' = [cycle EXCEPT !.forwarded = TRUE, !.mail = 0, !.taken = FALSE,
                              !.newest = Larger(@, Received[cycle.mail])]
    /\ pc' = "items"
    /\ UNCHANGED << worldVars, cache, files, turns, waived, old, evicted >>

\* Accepted: seen, and the file is written at once.
Accepted ==
    /\ pc = "answer" /\ cycle.taken
    /\ state' = ClearFailure(MarkSeen(state, cycle.mail), cycle.mail)
    /\ evicted' = evicted \cup Forgotten(state, cycle.mail)
    /\ Persist(state')
    /\ cycle' = [cycle EXCEPT !.forwarded = TRUE, !.mail = 0, !.taken = FALSE,
                              !.newest = Larger(@, Received[cycle.mail])]
    /\ pc' = "items"
    /\ UNCHANGED << worldVars, cache, files, turns, waived, old >>

\* Mutant of Failed: a mail that failed is taken for handled.
FailedIsHandled ==
    /\ pc = "answer" /\ ~cycle.taken
    /\ cycle' = [cycle EXCEPT !.mail = 0]
    /\ pc' = "items"
    /\ UNCHANGED << worldVars, cache, state, disk, files, historyVars >>

\* Mutant of Failed: a mail that failed ends the cycle, its cursor unmoved.
FailedEndsCycle ==
    /\ pc = "answer" /\ ~cycle.taken
    /\ cycle' = NoCycle
    /\ pc' = "idle"
    /\ UNCHANGED << worldVars, cache, state, disk, files, historyVars >>

Failed ==
    /\ pc = "answer" /\ ~cycle.taken
    /\ cycle' = [cycle EXCEPT !.failed = @ \cup {cycle.mail}, !.mail = 0]
    /\ pc' = "items"
    /\ UNCHANGED << worldVars, cache, state, disk, files, historyVars >>

\* The accounting after the loop: a failure counts against the mail itself only
\* in a cycle that forwarded another, and at the bound its payload is kept and
\* the mail is seen.  A dead letter that cannot be written leaves it held.
Hold(m) ==
    LET counted == [state EXCEPT !.failing = @ \cup {m},
                                 !.poison[m] = IF cycle.forwarded THEN @ + 1 ELSE @]
        letter  == cycle.forwarded /\ counted.poison[m] >= MaxPoison
    IN  \/ /\ letter
           /\ files' = files \cup {m}
           /\ state' = ClearFailure(MarkSeen(counted, m), m)
           /\ evicted' = evicted \cup Forgotten(counted, m)
           /\ cycle' = [cycle EXCEPT !.failed = @ \ {m}]
           /\ UNCHANGED faults
        \/ /\ IF letter THEN Fault ELSE UNCHANGED faults
           /\ state' = counted
           /\ cycle' = [cycle EXCEPT !.failed = @ \ {m}, !.held = TRUE]
           /\ UNCHANGED << files, evicted >>

Account(m) ==
    /\ pc = "items" /\ cycle.batch = {}
    /\ m \in cycle.failed
    /\ Hold(m)
    /\ UNCHANGED << worldVars, cache, disk, pc, turns, waived, old >>

Done == pc = "items" /\ cycle.batch = {} /\ cycle.failed = {}

\* Something is held: the ledger is written and the cursor stays.
FinishHeld ==
    /\ Done /\ cycle.held
    /\ Persist(state)
    /\ pc' = "idle" /\ cycle' = NoCycle
    /\ UNCHANGED << worldVars, cache, state, files, turns, waived, old, evicted >>

\* A clean cycle: no failures are left, the watermark and the cursor move.
FinishClean ==
    /\ Done /\ ~cycle.held
    /\ state' = [state EXCEPT !.failing = {}, !.poison = [m \in Mails |-> 0],
                              !.watermark = Larger(@, cycle.newest),
                              !.link = [at |-> cycle.to, ok |-> TRUE]]
    /\ Persist(state')
    /\ pc' = "idle" /\ cycle' = NoCycle
    /\ UNCHANGED << worldVars, cache, files, turns, waived, old, evicted >>

\* The process dies.
Crash ==
    /\ pc # "off"
    /\ Fault
    /\ pc' = "off" /\ state' = Empty /\ cycle' = NoCycle
    /\ UNCHANGED << worldVars, cache, disk, files, turns, waived, old, evicted >>

------------------------------------------------------------------------------
\* The operator replays a dead letter: a turn renames the file, "duplicate" and
\* a failure leave it, and so do a lost answer and a rename that fails.
Replay(m) ==
    /\ m \in files
    /\ up /\ m \notin cache
    /\ Take(m)
    /\ \/ files' = files \ {m} /\ UNCHANGED faults
       \/ Fault /\ UNCHANGED files
    /\ UNCHANGED << worldVars, state, disk, pc, cycle, waived, old, evicted >>

Item == /\ pc = "items"
        /\ \E m \in cycle.batch : SkipOld(m) \/ Known(m) \/ Echo(m) \/ Forward(m)

Poller == \/ Start \/ Poll \/ Item \/ Accepted \/ Failed
          \/ (\E m \in Mails : Account(m))
          \/ FinishHeld \/ FinishClean

Next == \/ Arrive \/ Expire \/ Outage \/ CacheExpires
        \/ Poller \/ Crash
        \/ \E m \in Mails : Replay(m)

Spec == Init /\ [][Next]_vars

\* The thread loops for ever.
FairSpec == Spec /\ WF_vars(Poller)

------------------------------------------------------------------------------
(***************************************************************************)
(* Properties.                                                             *)
(***************************************************************************)
State == [link : [at : 0..N, ok : BOOLEAN], seen : Seq(Mails), failing : SUBSET Mails,
          poison : [Mails -> Nat], watermark : Nat]
Cycle == [batch : SUBSET Mails, failed : SUBSET Mails, held : BOOLEAN, to : 0..N,
          relist : BOOLEAN, forwarded : BOOLEAN, newest : Nat, mail : 0..N, taken : BOOLEAN]

\* Every variable has its type, and a poller that waits for an answer waits for
\* the answer to a mail.
TypeOK == /\ arrived \in 0..N /\ resets \in Nat /\ up \in BOOLEAN
          /\ cache \subseteq Mails
          /\ state \in State
          /\ disk \in State \cup {NoFile}
          /\ pc \in {"off", "idle", "items", "answer"}
          /\ cycle \in Cycle
          /\ pc = "answer" => cycle.mail \in Mails
          /\ faults \in Nat
          /\ turns \in [Mails -> Nat]
          /\ {files, waived, old, evicted} \subseteq SUBSET Mails

\* What can have become of a mail that is no longer waiting: a turn, a dead
\* letter, the seat's own mail, the announcement of a baseline; or, once a cursor
\* was lost, it shows behind a younger mail and the watermark takes it for old.
Late(m) == \E k \in 1..(m - 1) : Received[k] > Received[m]
Settled(m) == \/ turns[m] > 0 \/ m \in files \/ m \in Own \/ m \in waived
              \/ resets > 0 /\ Late(m)

\* No mail is lost (overlay#275): what the durable cursor has passed, and what
\* the ledger will not forward, is settled, over crashes, failed writes, lost
\* answers, rejected mails and cursors that expire.
NoneLost ==
    disk # NoFile => \A m \in Mails :
        (disk.link.ok /\ m <= disk.link.at) \/ m \in Seen(disk) => Settled(m)

\* "a 410 during a hold can never skip the held mail" (poll_once): a mail that
\* failed leaves by a turn or a dead letter.
HeldNeverSkipped ==
    [][\A m \in state.failing :
         m \in Seen(state') \ Seen(state) => turns[m] > 0 \/ m \in files']_vars

\* A mail runs more than one turn only by as many faults, though the adapter
\* forgets what it took at any time, while the ledger has not forgotten mail.
TurnsBounded == evicted = {} => \A m \in Mails : turns[m] <= 1 + faults

\* Mail that was in the inbox when the poller started from a missing or corrupt
\* file is never run as a new turn, whatever is listed again later, and whatever
\* the ledger has forgotten by then (_baseline, _watermark_skip).
HistoryStaysHistory == \A m \in old : turns[m] = 0

\* While the adapter stays up, every mail it would take is settled: one that is
\* rejected holds the cursor and nobody behind it.
MailSettles == (<>[]up) => \A m \in Mails \ Bad : (m <= arrived) ~> Settled(m)

------------------------------------------------------------------------------
(***************************************************************************)
(* What the proofs rest on.                                                *)
(***************************************************************************)

\* A mail of the cycle is in one hand of it, and one that failed, or waits for
\* its answer, is not in the ledger.
Hands == pc \in {"items", "answer"} =>
    /\ cycle.batch \cap cycle.failed = {}
    /\ cycle.mail \notin cycle.batch \cup cycle.failed \cup Seen(state)
    /\ cycle.failed \cap Seen(state) = {}

\* The turns a mail may yet get while nothing goes wrong: one if it may be
\* forwarded, one from its dead letter.
Forwardable(m) == \/ pc = "off"
                  \/ m \notin Seen(state) /\ ~(pc = "answer" /\ cycle.mail = m /\ cycle.taken)
Pending(m) == (IF Forwardable(m) THEN 1 ELSE 0) + (IF m \in files THEN 1 ELSE 0)
TurnsInv == /\ Hands
            /\ evicted = {} => \A m \in Mails : turns[m] + Pending(m) <= 1 + faults

\* The poller has no way to mail of before its baseline: the watermark is above
\* it, the cursor past it, and no failure holds it; a cycle that lists it is one
\* from scratch, which skips it, and ends behind it.
Guarded(s) == \A m \in old : /\ m \notin s.failing /\ Received[m] < s.watermark
                             /\ s.link.ok => m <= s.link.at
InCycle == pc \in {"items", "answer"} => \A m \in old :
    /\ m <= cycle.to /\ m \notin cycle.failed
    /\ m \in cycle.batch => cycle.relist
    /\ pc = "answer" => m # cycle.mail
HistoryInv == /\ HistoryStaysHistory
              /\ old \subseteq waived \cap (1..arrived) /\ old \cap files = {}
              /\ disk # NoFile => Guarded(disk)
              /\ pc # "off" => Guarded(state)
              /\ InCycle
===============================================================================
