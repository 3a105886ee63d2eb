# Verification of the Hermes overlay

TLA+ models of the protocols of this overlay, checked with TLC on small
instances and, for the theorems listed below, proved with TLAPS for every value
of their constants. Source paths are relative to the repository root (shown in
`PROJECT.json` under `src/`).

- [The system](#the-system): its parts, their state, how they interact
- [What is hard](#what-is-hard): the behaviours the models are for
- [Modules and code](#modules-and-code): which module models what, and how
- [Runs](#runs): what each run checks, its bounds, why they are enough
- [Fairness](#fairness)
- [Proofs](#proofs): what is proved, from what, along which argument
- [Only model-checked](#only-model-checked), [Findings](#findings),
  [Not modelled](#not-modelled), [Plan](#plan)

To run a check, `tlc -config MCReplyChannel.cfg MCReplyChannel` in this
directory; to check a proof, `tlapm ReplyChannelProofs.tla`.

## The system

The overlay runs inside a gateway process that hosts an agent (Hermes). It
receives email (webhooks, or a mailbox poller), lets the agent work on it turn
by turn, and decides what of the agent's work may leave the seat. Anything that
leaves goes through a *broker*, another process, over HTTP; its ledger and its
transport are outside this repository. State lives in memory of the gateway, in
SQLite files on the volume, or in the broker's ledger. Plugins hook the agent's
life cycle: `pre_llm_call`, `pre_tool_call`, `transform_tool_result`,
`post_llm_call`, `on_session_end`.

| Component | State it keeps | Operations | Interacts with | What makes it correct |
|---|---|---|---|---|
| Reply channel (`plugins/hermes-smd-reply`: relay, held store, sweeper) | `_REPLIED` (emails that have their reply), rate windows, in memory; the table of held replies in SQLite | relay a draft, hold it, release or expire held rows, fail interrupted rows at boot | broker's reply verb; sweeper thread shares limiter and table with agent threads | one answer per email; a reply given up is never sent; release in order; a held reply settles |
| Send limits (`relay.RateLimiter`, `shared/send_policy.py`) | deques of send stamps; the authored block on the volume | `check`; resolve the block | called by relay and sweeper, under one lock; policy read before | no window over its cap; no refusal while there is room |
| End-of-turn delivery (`act_delivery.py`, `text_delivery.py`, `shared/hook_worker.py`, `shared/answered_messages.py`) | registers of attempts, lines, texts; a FIFO queue of tasks | hooks snapshot and hand off; the worker sends the act line or the text, or pages | hooks of agent threads → worker thread → relay and broker | line once, text only where nothing else answers, loss is loud |
| Durable jobs (`shared/job_*.py`, `plugins/hermes-smd-jobs`) | the job row and its idempotency journal in the broker's ledger; locals of a worker | claim, run a segment, record, store, deliver, park; tools create, cancel, status, record side effect | one worker thread per gateway process; ledger over HTTP; `os.environ` | money bounded; a fenced worker changes nothing; settles; side effects fire once |
| Delta poller and replay (`shared/msgraph_poller.py`, `msgraph_replay.py`) | cursor, seen ids, watermark, failure counts in one JSON file; dead-letter files | poll, forward, hold or dead-letter, persist; replay by an operator | mailbox API; the webhook gate | each mail forwarded or dead-lettered, none skipped, history not replayed |
| Send approval (`shared/pending_send.py`, `unknown_sends.py`, trust plugin) | withheld sends and their approvals, bodies in flight or in doubt, in memory | withhold, approve by a bare "yes", dispatch or replay, hold after a lost answer | trust gate before a tool call; Telegram turns; broker | only the requester's "yes" releases what was withheld; a "yes" has one meaning; a body in doubt is not sent again |
| Cost breaker and wake guards (`shared/sticky_stop.py`, `cost_breaker.py`, `webhook_gate.py`) | stop level and counters, one SQLite row shared by processes | meter, stop, pin, clear, ask | every tool call, job segment and wake asks it | the cause is the stop's own; a stop is lifted only by a clear or a write decided before it; it halts the work |
| Rule loop (`shared/rule_*.py`, establishment plugin) | rules and their state, pending confirmations | state back, confirm, decline, close | inbound replies; reply channel | a rule acts only confirmed; the loop closes once |
| Commitment acts (`shared/pending_acts.py`, `act_broker.py`, trust and establishment plugins) | one record per session in memory, for ten minutes; the broker's rows, for a day | withhold and propose, read back, confirm here or in another conversation, replay, commit | trust gate; end-of-turn delivery; broker | what runs is what was answered; a "yes" is spent once; what says committed was done |
| Escalation and casework ledgers | append-only JSON rows | append, fold into a state | audit; broker | the fold agrees with the acts taken |
| Appliers (config, spec, skills, establishment intake) | the vault's object and its recovery copy; installed bodies and a manifest; staged files and trees | merge a run into the object; poll, verify, install, prune; stage, swap, restart, roll back | portal and broker's spool → vault → seat; the gates read the manifest | no author clears another; the seat serves what the vault holds, whole |
| Request cards and index | one card per request | upsert, settle | gate; lanes | one card over retries |
| Heartbeat and self-checks | none beyond the last beat | collect, post | every component's facts | each beat independent |
| Webhook router and inbound quarantine | binding of a session to its email | bind, fence | gate → agent | text of outsiders is data |
| Trust gate decisions | none | decide over a tool call | policy | deny unless allowed |
| Content gates | none | classify text | relay | pure functions |
| Audit | chain head, a held buffer | append, flush | broker | order kept over outages |
| Memory, peer memory, voice, corrections | mirrors | mirror, sample | external store | none of their own |
| Calendar, couples, spaces, workspace | small stores | read, write | optional seats | per store |
| Result store, handoffs, staged sends | single-use files and rows | put, take | other processes | taken once |
| Bootstrap and activation | none after boot | translate, validate, wire | `customer.yaml` | a boot with a bad config refuses |

`PROJECT.json` lists the same components with their sources and status.

How the modelled ones interact:

```
  mailbox ─poller─> adapter ─┐                 ┌─ windows, _REPLIED ─┐
                  email ─────┴> agent turn ─draft─> relay ──────────────> broker ─> person
                                 │ │ │              │ hold               ▲  ▲
                                 │ │ │              ▼                    │  │
                                 │ │ │          held rows ─> sweeper ────┘  │
                                 │ │ └─ hooks ─> FIFO ─> worker ─ line/text ┤
                                 │ └─ tool call ─> trust gate ─┬─ withheld send ─ "yes" ─┤
                                 │                             └─ withheld act ─ "yes" ──┘
  job tools ─> ledger row <─ claim, record ─ job worker ─ segment ─> agent
  every call and segment ─> breaker ─> stop row <─ pin, clear ─ webhook gate
  portal ─┐
  intake ─┴> vault object ─ applier ─> bodies, manifest ─> gates
```

## What is hard

`PROJECT.json` lists each hazard with its line. In short:

- **Threads.** Agent threads, the hook worker, the sweeper and the job worker
  share registers, limiter, tables and `os.environ`; decisions are made in
  several steps (read the policy, look for held rows, ask the limiter, send,
  commit) with other threads in between.
- **Lost answers.** A request that raises may have taken effect. The relay, the
  sweeper, the act line and the ledger client each choose what to believe.
- **Crashes.** What lives in memory (`_REPLIED`, windows, tasks) is gone; what
  lives in SQLite or the ledger is found half-way.
- **Stale snapshots.** A sweep pass works on rows and a clock read at its start;
  a task describes a turn that ended; a job worker writes back a spend it read
  before a segment that may outlive its lease.
- **Whole-row writes.** The stop row and the vault's object are read, changed and
  written back whole, by processes with no lock between them.
- **A "yes" between two turns.** An approval is given in one turn and acted on in
  another, while records expire, calls fail and other conversations go on.
- **Bounded memories.** Ledgers of seen ids, idempotency caches, ten minutes of a
  record, an hour of a held body: what forgets, and who relies on it.
- **Being quiet.** Silence is a legal outcome of a turn, so a lost reply looks
  like a decision unless somebody is told.

## Modules and code

| Module | Models | Lines |
|---|---|---|
| `SendLimits` | `RateLimiter.check` under a policy, as operators | 113 |
| `ReplyChannel` | relay, held store, sweeper, restarts | 530 |
| `ReplyPromise` | what the channel promises, abstractly | 46 |
| `ReplyLimiter` | the limiter under a changing policy | 153 |
| `EndOfTurn` | hooks, snapshot, FIFO worker, act line, text, loss | 508 |
| `DurableJob` | a job row and the workers that run it | 450 |
| `DeltaPoller` | the poll cycle, its state file, dead letters and their replay | 415 |
| `StickyStop` | the stop row, four meters, pin, clear, the wall, the gate | 303 |
| `SendApproval` | withheld sends, the "yes", dispatch and replay, bodies in doubt | 305 |
| `ActRegister` | withheld acts, their rows, the "yes", replay and commit | 344 |
| `SpecVault` | portal, intake and applier on one object; the installed specs | 401 |
| `*Proofs` | theorems, one module for each component; `LimitProofs` has those of `StickyStop` and `ReplyLimiter`, `ReplyChannelProofs` the refinement of `ReplyPromise` | |
| `MC*` | instances for TLC | |

`PROJECT.json` maps each definition to its lines. A definition whose comment
begins with *Mutant of* or *Mutated* is the same definition with one plausible
bug; it is used by no specification, and replacing the definition by it makes
the property named in `PROJECT.json` fail.

### SendLimits, ReplyLimiter

A window is a sequence of stamps held as *ages* (`SendLimits.Ages`), capped past
the longest window, so that the clock may run for ever in a finite state space.
`Verdict` and `AfterCheck` take the early returns of `check` in their order:
backstop, exemption, seat, person; only the windows a check reaches are evicted,
and `Evict` drops the longest prefix that is too old, as the loop of `_evict` does.
`ReplyLimiter` adds what happens around it: the firm rewrites its block
(`Author`, malformed blocks included), a caller resolves it (`Read`), and asks
later (`Check`). `log` is the history of what was really sent, independent of
the limiter's deques.

### ReplyChannel

One turn per email. A draft call goes through `pc[m]`: `turn` → `order`
(`_held_pending_for`) → `limit` (`RateLimiter.check`) → `transmit` → `answer` →
`turn`, or → `enqueue` → `queued` (row written, register not yet) → `turn`.

| Code | Model |
|---|---|
| `_REPLIED` | `committed` |
| `RateLimiter` windows | `lim` |
| held table | `rows`, by id; `status` as in `held_store.py` |
| `_held_release` read of the policy | `saw[m]` (relay), `releasing` (pass) |
| `run_sweep_once`'s snapshot | `batch` and `due`, fixed at `PassStarts` |
| seen-capped set of a pass | `blocked` |
| the transport | `Outcomes`: acked, carried with its answer lost, lost, refused |
| `fail_interrupted_on_boot` | `Interrupted`, in `Reboot` |
| a store that cannot be opened or raises | `store`, `StoreFaults` |

`copies[m]`, a history variable, counts what the transport carried. Every gate
before the limiter that may refuse (roster, recipient, content, checklist,
matter) is one action, `DraftRefused`: their effect on this protocol is the same.

`ReplyPromise` is the abstract specification: an email's reply is unanswered,
queued, answered or closed; `Queue`, `Answer`, `Close`, `CloseAll` are the only
changes, so closed and answered are final. `ReplyChannel!Fate` is the refinement
mapping, and `KeepsPromise` the statement that the channel implements it.

### EndOfTurn

A session is opened by one email (turn 1); later turns are wakes. The agent's
actions draft, send elsewhere, propose or confirm an act; `PostLlmCall` and
`OnTurnEnd` build a snapshot (`Snapshot`) and append it to `queue`; the worker
takes the head and goes through `wpc`: `act` → `acted` → `text` → `relay` →
`relayed` → `check`. Registers are named after the code's: `turnSends`
(`_TURN_SENDS`), `committed` (`_REPLIED`), `answered` (`answered_messages`),
`noted` and `claimed` (`_ACT_BODIES`), `textSeen`, `textDelivered`. What is read
live by the worker instead of from the snapshot is read live in the model too
(`BoundThisTurn`, `act`). `HookFaults` lets Hermes skip `post_llm_call` or fire
it twice; `ConfigFaults` lets a read of `customer.yaml` raise.

### DurableJob

The row (`job`) is the ledger's; `Claimed`, `Fenced` and `Record` say what this
code and the ledger double in `tests/test_job_worker.py` take the ledger to do,
and are marked external where the code is the broker's. Each call to the ledger
is a step, and may raise before or after it took effect. `run[w]` are the locals
of `run_one` and `pc[w]` the next call:

```
boot → idle → read → (root → refresh) → fire → running → error | spend → read …
                └→ put → complete → delivering → deliver → delivered → done
   any check may go to park (needs_review, cancelled), any fenced answer to idle
```

`paid` (what the provider was paid), `carried`, `fired`, `late` and `faults` are
history variables. `env[w]` is `HERMES_JOB_ID` in the process's environment,
which `InTurnSideEffect`, a turn's call of the guard, reads too.

Reading the code for this model showed three things no property is about.
`idem_complete` and `heartbeat` of the ledger client have no caller, so the guard
never answers "skip" and a long segment can outlive its lease. A delivery that
fails parks the job for review. And nothing clears a row's `error`, so
`job_status` may say failed of a job that is done.

### DeltaPoller

Mail is numbered in the order the inbox shows it; `Received` is its
`receivedDateTime`, in any order. `state` is `DeltaState` (cursor, seen ids,
failing mails, poison counts, watermark), `disk` the file, `cycle` the locals of
`poll_once`. The poller goes `off` → `idle` → `items` → (`answer`) → `items` →
`idle`: `Start` loads or takes a baseline, `Poll` lists, then one action per
outcome of an item (`SkipOld`, `Known`, `Echo`, `Forward` and `Accepted` or
`Failed`), then `Hold`, `FinishHeld` or `FinishClean`, with the dead letters and
the write of the file each a place where a crash or a failed write may fall.
`Replay` is the operator's program beside it. The mail service (arrival, a
cursor answered 410) and the adapter with its one-hour idempotency cache are
external.

### StickyStop

`row` is the one SQLite row; `call[h]` a meter call of a breaker between its read
and its write (`Meter`, `Put`), `captain` a clear between its own. What a meter
makes of the row is `AfterFailure`, `AfterRefusal`, `AfterSuccess`, `AfterCost`
over `Stopped` (`_forward_only`). `Pin` is one UPDATE. `cache` is the wall's
answer, two seconds old at most; `turn` and `segment` are what the stop is to
halt. Counters stop at their limits, past which they tell nothing apart.

### SendApproval

A thread is a call of the hooks: a tool call withholds (`Compose`, `Capture`),
or finds an approved record (`Judge`), passes the gates behind it (`Floored`,
`Scanned`) and spends the record (`Take`); a turn that opens with a bare "yes"
approves the newest record it may (`Approve`) and dispatches it (`ScanPasses`,
`Reauthorize`). Both end in `Claim` of the body and the broker's answer or its
loss. A principal is a user and a chat, each possibly unknown, and `Overlaps`,
`MayApprove`, `MayConsume` compare them as the code does.

### ActRegister

`rows` are the broker's, `register` is `PENDING_ACTS`, one record per session,
and `call[s]` what the session is doing. `known[i]` is what an administrator has
of a row: nothing, its tag, its sentence. `Withhold`, `Propose`, `Note` and
`Reply` ask; `AskWhich` lists the open tags; `Answer`, `Adopts` and
`MarkConfirmed` attach a row's payload to a record of the session that was
answered, whichever proposed it; `Replay`, `Take`, `Run`, `Finish`, `Commit`
carry it out. `done` is the history of what the vendor carried out and by which
answer. Whether a call was carried out and whether it is reported as failed are
independent, because `tool_call_failed` knows the failures it lists and no others:
`unseen` has the rows of calls that were neither carried out nor reported, and
`loose` those of calls that were both, besides the rows whose closing was lost or
that were answered again while an answer was being acted on.

### SpecVault

`vault` and `previous` are the two objects of a class; an object is absent,
unparseable, or a document with one entry (body, soundness, standing sentences)
per property, and stands for its own digest and tag. The intake goes `idle` →
`get` → (`copy`) → `put` → `back` → `converge` → `result` → `purge` with one run
in hand, and the applier `idle` → `pull` → `install` → `prune`, a body at a time
and the manifest last. `Accepted` is `parse_and_verify`: all or nothing.
`Verifies` is what the gates ask of an installed file. The portal, and an
operator who puts the recovery copy back, write whole objects at any time.
Faults are calls that raise before or after they took effect, writes that fail,
and restarts of either daemon.

## Runs

Passing runs fire every action of their modules. All bounds are constants.

| Run | Question | Bounds | Distinct states |
|---|---|---|---|
| `reply_channel` | is anyone answered twice, is a reply given up sent later, does release keep its order? | 2 emails of one person; caps 1 per person and 2 per seat in one clock step; TTL 1; 2 rows a pass; store faults; 2 draft calls per email; 1 restart | 1.3 M |
| `reply_live` | is every held reply settled? | 2 people under a seat cap of one; 1 row a pass; TTL 1; no faults | 0.55 M |
| `limiter` | do the caps hold, is each refusal justified? | 2 callers, 2 people (1 internal), 3 policies and a malformed block, windows of 1 and 2 steps, 4 sends | 0.37 M |
| `end_of_turn` | one line, one answer, never silence? | 1 session, 3 turns, both kinds of fault | 71 k |
| `durable_job` | money, fence, delivery, cancel, side effects, rest | 2 workers, budget 2, 2 attempts, segments of 0–2 cents, 2 faults, 1 side effect | 1.9 M |
| `delta_poller` | is mail lost, run twice, or run though it is history? does it settle? | 3 mails (one the seat's own, one rejected, one late), ledger of 2, poison bound 1, 1 expired cursor, 2 faults | 0.33 M |
| `sticky_stop` | does a stop keep its cause, who may lift it, does it halt? | 2 breakers, limits 2 and 1, caps within 2 cents, 1 fault | 1.8 M |
| `send_approval` | whose "yes" releases what, is a body in doubt sent again? | 2 people, a group and a direct chat, a routine, an unbound turn, 2 wordings of one send, 2 threads, 3 withheld sends | 1.9 M |
| `act_register` | does what runs agree with what was answered, and the row with what was done? | 2 conversations, 3 payloads of 2 tools, 2 rows, 2 answers | 2.6 M |
| `spec_vault` | does an author clear another, does the seat serve the vault? | 2 properties, 2 runs (one says a sentence, one replaces the body under it), 2 objects written from outside (sound, torn, removed), room for one body or a short body and a sentence, 1 fault | 1.9 M |
| `job_turn_journaled`, `act_unread` | a sentence of the code's own docs, against the code | the smallest instance that shows it; that of `act_register` | |

Why these bounds are enough to be interesting:

- **reply_channel.** Two emails of one person and a cap of one mean that the
  second reply is rate-held whenever the first went out in the same step, so
  the live path, the queue and the sweeper compete for the same window. A second
  draft call is what a redraft after a hold is. A restart in any state of both
  threads covers each half-done send. A second person adds nothing the register
  or the rows distinguish. The mutants show that each property can fail in the
  instance.
- **reply_live.** A pass of one row, and a seat cap that one person's reply can
  use up, are the ways a row can be starved; the TTL is what saves it.
- **limiter.** The policies differ in caps and exemption but not in windows:
  eviction is destructive, and a policy with longer windows than the one before
  would ask for stamps already forgotten (`SameWindows`, the hypothesis under
  which `CapsHold` is proved). No doc promises otherwise.
- **end_of_turn.** Registers and snapshots are keyed by session, so sessions
  meet only in the order of the FIFO, and the proofs cover any set of them.
  Three turns let a wake overtake the worker, and another one confirm the act.
- **durable_job.** Two workers give one overtaken and one current; two attempts
  and two faults let the second attempt fail as well; a segment of two cents
  overshoots a budget of two.
- **delta_poller.** One mail for each way out of the cycle, and a late one under
  the watermark. A ledger of two for three mails forgets. Two faults make a
  crash after a lost answer; one expired cursor lists everything again.
- **sticky_stop.** A limit of one stops at once, one of two after a streak whose
  window may end in between; each process has a call that can be overtaken by
  the other's, by a pause and by a clear.
- **send_approval.** The five principals are the kinds the comparisons tell
  apart: known person in a group, the same in a direct chat, another person, a
  routine of a chat, and nobody. Two threads make one call overtake another.
- **act_register.** Two acts of one tool and one of another make a payload that
  could be swapped; two answers let one act be answered twice.
- **spec_vault.** The long body leaves no room for a sentence and the short one
  does, so a merge can make an object the applier refuses. Two writes from
  outside let an object change and change back.

`CHECK_DEADLOCK FALSE` appears where the system really stops: all turns taken and
the queue drained, the job at rest, or the spool empty and the object handled.

What the properties say:

| Property | Module | Says |
|---|---|---|
| `AnsweredAtMostOnce` | ReplyChannel | at most one copy of the reply to an email is carried, over live path, queue, lost answers, redrafts, restarts |
| `KeepsPromise` | ReplyChannel | it implements `ReplyPromise` |
| `ReleasedInOrder` | ReplyChannel | when a row is released, no older row to that person is still held |
| `HeldSettles` | ReplyChannel | every held row is released, failed or expired |
| `CapsHold`, `RefusalJustified` | ReplyLimiter | the limiter agrees with the true history of sends, both ways |
| `SeatLineOnce` | EndOfTurn | the act line is carried by the seat at most once |
| `TextAloneAnswers` | EndOfTurn | the final text answers at most once, never beside the line or an attempt of the turn |
| `LoudOrAnswered` | EndOfTurn | a settled email is answered, tried, silent by authored choice, or paged |
| `TurnsSettle` | EndOfTurn | every email's turn is settled |
| `PaidBounded` | DurableJob | at most the budget less one, and one segment per attempt, is ever paid |
| `SpentNeverFalls`, `TerminalIsFinal` | DurableJob | no overtaken worker lowers the spend or leaves a rest state |
| `DoneMeansDelivered`, `QuietRunDeliversOnce` | DurableJob | order of store, record and delivery; a second delivery needs a crash, a lost reply or an outlived lease |
| `CancelStopsWork` | DurableJob | after a cancel a worker begins at most the segment it had decided on |
| `StepFiredOnce` | DurableJob | a guarded side effect fires once over every resume |
| `JobSettles` | DurableJob | the job comes to rest |
| `NoneLost`, `HeldNeverSkipped` | DeltaPoller | what the durable cursor, the ledger or the watermark would skip is settled; a failed mail leaves by a turn or a dead letter |
| `TurnsBounded`, `HistoryStaysHistory` | DeltaPoller | an extra turn costs a fault; while the ledger has forgotten nothing; mail a baseline found is not run, whatever is forgotten |
| `MailSettles` | DeltaPoller | if the adapter stays up, every mail it takes is settled |
| `CauseMatchesLevel` | StickyStop | a stop has its own cause, whatever writes overtake each other |
| `OnlyStaleLowers` | StickyStop | a stop is lifted by a clear or by a write decided before it, nothing else |
| `StopHalts` | StickyStop | a stop that stays ends in no tool and no segment running |
| `ReleasedByRequester` | SendApproval | what reaches the broker is what was withheld, on the "yes" of whom it is bound to |
| `OneMeaning` | SendApproval | with several approvers no two records wait for one person in one chat |
| `InDoubtNeverResent` | SendApproval | a body in flight or in doubt is in one thread's hands, or nobody's |
| `RunsWhatWasAnswered`, `OneYesOneAct` | ActRegister | the payload that runs is the answered row's; an answer acted on approves nothing more |
| `CommittedIsDone`, `AgainNeedsACause` | ActRegister | no reported failure is committed: a committed row was carried out, or its call failed in a form `tool_call_failed` does not list; an act is carried out twice only after a lost closing or two answers at once |
| `HandledIsServed` | SpecVault | an object handled and acceptable is the one served, but for a tag of another object or a cut install |
| `RefusedOnlyMidInstall` | SpecVault | the gates see a mismatch only during an install or after one was cut |
| `SentenceOnce` | SpecVault | a sentence stands once, however often its run is taken |
| `RoutesClearNothing`, `ReplacedIsKept` | SpecVault | the intake's write keeps the rest of what it read, and what it replaces is at the recovery key, unless the portal wrote since |
| `VaultSettles` | SpecVault | in the end the seat serves the vault's object, with the same two exceptions |

`TypeOK` of a module, and `OverLimitStops` of `StickyStop`, are stated by the
proofs; only `act_register` also checks its types with TLC.

## Fairness

- `ReplyChannel!FairSpec`: weak fairness of the sweeper as a whole (a thread that
  loops over an interval and logs any exception) and of the clock. Nothing is
  assumed of the agent, of the firm's authoring or of the broker's answers.
- `EndOfTurn!FairSpec`: weak fairness of the worker only. Its thread runs while
  its queue is not empty and catches what a task raises. The hooks run on the
  agent's threads, which may stop.
- `DurableJob!FairSpec`: weak fairness of each worker's loop and of the lease's
  clock. Restarts are bounded by `MaxFaults`, so a worker cannot crash for ever.
  `JobSettles` names two cases in which a job does not settle and the code has
  no remedy: each worker thread gave up for good at its readiness deadline, or
  the agent goes on for ever with segments that round to zero cents, which use
  neither budget nor attempts.
- `DeltaPoller!FairSpec`: weak fairness of the poller's thread, which loops for
  ever and catches what a cycle raises. That the adapter stays up is a premise
  of `MailSettles`, not an assumption.
- `StickyStop!FairSpec`: a tool and a segment end, a breaker's write is made or
  raises, two seconds pass. No wake, meter, pin or clear is assumed.
- `SpecVault!FairSpec`: weak fairness of the intake's and of the applier's loop,
  two daemons that log what a tick raises and go on. The portal and the operator
  are free; faults and restarts are bounded.

`SendApproval` and `ActRegister` have no liveness property: nothing obliges a
person to answer, and what is not answered expires.

## Proofs

Every theorem is checked by TLAPS to the last leaf. Assumptions are the named
`ASSUME`s of the modules: `HorizonAssumption`, `ChannelAssumption`,
`TurnAssumption`, `JobAssumption`, `PollerAssumption`, `StickyStopAssumption`,
`SendApprovalAssumption`, `ActAssumption`, `VaultAssumption`,
`LimiterAssumption`; they say that bounds are natural numbers, flags Boolean,
policies, runs and stamps well formed, and threads and workers finitely many.
Every safety property the passing runs check is proved for every value of the constants;
one theorem, `CapsAreHeld`, has a hypothesis beyond them.

| Theorem | Statement |
|---|---|
| `ReplyChannelProofs!TypeCorrect`, `ChannelInvariant` | `Spec => []TypeOK`, `Spec => []ChannelInv` |
| `ReplyChannelProofs!AnsweredOnce`, `Implements` | `Spec => []AnsweredAtMostOnce`, `Spec => KeepsPromise` |
| `ReplyChannelProofs!ReleasedFirstInFirstOut` | `Spec => ReleasedInOrder` |
| `LimitProofs!LimiterInvariant` | `LimiterSpec => []LimiterInv` |
| `LimitProofs!CapsAreHeld`, `RefusalIsJustified` | `SameWindows` gives `LimiterSpec => []CapsHold`; `LimiterSpec => []RefusalJustified` |
| `EndOfTurnProofs!TypeCorrect`, `EndOfTurnInvariant` | `Spec => []TypeOK`, `Spec => []EndOfTurnInv` |
| `EndOfTurnProofs!LineOnce`, `TextAlone` | `Spec => []SeatLineOnce`, `Spec => []TextAloneAnswers` |
| `EndOfTurnProofs!LostIsNeverQuiet` | `Spec => []LoudOrAnswered` |
| `DurableJobProofs!TypeCorrect`, `JobInvariant` | `Spec => []TypeOK`, `Spec => []JobInv` |
| `DurableJobProofs!DeliveredResult` | `Spec => []DoneMeansDelivered` |
| `DurableJobProofs!SpendMonotone`, `SettledForGood` | `Spec => SpentNeverFalls`, `Spec => TerminalIsFinal` |
| `DurableJobProofs!QuietDelivery`, `PaidAtMost` | `Spec => []QuietRunDeliversOnce`, `Spec => []PaidBounded` |
| `DurableJobProofs!CancelStops`, `FiredOnce` | `Spec => []CancelStopsWork`, `Spec => []StepFiredOnce` |
| `DeltaPollerProofs!TypeCorrect`, `PollInvariant` | `Spec => []TypeOK`, `Spec => []PollInv` |
| `DeltaPollerProofs!NoMailLost`, `HeldIsRetried` | `Spec => []NoneLost`, `Spec => HeldNeverSkipped` |
| `DeltaPollerProofs!TurnsFew`, `HistoryNeverRuns` | `Spec => []TurnsBounded`, `Spec => []HistoryStaysHistory` |
| `LimitProofs!TypeCorrect`, `LimitIsAStop` | `Spec => []TypeOK`, `Spec => []OverLimitStops` |
| `LimitProofs!CauseIsRight`, `StopIsForward` | `Spec => []CauseMatchesLevel`, `Spec => OnlyStaleLowers` |
| `SendApprovalProofs!TypeCorrect`, `ReleaseIsBound` | `Spec => []TypeOK`, `Spec => []ReleasedByRequester` |
| `SendApprovalProofs!YesHasOneMeaning`, `DoubtIsHeld` | `Spec => []OneMeaning`, `Spec => []InDoubtNeverResent` |
| `ActRegisterProofs!TypeCorrect`, `RunsTheAnswered` | `Spec => []TypeOK`, `Spec => []RunsWhatWasAnswered` |
| `ActRegisterProofs!YesIsSpent`, `CommittedWasDone`, `TwiceHasACause` | `Spec => []OneYesOneAct`, `Spec => []CommittedIsDone`, `Spec => []AgainNeedsACause` |
| `SpecVaultProofs!TypeCorrect`, `HandledServed` | `Spec => []TypeOK`, `Spec => []HandledIsServed` |
| `SpecVaultProofs!OnlyMidInstall`, `OneSentence` | `Spec => []RefusedOnlyMidInstall`, `Spec => []SentenceOnce` |
| `SpecVaultProofs!NothingCleared`, `CopyKept` | `Spec => RoutesClearNothing`, `Spec => ReplacedIsKept` |

**The reply channel.** `AnsweredAtMostOnce` is not inductive: the relay and the
sweeper share only `_REPLIED` and the rows, and each sends without looking at
what the transport did. `ChannelInv` says why that is enough. `UnansweredFree`:
an email whose turn may still send (it is on its way to the limiter or the
transport, or its turn is free to draft) has neither a row nor a carried copy.
`OneRow`: an email has one row. `HeldUncarried`: a row that is held, or in the
hand of the sweeper before its transmission, has no carried copy. The two sides
exclude each other, because the row exists before the register is written and
the turn cannot draft in between. `Reboot` is where the register is lost: it is
harmless because an email has one turn, and the rows mid-send are failed before
a sweeper runs. The refinement follows: under the invariant each action changes
`Fate` by one abstract action or not at all; `Reboot` is `CloseAll`.

The order of release has an invariant of its own, `OrderInv`, because a pass works
from a snapshot while rows arrive and leave. `PassInOrder`: every older held row
of a person is in the pass with a younger one, or in the sweeper's hand, or the
person is `blocked`; rows that arrive later are younger. `NextInLine`: the row the
limiter has let through has none before it.

**The limiter.** The deques and the true history of sends are different data, and
the invariant compares them at every age. `Agrees`: a window has no more stamps no
older than an age than there were such sends, and, up to its length, no fewer.
`InOrder`: stamps are in order, so that what `_evict` leaves is what the window
counts. A refusal is justified by the first half alone, whatever windows the firm
authors. The caps need the second, and with it `SameWindows`: a shorter window
that the firm authored in between evicts stamps a longer one still counts, and
TLC shows `CapsHold` violated when the policies differ in windows.

**The end of a turn.** A task describes a turn that may be long over when it
runs. `TaskTrue`: a task of an email names a turn that is `Over`, and what it
says of the turn's attempts and act still agrees with the history, because later
turns cannot change what happened in the first. `CarriedInv` and `WorkerInv`:
whatever the worker may have had carried has left its mark in a register before
the next task looks: `claimed` and `answered` for the line, `textDelivered` for
the text, and a claim is given back only for a certain refusal.

`LoudInv` says the same of silence. Whoever sees an email first, the text's task
or the line's claim, suppresses the page of everyone after him; so what he marked
(`textSeen`, `textDelivered`, `claimed`) is either accounted for already (`Told`)
or the email is still in the worker's hand, at a step from which every way out
answers, pages, or leaves it to the check that settles the email.

**The durable job.** `EpochsOwned`: at most one worker carries the row's epoch.
`WorkerInv`: what that worker read of the spend is what the row says, the result
is stored before it is recorded and recorded before it is delivered, and a
settled row leaves the owner only its last write. Any other worker's writes are
fenced. The two action properties follow from the invariant and from lemmas
saying that only an owner writes (`OwnersWrite`).

Four more properties, each with what makes it inductive. `FiredJournaled`: a side
effect is in the journal before it fires, so no resume finds it fired and not
journaled. `LateInv`: the cancel is read at the head of the loop, so a worker that
began a segment after it finds it before the next one. `QuietInv`: without a fault
the lease excludes everyone else, and what was handed to the channel is in the
hands of the worker about to settle the job. `PaidInv` is a credit argument: a
worker that may still pay before it reads the row again is `Open`; money that no
row has recorded is at most one segment for each attempt that is used up and not
open, which is where the bound on the overshoot comes from, and why workers must
be finitely many.

**The poller.** `Safe` says of a state of the poller that whatever it would skip
is settled: below the cursor (`Passed`), in the ledger (`Ledger`), below the
watermark (`Behind`). It holds of the state in memory and of the one on disk, so
a crash, which puts the second in place of the first, keeps it. `Cycling` carries
it through a cycle: a mail of the listing is settled, still to be handled, or
holds the cursor.

`TurnsInv` counts ahead: the turns a mail had, and those it may yet get if nothing
more goes wrong (`Pending`: a forward, its dead letter), are one more than the
faults at most. `HistoryInv`: mail of before a baseline is below the watermark of
every state the poller may be in or restart from, behind its cursor and held by no
failure (`Guarded`); a cycle that lists it again is one from scratch, which skips
it (`InCycle`). The ledger is not needed, so what it forgets does no harm.

**The stop.** Nothing orders the writes, so the invariant is about each of them:
the row, and every row some call is about to write, is `Sound`, its level in
agreement with its cause and counters; and a call that read a stop does not
write it away (`Decided`).

**The approval.** Three invariants of their own. The register: no two records
overlap, and an approved one was approved by somebody who may. The calls: one
that passed the gate carries such a record, with its payload, for its own turn.
The holds: what is in flight or in doubt is held, nothing twice. `OneMeaning`
follows from the first by a lemma about the comparisons: two records one person
may approve overlap.

**The act.** `Sound` ties a session's record and call to the row and to what was
done, so that a call about to commit its row was carried out or is `unseen`;
`Apart`: two sessions never hold one answer, nor one act unless its row is
`loose`; `Closing`: an act carried out has a closed row, is loose, or some
session is about to close it.

**The vault.** `Handling`: what the applier handled and accepts is what the
manifest names. `Matching`: a mismatch is of an install under way or cut, and
during one the bodies already written are the new object's, so that none
remains when the manifest is written. `Merging`: what the intake is about to put
is the vault's object with one run merged in, and its copy is kept, unless the
vault was written since. `Unrepeated`: no object anywhere repeats a sentence.

## Only model-checked

`HeldSettles`, `TurnsSettle`, `JobSettles`, `MailSettles`, `StopHalts` and
`VaultSettles` are liveness under fairness, which rests on ENABLED and is out of
the prover's reach; they stay with TLC, on the instances above. That a property
the proofs establish can fail at all is shown by TLC too, on its mutant.

## Findings

Two sentences of the code's own docs are refuted by a run; `PROJECT.json` quotes
each.

| Run | Docs say | Code does |
|---|---|---|
| `job_turn_journaled` | the in-turn path is not journaled | the job's id is in the environment of the whole process |
| `act_unread` | what executes is the act the administrator read | a "yes" with the tag of a row whose sentence was sent to nobody confirms it |

The models reach the following as well, and no run states them; the properties
above are worded to hold beside them.

- `hermes-smd-reply/__init__.py:1272`: a person who has a reply waiting gets the
  later one behind it. The guard reads the queue before the limiter decides, and
  another turn may queue in between (line 1279).
- `hermes-smd-reply/__init__.py:981`: a draft held as a duplicate is a copy of an
  answer the person has. `_REPLIED` keeps an email whose queued reply expired or
  failed.
- `send_policy.py:13`: a typo can only tighten the seat. It resolves to a default
  looser than a strict firm's own block.
- `hermes-smd-reply/__init__.py:1910`: a lost text reply is made loud. A
  configuration that cannot be read in the worker loses it after the register
  that suppresses the page was claimed.
- `hermes-smd-reply/__init__.py:1750`: a later turn cannot change what the worker
  acts on. The relay under the worker reads the session's binding live (942).
- `hermes-smd-reply/__init__.py:1305`: an act line counts as carried when its
  reply is only queued.
- `sticky_stop.py:25`: the machine never lowers its state by itself. A meter writes the whole
  row it computed from an earlier read (895); `OnlyStaleLowers` bounds the loss.
- `msgraph_poller.py:141`: a re-list of a mature inbox cannot replay history. It
  marks old mail as seen until the ledger has forgotten the newest, which is not
  below the watermark (615) and is forwarded again once the adapter has forgotten
  it too; hence `evicted` in `TurnsBounded`.
- `pending_send.py:26`: with one approver every two records overlap. Those of two
  routines in two chats do not. And `take_for_send`'s answer is not looked at (`enforce.py:1975`): of two
  calls that matched one record both go on, and the hold of the body is what
  stops the second while the first is open.
- `pending_acts.py:41`: a stale approval cannot attach to a later turn. It stands
  for the ten minutes of its record, over later turns and a later "no";
  `take_in_flight`'s answer is not looked at either; two administrators may
  answer one open row in two conversations, and after a lost commit or an expired
  record the act may be answered and carried out again; a failure the vendor
  reports in a form the code does not list is committed (`tool_call_failed`, 70),
  the row then claiming what its docstring warns of (76-77); `CommittedIsDone`
  excepts exactly those rows.
- `establish_intake/intake.py:722`: replacing a body carries the standing
  sentences over and does not measure the sum, so that the object written may be
  one the applier refuses whole, while the run is told that nothing is lost (885).
- `spec_applier/applier.py:134`: the installed tree is never left half-replaced.
  A write that fails after the first body leaves it so; the next tick repairs it,
  unless the object put back meanwhile is the one the manifest names ("unchanged"),
  or one that is refused.
- `spec_applier/__main__.py:223`: the tag kept is of the object before the pull.
  If the object changes before the pull and back after it, the vault's object is
  taken for handled and is not installed.
- `establish_intake/intake.py:57`: the recovery copy is the object before the
  update. A run taken again after its write went through copies its own result
  over it.

## Not modelled

Within the modelled components:

- the retention purge of terminal rows (no code reads them again), discarded
  working drafts, audit rows, pages of the sweeper;
- the content, checklist and matter gates, as above; wording and formatting;
- replies to shared or bound addresses, which take the same path;
- more than one turn drafting for one email: later emails of a session fail
  closed in the inbound plugin; and concurrent tool calls of one turn;
- redelivery of an email after a restart: whether the platform does so is
  outside this repository;
- a SQLite insert whose commit raises and is published by the next one;
- the bounds of the in-memory rings (512 entries) and of the answered-message
  register; in `EndOfTurn` the expiry of an act record and several records per
  session;
- of jobs: the lineage of sessions and the repair of a trailing tool call,
  pricing, the cost breaker behind a refused segment, a row that vanishes, and
  `idem_begin` under a stale epoch. The broker's ledger itself is external;
- of the poller: the configuration gate and the cadence, items without an id,
  deleted mail, the client's other calls;
- of the stop: the ladder's audit rows, the wake cap's counter and the trigger
  throttle, the boot probe, pricing, real time;
- of the approval: the anchor and lane a record carries, the bound of 256 held
  bodies, digests; the ceiling's own decision is any outcome;
- of acts: several calls of one turn at once, the bound on sessions, declines, a
  withheld send outstanding beside the act, the broker's own checks;
- of the vault: several classes in one object (they merge as properties do), the
  gates and compilers a run passes before it reads the vault (they may turn it
  away), the analyze phase, which writes no vault, assertions and provenance, the sweeps of results and staging, ownership
  and modes, personal preferences, and the config and skills appliers.

Components with status `not_modelled` are planned below, or pure, external or
sequential, as their notes say: most of the repository's lines classify text,
render wording, validate configuration or check facts one at a time, and no order
of events changes what they do.

## Plan

Done: the modules above, with an inductive invariant proved for each component
and every safety property of the passing runs stated by a theorem.

Next, in order of importance:

1. **RuleLoop**: a rule stated back, confirmed or declined by a reply, the
   messages that close it once; then `ActRegister` composed with `EndOfTurn` and
   the held queue (the act line that is only queued).
2. **PollerPromise**, **JobPromise**: abstract specifications of the poller (each
   mail pending, run or dead-lettered) and of the job (queued, running, settled),
   and the refinements, as `ReplyPromise` is for the channel.
3. The personal preferences beside `SpecVault`, and the config and skills
   appliers (stage, swap, restart, roll back over a crash).
4. Request cards, the audit buffer; the casework and escalation folds as pure
   operators against a reference definition.

Proofs to add: the refinements of 2, from the invariants proved here; and, for each
new component, its type invariant and what its runs check.
