----------------------------- MODULE SendApproval -----------------------------
(***************************************************************************)
(* The approval of a withheld send (shared/pending_send.py,                *)
(* shared/unknown_sends.py, plugins/hermes-smd-trust).  A send of a class  *)
(* authored at "confirm" is withheld and its payload recorded under who    *)
(* raised it and where; a bare "yes" of an allowlisted person on Telegram  *)
(* approves the record it may approve, and the trust plugin sends it at    *)
(* once, or a later call of the send tool spends it.  What reaches the     *)
(* broker is held by its body while its outcome is open.                   *)
(*                                                                         *)
(* The threads are calls of the hooks and the tool; each operation of the  *)
(* register is one step, and what lies between two of them is not.  All of *)
(* it lives in memory: a restart forgets everything, and sends nothing.    *)
(***************************************************************************)
EXTENDS Naturals, FiniteSets

CONSTANTS Users, Chats,
          NoOne,      \* a user or a chat that is not known
          Turns,      \* the principals of the turns: people, routines into a chat, the rest
          Payloads,   \* the bodies a send tool is called with
          Key,        \* the tool and recipients of each
          Threads,
          MaxCaptures \* bound: sends withheld

Principals == [user : Users \cup {NoOne}, chat : Chats \cup {NoOne}]

ASSUME SendApprovalAssumption == /\ NoOne \notin Users \cup Chats
                                 /\ Turns \subseteq Principals
                                 /\ IsFiniteSet(Threads)
                                 /\ MaxCaptures \in Nat

VARIABLES
    allowlist, \* TELEGRAM_ALLOWED_USERS
    records,   \* PENDING_SEND: the withheld sends, by the order they were captured in
    captured,  \* history: captures so far
    call,      \* what each thread is doing
    held,      \* _HELD: bodies in flight or in doubt
    doubt      \* history: bodies that went out, or did not, within the hour

vars == << allowlist, records, captured, call, held, doubt >>

Nobody == [user |-> NoOne, chat |-> NoOne]

\* by is the approver, as approval_source names one.
Records == [id : 1..MaxCaptures, requester : Principals, payload : Payloads,
            approved : BOOLEAN, by : Principals]

Resting == [pc |-> "idle"]

\* capture_approval: whether the seat has one approver.
Sole == Cardinality(allowlist) = 1

Init == /\ allowlist \in SUBSET Users
        /\ records = {}
        /\ captured = 0
        /\ call = [t \in Threads |-> Resting]
        /\ held = {}
        /\ doubt = {}

------------------------------------------------------------------------------
(***************************************************************************)
(* The register.                                                           *)
(***************************************************************************)
Alike(a, b) == a = NoOne \/ b = NoOne \/ a = b

\* Mutant of Overlaps: only the very same person and chat.
OverlapsKnown(a, b) == a = b

\* _overlaps: an unknown field matches anything.
Overlaps(a, b) == Alike(a.user, b.user) /\ Alike(a.chat, b.chat)

SameChat(a, b) == a.chat # NoOne /\ a.chat = b.chat

\* Mutant of MayApprove: the chat is not asked for.
MayApproveAnywhere(req, p) ==
    IF req.user # NoOne THEN p.user = req.user ELSE Sole \/ SameChat(req, p)

\* _may_approve.
MayApprove(req, p) ==
    IF req.user # NoOne THEN p.user = req.user /\ SameChat(req, p)
                        ELSE Sole \/ SameChat(req, p)

\* _may_consume.
MayConsume(req, turn) ==
    req.user # NoOne => turn.user = req.user /\ SameChat(req, turn)

IsNewest(r, S) == r \in S /\ \A q \in S : q.id <= r.id

\* approved_match: the approved records this turn may release for such a send.
Matching(payload, turn) ==
    {r \in records : /\ r.approved
                     /\ Key[r.payload] = Key[payload]
                     /\ MayConsume(r.requester, turn)}

------------------------------------------------------------------------------
(***************************************************************************)
(* The gate (evaluate_tool_call).                                          *)
(***************************************************************************)
Do(t, c) == call' = [call EXCEPT ![t] = c]

\* A send found without an approval is on its way into the register.
Room == captured + Cardinality({t \in Threads : call[t].pc = "withheld"}) < MaxCaptures

\* Mutant of Judge: the call keeps the arguments it came with.
JudgeKeepsArgs(t, turn, path, payload) ==
    \/ \E r \in Matching(payload, turn) :
          /\ IsNewest(r, Matching(payload, turn))
          /\ Do(t, [pc |-> "allowed", turn |-> turn, path |-> path,
                    payload |-> payload, rec |-> r])
    \/ /\ Matching(payload, turn) = {} /\ Room
       /\ Do(t, [pc |-> "withheld", turn |-> turn, payload |-> payload])
    \/ Do(t, Resting)

\* With an approved record, its payload replaces the call's and the ceiling
\* allows it; without one the send is withheld; taint refuses either.
Judge(t, turn, path, payload) ==
    \/ \E r \in Matching(payload, turn) :
          /\ IsNewest(r, Matching(payload, turn))
          /\ Do(t, [pc |-> "allowed", turn |-> turn, path |-> path,
                    payload |-> r.payload, rec |-> r])
    \/ /\ Matching(payload, turn) = {} /\ Room
       /\ Do(t, [pc |-> "withheld", turn |-> turn, payload |-> payload])
    \/ Do(t, Resting)

\* The agent calls the send tool.
Compose(t) ==
    /\ call[t].pc = "idle"
    /\ \E turn \in Turns, payload \in Payloads : Judge(t, turn, "tool", payload)
    /\ UNCHANGED << allowlist, records, captured, held, doubt >>

\* capture: it replaces every record that one approver might mean as well.
Capture(t) ==
    LET c == call[t]
    IN  /\ c.pc = "withheld" /\ captured < MaxCaptures
        /\ captured' = captured + 1
        /\ records' = {r \in records : ~Overlaps(r.requester, c.turn)}
                        \cup {[id |-> captured + 1, requester |-> c.turn, payload |-> c.payload,
                               approved |-> FALSE, by |-> Nobody]}
        /\ Do(t, Resting)
        /\ UNCHANGED << allowlist, held, doubt >>

\* The content floor, the voice gate or the spec gate blocks the call, and the
\* approval stays.
Floored(t) ==
    /\ call[t].pc = "allowed"
    /\ Do(t, Resting)
    /\ UNCHANGED << allowlist, records, captured, held, doubt >>

\* take_for_send: the match is made again and spent; the call goes on whether
\* or not there still was one.
Take(t) ==
    LET c == call[t]
        matching == Matching(c.payload, c.turn)
    IN  /\ c.pc = "allowed"
        /\ records' = {r \in records : ~IsNewest(r, matching)}
        /\ Do(t, [c EXCEPT !.pc = "cleared"])
        /\ UNCHANGED << allowlist, captured, held, doubt >>

\* check_outbound_send on the tool's path, after the approval is spent.
Scanned(t) ==
    /\ call[t].pc = "cleared" /\ call[t].path = "tool"
    /\ Do(t, Resting)
    /\ UNCHANGED << allowlist, records, captured, held, doubt >>

------------------------------------------------------------------------------
(***************************************************************************)
(* The approval and its dispatch, with which a turn of that person opens.  *)
(***************************************************************************)
Marked(r, yes) == (records \ {r}) \cup {yes}

\* capture_approval: the newest record this person may approve here.
Approve(t) ==
    /\ call[t].pc = "idle"
    /\ \E turn \in Turns :
          LET open == {r \in records : MayApprove(r.requester, turn)}
          IN  /\ turn.user \in allowlist
              /\ \A u \in Threads : call[u].pc # "idle" => call[u].turn # turn
              /\ \E r \in open :
                    LET yes == [r EXCEPT !.approved = TRUE, !.by = turn]
                    IN  /\ IsNewest(r, open)
                        /\ records' = Marked(r, yes)
                        /\ Do(t, [pc |-> "scan", turn |-> turn, rec |-> yes])
    /\ UNCHANGED << allowlist, captured, held, doubt >>

\* _scan_approved_send: a block, or a scan that raises, withdraws the approval.
ScanBlocks(t) ==
    /\ call[t].pc = "scan"
    /\ records' = {IF r.id = call[t].rec.id THEN [r EXCEPT !.approved = FALSE] ELSE r : r \in records}
    /\ Do(t, Resting)
    /\ UNCHANGED << allowlist, captured, held, doubt >>

ScanPasses(t) ==
    /\ call[t].pc = "scan"
    /\ Do(t, [call[t] EXCEPT !.pc = "gate"])
    /\ UNCHANGED << allowlist, records, captured, held, doubt >>

\* The payload meets the gate again, as any send of the approver's turn.
Reauthorize(t) ==
    /\ call[t].pc = "gate"
    /\ Judge(t, call[t].turn, "dispatch", call[t].rec.payload)
    /\ UNCHANGED << allowlist, records, captured, held, doubt >>

\* Fifteen minutes: the oldest record goes first.
Expire ==
    /\ \E r \in records : /\ \A q \in records : r.id <= q.id
                          /\ records' = records \ {r}
    /\ UNCHANGED << allowlist, captured, call, held, doubt >>

------------------------------------------------------------------------------
(***************************************************************************)
(* The transport (outbound_send) and its holds.                            *)
(***************************************************************************)
\* _claim_or_refuse: a body in flight or in doubt is not handed over again.
Claim(t) ==
    LET c == call[t]
    IN  /\ c.pc = "cleared"
        /\ held' = held \cup {c.payload}
        /\ Do(t, IF c.payload \in held THEN Resting ELSE [c EXCEPT !.pc = "sending"])
        /\ UNCHANGED << allowlist, records, captured, doubt >>

\* Mutant of Unanswered: the hold ends with the call.
UnansweredReleases(t) ==
    /\ call[t].pc = "sending"
    /\ doubt' = doubt \cup {call[t].payload}
    /\ held' = held \ {call[t].payload}
    /\ Do(t, Resting)
    /\ UNCHANGED << allowlist, records, captured >>

\* Sent or refused: the hold is over.
Answered(t) ==
    /\ call[t].pc = "sending"
    /\ held' = held \ {call[t].payload}
    /\ Do(t, Resting)
    /\ UNCHANGED << allowlist, records, captured, doubt >>

\* The answer is lost: the hold stays.
Unanswered(t) ==
    /\ call[t].pc = "sending"
    /\ doubt' = doubt \cup {call[t].payload}
    /\ Do(t, Resting)
    /\ UNCHANGED << allowlist, records, captured, held >>

\* HOLD_S, an hour: no call to the broker lasts as long.
HoldEnds ==
    /\ \E m \in doubt : held' = held \ {m} /\ doubt' = doubt \ {m}
    /\ UNCHANGED << allowlist, records, captured, call >>

------------------------------------------------------------------------------
Next == \/ \E t \in Threads :
              \/ Compose(t) \/ Capture(t) \/ Floored(t) \/ Take(t) \/ Scanned(t)
              \/ Approve(t) \/ ScanBlocks(t) \/ ScanPasses(t) \/ Reauthorize(t)
              \/ Claim(t) \/ Answered(t) \/ Unanswered(t)
        \/ Expire \/ HoldEnds

Spec == Init /\ [][Next]_vars

------------------------------------------------------------------------------
(***************************************************************************)
(* Properties.                                                             *)
(***************************************************************************)
Calls == {Resting}
    \cup [pc : {"scan", "gate"}, turn : Turns, rec : Records]
    \cup [pc : {"withheld"}, turn : Turns, payload : Payloads]
    \cup [pc : {"allowed", "cleared", "sending"}, turn : Turns, path : {"tool", "dispatch"},
          payload : Payloads, rec : Records]

\* Every variable holds a value of its kind, and no capture is in the register twice.
TypeOK == /\ allowlist \subseteq Users
          /\ records \subseteq Records
          /\ \A r, q \in records : r.id = q.id => r = q
          /\ captured \in 0..MaxCaptures
          /\ call \in [Threads -> Calls]
          /\ held \subseteq Payloads
          /\ doubt \subseteq Payloads

\* What reaches the broker is the payload that was withheld, released by an
\* allowlisted "yes": of the person who raised it, in that chat, on a turn of
\* theirs; or, for a routine's send, from the chat it went to, unless the seat
\* has one approver (_may_approve, _may_consume, the replay in
\* evaluate_tool_call).
ReleasedByRequester ==
    \A t \in Threads : call[t].pc = "sending" =>
        LET rec == call[t].rec
        IN  /\ call[t].payload = rec.payload
            /\ rec.by.user \in allowlist
            /\ IF rec.requester.user # NoOne
               THEN rec.requester = rec.by /\ rec.requester = call[t].turn
               ELSE Sole \/ rec.requester.chat = rec.by.chat

\* On a seat with several approvers a bare "yes" has one meaning: no two records
\* wait for the same person in the same chat, whoever raised them and in what
\* order they came (capture, _overlaps against _may_approve).
OneMeaning ==
    ~Sole => \A r, q \in records, p \in Turns :
                MayApprove(r.requester, p) /\ MayApprove(q.requester, p) => r = q

\* A body is in one thread's hands at most, and one whose outcome is unknown is
\* in nobody's until its hour is over, whichever path and record it comes by
\* (claim, release).
InDoubtNeverResent ==
    \A t \in Threads : call[t].pc = "sending" =>
        /\ call[t].payload \notin doubt
        /\ \A u \in Threads : call[u].pc = "sending" /\ call[u].payload = call[t].payload => u = t

===============================================================================
