-------------------------- MODULE SendApprovalProofs --------------------------
(***************************************************************************)
(* The register, the calls and the holds keep three invariants of their    *)
(* own.  The register: no two of its records overlap, and an approved one  *)
(* was approved by somebody who may.  The calls: one that passed the gate  *)
(* carries such a record, for its own turn.  The holds: whatever is in     *)
(* flight or in doubt is held, and nothing is twice in flight.             *)
(***************************************************************************)
EXTENDS SendApproval, TLAPS

Authorized(r) == r.by.user \in allowlist /\ MayApprove(r.requester, r.by)

RegisterInv == /\ \A r \in records : r.id <= captured
               /\ \A r \in records : r.approved => Authorized(r)
               /\ \A r, q \in records : r # q => ~Overlaps(r.requester, q.requester)

Released(c) == /\ Authorized(c.rec)
               /\ MayConsume(c.rec.requester, c.turn)
               /\ c.payload = c.rec.payload

CallInv == \A t \in Threads : call[t].pc \in {"allowed", "cleared", "sending"} => Released(call[t])

InFlight(t) == call[t].pc = "sending"

HoldInv == /\ doubt \subseteq held
           /\ \A t \in Threads : InFlight(t) => call[t].payload \in held \ doubt
           /\ \A t, u \in Threads :
                 InFlight(t) /\ InFlight(u) /\ call[t].payload = call[u].payload => t = u

ApprovalInv == TypeOK /\ RegisterInv /\ CallInv /\ HoldInv

------------------------------------------------------------------------------
(***************************************************************************)
(* What the kinds of calls carry.                                          *)
(***************************************************************************)
Looking == [pc : {"scan", "gate"}, turn : Turns, rec : Records]
Waiting == [pc : {"withheld"}, turn : Turns, payload : Payloads]
Passed  == [pc : {"allowed", "cleared", "sending"}, turn : Turns, path : {"tool", "dispatch"},
            payload : Payloads, rec : Records]

LEMMA CallKinds ==
  ASSUME NEW c \in Calls
  PROVE  /\ c.pc \in {"scan", "gate"} => c \in Looking
         /\ c.pc = "withheld" => c \in Waiting
         /\ c.pc \in {"allowed", "cleared", "sending"} => c \in Passed
  BY DEF Calls, Looking, Waiting, Passed, Resting

LEMMA KindsAreCalls == Looking \subseteq Calls /\ Waiting \subseteq Calls
                          /\ Passed \subseteq Calls /\ Resting \in Calls
  BY DEF Calls, Looking, Waiting, Passed

\* On a seat with several approvers, two records that one person may approve
\* overlap: the bindings _may_approve compares are those _overlaps compares.
LEMMA ApproversOverlap ==
  ASSUME NEW a, NEW b, NEW p, ~Sole, MayApprove(a, p), MayApprove(b, p)
  PROVE  Overlaps(a, b)
  BY DEF MayApprove, Overlaps, Alike, SameChat

\* A principal is its user and its chat.
LEMMA SamePrincipal ==
  ASSUME NEW a \in Principals, NEW b \in Principals, a.user = b.user, a.chat = b.chat
  PROVE  a = b
<1>1. a = [user |-> a.user, chat |-> a.chat] /\ b = [user |-> b.user, chat |-> b.chat]
  BY DEF Principals
<1> QED BY <1>1

\* Only the thread of the step has a new call.
LEMMA OneCall ==
  ASSUME TypeOK, NEW t \in Threads, NEW c \in Calls, Do(t, c)
  PROVE  /\ call' \in [Threads -> Calls]
         /\ call'[t] = c
         /\ \A u \in Threads : u # t => call'[u] = call[u]
  BY DEF TypeOK, Do

\* The allowlist does not change, nor who may approve what.
LEMMA SameApprovers ==
  ASSUME UNCHANGED allowlist
  PROVE  /\ Sole' <=> Sole
         /\ \A req, p : MayApprove(req, p)' <=> MayApprove(req, p)
         /\ \A r : Authorized(r)' <=> Authorized(r)
<1>1. Sole' <=> Sole
  BY DEF Sole
<1>2. \A req, p : MayApprove(req, p)' <=> MayApprove(req, p)
  BY <1>1 DEF MayApprove
<1> QED BY <1>1, <1>2 DEF Authorized

------------------------------------------------------------------------------
(***************************************************************************)
(* What a kind of step keeps.                                              *)
(***************************************************************************)
LEMMA CallStep ==
  ASSUME TypeOK, CallInv, UNCHANGED allowlist, NEW t \in Threads, NEW c \in Calls, Do(t, c),
         c.pc \in {"allowed", "cleared", "sending"} => Released(c)
  PROVE  CallInv'
<1>1. SUFFICES ASSUME NEW u \in Threads, call'[u].pc \in {"allowed", "cleared", "sending"}
               PROVE  Released(call[u])'
  BY DEF CallInv
<1>2. \A r : Authorized(r)' <=> Authorized(r)
  BY SameApprovers
<1>3. Released(call'[u])
  <2>1. CASE u = t
    BY <1>1, <2>1, OneCall
  <2>2. CASE u # t
    BY <1>1, <2>2, OneCall DEF CallInv
  <2> QED BY <2>1, <2>2
<1> QED BY <1>2, <1>3 DEF Released

\* Nothing new is in flight.
LEMMA HoldStep ==
  ASSUME TypeOK, HoldInv, UNCHANGED << held, doubt >>, NEW t \in Threads, NEW c \in Calls,
         Do(t, c), c.pc # "sending"
  PROVE  HoldInv'
<1>1. \A u \in Threads : InFlight(u)' => InFlight(u) /\ call'[u] = call[u]
  BY OneCall DEF InFlight
<1> QED BY <1>1 DEF HoldInv

\* Records may leave.
LEMMA RegisterShrinks ==
  ASSUME TypeOK, RegisterInv, UNCHANGED << allowlist, captured >>, records' \subseteq records
  PROVE  /\ RegisterInv'
         /\ records' \subseteq Records
         /\ \A r, q \in records' : r.id = q.id => r = q
<1>1. \A r : Authorized(r)' <=> Authorized(r)
  BY SameApprovers
<1> QED BY <1>1 DEF RegisterInv, TypeOK

\* One record may change its approval.
LEMMA RegisterMarks ==
  ASSUME TypeOK, RegisterInv, UNCHANGED << allowlist, captured >>,
         NEW r \in records, NEW n \in Records,
         n.id = r.id, n.requester = r.requester, n.approved => Authorized(n),
         records' = (records \ {r}) \cup {n}
  PROVE  /\ RegisterInv'
         /\ records' \subseteq Records
         /\ \A a, b \in records' : a.id = b.id => a = b
<1>1. \A a : Authorized(a)' <=> Authorized(a)
  BY SameApprovers
<1>2. \A a, b \in records' : a.id = b.id => a = b
  BY DEF TypeOK
<1>3. \A a, b \in records' : a # b => ~Overlaps(a.requester, b.requester)
  BY DEF RegisterInv, Overlaps, Alike
<1>4. \A a \in records' : a.id <= captured'
  BY DEF RegisterInv
<1>5. \A a \in records' : a.approved => Authorized(a)'
  BY <1>1 DEF RegisterInv
<1> QED BY <1>2, <1>3, <1>4, <1>5 DEF RegisterInv, TypeOK

\* The gate lets a send pass with an approved record only, and with its payload.
LEMMA JudgeReleases ==
  ASSUME TypeOK, RegisterInv, NEW t \in Threads, NEW turn \in Turns,
         NEW path \in {"tool", "dispatch"}, NEW payload \in Payloads,
         Judge(t, turn, path, payload)
  PROVE  \E c \in Calls : Do(t, c) /\ c.pc # "sending"
            /\ (c.pc \in {"allowed", "cleared", "sending"} => Released(c))
<1>1. CASE \E r \in Matching(payload, turn) :
             Do(t, [pc |-> "allowed", turn |-> turn, path |-> path,
                    payload |-> r.payload, rec |-> r])
  <2>1. PICK r \in Matching(payload, turn) :
             Do(t, [pc |-> "allowed", turn |-> turn, path |-> path,
                    payload |-> r.payload, rec |-> r])
    BY <1>1
  <2> DEFINE c == [pc |-> "allowed", turn |-> turn, path |-> path,
                   payload |-> r.payload, rec |-> r]
  <2>2. r \in Records /\ r.payload \in Payloads /\ Authorized(r) /\ MayConsume(r.requester, turn)
    BY DEF Matching, RegisterInv, TypeOK, Records
  <2>3. c \in Calls
    BY <2>2, KindsAreCalls DEF Passed
  <2>4. c.pc # "sending" /\ Released(c)
    BY <2>2 DEF Released
  <2> QED BY <2>1, <2>3, <2>4
<1>2. CASE Do(t, [pc |-> "withheld", turn |-> turn, payload |-> payload])
  <2> DEFINE c == [pc |-> "withheld", turn |-> turn, payload |-> payload]
  <2>1. c \in Calls
    BY KindsAreCalls DEF Waiting
  <2> QED BY <1>2, <2>1
<1>3. CASE Do(t, Resting)
  BY <1>3, KindsAreCalls DEF Resting
<1> QED BY <1>1, <1>2, <1>3 DEF Judge

------------------------------------------------------------------------------
(***************************************************************************)
(* The steps.                                                              *)
(***************************************************************************)
\* A step that leaves the register and the holds alone and hands nothing over.
LEMMA QuietStep ==
  ASSUME ApprovalInv, UNCHANGED << allowlist, records, captured, held, doubt >>,
         NEW t \in Threads, NEW c \in Calls, Do(t, c), c.pc # "sending",
         c.pc \in {"allowed", "cleared", "sending"} => Released(c)
  PROVE  ApprovalInv'
<1>1. CallInv' /\ HoldInv'
  BY CallStep, HoldStep DEF ApprovalInv
<1>2. RegisterInv'
  BY RegisterShrinks DEF ApprovalInv
<1>3. TypeOK'
  BY OneCall DEF ApprovalInv, TypeOK
<1> QED BY <1>1, <1>2, <1>3 DEF ApprovalInv

\* A step of the register that ends with a call not handed over.
LEMMA RegisterStep ==
  ASSUME ApprovalInv, UNCHANGED << allowlist, held, doubt >>,
         NEW t \in Threads, NEW c \in Calls, Do(t, c), c.pc # "sending",
         c.pc \in {"allowed", "cleared", "sending"} => Released(c),
         RegisterInv', records' \subseteq Records,
         \A r, q \in records' : r.id = q.id => r = q, captured' \in 0..MaxCaptures
  PROVE  ApprovalInv'
<1>1. CallInv' /\ HoldInv'
  BY CallStep, HoldStep DEF ApprovalInv
<1>2. TypeOK'
  BY OneCall DEF ApprovalInv, TypeOK
<1> QED BY <1>1, <1>2 DEF ApprovalInv

LEMMA RestingIsNoCall == Resting \in Calls /\ Resting.pc = "idle"
  BY KindsAreCalls DEF Resting

LEMMA GateStep ==
  ASSUME ApprovalInv, NEW t \in Threads, Compose(t) \/ Reauthorize(t)
  PROVE  ApprovalInv'
<1>1. UNCHANGED << allowlist, records, captured, held, doubt >>
  BY DEF Compose, Reauthorize
<1>2. \E turn \in Turns, payload \in Payloads, path \in {"tool", "dispatch"} :
         Judge(t, turn, path, payload)
  <2>1. CASE Compose(t)
    BY <2>1 DEF Compose
  <2>2. CASE Reauthorize(t)
    <3>1. call[t] \in Calls /\ call[t].pc = "gate"
      BY <2>2 DEF Reauthorize, ApprovalInv, TypeOK
    <3>2. call[t] \in Looking
      BY <3>1, CallKinds
    <3>3. call[t].turn \in Turns /\ call[t].rec.payload \in Payloads
      BY <3>2 DEF Looking, Records
    <3> QED BY <2>2, <3>3 DEF Reauthorize
  <2> QED BY <2>1, <2>2
<1>3. PICK c \in Calls : Do(t, c) /\ c.pc # "sending"
            /\ (c.pc \in {"allowed", "cleared", "sending"} => Released(c))
  BY <1>2, JudgeReleases DEF ApprovalInv
<1> QED BY <1>1, <1>3, QuietStep

LEMMA CaptureStep ==
  ASSUME ApprovalInv, NEW t \in Threads, Capture(t)
  PROVE  ApprovalInv'
<1> DEFINE c == call[t]
           n == [id |-> captured + 1, requester |-> c.turn, payload |-> c.payload,
                 approved |-> FALSE, by |-> Nobody]
<1>1. c \in Calls /\ c.pc = "withheld"
  BY DEF Capture, ApprovalInv, TypeOK
<1>2. c \in Waiting
  BY <1>1, CallKinds
<1>3. captured \in Nat /\ captured < MaxCaptures /\ captured' = captured + 1
  BY SendApprovalAssumption DEF Capture, ApprovalInv, TypeOK
<1>4. c.turn \in Principals /\ c.payload \in Payloads
  BY <1>2, SendApprovalAssumption DEF Waiting
<1>5. Nobody \in Principals
  BY DEF Nobody, Principals
<1>6. n \in Records
  BY <1>3, <1>4, <1>5, SendApprovalAssumption DEF Records
<1>7. records' = {r \in records : ~Overlaps(r.requester, c.turn)} \cup {n}
  BY DEF Capture
<1>8. \A r \in records : r \in Records /\ r.id <= captured /\ r.id \in Nat
  BY SendApprovalAssumption DEF ApprovalInv, TypeOK, RegisterInv, Records
<1>9. n.id = captured + 1 /\ n.requester = c.turn /\ ~n.approved
  OBVIOUS
<1>10. \A r \in records : \A q \in records : r.id = q.id => r = q
  BY DEF ApprovalInv, TypeOK
<1>11. \A r \in records : r # n /\ r.id # n.id
  BY <1>3, <1>8, <1>9
<1> HIDE DEF n
<1>12. records' \subseteq Records
  BY <1>6, <1>7, <1>8
<1>13. \A r, q \in records' : r.id = q.id => r = q
  BY <1>7, <1>10, <1>11
<1>14. RegisterInv'
  <2>1. \A r \in records' : r.id <= captured'
    BY <1>3, <1>7, <1>8, <1>9
  <2>2. \A r \in records' : r.approved => Authorized(r)'
    <3>1. \A r : Authorized(r)' <=> Authorized(r)
      BY SameApprovers DEF Capture
    <3> QED BY <1>7, <1>9, <3>1 DEF ApprovalInv, RegisterInv
  <2>3. \A r, q \in records' : r # q => ~Overlaps(r.requester, q.requester)
    <3>1. \A r, q \in records : r # q => ~Overlaps(r.requester, q.requester)
      BY DEF ApprovalInv, RegisterInv
    <3>2. \A a, b : Overlaps(a, b) => Overlaps(b, a)
      BY DEF Overlaps, Alike
    <3> QED BY <1>7, <1>9, <3>1, <3>2
  <2> QED BY <2>1, <2>2, <2>3 DEF RegisterInv
<1>15. captured' \in 0..MaxCaptures
  BY <1>3, SendApprovalAssumption
<1>16. Do(t, Resting) /\ UNCHANGED << allowlist, held, doubt >>
  BY DEF Capture
<1> QED BY <1>12, <1>13, <1>14, <1>15, <1>16, RestingIsNoCall, RegisterStep

LEMMA EndStep ==
  ASSUME ApprovalInv, NEW t \in Threads, Floored(t) \/ Scanned(t)
  PROVE  ApprovalInv'
  BY RestingIsNoCall, QuietStep DEF Floored, Scanned

LEMMA TakeStep ==
  ASSUME ApprovalInv, NEW t \in Threads, Take(t)
  PROVE  ApprovalInv'
<1> DEFINE c == [call[t] EXCEPT !.pc = "cleared"]
<1>1. call[t] \in Passed /\ Released(call[t])
  BY CallKinds DEF Take, ApprovalInv, TypeOK, CallInv
<1>2. c \in Passed /\ c.rec = call[t].rec /\ c.turn = call[t].turn /\ c.payload = call[t].payload
  BY <1>1 DEF Passed
<1>3. c \in Calls /\ c.pc = "cleared" /\ Released(c)
  BY <1>1, <1>2, KindsAreCalls DEF Released, Passed
<1>4. Do(t, c) /\ records' \subseteq records
      /\ UNCHANGED << allowlist, captured, held, doubt >>
  BY DEF Take
<1>5. RegisterInv' /\ records' \subseteq Records /\ \A r, q \in records' : r.id = q.id => r = q
  BY <1>4, RegisterShrinks DEF ApprovalInv
<1>6. captured' \in 0..MaxCaptures
  BY <1>4 DEF ApprovalInv, TypeOK
<1> QED BY <1>3, <1>4, <1>5, <1>6, RegisterStep

LEMMA ApproveStep ==
  ASSUME ApprovalInv, NEW t \in Threads, Approve(t)
  PROVE  ApprovalInv'
<1>1. PICK turn \in Turns, r \in records :
         /\ turn.user \in allowlist /\ MayApprove(r.requester, turn)
         /\ records' = (records \ {r}) \cup {[r EXCEPT !.approved = TRUE, !.by = turn]}
         /\ Do(t, [pc |-> "scan", turn |-> turn, rec |-> [r EXCEPT !.approved = TRUE, !.by = turn]])
  BY DEF Approve, Marked, IsNewest
<1> DEFINE n == [r EXCEPT !.approved = TRUE, !.by = turn]
           c == [pc |-> "scan", turn |-> turn, rec |-> n]
<1>2. n \in Records /\ n.id = r.id /\ n.requester = r.requester /\ n.by = turn
  BY SendApprovalAssumption DEF ApprovalInv, TypeOK, Records
<1>3. Authorized(n)
  BY <1>1, <1>2 DEF Authorized
<1>4. c \in Calls /\ c.pc = "scan"
  BY <1>2, KindsAreCalls DEF Looking
<1>5. UNCHANGED << allowlist, captured, held, doubt >>
  BY DEF Approve
<1>6. RegisterInv' /\ records' \subseteq Records /\ \A a, b \in records' : a.id = b.id => a = b
  BY <1>1, <1>2, <1>3, <1>5, RegisterMarks DEF ApprovalInv
<1>7. captured' \in 0..MaxCaptures
  BY <1>5 DEF ApprovalInv, TypeOK
<1>8. Do(t, c)
  BY <1>1
<1> HIDE DEF n, c
<1> QED BY <1>4, <1>5, <1>6, <1>7, <1>8, RegisterStep

LEMMA ScanBlocksStep ==
  ASSUME ApprovalInv, NEW t \in Threads, ScanBlocks(t)
  PROVE  ApprovalInv'
<1> DEFINE W(r) == IF r.id = call[t].rec.id THEN [r EXCEPT !.approved = FALSE] ELSE r
<1>1. records' = {W(r) : r \in records}
  BY DEF ScanBlocks
<1>2. UNCHANGED << allowlist, captured, held, doubt >> /\ Do(t, Resting)
  BY DEF ScanBlocks
<1>3. \A r \in records : /\ W(r) \in Records /\ W(r).id = r.id
                         /\ W(r).requester = r.requester
                         /\ W(r).approved => W(r) = r
  BY DEF ApprovalInv, TypeOK, Records
<1> HIDE DEF W
<1>4. records' \subseteq Records
  BY <1>1, <1>3
<1>5. \A a, b \in records' : a.id = b.id => a = b
  BY <1>1, <1>3 DEF ApprovalInv, TypeOK
<1>6. RegisterInv'
  <2>1. \A a \in records' : a.id <= captured'
    BY <1>1, <1>2, <1>3 DEF ApprovalInv, RegisterInv
  <2>2. \A a \in records' : a.approved => Authorized(a)'
    <3>1. \A a : Authorized(a)' <=> Authorized(a)
      BY <1>2, SameApprovers
    <3> QED BY <1>1, <1>3, <3>1 DEF ApprovalInv, RegisterInv
  <2>3. \A a, b \in records' : a # b => ~Overlaps(a.requester, b.requester)
    BY <1>1, <1>3 DEF ApprovalInv, RegisterInv
  <2> QED BY <2>1, <2>2, <2>3 DEF RegisterInv
<1>7. captured' \in 0..MaxCaptures
  BY <1>2 DEF ApprovalInv, TypeOK
<1> QED BY <1>2, <1>4, <1>5, <1>6, <1>7, RestingIsNoCall, RegisterStep

LEMMA ScanPassesStep ==
  ASSUME ApprovalInv, NEW t \in Threads, ScanPasses(t)
  PROVE  ApprovalInv'
<1> DEFINE c == [call[t] EXCEPT !.pc = "gate"]
<1>1. call[t] \in Looking
  BY CallKinds DEF ScanPasses, ApprovalInv, TypeOK
<1>2. c \in Looking /\ c.pc = "gate"
  BY <1>1 DEF Looking
<1> QED BY <1>2, KindsAreCalls, QuietStep DEF ScanPasses

LEMMA ExpireStep ==
  ASSUME ApprovalInv, Expire
  PROVE  ApprovalInv'
<1>1. records' \subseteq records /\ UNCHANGED << allowlist, captured, call, held, doubt >>
  BY DEF Expire
<1>2. RegisterInv' /\ records' \subseteq Records /\ \A r, q \in records' : r.id = q.id => r = q
  BY <1>1, RegisterShrinks DEF ApprovalInv
<1>3. \A r : Authorized(r)' <=> Authorized(r)
  BY <1>1, SameApprovers
<1>4. CallInv' /\ HoldInv' /\ TypeOK'
  BY <1>1, <1>2, <1>3 DEF ApprovalInv, CallInv, HoldInv, TypeOK, Released, InFlight
<1> QED BY <1>2, <1>4 DEF ApprovalInv

------------------------------------------------------------------------------
(***************************************************************************)
(* The steps of the transport.                                             *)
(***************************************************************************)
\* The register is left alone, and the calls keep what they carry.
LEMMA TransportStep ==
  ASSUME ApprovalInv, UNCHANGED << allowlist, records, captured >>,
         NEW t \in Threads, NEW c \in Calls, Do(t, c),
         c.pc \in {"allowed", "cleared", "sending"} => Released(c),
         held' \subseteq Payloads, doubt' \subseteq Payloads, HoldInv'
  PROVE  ApprovalInv'
<1>1. CallInv'
  BY CallStep DEF ApprovalInv
<1>2. RegisterInv'
  BY RegisterShrinks DEF ApprovalInv
<1>3. TypeOK'
  BY OneCall DEF ApprovalInv, TypeOK
<1> QED BY <1>1, <1>2, <1>3 DEF ApprovalInv

LEMMA ClaimStep ==
  ASSUME ApprovalInv, NEW t \in Threads, Claim(t)
  PROVE  ApprovalInv'
<1> DEFINE c == [call[t] EXCEPT !.pc = "sending"]
<1>1. call[t] \in Passed /\ Released(call[t]) /\ call[t].pc = "cleared"
  BY CallKinds DEF Claim, ApprovalInv, TypeOK, CallInv
<1>2. c \in Passed /\ c.rec = call[t].rec /\ c.turn = call[t].turn
      /\ c.payload = call[t].payload /\ c.pc = "sending"
  BY <1>1 DEF Passed
<1>3. c \in Calls /\ Released(c)
  BY <1>1, <1>2, KindsAreCalls DEF Released
<1>4. call[t].payload \in Payloads
  BY <1>1 DEF Passed
<1>5. /\ UNCHANGED << allowlist, records, captured, doubt >>
      /\ held' = held \cup {call[t].payload}
      /\ Do(t, IF call[t].payload \in held THEN Resting ELSE c)
  BY DEF Claim
<1>6. held' \subseteq Payloads /\ doubt' \subseteq Payloads
  BY <1>4, <1>5 DEF ApprovalInv, TypeOK
<1>7. CASE call[t].payload \in held
  <2>1. Do(t, Resting) /\ UNCHANGED << held, doubt >>
    BY <1>5, <1>7
  <2> QED BY <1>5, <2>1, RestingIsNoCall, QuietStep
<1>8. CASE call[t].payload \notin held
  <2>1. Do(t, c)
    BY <1>5, <1>8
  <2>2. call'[t] = c /\ \A u \in Threads : u # t => call'[u] = call[u]
    BY <1>3, <2>1, OneCall DEF ApprovalInv
  <2>3. \A u \in Threads : u # t /\ InFlight(u)' =>
           InFlight(u) /\ call'[u].payload = call[u].payload /\ call[u].payload \in held \ doubt
    BY <2>2 DEF InFlight, ApprovalInv, HoldInv
  <2> HIDE DEF c
  <2>4. HoldInv'
    BY <1>2, <1>5, <1>8, <2>2, <2>3 DEF ApprovalInv, HoldInv
  <2> QED BY <1>3, <1>5, <1>6, <2>1, <2>4, TransportStep
<1> QED BY <1>7, <1>8

LEMMA AnsweredStep ==
  ASSUME ApprovalInv, NEW t \in Threads, Answered(t)
  PROVE  ApprovalInv'
<1>1. UNCHANGED << allowlist, records, captured, doubt >> /\ Do(t, Resting)
      /\ held' = held \ {call[t].payload} /\ InFlight(t)
  BY DEF Answered, InFlight
<1>2. call'[t] = Resting /\ \A u \in Threads : u # t => call'[u] = call[u]
  BY <1>1, RestingIsNoCall, OneCall DEF ApprovalInv
<1>3. \A u \in Threads : InFlight(u)' => u # t /\ InFlight(u) /\ call'[u] = call[u]
  BY <1>2, RestingIsNoCall DEF InFlight
<1>4. HoldInv'
  BY <1>1, <1>3 DEF ApprovalInv, HoldInv
<1>5. held' \subseteq Payloads /\ doubt' \subseteq Payloads
  BY <1>1 DEF ApprovalInv, TypeOK
<1> QED BY <1>1, <1>4, <1>5, RestingIsNoCall, TransportStep

LEMMA UnansweredStep ==
  ASSUME ApprovalInv, NEW t \in Threads, Unanswered(t)
  PROVE  ApprovalInv'
<1>1. UNCHANGED << allowlist, records, captured, held >> /\ Do(t, Resting)
      /\ doubt' = doubt \cup {call[t].payload} /\ InFlight(t)
  BY DEF Unanswered, InFlight
<1>2. call'[t] = Resting /\ \A u \in Threads : u # t => call'[u] = call[u]
  BY <1>1, RestingIsNoCall, OneCall DEF ApprovalInv
<1>3. \A u \in Threads : InFlight(u)' => u # t /\ InFlight(u) /\ call'[u] = call[u]
  BY <1>2, RestingIsNoCall DEF InFlight
<1>4. HoldInv'
  BY <1>1, <1>3 DEF ApprovalInv, HoldInv
<1>5. held' \subseteq Payloads /\ doubt' \subseteq Payloads
  BY <1>1, <1>4 DEF ApprovalInv, TypeOK, HoldInv
<1> QED BY <1>1, <1>4, <1>5, RestingIsNoCall, TransportStep

LEMMA HoldEndsStep ==
  ASSUME ApprovalInv, HoldEnds
  PROVE  ApprovalInv'
<1>1. PICK m \in doubt : held' = held \ {m} /\ doubt' = doubt \ {m}
  BY DEF HoldEnds
<1>2. UNCHANGED << allowlist, records, captured, call >>
  BY DEF HoldEnds
<1>3. \A r : Authorized(r)' <=> Authorized(r)
  BY <1>2, SameApprovers
<1>4. RegisterInv' /\ CallInv' /\ TypeOK'
  BY <1>1, <1>2, <1>3 DEF ApprovalInv, RegisterInv, CallInv, TypeOK, Released
<1>5. HoldInv'
  BY <1>1, <1>2 DEF ApprovalInv, HoldInv, InFlight
<1> QED BY <1>4, <1>5 DEF ApprovalInv

------------------------------------------------------------------------------
(***************************************************************************)
(* The theorems.                                                           *)
(***************************************************************************)
LEMMA Initially == Init => ApprovalInv
<1> SUFFICES ASSUME Init PROVE ApprovalInv
  OBVIOUS
<1>1. \A t \in Threads : call[t] = Resting
  BY DEF Init
<1>2. TypeOK
  BY KindsAreCalls, SendApprovalAssumption DEF Init, TypeOK
<1>3. RegisterInv
  BY DEF Init, RegisterInv
<1>4. CallInv /\ HoldInv
  BY <1>1, RestingIsNoCall DEF Init, CallInv, HoldInv, InFlight
<1> QED BY <1>2, <1>3, <1>4 DEF ApprovalInv

LEMMA Stepwise == ApprovalInv /\ [Next]_vars => ApprovalInv'
<1> SUFFICES ASSUME ApprovalInv, [Next]_vars PROVE ApprovalInv'
  OBVIOUS
<1>1. ASSUME NEW t \in Threads,
             \/ Compose(t) \/ Capture(t) \/ Floored(t) \/ Take(t) \/ Scanned(t)
             \/ Approve(t) \/ ScanBlocks(t) \/ ScanPasses(t) \/ Reauthorize(t)
             \/ Claim(t) \/ Answered(t) \/ Unanswered(t)
      PROVE  ApprovalInv'
  BY <1>1, GateStep, CaptureStep, EndStep, TakeStep, ApproveStep, ScanBlocksStep,
     ScanPassesStep, ClaimStep, AnsweredStep, UnansweredStep
<1>2. CASE UNCHANGED vars
  <2>1. UNCHANGED << allowlist, records, captured, call, held, doubt >>
    BY <1>2 DEF vars
  <2>2. \A r : Authorized(r)' <=> Authorized(r)
    BY <2>1, SameApprovers
  <2>3. TypeOK' /\ RegisterInv' /\ CallInv' /\ HoldInv'
    BY <2>1, <2>2 DEF ApprovalInv, TypeOK, RegisterInv, CallInv, HoldInv, Released, InFlight
  <2> QED BY <2>3 DEF ApprovalInv
<1> QED BY <1>1, <1>2, ExpireStep, HoldEndsStep DEF Next

\* The inductive invariant: the three parts above, whatever the calls interleave.
THEOREM ApprovalInvariant == Spec => []ApprovalInv
  BY Initially, Stepwise, PTL DEF Spec

\* Every reachable state is well typed (TypeOK), and no capture is in the
\* register twice.
THEOREM TypeCorrect == Spec => []TypeOK
<1>1. ApprovalInv => TypeOK
  BY DEF ApprovalInv
<1> QED BY <1>1, ApprovalInvariant, PTL

\* What reaches the broker was approved by the one who may, for the turn it goes
\* out on (_may_approve, _may_consume), for any people, chats and payloads.
THEOREM ReleaseIsBound == Spec => []ReleasedByRequester
<1>1. ApprovalInv => ReleasedByRequester
  <2> SUFFICES ASSUME ApprovalInv, NEW t \in Threads, call[t].pc = "sending"
               PROVE  LET rec == call[t].rec
                      IN  /\ call[t].payload = rec.payload
                          /\ rec.by.user \in allowlist
                          /\ IF rec.requester.user # NoOne
                             THEN rec.requester = rec.by /\ rec.requester = call[t].turn
                             ELSE Sole \/ rec.requester.chat = rec.by.chat
    BY DEF ReleasedByRequester
  <2> DEFINE rec == call[t].rec
  <2>1. call[t] \in Passed /\ Released(call[t])
    BY CallKinds DEF ApprovalInv, TypeOK, CallInv
  <2>2. /\ rec.requester \in Principals /\ rec.by \in Principals
        /\ call[t].turn \in Principals
    BY <2>1, SendApprovalAssumption DEF Passed, Records
  <2>3. /\ MayApprove(rec.requester, rec.by) /\ rec.by.user \in allowlist
        /\ MayConsume(rec.requester, call[t].turn) /\ call[t].payload = rec.payload
    BY <2>1 DEF Released, Authorized
  <2>4. CASE rec.requester.user # NoOne
    <3>1. /\ rec.requester.user = rec.by.user /\ rec.requester.chat = rec.by.chat
          /\ rec.requester.user = call[t].turn.user /\ rec.requester.chat = call[t].turn.chat
      BY <2>3, <2>4 DEF MayApprove, MayConsume, SameChat
    <3>2. rec.requester = rec.by /\ rec.requester = call[t].turn
      BY <2>2, <3>1, SamePrincipal
    <3> QED BY <2>3, <2>4, <3>2
  <2>5. CASE rec.requester.user = NoOne
    BY <2>3, <2>5 DEF MayApprove, SameChat
  <2> QED BY <2>4, <2>5
<1> QED BY <1>1, ApprovalInvariant, PTL

\* With several approvers no two records wait for the same "yes" (capture,
\* _overlaps), for any people and chats.
THEOREM YesHasOneMeaning == Spec => []OneMeaning
<1>1. ApprovalInv => OneMeaning
  BY ApproversOverlap DEF ApprovalInv, RegisterInv, OneMeaning
<1> QED BY <1>1, ApprovalInvariant, PTL

\* A body in flight or in doubt reaches the broker from nobody else (claim,
\* release), for any number of threads.
THEOREM DoubtIsHeld == Spec => []InDoubtNeverResent
<1>1. ApprovalInv => InDoubtNeverResent
  BY DEF ApprovalInv, HoldInv, InFlight, InDoubtNeverResent
<1> QED BY <1>1, ApprovalInvariant, PTL
==============================================================================
