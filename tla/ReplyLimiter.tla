----------------------------- MODULE ReplyLimiter -----------------------------
(***************************************************************************)
(* The rate limiter of the reply channel (relay.RateLimiter) under an      *)
(* authored policy that changes while it is used: the firm rewrites its    *)
(* send_policy block at any time, each caller resolves the block before it *)
(* asks the limiter (shared/send_policy.live_send_policy), and the answer  *)
(* is given later, under the limiter's lock, with the policy that caller   *)
(* read.  A caller is a relay turn or a sweeper pass; it may ask several   *)
(* times under one reading, as a pass does.                                *)
(***************************************************************************)
EXTENDS SendLimits, FiniteSets

CONSTANTS Callers,   \* threads that ask the limiter
          Internal,  \* the recipients the roster classes INTERNAL
          Policies,  \* the well-formed blocks the firm may author
          Default,   \* DEFAULT_SEND_POLICY
          Malformed, \* a block with a fault in any field, or one that cannot be read
          MaxSent    \* bound: sends inside the longest window

ASSUME LimiterAssumption ==
    /\ Policies \subseteq Policy
    /\ Default \in Policies
    /\ Malformed \notin Policies
    /\ Internal \subseteq Recipients
    /\ MaxSent \in Nat

VARIABLES authored, \* the block on the volume
          reading,  \* the block each caller read
          lim,      \* the windows
          log,      \* history: the sends the limiter allowed, oldest first
          last      \* history: the decision just made, NoDecision otherwise

limiterVars == << authored, reading, lim, log, last >>

NoDecision == [verdict |-> "none"]

\* resolve_send_policy: any fault resolves the whole block to the default.
Resolve(block) == IF block = Malformed THEN Default ELSE block

LimiterInit == /\ authored = Default
               /\ reading = [c \in Callers |-> Default]
               /\ lim = NoStamps
               /\ log = << >>
               /\ last = NoDecision

\* The firm writes its block, well or badly.
Author(block) == /\ block # authored
                 /\ authored' = block
                 /\ last' = NoDecision
                 /\ UNCHANGED << reading, lim, log >>

\* A caller reads the block, live.
Read(c) == /\ reading[c] # authored
           /\ reading' = [reading EXCEPT ![c] = authored]
           /\ last' = NoDecision
           /\ UNCHANGED << authored, lim, log >>

\* One call of check.
Check(c, r) ==
    /\ Len(log) < MaxSent
    /\ LET p        == Resolve(reading[c])
           internal == r \in Internal
           verdict  == Verdict(lim, r, internal, p)
       IN  /\ lim' = AfterCheck(lim, r, internal, p)
           /\ log' = IF verdict = "allowed"
                     THEN Append(log, [to |-> r, exempt |-> Exempt(internal, p), age |-> 0])
                     ELSE log
           /\ last' = [verdict |-> verdict, to |-> r, policy |-> p,
                       exempt |-> Exempt(internal, p)]
    /\ UNCHANGED << authored, reading >>

\* One clock step; a send older than every window is of no further interest.
Tick ==
    /\ lim' = Aged(lim)
    /\ LET forgotten == Popped(AgedWindow([i \in DOMAIN log |-> log[i].age]), Horizon)
       IN  log' = [i \in 1 .. Len(log) - forgotten |->
                      [log[i + forgotten] EXCEPT !.age = Older(@)]]
    /\ last' = NoDecision
    /\ UNCHANGED << authored, reading >>

LimiterNext == \/ \E block \in Policies \cup {Malformed} : Author(block)
               \/ \E c \in Callers : Read(c)
               \/ \E c \in Callers, r \in Recipients : Check(c, r)
               \/ Tick

LimiterSpec == LimiterInit /\ [][LimiterNext]_limiterVars

-------------------------------------------------------------------------------
(***************************************************************************)
(* Properties.                                                             *)
(***************************************************************************)
\* The sends each window bounds, and those of them no older than W.
SeatSends      == DOMAIN log
GlobalSends    == {i \in DOMAIN log : ~log[i].exempt}
SenderSends(r) == {i \in GlobalSends : log[i].to = r}
Within(sends, W) == Cardinality({i \in sends : log[i].age <= W})

\* RateLimiter.check bounds what it allows: while every policy has the same
\* windows, a send allowed under a policy leaves no window of that policy over
\* its cap, counting every send of every caller, whatever policy admitted it.
CapsHold ==
    LET p == last.policy IN
    last.verdict = "allowed" =>
        /\ p.backstopMax > 0 => Within(SeatSends, p.backstopWindow) <= p.backstopMax
        /\ ~last.exempt => /\ Within(GlobalSends, p.globalWindow) <= p.globalMax
                           /\ Within(SenderSends(last.to), p.perSenderWindow) <= p.perSenderMax

\* RateLimiter.check refuses only a send that would go over a cap: the window
\* it names is full of sends that were really allowed, so neither a refused nor
\* an exempt send consumes an outside sender's capacity.
RefusalJustified ==
    LET p == last.policy IN
    /\ last.verdict = "rate_limited_backstop" =>
          p.backstopMax > 0 /\ Within(SeatSends, p.backstopWindow) >= p.backstopMax
    /\ last.verdict = "rate_limited_global" =>
          Within(GlobalSends, p.globalWindow) >= p.globalMax
    /\ last.verdict = "rate_limited_per_sender" =>
          Within(SenderSends(last.to), p.perSenderWindow) >= p.perSenderMax

-------------------------------------------------------------------------------
(***************************************************************************)
(* What the proofs rest on.                                                *)
(***************************************************************************)

\* A firm that changes its caps and exemptions keeps its windows.
SameWindows ==
    \A p, q \in Policies : /\ p.backstopWindow = q.backstopWindow
                           /\ p.globalWindow = q.globalWindow
                           /\ p.perSenderWindow = q.perSenderWindow

\* A window has no stamp of its age that no send left; and, while nobody evicts
\* by a shorter window, one for every send that is no older than W.
Stamps(window, a) == Cardinality({i \in DOMAIN window : window[i] <= a})
Agrees(window, sends, W) ==
    \A a \in 0 .. Horizon : /\ Stamps(window, a) <= Within(sends, a)
                            /\ SameWindows /\ a <= W => Stamps(window, a) = Within(sends, a)

\* Stamps are in order, so that what _evict leaves is what the window counts.
InOrder(window) == \A i, j \in DOMAIN window : i <= j => window[j] <= window[i]

LimiterType ==
    /\ authored \in Policies \cup {Malformed}
    /\ reading \in [Callers -> Policies \cup {Malformed}]
    /\ lim \in Limiter
    /\ log \in Seq([to : Recipients, exempt : BOOLEAN, age : Ages])
LimiterInv ==
    /\ LimiterType
    /\ InOrder(lim.backstop) /\ InOrder(lim.global)
    /\ Agrees(lim.backstop, SeatSends, Default.backstopWindow)
    /\ Agrees(lim.global, GlobalSends, Default.globalWindow)
    /\ \A r \in Recipients : /\ InOrder(lim.perSender[r])
                             /\ Agrees(lim.perSender[r], SenderSends(r), Default.perSenderWindow)
===============================================================================
