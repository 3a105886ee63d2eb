------------------------------ MODULE SendLimits ------------------------------
(***************************************************************************)
(* The reply channel's rate windows: relay.RateLimiter.check under an      *)
(* authored send policy (plugins/hermes-smd-reply/relay.py,                *)
(* shared/send_policy.py).                                                 *)
(*                                                                         *)
(* A window is the deque of send stamps the limiter keeps.  A stamp is     *)
(* held as its AGE, so that time can pass for ever in a finite state       *)
(* space: a clock step adds one to every age, and an age past the longest  *)
(* window any policy names (Horizon) stays where it is, because every      *)
(* policy evicts it.  Stamps are appended with age 0, so a window is in    *)
(* order of decreasing age, as the deque is in order of time.              *)
(***************************************************************************)
EXTENDS Naturals, Sequences

CONSTANTS Recipients, \* the addresses replies are delivered to
          Horizon     \* the longest window of any policy, in clock steps

ASSUME HorizonAssumption == Horizon \in Nat

Ages == 0 .. Horizon + 1

\* A resolved shared/send_policy.SendPolicy, the fields the limiter reads.
Policy == [internalExempt : BOOLEAN,
           perSenderMax   : Nat,  perSenderWindow : 1 .. Horizon,
           globalMax      : Nat,  globalWindow    : 1 .. Horizon,
           backstopMax    : Nat,  backstopWindow  : 1 .. Horizon]

Limiter == [perSender : [Recipients -> Seq(Ages)],
            global    : Seq(Ages),
            backstop  : Seq(Ages)]

NoStamps == [perSender |-> [r \in Recipients |-> << >>],
             global    |-> << >>,
             backstop  |-> << >>]

\* _evict pops from the left while window[0] < now - W: it keeps an age of
\* exactly W.
Popped(window, W) == CHOOSE k \in 0 .. Len(window) :
    /\ \A i \in 1 .. k : window[i] > W
    /\ k < Len(window) => window[k + 1] <= W
Evict(window, W) == SubSeq(window, Popped(window, W) + 1, Len(window))

Exempt(internal, p) == internal /\ p.internalExempt

\* The decision of one check, in the order the code takes its early returns.
Verdict(lim, r, internal, p) ==
    IF /\ p.backstopMax > 0
       /\ Len(Evict(lim.backstop, p.backstopWindow)) >= p.backstopMax
    THEN "rate_limited_backstop"
    ELSE IF Exempt(internal, p)
    THEN "allowed"
    ELSE IF Len(Evict(lim.global, p.globalWindow)) >= p.globalMax
    THEN "rate_limited_global"
    ELSE IF Len(Evict(lim.perSender[r], p.perSenderWindow)) >= p.perSenderMax
    THEN "rate_limited_per_sender"
    ELSE "allowed"

\* Mutant of AfterCheck: an exempt send leaves no stamp, not even in the backstop.
AfterCheckExemptUnstamped(lim, r, internal, p) ==
    LET verdict    == Verdict(lim, r, internal, p)
        stamp      == IF verdict = "allowed" /\ ~Exempt(internal, p)
                      THEN << 0 >> ELSE << >>
        sawGlobal  == verdict # "rate_limited_backstop" /\ ~Exempt(internal, p)
        sawSender  == sawGlobal /\ verdict # "rate_limited_global"
    IN  [perSender |-> IF sawSender
                       THEN [lim.perSender EXCEPT
                               ![r] = Evict(@, p.perSenderWindow) \o stamp]
                       ELSE lim.perSender,
         global    |-> IF sawGlobal
                       THEN Evict(lim.global, p.globalWindow) \o stamp
                       ELSE lim.global,
         backstop  |-> Evict(lim.backstop, p.backstopWindow) \o stamp]

\* Mutant of AfterCheck: an exempt send is stamped in the seat window too.
AfterCheckExemptCounted(lim, r, internal, p) ==
    LET verdict    == Verdict(lim, r, internal, p)
        stamp      == IF verdict = "allowed" THEN << 0 >> ELSE << >>
        sawSender  == /\ verdict \in {"allowed", "rate_limited_per_sender"}
                      /\ ~Exempt(internal, p)
    IN  [perSender |-> IF sawSender
                       THEN [lim.perSender EXCEPT
                               ![r] = Evict(@, p.perSenderWindow) \o stamp]
                       ELSE lim.perSender,
         global    |-> Evict(lim.global, p.globalWindow) \o stamp,
         backstop  |-> Evict(lim.backstop, p.backstopWindow) \o stamp]

\* What a check leaves in the windows.  Every window the check looked at has
\* been evicted, an allowed send is stamped in each window that bounds it, and
\* an exempt send is stamped in the backstop alone.
AfterCheck(lim, r, internal, p) ==
    LET verdict    == Verdict(lim, r, internal, p)
        stamp      == IF verdict = "allowed" THEN << 0 >> ELSE << >>
        sawGlobal  == verdict # "rate_limited_backstop" /\ ~Exempt(internal, p)
        sawSender  == sawGlobal /\ verdict # "rate_limited_global"
    IN  [perSender |-> IF sawSender
                       THEN [lim.perSender EXCEPT
                               ![r] = Evict(@, p.perSenderWindow) \o stamp]
                       ELSE lim.perSender,
         global    |-> IF sawGlobal
                       THEN Evict(lim.global, p.globalWindow) \o stamp
                       ELSE lim.global,
         backstop  |-> Evict(lim.backstop, p.backstopWindow) \o stamp]

Older(age) == IF age > Horizon THEN age ELSE age + 1

AgedWindow(window) == [i \in DOMAIN window |-> Older(window[i])]

\* One clock step over every window.
Aged(lim) == [perSender |-> [r \in Recipients |-> AgedWindow(lim.perSender[r])],
              global    |-> AgedWindow(lim.global),
              backstop  |-> AgedWindow(lim.backstop)]
===============================================================================
