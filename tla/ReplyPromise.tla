---------------------------- MODULE ReplyPromise ----------------------------
(***************************************************************************)
(* What the reply channel promises the person who wrote in, with nothing   *)
(* of how: an email is answered at most once, either at once or out of the *)
(* held queue, and a queued reply that was given up (expired, failed or    *)
(* interrupted) is never sent later.                                       *)
(***************************************************************************)
EXTENDS Naturals

CONSTANT Messages

VARIABLES fate,   \* what became of the reply to each email
          copies  \* how many copies of it the transport has carried

pvars == << fate, copies >>

Fates == {"unanswered", "queued", "answered", "closed"}

Init == /\ fate = [m \in Messages |-> "unanswered"]
        /\ copies = [m \in Messages |-> 0]

\* The reply is durably queued for automatic release.
Queue(m) == /\ fate[m] = "unanswered"
            /\ fate' = [fate EXCEPT ![m] = "queued"]
            /\ UNCHANGED copies

\* The one copy is carried.
Answer(m) == /\ fate[m] \in {"unanswered", "queued"}
             /\ fate' = [fate EXCEPT ![m] = "answered"]
             /\ copies' = [copies EXCEPT ![m] = @ + 1]

\* A queued reply is given up.
Close(m) == /\ fate[m] = "queued"
            /\ fate' = [fate EXCEPT ![m] = "closed"]
            /\ UNCHANGED copies

\* A boot gives up, at once, any set of queued replies.
CloseAll(S) == /\ \A m \in S : fate[m] = "queued"
               /\ fate' = [m \in Messages |-> IF m \in S THEN "closed" ELSE fate[m]]
               /\ UNCHANGED copies

Next == \/ \E m \in Messages : Queue(m) \/ Answer(m) \/ Close(m)
        \/ \E S \in SUBSET Messages : CloseAll(S)

Spec == Init /\ [][Next]_pvars
===============================================================================
