----------------------------- MODULE TokenBucket ----------------------------
(***************************************************************************)
(* The limit a client is promised: a bucket of Burst tokens that fills at  *)
(* Rate and is remembered for as long as the client never stays away for   *)
(* more than Interval.  No map, and no moment of a collection.             *)
(***************************************************************************)
EXTENDS Integers

CONSTANTS Clients, Rate, Burst, Cost, Interval

VARIABLES
    now,
    level,    \* what each client's bucket holds now
    asked,    \* when a client last asked, or 0 if it is new
    granted   \* whether the last request of a client was let through

vars == <<now, level, asked, granted>>

Capped(tokens) == IF tokens < Burst THEN tokens ELSE Burst

Init ==
    /\ now = 0
    /\ level = [c \in Clients |-> Burst]
    /\ asked = [c \in Clients |-> 0]
    /\ granted = [c \in Clients |-> TRUE]

\* Clients that may be forgotten.
Away == {c \in Clients : now - asked[c] > Interval}

\* A request may be the occasion to forget some who stayed away, the one who
\* asks included: they are new again, with a full bucket.
Request(c) ==
    \E forgotten \in SUBSET Away :
        LET holds == IF c \in forgotten THEN Burst ELSE level[c] IN
        /\ granted' = [granted EXCEPT ![c] = holds >= Cost]
        /\ level' = [d \in Clients |->
               IF d = c THEN IF holds >= Cost THEN holds - Cost ELSE holds
               ELSE IF d \in forgotten THEN Burst ELSE level[d]]
        /\ asked' = [d \in Clients |->
               IF d = c THEN now ELSE IF d \in forgotten THEN 0 ELSE asked[d]]
        /\ UNCHANGED now

Pass ==
    /\ now' = now + 1
    /\ level' = [c \in Clients |-> Capped(level[c] + Rate)]
    /\ UNCHANGED <<asked, granted>>

Next == Pass \/ \E c \in Clients : Request(c)

Spec == Init /\ [][Next]_vars
=============================================================================
