------------------------------ MODULE Buckets ------------------------------
(***************************************************************************)
(* What a rate limit promises: every key has one bucket of Burst tokens    *)
(* that refills at a constant rate, and a request passes exactly when it   *)
(* takes a token.  Buckets are never dropped, replaced or shared.          *)
(* RateLimit implements it although it drops the buckets of idle keys.     *)
(***************************************************************************)
EXTENDS Naturals

CONSTANTS
    Keys,       \* what is limited: client addresses and user ids
    Requests,   \* requests at a time
    Burst       \* tokens of a full bucket

VARIABLES
    level,      \* key -> tokens left
    verdict     \* request -> what it was told

bvars == <<level, verdict>>

BInit ==
    /\ level = [k \in Keys |-> Burst]
    /\ verdict = [r \in Requests |-> "none"]

\* The time it takes one token to refill passes.
Refill ==
    /\ level' = [k \in Keys |-> IF level[k] < Burst THEN level[k] + 1 ELSE Burst]
    /\ UNCHANGED verdict

\* A request takes a token of its key's bucket, or is refused at an empty one.
Pass(r, k) ==
    /\ verdict[r] = "none"
    /\ level[k] > 0
    /\ level' = [level EXCEPT ![k] = @ - 1]
    /\ verdict' = [verdict EXCEPT ![r] = "allowed"]

Turn(r, k) ==
    /\ verdict[r] = "none"
    /\ level[k] = 0
    /\ verdict' = [verdict EXCEPT ![r] = "refused"]
    /\ UNCHANGED level

\* The request ends.
Forget(r) ==
    /\ verdict' = [verdict EXCEPT ![r] = "none"]
    /\ UNCHANGED level

\* The process that holds the buckets restarts.
Reset ==
    /\ level' = [k \in Keys |-> Burst]
    /\ verdict' = [r \in Requests |-> "none"]

BNext ==
    \/ Refill
    \/ Reset
    \/ \E r \in Requests : Forget(r) \/ \E k \in Keys : Pass(r, k) \/ Turn(r, k)

BSpec == BInit /\ [][BNext]_bvars
=============================================================================
