------------------------------- MODULE Ledger -------------------------------
(***************************************************************************)
(* What the webhooks of the payment provider promise: to answer an event   *)
(* is to give its organization the status it brings, in one step.  A       *)
(* repeated event does so again, an answer may get lost after the status   *)
(* was given, and a person may set a status in between.  An event touches  *)
(* no other organization.  Billing implements it, although it decides on a *)
(* row that it has read before.                                            *)
(***************************************************************************)
EXTENDS Naturals, Sequences

CONSTANTS
    Orgs, Statuses,
    Events       \* what the provider may tell of an organization

VARIABLES
    log,         \* the events of the provider, oldest first
    acked,       \* the events that were answered
    status       \* organization -> its status, "" before it has one

gvars == <<log, acked, status>>

GInit ==
    /\ log = <<>>
    /\ acked = {}
    /\ status = [o \in Orgs |-> ""]

Happen ==
    /\ \E e \in Events : log' = Append(log, e)
    /\ UNCHANGED <<acked, status>>

\* The organization of an event has the status it brings from here on.
Take(k) == status' = [status EXCEPT ![log[k].org] = log[k].status]

Answer(k) ==
    /\ Take(k)
    /\ acked' = acked \cup {k}
    /\ UNCHANGED log

\* The answer is lost: the provider sends the event again.
LoseAnswer(k) ==
    /\ Take(k)
    /\ UNCHANGED <<log, acked>>

\* A person sets the status of the own organization.
Edit(o, s) ==
    /\ status' = [status EXCEPT ![o] = s]
    /\ UNCHANGED <<log, acked>>

GNext ==
    \/ Happen
    \/ \E k \in DOMAIN log : Answer(k) \/ LoseAnswer(k)
    \/ \E o \in Orgs, s \in Statuses : Edit(o, s)

GSpec == GInit /\ [][GNext]_gvars
=============================================================================
