------------------------------ MODULE Billing ------------------------------
(***************************************************************************)
(* The subscription of an organization, as the payment provider's webhooks *)
(* and the owners' requests write it.                                      *)
(*                                                                         *)
(* The provider (external) sends an event until it is answered 200, may    *)
(* send it again after that, and keeps no order.  ProcessWebhookEvent      *)
(* reads the row in one transaction and upserts it in another; a call may  *)
(* fail before it commits, or commit and be answered 500.                  *)
(***************************************************************************)
EXTENDS Naturals, Sequences

CONSTANTS
    Orgs,         \* organizations
    Payers,       \* subscription and customer ids of the provider
    Plans,        \* plan names (product ids of the provider)
    Statuses,     \* statuses of a subscription; some of them are paid for
    Calls,        \* slots for concurrent webhook calls
    MaxEvents,    \* bound on the events the provider emits
    MaxFaults,    \* bound on the failed calls
    NoPayer

ASSUME BoundAssumption ==
    /\ MaxEvents \in Nat
    /\ MaxFaults \in Nat

ASSUME SentinelAssumption ==
    /\ NoPayer \notin Payers
    /\ "" \notin Statuses

VARIABLES
    log,          \* the events the provider has emitted, oldest first
    acked,        \* the events that were answered 200
    rows,         \* org -> its row of subscriptions
    call,         \* slot -> the webhook call it serves
    overtaken,    \* orgs whose row was last written by an old event or a person
    faults

vars == <<log, acked, rows, call, overtaken, faults>>

-----------------------------------------------------------------------------
Event == [org: Orgs, payer: Payers, plan: Plans, status: Statuses]

NoRow == [provider |-> "none", payer |-> NoPayer, plan |-> "", status |-> ""]

Row == [provider: {"dodo", "manual"}, payer: Payers \cup {NoPayer}, plan: Plans, status: Statuses]

IdleCall == [at |-> "idle", event |-> 0]

TypeOK ==
    /\ log \in Seq(Event) /\ Len(log) <= MaxEvents
    /\ acked \subseteq DOMAIN log
    /\ rows \in [Orgs -> Row \cup {NoRow}]
    /\ call \in [Calls -> {IdleCall} \cup [at: {"reading", "upserting"}, event: DOMAIN log]]
    /\ overtaken \subseteq Orgs
    /\ faults \in 0 .. MaxFaults

Init ==
    /\ log = <<>>
    /\ acked = {}
    /\ rows = [o \in Orgs |-> NoRow]
    /\ call = [c \in Calls |-> IdleCall]
    /\ overtaken = {}
    /\ faults = 0

Fault == faults < MaxFaults /\ faults' = faults + 1

-----------------------------------------------------------------------------
(* The provider *)

Emitted(k) == k \in DOMAIN log

\* Something happens to the subscription of an organization.
Emit ==
    /\ Len(log) < MaxEvents
    /\ \E e \in Event : log' = Append(log, e)
    /\ UNCHANGED <<acked, rows, call, overtaken, faults>>

\* VerifyWebhookSignature lets through what the provider has sent, and not long ago.
Verified(k) == k \in DOMAIN log

\* An event arrives, for the first time or again, and well-formed.
Deliver(c, k) ==
    /\ call[c] = IdleCall
    /\ Verified(k)
    /\ call' = [call EXCEPT ![c] = [at |-> "reading", event |-> k]]
    /\ UNCHANGED <<log, acked, rows, overtaken, faults>>

-----------------------------------------------------------------------------
(* ProcessWebhookEvent *)

Received(c) == log[call[c].event]

Answer200(c) ==
    /\ call' = [call EXCEPT ![c] = IdleCall]
    /\ acked' = acked \cup {call[c].event}

Answer500(c) ==
    /\ call' = [call EXCEPT ![c] = IdleCall]
    /\ UNCHANGED acked

\* existing, _ := GetSubscription: an event that brings the status the row has is
\* answered and dropped; an error of the query reads like a row that is not there.
Unchanged(c) == rows[Received(c).org].status = Received(c).status

GetSubscriptionOrDrop(c) ==
    /\ call[c].at = "reading"
    /\ \/ Unchanged(c) /\ Answer200(c) /\ UNCHANGED faults
       \/ /\ ~Unchanged(c)
          /\ call' = [call EXCEPT ![c].at = "upserting"]
          /\ UNCHANGED <<acked, faults>>
       \/ Answer200(c) /\ Fault
    /\ UNCHANGED <<log, rows, overtaken>>

GetSubscription(c) ==
    /\ call[c].at = "reading"
    /\ \/ Unchanged(c) /\ Answer200(c) /\ UNCHANGED faults
       \/ /\ ~Unchanged(c)
          /\ call' = [call EXCEPT ![c].at = "upserting"]
          /\ UNCHANGED <<acked, faults>>
       \/ /\ call' = [call EXCEPT ![c].at = "upserting"]
          /\ UNCHANGED acked
          /\ Fault
    /\ UNCHANGED <<log, rows, overtaken>>

\* UNIQUE (provider, provider_subscription_id) and (provider, provider_customer_id).
Vacant(o, provider, payer) ==
    \A p \in Orgs \ {o} : rows[p].provider = provider => rows[p].payer # payer

\* INSERT ... ON CONFLICT (organization_id) DO UPDATE: provider keeps its value.
ProviderOf(o) == IF rows[o] = NoRow THEN "dodo" ELSE rows[o].provider

InsertableOnce(o, payer) == rows[o] = NoRow /\ Vacant(o, "dodo", payer)

Upsertable(o, payer) == Vacant(o, ProviderOf(o), payer)

\* The row is written: by the newest event, or by one a newer one has overtaken.
Overtakes(k) ==
    LET o == log[k].org IN
    overtaken' = IF \E n \in acked : k < n /\ log[n].org = o
                 THEN overtaken \cup {o} ELSE overtaken \ {o}

UpsertSubscriptionByProvider(c) ==
    LET e == Received(c)
        o == e.org IN
    /\ call[c].at = "upserting"
    /\ \/ /\ Upsertable(o, e.payer)
          /\ rows' = [rows EXCEPT ![o] = [ provider |-> ProviderOf(o), payer |-> e.payer,
                                           plan |-> e.plan, status |-> e.status ]]
          /\ Overtakes(call[c].event)
          /\ \/ Answer200(c) /\ UNCHANGED faults
             \/ Answer500(c) /\ Fault
       \/ /\ ~Upsertable(o, e.payer)
          /\ Answer500(c)
          /\ UNCHANGED <<rows, overtaken, faults>>
    /\ UNCHANGED log

\* The call fails before it commits, or the process stops.
CallFails(c) ==
    /\ call[c] # IdleCall
    /\ Answer500(c)
    /\ Fault
    /\ UNCHANGED <<log, rows, overtaken>>

-----------------------------------------------------------------------------
(* Requests of a member with billing.write *)

\* POST /billing: 400 without a status, 500 if the organization has a row.
StatusOptional(status) == status \in Statuses \cup {""}

StatusGiven(status) == status # ""

NewRow(provider, plan, status) ==
    [provider |-> provider, payer |-> NoPayer, plan |-> plan, status |-> status]

CreateSubscription(o) ==
    /\ rows[o] = NoRow
    /\ \E provider \in {"dodo", "manual"}, plan \in Plans, status \in Statuses \cup {""} :
          /\ StatusGiven(status)
          /\ rows' = [rows EXCEPT ![o] = NewRow(provider, plan, status)]
    /\ overtaken' = overtaken \cup {o}
    /\ UNCHANGED <<log, acked, call, faults>>

\* The provider and its ids keep their values.
Edited(o, plan, status) == [rows[o] EXCEPT !.plan = plan, !.status = status]

\* PATCH /billing/{id}; the row that is read before is only for the audit record.
UpdateSubscription(o) ==
    /\ rows[o] # NoRow
    /\ \E plan \in Plans, status \in Statuses \cup {""} :
          /\ StatusGiven(status)
          /\ rows' = [rows EXCEPT ![o] = Edited(o, plan, status)]
    /\ overtaken' = overtaken \cup {o}
    /\ UNCHANGED <<log, acked, call, faults>>

-----------------------------------------------------------------------------
Process(c) ==
    GetSubscription(c) \/ UpsertSubscriptionByProvider(c)

Next ==
    \/ Emit
    \/ \E c \in Calls, k \in 1 .. MaxEvents : Deliver(c, k)
    \/ \E c \in Calls : Process(c) \/ CallFails(c)
    \/ \E o \in Orgs : CreateSubscription(o) \/ UpdateSubscription(o)

\* A handler that runs goes on; the provider repeats what was not answered 200,
\* each event on a schedule of its own, and finds a free slot now and then.
Redeliver(k) == k \notin acked /\ \E c \in Calls : Deliver(c, k)

Spec ==
    /\ Init /\ [][Next]_vars
    /\ \A c \in Calls : WF_vars(Process(c))
    /\ \A k \in 1 .. MaxEvents : SF_vars(Redeliver(k))

-----------------------------------------------------------------------------
(* Properties *)

\* The index of the newest event of an organization.
Newest(o, k) == Emitted(k) /\ log[k].org = o /\ \A n \in DOMAIN log : log[n].org = o => n <= k

\* Settled: the newest event was answered 200, and neither a person nor an older
\* event that arrived or committed late has written the row after it.
Settled(o, k) == Newest(o, k) /\ k \in acked /\ o \notin overtaken

\* A settled row has the status of the newest event, although an event that seems
\* to change nothing is dropped on a row read earlier, errors of that read are
\* ignored, and lost answers, repeated and concurrent calls come in between.
StatusFollowsEvents ==
    \A o \in Orgs, k \in acked : Settled(o, k) => rows[o].status = log[k].status

Taken(k) == \E p \in Orgs \ {log[k].org} : rows[p].payer = log[k].payer

\* Every event the provider keeps sending is answered 200 in the end, unless its
\* subscription or customer is on the row of another organization.
EventsAreAnswered ==
    \A k \in 1 .. MaxEvents : Emitted(k) ~> Emitted(k) /\ (k \in acked \/ Taken(k))

\* The row as Ledger sees it.
AbstractStatus == [o \in Orgs |-> rows[o].status]

Promise == INSTANCE Ledger WITH Events <- Event, status <- AbstractStatus

\* The call that decides a 200 is one in which the row of the organization has the
\* status of the event: neither the read before the upsert, nor its ignored errors, nor
\* calls that overlap acknowledge an event that the row does not reflect just then.
ImplementsLedger == Promise!GSpec

\* The invariant every step keeps.
IInv == TypeOK /\ StatusFollowsEvents

-----------------------------------------------------------------------------
(* What the documentation says, and the code does not do *)

Paid == Statuses \cap {"active", "trialing"}

\* resolvePlan: the plan the entitlements of an organization are computed from.
ResolvePlan(o) == IF rows[o].status \in Paid THEN rows[o].plan ELSE "free"

\* "Webhook: idempotent (upsert ...)": an organization whose newest event is
\* answered, with nothing out of order, is entitled to the plan it names.
PlanFollowsEvents ==
    \A o \in Orgs, k \in acked :
        Settled(o, k) /\ log[k].status \in Paid => ResolvePlan(o) = log[k].plan
=============================================================================
