--------------------------- MODULE Billing_proofs ---------------------------
(***************************************************************************)
(* For any organizations, events, calls and bounds: a settled subscription *)
(* has the status of the newest event.                                     *)
(***************************************************************************)
EXTENDS Billing, TLAPS

-----------------------------------------------------------------------------
\* A slot that is not idle serves an event that was emitted.
LEMMA ReceivedType ==
    ASSUME TypeOK, NEW c \in Calls, call[c].at \in {"reading", "upserting"}
    PROVE  /\ call[c].event \in DOMAIN log
           /\ Received(c) \in Event
<1>1. call[c].event \in DOMAIN log
  BY DEF TypeOK, IdleCall
<1> QED
  BY <1>1 DEF TypeOK, Received

\* A row of the table is a row of its type or none.
LEMMA RowType ==
    ASSUME TypeOK, NEW o \in Orgs
    PROVE  rows[o] \in Row \/ rows[o] = NoRow
BY DEF TypeOK

\* The empty tables.
LEMMA Initially == Init => IInv
<1> SUFFICES ASSUME Init PROVE IInv
  OBVIOUS
<1>1. TypeOK
  <2>1. log \in Seq(Event) /\ Len(log) <= MaxEvents /\ acked \subseteq DOMAIN log
    BY BoundAssumption DEF Init
  <2>2. rows \in [Orgs -> Row \cup {NoRow}]
    BY DEF Init
  <2>3. call \in [Calls -> {IdleCall} \cup [at: {"reading", "upserting"}, event: DOMAIN log]]
    BY DEF Init
  <2>4. overtaken \subseteq Orgs /\ faults \in 0 .. MaxFaults
    BY BoundAssumption DEF Init
  <2> QED
    BY <2>1, <2>2, <2>3, <2>4 DEF TypeOK
<1>2. StatusFollowsEvents
  BY DEF Init, StatusFollowsEvents
<1> QED
  BY <1>1, <1>2 DEF IInv

-----------------------------------------------------------------------------
\* A new event is the newest of its organization, and not answered yet.
LEMMA EmitKeeps == ASSUME IInv, Emit PROVE IInv'
<1> USE DEF IInv
<1>1. PICK e \in Event : log' = Append(log, e)
  BY DEF Emit
<1>2. /\ Len(log') = Len(log) + 1 /\ log' \in Seq(Event)
      /\ DOMAIN log \subseteq DOMAIN log'
      /\ \A k \in DOMAIN log : log'[k] = log[k]
  BY <1>1 DEF TypeOK
<1>3. TypeOK'
  <2>1. Len(log') <= MaxEvents /\ acked \subseteq DOMAIN log'
    BY <1>2, BoundAssumption DEF Emit, TypeOK
  <2>2. call \in [Calls -> {IdleCall} \cup [at: {"reading", "upserting"}, event: DOMAIN log']]
    <3> SUFFICES ASSUME NEW c \in Calls
                 PROVE  call[c] \in {IdleCall} \cup [at: {"reading", "upserting"}, event: DOMAIN log']
      BY DEF TypeOK
    <3> QED
      BY <1>2 DEF TypeOK
  <2> QED
    BY <1>2, <2>1, <2>2 DEF Emit, TypeOK
<1>4. StatusFollowsEvents'
  <2> SUFFICES ASSUME NEW o \in Orgs, NEW k \in acked, Settled(o, k)'
               PROVE  rows[o].status = log'[k].status
    BY DEF Emit, StatusFollowsEvents
  <2>1. k \in DOMAIN log
    BY DEF TypeOK
  <2>2. Settled(o, k)
    BY <1>2, <2>1 DEF Settled, Newest, Emitted, Emit
  <2> QED
    BY <1>2, <2>1, <2>2 DEF StatusFollowsEvents
<1> QED
  BY <1>3, <1>4

\* What neither log, nor the answers, nor the rows change, the properties keep.
LEMMA Untouched ==
    ASSUME IInv, TypeOK', UNCHANGED <<log, acked, rows, overtaken>>
    PROVE  IInv'
BY DEF IInv, StatusFollowsEvents, Settled, Newest, Emitted

LEMMA DeliverKeeps ==
    ASSUME IInv, NEW c \in Calls, NEW k \in 1 .. MaxEvents, Deliver(c, k)
    PROVE  IInv'
<1>1. TypeOK'
  BY DEF IInv, TypeOK, Deliver, Verified
<1> QED
  BY <1>1, Untouched DEF Deliver

\* A slot is freed by a call that failed.
LEMMA CallFailsKeeps ==
    ASSUME IInv, NEW c \in Calls, CallFails(c)
    PROVE  IInv'
<1>1. TypeOK'
  BY BoundAssumption DEF IInv, TypeOK, CallFails, Answer500, Fault
<1> QED
  BY <1>1, Untouched DEF CallFails, Answer500

\* An event is dropped only if the row has its status at that moment.
LEMMA GetSubscriptionKeeps ==
    ASSUME IInv, NEW c \in Calls, GetSubscription(c)
    PROVE  IInv'
<1> USE DEF IInv
<1> DEFINE e == Received(c)
           k == call[c].event
<1>1. k \in DOMAIN log /\ e \in Event /\ e = log[k]
  BY ReceivedType DEF GetSubscription, Received
<1>2. CASE Unchanged(c) /\ Answer200(c) /\ UNCHANGED faults
  <2>1. TypeOK'
    BY <1>1, <1>2 DEF TypeOK, GetSubscription, Answer200
  <2>2. StatusFollowsEvents'
    <3> SUFFICES ASSUME NEW o \in Orgs, NEW n \in acked', Settled(o, n)'
                 PROVE  rows[o].status = log[n].status
      BY DEF GetSubscription, StatusFollowsEvents
    <3>1. CASE n = k
      <4>1. e.org = o
        BY <1>1, <3>1 DEF Settled, Newest, GetSubscription
      <4> QED
        BY <1>1, <1>2, <3>1, <4>1 DEF Unchanged
    <3>2. CASE n # k
      <4>1. Settled(o, n)
        BY <1>2, <3>2 DEF Settled, Newest, Emitted, GetSubscription, Answer200
      <4> QED
        BY <4>1 DEF StatusFollowsEvents, Settled
    <3> QED
      BY <3>1, <3>2
  <2> QED
    BY <2>1, <2>2
<1>3. CASE call' = [call EXCEPT ![c].at = "upserting"] /\ UNCHANGED acked
           /\ (UNCHANGED faults \/ Fault)
  <2>1. call[c] = [at |-> "reading", event |-> k]
    BY DEF TypeOK, GetSubscription, IdleCall
  <2>2. call' = [call EXCEPT ![c] = [at |-> "upserting", event |-> k]]
    <3>1. [call[c] EXCEPT !.at = "upserting"] = [at |-> "upserting", event |-> k]
      BY <2>1
    <3>2. call' = [call EXCEPT ![c] = [call[c] EXCEPT !.at = "upserting"]]
      BY <1>3
    <3> QED
      BY <3>1, <3>2
  <2>3. call' \in [Calls -> {IdleCall} \cup [at: {"reading", "upserting"}, event: DOMAIN log]]
    <3>1. [at |-> "upserting", event |-> k] \in [at: {"reading", "upserting"}, event: DOMAIN log]
      BY <1>1
    <3> QED
      BY <2>2, <3>1 DEF TypeOK
  <2>4. faults' \in 0 .. MaxFaults
    BY <1>3, BoundAssumption DEF TypeOK, Fault
  <2>5. TypeOK'
    BY <1>3, <2>3, <2>4 DEF TypeOK, GetSubscription
  <2> QED
    BY <1>3, <2>5, Untouched DEF GetSubscription
<1> QED
  BY <1>2, <1>3 DEF GetSubscription

-----------------------------------------------------------------------------
\* The upsert writes the whole row, where the payer is vacant; if the newest event
\* was answered before an older one is written, the organization is overtaken.
LEMMA UpsertKeeps ==
    ASSUME IInv, NEW c \in Calls, UpsertSubscriptionByProvider(c)
    PROVE  IInv'
<1> USE DEF IInv
<1> DEFINE e == Received(c)
           o == e.org
           k == call[c].event
           row == [provider |-> ProviderOf(o), payer |-> e.payer,
                   plan |-> e.plan, status |-> e.status]
<1>1. k \in DOMAIN log /\ e \in Event /\ e = log[k] /\ o \in Orgs
  <2>1. k \in DOMAIN log /\ e \in Event /\ e = log[k]
    BY ReceivedType DEF UpsertSubscriptionByProvider, Received
  <2> QED
    BY <2>1 DEF Event
<1>2. CASE /\ Upsertable(o, e.payer)
           /\ rows' = [rows EXCEPT ![o] = row]
           /\ Overtakes(k)
           /\ \/ Answer200(c) /\ UNCHANGED faults
              \/ Answer500(c) /\ Fault
  <2>1. row \in Row
    <3>1. ProviderOf(o) \in {"dodo", "manual"}
      BY <1>1, RowType DEF ProviderOf, Row
    <3> QED
      BY <1>1, <3>1 DEF Row, Event
  <2>2. rows' \in [Orgs -> Row \cup {NoRow}]
    BY <1>1, <1>2, <2>1 DEF TypeOK
  <2>3. faults' \in 0 .. MaxFaults
    BY <1>2, BoundAssumption DEF TypeOK, Fault
  <2>4. acked' \subseteq acked \cup {k}
    BY <1>2 DEF Answer200, Answer500
  <2>5. TypeOK'
    <3>1. call' \in [Calls -> {IdleCall} \cup [at: {"reading", "upserting"}, event: DOMAIN log]]
      BY <1>2 DEF TypeOK, Answer200, Answer500
    <3>2. overtaken' \subseteq Orgs
      BY <1>1, <1>2 DEF TypeOK, Overtakes
    <3> QED
      BY <1>1, <2>2, <2>3, <2>4, <3>1, <3>2 DEF TypeOK, UpsertSubscriptionByProvider
  <2>6. StatusFollowsEvents'
    <3> SUFFICES ASSUME NEW p \in Orgs, NEW n \in acked', Settled(p, n)'
                 PROVE  rows'[p].status = log[n].status
      BY DEF UpsertSubscriptionByProvider, StatusFollowsEvents
    <3>1. Newest(p, n) /\ p \notin overtaken'
      BY DEF Settled, Newest, Emitted, UpsertSubscriptionByProvider
    <3>2. CASE p = o
      <4>1. n \in DOMAIN log /\ log[n].org = o /\ k <= n
        BY <1>1, <3>1, <3>2 DEF Newest, Emitted
      <4>2. n \notin acked \/ ~(k < n)
        BY <1>1, <1>2, <3>1, <3>2, <4>1 DEF Overtakes
      <4>3. n = k
        BY <1>1, <2>4, <4>1, <4>2 DEF TypeOK
      <4>4. rows'[o] = row
        BY <1>1, <1>2 DEF TypeOK
      <4> QED
        BY <1>1, <3>2, <4>3, <4>4
    <3>3. CASE p # o
      <4>1. n # k
        BY <1>1, <3>1, <3>3 DEF Newest
      <4>2. n \in acked /\ p \notin overtaken
        BY <1>1, <1>2, <2>4, <3>1, <3>3, <4>1 DEF Overtakes
      <4>3. rows[p].status = log[n].status
        BY <3>1, <4>2 DEF StatusFollowsEvents, Settled
      <4>4. rows'[p] = rows[p]
        BY <1>1, <1>2, <3>3 DEF TypeOK
      <4> QED
        BY <4>3, <4>4
    <3> QED
      BY <3>2, <3>3
  <2> QED
    BY <2>5, <2>6
<1>3. CASE ~Upsertable(o, e.payer) /\ Answer500(c) /\ UNCHANGED <<rows, overtaken, faults>>
  <2>1. TypeOK'
    BY <1>3 DEF TypeOK, Answer500, UpsertSubscriptionByProvider
  <2> QED
    BY <1>3, <2>1, Untouched DEF Answer500, UpsertSubscriptionByProvider
<1>4. UpsertSubscriptionByProvider(c) =>
          \/ /\ Upsertable(o, e.payer) /\ rows' = [rows EXCEPT ![o] = row] /\ Overtakes(k)
             /\ \/ Answer200(c) /\ UNCHANGED faults
                \/ Answer500(c) /\ Fault
          \/ ~Upsertable(o, e.payer) /\ Answer500(c) /\ UNCHANGED <<rows, overtaken, faults>>
  BY DEF UpsertSubscriptionByProvider
<1> QED
  BY <1>2, <1>3, <1>4

-----------------------------------------------------------------------------
\* A row that a person writes counts as overtaken.
LEMMA PersonKeeps ==
    ASSUME IInv, NEW o \in Orgs, NEW row \in Row,
           rows' = [rows EXCEPT ![o] = row],
           overtaken' = overtaken \cup {o},
           UNCHANGED <<log, acked, call, faults>>
    PROVE  IInv'
<1> USE DEF IInv
<1>1. TypeOK'
  BY DEF TypeOK
<1>2. \A p \in Orgs : p # o => rows'[p] = rows[p]
  BY DEF TypeOK
<1>3. StatusFollowsEvents'
  BY <1>2 DEF StatusFollowsEvents, Settled, Newest, Emitted
<1> QED
  BY <1>1, <1>3

LEMMA CreateKeeps ==
    ASSUME IInv, NEW o \in Orgs, CreateSubscription(o)
    PROVE  IInv'
<1>1. PICK provider \in {"dodo", "manual"}, plan \in Plans, status \in Statuses \cup {""} :
          /\ StatusGiven(status)
          /\ rows' = [rows EXCEPT ![o] =
                [provider |-> provider, payer |-> NoPayer, plan |-> plan, status |-> status]]
  BY DEF CreateSubscription, NewRow
<1>2. [provider |-> provider, payer |-> NoPayer, plan |-> plan, status |-> status] \in Row
  BY <1>1 DEF Row, StatusGiven
<1> QED
  BY <1>1, <1>2, PersonKeeps DEF CreateSubscription

LEMMA UpdateKeeps ==
    ASSUME IInv, NEW o \in Orgs, UpdateSubscription(o)
    PROVE  IInv'
<1>1. PICK plan \in Plans, status \in Statuses \cup {""} :
          /\ StatusGiven(status)
          /\ rows' = [rows EXCEPT ![o] = [rows[o] EXCEPT !.plan = plan, !.status = status]]
  BY DEF UpdateSubscription, Edited
<1> DEFINE row == [rows[o] EXCEPT !.plan = plan, !.status = status]
<1>2. rows[o] \in Row
  BY RowType DEF UpdateSubscription, IInv
<1>3. row \in Row
  BY <1>1, <1>2 DEF Row, StatusGiven
<1>4. rows' = [rows EXCEPT ![o] = row]
  BY <1>1
<1> QED
  BY <1>3, <1>4, PersonKeeps DEF UpdateSubscription

-----------------------------------------------------------------------------
\* The invariant of webhooks and requests, in every state of every behaviour.
THEOREM Invariance == Spec => []IInv
<1>1. IInv /\ [Next]_vars => IInv'
  <2> SUFFICES ASSUME IInv, [Next]_vars PROVE IInv'
    OBVIOUS
  <2>1. CASE Emit
    BY <2>1, EmitKeeps
  <2>2. CASE \E c \in Calls, k \in 1 .. MaxEvents : Deliver(c, k)
    BY <2>2, DeliverKeeps
  <2>3. CASE \E c \in Calls : Process(c) \/ CallFails(c)
    BY <2>3, GetSubscriptionKeeps, UpsertKeeps, CallFailsKeeps DEF Process
  <2>4. CASE \E o \in Orgs : CreateSubscription(o) \/ UpdateSubscription(o)
    BY <2>4, CreateKeeps, UpdateKeeps
  <2>5. CASE UNCHANGED vars
    <3>1. TypeOK'
      BY <2>5 DEF IInv, TypeOK, vars
    <3> QED
      BY <2>5, <3>1, Untouched DEF vars
  <2> QED
    BY <2>1, <2>2, <2>3, <2>4, <2>5 DEF Next
<1> QED
  BY Initially, <1>1, PTL DEF Spec

\* Subscription rows and the records of webhook deliveries keep their types, whatever
\* deliveries and requests do at once.
THEOREM BillingTypes == Spec => []TypeOK
<1>1. IInv => TypeOK
  BY DEF IInv
<1> QED
  BY <1>1, Invariance, PTL

\* A subscription whose newest event is answered, and that neither a person nor an
\* older event has written since, has the status of that event.
THEOREM StatusIsNewest == Spec => []StatusFollowsEvents
<1>1. IInv => StatusFollowsEvents
  BY DEF IInv
<1> QED
  BY <1>1, Invariance, PTL

-----------------------------------------------------------------------------
(* The refinement of Ledger *)

LEMMA StatusOf ==
    ASSUME NEW o \in Orgs, NEW k \in DOMAIN log, log[k].org = o,
           \A p \in Orgs \ {o} : rows'[p].status = rows[p].status,
           rows'[o].status = log[k].status
    PROVE  Promise!Take(k)
BY DEF AbstractStatus, Promise!Take

LEMMA SameStatus ==
    ASSUME rows' = rows
    PROVE  AbstractStatus' = AbstractStatus
BY DEF AbstractStatus

\* What is dropped brings the status that is there.
LEMMA ReadAnswers ==
    ASSUME IInv, NEW c \in Calls, GetSubscription(c)
    PROVE  Promise!GNext \/ UNCHANGED <<log, acked, AbstractStatus>>
<1>1. /\ call[c].event \in DOMAIN log
      /\ Received(c) \in Event /\ rows' = rows /\ log' = log
  BY ReceivedType DEF GetSubscription, IdleCall, IInv
<1>2. CASE Unchanged(c) /\ Answer200(c)
  <2>1. Promise!Take(call[c].event)
    BY <1>1, <1>2, StatusOf DEF Unchanged, Received, Event
  <2>2. Promise!Answer(call[c].event)
    BY <1>1, <1>2, <2>1 DEF Answer200, Promise!Answer
  <2> QED
    BY <1>1, <2>2 DEF Promise!GNext
<1>3. CASE acked' = acked
  BY <1>1, <1>3, SameStatus
<1> QED
  BY <1>2, <1>3 DEF GetSubscription

\* What is written is written to the event's own organization, answered or not.
LEMMA UpsertAnswers ==
    ASSUME IInv, NEW c \in Calls, UpsertSubscriptionByProvider(c)
    PROVE  Promise!GNext \/ UNCHANGED <<log, acked, AbstractStatus>>
<1> DEFINE k == call[c].event
           o == Received(c).org
<1>1. /\ k \in DOMAIN log /\ Received(c) = log[k]
      /\ Received(c) \in Event /\ log' = log
  BY ReceivedType DEF UpsertSubscriptionByProvider, IdleCall, Received, IInv
<1>2. CASE UNCHANGED <<rows, acked>>
  BY <1>1, <1>2, SameStatus
<1>3. CASE /\ rows' = [rows EXCEPT ![o] = [ provider |-> ProviderOf(o), payer |-> Received(c).payer,
                                            plan |-> Received(c).plan, status |-> Received(c).status ]]
           /\ Answer200(c) \/ Answer500(c)
  <2>1. o \in Orgs /\ rows \in [Orgs -> Row \cup {NoRow}]
    BY <1>1 DEF Event, IInv, TypeOK
  <2>2. rows'[o].status = log[k].status /\ \A p \in Orgs \ {o} : rows'[p] = rows[p]
    BY <1>1, <1>3, <2>1
  <2>3. Promise!Take(k)
    BY <1>1, <2>1, <2>2, StatusOf
  <2>4. Promise!Answer(k) \/ Promise!LoseAnswer(k)
    BY <1>1, <1>3, <2>3 DEF Answer200, Answer500, Promise!Answer, Promise!LoseAnswer
  <2> QED
    BY <1>1, <2>4 DEF Promise!GNext
<1> QED
  BY <1>2, <1>3 DEF UpsertSubscriptionByProvider, Answer500

\* POST and PATCH set the status of one organization, and not to nothing.
LEMMA PersonEdits ==
    ASSUME IInv, NEW o \in Orgs, CreateSubscription(o) \/ UpdateSubscription(o)
    PROVE  Promise!GNext
<1>1. rows \in [Orgs -> Row \cup {NoRow}]
  BY DEF IInv, TypeOK
<1>2. PICK status \in Statuses :
         rows'[o].status = status /\ \A p \in Orgs \ {o} : rows'[p] = rows[p]
  <2>1. CASE CreateSubscription(o)
    <3>1. PICK provider \in {"dodo", "manual"}, plan \in Plans, status \in Statuses \cup {""} :
             /\ StatusGiven(status)
             /\ rows' = [rows EXCEPT ![o] = NewRow(provider, plan, status)]
      BY <2>1 DEF CreateSubscription
    <3>2. NewRow(provider, plan, status).status = status
      BY DEF NewRow
    <3> QED
      BY <1>1, <3>1, <3>2 DEF StatusGiven
  <2>2. CASE UpdateSubscription(o)
    <3>1. PICK plan \in Plans, status \in Statuses \cup {""} :
             StatusGiven(status) /\ rows' = [rows EXCEPT ![o] = Edited(o, plan, status)]
      BY <2>2 DEF UpdateSubscription
    <3>2. rows[o] \in Row
      BY <2>2, RowType DEF UpdateSubscription, IInv
    <3>3. Edited(o, plan, status).status = status
      BY <3>2 DEF Edited, Row
    <3> QED
      BY <1>1, <3>1, <3>3 DEF StatusGiven
  <2> QED
    BY <2>1, <2>2
<1>3. Promise!Edit(o, status)
  <2>1. AbstractStatus' = [AbstractStatus EXCEPT ![o] = status]
    BY <1>2 DEF AbstractStatus
  <2> QED
    BY <2>1 DEF CreateSubscription, UpdateSubscription, Promise!Edit
<1> QED
  BY <1>3 DEF Promise!GNext

\* For any events, calls, faults and requests: the two transactions of a webhook are
\* one step that gives the organization the status it acknowledges.
THEOREM WebhooksKeepLedger == Spec => ImplementsLedger
<1>1. Init => Promise!GInit
  <2> SUFFICES ASSUME Init
               PROVE  Promise!GInit
    OBVIOUS
  <2>1. \A o \in Orgs : rows[o].status = ""
    BY DEF Init, NoRow
  <2>2. AbstractStatus = [o \in Orgs |-> ""]
    BY <2>1 DEF AbstractStatus
  <2> QED
    BY <2>2 DEF Init, Promise!GInit
<1>2. IInv /\ [Next]_vars => [Promise!GNext]_(Promise!gvars)
  <2> SUFFICES ASSUME IInv, [Next]_vars
               PROVE  Promise!GNext \/ UNCHANGED <<log, acked, AbstractStatus>>
    BY DEF Promise!gvars
  <2>1. CASE Emit
    <3>1. AbstractStatus' = AbstractStatus
      BY <2>1, SameStatus DEF Emit
    <3> QED
      BY <2>1, <3>1 DEF Emit, Promise!Happen, Promise!GNext
  <2>2. CASE \E c \in Calls, k \in 1 .. MaxEvents : Deliver(c, k)
    BY <2>2, SameStatus DEF Deliver
  <2>3. CASE \E c \in Calls : Process(c)
    BY <2>3, ReadAnswers, UpsertAnswers DEF Process
  <2>4. CASE \E c \in Calls : CallFails(c)
    BY <2>4, SameStatus DEF CallFails, Answer500
  <2>5. CASE \E o \in Orgs : CreateSubscription(o) \/ UpdateSubscription(o)
    BY <2>5, PersonEdits
  <2>6. CASE UNCHANGED vars
    BY <2>6, SameStatus DEF vars
  <2> QED
    BY <2>1, <2>2, <2>3, <2>4, <2>5, <2>6 DEF Next
<1> QED
  BY <1>1, <1>2, Invariance, PTL DEF Spec, ImplementsLedger, Promise!GSpec

=============================================================================
