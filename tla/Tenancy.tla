------------------------------ MODULE Tenancy ------------------------------
(***************************************************************************)
(* What tenant provisioning promises, as if every operation were one step: *)
(* a person belongs to at most one organization and stays there, an        *)
(* organization has one founder, the first member, and a ticket (the       *)
(* abstract invitation) admits one person, with its role, to the           *)
(* organization that issued it.  Provisioning implements it.               *)
(***************************************************************************)
CONSTANTS
    Subjects,    \* people
    Orgs,        \* organizations
    Tokens,      \* tickets
    RoleNames,   \* role names, "owner" among them
    NoOrg        \* the organization of somebody who has none

VARIABLES
    tenants,     \* the organizations that exist
    member,      \* person -> organization and role names
    ticket,      \* ticket -> organization and role it admits to
    spent        \* the tickets that have admitted somebody

tvars == <<tenants, member, ticket, spent>>

Outsider == [org |-> NoOrg, roles |-> {}]
Unissued == [org |-> NoOrg, role |-> "none"]

Populated(o) == \E s \in Subjects : member[s].org = o

TInit ==
    /\ tenants = {}
    /\ member = [s \in Subjects |-> Outsider]
    /\ ticket = [t \in Tokens |-> Unissued]
    /\ spent = {}

\* An organization comes into being, empty.
Open(o) ==
    /\ o \notin tenants
    /\ tenants' = tenants \cup {o}
    /\ UNCHANGED <<member, ticket, spent>>

\* An outsider becomes the first member of an empty organization, its owner.
Found(s, o) ==
    /\ o \in tenants
    /\ ~Populated(o)
    /\ member[s] = Outsider
    /\ member' = [member EXCEPT ![s] = [org |-> o, roles |-> {"owner"}]]
    /\ UNCHANGED <<tenants, ticket, spent>>

\* A populated organization issues a ticket.
Issue(t, o, name) ==
    /\ ticket[t] = Unissued
    /\ Populated(o)
    /\ ticket' = [ticket EXCEPT ![t] = [org |-> o, role |-> name]]
    /\ UNCHANGED <<tenants, member, spent>>

\* An outsider enters with a ticket nobody has used.
Admit(s, t) ==
    /\ ticket[t] # Unissued
    /\ t \notin spent
    /\ member[s] = Outsider
    /\ member' = [member EXCEPT ![s] = [org |-> ticket[t].org, roles |-> {ticket[t].role}]]
    /\ spent' = spent \cup {t}
    /\ UNCHANGED <<tenants, ticket>>

\* An outsider is entered by a populated organization, without a role.
Enter(s, o) ==
    /\ Populated(o)
    /\ member[s] = Outsider
    /\ member' = [member EXCEPT ![s] = [org |-> o, roles |-> {}]]
    /\ UNCHANGED <<tenants, ticket, spent>>

TNext ==
    \/ \E o \in Orgs : Open(o)
    \/ \E s \in Subjects, o \in Orgs : Found(s, o) \/ Enter(s, o)
    \/ \E t \in Tokens, o \in Orgs, name \in RoleNames : Issue(t, o, name)
    \/ \E s \in Subjects, t \in Tokens : Admit(s, t)

TSpec == TInit /\ [][TNext]_tvars
=============================================================================
