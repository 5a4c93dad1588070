----------------------------- MODULE Migration -----------------------------
(***************************************************************************)
(* database.Migrate, which every instance of the server runs when it       *)
(* starts, against the one database.                                       *)
(*                                                                         *)
(* A migration file is applied by one call (one transaction) and recorded  *)
(* in schema_migrations by another; no lock keeps two instances apart.     *)
(* Any call may lose its connection, any instance may be stopped, and the  *)
(* container restarts it.                                                  *)
(***************************************************************************)
EXTENDS Naturals

CONSTANTS
    N,            \* number of migration files; file f is the f-th in name order
    Idempotent,   \* files whose SQL succeeds on a schema that already has it
    Instances,    \* instances of the server
    MaxFaults     \* bound on the lost connections and stops

ASSUME MigrationAssumption ==
    /\ N \in Nat
    /\ MaxFaults \in Nat

VARIABLES
    schema,       \* files whose SQL the database has committed
    recorded,     \* files in schema_migrations
    inst,         \* instance -> where it is, the versions it read, its loop index
    faults        \* faults so far

vars == <<schema, recorded, inst, faults>>

Files == 1 .. N

Phases == {"down", "starting", "migrating", "recording", "serving"}

Down == [at |-> "down", applied |-> {}, file |-> 1]

TypeOK ==
    /\ schema \subseteq Files
    /\ recorded \subseteq Files
    /\ inst \in [Instances -> [at: Phases, applied: SUBSET Files, file: 1 .. N + 1]]
    /\ faults \in 0 .. MaxFaults

Init ==
    /\ schema = {}
    /\ recorded = {}
    /\ inst = [i \in Instances |-> Down]
    /\ faults = 0

-----------------------------------------------------------------------------

LogAndHang(i) == UNCHANGED inst

\* An error of New is a panic in main: the process ends, the container restarts.
Exit(i) == inst' = [inst EXCEPT ![i] = Down]

Fault == faults < MaxFaults /\ faults' = faults + 1

\* A call has committed: it returns, or its connection is lost and Migrate fails.
Returns(i, state) ==
    \/ inst' = [inst EXCEPT ![i] = state] /\ UNCHANGED faults
    \/ Exit(i) /\ Fault

\* The files the loop still has to apply, and the one it applies next.
Pending(i) == (inst[i].file .. N) \ inst[i].applied
UnsortedCurrent(i, f) == f \in Pending(i)

Current(i, f) == f \in Pending(i) /\ \A g \in Pending(i) : f <= g

\* The process starts, connects and creates schema_migrations if there is none.
Boot(i) ==
    /\ inst[i].at = "down"
    /\ inst' = [inst EXCEPT ![i].at = "starting"]
    /\ UNCHANGED <<schema, recorded, faults>>

\* SELECT version ORDER BY version. rows.Err() is not looked at: a connection
\* that breaks during the scan leaves the versions read so far.
ReadApplied(i) ==
    /\ inst[i].at = "starting"
    /\ \/ /\ inst' = [inst EXCEPT ![i] = [at |-> "migrating", applied |-> recorded, file |-> 1]]
          /\ UNCHANGED faults
       \/ /\ \E last \in 0 .. N :
                inst' = [inst EXCEPT ![i] =
                    [at |-> "migrating", applied |-> {f \in recorded : f <= last}, file |-> 1]]
          /\ Fault
    /\ UNCHANGED <<schema, recorded>>

\* pool.Exec(sql): the statements of the file, all or nothing.
Apply(i) ==
    /\ inst[i].at = "migrating"
    /\ \E f \in Files :
          /\ Current(i, f)
          /\ f \notin schema \/ f \in Idempotent
          /\ schema' = schema \cup {f}
          /\ Returns(i, [inst[i] EXCEPT !.at = "recording", !.file = f])
    /\ UNCHANGED recorded

\* The file creates what already exists.
ApplyFails(i) ==
    /\ inst[i].at = "migrating"
    /\ \E f \in schema \ Idempotent : Current(i, f)
    /\ Exit(i)
    /\ UNCHANGED <<schema, recorded, faults>>

\* The index the loop goes on from.
SkipOne(i) == inst[i].file + 2

BreakAfterOne(i) == N + 1

NextFile(i) == inst[i].file + 1

\* INSERT INTO schema_migrations, a call of its own; version is its primary key.
Record(i) ==
    /\ inst[i].at = "recording"
    /\ inst[i].file \notin recorded
    /\ recorded' = recorded \cup {inst[i].file}
    /\ Returns(i, [inst[i] EXCEPT !.at = "migrating", !.file = NextFile(i)])
    /\ UNCHANGED schema

RecordFails(i) ==
    /\ inst[i].at = "recording"
    /\ inst[i].file \in recorded
    /\ Exit(i)
    /\ UNCHANGED <<schema, recorded, faults>>

\* Migrate returns nil: the server starts.
Serve(i) ==
    /\ inst[i].at = "migrating"
    /\ Pending(i) = {}
    /\ inst' = [inst EXCEPT ![i].at = "serving"]
    /\ UNCHANGED <<schema, recorded, faults>>

\* A crash, a stop, or a call that fails before it does anything.
Stop(i) ==
    /\ inst[i].at # "down"
    /\ Exit(i)
    /\ Fault
    /\ UNCHANGED <<schema, recorded>>

Migrate(i) ==
    \/ ReadApplied(i) \/ Apply(i) \/ ApplyFails(i) \/ Record(i) \/ RecordFails(i) \/ Serve(i)

Next == \E i \in Instances : Boot(i) \/ Migrate(i) \/ Stop(i)

\* "restart: always" brings a stopped container back, and a running one goes on.
Spec == Init /\ [][Next]_vars /\ \A i \in Instances : WF_vars(Boot(i)) /\ WF_vars(Migrate(i))

-----------------------------------------------------------------------------
(* Properties *)

\* Whatever instances race or restart, the schema and its record are the first
\* files in order, without a gap, and only what is committed is recorded.
AppliedInOrder ==
    /\ recorded \subseteq schema
    /\ \A f \in schema, g \in Files : g < f => g \in recorded

\* An instance that serves runs on the whole schema, whoever applied it.
ServingIsMigrated ==
    \A i \in Instances : inst[i].at = "serving" => schema = Files /\ recorded = Files

\* What an instance has read and passed over is recorded, and what it is about to
\* record is committed: the part of the invariant that its next step relies on.
Grounded(i) ==
    /\ inst[i].at \in {"migrating", "recording"} =>
          inst[i].applied \cup (1 .. inst[i].file - 1) \subseteq recorded
    /\ inst[i].at = "recording" => inst[i].file \in schema
    /\ inst[i].at = "serving" => recorded = Files

IInv == TypeOK /\ AppliedInOrder /\ \A i \in Instances : Grounded(i)

\* A file that cannot run twice is committed and not recorded, and the instance
\* that committed it is gone: every start now fails at it.
Stranded ==
    \E f \in schema \ (recorded \cup Idempotent) :
        \A i \in Instances : ~(inst[i].at = "recording" /\ inst[i].file = f)

AllServe == \A i \in Instances : inst[i].at = "serving"

\* Races between starting instances and faults anywhere else are survived: every
\* instance ends up serving, unless a stop hits the gap between the two calls.
RecoversUnlessStranded == <>[]AllServe \/ <>Stranded

NoneServes == \A i \in Instances : inst[i].at # "serving"

\* A stop in that gap is never survived: from then on no instance serves, neither
\* one that is migrating already nor one that starts later, however often.
StrandedIsForever == [](Stranded => []NoneServes)

\* "Migration failure at step 5, container exits, Docker restarts, retries."
RestartRecovers == <>[]AllServe
=============================================================================
