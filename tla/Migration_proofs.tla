-------------------------- MODULE Migration_proofs --------------------------
(***************************************************************************)
(* The safety of database.Migrate for any number of files, instances and   *)
(* faults, and whichever files can be run twice: schema and record grow    *)
(* together, in order, and an instance never passes over a file that is    *)
(* not recorded.                                                           *)
(***************************************************************************)
EXTENDS Migration, TLAPS

LEMMA InitInv == Init => IInv
  BY MigrationAssumption DEF Init, IInv, TypeOK, AppliedInOrder, Grounded, Down, Files, Phases

\* Schema and record only grow, and one instance changes: the others stay grounded.
LEMMA OthersGrounded ==
    ASSUME IInv, NEW i \in Instances, NEW state, inst' = [inst EXCEPT ![i] = state],
           state \in [at: Phases, applied: SUBSET Files, file: 1 .. N + 1],
           faults' \in 0 .. MaxFaults,
           schema \subseteq schema', recorded \subseteq recorded', AppliedInOrder',
           schema' \subseteq Files, Grounded(i)'
    PROVE  IInv'
  <1>1. TypeOK'
    BY DEF IInv, TypeOK, AppliedInOrder
  <1>2. ASSUME NEW j \in Instances, j # i
        PROVE  Grounded(j)'
    <2>1. inst'[j] = inst[j] /\ Grounded(j)
      BY <1>2 DEF IInv, TypeOK
    <2>2. recorded' \subseteq Files
      BY DEF AppliedInOrder
    <2> QED
      BY <2>1, <2>2 DEF Grounded
  <1> QED
    BY <1>1, <1>2 DEF IInv

\* A process that has ended relies on nothing.
LEMMA ExitInv ==
    ASSUME IInv, NEW i \in Instances, Exit(i), faults' \in 0 .. MaxFaults,
           schema \subseteq schema', recorded \subseteq recorded', AppliedInOrder',
           schema' \subseteq Files
    PROVE  IInv'
  <1>1. Down \in [at: Phases, applied: SUBSET Files, file: 1 .. N + 1]
    BY MigrationAssumption DEF Down, Phases
  <1>2. inst'[i] = Down
    BY DEF Exit, IInv, TypeOK
  <1>3. Grounded(i)'
    BY <1>2 DEF Grounded, Down
  <1> QED
    BY <1>1, <1>3, OthersGrounded DEF Exit

LEMMA FaultBound ==
    ASSUME IInv, Fault \/ UNCHANGED faults
    PROVE  faults' \in 0 .. MaxFaults
  BY MigrationAssumption DEF IInv, TypeOK, Fault

\* The file an instance applies next comes right after those that are recorded.
LEMMA CurrentIsNext ==
    ASSUME IInv, NEW i \in Instances, inst[i].at = "migrating", NEW f \in Files, Current(i, f)
    PROVE  \A g \in Files : g < f => g \in recorded
  <1>1. inst[i].file \in 1 .. N + 1 /\ Grounded(i)
    BY DEF IInv, TypeOK
  <1> SUFFICES ASSUME NEW g \in Files, g < f PROVE g \in recorded
    OBVIOUS
  <1>2. CASE g < inst[i].file
    BY <1>1, <1>2, MigrationAssumption DEF Grounded, Files
  <1>3. CASE g >= inst[i].file
    <2>1. g \notin Pending(i)
      BY MigrationAssumption DEF Current, Files
    <2>2. g \in inst[i].applied
      BY <1>1, <1>3, <2>1, MigrationAssumption DEF Pending, Files
    <2> QED
      BY <1>1, <2>2 DEF Grounded
  <1> QED
    BY <1>1, <1>2, <1>3, MigrationAssumption DEF Files

-----------------------------------------------------------------------------
(* The actions *)

\* What a call leaves behind when it returns, or when its connection is lost.
LEMMA ReturnsInv ==
    ASSUME IInv, NEW i \in Instances, NEW state, Returns(i, state),
           state \in [at: Phases, applied: SUBSET Files, file: 1 .. N + 1],
           schema \subseteq schema', recorded \subseteq recorded', AppliedInOrder',
           schema' \subseteq Files,
           inst'[i] = state => Grounded(i)'
    PROVE  IInv'
  <1>1. faults' \in 0 .. MaxFaults
    BY FaultBound DEF Returns
  <1>2. CASE Exit(i)
    BY <1>1, <1>2, ExitInv
  <1>3. CASE inst' = [inst EXCEPT ![i] = state]
    <2>1. inst'[i] = state
      BY <1>3 DEF IInv, TypeOK
    <2> QED
      BY <1>1, <1>3, <2>1, OthersGrounded
  <1> QED
    BY <1>2, <1>3 DEF Returns

LEMMA BootInv ==
    ASSUME IInv, NEW i \in Instances, Boot(i)
    PROVE  IInv'
  <1> DEFINE state == [inst[i] EXCEPT !.at = "starting"]
  <1>1. state \in [at: Phases, applied: SUBSET Files, file: 1 .. N + 1] /\ state.at = "starting"
    BY DEF IInv, TypeOK, Phases
  <1>2. inst' = [inst EXCEPT ![i] = state] /\ inst'[i] = state
    BY DEF Boot, IInv, TypeOK
  <1>3. Grounded(i)'
    BY <1>1, <1>2 DEF Grounded
  <1>4. AppliedInOrder' /\ schema' \subseteq Files /\ faults' \in 0 .. MaxFaults
    BY DEF Boot, IInv, TypeOK, AppliedInOrder
  <1> QED
    BY <1>1, <1>2, <1>3, <1>4, OthersGrounded DEF Boot

LEMMA ReadAppliedInv ==
    ASSUME IInv, NEW i \in Instances, ReadApplied(i)
    PROVE  IInv'
  <1>1. PICK read \in SUBSET recorded :
           inst' = [inst EXCEPT ![i] = [at |-> "migrating", applied |-> read, file |-> 1]]
    BY DEF ReadApplied
  <1> DEFINE state == [at |-> "migrating", applied |-> read, file |-> 1]
  <1>2. state \in [at: Phases, applied: SUBSET Files, file: 1 .. N + 1]
    BY MigrationAssumption DEF Phases, IInv, TypeOK
  <1>3. inst'[i] = state
    BY <1>1 DEF IInv, TypeOK
  <1>4. Grounded(i)'
    BY <1>3 DEF Grounded, ReadApplied
  <1>5. AppliedInOrder' /\ schema' \subseteq Files
    BY DEF ReadApplied, IInv, TypeOK, AppliedInOrder
  <1>6. faults' \in 0 .. MaxFaults
    BY FaultBound DEF ReadApplied
  <1> QED
    BY <1>1, <1>2, <1>4, <1>5, <1>6, OthersGrounded DEF ReadApplied

LEMMA ApplyInv ==
    ASSUME IInv, NEW i \in Instances, Apply(i)
    PROVE  IInv'
  <1>1. PICK f \in Files :
           /\ Current(i, f)
           /\ schema' = schema \cup {f}
           /\ Returns(i, [inst[i] EXCEPT !.at = "recording", !.file = f])
    BY DEF Apply
  <1> DEFINE state == [inst[i] EXCEPT !.at = "recording", !.file = f]
  <1>2. \A g \in Files : g < f => g \in recorded
    BY <1>1, CurrentIsNext DEF Apply
  <1>3. inst[i] \in [at: Phases, applied: SUBSET Files, file: 1 .. N + 1] /\ Grounded(i)
    BY DEF IInv, TypeOK
  <1>4. state \in [at: Phases, applied: SUBSET Files, file: 1 .. N + 1]
    <2>1. f \in 1 .. N + 1
      BY MigrationAssumption DEF Files
    <2> QED
      BY <1>3, <2>1 DEF Phases
  <1>5. state.at = "recording" /\ state.file = f /\ state.applied = inst[i].applied
    BY <1>3
  <1>6. AppliedInOrder' /\ schema' \subseteq Files
    BY <1>1, <1>2 DEF Apply, IInv, TypeOK, AppliedInOrder
  <1>7. inst'[i] = state => Grounded(i)'
    BY <1>1, <1>2, <1>3, <1>5, MigrationAssumption DEF Apply, Grounded, Files
  <1> QED
    BY <1>1, <1>4, <1>6, <1>7, ReturnsInv DEF Apply

LEMMA RecordInv ==
    ASSUME IInv, NEW i \in Instances, Record(i)
    PROVE  IInv'
  <1> DEFINE state == [inst[i] EXCEPT !.at = "migrating", !.file = @ + 1]
  <1>1. inst[i] \in [at: Phases, applied: SUBSET Files, file: 1 .. N + 1] /\ Grounded(i)
    BY DEF IInv, TypeOK
  <1>2. inst[i].file \in schema /\ inst[i].file \in Files
    BY <1>1 DEF Record, NextFile, Grounded, IInv, TypeOK
  <1>3. state \in [at: Phases, applied: SUBSET Files, file: 1 .. N + 1]
    <2>1. inst[i].file + 1 \in 1 .. N + 1
      BY <1>2, MigrationAssumption DEF Files
    <2> QED
      BY <1>1, <2>1 DEF Phases
  <1>4. state.at = "migrating" /\ state.file = inst[i].file + 1 /\ state.applied = inst[i].applied
    BY <1>1
  <1>5. AppliedInOrder' /\ schema' \subseteq Files
    BY <1>2 DEF Record, NextFile, IInv, TypeOK, AppliedInOrder
  <1>6. inst'[i] = state => Grounded(i)'
    BY <1>1, <1>2, <1>4, MigrationAssumption DEF Record, NextFile, Grounded, Files
  <1> QED
    BY <1>3, <1>5, <1>6, ReturnsInv DEF Record, NextFile

LEMMA ServeInv ==
    ASSUME IInv, NEW i \in Instances, Serve(i)
    PROVE  IInv'
  <1> DEFINE state == [inst[i] EXCEPT !.at = "serving"]
  <1>1. inst[i] \in [at: Phases, applied: SUBSET Files, file: 1 .. N + 1] /\ Grounded(i)
    BY DEF IInv, TypeOK
  <1>2. state \in [at: Phases, applied: SUBSET Files, file: 1 .. N + 1] /\ state.at = "serving"
    BY <1>1 DEF Phases
  <1>3. inst' = [inst EXCEPT ![i] = state] /\ inst'[i] = state
    BY DEF Serve, IInv, TypeOK
  <1>4. recorded = Files
    <2>1. \A g \in Files : g \in inst[i].applied \/ g < inst[i].file
      BY <1>1, MigrationAssumption DEF Serve, Pending, Files
    <2>2. \A g \in Files : g \in recorded
      BY <1>1, <2>1, MigrationAssumption DEF Serve, Grounded, Files
    <2> QED
      BY <2>2 DEF IInv, TypeOK
  <1>5. Grounded(i)'
    BY <1>2, <1>3, <1>4 DEF Serve, Grounded
  <1>6. AppliedInOrder' /\ schema' \subseteq Files /\ faults' \in 0 .. MaxFaults
    BY DEF Serve, IInv, TypeOK, AppliedInOrder
  <1> QED
    BY <1>2, <1>3, <1>5, <1>6, OthersGrounded DEF Serve

\* A migration that fails, and a process that is stopped.
LEMMA EndInv ==
    ASSUME IInv, NEW i \in Instances, ApplyFails(i) \/ RecordFails(i) \/ Stop(i)
    PROVE  IInv'
  <1>1. Exit(i) /\ UNCHANGED <<schema, recorded>>
    BY DEF ApplyFails, RecordFails, Stop
  <1>2. faults' \in 0 .. MaxFaults
    BY FaultBound DEF ApplyFails, RecordFails, Stop
  <1>3. AppliedInOrder' /\ schema' \subseteq Files
    BY <1>1 DEF IInv, TypeOK, AppliedInOrder
  <1> QED
    BY <1>1, <1>2, <1>3, ExitInv

-----------------------------------------------------------------------------
(* The theorems *)

LEMMA StepInv == IInv /\ [Next]_vars => IInv'
  <1> SUFFICES ASSUME IInv, [Next]_vars PROVE IInv'
    OBVIOUS
  <1>1. ASSUME NEW i \in Instances, Boot(i) \/ Migrate(i) \/ Stop(i)
        PROVE  IInv'
    BY <1>1, BootInv, ReadAppliedInv, ApplyInv, RecordInv, ServeInv, EndInv DEF Migrate
  <1>2. CASE UNCHANGED vars
    BY <1>2 DEF vars, IInv, TypeOK, AppliedInOrder, Grounded
  <1> QED
    BY <1>1, <1>2 DEF Next

\* Instances that start at once never apply or pass over a file out of turn.
THEOREM Invariance == Spec => []IInv
  <1> QED
    BY InitInv, StepInv, PTL DEF Spec

\* Each starting process and the schema stay within their types: a recorded
\* migration is a file, and no process runs past the last file.
THEOREM MigrationTypes == Spec => []TypeOK
<1>1. IInv => TypeOK
  BY DEF IInv
<1> QED
  BY <1>1, Invariance, PTL

\* For any files and instances: the schema and its record have no gap.
THEOREM SchemaInOrder == Spec => []AppliedInOrder
  <1>1. IInv => AppliedInOrder
    BY DEF IInv
  <1> QED
    BY <1>1, Invariance, PTL

\* For any files and instances: whoever serves has the whole schema.
THEOREM ServersAreMigrated == Spec => []ServingIsMigrated
  <1>1. IInv => ServingIsMigrated
    <2> SUFFICES ASSUME IInv, NEW i \in Instances, inst[i].at = "serving"
                 PROVE  schema = Files /\ recorded = Files
      BY DEF ServingIsMigrated
    <2> QED
      BY DEF IInv, TypeOK, AppliedInOrder, Grounded
  <1> QED
    BY <1>1, Invariance, PTL

\* What is committed and not recorded, and cannot run twice, nobody applies again,
\* and nobody records whom it did not reach.
LEMMA StrandedStays == IInv /\ Stranded /\ [Next]_vars => Stranded'
  <1> SUFFICES ASSUME IInv, Stranded, [Next]_vars PROVE Stranded'
    OBVIOUS
  <1>0. inst \in [Instances -> [at: Phases, applied: SUBSET Files, file: 1 .. N + 1]]
    BY DEF IInv, TypeOK
  <1>1. PICK f \in schema \ (recorded \cup Idempotent) :
           \A i \in Instances : ~(inst[i].at = "recording" /\ inst[i].file = f)
    BY DEF Stranded
  <1> SUFFICES /\ f \in schema' \ recorded'
               /\ \A j \in Instances : ~(inst'[j].at = "recording" /\ inst'[j].file = f)
    BY <1>1 DEF Stranded
  <1>2. CASE UNCHANGED vars
    BY <1>1, <1>2 DEF vars
  <1>3. ASSUME NEW i \in Instances, Boot(i) \/ Migrate(i) \/ Stop(i)
        PROVE  /\ f \in schema' \ recorded'
               /\ \A j \in Instances : ~(inst'[j].at = "recording" /\ inst'[j].file = f)
    <2>1. CASE Exit(i) /\ UNCHANGED <<schema, recorded>>
      BY <1>0, <1>1, <2>1 DEF Exit, Down
    <2>2. CASE Boot(i)
      BY <1>0, <1>1, <2>2 DEF Boot
    <2>3. CASE ReadApplied(i)
      BY <1>0, <1>1, <2>3 DEF ReadApplied
    <2>4. CASE Apply(i)
      <3>1. PICK g \in Files :
               /\ g # f /\ schema' = schema \cup {g}
               /\ Returns(i, [inst[i] EXCEPT !.at = "recording", !.file = g])
        BY <1>1, <2>4 DEF Apply
      <3>2. f \in schema' \ recorded'
        BY <1>1, <2>4, <3>1 DEF Apply
      <3>3. CASE Exit(i)
        BY <1>0, <1>1, <3>2, <3>3 DEF Exit, Down
      <3>4. CASE inst' = [inst EXCEPT ![i] = [inst[i] EXCEPT !.at = "recording", !.file = g]]
        <4>1. inst'[i].file = g
          BY <1>0, <3>4
        <4>2. \A j \in Instances : j # i => inst'[j] = inst[j]
          BY <1>0, <3>4
        <4> QED
          BY <1>1, <3>1, <3>2, <4>1, <4>2
      <3> QED
        BY <3>1, <3>3, <3>4 DEF Returns
    <2>5. CASE Record(i)
      <3> DEFINE state == [inst[i] EXCEPT !.at = "migrating", !.file = NextFile(i)]
      <3>1. inst[i].at = "recording" /\ recorded' = recorded \cup {inst[i].file} /\ Returns(i, state)
        BY <2>5 DEF Record
      <3>2. f \in schema' \ recorded'
        BY <1>1, <2>5, <3>1 DEF Record
      <3>3. CASE Exit(i)
        BY <1>0, <1>1, <3>2, <3>3 DEF Exit, Down
      <3>4. CASE inst' = [inst EXCEPT ![i] = state]
        <4>1. inst'[i].at = "migrating"
          BY <1>0, <3>4
        <4>2. \A j \in Instances : j # i => inst'[j] = inst[j]
          BY <1>0, <3>4
        <4> QED
          BY <1>1, <3>2, <4>1, <4>2
      <3> QED
        BY <3>1, <3>3, <3>4 DEF Returns
    <2>6. CASE Serve(i)
      BY <1>0, <1>1, <2>6 DEF Serve
    <2> QED
      BY <1>3, <2>1, <2>2, <2>3, <2>4, <2>5, <2>6 DEF Migrate, ApplyFails, RecordFails, Stop
  <1> QED
    BY <1>2, <1>3 DEF Next

\* For any files, instances and number of restarts: after a stop between a migration
\* and its record, of a file that cannot run twice, no server ever serves again.
THEOREM NoRecovery == Spec => StrandedIsForever
  <1>1. IInv /\ Stranded => NoneServes
    BY DEF IInv, TypeOK, Grounded, Stranded, NoneServes
  <1> QED
    BY <1>1, StrandedStays, Invariance, PTL DEF Spec, StrandedIsForever
=============================================================================
