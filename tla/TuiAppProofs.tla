---------------------------- MODULE TuiAppProofs ----------------------------
(***************************************************************************)
(* Proofs about the dashboard model (module TuiApp), for every number of  *)
(* rows: a caller of handle_message that completes or fails only the row  *)
(* in progress keeps the shown aggregate equal to the completed count.    *)
(***************************************************************************)
EXTENDS TuiApp, FiniteSetTheorems, TLAPS

(***************************************************************************)
(* update_progress counts a subset of the rows, so its count lies in      *)
(* 0..NRows whatever the flags are.                                       *)
(***************************************************************************)
LEMMA CompletedCountRange ==
  ASSUME NEW rs
  PROVE  CompletedCount(rs) \in 0..NRows
<1> DEFINE S == {r \in Rows : rs[r].completed}
<1>1. IsFiniteSet(Rows) /\ Cardinality(Rows) = NRows
  BY NRowsAssumption, FS_Interval DEF Rows
<1>2. Cardinality(S) \in Nat /\ Cardinality(S) <= NRows
  BY <1>1, FS_Subset, FS_CardinalityType
<1>3. QED
  BY <1>2 DEF CompletedCount

(***************************************************************************)
(* The inductive invariant: AggregateMatches with the type of the rows.   *)
(* The type is needed for FailStep: a row in progress is Started, so it   *)
(* was not counted, and Failed is not counted either.                     *)
(***************************************************************************)
PInv == AppTypeOK /\ AggregateMatches

LEMMA InitPInv == AppInit => PInv
<1> SUFFICES ASSUME AppInit PROVE PInv
  OBVIOUS
<1>1. {r \in Rows : rows[r].completed} = {}
  BY DEF AppInit, Pending
<1>2. CompletedCount(rows) = 0
  BY <1>1, FS_EmptySet DEF CompletedCount
<1>3. rows \in [Rows -> {Pending, Started, Done, Failed}]
  BY DEF AppInit
<1>4. 0 \in Rows
  BY NRowsAssumption DEF Rows
<1>5. current = 0 /\ doneShown = 0 /\ quit = FALSE
  BY Zenon DEF AppInit
<1>6. current \in Rows /\ quit \in BOOLEAN
  BY <1>4, <1>5, Zenon
<1>7. doneShown \in 0..NRows
  BY <1>5, NRowsAssumption
<1>8. QED
  BY <1>2, <1>3, <1>6, <1>7 DEF AppInit, PInv, AppTypeOK, AggregateMatches

(* start_step and complete_step recompute the aggregate from the new rows. *)
LEMMA StartStepPInv ==
  ASSUME PInv, NEW i, StartStep(i)
  PROVE  PInv'
<1>1. CASE i \in Rows
  <2>1. rows' \in [Rows -> {Pending, Started, Done, Failed}]
    BY <1>1 DEF StartStep, PInv, AppTypeOK
  <2>2. CompletedCount(rows') \in 0..NRows
    BY CompletedCountRange
  <2>3. QED
    BY <1>1, <2>1, <2>2 DEF StartStep, PInv, AppTypeOK, AggregateMatches
<1>2. CASE i \notin Rows
  BY <1>2 DEF StartStep, PInv, AppTypeOK, AggregateMatches, appVars
<1>3. QED
  BY <1>1, <1>2

LEMMA CompleteStepPInv ==
  ASSUME PInv, NEW i, CompleteStep(i)
  PROVE  PInv'
<1>1. CASE i \in Rows
  <2>1. rows' \in [Rows -> {Pending, Started, Done, Failed}]
    BY <1>1 DEF CompleteStep, PInv, AppTypeOK
  <2>2. CompletedCount(rows') \in 0..NRows
    BY CompletedCountRange
  <2>3. QED
    BY <1>1, <2>1, <2>2 DEF CompleteStep, PInv, AppTypeOK, AggregateMatches
<1>2. CASE i \notin Rows
  BY <1>2 DEF CompleteStep, PInv, AppTypeOK, AggregateMatches, appVars
<1>3. QED
  BY <1>1, <1>2

(* fail_step leaves the aggregate alone; that is right only because the   *)
(* row it fails is the one in progress, which was not counted.            *)
LEMMA FailStepPInv ==
  ASSUME PInv, NEW i, i \in Rows => rows[i].in_progress, FailStep(i)
  PROVE  PInv'
<1>1. CASE i \in Rows
  <2>1. rows[i] = Started
    BY <1>1 DEF PInv, AppTypeOK, Pending, Started, Done, Failed
  <2>2. rows' = [rows EXCEPT ![i] = Failed]
    BY <1>1 DEF FailStep
  <2>3. {r \in Rows : rows'[r].completed} = {r \in Rows : rows[r].completed}
    BY <1>1, <2>1, <2>2 DEF PInv, AppTypeOK, Started, Failed
  <2>4. rows' \in [Rows -> {Pending, Started, Done, Failed}]
    BY <1>1, <2>2 DEF PInv, AppTypeOK
  <2>5. QED
    BY <1>1, <2>3, <2>4 DEF FailStep, PInv, AppTypeOK, AggregateMatches, CompletedCount
<1>2. CASE i \notin Rows
  BY <1>2 DEF FailStep, PInv, AppTypeOK, AggregateMatches, appVars
<1>3. QED
  BY <1>1, <1>2

LEMMA ProtocolNextPInv == PInv /\ [ProtocolNext]_appVars => PInv'
<1> SUFFICES ASSUME PInv, [ProtocolNext]_appVars PROVE PInv'
  OBVIOUS
<1>1. CASE ProtocolNext
  <2>1. PICK m \in AnyMessage :
          /\ (m.kind \in {"complete", "fail"} /\ m.idx \in Rows)
               => rows[m.idx].in_progress
          /\ HandleMessage(m)
    BY <1>1 DEF ProtocolNext
  <2>2. CASE m.kind = "start" /\ StartStep(m.idx)
    BY <2>2, StartStepPInv
  <2>3. CASE m.kind = "complete" /\ CompleteStep(m.idx)
    BY <2>3, CompleteStepPInv
  <2>4. CASE m.kind = "fail" /\ FailStep(m.idx)
    BY <2>1, <2>4, FailStepPInv
  <2>5. CASE m.kind \in {"status", "exit"} /\ UNCHANGED <<rows, current, doneShown>>
    <3>1. quit' \in BOOLEAN
      BY <2>1, <2>5 DEF HandleMessage, HandleExit, PInv, AppTypeOK, appVars
    <3>2. QED
      BY <2>5, <3>1 DEF PInv, AppTypeOK, AggregateMatches
  <2>6. QED
    BY <2>1, <2>2, <2>3, <2>4, <2>5 DEF HandleMessage, HandleExit, appVars
<1>2. CASE UNCHANGED appVars
  BY <1>2 DEF PInv, AppTypeOK, AggregateMatches, appVars
<1>3. QED
  BY <1>1, <1>2

THEOREM PInvariant == ProtocolSpec => []PInv
  BY InitPInv, ProtocolNextPInv, PTL DEF ProtocolSpec

(***************************************************************************)
(* Spec section 8: after every message handle_message applies for a      *)
(* caller that keeps the protocol, overall_progress equals the completed  *)
(* count over the number of rows (update_progress's formula), for any     *)
(* number of rows.                                                        *)
(***************************************************************************)
THEOREM AggregateMatchesThm == ProtocolSpec => []AggregateMatches
<1>1. PInv => AggregateMatches
  BY DEF PInv
<1>2. QED
  BY <1>1, PInvariant, PTL

(* The dashboard state stays well typed under the same caller. *)
THEOREM AppTypeCorrect == ProtocolSpec => []AppTypeOK
<1>1. PInv => AppTypeOK
  BY DEF PInv
<1>2. QED
  BY <1>1, PInvariant, PTL

=============================================================================
