--------------------------- MODULE RegistryProofs ---------------------------
(***************************************************************************)
(* Proofs about StepRegistry::execute_all (module Registry), for every     *)
(* registry: type correctness, fail-fast sequencing and, for registries    *)
(* without a repeated step type, the reported positions.                   *)
(***************************************************************************)
EXTENDS Registry, TLAPS

(***************************************************************************)
(* The inductive invariant.  FailFast alone is not inductive: it says      *)
(* nothing of pc, so it cannot tell that the next Announce appends the     *)
(* index Len(invoked) + 1.  IInv ties the history lengths to pc and phase. *)
(***************************************************************************)
IInv ==
  /\ TypeOK
  /\ Len(invoked) = IF phase \in {"announce", "ok"} THEN pc - 1 ELSE pc
  /\ \A k \in 1..Len(invoked) : invoked[k] = k
  /\ Len(outcomes) = IF phase = "running" THEN Len(invoked) - 1
                                          ELSE Len(invoked)
  /\ \A k \in 1..Len(outcomes) :
        outcomes[k] = "err" => k = Len(outcomes) /\ phase = "err"
  /\ phase = "err" => outcomes[Len(outcomes)] = "err"
  /\ phase = "ok" => pc = N + 1
  /\ phase = "running" => pc <= N
  /\ Len(reported) = Len(invoked)
  /\ \A k \in 1..Len(reported) : reported[k] \in PositionOutcomes(invoked[k])

LEMMA NType == N \in Nat
  BY StepsAssumption DEF N

LEMMA InitIInv == Init => IInv
  BY NType DEF Init, IInv, TypeOK, Phases

(* One lemma per action of Next: each preserves IInv. *)
LEMMA AnnounceIInv == IInv /\ Announce => IInv'
<1> SUFFICES ASSUME IInv, Announce PROVE IInv'
  OBVIOUS
<1>1. PICK pos \in PositionOutcomes(pc) : reported' = Append(reported, pos)
  BY DEF Announce
<1>2. pc \in 1..N /\ phase = "announce"
  BY DEF Announce, IInv, TypeOK
<1>3. pos \in 1..N
  BY <1>1, <1>2, NType DEF PositionOutcomes
<1>4. TypeOK'
  BY <1>1, <1>2, <1>3, NType DEF Announce, IInv, TypeOK, Phases
<1>5. QED
  BY <1>1, <1>2, <1>3, <1>4, NType DEF Announce, IInv, TypeOK

LEMMA StepOkIInv == IInv /\ StepOk => IInv'
<1> SUFFICES ASSUME IInv, StepOk PROVE IInv'
  OBVIOUS
<1>1. phase = "running" /\ pc \in 1..N
  BY DEF StepOk, IInv, TypeOK
<1>2. TypeOK'
  BY <1>1, NType DEF StepOk, IInv, TypeOK, Phases
<1>3. QED
  BY <1>1, <1>2, NType DEF StepOk, IInv, TypeOK

LEMMA StepErrIInv == IInv /\ StepErr => IInv'
<1> SUFFICES ASSUME IInv, StepErr PROVE IInv'
  OBVIOUS
<1>1. phase = "running" /\ pc \in 1..N
  BY DEF StepErr, IInv, TypeOK
<1>2. TypeOK'
  BY <1>1, NType DEF StepErr, IInv, TypeOK, Phases
<1>3. QED
  BY <1>1, <1>2, NType DEF StepErr, IInv, TypeOK

LEMMA FinishIInv == IInv /\ Finish => IInv'
  BY NType DEF Finish, IInv, TypeOK, Phases

LEMMA StutterIInv == IInv /\ UNCHANGED vars => IInv'
  BY DEF vars, IInv, TypeOK, PositionOutcomes

LEMMA NextIInv == IInv /\ [Next]_vars => IInv'
  BY AnnounceIInv, StepOkIInv, StepErrIInv, FinishIInv, StutterIInv DEF Next

THEOREM IInvariant == Spec => []IInv
  BY InitIInv, NextIInv, PTL DEF Spec

-----------------------------------------------------------------------------

(* execute_all keeps its loop index and histories within their types. *)
THEOREM TypeCorrect == Spec => []TypeOK
  BY IInvariant, PTL DEF IInv

(***************************************************************************)
(* Fail-fast (spec section 8) for every registry: the runs called are     *)
(* steps 1..k in build order, only the last may have failed, Err is        *)
(* returned exactly after a failed run and Ok only after N successes.     *)
(***************************************************************************)
LEMMA IInvFailFast == IInv => FailFast
<1> SUFFICES ASSUME IInv PROVE FailFast
  OBVIOUS
<1>1. invoked = [k \in 1..Len(invoked) |-> k]
  BY DEF IInv, TypeOK
<1>2. \A k \in 1..Len(outcomes) : outcomes[k] = "err" => k = Len(outcomes)
  BY DEF IInv
<1>3. phase = "err" => outcomes # << >> /\ outcomes[Len(outcomes)] = "err"
  BY NType DEF IInv, TypeOK
<1>4. (outcomes # << >> /\ outcomes[Len(outcomes)] = "err") => phase = "err"
  BY NType DEF IInv, TypeOK
<1>5. phase = "ok" => Len(outcomes) = N
  BY NType DEF IInv, TypeOK
<1>6. QED
  BY <1>1, <1>2, <1>3, <1>4, <1>5 DEF FailFast

THEOREM FailFastThm == Spec => []FailFast
  BY IInvariant, IInvFailFast, PTL

(***************************************************************************)
(* In a registry where no step type is added twice, the position printed  *)
(* for each step is its 1-based index, however ptr::eq compares vtables.  *)
(***************************************************************************)
LEMMA IInvPosition == IsInjective(Steps) /\ IInv => PositionCorrect
<1> SUFFICES ASSUME IsInjective(Steps), IInv,
                    NEW k \in 1..Len(reported)
             PROVE  reported[k] = invoked[k]
  BY DEF PositionCorrect
<1>1. invoked[k] = k /\ k \in 1..N
  BY NType DEF IInv, TypeOK
<1>2. reported[k] \in 1..k /\ Steps[reported[k]] = Steps[k]
  BY <1>1 DEF IInv, PositionOutcomes
<1>3. DOMAIN Steps = 1..N
  BY StepsAssumption DEF N
<1>4. QED
  BY <1>1, <1>2, <1>3, NType DEF IsInjective

THEOREM PositionCorrectThm == IsInjective(Steps) => (Spec => []PositionCorrect)
<1> SUFFICES ASSUME IsInjective(Steps) PROVE Spec => []PositionCorrect
  OBVIOUS
<1>1. IInv => PositionCorrect
  BY IInvPosition
<1>2. QED
  BY <1>1, IInvariant, PTL

-----------------------------------------------------------------------------
(***************************************************************************)
(* Refinement.  Without a repeated step type, get_current_step_number has *)
(* one possible answer for step i: i itself.                               *)
(***************************************************************************)
LEMMA UniquePosition ==
  ASSUME IsInjective(Steps), NEW i \in 1..N
  PROVE  PositionOutcomes(i) = {i}
<1>1. DOMAIN Steps = 1..N
  BY StepsAssumption DEF N
<1>2. \A j \in 1..i : Steps[j] = Steps[i] => j = i
  BY <1>1, NType DEF IsInjective
<1>3. QED
  BY <1>2, NType DEF PositionOutcomes

(* Each step of execute_all is a step of StepSequence, or leaves the      *)
(* mapped state alone.                                                     *)
LEMMA NextRefines ==
  ASSUME IsInjective(Steps), IInv, [Next]_vars
  PROVE  [Abstract!SNext]_Abstract!seqVars
<1>1. CASE Announce
  <2>1. PICK pos \in PositionOutcomes(pc) : reported' = Append(reported, pos)
    BY <1>1 DEF Announce
  <2>2. pc \in 1..N /\ phase = "announce"
    BY <1>1 DEF Announce, IInv, TypeOK
  <2>3. pos = pc
    BY <2>1, <2>2, UniquePosition
  <2>4. Len(reported) = pc - 1
    BY <2>2 DEF IInv
  <2>5. SeqStatus = "idle" /\ SeqStatus' = "busy"
    BY <1>1, <2>2 DEF Announce, SeqStatus
  <2>6. Abstract!Begin
    BY <1>1, <2>1, <2>2, <2>3, <2>4, <2>5, NType DEF Announce, Abstract!Begin
  <2>7. QED
    BY <2>6 DEF Abstract!SNext
<1>2. CASE StepOk
  <2>1. SeqStatus = "busy" /\ SeqStatus' = "idle"
    BY <1>2 DEF StepOk, SeqStatus
  <2>2. Abstract!Succeeded
    BY <1>2, <2>1 DEF StepOk, Abstract!Succeeded
  <2>3. QED
    BY <2>2 DEF Abstract!SNext
<1>3. CASE StepErr
  <2>1. SeqStatus = "busy" /\ SeqStatus' = "err"
    BY <1>3 DEF StepErr, SeqStatus
  <2>2. Abstract!Failed
    BY <1>3, <2>1 DEF StepErr, Abstract!Failed
  <2>3. QED
    BY <2>2 DEF Abstract!SNext
<1>4. CASE Finish
  <2>1. SeqStatus = "idle" /\ SeqStatus' = "ok"
    BY <1>4 DEF Finish, SeqStatus
  <2>2. Len(reported) = N
    BY <1>4, NType DEF Finish, IInv, TypeOK
  <2>3. Abstract!Completed
    BY <1>4, <2>1, <2>2 DEF Finish, Abstract!Completed
  <2>4. QED
    BY <2>3 DEF Abstract!SNext
<1>5. CASE UNCHANGED vars
  BY <1>5 DEF vars, SeqStatus, Abstract!seqVars
<1>6. QED
  BY <1>1, <1>2, <1>3, <1>4, <1>5 DEF Next

(***************************************************************************)
(* execute_all implements the engine's contract StepSequence (spec        *)
(* sections 3 and 8) for every registry without a repeated step type:     *)
(* positions 1, 2, ... in build order, the first Err ends the run, Ok     *)
(* only after all N steps succeeded.                                       *)
(***************************************************************************)
THEOREM RefinementThm == IsInjective(Steps) => (Spec => ImplementsStepSequence)
<1> SUFFICES ASSUME IsInjective(Steps) PROVE Spec => Abstract!SSpec
  BY DEF ImplementsStepSequence
<1>1. Init => Abstract!SInit
  BY DEF Init, Abstract!SInit, SeqStatus
<1>2. IInv /\ [Next]_vars => [Abstract!SNext]_Abstract!seqVars
  BY NextRefines
<1>3. QED
  BY <1>1, <1>2, IInvariant, PTL DEF Spec, Abstract!SSpec

=============================================================================
