--------------------------- MODULE PipelineTypes ---------------------------
(***************************************************************************)
(* The Pipeline API of api/v1/pipeline_types.go, with the Go helpers on    *)
(* RunIfCondition.  Step names are model values; job templates, volumes    *)
(* and wording are left out.  Of a step's jobSpec only `suspend` is kept,  *)
(* because it decides which phases the step can reach.                     *)
(***************************************************************************)
EXTENDS Naturals, Sequences, FiniteSets

CONSTANT StepName          \* the names steps and runIf references are drawn from

ASSUME StepNameAssumption == IsFiniteSet(StepName)

----------------------------------------------------------------------------
RunIfConditionType == {"", "success", "fail"}     \* "" when the field is absent
RunIfOperator      == {"", "and", "or"}

\* spec.steps[].runIf.  The schema demands a non-empty list of steps; a nil
\* pointer (a sequential step) is the record whose set of steps is empty.
RunIfCondition ==
  [condition : RunIfConditionType, operator : RunIfOperator, steps : SUBSET StepName]

NoRunIf == [condition |-> "", operator |-> "", steps |-> {}]

PipelineStep == [name : StepName, runIf : RunIfCondition, suspend : BOOLEAN]

PipelinePhase == {"", "Pending", "Running", "Suspended", "Succeeded", "Failed"}
StepPhase     == {"Pending", "Running", "Suspended", "Succeeded", "Failed", "Skipped"}

TerminalPhase     == {"Succeeded", "Failed"}
TerminalStepPhase == {"Succeeded", "Failed", "Skipped"}

\* The job's name is a function of the pipeline's and the step's names, so
\* StepStatus.JobName is kept as whether it is set.
StepStatus == [name : StepName, phase : StepPhase, job : BOOLEAN]

\* The Ready condition: its reason, and the steps its message lists while
\* the pipeline is suspended.  The reason "" stands for no condition yet.
ReadyCondition == [reason : PipelinePhase, suspended : SUBSET StepName]

NoCondition == [reason |-> "", suspended |-> {}]

----------------------------------------------------------------------------
HasConditionalExecution(step) == step.runIf.steps # {}

GetCondition(runIf) == IF runIf.condition = "" THEN "success" ELSE runIf.condition
GetOperator(runIf)  == IF runIf.operator = "" THEN "and" ELSE runIf.operator

IsCheckingFailure(runIf) == GetCondition(runIf) = "fail"
RequiresAll(runIf)       == GetOperator(runIf) = "and"
=============================================================================
