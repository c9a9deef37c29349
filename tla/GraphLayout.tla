---------------------------- MODULE GraphLayout ----------------------------
(***************************************************************************)
(* The graph of a pipeline on its page: pipelineToGraph of lib/            *)
(* graph-layout.ts and the arrows that renderGraph (pipeline-detail.ts)    *)
(* makes of it.  Where ELK places the nodes is left out.  `p` is a         *)
(* Pipeline as in PipelineDependencies.                                    *)
(***************************************************************************)
EXTENDS PipelineDependencies

EdgeType == {"sequential", "success", "failure"}

\* A step is drawn with the first status of its name, without one as pending.
Nodes(p) ==
  {[id |-> p.spec[i].name,
    phase |-> IF StatusIndex(p, p.spec[i].name) = 0 THEN "Pending" ELSE StatusPhase(p, p.spec[i].name)]
     : i \in DOMAIN p.spec}

\* Mutant: a condition that is not set is not the default.
EdgeTypeUnset(runIf) == IF runIf.condition = "success" THEN "success" ELSE "failure"

EdgeTypeOf(runIf) == IF runIf.condition = "fail" THEN "failure" ELSE "success"

StepsOf(p) == {p.spec[i].name : i \in DOMAIN p.spec}

\* A runIf is drawn as far as it names steps that are there; a step without
\* one comes after the step before it, whatever that is.
EdgesInto(p, i) ==
  LET step == p.spec[i]
      Edge(source, type) == [source |-> source, target |-> step.name, type |-> type]
  IN  IF HasConditionalExecution(step)
      THEN {Edge(source, EdgeTypeOf(step.runIf)) : source \in step.runIf.steps \cap StepsOf(p)}
      ELSE {Edge(p.spec[j].name, "sequential") : j \in {i - 1} \cap DOMAIN p.spec}

Edges(p) == UNION {EdgesInto(p, i) : i \in DOMAIN p.spec}

----------------------------------------------------------------------------
\* The arrows that are drawn: those between nodes that are there.
Arrows(p) == {e \in Edges(p) : {e.source, e.target} \subseteq {n.id : n \in Nodes(p)}}
=============================================================================
