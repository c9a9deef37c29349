------------------------ MODULE PodTemplateProperties ------------------------
(***************************************************************************)
(* What the documentation says of the pod template and the shared volume,  *)
(* stated of the job as the cluster reads it.                              *)
(***************************************************************************)
EXTENDS PodTemplate

\* How the kubelet reads a list of variables: the last of a name counts.
EffectiveEnv(env, name) ==
  LET at == {i \in DOMAIN env : env[i].name = name}
  IN  IF at = {} THEN Absent
      ELSE env[CHOOSE i \in at : \A j \in at : j <= i].value

\* Every entry of part is one of list's, wherever it stands.
Has(list, part) == \A j \in DOMAIN part : \E n \in DOMAIN list : list[n] = part[j]

Owned(own, result) == own # Absent => result = own

NothingSet(resources) == \A f \in DOMAIN resources : resources[f] = Absent

\* What a step sets for itself is in its job and in effect there: values
\* and keys as written, own entries of every list, init containers as they
\* are; with two exceptions, of which this asks nothing.  A variable that
\* the template sets too has the template's value, since the template's
\* list comes last (pipeline_jobs.go:250); and a container with claims but
\* neither limits nor requests loses the claims to a pipeline's default
\* resources (pipeline_jobs.go:258-259).  In both the code does otherwise
\* than docs/pod-templates.md says (:216, :79).
OwnSettingsKept ==
  LET template == pipeline.podTemplate
  IN  created =>
        /\ Owned(step.backoffLimit, job.backoffLimit)
        /\ Owned(step.serviceAccountName, job.serviceAccountName)
        /\ \A f \in Whole : Owned(step.whole[f], job.whole[f])
        /\ \A f \in Keyed, k \in Key : Owned(step.keyed[f][k], job.keyed[f][k])
        /\ \A f \in Listed : Has(job.listed[f], step.listed[f])
        /\ Has(job.volumes, step.volumes)
        /\ job.initContainers = step.initContainers
        /\ DOMAIN job.containers = DOMAIN step.containers
        /\ \A i \in DOMAIN step.containers :
             LET own == step.containers[i]  c == job.containers[i]
             IN  /\ Owned(own.image, c.image)
                 /\ \/ own.resources.limits # Absent
                    \/ own.resources.requests # Absent
                    \/ NothingSet(template.defaultResources)
                    => c.resources = own.resources
                 /\ \A k \in Key : EffectiveEnv(template.env, k) = Absent =>
                      Owned(EffectiveEnv(own.env, k), EffectiveEnv(c.env, k))
                 /\ Has(c.env, own.env) /\ Has(c.envFrom, own.envFrom)
                 /\ Has(c.volumeMounts, own.volumeMounts)

\* Where a step is silent the pipeline's default is in effect, for every
\* field a pod template has: those of the pod, the tolerations and pull
\* secrets beside the step's own, and in every container, init containers
\* apart, the image, the resources ("applied to containers without explicit
\* resources", docs/pod-templates.md:79), the variables and their sources
\* ("applies defaults to all containers in the pod spec",
\* pipeline_jobs.go:245).  A job without any backoffLimit fails fast
\* (pipeline_jobs.go:110).
DefaultsReachEveryContainer ==
  LET template == pipeline.podTemplate
      Filled(own, default, result) == own = Absent => result = default
  IN  created =>
        /\ Filled(step.backoffLimit, "0", job.backoffLimit)
        /\ Filled(step.serviceAccountName, pipeline.serviceAccountName, job.serviceAccountName)
        /\ \A f \in Whole : Filled(step.whole[f], template.whole[f], job.whole[f])
        /\ \A f \in Keyed, k \in Key :
             Filled(step.keyed[f][k], template.keyed[f][k], job.keyed[f][k])
        /\ \A f \in Listed : Has(job.listed[f], template.listed[f])
        /\ \A i \in DOMAIN job.containers :
             LET own == step.containers[i]  c == job.containers[i]
             IN  /\ Filled(own.image, template.image, c.image)
                 /\ NothingSet(own.resources) => c.resources = template.defaultResources
                 /\ \A k \in Key :
                      Filled(EffectiveEnv(own.env, k), EffectiveEnv(template.env, k),
                             EffectiveEnv(c.env, k))
                 /\ Has(c.envFrom, template.envFrom)

\* Every mount of the job's containers names a volume of the pod, so that
\* the API server admits the job, and all containers see the shared volume
\* at its path ("mounted at the specified mountPath in all step
\* containers", docs/shared-volumes.md:62).
Resolves(spec) ==
  \A i \in DOMAIN spec.containers : \A j \in DOMAIN spec.containers[i].volumeMounts :
    \E v \in DOMAIN spec.volumes : spec.volumes[v].name = spec.containers[i].volumeMounts[j].name

MountsResolve ==
  created /\ Resolves(step) =>
    /\ Resolves(job)
    /\ pipeline.sharedVolume.enabled =>
         \A i \in DOMAIN job.containers : \E j \in DOMAIN job.containers[i].volumeMounts :
           job.containers[i].volumeMounts[j].mountPath = GetMountPath(pipeline.sharedVolume)
=============================================================================
