----------------------------- MODULE PodTemplate -----------------------------
(***************************************************************************)
(* The job the operator makes of a step (createJobForStep): the step's own *)
(* job spec, the pod template and the shared volume of the pipeline merged *)
(* into it, function by function as pipeline_jobs.go does.                 *)
(*                                                                         *)
(* The fields of a pod fall into kinds by how they are merged: values that *)
(* are taken whole, maps that are merged by key, lists that are appended.  *)
(* Absent is what Go calls the zero value, nil or "".  A nil pod template  *)
(* is one whose fields are all absent, since both leave the pod alone, and *)
(* an empty defaultResources is taken for none.  A key of a map is either  *)
(* there with a value or not there.                                        *)
(***************************************************************************)
EXTENDS Naturals, Sequences

CONSTANTS
  Key,                     \* names of labels, annotations, node labels, variables
  Value,                   \* contents of fields, uninterpreted strings
  Pipelines,               \* the settings pipelines have beside their steps
  Steps                    \* the job specs users write for a step

Absent == ""
Maybe  == Value \cup {Absent}

Whole  == {"affinity", "securityContext", "priorityClassName", "runtimeClassName", "schedulerName"}
Keyed  == {"nodeSelector", "labels", "annotations"}
Listed == {"tolerations", "imagePullSecrets"}

EnvVar      == [name : Key, value : Value]
Resources   == [limits : Maybe, requests : Maybe, claims : Maybe]
VolumeMount == [name : Value, mountPath : Value]
Volume      == [name : Value, source : Maybe]
Container   == [image : Maybe, resources : Resources, env : Seq(EnvVar), envFrom : Seq(Value),
                volumeMounts : Seq(VolumeMount)]

\* A batch/v1 JobSpec, its pod template's metadata and spec in one record.
JobSpec ==
  [backoffLimit : Maybe, whole : [Whole -> Maybe], keyed : [Keyed -> [Key -> Maybe]],
   listed : [Listed -> Seq(Value)], serviceAccountName : Maybe,
   containers : Seq(Container), initContainers : Seq(Container), volumes : Seq(Volume)]

PodTemplateDefaults ==
  [whole : [Whole -> Maybe], keyed : [Keyed -> [Key -> Maybe]], listed : [Listed -> Seq(Value)],
   defaultResources : Resources, image : Maybe, env : Seq(EnvVar), envFrom : Seq(Value)]

SharedVolumeSpec == [enabled : BOOLEAN, name : Maybe, mountPath : Maybe, source : Maybe]

PipelineSettings ==
  [serviceAccountName : Maybe, podTemplate : PodTemplateDefaults, sharedVolume : SharedVolumeSpec]

ASSUME ValueAssumption  == {"0", "workspace", "/workspace"} \subseteq Value /\ Absent \notin Value
ASSUME InputsAssumption == Pipelines \subseteq PipelineSettings /\ Steps \subseteq JobSpec

VARIABLES pipeline, step, created, job

vars == <<pipeline, step, created, job>>

----------------------------------------------------------------------------
\* "if podTemplate.X is set and podSpec.X is not": the step's setting wins.
OrDefault(own, default) == IF own = Absent THEN default ELSE own

GetName(volume)      == OrDefault(volume.name, "workspace")
GetMountPath(volume) == OrDefault(volume.mountPath, "/workspace")

WithBackoffLimit(spec) == [spec EXCEPT !.backoffLimit = OrDefault(@, "0")]

MergeByKey(own, default) == [k \in Key |-> OrDefault(own[k], default[k])]

ApplyPodSpecDefaults(template, spec) ==
  [spec EXCEPT
     !.keyed["nodeSelector"] = MergeByKey(spec.keyed["nodeSelector"], template.keyed["nodeSelector"]),
     !.whole  = [f \in Whole |-> OrDefault(spec.whole[f], template.whole[f])],
     !.listed = [f \in Listed |-> spec.listed[f] \o template.listed[f]]]

ApplyPodMetadataDefaults(template, spec) ==
  [spec EXCEPT
     !.keyed["labels"]      = MergeByKey(spec.keyed["labels"], template.keyed["labels"]),
     !.keyed["annotations"] = MergeByKey(spec.keyed["annotations"], template.keyed["annotations"])]

\* Mutant: default requests are added to a container's own limits.
DefaultedResourcesByField(own, default) ==
  [f \in DOMAIN own |-> OrDefault(own[f], default[f])]

\* Resources are replaced whole, claims included, where neither limits nor
\* requests are set.
DefaultedResources(own, default) ==
  IF /\ own.limits = Absent /\ own.requests = Absent
     /\ \E f \in DOMAIN default : default[f] # Absent
  THEN default ELSE own

ContainerWithDefaults(template, c) ==
  [c EXCEPT !.env       = @ \o template.env,
            !.envFrom   = @ \o template.envFrom,
            !.resources = DefaultedResources(@, template.defaultResources),
            !.image     = OrDefault(@, template.image)]

\* Mutant: the loop starts at the second container.
ApplyContainerDefaultsFromSecond(template, spec) ==
  [spec EXCEPT !.containers =
     [i \in DOMAIN spec.containers |->
        IF i = 1 THEN spec.containers[i] ELSE ContainerWithDefaults(template, spec.containers[i])]]

\* Init containers are left as they are.
ApplyContainerDefaults(template, spec) ==
  [spec EXCEPT !.containers =
     [i \in DOMAIN spec.containers |-> ContainerWithDefaults(template, spec.containers[i])]]

ApplyServiceAccountName(name, spec) ==
  [spec EXCEPT !.serviceAccountName = OrDefault(@, name)]

ApplyPodTemplateDefaults(p, spec) ==
  ApplyServiceAccountName(p.serviceAccountName,
    ApplyContainerDefaults(p.podTemplate,
      ApplyPodMetadataDefaults(p.podTemplate,
        ApplyPodSpecDefaults(p.podTemplate, spec))))

Mounted(c, mount) == [c EXCEPT !.volumeMounts = Append(@, mount)]

\* Mutant: the mount names the volume as it was written, not by GetName.
ApplySharedVolumeUnnamed(volume, spec) ==
  IF ~ volume.enabled THEN spec
  ELSE [spec EXCEPT
          !.volumes    = Append(@, [name |-> GetName(volume), source |-> volume.source]),
          !.containers = [i \in DOMAIN spec.containers |->
             Mounted(spec.containers[i], [name |-> volume.name, mountPath |-> GetMountPath(volume)])]]

ApplySharedVolume(volume, spec) ==
  IF ~ volume.enabled THEN spec
  ELSE [spec EXCEPT
          !.volumes    = Append(@, [name |-> GetName(volume), source |-> volume.source]),
          !.containers = [i \in DOMAIN spec.containers |->
             Mounted(spec.containers[i], [name |-> GetName(volume), mountPath |-> GetMountPath(volume)])]]

JobForStep(p, spec) ==
  ApplySharedVolume(p.sharedVolume, ApplyPodTemplateDefaults(p, WithBackoffLimit(spec)))

----------------------------------------------------------------------------
Init ==
  /\ pipeline \in Pipelines /\ step \in Steps
  /\ created = FALSE /\ job = step

CreateJobForStep ==
  /\ ~ created
  /\ created' = TRUE /\ job' = JobForStep(pipeline, step)
  /\ UNCHANGED <<pipeline, step>>

Next == CreateJobForStep

Spec == Init /\ [][Next]_vars
=============================================================================
