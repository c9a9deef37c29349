-------------------------- MODULE PodTemplateProofs --------------------------
(***************************************************************************)
(* For every set of field contents, every pipeline and every step: the     *)
(* step's own settings are in its job (but for a variable and for claims   *)
(* that the template overrides), the defaults are where it has none, and   *)
(* the mounts of the job resolve.                                          *)
(***************************************************************************)
EXTENDS PodTemplateProperties, CommonLemmas

\* Two lists in a row have the entries of both.
LEMMA ConcatHas ==
  ASSUME NEW S, NEW s \in Seq(S), NEW t \in Seq(S)
  PROVE  Has(s \o t, s) /\ Has(s \o t, t)
<1>1. ASSUME NEW j \in DOMAIN s PROVE j \in DOMAIN (s \o t) /\ (s \o t)[j] = s[j]
  OBVIOUS
<1>2. ASSUME NEW j \in DOMAIN t
      PROVE  Len(s) + j \in DOMAIN (s \o t) /\ (s \o t)[Len(s) + j] = t[j]
  OBVIOUS
<1> QED BY <1>1, <1>2 DEF Has

\* One more element takes none away.
LEMMA AppendHas ==
  ASSUME NEW S, NEW s \in Seq(S), NEW e \in S
  PROVE  Has(Append(s, e), s)
<1>1. ASSUME NEW j \in DOMAIN s PROVE j \in DOMAIN Append(s, e) /\ Append(s, e)[j] = s[j]
  OBVIOUS
<1> QED BY <1>1 DEF Has

\* A list has its own entries.
LEMMA HasItself == ASSUME NEW s PROVE Has(s, s)
BY DEF Has

----------------------------------------------------------------------------
(* What each function of the chain returns: a job spec again, the fields it *)
(* is about merged, the others as they were.                               *)

\* A setting or its default is a setting.
LEMMA OrDefaultType ==
  ASSUME NEW own \in Maybe, NEW default \in Maybe
  PROVE  OrDefault(own, default) \in Maybe
BY DEF OrDefault

\* The backoff limit (createJobForStep).
LEMMA BackoffLimitStage ==
  ASSUME NEW s \in JobSpec, NEW r, r = WithBackoffLimit(s)
  PROVE  /\ r \in JobSpec
         /\ r.backoffLimit = OrDefault(s.backoffLimit, "0")
         /\ r.whole = s.whole /\ r.keyed = s.keyed /\ r.listed = s.listed
         /\ r.serviceAccountName = s.serviceAccountName /\ r.containers = s.containers
         /\ r.initContainers = s.initContainers /\ r.volumes = s.volumes
<1>1. OrDefault(s.backoffLimit, "0") \in Maybe
  BY OrDefaultType, ValueAssumption DEF JobSpec, Maybe
<1>2. WithBackoffLimit(s) \in JobSpec
  BY <1>1 DEF WithBackoffLimit, JobSpec
<1> QED BY <1>1, <1>2 DEF WithBackoffLimit, JobSpec

\* A map merged with another by key.
LEMMA MergeByKeyType ==
  ASSUME NEW own \in [Key -> Maybe], NEW default \in [Key -> Maybe]
  PROVE  /\ MergeByKey(own, default) \in [Key -> Maybe]
         /\ \A k \in Key : MergeByKey(own, default)[k] = OrDefault(own[k], default[k])
BY OrDefaultType DEF MergeByKey

\* The pod's own fields (applyPodSpecDefaults).
LEMMA PodSpecStage ==
  ASSUME NEW t \in PodTemplateDefaults, NEW s \in JobSpec, NEW r, r = ApplyPodSpecDefaults(t, s)
  PROVE  /\ r \in JobSpec
         /\ \A f \in Whole : r.whole[f] = OrDefault(s.whole[f], t.whole[f])
         /\ \A k \in Key : r.keyed["nodeSelector"][k] =
                             OrDefault(s.keyed["nodeSelector"][k], t.keyed["nodeSelector"][k])
         /\ \A f \in Keyed \ {"nodeSelector"} : r.keyed[f] = s.keyed[f]
         /\ \A f \in Listed : r.listed[f] = s.listed[f] \o t.listed[f]
         /\ r.backoffLimit = s.backoffLimit
         /\ r.serviceAccountName = s.serviceAccountName /\ r.containers = s.containers
         /\ r.initContainers = s.initContainers /\ r.volumes = s.volumes
<1> DEFINE keyed  == [s.keyed EXCEPT !["nodeSelector"] = MergeByKey(s.keyed["nodeSelector"], t.keyed["nodeSelector"])]
           whole  == [f \in Whole |-> OrDefault(s.whole[f], t.whole[f])]
           listed == [f \in Listed |-> s.listed[f] \o t.listed[f]]
<1>1. /\ s.keyed \in [Keyed -> [Key -> Maybe]] /\ t.keyed \in [Keyed -> [Key -> Maybe]]
      /\ s.whole \in [Whole -> Maybe] /\ t.whole \in [Whole -> Maybe]
      /\ s.listed \in [Listed -> Seq(Value)] /\ t.listed \in [Listed -> Seq(Value)]
  BY DEF JobSpec, PodTemplateDefaults
<1>2. keyed \in [Keyed -> [Key -> Maybe]]
  <2>1. "nodeSelector" \in Keyed
    BY DEF Keyed
  <2>2. MergeByKey(s.keyed["nodeSelector"], t.keyed["nodeSelector"]) \in [Key -> Maybe]
    BY <1>1, <2>1, MergeByKeyType
  <2> QED BY <1>1, <2>1, <2>2
<1>3. whole \in [Whole -> Maybe]
  BY <1>1, OrDefaultType
<1>4. listed \in [Listed -> Seq(Value)]
  BY <1>1
<1>5. r = [s EXCEPT !.keyed = keyed, !.whole = whole, !.listed = listed]
  BY DEF ApplyPodSpecDefaults
<1> HIDE DEF keyed, whole, listed
<1>6. /\ r \in JobSpec /\ r.keyed = keyed /\ r.whole = whole /\ r.listed = listed
      /\ r.backoffLimit = s.backoffLimit
      /\ r.serviceAccountName = s.serviceAccountName /\ r.containers = s.containers
      /\ r.initContainers = s.initContainers /\ r.volumes = s.volumes
  BY <1>2, <1>3, <1>4, <1>5 DEF JobSpec
<1>7. \A k \in Key : keyed["nodeSelector"][k] = OrDefault(s.keyed["nodeSelector"][k], t.keyed["nodeSelector"][k])
  BY <1>1, MergeByKeyType DEF keyed, Keyed
<1>8. \A f \in Keyed \ {"nodeSelector"} : keyed[f] = s.keyed[f]
  BY <1>1 DEF keyed
<1> QED BY <1>6, <1>7, <1>8 DEF whole, listed

\* Labels and annotations (applyPodMetadataDefaults).
LEMMA MetadataStage ==
  ASSUME NEW t \in PodTemplateDefaults, NEW s \in JobSpec, NEW r, r = ApplyPodMetadataDefaults(t, s)
  PROVE  /\ r \in JobSpec
         /\ \A f \in {"labels", "annotations"}, k \in Key :
              r.keyed[f][k] = OrDefault(s.keyed[f][k], t.keyed[f][k])
         /\ r.keyed["nodeSelector"] = s.keyed["nodeSelector"]
         /\ r.whole = s.whole /\ r.listed = s.listed /\ r.backoffLimit = s.backoffLimit
         /\ r.serviceAccountName = s.serviceAccountName /\ r.containers = s.containers
         /\ r.initContainers = s.initContainers /\ r.volumes = s.volumes
<1> DEFINE labels      == MergeByKey(s.keyed["labels"], t.keyed["labels"])
           annotations == MergeByKey(s.keyed["annotations"], t.keyed["annotations"])
           keyed       == [s.keyed EXCEPT !["labels"] = labels, !["annotations"] = annotations]
<1>1. /\ s.keyed \in [Keyed -> [Key -> Maybe]] /\ t.keyed \in [Keyed -> [Key -> Maybe]]
      /\ {"labels", "annotations", "nodeSelector"} \subseteq Keyed
  BY DEF JobSpec, PodTemplateDefaults, Keyed
<1>2. labels \in [Key -> Maybe] /\ annotations \in [Key -> Maybe]
  BY <1>1, MergeByKeyType
<1>3. \A k \in Key : /\ labels[k] = OrDefault(s.keyed["labels"][k], t.keyed["labels"][k])
                     /\ annotations[k] = OrDefault(s.keyed["annotations"][k], t.keyed["annotations"][k])
  BY <1>1, MergeByKeyType
<1> HIDE DEF labels, annotations
<1>4. /\ keyed \in [Keyed -> [Key -> Maybe]]
      /\ keyed["labels"] = labels /\ keyed["annotations"] = annotations
      /\ keyed["nodeSelector"] = s.keyed["nodeSelector"]
  BY <1>1, <1>2
<1>5. r = [s EXCEPT !.keyed = keyed]
  BY DEF ApplyPodMetadataDefaults, labels, annotations, JobSpec
<1> HIDE DEF keyed
<1>6. /\ r \in JobSpec /\ r.keyed = keyed
      /\ r.whole = s.whole /\ r.listed = s.listed /\ r.backoffLimit = s.backoffLimit
      /\ r.serviceAccountName = s.serviceAccountName /\ r.containers = s.containers
      /\ r.initContainers = s.initContainers /\ r.volumes = s.volumes
  BY <1>4, <1>5 DEF JobSpec
<1> QED BY <1>3, <1>4, <1>6

\* One container: image and resources filled, lists extended.
LEMMA ContainerDefaulted ==
  ASSUME NEW t \in PodTemplateDefaults, NEW c \in Container
  PROVE  LET d == ContainerWithDefaults(t, c)
         IN  /\ d \in Container
             /\ d.image = OrDefault(c.image, t.image)
             /\ d.resources = DefaultedResources(c.resources, t.defaultResources)
             /\ d.env = c.env \o t.env /\ d.envFrom = c.envFrom \o t.envFrom
             /\ d.volumeMounts = c.volumeMounts
<1> DEFINE d == ContainerWithDefaults(t, c)
<1> DEFINE image     == OrDefault(c.image, t.image)
           resources == DefaultedResources(c.resources, t.defaultResources)
           env       == c.env \o t.env
           envFrom   == c.envFrom \o t.envFrom
<1>1. image \in Maybe
  BY OrDefaultType DEF Container, PodTemplateDefaults
<1>2. resources \in Resources
  BY DEF Container, PodTemplateDefaults, DefaultedResources
<1>3. env \in Seq(EnvVar) /\ envFrom \in Seq(Value)
  BY DEF Container, PodTemplateDefaults
<1>4. d = [c EXCEPT !.env = env, !.envFrom = envFrom, !.resources = resources, !.image = image]
  BY DEF ContainerWithDefaults
<1> HIDE DEF d, image, resources, env, envFrom
<1>5. /\ d \in Container /\ d.image = image /\ d.resources = resources
      /\ d.env = env /\ d.envFrom = envFrom /\ d.volumeMounts = c.volumeMounts
  BY <1>1, <1>2, <1>3, <1>4 DEF Container
<1> QED BY <1>5 DEF d, image, resources, env, envFrom

\* The containers, one by one (applyContainerDefaults).
LEMMA ContainersStage ==
  ASSUME NEW t \in PodTemplateDefaults, NEW s \in JobSpec, NEW r, r = ApplyContainerDefaults(t, s)
  PROVE  /\ r \in JobSpec
         /\ DOMAIN r.containers = DOMAIN s.containers
         /\ \A i \in DOMAIN s.containers : r.containers[i] = ContainerWithDefaults(t, s.containers[i])
         /\ r.whole = s.whole /\ r.keyed = s.keyed /\ r.listed = s.listed
         /\ r.backoffLimit = s.backoffLimit /\ r.serviceAccountName = s.serviceAccountName
         /\ r.initContainers = s.initContainers /\ r.volumes = s.volumes
<1> DEFINE containers == [i \in DOMAIN s.containers |-> ContainerWithDefaults(t, s.containers[i])]
<1>1. s.containers \in Seq(Container)
  BY DEF JobSpec
<1>2. ASSUME NEW i \in DOMAIN s.containers
      PROVE  ContainerWithDefaults(t, s.containers[i]) \in Container
  <2>1. s.containers[i] \in Container
    BY <1>1
  <2> QED BY <2>1, ContainerDefaulted
<1>3. containers \in Seq(Container)
  BY <1>1, <1>2
<1>4. r = [s EXCEPT !.containers = containers]
  BY DEF ApplyContainerDefaults
<1>5. DOMAIN containers = DOMAIN s.containers
  OBVIOUS
<1>6. \A i \in DOMAIN s.containers : containers[i] = ContainerWithDefaults(t, s.containers[i])
  OBVIOUS
<1> HIDE DEF containers
<1>7. /\ r \in JobSpec /\ r.containers = containers
      /\ r.whole = s.whole /\ r.keyed = s.keyed /\ r.listed = s.listed
      /\ r.backoffLimit = s.backoffLimit /\ r.serviceAccountName = s.serviceAccountName
      /\ r.initContainers = s.initContainers /\ r.volumes = s.volumes
  BY <1>3, <1>4 DEF JobSpec
<1> QED BY <1>5, <1>6, <1>7

\* The pipeline's service account (applyPodTemplateDefaults).
LEMMA ServiceAccountStage ==
  ASSUME NEW name \in Maybe, NEW s \in JobSpec, NEW r, r = ApplyServiceAccountName(name, s)
  PROVE  /\ r \in JobSpec
         /\ r.serviceAccountName = OrDefault(s.serviceAccountName, name)
         /\ r.whole = s.whole /\ r.keyed = s.keyed /\ r.listed = s.listed
         /\ r.backoffLimit = s.backoffLimit /\ r.containers = s.containers
         /\ r.initContainers = s.initContainers /\ r.volumes = s.volumes
<1>1. OrDefault(s.serviceAccountName, name) \in Maybe
  BY OrDefaultType DEF JobSpec
<1> QED BY <1>1 DEF ApplyServiceAccountName, JobSpec

\* The names the shared volume goes by, those written or the defaults.
LEMMA VolumeNames ==
  ASSUME NEW v \in SharedVolumeSpec
  PROVE  GetName(v) \in Value /\ GetMountPath(v) \in Value
BY ValueAssumption DEF SharedVolumeSpec, GetName, GetMountPath, OrDefault, Maybe

\* One more mount in a container, and nothing else.
LEMMA MountedContainer ==
  ASSUME NEW c \in Container, NEW m \in VolumeMount, NEW d, d = Mounted(c, m)
  PROVE  /\ d \in Container
         /\ d.volumeMounts = Append(c.volumeMounts, m)
         /\ d.image = c.image /\ d.resources = c.resources /\ d.env = c.env /\ d.envFrom = c.envFrom
<1>1. Append(c.volumeMounts, m) \in Seq(VolumeMount)
  BY DEF Container
<1> QED BY <1>1 DEF Mounted, Container

\* The shared volume and its mounts (applySharedVolume).
LEMMA SharedVolumeStage ==
  ASSUME NEW v \in SharedVolumeSpec, v.enabled, NEW s \in JobSpec, NEW r, r = ApplySharedVolume(v, s)
  PROVE  LET volume == [name |-> GetName(v), source |-> v.source]
             mount  == [name |-> GetName(v), mountPath |-> GetMountPath(v)]
         IN  /\ r \in JobSpec
             /\ r.volumes = Append(s.volumes, volume)
             /\ DOMAIN r.containers = DOMAIN s.containers
             /\ \A i \in DOMAIN s.containers : r.containers[i] = Mounted(s.containers[i], mount)
             /\ r.whole = s.whole /\ r.keyed = s.keyed /\ r.listed = s.listed
             /\ r.backoffLimit = s.backoffLimit /\ r.serviceAccountName = s.serviceAccountName
             /\ r.initContainers = s.initContainers
<1> DEFINE volume     == [name |-> GetName(v), source |-> v.source]
           mount      == [name |-> GetName(v), mountPath |-> GetMountPath(v)]
           volumes    == Append(s.volumes, volume)
           containers == [i \in DOMAIN s.containers |-> Mounted(s.containers[i], mount)]
<1>1. volume \in Volume /\ mount \in VolumeMount
  BY VolumeNames DEF Volume, VolumeMount, SharedVolumeSpec
<1>2. s.containers \in Seq(Container) /\ s.volumes \in Seq(Volume)
  BY DEF JobSpec
<1>3. ASSUME NEW i \in DOMAIN s.containers
      PROVE  Mounted(s.containers[i], mount) \in Container
  <2>1. s.containers[i] \in Container
    BY <1>2
  <2> QED BY <1>1, <2>1, MountedContainer
<1>4. containers \in Seq(Container) /\ volumes \in Seq(Volume)
  BY <1>1, <1>2, <1>3
<1>5. r = [s EXCEPT !.volumes = volumes, !.containers = containers]
  BY DEF ApplySharedVolume
<1>6. /\ DOMAIN containers = DOMAIN s.containers
      /\ \A i \in DOMAIN s.containers : containers[i] = Mounted(s.containers[i], mount)
  OBVIOUS
<1> HIDE DEF containers, volumes
<1>7. /\ r \in JobSpec /\ r.containers = containers /\ r.volumes = volumes
      /\ r.whole = s.whole /\ r.keyed = s.keyed /\ r.listed = s.listed
      /\ r.backoffLimit = s.backoffLimit /\ r.serviceAccountName = s.serviceAccountName
      /\ r.initContainers = s.initContainers
  BY <1>4, <1>5 DEF JobSpec
<1> QED BY <1>6, <1>7 DEF volumes

----------------------------------------------------------------------------
(* The chain, first without the shared volume.                             *)

\* What the chain makes of s before the shared volume is added.
Defaulted(p, s, d) ==
  /\ d \in JobSpec
  /\ d.backoffLimit = OrDefault(s.backoffLimit, "0")
  /\ d.serviceAccountName = OrDefault(s.serviceAccountName, p.serviceAccountName)
  /\ \A f \in Whole : d.whole[f] = OrDefault(s.whole[f], p.podTemplate.whole[f])
  /\ \A f \in Keyed, k \in Key :
       d.keyed[f][k] = OrDefault(s.keyed[f][k], p.podTemplate.keyed[f][k])
  /\ \A f \in Listed : d.listed[f] = s.listed[f] \o p.podTemplate.listed[f]
  /\ d.initContainers = s.initContainers /\ d.volumes = s.volumes
  /\ DOMAIN d.containers = DOMAIN s.containers
  /\ \A i \in DOMAIN s.containers :
       d.containers[i] = ContainerWithDefaults(p.podTemplate, s.containers[i])

\* The chain up to the shared volume does all of that.
LEMMA DefaultedSpec ==
  ASSUME NEW p \in PipelineSettings, NEW s \in JobSpec,
         NEW d, d = ApplyPodTemplateDefaults(p, WithBackoffLimit(s))
  PROVE  Defaulted(p, s, d)
<1> DEFINE t  == p.podTemplate
           s1 == WithBackoffLimit(s)
           s2 == ApplyPodSpecDefaults(t, s1)
           s3 == ApplyPodMetadataDefaults(t, s2)
           s4 == ApplyContainerDefaults(t, s3)
<1>0. t \in PodTemplateDefaults /\ p.serviceAccountName \in Maybe
  BY DEF PipelineSettings
<1>e. d = ApplyServiceAccountName(p.serviceAccountName, s4)
  BY DEF ApplyPodTemplateDefaults
<1>1. /\ s1 \in JobSpec
      /\ s1.backoffLimit = OrDefault(s.backoffLimit, "0")
      /\ s1.whole = s.whole /\ s1.keyed = s.keyed /\ s1.listed = s.listed
      /\ s1.serviceAccountName = s.serviceAccountName /\ s1.containers = s.containers
      /\ s1.initContainers = s.initContainers /\ s1.volumes = s.volumes
  BY BackoffLimitStage
<1> HIDE DEF s1
<1>2. /\ s2 \in JobSpec
      /\ \A f \in Whole : s2.whole[f] = OrDefault(s1.whole[f], t.whole[f])
      /\ \A k \in Key : s2.keyed["nodeSelector"][k] =
                          OrDefault(s1.keyed["nodeSelector"][k], t.keyed["nodeSelector"][k])
      /\ \A f \in Keyed \ {"nodeSelector"} : s2.keyed[f] = s1.keyed[f]
      /\ \A f \in Listed : s2.listed[f] = s1.listed[f] \o t.listed[f]
      /\ s2.backoffLimit = s1.backoffLimit
      /\ s2.serviceAccountName = s1.serviceAccountName /\ s2.containers = s1.containers
      /\ s2.initContainers = s1.initContainers /\ s2.volumes = s1.volumes
  BY <1>0, <1>1, PodSpecStage
<1> HIDE DEF s2
<1>3. /\ s3 \in JobSpec
      /\ \A f \in {"labels", "annotations"}, k \in Key :
           s3.keyed[f][k] = OrDefault(s2.keyed[f][k], t.keyed[f][k])
      /\ s3.keyed["nodeSelector"] = s2.keyed["nodeSelector"]
      /\ s3.whole = s2.whole /\ s3.listed = s2.listed /\ s3.backoffLimit = s2.backoffLimit
      /\ s3.serviceAccountName = s2.serviceAccountName /\ s3.containers = s2.containers
      /\ s3.initContainers = s2.initContainers /\ s3.volumes = s2.volumes
  BY <1>0, <1>2, MetadataStage
<1> HIDE DEF s3
<1>4. /\ s4 \in JobSpec
      /\ DOMAIN s4.containers = DOMAIN s3.containers
      /\ \A i \in DOMAIN s3.containers : s4.containers[i] = ContainerWithDefaults(t, s3.containers[i])
      /\ s4.whole = s3.whole /\ s4.keyed = s3.keyed /\ s4.listed = s3.listed
      /\ s4.backoffLimit = s3.backoffLimit /\ s4.serviceAccountName = s3.serviceAccountName
      /\ s4.initContainers = s3.initContainers /\ s4.volumes = s3.volumes
  BY <1>0, <1>3, ContainersStage
<1> HIDE DEF s4
<1>5. /\ d \in JobSpec
      /\ d.serviceAccountName = OrDefault(s4.serviceAccountName, p.serviceAccountName)
      /\ d.whole = s4.whole /\ d.keyed = s4.keyed /\ d.listed = s4.listed
      /\ d.backoffLimit = s4.backoffLimit /\ d.containers = s4.containers
      /\ d.initContainers = s4.initContainers /\ d.volumes = s4.volumes
  BY <1>0, <1>4, <1>e, ServiceAccountStage
<1>6. \A f \in Keyed, k \in Key : d.keyed[f][k] = OrDefault(s.keyed[f][k], t.keyed[f][k])
  <2> SUFFICES ASSUME NEW f \in Keyed, NEW k \in Key
               PROVE  d.keyed[f][k] = OrDefault(s.keyed[f][k], t.keyed[f][k])
    OBVIOUS
  <2>1. CASE f = "nodeSelector"
    BY <1>1, <1>2, <1>3, <1>4, <1>5, <2>1
  <2>2. CASE f \in {"labels", "annotations"}
    BY <1>1, <1>2, <1>3, <1>4, <1>5, <2>2 DEF Keyed
  <2> QED BY <2>1, <2>2 DEF Keyed
<1>7. /\ DOMAIN d.containers = DOMAIN s.containers
      /\ \A i \in DOMAIN s.containers : d.containers[i] = ContainerWithDefaults(t, s.containers[i])
  BY <1>1, <1>2, <1>3, <1>4, <1>5
<1>8. /\ \A f \in Whole : d.whole[f] = OrDefault(s.whole[f], t.whole[f])
      /\ \A f \in Listed : d.listed[f] = s.listed[f] \o t.listed[f]
  <2>1. d.whole = s2.whole /\ d.listed = s2.listed
    BY <1>3, <1>4, <1>5
  <2> QED BY <1>1, <1>2, <2>1
<1>9. /\ d.backoffLimit = OrDefault(s.backoffLimit, "0")
      /\ d.serviceAccountName = OrDefault(s.serviceAccountName, p.serviceAccountName)
      /\ d.initContainers = s.initContainers /\ d.volumes = s.volumes
  BY <1>1, <1>2, <1>3, <1>4, <1>5
<1> QED BY <1>5, <1>6, <1>7, <1>8, <1>9 DEF Defaulted

----------------------------------------------------------------------------
(* The invariant: the inputs never change, and a created job is the one    *)
(* the chain makes of them.                                                *)

JobInv ==
  /\ pipeline \in PipelineSettings /\ step \in JobSpec
  /\ created => job = JobForStep(pipeline, step)

\* The invariant holds always.
LEMMA JobInvariant == Spec => []JobInv
<1>1. Init => JobInv
  BY InputsAssumption DEF Init, JobInv
<1>2. JobInv /\ [Next]_vars => JobInv'
  BY DEF JobInv, Next, CreateJobForStep, vars
<1> QED BY <1>1, <1>2, PTL DEF Spec

\* The shared volume only adds to what the chain made before it.
LEMMA SharedVolumeAdds ==
  ASSUME NEW v \in SharedVolumeSpec, NEW s \in JobSpec, NEW r, r = ApplySharedVolume(v, s)
  PROVE  /\ r.whole = s.whole /\ r.keyed = s.keyed /\ r.listed = s.listed
         /\ r.backoffLimit = s.backoffLimit /\ r.serviceAccountName = s.serviceAccountName
         /\ r.initContainers = s.initContainers
         /\ Has(r.volumes, s.volumes)
         /\ DOMAIN r.containers = DOMAIN s.containers
         /\ \A i \in DOMAIN s.containers :
              LET c == s.containers[i]  d == r.containers[i]
              IN  /\ d.image = c.image /\ d.resources = c.resources
                  /\ d.env = c.env /\ d.envFrom = c.envFrom
                  /\ Has(d.volumeMounts, c.volumeMounts)
<1>1. s.volumes \in Seq(Volume) /\ s.containers \in Seq(Container)
  BY DEF JobSpec
<1>2. \A i \in DOMAIN s.containers : s.containers[i] \in Container
  BY <1>1
<1>3. CASE ~ v.enabled
  <2>1. r = s
    BY <1>3 DEF ApplySharedVolume
  <2>2. \A i \in DOMAIN s.containers : Has(s.containers[i].volumeMounts, s.containers[i].volumeMounts)
    BY <1>2, HasItself DEF Container
  <2>3. Has(s.volumes, s.volumes)
    BY <1>1, HasItself
  <2> QED BY <2>1, <2>2, <2>3
<1>4. CASE v.enabled
  <2> DEFINE volume == [name |-> GetName(v), source |-> v.source]
             mount  == [name |-> GetName(v), mountPath |-> GetMountPath(v)]
  <2>1. volume \in Volume /\ mount \in VolumeMount
    BY VolumeNames DEF Volume, VolumeMount, SharedVolumeSpec
  <2>2. /\ r.volumes = Append(s.volumes, volume)
        /\ DOMAIN r.containers = DOMAIN s.containers
        /\ \A i \in DOMAIN s.containers : r.containers[i] = Mounted(s.containers[i], mount)
        /\ r.whole = s.whole /\ r.keyed = s.keyed /\ r.listed = s.listed
        /\ r.backoffLimit = s.backoffLimit /\ r.serviceAccountName = s.serviceAccountName
        /\ r.initContainers = s.initContainers
    BY <1>4, SharedVolumeStage
  <2> HIDE DEF volume, mount
  <2>3. Has(r.volumes, s.volumes)
    BY <1>1, <2>1, <2>2, AppendHas
  <2>4. ASSUME NEW i \in DOMAIN s.containers
        PROVE  LET c == s.containers[i]  d == r.containers[i]
               IN  /\ d.image = c.image /\ d.resources = c.resources
                   /\ d.env = c.env /\ d.envFrom = c.envFrom
                   /\ Has(d.volumeMounts, c.volumeMounts)
    <3>1. /\ s.containers[i] \in Container /\ s.containers[i].volumeMounts \in Seq(VolumeMount)
          /\ r.containers[i] = Mounted(s.containers[i], mount)
      BY <1>2, <2>2 DEF Container
    <3>2. r.containers[i].volumeMounts = Append(s.containers[i].volumeMounts, mount)
      BY <2>1, <3>1, MountedContainer
    <3>3. Has(r.containers[i].volumeMounts, s.containers[i].volumeMounts)
      BY <2>1, <3>1, <3>2, AppendHas
    <3> QED BY <2>1, <3>1, <3>3, MountedContainer
  <2> QED BY <2>2, <2>3, <2>4
<1> QED BY <1>3, <1>4

----------------------------------------------------------------------------
(* How the kubelet reads a list of variables that was appended to another. *)

At(env, name) == {i \in DOMAIN env : env[i].name = name}

IsLast(at, i) == i \in at /\ \A j \in at : j <= i

\* The value of the last variable of a name, if there is one.
LEMMA EffectiveIsLast ==
  ASSUME NEW env \in Seq(EnvVar), NEW name, NEW i, IsLast(At(env, name), i)
  PROVE  EffectiveEnv(env, name) = env[i].value
<1>1. At(env, name) \subseteq Nat /\ At(env, name) # {}
  BY DEF At, IsLast
<1>2. \A j \in At(env, name) : IsLast(At(env, name), j) => j = i
  BY <1>1 DEF IsLast
<1>3. (CHOOSE j \in At(env, name) : \A l \in At(env, name) : l <= j) = i
  BY <1>2 DEF IsLast
<1> QED BY <1>1, <1>3 DEF EffectiveEnv, At

\* A variable that is set anywhere in a list has a value.
LEMMA EffectiveIsAbsent ==
  ASSUME NEW env \in Seq(EnvVar), NEW name
  PROVE  /\ At(env, name) = {} => EffectiveEnv(env, name) = Absent
         /\ At(env, name) # {} => \E i : IsLast(At(env, name), i)
         /\ EffectiveEnv(env, name) = Absent => At(env, name) = {}
<1>1. At(env, name) = {} => EffectiveEnv(env, name) = Absent
  BY DEF EffectiveEnv, At
<1>2. ASSUME At(env, name) # {} PROVE \E i : IsLast(At(env, name), i)
  <2>1. Len(env) \in Nat /\ At(env, name) \in SUBSET (1..Len(env))
    BY DEF At
  <2> QED BY <1>2, <2>1, LastExists DEF IsLast
<1>3. ASSUME At(env, name) # {} PROVE EffectiveEnv(env, name) # Absent
  <2>1. PICK i : IsLast(At(env, name), i)
    BY <1>2, <1>3
  <2>2. i \in DOMAIN env
    BY <2>1 DEF IsLast, At
  <2>3. env[i] \in EnvVar
    BY <2>2
  <2>4. env[i].value \in Value
    BY <2>3 DEF EnvVar
  <2>5. EffectiveEnv(env, name) = env[i].value
    BY <2>1, EffectiveIsLast
  <2> QED BY <2>4, <2>5, ValueAssumption
<1> QED BY <1>1, <1>2, <1>3

\* A variable the first list does not set has its value of the second.
LEMMA EffectiveOfConcat ==
  ASSUME NEW own \in Seq(EnvVar), NEW default \in Seq(EnvVar), NEW name,
         EffectiveEnv(own, name) = Absent
  PROVE  EffectiveEnv(own \o default, name) = EffectiveEnv(default, name)
<1> DEFINE n   == Len(own)
           all == own \o default
<1>1. /\ n \in Nat /\ all \in Seq(EnvVar)
      /\ DOMAIN own = 1..n /\ DOMAIN default = 1..Len(default) /\ Len(default) \in Nat
      /\ DOMAIN all = 1..(n + Len(default))
      /\ \A i \in 1..n : all[i] = own[i]
      /\ \A i \in 1..Len(default) : all[n + i] = default[i]
  OBVIOUS
<1>2. At(own, name) = {}
  BY EffectiveIsAbsent
<1> HIDE DEF n, all
<1>3. \A i \in 1..n : i \notin At(all, name)
  BY <1>1, <1>2 DEF At
<1>4. \A i \in 1..Len(default) : n + i \in At(all, name) <=> i \in At(default, name)
  BY <1>1 DEF At
<1>5. ASSUME NEW j \in At(all, name)
      PROVE  j - n \in At(default, name) /\ j = n + (j - n)
  <2>1. j \in 1..(n + Len(default)) /\ j \notin 1..n
    BY <1>1, <1>3 DEF At
  <2>2. j - n \in 1..Len(default) /\ j = n + (j - n)
    BY <1>1, <2>1
  <2> QED BY <1>4, <2>2
<1>6. CASE At(default, name) = {}
  BY <1>1, <1>5, <1>6, EffectiveIsAbsent DEF all
<1>7. CASE At(default, name) # {}
  <2>1. PICK i : IsLast(At(default, name), i)
    BY <1>7, EffectiveIsAbsent
  <2>2. i \in 1..Len(default)
    BY <1>1, <2>1 DEF IsLast, At
  <2>3. IsLast(At(all, name), n + i)
    <3> SUFFICES ASSUME NEW j \in At(all, name) PROVE j <= n + i
      BY <1>4, <2>1, <2>2 DEF IsLast
    <3>1. j - n <= i
      BY <1>5, <2>1 DEF IsLast
    <3>2. j \in Nat
      BY <1>1 DEF At
    <3> QED BY <1>1, <2>2, <3>1, <3>2
  <2>4. EffectiveEnv(all, name) = all[n + i].value
    BY <1>1, <2>3, EffectiveIsLast
  <2>5. EffectiveEnv(default, name) = default[i].value
    BY <2>1, EffectiveIsLast
  <2> QED BY <1>1, <2>2, <2>4, <2>5 DEF all
<1> QED BY <1>6, <1>7

\* A variable the second list does not set has its value of the first.
LEMMA EffectiveOfOwn ==
  ASSUME NEW own \in Seq(EnvVar), NEW default \in Seq(EnvVar), NEW name,
         EffectiveEnv(default, name) = Absent
  PROVE  EffectiveEnv(own \o default, name) = EffectiveEnv(own, name)
<1> DEFINE n   == Len(own)
           all == own \o default
<1>1. /\ n \in Nat /\ all \in Seq(EnvVar)
      /\ DOMAIN own = 1..n /\ DOMAIN default = 1..Len(default) /\ Len(default) \in Nat
      /\ DOMAIN all = 1..(n + Len(default))
      /\ \A i \in 1..n : all[i] = own[i]
      /\ \A i \in 1..Len(default) : all[n + i] = default[i]
  OBVIOUS
<1>2. At(default, name) = {}
  BY EffectiveIsAbsent
<1> HIDE DEF n, all
<1>3. \A i \in 1..n : i \in At(all, name) <=> i \in At(own, name)
  BY <1>1 DEF At
<1>4. ASSUME NEW j \in At(all, name) PROVE j \in 1..n
  <2>1. j \in 1..(n + Len(default)) /\ all[j].name = name
    BY <1>1 DEF At
  <2>2. ASSUME j \notin 1..n PROVE FALSE
    <3>1. j - n \in 1..Len(default) /\ j = n + (j - n)
      BY <1>1, <2>1, <2>2
    <3>2. default[j - n] = all[j]
      BY <1>1, <3>1
    <3> QED BY <1>1, <1>2, <2>1, <3>1, <3>2 DEF At
  <2> QED BY <2>2
<1>5. At(all, name) = At(own, name)
  <2>1. \A i \in At(own, name) : i \in 1..n
    BY <1>1 DEF At
  <2> QED BY <1>3, <1>4, <2>1
<1>6. CASE At(own, name) = {}
  BY <1>1, <1>5, <1>6, EffectiveIsAbsent DEF all
<1>7. CASE At(own, name) # {}
  <2>1. PICK i : IsLast(At(own, name), i)
    BY <1>7, EffectiveIsAbsent
  <2>2. i \in 1..n
    BY <1>1, <2>1 DEF IsLast, At
  <2>3. IsLast(At(all, name), i)
    BY <1>5, <2>1
  <2>4. EffectiveEnv(all, name) = all[i].value
    BY <1>1, <2>3, EffectiveIsLast
  <2>5. EffectiveEnv(own, name) = own[i].value
    BY <2>1, EffectiveIsLast
  <2> QED BY <1>1, <2>2, <2>4, <2>5 DEF all
<1> QED BY <1>6, <1>7

----------------------------------------------------------------------------
(* The theorems.                                                           *)

\* In a created job, the step's own settings are as the step has them.
LEMMA OwnSettingsInv == JobInv => OwnSettingsKept
<1> SUFFICES ASSUME JobInv, created
             PROVE  OwnSettingsKept
  BY DEF OwnSettingsKept
<1> DEFINE t == pipeline.podTemplate
           d == ApplyPodTemplateDefaults(pipeline, WithBackoffLimit(step))
<1>1. /\ pipeline \in PipelineSettings /\ step \in JobSpec
      /\ t \in PodTemplateDefaults /\ pipeline.sharedVolume \in SharedVolumeSpec
      /\ job = ApplySharedVolume(pipeline.sharedVolume, d)
  BY DEF JobInv, JobForStep, PipelineSettings
<1>d. d = ApplyPodTemplateDefaults(pipeline, WithBackoffLimit(step))
  OBVIOUS
<1>p. pipeline \in PipelineSettings /\ step \in JobSpec
  BY <1>1
<1> HIDE DEF d
<1>i. Defaulted(pipeline, step, d)
  BY <1>d, <1>p, DefaultedSpec
<1>2. /\ d \in JobSpec
      /\ d.backoffLimit = OrDefault(step.backoffLimit, "0")
      /\ d.serviceAccountName = OrDefault(step.serviceAccountName, pipeline.serviceAccountName)
      /\ \A f \in Whole : d.whole[f] = OrDefault(step.whole[f], t.whole[f])
      /\ \A f \in Keyed, k \in Key : d.keyed[f][k] = OrDefault(step.keyed[f][k], t.keyed[f][k])
      /\ \A f \in Listed : d.listed[f] = step.listed[f] \o t.listed[f]
      /\ d.initContainers = step.initContainers /\ d.volumes = step.volumes
      /\ DOMAIN d.containers = DOMAIN step.containers
      /\ \A i \in DOMAIN step.containers : d.containers[i] = ContainerWithDefaults(t, step.containers[i])
  BY <1>i DEF Defaulted
<1>3. /\ job.whole = d.whole /\ job.keyed = d.keyed /\ job.listed = d.listed
      /\ job.backoffLimit = d.backoffLimit /\ job.serviceAccountName = d.serviceAccountName
      /\ job.initContainers = d.initContainers
      /\ Has(job.volumes, d.volumes)
      /\ DOMAIN job.containers = DOMAIN d.containers
      /\ \A i \in DOMAIN d.containers :
           /\ job.containers[i].image = d.containers[i].image
           /\ job.containers[i].resources = d.containers[i].resources
           /\ job.containers[i].env = d.containers[i].env
           /\ job.containers[i].envFrom = d.containers[i].envFrom
           /\ Has(job.containers[i].volumeMounts, d.containers[i].volumeMounts)
  BY <1>1, <1>2, SharedVolumeAdds
<1>4. /\ Owned(step.backoffLimit, job.backoffLimit)
      /\ Owned(step.serviceAccountName, job.serviceAccountName)
      /\ \A f \in Whole : Owned(step.whole[f], job.whole[f])
      /\ \A f \in Keyed, k \in Key : Owned(step.keyed[f][k], job.keyed[f][k])
  BY <1>2, <1>3 DEF Owned, OrDefault
<1>5. \A f \in Listed : Has(job.listed[f], step.listed[f])
  <2> SUFFICES ASSUME NEW f \in Listed
               PROVE  Has(job.listed[f], step.listed[f])
    OBVIOUS
  <2>1. step.listed[f] \in Seq(Value) /\ t.listed[f] \in Seq(Value)
    BY <1>1 DEF JobSpec, PodTemplateDefaults
  <2>2. job.listed[f] = step.listed[f] \o t.listed[f]
    BY <1>2, <1>3
  <2> QED BY <2>1, <2>2, ConcatHas
<1>6. ASSUME NEW i \in DOMAIN step.containers
      PROVE  LET own == step.containers[i]  c == job.containers[i]
             IN  /\ Owned(own.image, c.image)
                 /\ \/ own.resources.limits # Absent
                    \/ own.resources.requests # Absent
                    \/ NothingSet(t.defaultResources)
                    => c.resources = own.resources
                 /\ \A k \in Key : EffectiveEnv(t.env, k) = Absent =>
                      Owned(EffectiveEnv(own.env, k), EffectiveEnv(c.env, k))
                 /\ Has(c.env, own.env) /\ Has(c.envFrom, own.envFrom)
                 /\ Has(c.volumeMounts, own.volumeMounts)
  <2> DEFINE own == step.containers[i]
             c   == job.containers[i]
  <2>0. d.containers[i] = ContainerWithDefaults(t, own)
    BY <1>2
  <2>1. own \in Container
    BY <1>1 DEF JobSpec
  <2>t. t \in PodTemplateDefaults
    BY <1>1
  <2> HIDE DEF own, t
  <2>e. LET e == ContainerWithDefaults(t, own)
        IN  /\ e.image = OrDefault(own.image, t.image)
            /\ e.resources = DefaultedResources(own.resources, t.defaultResources)
            /\ e.env = own.env \o t.env /\ e.envFrom = own.envFrom \o t.envFrom
            /\ e.volumeMounts = own.volumeMounts
    BY <2>1, <2>t, ContainerDefaulted
  <2>2. /\ d.containers[i].image = OrDefault(own.image, t.image)
        /\ d.containers[i].resources = DefaultedResources(own.resources, t.defaultResources)
        /\ d.containers[i].env = own.env \o t.env /\ d.containers[i].envFrom = own.envFrom \o t.envFrom
        /\ d.containers[i].volumeMounts = own.volumeMounts
    BY <2>0, <2>e
  <2>3. /\ own.env \in Seq(EnvVar) /\ t.env \in Seq(EnvVar)
        /\ own.envFrom \in Seq(Value) /\ t.envFrom \in Seq(Value)
    BY <2>1, <2>t DEF Container, PodTemplateDefaults
  <2>4. /\ c.image = d.containers[i].image /\ c.resources = d.containers[i].resources
        /\ c.env = d.containers[i].env /\ c.envFrom = d.containers[i].envFrom
        /\ Has(c.volumeMounts, d.containers[i].volumeMounts)
    BY <1>2, <1>3
  <2>5. Has(c.env, own.env) /\ Has(c.envFrom, own.envFrom)
    BY <2>2, <2>3, <2>4, ConcatHas
  <2>6. Owned(own.image, c.image)
    BY <2>2, <2>4 DEF Owned, OrDefault
  <2>7. \/ own.resources.limits # Absent \/ own.resources.requests # Absent
        \/ NothingSet(t.defaultResources)
        => c.resources = own.resources
    BY <2>2, <2>4 DEF DefaultedResources, NothingSet
  <2>8. \A k \in Key : EffectiveEnv(t.env, k) = Absent =>
          Owned(EffectiveEnv(own.env, k), EffectiveEnv(c.env, k))
    BY <2>2, <2>3, <2>4, EffectiveOfOwn DEF Owned
  <2> QED BY <2>2, <2>4, <2>5, <2>6, <2>7, <2>8 DEF own, t
<1> QED BY <1>2, <1>3, <1>4, <1>5, <1>6 DEF OwnSettingsKept

\* What a step sets for itself is in its job and in effect, whatever the
\* pipeline's defaults, but for a variable that the template sets too and
\* for claims without limits or requests (createJobForStep).
THEOREM OwnSettingsWin == Spec => []OwnSettingsKept
BY JobInvariant, OwnSettingsInv, PTL

\* In a created job, the mounts resolve if the step's own do.
LEMMA MountsInv == JobInv => MountsResolve
<1> SUFFICES ASSUME JobInv, created, Resolves(step)
             PROVE  /\ Resolves(job)
                    /\ pipeline.sharedVolume.enabled =>
                         \A i \in DOMAIN job.containers : \E j \in DOMAIN job.containers[i].volumeMounts :
                           job.containers[i].volumeMounts[j].mountPath = GetMountPath(pipeline.sharedVolume)
  BY DEF MountsResolve
<1> DEFINE v == pipeline.sharedVolume
           d == ApplyPodTemplateDefaults(pipeline, WithBackoffLimit(step))
<1>1. /\ pipeline \in PipelineSettings /\ step \in JobSpec
      /\ v \in SharedVolumeSpec /\ pipeline.podTemplate \in PodTemplateDefaults
      /\ job = ApplySharedVolume(v, d)
  BY DEF JobInv, JobForStep, PipelineSettings
<1>d. d = ApplyPodTemplateDefaults(pipeline, WithBackoffLimit(step))
  OBVIOUS
<1>p. pipeline \in PipelineSettings /\ step \in JobSpec
  BY <1>1
<1> HIDE DEF d
<1>i. Defaulted(pipeline, step, d)
  BY <1>d, <1>p, DefaultedSpec
<1>2. /\ d \in JobSpec /\ d.volumes = step.volumes
      /\ DOMAIN d.containers = DOMAIN step.containers
  BY <1>i DEF Defaulted
<1>3. \A i \in DOMAIN d.containers :
        /\ d.containers[i] \in Container
        /\ d.containers[i].volumeMounts = step.containers[i].volumeMounts
  <2> SUFFICES ASSUME NEW i \in DOMAIN step.containers
               PROVE  /\ d.containers[i] \in Container
                      /\ d.containers[i].volumeMounts = step.containers[i].volumeMounts
    BY <1>2
  <2>1. step.containers[i] \in Container
    BY <1>1 DEF JobSpec
  <2>2. d.containers[i] = ContainerWithDefaults(pipeline.podTemplate, step.containers[i])
    BY <1>i DEF Defaulted
  <2>3. pipeline.podTemplate \in PodTemplateDefaults
    BY <1>1
  <2> QED BY <2>1, <2>2, <2>3, ContainerDefaulted
<1>4. Resolves(d)
  BY <1>2, <1>3 DEF Resolves
<1>5. CASE ~ v.enabled
  BY <1>1, <1>4, <1>5 DEF ApplySharedVolume
<1>6. CASE v.enabled
  <2> DEFINE volume == [name |-> GetName(v), source |-> v.source]
             mount  == [name |-> GetName(v), mountPath |-> GetMountPath(v)]
  <2>1. volume \in Volume /\ mount \in VolumeMount
    BY <1>1, VolumeNames DEF Volume, VolumeMount, SharedVolumeSpec
  <2>2. /\ job.volumes = Append(d.volumes, volume)
        /\ DOMAIN job.containers = DOMAIN d.containers
        /\ \A i \in DOMAIN d.containers : job.containers[i] = Mounted(d.containers[i], mount)
    BY <1>1, <1>2, <1>6, SharedVolumeStage
  <2>3. volume.name = mount.name /\ mount.mountPath = GetMountPath(v)
    OBVIOUS
  <2> HIDE DEF volume, mount, v
  <2>4. \A i \in DOMAIN d.containers : job.containers[i].volumeMounts = Append(d.containers[i].volumeMounts, mount)
    BY <1>3, <2>1, <2>2, MountedContainer
  <2>5. \A i \in DOMAIN d.containers : d.containers[i].volumeMounts \in Seq(VolumeMount)
    BY <1>3 DEF Container
  <2>6. /\ d.volumes \in Seq(Volume)
        /\ DOMAIN job.volumes = DOMAIN d.volumes \cup {Len(d.volumes) + 1}
        /\ \A k \in DOMAIN d.volumes : job.volumes[k] = d.volumes[k]
        /\ job.volumes[Len(d.volumes) + 1] = volume
    BY <1>2, <2>1, <2>2 DEF JobSpec
  <2>7. ASSUME NEW i \in DOMAIN job.containers
        PROVE  /\ \A j \in DOMAIN job.containers[i].volumeMounts :
                    \E k \in DOMAIN job.volumes : job.volumes[k].name = job.containers[i].volumeMounts[j].name
               /\ \E j \in DOMAIN job.containers[i].volumeMounts :
                    job.containers[i].volumeMounts[j].mountPath = GetMountPath(v)
    <3> DEFINE own    == d.containers[i].volumeMounts
               mounts == job.containers[i].volumeMounts
    <3>1. /\ own \in Seq(VolumeMount) /\ mounts = Append(own, mount) /\ i \in DOMAIN d.containers
      BY <2>2, <2>4, <2>5
    <3>2. /\ DOMAIN mounts = DOMAIN own \cup {Len(own) + 1}
          /\ \A j \in DOMAIN own : mounts[j] = own[j]
          /\ mounts[Len(own) + 1] = mount
      BY <2>1, <3>1
    <3>3. \A j \in DOMAIN own : \E k \in DOMAIN d.volumes : d.volumes[k].name = own[j].name
      BY <1>4, <3>1 DEF Resolves
    <3> HIDE DEF own, mounts
    <3>4. \A j \in DOMAIN mounts : \E k \in DOMAIN job.volumes : job.volumes[k].name = mounts[j].name
      <4> SUFFICES ASSUME NEW j \in DOMAIN mounts
                   PROVE  \E k \in DOMAIN job.volumes : job.volumes[k].name = mounts[j].name
        OBVIOUS
      <4>1. CASE j \in DOMAIN own
        BY <2>6, <3>2, <3>3, <4>1
      <4>2. CASE j = Len(own) + 1
        BY <2>3, <2>6, <3>2, <4>2
      <4> QED BY <3>2, <4>1, <4>2
    <3> QED BY <2>3, <3>2, <3>4 DEF own, mounts
  <2> QED BY <2>7 DEF Resolves, v
<1> QED BY <1>5, <1>6

\* The mounts of a job's containers resolve if the step's own do, and the
\* shared volume is mounted at its path in each of them (applySharedVolume).
THEOREM MountsAlwaysResolve == Spec => []MountsResolve
BY JobInvariant, MountsInv, PTL
\* Resources with nothing set are replaced, if only by as empty ones.
LEMMA DefaultResourcesFill ==
  ASSUME NEW own \in Resources, NEW default \in Resources, NothingSet(own)
  PROVE  DefaultedResources(own, default) = default
<1>1. /\ own.limits = Absent /\ own.requests = Absent /\ own.claims = Absent
      /\ DOMAIN default = {"limits", "requests", "claims"}
  BY DEF NothingSet, Resources
<1>2. CASE \E f \in DOMAIN default : default[f] # Absent
  BY <1>1, <1>2 DEF DefaultedResources
<1>3. CASE \A f \in DOMAIN default : default[f] = Absent
  <2>1. default.limits = Absent /\ default.requests = Absent /\ default.claims = Absent
    BY <1>1, <1>3
  <2>2. default = own
    BY <1>1, <2>1 DEF Resources
  <2> QED BY <2>2 DEF DefaultedResources
<1> QED BY <1>2, <1>3

\* In a created job, the defaults of the pipeline are where the step says
\* nothing.
LEMMA DefaultsInv == JobInv => DefaultsReachEveryContainer
<1> SUFFICES ASSUME JobInv, created
             PROVE  DefaultsReachEveryContainer
  BY DEF DefaultsReachEveryContainer
<1> DEFINE t == pipeline.podTemplate
           d == ApplyPodTemplateDefaults(pipeline, WithBackoffLimit(step))
<1>1. /\ pipeline \in PipelineSettings /\ step \in JobSpec
      /\ t \in PodTemplateDefaults /\ pipeline.sharedVolume \in SharedVolumeSpec
      /\ job = ApplySharedVolume(pipeline.sharedVolume, d)
  BY DEF JobInv, JobForStep, PipelineSettings
<1>d. d = ApplyPodTemplateDefaults(pipeline, WithBackoffLimit(step))
  OBVIOUS
<1>p. pipeline \in PipelineSettings /\ step \in JobSpec
  BY <1>1
<1> HIDE DEF d
<1>i. Defaulted(pipeline, step, d)
  BY <1>d, <1>p, DefaultedSpec
<1>2. /\ d \in JobSpec
      /\ d.backoffLimit = OrDefault(step.backoffLimit, "0")
      /\ d.serviceAccountName = OrDefault(step.serviceAccountName, pipeline.serviceAccountName)
      /\ \A f \in Whole : d.whole[f] = OrDefault(step.whole[f], t.whole[f])
      /\ \A f \in Keyed, k \in Key : d.keyed[f][k] = OrDefault(step.keyed[f][k], t.keyed[f][k])
      /\ \A f \in Listed : d.listed[f] = step.listed[f] \o t.listed[f]
      /\ DOMAIN d.containers = DOMAIN step.containers
      /\ \A i \in DOMAIN step.containers : d.containers[i] = ContainerWithDefaults(t, step.containers[i])
  BY <1>i DEF Defaulted
<1>3. /\ job.whole = d.whole /\ job.keyed = d.keyed /\ job.listed = d.listed
      /\ job.backoffLimit = d.backoffLimit /\ job.serviceAccountName = d.serviceAccountName
      /\ DOMAIN job.containers = DOMAIN d.containers
      /\ \A i \in DOMAIN d.containers :
           /\ job.containers[i].image = d.containers[i].image
           /\ job.containers[i].resources = d.containers[i].resources
           /\ job.containers[i].env = d.containers[i].env
           /\ job.containers[i].envFrom = d.containers[i].envFrom
  BY <1>1, <1>2, SharedVolumeAdds
<1>4. /\ step.backoffLimit = Absent => job.backoffLimit = "0"
      /\ step.serviceAccountName = Absent => job.serviceAccountName = pipeline.serviceAccountName
      /\ \A f \in Whole : step.whole[f] = Absent => job.whole[f] = t.whole[f]
      /\ \A f \in Keyed, k \in Key : step.keyed[f][k] = Absent => job.keyed[f][k] = t.keyed[f][k]
  BY <1>2, <1>3 DEF OrDefault
<1>5. \A f \in Listed : Has(job.listed[f], t.listed[f])
  <2> SUFFICES ASSUME NEW f \in Listed
               PROVE  Has(job.listed[f], t.listed[f])
    OBVIOUS
  <2>1. step.listed[f] \in Seq(Value) /\ t.listed[f] \in Seq(Value)
    BY <1>1 DEF JobSpec, PodTemplateDefaults
  <2>2. job.listed[f] = step.listed[f] \o t.listed[f]
    BY <1>2, <1>3
  <2> QED BY <2>1, <2>2, ConcatHas
<1>6. ASSUME NEW i \in DOMAIN job.containers
      PROVE  LET own == step.containers[i]  c == job.containers[i]
             IN  /\ own.image = Absent => c.image = t.image
                 /\ NothingSet(own.resources) => c.resources = t.defaultResources
                 /\ \A k \in Key : EffectiveEnv(own.env, k) = Absent =>
                                     EffectiveEnv(c.env, k) = EffectiveEnv(t.env, k)
                 /\ Has(c.envFrom, t.envFrom)
  <2> DEFINE own == step.containers[i]
             c   == job.containers[i]
  <2>0. i \in DOMAIN step.containers /\ d.containers[i] = ContainerWithDefaults(t, own)
    BY <1>2, <1>3
  <2>1. own \in Container
    BY <1>1, <2>0 DEF JobSpec
  <2>2. /\ d.containers[i].image = OrDefault(own.image, t.image)
        /\ d.containers[i].resources = DefaultedResources(own.resources, t.defaultResources)
        /\ d.containers[i].env = own.env \o t.env /\ d.containers[i].envFrom = own.envFrom \o t.envFrom
    BY <1>1, <2>0, <2>1, ContainerDefaulted
  <2>3. /\ own.env \in Seq(EnvVar) /\ t.env \in Seq(EnvVar)
        /\ own.envFrom \in Seq(Value) /\ t.envFrom \in Seq(Value)
        /\ own.resources \in Resources /\ t.defaultResources \in Resources
    BY <1>1, <2>1 DEF Container, PodTemplateDefaults
  <2>4. /\ c.image = d.containers[i].image
        /\ c.resources = DefaultedResources(own.resources, t.defaultResources)
        /\ c.env = own.env \o t.env /\ c.envFrom = own.envFrom \o t.envFrom
    BY <1>3, <2>2
  <2>5. own.image = Absent => c.image = t.image
    BY <2>2, <2>4 DEF OrDefault
  <2>6. NothingSet(own.resources) => c.resources = t.defaultResources
    BY <2>3, <2>4, DefaultResourcesFill, Zenon
  <2>7. \A k \in Key : EffectiveEnv(own.env, k) = Absent =>
                         EffectiveEnv(c.env, k) = EffectiveEnv(t.env, k)
    BY <2>3, <2>4, EffectiveOfConcat
  <2>8. Has(c.envFrom, t.envFrom)
    BY <2>3, <2>4, ConcatHas
  <2> QED BY <2>5, <2>6, <2>7, <2>8
<1> QED BY <1>4, <1>5, <1>6 DEF DefaultsReachEveryContainer

\* Where the step is silent, every default of the pipeline is in effect, in
\* the pod and in each of its containers but the init containers, the
\* variables as the kubelet reads them (createJobForStep).
THEOREM DefaultsReach == Spec => []DefaultsReachEveryContainer
BY JobInvariant, DefaultsInv, PTL
=============================================================================
