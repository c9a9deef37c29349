---------------------------- MODULE MCPodTemplate ----------------------------
(***************************************************************************)
(* Small instances of PodTemplate.  Each kind of field is varied on its    *)
(* own against a plain rest, since the kinds are merged independently.     *)
(***************************************************************************)
EXTENDS PodTemplateProperties

Keys   == {"k1", "k2"}
Values == {"0", "own", "default", "workspace", "/workspace"}

Unset(S) == [f \in S |-> Absent]
EmptyMaps  == [f \in Keyed |-> Unset(Key)]
EmptyLists == [f \in Listed |-> <<>>]
NoResources == [limits |-> Absent, requests |-> Absent, claims |-> Absent]

PlainContainer ==
  [image |-> Absent, resources |-> NoResources, env |-> <<>>, envFrom |-> <<>>, volumeMounts |-> <<>>]

PlainStep ==
  [backoffLimit |-> Absent, whole |-> Unset(Whole), keyed |-> EmptyMaps, listed |-> EmptyLists,
   serviceAccountName |-> Absent, containers |-> <<PlainContainer>>,
   initContainers |-> <<PlainContainer>>, volumes |-> <<>>]

NoTemplate ==
  [whole |-> Unset(Whole), keyed |-> EmptyMaps, listed |-> EmptyLists,
   defaultResources |-> NoResources, image |-> Absent, env |-> <<>>, envFrom |-> <<>>]

NoVolume == [enabled |-> FALSE, name |-> Absent, mountPath |-> Absent, source |-> Absent]

PlainPipeline ==
  [serviceAccountName |-> Absent, podTemplate |-> NoTemplate, sharedVolume |-> NoVolume]

Either(v) == {Absent, v}
Lists(v)  == {<<>>, <<v>>}
Var(k, v) == [name |-> k, value |-> v]
Vars(v)   == {<<>>, <<Var("k1", v)>>, <<Var("k2", v), Var("k1", v)>>}
SomeResources(v) == [limits : Either(v), requests : Either(v), claims : Either(v)]

----------------------------------------------------------------------------
\* One kind at a time, set or not, in the step and in the pipeline.
WholeSteps ==
  {[PlainStep EXCEPT !.whole = w, !.serviceAccountName = s, !.backoffLimit = s] :
     w \in [Whole -> Either("own")], s \in Either("own")}

KeyedSteps ==
  {[PlainStep EXCEPT !.keyed = m, !.listed = [f \in Listed |-> l]] :
     m \in [Keyed -> [Key -> Either("own")]], l \in Lists("own")}

OwnContainers ==
  {[PlainContainer EXCEPT !.image = i, !.resources = r, !.env = e, !.envFrom = l] :
     i \in Either("own"), r \in SomeResources("own"), e \in Vars("own"), l \in Lists("own")}

Mount(name) == [name |-> name, mountPath |-> "own"]
OwnMounts   == {<<>>, <<Mount("own")>>, <<Mount("workspace")>>}
OwnVolumes  == {<<>>, <<[name |-> "own", source |-> "own"]>>}

ContainerSteps ==
  {[PlainStep EXCEPT !.containers = <<c, PlainContainer>>] : c \in OwnContainers}
    \cup {[PlainStep EXCEPT !.volumes = v, !.containers = <<[PlainContainer EXCEPT !.volumeMounts = m], PlainContainer>>] :
            m \in OwnMounts, v \in OwnVolumes}

AllSteps == WholeSteps \cup KeyedSteps \cup ContainerSteps

FullTemplate ==
  [whole |-> [f \in Whole |-> "default"], keyed |-> [f \in Keyed |-> [k \in Key |-> "default"]],
   listed |-> [f \in Listed |-> <<"default">>],
   defaultResources |-> [NoResources EXCEPT !.limits = "default", !.requests = "default"],
   image |-> "default", env |-> <<Var("k1", "default")>>, envFrom |-> <<"default">>]

Templates ==
  {NoTemplate, FullTemplate}
    \cup {[FullTemplate EXCEPT !.whole = Unset(Whole), !.defaultResources = r] : r \in SomeResources("default")}
    \cup {[NoTemplate EXCEPT !.whole[f] = "default"] : f \in Whole}

Volumes ==
  {NoVolume} \cup [enabled : {TRUE}, name : Either("own"), mountPath : Either("own"), source : Either("own")]

AllPipelines ==
  {[PlainPipeline EXCEPT !.podTemplate = t, !.serviceAccountName = s] :
     t \in Templates, s \in Either("default")}
    \cup {[PlainPipeline EXCEPT !.podTemplate = FullTemplate, !.sharedVolume = v] : v \in Volumes}
=============================================================================
