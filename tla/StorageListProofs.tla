-------------------------- MODULE StorageListProofs --------------------------
(***************************************************************************)
(* The pages of storage as part of the monitor, for any claims and         *)
(* secrets, whatever is typed, and any numbers of requests: saves of a     *)
(* visit do not overlap.  A save stays between the click and the end of    *)
(* the list that is read after it, first as a request and then as that     *)
(* list; each operation has one of the two at most, and while it has, its  *)
(* button is disabled.                                                     *)
(***************************************************************************)
EXTENDS PipelineMonitorProofs

Saving == {"create", "edit"}

StorageTypes ==
  /\ stored \in [StorageKind -> [Key -> Thing]] /\ storage \in StoragePage
  /\ listings \in Seq(Listing) /\ dialog \in Dialog
  /\ busy \in [Saving -> BOOLEAN] /\ writes \subseteq Write

\* Dialogs and requests are those of the page that is open.
StorageScope ==
  /\ OnStorage /\ storage.loading => listings # <<>>
  /\ dialog.kind # "none" => OnStorage
  /\ dialog.kind \in {"view", "edit"} => dialog.key \in Key
  /\ \A w \in writes : w.here => OnStorage

\* A save is one request or one list.
ByRequest(w)  == w.here /\ w.op \in Saving
ByListing(i)  == listings[i].ends \in Saving
SavesApart ==
  /\ \A w \in writes : ByRequest(w) => busy[w.op]
  /\ \A v, w \in writes : ByRequest(v) /\ ByRequest(w) /\ v.op = w.op => v = w
  /\ \A i \in DOMAIN listings : ByListing(i) => busy[listings[i].ends]
  /\ \A i, j \in DOMAIN listings : ByListing(i) /\ listings[i].ends = listings[j].ends => i = j
  /\ \A i \in DOMAIN listings, w \in writes : ByListing(i) /\ ByRequest(w) => listings[i].ends # w.op

StorageInv == StorageTypes /\ StorageScope /\ SavesApart

MonitorInv == PagesInv /\ StorageInv

----------------------------------------------------------------------------
\* What the helpers return.

\* Two sequences, joined, are the elements of one after the other's.
LEMMA ConcatElements ==
  ASSUME NEW S, NEW s \in Seq(S), NEW t \in Seq(S)
  PROVE  /\ s \o t \in Seq(S) /\ Len(s \o t) = Len(s) + Len(t)
         /\ \A j \in 1..Len(s) : (s \o t)[j] = s[j]
         /\ \A j \in 1..Len(t) : (s \o t)[Len(s) + j] = t[j]
OBVIOUS

\* A sequence without one of its elements has the others, in their order.
LEMMA WithoutElements ==
  ASSUME NEW S, NEW s \in Seq(S), NEW i \in DOMAIN s
  PROVE  \A j \in DOMAIN Without(s, i) :
           LET from == IF j < i THEN j ELSE j + 1
           IN  from \in DOMAIN s /\ from # i /\ Without(s, i)[j] = s[from]
<1>1. i \in 1..Len(s) /\ Len(s) \in Nat /\ DOMAIN s = 1..Len(s)
  OBVIOUS
<1> DEFINE before == SubSeq(s, 1, i - 1)
           after  == SubSeq(s, i + 1, Len(s))
<1>2. /\ before \in Seq(S) /\ Len(before) = i - 1
      /\ \A j \in 1..(i - 1) : before[j] = s[j]
  BY <1>1
<1>3. /\ after \in Seq(S) /\ Len(after) = Len(s) - i
      /\ \A j \in 1..(Len(s) - i) : after[j] = s[j + i]
  BY <1>1
<1>4. Without(s, i) = before \o after
  BY DEF Without
<1> HIDE DEF before, after
<1>5. /\ Without(s, i) \in Seq(S) /\ Len(Without(s, i)) = Len(s) - 1
      /\ \A j \in 1..(i - 1) : Without(s, i)[j] = s[j]
      /\ \A j \in 1..(Len(s) - i) : Without(s, i)[i - 1 + j] = s[j + i]
  <2>1. /\ before \o after \in Seq(S) /\ Len(before \o after) = Len(before) + Len(after)
        /\ \A j \in 1..Len(before) : (before \o after)[j] = before[j]
        /\ \A j \in 1..Len(after) : (before \o after)[Len(before) + j] = after[j]
    BY <1>2, <1>3, ConcatElements
  <2>2. Len(before \o after) = Len(s) - 1
    BY <1>1, <1>2, <1>3, <2>1
  <2>3. \A j \in 1..(Len(s) - i) : (before \o after)[i - 1 + j] = s[j + i]
    BY <1>2, <1>3, <2>1
  <2>4. \A j \in 1..(i - 1) : (before \o after)[j] = s[j]
    BY <1>2, <2>1
  <2> QED
    BY <1>4, <2>1, <2>2, <2>3, <2>4
<1>6. DOMAIN Without(s, i) = 1..(Len(s) - 1)
  BY <1>1, <1>5
<1> SUFFICES ASSUME NEW j \in 1..(Len(s) - 1)
             PROVE  LET from == IF j < i THEN j ELSE j + 1
                    IN  from \in DOMAIN s /\ from # i /\ Without(s, i)[j] = s[from]
  BY <1>6
<1>7. CASE j < i
  BY <1>1, <1>5, <1>7
<1>8. CASE ~ j < i
  <2>1. j - i + 1 \in 1..(Len(s) - i) /\ i - 1 + (j - i + 1) = j /\ (j - i + 1) + i = j + 1
    BY <1>1, <1>8
  <2>2. Without(s, i)[j] = s[j + 1]
    BY <1>5, <2>1
  <2> QED
    BY <1>1, <1>8, <2>2
<1> QED
  BY <1>7, <1>8

\* A cluster in which nothing is stored is one.
LEMMA NoThings == [k \in Key |-> NoThing] \in [Key -> Thing]
BY DEF NoThing, Thing, Data

\* A page of storage that has just been opened has its types.
LEMMA NewStorageTypes ==
  /\ NewStorage \in StoragePage /\ NewStorage.loading
  /\ Closed \in Dialog /\ Closed.kind = "none"
  /\ NotBusy \in [Saving -> BOOLEAN]
<1>1. NewStorage \in StoragePage /\ NewStorage.loading
  BY KeyAssumption, NoThings DEF NewStorage, StoragePage
<1>2. Closed \in Dialog /\ Closed.kind = "none"
  BY DEF Closed, Dialog, Names, Data
<1>3. NotBusy \in [Saving -> BOOLEAN]
  BY DEF NotBusy, Saving
<1> QED
  BY <1>1, <1>2, <1>3

\* What the cluster lists are things.
LEMMA ListThingsType ==
  ASSUME StorageTypes, NEW kind \in StorageKind, NEW ns PROVE ListThings(kind, ns) \in [Key -> Thing]
BY NoThings DEF ListThings, StorageTypes, NoThing, Thing, Data

\* As before, or the one that was added.
LongerBy(longer, i, op) ==
  \/ i \in DOMAIN listings /\ longer[i] = listings[i]
  \/ i = Len(listings) + 1 /\ longer[i].ends = op

\* One more list is the last of the lists, and of that operation.
LEMMA ListingForFacts ==
  ASSUME StorageTypes, OnStorage, NEW ns, NEW op \in Saving \cup {"nothing"}
  PROVE  /\ ListingFor(ns, op) \in Seq(Listing) /\ ListingFor(ns, op) # <<>>
         /\ \A i \in DOMAIN ListingFor(ns, op) : LongerBy(ListingFor(ns, op), i, op)
<1> DEFINE new == [items |-> ListThings(page, ns), ends |-> op]
<1>1. new \in Listing /\ new.ends = op
  BY ListThingsType DEF OnStorage, Listing, Saving
<1>2. ListingFor(ns, op) = Append(listings, new) /\ listings \in Seq(Listing)
  BY DEF ListingFor, StorageTypes
<1> HIDE DEF new
<1> QED
  BY <1>1, <1>2 DEF LongerBy

\* The pairs of a dialog, and what is made of them, have their types.
LEMMA PairTypes ==
  ASSUME NEW pairs \in Seq(Pair)
  PROVE  AtLeastOne(pairs) \in Seq(Pair) /\ DataOf(pairs) \in Data
<1>1. AtLeastOne(pairs) \in Seq(Pair)
  BY TypedAssumption DEF AtLeastOne
<1>2. ASSUME NEW i \in DOMAIN pairs PROVE Trim[pairs[i].key] \in Typed /\ pairs[i].value \in Value
  <2>1. pairs[i] \in Pair
    OBVIOUS
  <2> QED
    BY <2>1, TypedAssumption DEF Pair
<1>3. \A i \in Counted(pairs) : <<Trim[pairs[i].key], pairs[i].value>> \in Typed \X Value
  BY <1>2 DEF Counted
<1>4. DataOf(pairs) \in Data
  BY <1>3 DEF DataOf, Data
<1> QED
  BY <1>1, <1>4

\* So have the pairs that are made of data.
LEMMA PairsOfType == ASSUME NEW data, NEW pairs \in PairsOf(data) PROVE pairs \in Seq(Pair)
<1>1. PICK n \in 0..MaxPairs : pairs \in [1..n -> Pair]
  BY DEF PairsOf, Rows
<1> QED
  BY <1>1, PairsAssumption

\* Operations stay busy or not when one of them ends.
LEMMA NotAfterType ==
  ASSUME StorageTypes, NEW op PROVE NotAfter(op) \in [Saving -> BOOLEAN]
BY DEF NotAfter, StorageTypes

----------------------------------------------------------------------------
\* The steps that change the requests.

\* What leaves the page of storage alone keeps its invariant.
LEMMA StorageUnchanged == ASSUME StorageInv, UNCHANGED <<page, storagePage>> PROVE StorageInv'
BY DEF StorageInv, StorageTypes, StorageScope, SavesApart, ByRequest, ByListing, OnStorage, storagePage

\* One more list that ends nothing keeps the saves apart.
LEMMA ListingAppended ==
  ASSUME StorageInv, OnStorage, NEW ns, listings' = ListingFor(ns, "nothing"), UNCHANGED <<busy, writes>>
  PROVE  listings' \in Seq(Listing) /\ listings' # <<>> /\ SavesApart'
<1>1. /\ listings' \in Seq(Listing) /\ listings' # <<>>
      /\ \A i \in DOMAIN listings' : LongerBy(listings', i, "nothing")
  BY ListingForFacts DEF StorageInv
<1> QED
  BY <1>1 DEF LongerBy, StorageInv, SavesApart, ByRequest, ByListing, Saving

\* Asking for a list keeps the invariant.
LEMMA Polls ==
  ASSUME StorageInv, PollStorage PROVE StorageInv'
<1>1. OnStorage /\ UNCHANGED <<page, stored, storage, dialog, busy, writes>>
  BY DEF PollStorage, ground
<1>2. listings' \in Seq(Listing) /\ listings' # <<>> /\ SavesApart'
  BY <1>1, ListingAppended DEF PollStorage
<1>3. StorageTypes' /\ StorageScope'
  BY <1>1, <1>2 DEF StorageInv, StorageTypes, StorageScope, OnStorage
<1> QED
  BY <1>2, <1>3 DEF StorageInv

\* So does a list that comes.
LEMMA Answers ==
  ASSUME StorageInv, NEW i \in DOMAIN listings, AnswerListing(i) PROVE StorageInv'
<1> DEFINE op == listings[i].ends
<1>1. UNCHANGED <<page, stored, dialog, writes>>
  BY DEF AnswerListing
<1>2. listings[i] \in Listing
  BY DEF StorageInv, StorageTypes
<1>3. storage' \in StoragePage /\ ~ storage'.loading
  BY <1>2, NoThings DEF AnswerListing, Listed, StoragePage, StorageInv, StorageTypes, Listing
<1>4. listings' \in Seq(Listing) /\ listings' = Without(listings, i)
  BY WithoutType DEF AnswerListing, StorageInv, StorageTypes
<1>5. busy' \in [Saving -> BOOLEAN] /\ busy' = NotAfter(op)
  BY NotAfterType DEF AnswerListing, StorageInv
<1>6. \A j \in DOMAIN listings' : \E from \in DOMAIN listings :
        from = (IF j < i THEN j ELSE j + 1) /\ from # i /\ listings'[j] = listings[from]
  <2>1. listings \in Seq(Listing)
    BY DEF StorageInv, StorageTypes
  <2> QED
    BY <1>4, <2>1, WithoutElements
<1>7. op \in Saving => busy' = [busy EXCEPT ![op] = FALSE]
  BY <1>5 DEF NotAfter, Saving
<1>8. op \notin Saving => busy' = busy
  BY <1>2, <1>5 DEF NotAfter, Saving, Listing
<1>9. \A other \in Saving : other # op => busy'[other] = busy[other]
  BY <1>7, <1>8 DEF StorageInv, StorageTypes
<1> HIDE DEF op
<1>10. SavesApart'
  <2>1. \A w \in writes' : ByRequest(w)' => busy'[w.op]
    BY <1>1, <1>8, <1>9 DEF StorageInv, SavesApart, ByRequest, ByListing, op
  <2>2. \A v, w \in writes' : ByRequest(v)' /\ ByRequest(w)' /\ v.op = w.op => v = w
    BY <1>1 DEF StorageInv, SavesApart, ByRequest
  <2>3. \A j \in DOMAIN listings' : ByListing(j)' => busy'[listings'[j].ends]
    BY <1>6, <1>8, <1>9 DEF StorageInv, SavesApart, ByListing, op
  <2>4. \A j, k \in DOMAIN listings' : ByListing(j)' /\ listings'[j].ends = listings'[k].ends => j = k
    <3> SUFFICES ASSUME NEW j \in DOMAIN listings', NEW k \in DOMAIN listings',
                        ByListing(j)', listings'[j].ends = listings'[k].ends
                 PROVE  j = k
      OBVIOUS
    <3>1. PICK f \in DOMAIN listings : f = (IF j < i THEN j ELSE j + 1) /\ listings'[j] = listings[f]
      BY <1>6
    <3>2. PICK g \in DOMAIN listings : g = (IF k < i THEN k ELSE k + 1) /\ listings'[k] = listings[g]
      BY <1>6
    <3>3. f = g
      BY <3>1, <3>2 DEF StorageInv, SavesApart, ByListing
    <3>4. i \in Nat /\ j \in Nat /\ k \in Nat
      BY <1>4 DEF StorageInv, StorageTypes
    <3> QED
      BY <3>1, <3>2, <3>3, <3>4
  <2>5. \A j \in DOMAIN listings', w \in writes' : ByListing(j)' /\ ByRequest(w)' => listings'[j].ends # w.op
    BY <1>1, <1>6 DEF StorageInv, SavesApart, ByRequest, ByListing
  <2> QED
    BY <2>1, <2>2, <2>3, <2>4, <2>5 DEF SavesApart
<1>11. StorageTypes' /\ StorageScope'
  BY <1>1, <1>3, <1>4, <1>5 DEF StorageInv, StorageTypes, StorageScope, OnStorage
<1> QED
  BY <1>10, <1>11 DEF StorageInv

\* So does the answer to a write: its request becomes a list.
LEMMA AnswersWrite ==
  ASSUME StorageInv, NEW w \in writes, AnswerWrite(w) PROVE StorageInv'
<1>1. UNCHANGED <<page, stored, storage, busy>> /\ writes' = writes \ {w}
  BY DEF AnswerWrite, ground
<1>2. dialog' \in Dialog /\ dialog' \in {dialog, Closed}
  BY NewStorageTypes DEF AnswerWrite, StorageInv, StorageTypes
<1>3. CASE ~ w.here
  <2>1. listings' = listings
    BY <1>3 DEF AnswerWrite
  <2>2. StorageTypes' /\ StorageScope'
    BY <1>1, <1>2, <2>1, NewStorageTypes DEF StorageInv, StorageTypes, StorageScope, OnStorage
  <2>3. SavesApart'
    BY <1>1, <2>1 DEF StorageInv, SavesApart, ByRequest, ByListing
  <2> QED
    BY <2>2, <2>3 DEF StorageInv
<1>4. CASE w.here
  <2> DEFINE op == IF w.op = "delete" THEN "nothing" ELSE w.op
  <2>1. OnStorage /\ w \in Write
    BY <1>4 DEF StorageInv, StorageScope, StorageTypes
  <2>2. op \in Saving \cup {"nothing"} /\ (op \in Saving => ByRequest(w) /\ w.op = op)
    BY <1>4, <2>1 DEF Write, Saving, ByRequest
  <2>3. listings' = ListingFor(storage.namespace, op)
    BY <1>4 DEF AnswerWrite
  <2> HIDE DEF op
  <2>4. /\ listings' \in Seq(Listing) /\ listings' # <<>>
        /\ \A i \in DOMAIN listings' : LongerBy(listings', i, op)
    BY <2>1, <2>2, <2>3, ListingForFacts DEF StorageInv
  <2>5. StorageTypes' /\ StorageScope'
    BY <1>1, <1>2, <2>4, NewStorageTypes DEF StorageInv, StorageTypes, StorageScope, OnStorage
  <2>6. SavesApart'
    <3>1. \A v \in writes' : ByRequest(v)' => busy'[v.op] /\ v.op # op
      BY <1>1, <2>2 DEF StorageInv, SavesApart, ByRequest
    <3>2. \A u, v \in writes' : ByRequest(u)' /\ ByRequest(v)' /\ u.op = v.op => u = v
      BY <1>1 DEF StorageInv, SavesApart, ByRequest
    <3>3. \A i \in DOMAIN listings : ByListing(i) => listings[i].ends # op
      BY <2>2 DEF StorageInv, SavesApart, ByListing
    <3>4. \A i \in DOMAIN listings' : ByListing(i)' => busy'[listings'[i].ends]
      BY <1>1, <2>2, <2>4 DEF LongerBy, StorageInv, SavesApart, ByListing
    <3>5. \A i, j \in DOMAIN listings' : ByListing(i)' /\ listings'[i].ends = listings'[j].ends => i = j
      BY <2>4, <3>3 DEF LongerBy, StorageInv, SavesApart, ByListing
    <3>6. \A i \in DOMAIN listings', v \in writes' : ByListing(i)' /\ ByRequest(v)' => listings'[i].ends # v.op
      BY <1>1, <2>4, <3>1 DEF LongerBy, StorageInv, SavesApart, ByListing, ByRequest
    <3> QED
      BY <3>1, <3>2, <3>4, <3>5, <3>6 DEF SavesApart
  <2> QED
    BY <2>5, <2>6 DEF StorageInv
<1> QED
  BY <1>3, <1>4

\* So does a write that fails.
LEMMA FailsWrite ==
  ASSUME StorageInv, NEW w \in writes, FailWrite(w) PROVE StorageInv'
<1>1. UNCHANGED <<page, stored, storage, listings>> /\ writes' = writes \ {w}
  BY DEF FailWrite
<1>2. dialog' \in Dialog /\ dialog'.kind = dialog.kind /\ dialog'.key = dialog.key
  BY DEF FailWrite, StorageInv, StorageTypes, Dialog
<1>3. w \in Write
  BY DEF StorageInv, StorageTypes
<1>4. busy' \in [Saving -> BOOLEAN] /\ (~ ByRequest(w) => busy' = busy)
  BY <1>3, NotAfterType DEF FailWrite, NoLongerBusy, NotAfter, ByRequest, Write, Saving, StorageInv, StorageTypes
<1>5. \A op \in Saving : op # w.op => busy'[op] = busy[op]
  BY <1>3 DEF FailWrite, NoLongerBusy, NotAfter, Write, Saving, StorageInv, StorageTypes
<1>6. StorageTypes' /\ StorageScope'
  BY <1>1, <1>2, <1>4 DEF StorageInv, StorageTypes, StorageScope, OnStorage
<1>7. SavesApart'
  BY <1>1, <1>4, <1>5 DEF StorageInv, SavesApart, ByRequest, ByListing
<1> QED
  BY <1>6, <1>7 DEF StorageInv

\* So does one that reaches the cluster.
LEMMA TakesWrite ==
  ASSUME StorageInv, NEW w \in writes, TakeWrite(w) PROVE StorageInv'
<1> DEFINE taken == [w EXCEPT !.taken = TRUE]
<1>1. UNCHANGED <<page, storage, listings, dialog, busy>> /\ writes' = (writes \ {w}) \cup {taken}
  BY DEF TakeWrite, ground
<1>2. w \in Write
  BY DEF StorageInv, StorageTypes
<1>3. taken \in Write /\ taken.op = w.op /\ taken.here = w.here
  BY <1>2 DEF Write
<1>4. stored' \in [StorageKind -> [Key -> Thing]]
  <2>1. w.kind \in StorageKind /\ w.key \in Key /\ w.data \in Data
    BY <1>2 DEF Write
  <2> DEFINE thing == IF w.op = "delete" THEN NoThing ELSE [there |-> TRUE, data |-> w.data]
  <2>2. thing \in Thing
    BY <2>1 DEF NoThing, Thing, Data
  <2>3. stored' = [stored EXCEPT ![w.kind][w.key] = thing]
    BY DEF TakeWrite
  <2> HIDE DEF thing
  <2> QED
    BY <2>1, <2>2, <2>3 DEF StorageInv, StorageTypes
<1> HIDE DEF taken
<1>5. StorageTypes' /\ StorageScope'
  BY <1>1, <1>3, <1>4 DEF StorageInv, StorageTypes, StorageScope, OnStorage
<1>6. SavesApart'
  BY <1>1, <1>3 DEF StorageInv, SavesApart, ByRequest, ByListing
<1> QED
  BY <1>5, <1>6 DEF StorageInv

\* So does what others store.
LEMMA StoresOther ==
  ASSUME StorageInv, NEW kind \in StorageKind, NEW k \in Key, NEW thing \in Foreign, OtherStores(kind, k, thing)
  PROVE  StorageInv'
<1>1. UNCHANGED <<page, storage, listings, dialog, busy, writes>>
  BY DEF OtherStores
<1>2. stored' \in [StorageKind -> [Key -> Thing]]
  BY ThingsAssumption DEF OtherStores, StorageInv, StorageTypes
<1>3. StorageTypes' /\ StorageScope' /\ SavesApart'
  BY <1>1, <1>2 DEF StorageInv, StorageTypes, StorageScope, SavesApart, ByRequest, ByListing, OnStorage
<1> QED
  BY <1>3 DEF StorageInv

----------------------------------------------------------------------------
\* The dialogs.

\* So does a dialog that is opened or closed.
LEMMA SetsDialog ==
  ASSUME StorageInv, NEW d \in Dialog, SetDialog(d), d.kind # "none" => OnStorage,
         d.kind \in {"view", "edit"} => d.key \in Key
  PROVE  StorageInv'
<1>1. dialog' = d /\ UNCHANGED <<page, stored, storage, listings, busy, writes>>
  BY DEF SetDialog
<1>2. StorageTypes' /\ StorageScope' /\ SavesApart'
  BY <1>1 DEF StorageInv, StorageTypes, StorageScope, SavesApart, ByRequest, ByListing, OnStorage
<1> QED
  BY <1>2 DEF StorageInv

\* So does a pair that is typed.
LEMMA SetsPairs ==
  ASSUME StorageInv, NEW pairs \in Seq(Pair), SetPairs(pairs) PROVE StorageInv'
<1> DEFINE d == [dialog EXCEPT !.pairs = pairs]
<1>1. d \in Dialog /\ d.kind = dialog.kind /\ d.key = dialog.key
  BY DEF StorageInv, StorageTypes, Dialog
<1>2. SetDialog(d)
  BY DEF SetPairs
<1> HIDE DEF d
<1> QED
  BY <1>1, <1>2, SetsDialog DEF StorageInv, StorageScope

\* So does a write that is sent, as none of its operation is under way.
LEMMA Asks ==
  ASSUME StorageInv, OnStorage, NEW op \in Saving \cup {"delete"}, NEW k \in Key, NEW data \in Data,
         writes' = writes \cup {[kind |-> page, op |-> op, key |-> k, data |-> data, taken |-> FALSE, here |-> TRUE]},
         UNCHANGED <<page, stored, storage, listings>>, dialog' \in Dialog,
         dialog'.kind = dialog.kind, dialog'.key = dialog.key,
         \/ op = "delete" /\ busy' = busy
         \/ op # "delete" /\ ~ busy[op] /\ busy' = [busy EXCEPT ![op] = TRUE]
  PROVE  StorageInv'
<1> DEFINE new == [kind |-> page, op |-> op, key |-> k, data |-> data, taken |-> FALSE, here |-> TRUE]
<1>1. new \in Write /\ new.op = op /\ new.here
  BY DEF Write, Saving, OnStorage
<1>2. writes' = writes \cup {new}
  OBVIOUS
<1> HIDE DEF new
<1>3. busy' \in [Saving -> BOOLEAN] /\ \A other \in Saving : busy[other] => busy'[other]
  BY DEF StorageInv, StorageTypes, Saving
<1>4. StorageTypes' /\ StorageScope'
  BY <1>1, <1>2, <1>3 DEF StorageInv, StorageTypes, StorageScope, OnStorage
<1>5. CASE op = "delete"
  <2>1. ~ ByRequest(new) /\ busy' = busy
    BY <1>1, <1>5 DEF ByRequest, Saving
  <2>2. SavesApart'
    BY <1>2, <2>1 DEF StorageInv, SavesApart, ByRequest, ByListing
  <2> QED
    BY <1>4, <2>2 DEF StorageInv
<1>6. CASE op # "delete"
  <2>1. op \in Saving /\ ~ busy[op] /\ busy'[op]
    BY <1>6 DEF StorageInv, StorageTypes
  <2>2. \A w \in writes : ByRequest(w) => w.op # op /\ busy'[w.op]
    BY <1>3, <2>1 DEF StorageInv, SavesApart, ByRequest
  <2>3. \A i \in DOMAIN listings : ByListing(i) => listings[i].ends # op /\ busy'[listings[i].ends]
    BY <1>3, <2>1 DEF StorageInv, SavesApart, ByListing
  <2>4. SavesApart'
    BY <1>1, <1>2, <2>1, <2>2, <2>3 DEF StorageInv, SavesApart, ByRequest, ByListing
  <2> QED
    BY <1>4, <2>4 DEF StorageInv
<1> QED
  BY <1>5, <1>6

\* So does a dialog that complains of what was typed.
LEMMA Complains ==
  ASSUME StorageInv, Complain PROVE StorageInv'
<1> DEFINE d == [dialog EXCEPT !.error = TRUE]
<1>1. d \in Dialog /\ d.kind = dialog.kind /\ d.key = dialog.key
  BY DEF StorageInv, StorageTypes, Dialog
<1>2. SetDialog(d)
  BY DEF Complain
<1> HIDE DEF d
<1> QED
  BY <1>1, <1>2, SetsDialog DEF StorageInv, StorageScope

\* So does a dialog that is sent.
LEMMA Sends ==
  ASSUME StorageInv, NEW op \in Saving, MaySave(op), NEW k \in Key, NEW data \in Data, SendDialog(op, k, data)
  PROVE  StorageInv'
<1>1. OnStorage /\ ~ busy[op] /\ op # "delete"
  BY DEF MaySave, StorageInv, StorageScope, Saving
<1>2. dialog' \in Dialog /\ dialog'.kind = dialog.kind /\ dialog'.key = dialog.key
  BY DEF SendDialog, StorageInv, StorageTypes, Dialog
<1>3. UNCHANGED <<page, stored, storage, listings>> /\ busy' = [busy EXCEPT ![op] = TRUE]
  BY DEF SendDialog, Ask, ground
<1>4. writes' = writes \cup {[kind |-> page, op |-> op, key |-> k, data |-> data, taken |-> FALSE, here |-> TRUE]}
  BY DEF SendDialog, Ask
<1> QED
  BY <1>1, <1>2, <1>3, <1>4, Asks

\* So does whatever happens in a dialog.
LEMMA Dialogs ==
  ASSUME StorageInv, DialogStep PROVE StorageInv'
<1>1. dialog \in Dialog /\ dialog.pairs \in Seq(Pair) /\ dialog.data \in Data /\ dialog.name \in Names
  BY DEF StorageInv, StorageTypes, Dialog
<1>2. CASE OpenCreateModal
  <2> DEFINE d == [Closed EXCEPT !.kind = "create", !.pairs = <<Blank>>]
  <2>1. <<Blank>> \in Seq(Pair)
    BY TypedAssumption
  <2>2. d \in Dialog /\ d.kind = "create" /\ SetDialog(d) /\ OnStorage
    BY <1>2, <2>1, NewStorageTypes DEF OpenCreateModal, Ready, Dialog
  <2> HIDE DEF d
  <2> QED
    BY <2>2, SetsDialog
<1>3. CASE OpenEditModal
  <2>1. PICK pairs \in PairsOf(dialog.data) : SetDialog([dialog EXCEPT !.kind = "edit", !.pairs = AtLeastOne(pairs)])
    BY <1>3 DEF OpenEditModal
  <2> DEFINE d == [dialog EXCEPT !.kind = "edit", !.pairs = AtLeastOne(pairs)]
  <2>2. AtLeastOne(pairs) \in Seq(Pair)
    BY PairsOfType, PairTypes
  <2>3. d \in Dialog /\ d.kind = "edit" /\ d.key = dialog.key /\ dialog.kind = "view"
    BY <1>1, <1>3, <2>2 DEF Dialog, OpenEditModal
  <2>4. SetDialog(d)
    BY <2>1
  <2> HIDE DEF d
  <2> QED
    BY <2>3, <2>4, SetsDialog DEF StorageInv, StorageScope
<1>4. CASE CloseModal
  BY <1>4, NewStorageTypes, SetsDialog DEF CloseModal
<1>5. CASE AddKeyValuePair
  BY <1>1, <1>5, TypedAssumption, AppendFacts, SetsPairs DEF AddKeyValuePair
<1>6. CASE Create
  <2> DEFINE k == <<storage.namespace, dialog.name>>
             data == IF IsSecret THEN DataOf(dialog.pairs) ELSE {}
  <2>1. MaySave("create") /\ (k \in Key \/ dialog.name = "")
    BY <1>6 DEF Create
  <2>2. data \in Data
    BY <1>1, PairTypes DEF Data
  <2>3. (dialog.name # "" /\ SendDialog("create", k, data)) \/ Complain
    BY <1>6 DEF Create
  <2> HIDE DEF k, data
  <2> QED
    BY <2>1, <2>2, <2>3, Sends, Complains DEF Saving
<1>7. CASE SaveEdit
  <2>1. MaySave("edit") /\ dialog.key \in Key
    BY <1>7 DEF SaveEdit, MaySave, StorageInv, StorageScope
  <2>2. DataOf(dialog.pairs) \in Data
    BY <1>1, PairTypes
  <2> QED
    BY <1>7, <2>1, <2>2, Sends, Complains DEF SaveEdit, Saving
<1>8. ASSUME NEW k \in Key, OpenViewModal(k) PROVE StorageInv'
  <2> DEFINE d == [Closed EXCEPT !.kind = "view", !.key = k, !.data = storage.items[k].data]
  <2>1. storage.items[k].data \in Data
    <3>1. storage.items[k] \in Thing
      BY DEF StorageInv, StorageTypes, StoragePage
    <3> QED
      BY <3>1 DEF Thing
  <2>2. d \in Dialog /\ d.kind = "view" /\ d.key = k
    BY <2>1, NewStorageTypes DEF Dialog
  <2>3. SetDialog(d) /\ OnStorage
    BY <1>8 DEF OpenViewModal, Ready
  <2> HIDE DEF d
  <2> QED
    BY <2>2, <2>3, SetsDialog
<1>9. ASSUME NEW k \in Key, DeleteThing(k) PROVE StorageInv'
  <2>1. OnStorage /\ UNCHANGED <<page, stored, storage, listings, dialog, busy>>
    BY <1>9 DEF DeleteThing, Ready
  <2>2. writes' = writes \cup {[kind |-> page, op |-> "delete", key |-> k, data |-> {}, taken |-> FALSE, here |-> TRUE]}
    BY <1>9 DEF DeleteThing
  <2>3. {} \in Data
    BY DEF Data
  <2> QED
    BY <1>1, <2>1, <2>2, <2>3, Asks
<1>10. ASSUME NEW name \in Names, SetName(name) PROVE StorageInv'
  <2> DEFINE d == [dialog EXCEPT !.name = name]
  <2>1. d \in Dialog /\ d.kind = dialog.kind /\ d.key = dialog.key
    BY <1>1 DEF Dialog
  <2>2. SetDialog(d)
    BY <1>10 DEF SetName
  <2> HIDE DEF d
  <2> QED
    BY <2>1, <2>2, SetsDialog DEF StorageInv, StorageScope
<1>11. ASSUME NEW i \in DOMAIN dialog.pairs, RemoveKeyValuePair(i) PROVE StorageInv'
  BY <1>1, <1>11, WithoutType, PairTypes, SetsPairs DEF RemoveKeyValuePair
<1>12. ASSUME NEW i \in DOMAIN dialog.pairs, UpdateKeyValuePair(i) PROVE StorageInv'
  <2>1. dialog.pairs[i] \in Pair
    BY <1>1
  <2>2. ASSUME NEW pair \in Pair PROVE [dialog.pairs EXCEPT ![i] = pair] \in Seq(Pair)
    BY <1>1
  <2>3. CASE \E key \in Typed : SetPairs([dialog.pairs EXCEPT ![i].key = key])
    <3>1. PICK key \in Typed : SetPairs([dialog.pairs EXCEPT ![i].key = key])
      BY <2>3
    <3>2. [dialog.pairs[i] EXCEPT !.key = key] \in Pair
      BY <2>1 DEF Pair
    <3>3. [dialog.pairs EXCEPT ![i].key = key] \in Seq(Pair)
      BY <2>2, <3>2
    <3> QED
      BY <3>1, <3>3, SetsPairs
  <2>4. CASE \E value \in Value : SetPairs([dialog.pairs EXCEPT ![i].value = value])
    <3>1. PICK value \in Value : SetPairs([dialog.pairs EXCEPT ![i].value = value])
      BY <2>4
    <3>2. [dialog.pairs[i] EXCEPT !.value = value] \in Pair
      BY <2>1 DEF Pair
    <3>3. [dialog.pairs EXCEPT ![i].value = value] \in Seq(Pair)
      BY <2>2, <3>2
    <3> QED
      BY <3>1, <3>3, SetsPairs
  <2> QED
    BY <1>12, <2>3, <2>4 DEF UpdateKeyValuePair
<1> QED
  BY <1>2, <1>3, <1>4, <1>5, <1>6, <1>7, <1>8, <1>9, <1>10, <1>11, <1>12 DEF DialogStep

----------------------------------------------------------------------------
\* The monitor.

\* So does whatever happens on a page of storage.
LEMMA StorageSteps ==
  ASSUME PagesInv, StorageInv, InStorage PROVE StorageInv'
BY Polls, Answers, Dialogs, AnswersWrite, FailsWrite, TakesWrite, StoresOther DEF InStorage, StorageStep

\* The other pages leave those of storage alone.
LEMMA Elsewhere ==
  ASSUME OnCluster \/ InList \/ InDetail PROVE UNCHANGED <<page, storagePage>>
<1>1. CASE OnCluster
  BY <1>1 DEF OnCluster, Cluster, Progress, Vanish, OtherDeletes, OtherCreates, TakeDelete, FailDelete
<1>2. CASE InList
  BY <1>2 DEF InList, ListStep, PollList, AnswerList, FailList, DeleteFromList, ReloadAfterDelete, AskDelete, ground
<1>3. CASE InDetail
  BY <1>3 DEF InDetail, DetailStep, PollPipeline, AnswerPipeline, FailPipeline, FinishLayout, SelectStep, CloseDrawer,
              SetSelected, DeletePipeline, DrawerStep, ActiveTab, LoadLogs, AnswerLogs, FailLogs, AnswerEvents,
              AskDelete, ground
<1> QED
  BY <1>1, <1>2, <1>3

\* The writes of a page that is left await no answer there.
LEMMA AbandonedWritesType ==
  ASSUME StorageTypes PROVE AbandonedWrites \subseteq Write /\ \A w \in AbandonedWrites : ~ w.here
<1>1. ASSUME NEW w \in writes PROVE [w EXCEPT !.here = FALSE] \in Write /\ ~ [w EXCEPT !.here = FALSE].here
  BY DEF StorageTypes, Write
<1> QED
  BY <1>1 DEF AbandonedWrites

\* A page without requests of its own.
LEMMA Fresh ==
  ASSUME StorageInv, stored' = stored, writes' = AbandonedWrites,
         storage' = NewStorage, dialog' = Closed, busy' = NotBusy, listings' \in Seq(Listing),
         \A i \in DOMAIN listings' : listings'[i].ends = "nothing", OnStorage' => listings' # <<>>
  PROVE  StorageInv'
<1>1. writes' \subseteq Write /\ \A w \in writes' : ~ w.here
  BY AbandonedWritesType DEF StorageInv
<1>2. StorageTypes' /\ StorageScope'
  BY <1>1, NewStorageTypes DEF StorageInv, StorageTypes, StorageScope
<1>3. SavesApart'
  BY <1>1 DEF SavesApart, ByRequest, ByListing, Saving
<1> QED
  BY <1>2, <1>3 DEF StorageInv

\* The first list of a page ends nothing.
LEMMA FirstListing ==
  ASSUME StorageTypes, NEW kind \in StorageKind
  PROVE  [items |-> ListThings(kind, "default"), ends |-> "nothing"] \in Listing
BY ListThingsType DEF Listing

\* Leaving a page of storage keeps the invariant.
LEMMA Leaves ==
  ASSUME StorageInv, StorageLeft, ~ OnStorage' PROVE StorageInv'
<1>1. listings' \in Seq(Listing) /\ listings' = <<>>
  BY DEF StorageLeft
<1> QED
  BY <1>1, Fresh DEF StorageLeft

\* So does opening one.
LEMMA Enters ==
  ASSUME StorageInv, NEW kind \in StorageKind, StorageOpened(kind) PROVE StorageInv'
<1> DEFINE new == [items |-> ListThings(kind, "default"), ends |-> "nothing"]
<1>1. new \in Listing /\ new.ends = "nothing"
  BY FirstListing DEF StorageInv
<1>2. listings' = <<new>>
  BY DEF StorageOpened
<1> HIDE DEF new
<1>3. listings' \in Seq(Listing) /\ listings' # <<>> /\ \A i \in DOMAIN listings' : listings'[i].ends = "nothing"
  BY <1>1, <1>2
<1> QED
  BY <1>3, Fresh DEF StorageOpened

\* So does the router.
LEMMA RouterStorage ==
  ASSUME StorageInv, Router PROVE StorageInv'
<1>1. ASSUME ShowList PROVE StorageInv'
  BY <1>1, Leaves DEF ShowList, OnStorage, StorageKind
<1>2. CASE OpenList
  BY <1>1, <1>2 DEF OpenList
<1>3. CASE NavigateToPipeline
  BY <1>3, Leaves DEF NavigateToPipeline, ShowDetail, OnStorage, StorageKind
<1>4. CASE \E kind \in StorageKind : OpenStorage(kind)
  BY <1>4, Enters DEF OpenStorage, ShowStorage
<1>5. CASE \E d \in deletes : NavigateAfterDelete(d)
  BY <1>1, <1>5 DEF NavigateAfterDelete
<1>6. CASE \E ns \in Namespace : ChangeNamespace(ns)
  <2>1. PICK ns \in Namespace : ChangeNamespace(ns)
    BY <1>6
  <2>2. UNCHANGED page /\ StorageNamespaceChange(ns)
    BY <2>1 DEF ChangeNamespace
  <2>3. CASE OnStorage
    <3>1. /\ storage' = [storage EXCEPT !.namespace = ns] /\ listings' = ListingFor(ns, "nothing")
          /\ UNCHANGED <<stored, dialog, busy, writes>>
      BY <2>2, <2>3 DEF StorageNamespaceChange
    <3>2. listings' \in Seq(Listing) /\ listings' # <<>> /\ SavesApart'
      BY <2>3, <3>1, ListingAppended
    <3>3. storage' \in StoragePage
      BY <3>1 DEF StorageInv, StorageTypes, StoragePage
    <3>4. StorageTypes' /\ StorageScope'
      BY <2>2, <3>1, <3>2, <3>3 DEF StorageInv, StorageTypes, StorageScope, OnStorage
    <3> QED
      BY <3>2, <3>4 DEF StorageInv
  <2>4. CASE ~ OnStorage
    BY <2>2, <2>4, StorageUnchanged DEF StorageNamespaceChange
  <2> QED
    BY <2>3, <2>4
<1> QED
  BY <1>2, <1>3, <1>4, <1>5, <1>6 DEF Router

\* The invariant of all pages holds at first.
LEMMA InitSound == Init => MonitorInv
<1> SUFFICES ASSUME Init PROVE StorageInv
  BY PagesInit DEF MonitorInv
<1>1. PICK calls : StorageIs(calls) /\ (calls = <<>> \/ calls = <<[items |-> ListThings(page, "default"), ends |-> "nothing"]>>)
                   /\ (OnStorage <=> calls # <<>>)
  BY DEF Init, OnStorage, StorageKind
<1>2. stored \in [StorageKind -> [Key -> Thing]]
  BY <1>1, ThingsAssumption DEF StorageIs
<1>3. calls \in Seq(Listing) /\ \A i \in DOMAIN calls : calls[i].ends = "nothing"
  <2> DEFINE new == [items |-> ListThings(page, "default"), ends |-> "nothing"]
  <2>1. OnStorage => new \in Listing /\ new.ends = "nothing"
    BY <1>2, NoThings DEF OnStorage, Listing, ListThings, NoThing, Thing, Data
  <2>2. CASE calls = <<>>
    BY <2>2
  <2>3. CASE OnStorage /\ calls = <<new>>
    <3> HIDE DEF new
    <3> QED
      BY <2>1, <2>3
  <2> QED
    BY <1>1, <2>2, <2>3
<1>4. StorageTypes /\ StorageScope
  BY <1>1, <1>2, <1>3, NewStorageTypes DEF StorageIs, StorageTypes, StorageScope
<1>5. SavesApart
  BY <1>1, <1>3 DEF StorageIs, SavesApart, ByRequest, ByListing, Saving
<1> QED
  BY <1>4, <1>5 DEF StorageInv

\* Each step keeps the invariant of all pages.
LEMMA StepSound == MonitorInv /\ [Next]_vars => MonitorInv'
<1> SUFFICES ASSUME MonitorInv, [Next]_vars PROVE StorageInv'
  BY PagesStep DEF MonitorInv
<1>1. CASE InStorage
  BY <1>1, StorageSteps DEF MonitorInv
<1>2. CASE OnCluster \/ InList \/ InDetail
  BY <1>2, Elsewhere, StorageUnchanged DEF MonitorInv
<1>3. CASE Router
  BY <1>3, RouterStorage DEF MonitorInv
<1>4. CASE UNCHANGED vars
  BY <1>4, StorageUnchanged DEF MonitorInv, vars, ground
<1> QED
  BY <1>1, <1>2, <1>3, <1>4 DEF Next

\* The invariant of all pages holds always.
LEMMA MonitorSound == Spec => []MonitorInv
BY InitSound, StepSound, PTL DEF Spec

\* The state of the pages is well formed, however answers are reordered
\* (every handler of the pages of pipelines and of storage).
THEOREM MonitorTypes == Spec => []TypeOK
<1>1. MonitorInv => TypeOK
  BY DEF MonitorInv, PagesInv, GroundInv, ListInv, PageInv, DrawerInv, StorageInv, StorageTypes, Saving, TypeOK
<1> QED
  BY <1>1, MonitorSound, PTL

\* A page that says it is loading has asked for something that has yet to be
\* answered, so that no sequence of answers and failures leaves a spinner
\* behind (the "finally" of loadPipelines, loadLogs, loadSecrets, loadPVCs;
\* loadPipeline).
THEOREM SpinnerHasRequest == Spec => []NoIdleSpinner
<1>1. MonitorInv => NoIdleSpinner
  BY DEF MonitorInv, PagesInv, ListInv, PageInv, DrawerInv, StorageInv, StorageScope, NoIdleSpinner
<1> QED
  BY <1>1, MonitorSound, PTL

\* Two saves of a visit are never under way together, whichever dialogs were
\* closed and opened between them (createSecret, saveEditSecret, createPVC).
THEOREM SavesDoNotOverlap == Spec => []OneSaveAtATime
<1>1. MonitorInv => OneSaveAtATime
  <2> SUFFICES ASSUME MonitorInv, NEW v \in writes, NEW w \in writes,
                      v.here, w.here, v.op = w.op, v.op # "delete"
               PROVE  v = w
    BY DEF OneSaveAtATime
  <2>1. v.op \in Saving
    BY DEF MonitorInv, StorageInv, StorageTypes, Write, Saving
  <2> QED
    BY <2>1 DEF MonitorInv, StorageInv, SavesApart, ByRequest
<1> QED
  BY <1>1, MonitorSound, PTL
=============================================================================
