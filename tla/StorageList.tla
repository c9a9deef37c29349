----------------------------- MODULE StorageList -----------------------------
(***************************************************************************)
(* The pages of claims (pvc-list.ts) and of secrets (secret-list.ts): a    *)
(* list that is polled like that of the pipelines, a dialog to create, and *)
(* for a secret one to view it and, from there, one to edit its data.  The *)
(* dialogs can be closed while a save is under way, and others opened; the *)
(* button that saves is disabled until the list has been read again.       *)
(***************************************************************************)
EXTENDS MonitorShell

CONSTANTS
  Typed, Value,            \* what is typed for a key and for a value
  Trim,                    \* what is typed without the blanks around it
  MaxPairs,                \* how many pairs a dialog has at most
  Things,                  \* what may be stored at the start
  Foreign                  \* what others store

StorageKind == {"pvc-list", "secret-list"}
Blank       == [key |-> "", value |-> ""]
Pair        == [key : Typed, value : Value]
Data        == SUBSET (Typed \X Value)
Rows        == UNION {[1..n -> Pair] : n \in 0..MaxPairs}
NoThing     == [there |-> FALSE, data |-> {}]
Thing       == [there : BOOLEAN, data : Data]
Names       == {k[2] : k \in Key} \cup {""}

ASSUME TypedAssumption  == Blank \in Pair /\ Trim \in [Typed -> Typed]
ASSUME PairsAssumption  == MaxPairs \in Nat \ {0}
ASSUME ThingsAssumption == Things \subseteq [StorageKind -> [Key -> Thing]] /\ Foreign \subseteq Thing

VARIABLES
  stored,                  \* claims and secrets in the cluster
  storage,                 \* namespace, items and loading of the page
  listings,                \* lists asked for, and whose end each is
  dialog,                  \* the dialog that is open
  busy,                    \* creating and editing
  writes                   \* requests to create, to edit and to delete

storagePage == <<stored, storage, listings, dialog, busy, writes>>

StoragePage == [namespace : Namespace, items : [Key -> Thing], loading : BOOLEAN]
Listing     == [items : [Key -> Thing], ends : {"create", "edit", "nothing"}]
Dialog      == [kind : {"none", "view", "create", "edit"}, key : Key \cup {None}, name : Names,
                data : Data, pairs : Seq(Pair), error : BOOLEAN]
Write       == [kind : StorageKind, op : {"create", "edit", "delete"}, key : Key, data : Data,
                taken : BOOLEAN, here : BOOLEAN]

OnStorage == page \in StorageKind
IsSecret  == page = "secret-list"

NewStorage == [namespace |-> "default", items |-> [k \in Key |-> NoThing], loading |-> TRUE]
Closed     == [kind |-> "none", key |-> None, name |-> "", data |-> {}, pairs |-> <<>>, error |-> FALSE]
NotBusy    == [op \in {"create", "edit"} |-> FALSE]

ListThings(kind, ns) == [k \in Key |-> IF k[1] = ns THEN stored[kind][k] ELSE NoThing]

ListingFor(ns, op) == Append(listings, [items |-> ListThings(page, ns), ends |-> op])

----------------------------------------------------------------------------
\* What the pairs of a dialog stand for: those without a key do not count.

Counted(pairs) == {i \in DOMAIN pairs : Trim[pairs[i].key] # ""}
DataOf(pairs)  == {<<Trim[pairs[i].key], pairs[i].value>> : i \in Counted(pairs)}

Savable(pairs) ==
  /\ Counted(pairs) # {}
  /\ \A i, j \in Counted(pairs) : Trim[pairs[i].key] = Trim[pairs[j].key] => i = j

AtLeastOne(pairs) == IF pairs = <<>> THEN <<Blank>> ELSE pairs

\* The data as pairs, in some order.
PairsOf(data) == {pairs \in Rows : /\ Len(pairs) = Cardinality(data)
                                   /\ data = {<<pairs[i].key, pairs[i].value>> : i \in DOMAIN pairs}}

----------------------------------------------------------------------------
\* The list.

PollStorage ==
  /\ OnStorage /\ Len(listings) < MaxCalls
  /\ listings' = ListingFor(storage.namespace, "nothing")
  /\ UNCHANGED <<ground, stored, storage, dialog, busy, writes>>

NotAfter(op) == IF op = "nothing" THEN busy ELSE [busy EXCEPT ![op] = FALSE]

Listed(items) == [storage EXCEPT !.items = items, !.loading = FALSE]

\* A list that fails counts as an empty one.
AnswerListing(i) ==
  /\ \/ storage' = Listed(listings[i].items) /\ UNCHANGED events
     \/ storage' = Listed([k \in Key |-> NoThing]) /\ Spend("failure")
  /\ listings' = Without(listings, i)
  /\ busy' = NotAfter(listings[i].ends)
  /\ UNCHANGED <<cluster, shell, page, deletes, stored, dialog, writes>>

StorageNamespaceChange(ns) ==
  IF OnStorage THEN /\ storage' = [storage EXCEPT !.namespace = ns]
                    /\ listings' = ListingFor(ns, "nothing")
                    /\ UNCHANGED <<stored, dialog, busy, writes>>
  ELSE UNCHANGED storagePage

----------------------------------------------------------------------------
\* The dialogs.

Ready == OnStorage /\ ~ storage.loading

SetDialog(d) ==
  /\ dialog' = d
  /\ UNCHANGED <<cluster, shell, page, deletes, stored, storage, listings, busy, writes>>

OpenCreateModal ==
  /\ Ready /\ dialog.kind = "none" /\ Spend("dialog")
  /\ SetDialog([Closed EXCEPT !.kind = "create", !.pairs = <<Blank>>])

OpenViewModal(k) ==
  /\ Ready /\ IsSecret /\ dialog.kind = "none" /\ storage.items[k].there /\ Spend("dialog")
  /\ SetDialog([Closed EXCEPT !.kind = "view", !.key = k, !.data = storage.items[k].data])

OpenEditModal ==
  /\ dialog.kind = "view"
  /\ \E pairs \in PairsOf(dialog.data) : SetDialog([dialog EXCEPT !.kind = "edit", !.pairs = AtLeastOne(pairs)])
  /\ UNCHANGED events

CloseModal == dialog.kind # "none" /\ SetDialog(Closed) /\ UNCHANGED events

SetName(name) ==
  /\ dialog.kind = "create" /\ name # dialog.name /\ Spend("typing")
  /\ SetDialog([dialog EXCEPT !.name = name])

SetPairs(pairs) ==
  /\ dialog.kind \in {"create", "edit"} /\ IsSecret /\ Spend("typing")
  /\ SetDialog([dialog EXCEPT !.pairs = pairs])

AddKeyValuePair == Len(dialog.pairs) < MaxPairs /\ SetPairs(Append(dialog.pairs, Blank))

\* The last pair of a new secret has its button disabled.
RemoveKeyValuePair(i) ==
  /\ dialog.kind = "create" => Len(dialog.pairs) > 1
  /\ SetPairs(AtLeastOne(Without(dialog.pairs, i)))

UpdateKeyValuePair(i) ==
  \/ \E key \in Typed : SetPairs([dialog.pairs EXCEPT ![i].key = key])
  \/ \E value \in Value : SetPairs([dialog.pairs EXCEPT ![i].value = value])

----------------------------------------------------------------------------
\* Saving.

Ask(op, k, data) ==
  /\ writes' = writes \cup {[kind |-> page, op |-> op, key |-> k, data |-> data, taken |-> FALSE, here |-> TRUE]}
  /\ UNCHANGED <<ground, stored, storage, listings>>

\* Mutant: the button is not disabled.
MaySaveAgain(op) == dialog.kind = op

MaySave(op) == dialog.kind = op /\ ~ busy[op]

\* Nothing is sent; the dialog says what is wrong.
Complain == SetDialog([dialog EXCEPT !.error = TRUE]) /\ UNCHANGED events

SendDialog(op, k, data) ==
  /\ Ask(op, k, data)
  /\ busy' = [busy EXCEPT ![op] = TRUE] /\ dialog' = [dialog EXCEPT !.error = FALSE]

Create ==
  LET k == <<storage.namespace, dialog.name>>
  IN  /\ MaySave("create") /\ (k \in Key \/ dialog.name = "")
      /\ IF dialog.name # "" /\ (IsSecret => Savable(dialog.pairs))
         THEN SendDialog("create", k, IF IsSecret THEN DataOf(dialog.pairs) ELSE {})
         ELSE Complain

SaveEdit ==
  /\ MaySave("edit")
  /\ IF Savable(dialog.pairs) THEN SendDialog("edit", dialog.key, DataOf(dialog.pairs)) ELSE Complain

DeleteThing(k) ==
  /\ Ready /\ dialog.kind = "none" /\ storage.items[k].there /\ Spend("dialog")
  /\ writes' = writes \cup {[kind |-> page, op |-> "delete", key |-> k, data |-> {}, taken |-> FALSE, here |-> TRUE]}
  /\ UNCHANGED <<cluster, shell, page, deletes, stored, storage, listings, dialog, busy>>

\* A save that went well closes the dialog of its kind, whichever it is by
\* then, and has the list read again before the button is enabled.
AnswerWrite(w) ==
  /\ w \in writes /\ w.taken
  /\ writes' = writes \ {w}
  /\ dialog' = IF w.here /\ dialog.kind = w.op THEN Closed ELSE dialog
  /\ listings' = IF w.here THEN ListingFor(storage.namespace, IF w.op = "delete" THEN "nothing" ELSE w.op)
                 ELSE listings
  /\ UNCHANGED <<ground, stored, storage, busy>>

\* Mutant: there is no "finally".
StillBusy(w) == busy

NoLongerBusy(w) == IF w.here THEN NotAfter(IF w.op = "delete" THEN "nothing" ELSE w.op) ELSE busy

Refused(w) == ~ w.taken /\ stored[w.kind][w.key].there = (w.op = "create")

\* Refused, or the connection broke, before or after it was taken.
FailWrite(w) ==
  /\ w \in writes
  /\ \/ Refused(w) /\ UNCHANGED events
     \/ Spend("failure")
  /\ writes' = writes \ {w}
  /\ dialog' = IF w.here /\ dialog.kind = w.op THEN [dialog EXCEPT !.error = TRUE] ELSE dialog
  /\ busy' = NoLongerBusy(w)
  /\ UNCHANGED <<cluster, shell, page, deletes, stored, storage, listings>>

\* The cluster.

TakeWrite(w) ==
  /\ w \in writes /\ ~ w.taken /\ ~ Refused(w)
  /\ stored' = [stored EXCEPT ![w.kind][w.key] =
                  IF w.op = "delete" THEN NoThing ELSE [there |-> TRUE, data |-> w.data]]
  /\ writes' = (writes \ {w}) \cup {[w EXCEPT !.taken = TRUE]}
  /\ UNCHANGED <<ground, storage, listings, dialog, busy>>

OtherStores(kind, k, thing) ==
  /\ stored[kind][k] # thing /\ Spend("store")
  /\ stored' = [stored EXCEPT ![kind][k] = thing]
  /\ UNCHANGED <<cluster, shell, page, deletes, storage, listings, dialog, busy, writes>>

----------------------------------------------------------------------------
\* A new page; what is left of the requests is answered to nobody.
AbandonedWrites == {[w EXCEPT !.here = FALSE] : w \in writes}

StorageOpened(kind) ==
  /\ storage' = NewStorage /\ dialog' = Closed /\ busy' = NotBusy
  /\ listings' = <<[items |-> ListThings(kind, "default"), ends |-> "nothing"]>>
  /\ writes' = AbandonedWrites /\ UNCHANGED stored

StorageLeft ==
  /\ storage' = NewStorage /\ dialog' = Closed /\ busy' = NotBusy /\ listings' = <<>>
  /\ writes' = AbandonedWrites /\ UNCHANGED stored

DialogStep ==
  \/ OpenCreateModal \/ OpenEditModal \/ CloseModal \/ AddKeyValuePair \/ Create \/ SaveEdit
  \/ \E k \in Key : OpenViewModal(k) \/ DeleteThing(k)
  \/ \E name \in Names : SetName(name)
  \/ \E i \in DOMAIN dialog.pairs : RemoveKeyValuePair(i) \/ UpdateKeyValuePair(i)

StorageStep ==
  \/ PollStorage
  \/ \E i \in DOMAIN listings : AnswerListing(i)
  \/ DialogStep
  \/ \E w \in writes : AnswerWrite(w) \/ FailWrite(w) \/ TakeWrite(w)
  \/ \E kind \in StorageKind, k \in Key : \E thing \in Foreign : OtherStores(kind, k, thing)
=============================================================================
