----------------------------- MODULE RecordTree -----------------------------
(***************************************************************************)
(* Records shown as trees (components/content/RecordTree.tsx).  The tree is*)
(* a list of rows with a depth; what is collapsed is kept in the store, in *)
(* a bucket named by the identifier of the tree, which several trees may   *)
(* have in common, and is forgotten when a tree goes.  Values that are long*)
(* are cut in a panel of their own.  The keys of a store may be put below  *)
(* the instance that they belong to (record_processors/store.ts).          *)
(***************************************************************************)
EXTENDS Naturals, Sequences, FiniteSets, SequencesExt

CONSTANTS Trees,       \* 1..n, in the order of the page
          Id,          \* of a tree
          Records,     \* of a tree, what it may show
          processStore,\* of a tree
          MaxMounts,   \* bound: trees opened
          MaxInputs    \* bound: clicks and keys

VARIABLES mounted, record,
          collapsedIds,  \* of a bucket, the rows that are collapsed
          items,         \* of a tree that is there, its rows
          panels,        \* panels whose state was set: [panel -> collapsed]
          focus,         \* <<tree, row>>
          mounts, inputs

vars == <<mounted, record, collapsedIds, items, panels, focus, mounts, inputs>>

Nowhere == <<0, <<>>>>
Ids == {Id[t] : t \in Trees}

Assumptions == {MaxMounts, MaxInputs} \subseteq Nat /\ processStore \in [Trees -> BOOLEAN]

-----------------------------------------------------------------------------
(* Keys of a store.  A key is [store, id, name]; a plain one has store "". *)

Plain(name) == [store |-> "", id |-> 0, name |-> name]
IsObject(v) == v.kind = "object"

\* resolveStoreKeys: a key whose instance did not come before is left out.
RECURSIVE Resolve(_)
Resolve(entries) ==
  LET instance(e) == e.key.store # "" /\ e.key.name = "instance"
      stored(e) == e.key.store # "" /\ e.key.name # "instance"
      owner(e) == <<e.key.store, e.key.id>>
      plain == SelectSeq(entries, LAMBDA e : e.key.store = "")
      owners == FoldLeft(LAMBDA done, e : IF instance(e) /\ ~Contains(done, owner(e)) THEN Append(done, owner(e)) ELSE done,
                         <<>>, entries)
      first(o) == CHOOSE i \in DOMAIN entries :
                    instance(entries[i]) /\ owner(entries[i]) = o
                    /\ \A j \in 1..(i - 1) : ~(instance(entries[j]) /\ owner(entries[j]) = o)
      children(o) ==
        LET after == SubSeq(entries, first(o), Len(entries))
            own == SelectSeq(after, LAMBDA e : stored(e) /\ owner(e) = o)
        IN [k \in DOMAIN own |-> [own[k] EXCEPT !.key = Plain(@.name)]]
      node(o) == [key |-> Plain(o[1]), value |-> [kind |-> "object", leaf |-> "", entries |-> Resolve(children(o))]]
      below(e) == IF IsObject(e.value) THEN [e EXCEPT !.value.entries = Resolve(@)] ELSE e
  IN [k \in DOMAIN plain |-> below(plain[k])] \o [k \in DOMAIN owners |-> node(owners[k])]

-----------------------------------------------------------------------------
(* Rows *)

\* processNodeRecursive: children of an array and of an object differ in their
\* segments of the identifier.
Element(i) == 100 + i
Segment(kind, i) == IF kind = "array" THEN Element(i) ELSE i
RECURSIVE RowsBelow(_, _, _, _)
RowsBelow(entries, kind, path, closed) ==
  FlattenSeq([i \in DOMAIN entries |->
    LET id == Append(path, Segment(kind, i))
        v == entries[i].value
        row == [id |-> id, key |-> entries[i].key, depth |-> Len(path), leaf |-> v.leaf,
                hasChildren |-> v.kind # "leaf"]
    IN <<row>> \o IF v.kind = "leaf" \/ id \in closed THEN <<>> ELSE RowsBelow(v.entries, v.kind, id, closed)])

\* toTreeItems
ToTreeItems(t, shown, closed) ==
  RowsBelow(IF processStore[t] THEN Resolve(shown) ELSE shown, "object", <<>>, closed)
IdsOf(rows) == {rows[i].id : i \in DOMAIN rows}
RowIds(t) == IdsOf(items[t])
Row(t, id) == CHOOSE r \in ToSet(items[t]) : r.id = id

TypeOK ==
  /\ mounted \subseteq Trees
  /\ focus # Nowhere => focus[1] \in mounted /\ focus[2] \in RowIds(focus[1])

-----------------------------------------------------------------------------
(* The page *)

\* The trees there are, what they show and what of it is collapsed.  The browser
\* takes the focus from a row that goes.
Renders(trees, shown, closed, at) ==
  LET rows == [t \in Trees |-> IF t \in trees THEN ToTreeItems(t, shown[t], closed[Id[t]]) ELSE <<>>]
  IN /\ mounted' = trees /\ record' = shown /\ collapsedIds' = closed /\ items' = rows
     /\ focus' = IF at # Nowhere /\ at[2] \in IdsOf(rows[at[1]]) THEN at ELSE Nowhere

Comes == mounts < MaxMounts /\ mounts' = mounts + 1 /\ UNCHANGED <<panels, inputs>>
Mount ==
  \E t \in Trees \ mounted : \E r \in Records[t] :
    Comes /\ Renders(mounted \cup {t}, [record EXCEPT ![t] = r], collapsedIds, focus)
RecordChanges ==
  \E t \in mounted : \E r \in Records[t] \ {record[t]} :
    Comes /\ Renders(mounted, [record EXCEPT ![t] = r], collapsedIds, focus)

\* A list that draws only a part of its rows, or another page.
Unmount ==
  \E t \in mounted :
    /\ Renders(mounted \ {t}, record, [collapsedIds EXCEPT ![Id[t]] = {}], focus)
    /\ UNCHANGED <<panels, mounts, inputs>>

Input == inputs < MaxInputs /\ inputs' = inputs + 1 /\ UNCHANGED mounts
SetCollapsed(t, id, value) ==
  /\ Renders(mounted, record, [collapsedIds EXCEPT ![Id[t]] = IF value THEN @ \cup {id} ELSE @ \ {id}], <<t, id>>)
  /\ UNCHANGED panels

\* onClick: a row without children is collapsed too, which does not show.
Click ==
  \E t \in mounted : \E id \in RowIds(t) : Input /\ SetCollapsed(t, id, id \notin collapsedIds[Id[t]])

\* keyUpHandler.  Enter reads the state of the identifier of the tree, which is
\* no row of it, so that it only collapses.
CollapsingKey ==
  \E t \in mounted : \E id \in RowIds(t), key \in {"Enter", "ArrowLeft", "ArrowRight"} :
    focus = <<t, id>> /\ Input /\ SetCollapsed(t, id, key # "ArrowRight")

\* The row before or after is looked for in the first tree with the identifier.
First(t) == CHOOSE u \in mounted : Id[u] = Id[t] /\ \A v \in mounted : Id[v] = Id[t] => u <= v
ArrowKey ==
  \E t \in mounted : \E i \in DOMAIN items[t], down \in BOOLEAN :
    /\ focus = <<t, items[t][i].id>> /\ Input
    /\ LET to == IF down THEN i + 1 ELSE i - 1
           rows == items[First(t)]
       IN focus' = IF to \in DOMAIN items[t] /\ to \in DOMAIN rows THEN <<First(t), rows[to].id>> ELSE focus
    /\ UNCHANGED <<mounted, record, collapsedIds, items, panels>>

\* ExpandablePanel of a row's value, whose state is by the row and outlives it.
\* There is a button only where the value is too long.
Panel(t, id) == <<Id[t], id>>
PanelCollapsed(t, id) == IF Panel(t, id) \in DOMAIN panels THEN panels[Panel(t, id)] ELSE TRUE
MoreToggle ==
  \E t \in mounted : \E id \in RowIds(t) :
    /\ ~Row(t, id).hasChildren /\ Row(t, id).leaf = "long" /\ Input
    /\ panels' = (Panel(t, id) :> ~PanelCollapsed(t, id)) @@ panels
    /\ UNCHANGED <<mounted, record, collapsedIds, items, focus>>

Init ==
  /\ mounted = {} /\ record = [t \in Trees |-> <<>>]
  /\ collapsedIds = [b \in Ids |-> {}] /\ items = [t \in Trees |-> <<>>] /\ panels = <<>> /\ focus = Nowhere
  /\ mounts = 0 /\ inputs = 0

Next == Mount \/ Unmount \/ RecordChanges \/ Click \/ CollapsingKey \/ ArrowKey \/ MoreToggle
Spec == Init /\ [][Next]_vars

-----------------------------------------------------------------------------
(* Properties *)

\* The rows are a tree in order: a row stands below its parent, with only rows of
\* the parent between them.
RowsAreTree ==
  \A t \in mounted : LET rows == items[t] IN \A i \in DOMAIN rows :
    /\ \A j \in DOMAIN rows : rows[i].id = rows[j].id => i = j
    /\ rows[i].depth > 0 =>
         \E p \in 1..(i - 1) :
           /\ rows[p].id = Front(rows[i].id) /\ rows[p].hasChildren
           /\ \A k \in (p + 1)..i : rows[k].depth > rows[p].depth

\* With nothing collapsed every value of the record has one row, where the
\* instances of a store come before their keys.
RECURSIVE Leaves(_)
Leaves(entries) ==
  FlattenSeq([i \in DOMAIN entries |->
    IF entries[i].key.name = "instance" THEN <<>>
    ELSE IF entries[i].value.kind = "leaf" THEN <<entries[i].value.leaf>>
    ELSE Leaves(entries[i].value.entries)])
RECURSIVE InstancesFirst(_)
InstancesFirst(entries) ==
  \A i \in DOMAIN entries :
    /\ entries[i].key.store # "" =>
         \E j \in 1..i : entries[j].key = [entries[i].key EXCEPT !.name = "instance"]
    /\ IsObject(entries[i].value) => InstancesFirst(entries[i].value.entries)
EveryValueHasRow ==
  \A t \in mounted : ~processStore[t] \/ InstancesFirst(record[t]) =>
    LET rows == ToTreeItems(t, record[t], {})
        shown == SelectSeq(rows, LAMBDA r : ~r.hasChildren /\ r.key.name # "instance")
        leaves == Leaves(record[t])
    IN /\ Len(shown) = Len(leaves)
       /\ \A v \in ToSet(leaves) : Cardinality({i \in DOMAIN leaves : leaves[i] = v})
                                     = Cardinality({i \in DOMAIN shown : shown[i].leaf = v})

\* A tree that comes while no other has its identifier is expanded.
ClosedLeavesNothing ==
  \A b \in Ids : (\A t \in mounted : Id[t] # b) => collapsedIds[b] = {}

\* Opening and closing a row changes nothing but what is below it.
Below(id, r) == Len(r.id) > Len(id) /\ SubSeq(r.id, 1, Len(id)) = id
TogglesBelow ==
  inputs' # inputs =>
    \A t \in mounted : items'[t] = items[t] \/
      \E id \in RowIds(t) : SelectSeq(items[t], LAMBDA r : ~Below(id, r))
                              = SelectSeq(items'[t], LAMBDA r : ~Below(id, r))

\* Of a tree with an identifier of its own, the rows change only by what is done
\* in it, and the keys stay in it.
Own(t) == \A u \in Trees : Id[u] = Id[t] => u = t
KeysStayInTree ==
  focus # Nowhere /\ inputs' # inputs /\ focus' # Nowhere /\ Own(focus[1]) /\ collapsedIds' = collapsedIds
    => focus'[1] = focus[1]
=============================================================================
