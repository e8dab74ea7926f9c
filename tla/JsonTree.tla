------------------------------ MODULE JsonTree ------------------------------
(***************************************************************************)
(* The JSON items of json-parser.c: a text is parsed into a tree of items  *)
(* without recursion, items are appended, the tree is walked by a cursor   *)
(* that is kept inside the items, looked up, written back and cloned.      *)
(***************************************************************************)
EXTENDS JsonText, Integers

CONSTANTS
  Documents,   \* the JSON values that are parsed
  Additions,   \* the <<type, value>> of the items that are appended
  MaxAppends,  \* bound: calls of json_append
  MaxWalks     \* bound: walks with json_iter_next, each may be given up

VARIABLES
  document,  \* what the first text says
  text, at,  \* the buffer and the place of cxt.buffer
  items,     \* the items allocated so far; an item is named by its number
  item,      \* the item whose branches are being built, 0 for NULL
  built,     \* the root of the tree that is being built, 0 if none is
  root,      \* the document's tree, 0 before json_parse returns it
  origin, copy,
             \* an item that is cloned and its clone, 0 if none
  aborted,   \* an ASSERT_S or ERR of the parser
  cursor, visited, born,
             \* the caller of json_iter_next: the item it is at, those it was
             \* given, and how many items there were when it began
  walks, appends

jsonVars == <<document, text, at, items, item, built, root, origin, copy, aborted,
              cursor, visited, born, walks, appends>>
parseVars == <<document, text, at, item, built, root, origin, copy, aborted>>
walkVars == <<cursor, visited, born, walks>>

\* The value an item stands for.
RECURSIVE ValueOf(_)
ValueOf(i) ==
  IF items[i].type \in Composite
  THEN Branches(items[i].type, [k \in DOMAIN items[i].branch |->
         <<items[items[i].branch[k]].key, ValueOf(items[i].branch[k])>>])
  ELSE ScalarOf(items[i].type, items[i].val)

\* An item and all below it, in preorder.
RECURSIVE Preorder(_)
Preorder(i) == <<i>> \o FlattenSeq([k \in DOMAIN items[i].branch |-> Preorder(items[i].branch[k])])

\* room is the number of branches there is memory for, last is last_accessed_branch.
NewItem(type, val, name, parent) ==
  [type |-> type, val |-> val, key |-> name, parent |-> parent, branch |-> <<>>, room |-> 1, last |-> 0]

JsonInit ==
  /\ document \in Documents /\ text = Text(document) /\ at = 1
  /\ items = <<NewItem("undefined", "", "", 0)>> /\ item = 1 /\ built = 1
  /\ root = 0 /\ origin = 0 /\ copy = 0 /\ aborted = FALSE
  /\ cursor = 0 /\ visited = <<>> /\ born = 0 /\ walks = 0 /\ appends = 0

-----------------------------------------------------------------------------
(* json_parse: one action for each round of its loop *)

Token == text[at][1]
StartsValue == Scalars \cup {"{", "["}

\* How deep place j is in the composite that starts at i, for one kind of bracket.
Depth(i, j, open, close) ==
  Cardinality({k \in i..j : text[k][1] = open}) - Cardinality({k \in i..j : text[k][1] = close})

\* _json_count_property and _json_count_element: marks at depth 1, up to the end.
Counted(i, mark, open, close) ==
  LET end == Min({j \in i..Len(text) : Depth(i, j, open, close) = 0})
  IN  Cardinality({j \in i..end : text[j][1] = mark /\ Depth(i, j, open, close) = 1})

\* Mutant of Room: one branch less.
Room_Exact(i) == IF text[i][1] = "{" THEN Counted(i, ":", "{", "}") ELSE Counted(i, ",", "[", "]")

\* _json_decode_composite: room for the branches that were counted, and one more.
Room(i) == 1 + (IF text[i][1] = "{" THEN Counted(i, ":", "{", "}") ELSE Counted(i, ",", "[", "]"))

\* The item that the text at place i says, as a branch of a parent.
Decoded(i, name, parent) ==
  CASE text[i][1] = "{" -> [NewItem("object", "", name, parent) EXCEPT !.room = Room(i)]
    [] text[i][1] = "[" -> [NewItem("array", "", name, parent) EXCEPT !.room = Room(i)]
    [] OTHER -> NewItem(text[i][1], text[i][2], name, parent)

\* What json_parse returns is the document's tree, or a clone with the key of its origin.
Return ==
  /\ built' = 0 /\ item' = 0
  /\ IF origin = 0 THEN root' = built /\ UNCHANGED <<copy, items>>
     ELSE /\ copy' = built /\ UNCHANGED root
          /\ items' = [items EXCEPT ![built].key = items[origin].key]
  /\ UNCHANGED <<at, aborted>>

Abort == aborted' = TRUE /\ UNCHANGED <<at, items, item, built, root, copy>>

\* _json_entity_build: the root; a number may not start with 0.  A scalar is all there is.
Entity ==
  /\ items[item].type = "undefined"
  /\ IF Token \notin StartsValue \/ text[at] = <<"number", "0">> THEN Abort
     ELSE /\ items' = [items EXCEPT ![item] = Decoded(at, "", 0)]
          /\ at' = at + 1
          /\ UNCHANGED <<item, built, root, copy, aborted>>

\* _json_branch_build: a composite becomes the current item.
Branch(i, name) ==
  IF i > Len(text) \/ text[i][1] \notin StartsValue THEN Abort
  ELSE LET id == Len(items) + 1 IN
         /\ items' = Append([items EXCEPT ![item].branch = Append(items[item].branch, id)],
                            Decoded(i, name, item))
         /\ item' = IF text[i][1] \in Scalars THEN item ELSE id
         /\ at' = i + 1
         /\ UNCHANGED <<built, root, copy, aborted>>

\* _json_wrap_composite: on with the parent; the root has none, which ends the loop.
Wrap ==
  /\ item' = items[item].parent /\ at' = at + 1
  /\ UNCHANGED <<items, built, root, copy, aborted>>

\* A comma is skipped, whatever is before or after it.
AfterComma == IF Token = "," THEN at + 1 ELSE at

\* Mutant of ArrayBuild: the keys are counted from one.
ArrayBuild_One ==
  /\ items[item].type = "array"
  /\ IF Token = "]" THEN Wrap ELSE Branch(AfterComma, Index(Len(items[item].branch) + 1))

\* _json_array_build: an element, with its index for a key.
ArrayBuild ==
  /\ items[item].type = "array"
  /\ IF Token = "]" THEN Wrap ELSE Branch(AfterComma, Index(Len(items[item].branch)))

\* _json_object_build: a property.
ObjectBuild ==
  /\ items[item].type = "object"
  /\ IF Token = "}" THEN Wrap
     ELSE IF \/ Token \notin {",", "key"} \/ AfterComma >= Len(text)
             \/ text[AfterComma][1] # "key" \/ text[AfterComma + 1][1] # ":"
     THEN Abort ELSE Branch(AfterComma + 2, text[AfterComma][2])

\* The loop ends with the buffer, after the root is wrapped, or with a scalar root.
Parse ==
  /\ built # 0 /\ ~aborted
  /\ IF item = 0 \/ at > Len(text) \/ items[built].type \in Scalars THEN Return
     ELSE Entity \/ ArrayBuild \/ ObjectBuild
  /\ UNCHANGED <<document, text, origin, appends>> /\ UNCHANGED walkVars

Ready == root # 0 /\ origin = 0 /\ ~aborted

-----------------------------------------------------------------------------
(* json_append of a new item *)

\* Mutant of Attached: an appended item does not learn its parent.
Attached_Orphan(i, type, val) ==
  LET name == IF items[i].type = "array" THEN Index(Len(items[i].branch)) ELSE "new"
  IN  Append([items EXCEPT ![i].branch = Append(items[i].branch, Len(items) + 1),
                           ![i].room = Len(items[i].branch) + 1],
             NewItem(type, val, name, 0))

Attached(i, type, val) ==
  LET name == IF items[i].type = "array" THEN Index(Len(items[i].branch)) ELSE "new"
  IN  Append([items EXCEPT ![i].branch = Append(items[i].branch, Len(items) + 1),
                           ![i].room = Len(items[i].branch) + 1],
             NewItem(type, val, name, i))

AppendItem ==
  /\ Ready /\ appends < MaxAppends /\ appends' = appends + 1
  /\ \E i \in ToSet(Preorder(root)), new \in Additions :
       items[i].type \in Composite /\ items' = Attached(i, new[1], new[2])
  /\ UNCHANGED parseVars /\ UNCHANGED walkVars

-----------------------------------------------------------------------------
(* json_iter_next *)

IsLeaf(its, i) == its[i].type \notin Composite \/ its[i].branch = <<>>

\* _json_push: the next branch, in which no other walk has been.
Pushed(its, i) ==
  LET n    == its[i].last + 1
      next == its[i].branch[n]
  IN  [items |-> [its EXCEPT ![i].last = n, ![next].last = 0], at |-> next]

\* From a leaf up to an item that has a branch left.  An item with no mark is
\* not part of the walk, or done.
RECURSIVE Climbed(_, _)
Climbed(its, i) ==
  LET popped == [its EXCEPT ![i].last = 0]
      up     == its[i].parent
  IN  CASE up = 0 \/ popped[up].last = 0 -> [items |-> popped, at |-> 0]
        [] popped[up].last = Len(popped[up].branch) -> Climbed(popped, up)
        [] OTHER -> Pushed(popped, up)

\* Mutant of IterNext: a mark that a walk left is kept if there are branches after it.
IterNext_Stale(i) ==
  LET fresh == [items EXCEPT ![i].last = 0]
  IN  CASE IsLeaf(items, i) -> Climbed(fresh, i)
        [] ~IsLeaf(items, i) -> Pushed(IF items[i].last < Len(items[i].branch) THEN items ELSE fresh, i)

IterNext(i) ==
  LET fresh == [items EXCEPT ![i].last = 0]
  IN  IF IsLeaf(items, i) THEN Climbed(fresh, i) ELSE Pushed(fresh, i)

BeginWalk ==
  /\ Ready /\ walks < MaxWalks /\ walks' = walks + 1
  /\ cursor' = root /\ visited' = <<root>> /\ born' = Len(items)
  /\ UNCHANGED <<items, appends>> /\ UNCHANGED parseVars

StepWalk ==
  /\ Ready /\ cursor # 0
  /\ LET r == IterNext(cursor) IN
       /\ items' = r.items /\ cursor' = r.at
       /\ visited' = IF r.at = 0 THEN visited ELSE Append(visited, r.at)
  /\ UNCHANGED <<born, walks, appends>> /\ UNCHANGED parseVars

-----------------------------------------------------------------------------
(* json_stringify and json_clone *)

\* A quotation mark is written as it is, so that the string ends there.
Spelled(i) ==
  IF items[i].type = "string" /\ items[i].val = Quoting
  THEN <<<<"string", Plain>>, <<"rest">>>> ELSE <<<<items[i].type, items[i].val>>>>

\* Mutant of Written: the branches after the first that fits begin with it again.
RECURSIVE Written_Again(_, _, _)
Written_Again(i, types, top) ==
  LET fits(j) == items[j].type \in types \cup Composite
      name    == IF ~top /\ items[items[i].parent].type = "object"
                 THEN <<<<"key", items[i].key>>, <<":">>>> ELSE <<>>
      first   == SelectInSeq(items[i].branch, fits)
      list    == IF first = 0 THEN <<>>
                 ELSE FoldLeft(LAMBDA s, j : s \o (IF items[j].type \in Composite THEN <<>> ELSE <<<<",">>>>)
                                               \o Written_Again(j, types, FALSE),
                        Written_Again(items[i].branch[first], types, FALSE),
                        SubSeq(items[i].branch, first, Len(items[i].branch)))
  IN  CASE ~fits(i) -> <<>>
        [] items[i].type = "object" -> name \o <<<<"{">>>> \o list \o <<<<"}">>>>
        [] items[i].type = "array" -> name \o <<<<"[">>>> \o list \o <<<<"]">>>>
        [] OTHER -> name \o Spelled(i)

\* _json_stringify_preorder for items of some types.  Every branch after the
\* first that fits has a comma, whether it fits or not.
RECURSIVE Written(_, _, _)
Written(i, types, top) ==
  LET fits(j) == items[j].type \in types \cup Composite
      name    == IF ~top /\ items[items[i].parent].type = "object"
                 THEN <<<<"key", items[i].key>>, <<":">>>> ELSE <<>>
      first   == SelectInSeq(items[i].branch, fits)
      list    == IF first = 0 THEN <<>>
                 ELSE FoldLeft(LAMBDA s, j : s \o <<<<",">>>> \o Written(j, types, FALSE),
                        Written(items[i].branch[first], types, FALSE),
                        SubSeq(items[i].branch, first + 1, Len(items[i].branch)))
  IN  CASE ~fits(i) -> <<>>
        [] items[i].type = "object" -> name \o <<<<"{">>>> \o list \o <<<<"}">>>>
        [] items[i].type = "array" -> name \o <<<<"[">>>> \o list \o <<<<"]">>>>
        [] OTHER -> name \o Spelled(i)

\* json_clone: what is written is parsed again.  To bound behaviours it is
\* the last call of one without walks, whose marks it neither reads nor writes.
Clone ==
  /\ Ready /\ walks = 0
  /\ \E i \in ToSet(Preorder(root)) :
       /\ origin' = i /\ text' = Written(i, Scalars, TRUE) /\ at' = 1
       /\ items' = Append(items, NewItem("undefined", "", "", 0))
       /\ item' = Len(items) + 1 /\ built' = Len(items) + 1
  /\ UNCHANGED <<document, root, copy, aborted, appends>> /\ UNCHANGED walkVars

-----------------------------------------------------------------------------
(* Looking items up *)

\* Mutant of Child: the search below goes on where the one above was.
RECURSIVE Child_Kept(_, _, _)
Child_Kept(i, n, path) ==
  IF n > Len(items[i].branch) THEN 0
  ELSE LET b == items[i].branch[n] IN
    CASE items[b].key # Head(path) -> Child_Kept(i, n + 1, path)
      [] Len(path) = 1 -> b
      [] OTHER -> Child_Kept(b, n, Tail(path))

\* json_get_child, from the n-th branch on; a key with dots is a path.
RECURSIVE Child(_, _, _)
Child(i, n, path) ==
  IF n > Len(items[i].branch) THEN 0
  ELSE LET b == items[i].branch[n] IN
    CASE items[b].key # Head(path) -> Child(i, n + 1, path)
      [] Len(path) = 1 -> b
      [] OTHER -> Child(b, 1, Tail(path))

\* json_get_sibling_byindex, -1 below it for NULL: the place of an item is that of its key.
Sibling(i, relative) ==
  LET siblings == items[items[i].parent].branch
      place    == SelectInSeq(siblings, LAMBDA b : items[b].key = items[i].key) + relative
  IN  IF place \in DOMAIN siblings THEN siblings[place] ELSE 0

JsonNext == Parse \/ AppendItem \/ BeginWalk \/ StepWalk \/ Clone

JsonSpec == JsonInit /\ [][JsonNext]_jsonVars
-----------------------------------------------------------------------------
(* Properties *)

\* The parser's loop over items and json_append leave a tree: an item is a
\* branch of its parent and of nothing else.
TreeOK ==
  \A i \in DOMAIN items :
    /\ IsInjective(items[i].branch)
    /\ \A j \in DOMAIN items : j \in ToSet(items[i].branch) <=> items[j].parent = i

\* json_parse returns what the text says, whatever is nested in what, and the
\* keys of the elements are their indexes.
ParsedIsDocument == Ready /\ appends = 0 /\ visited = <<>> => ValueOf(root) = document

\* The memory for branches, counted ahead by brackets and marks of one kind,
\* is enough although the marks of nested composites look the same.
FitsAllocation == \A i \in DOMAIN items : Len(items[i].branch) <= items[i].room

\* json_iter_next goes through the tree in preorder and misses nothing that was
\* there when the walk began, though its place is kept in the items, other
\* walks were given up half-way and items are appended meanwhile.
IterPreorder ==
  LET old(s) == SelectSeq(s, LAMBDA i : i <= born)
  IN  visited # <<>> /\ Ready =>
        /\ IsInjective(visited)
        /\ IsPrefix(old(visited), old(Preorder(root)))
        /\ cursor = 0 => old(visited) = old(Preorder(root))

\* "it's guaranteed that it will be a perfect clone, with unique fields": a
\* clone has its origin's value and key and shares no item with it.
CloneIsEqual ==
  copy # 0 =>
    /\ ValueOf(copy) = ValueOf(origin) /\ items[copy].key = items[origin].key
    /\ ToSet(Preorder(copy)) \cap ToSet(Preorder(root)) = {}

\* The same sentence says that every item can be cloned.
ClonesAreParsed == origin # 0 => ~aborted

\* Every item is found by the keys from the root to it, and its neighbours by
\* their distance, where keys are not repeated.
PathsLead ==
  Ready /\ visited = <<>> =>
    \A i \in ToSet(Preorder(root)) \ {root} :
      LET up     == items[i].parent
          places == items[up].branch
          n      == SelectInSeq(places, LAMBDA b : b = i)
      IN \A path \in {<<items[i].key>>} \cup
                     IF up = root THEN {} ELSE {<<items[up].key, items[i].key>>} :
           LET from == IF Len(path) = 1 THEN up ELSE items[up].parent IN
             (\A b \in ToSet(places) \cup ToSet(items[from].branch) :
                \A c \in ToSet(places) \cup ToSet(items[from].branch) :
                  items[b].parent = items[c].parent /\ items[b].key = items[c].key => b = c)
             => /\ Child(from, 1, path) = i
                /\ \A r \in {-1, 1} : Sibling(i, r) = IF n + r \in DOMAIN places THEN places[n + r] ELSE 0

\* The tree of items is the document, through parsing, additions, walks and copies.
TreesAreDocuments ==
  /\ TreeOK
  /\ FitsAllocation
  /\ ParsedIsDocument
  /\ IterPreorder
  /\ CloneIsEqual
  /\ PathsLead
=============================================================================
