------------------------- MODULE OrderedCollections -------------------------
(***************************************************************************)
(* hell_runtime::native_collections: the size-balanced trees of Map and    *)
(* Set.  Two trees are built element by element; then one operation of the *)
(* interface is performed, whose outcome is compared with what the guest   *)
(* was promised.                                                           *)
(*                                                                         *)
(* A key is a number, its copy says which of several equal thunks it is,   *)
(* and a value is the sequence of the values that collision callbacks      *)
(* combined.  The order of the keys is total (NaN, which is not below, not *)
(* above and not equal to itself, is left out), comparing never fails, and *)
(* shared branches are not told from equal ones.  A Set is a tree whose    *)
(* values nobody looks at.                                                 *)
(***************************************************************************)
EXTENDS Integers, Sequences, SequencesExt

CONSTANTS
  TreeKeys,     \* bound: keys of the trees that are built
  MaxElements,  \* bound: elements of both trees, once there are two
  Lists         \* bound: lists of keys given to fromList

ASSUME CollectionsAssumption == TreeKeys \subseteq Int /\ MaxElements \in Nat

VARIABLES
  first, second,   \* the trees
  request,         \* the operation performed, with its argument
  result           \* its result

collectionVars == <<first, second, request, result>>

----------------------------------------------------------------------------
(* Nodes and rotations.                                                    *)

Delta == 3
Ratio == 2

Tip == [len |-> 0]
Node(item, left, right) ==
  [item |-> item, left |-> left, right |-> right, len |-> 1 + left.len + right.len]
Singleton(item) == Node(item, Tip, Tip)

RotateLeft(t) ==
  Node(t.right.item, Node(t.item, t.left, t.right.left), t.right.right)
RotateRight(t) ==
  Node(t.left.item, t.left.left, Node(t.item, t.left.right, t.right))

TooHeavy(heavy, light) == heavy.len + light.len > 1 /\ heavy.len > Delta * light.len

(* Mutant of BalanceLeft: a single rotation, whatever the inner branch.    *)
BalanceLeftOnce(t) == IF TooHeavy(t.left, t.right) THEN RotateRight(t) ELSE t

BalanceLeft(t) ==
  IF ~TooHeavy(t.left, t.right) THEN t
  ELSE IF t.left.right.len < Ratio * t.left.left.len THEN RotateRight(t)
  ELSE RotateRight(Node(t.item, RotateLeft(t.left), t.right))

BalanceRight(t) ==
  IF ~TooHeavy(t.right, t.left) THEN t
  ELSE IF t.right.left.len < Ratio * t.right.right.len THEN RotateLeft(t)
  ELSE RotateLeft(Node(t.item, t.left, RotateRight(t.right)))

RECURSIVE InsertMin(_, _), InsertMax(_, _), Link(_, _, _)
InsertMin(item, t) ==
  IF t = Tip THEN Singleton(item)
  ELSE BalanceLeft(Node(t.item, InsertMin(item, t.left), t.right))
InsertMax(item, t) ==
  IF t = Tip THEN Singleton(item)
  ELSE BalanceRight(Node(t.item, t.left, InsertMax(item, t.right)))

(* Two trees of any sizes and an item between them.                        *)
Link(item, left, right) ==
  IF left = Tip THEN InsertMin(item, right)
  ELSE IF right = Tip THEN InsertMax(item, left)
  ELSE IF Delta * left.len < right.len
    THEN BalanceLeft(Node(right.item, Link(item, left, right.left), right.right))
  ELSE IF Delta * right.len < left.len
    THEN BalanceRight(Node(left.item, left.left, Link(item, left.right, right)))
  ELSE Node(item, left, right)

RECURSIVE TakeMin(_), TakeMax(_), Merge(_, _)
TakeMin(t) ==
  IF t.left = Tip THEN [item |-> t.item, rest |-> t.right]
  ELSE LET m == TakeMin(t.left)
       IN [item |-> m.item, rest |-> BalanceRight(Node(t.item, m.rest, t.right))]
TakeMax(t) ==
  IF t.right = Tip THEN [item |-> t.item, rest |-> t.left]
  ELSE LET m == TakeMax(t.right)
       IN [item |-> m.item, rest |-> BalanceLeft(Node(t.item, t.left, m.rest))]

(* Two trees that are balanced with respect to each other ...              *)
Glue(left, right) ==
  IF left = Tip THEN right
  ELSE IF right = Tip THEN left
  ELSE IF left.len > right.len
    THEN LET m == TakeMax(left) IN BalanceRight(Node(m.item, m.rest, right))
    ELSE LET m == TakeMin(right) IN BalanceLeft(Node(m.item, left, m.rest))

(* ... and of any sizes.                                                   *)
Merge(left, right) ==
  IF left = Tip THEN right
  ELSE IF right = Tip THEN left
  ELSE IF Delta * left.len < right.len
    THEN BalanceLeft(Node(right.item, Merge(left, right.left), right.right))
  ELSE IF Delta * right.len < left.len
    THEN BalanceRight(Node(left.item, left.left, Merge(left.right, right)))
  ELSE Glue(left, right)

----------------------------------------------------------------------------
(* Operations on one tree.                                                 *)

Item(k, c) == [key |-> k, copy |-> c, value |-> <<c>>]

(* What becomes of an item that meets an equal key: it replaces the old    *)
(* one (insert of maps and sets), the old one stays (union of sets), or    *)
(* the callback combines the two values, under the new or the old key.     *)
Met(how, item, old) ==
  CASE how = "replace" -> item
    [] how = "keep"    -> old
    [] how = "with"    -> [item EXCEPT !.value = @ \o old.value]
    [] how = "after"   -> [old EXCEPT !.value = @ \o item.value]

RECURSIVE Insert(_, _, _), RemoveKey(_, _), Adjust(_, _), Find(_, _), Split(_, _)
Insert(how, item, t) ==
  IF t = Tip THEN Singleton(item)
  ELSE IF item.key < t.item.key
    THEN BalanceLeft(Node(t.item, Insert(how, item, t.left), t.right))
  ELSE IF item.key = t.item.key
    THEN Node(Met(how, item, t.item), t.left, t.right)
  ELSE BalanceRight(Node(t.item, t.left, Insert(how, item, t.right)))

RemoveKey(k, t) ==
  IF t = Tip THEN Tip
  ELSE IF k < t.item.key THEN BalanceRight(Node(t.item, RemoveKey(k, t.left), t.right))
  ELSE IF k > t.item.key THEN BalanceLeft(Node(t.item, t.left, RemoveKey(k, t.right)))
  ELSE Glue(t.left, t.right)

(* adjust keeps the shape; 0 stands for the callback it applies.           *)
Adjust(k, t) ==
  IF t = Tip THEN Tip
  ELSE IF k < t.item.key THEN Node(t.item, Adjust(k, t.left), t.right)
  ELSE IF k > t.item.key THEN Node(t.item, t.left, Adjust(k, t.right))
  ELSE Node([t.item EXCEPT !.value = <<0>> \o @], t.left, t.right)

Find(k, t) ==
  IF t = Tip THEN <<>>
  ELSE IF k < t.item.key THEN Find(k, t.left)
  ELSE IF k > t.item.key THEN Find(k, t.right)
  ELSE <<t.item>>

Split(k, t) ==
  IF t = Tip THEN [lower |-> Tip, found |-> <<>>, upper |-> Tip]
  ELSE IF k < t.item.key
    THEN LET s == Split(k, t.left)
         IN [s EXCEPT !.upper = Link(t.item, @, t.right)]
  ELSE IF k > t.item.key
    THEN LET s == Split(k, t.right)
         IN [s EXCEPT !.lower = Link(t.item, t.left, @)]
  ELSE [lower |-> t.left, found |-> <<t.item>>, upper |-> t.right]

RECURSIVE InOrder(_), FromSorted(_)
InOrder(t) == IF t = Tip THEN <<>> ELSE InOrder(t.left) \o <<t.item>> \o InOrder(t.right)

FromSorted(items) ==
  IF items = <<>> THEN Tip
  ELSE LET middle == (Len(items) \div 2) + 1
       IN Node(items[middle], FromSorted(SubSeq(items, 1, middle - 1)),
               FromSorted(SubSeq(items, middle + 1, Len(items))))

----------------------------------------------------------------------------
(* Operations on two trees.                                                *)

RECURSIVE UnionWith(_, _), Union(_, _), Difference(_, _), Intersection(_, _)
UnionWith(left, right) ==
  IF right = Tip THEN left
  ELSE IF right.len = 1 THEN Insert("after", right.item, left)
  ELSE IF left = Tip THEN right
  ELSE IF left.len = 1 THEN Insert("with", left.item, right)
  ELSE LET s == Split(left.item.key, right)
           item == IF s.found = <<>> THEN left.item
                   ELSE Met("with", left.item, s.found[1])
       IN Link(item, UnionWith(left.left, s.lower), UnionWith(left.right, s.upper))

Union(left, right) ==
  IF left = Tip THEN right
  ELSE IF right = Tip THEN left
  ELSE IF right.len = 1 THEN Insert("keep", right.item, left)
  ELSE IF left.len = 1 THEN Insert("replace", left.item, right)
  ELSE LET s == Split(left.item.key, right)
       IN Link(left.item, Union(left.left, s.lower), Union(left.right, s.upper))

(* Nothing was taken away when the sizes add up.                           *)
Difference(left, right) ==
  IF right = Tip THEN left
  ELSE IF left = Tip THEN Tip
  ELSE LET s == Split(right.item.key, left)
           lower == Difference(s.lower, right.left)
           upper == Difference(s.upper, right.right)
       IN IF lower.len + upper.len = left.len THEN left ELSE Merge(lower, upper)

(* Mutant of Intersection: the item is taken from the second tree.         *)
RECURSIVE IntersectionOfSecond(_, _)
IntersectionOfSecond(left, right) ==
  IF left = Tip \/ right = Tip THEN Tip
  ELSE LET s == Split(left.item.key, right)
           lower == IntersectionOfSecond(left.left, s.lower)
           upper == IntersectionOfSecond(left.right, s.upper)
       IN IF s.found # <<>> THEN Link(s.found[1], lower, upper) ELSE Merge(lower, upper)

Intersection(left, right) ==
  IF left = Tip \/ right = Tip THEN Tip
  ELSE LET s == Split(left.item.key, right)
           lower == Intersection(left.left, s.lower)
           upper == Intersection(left.right, s.upper)
       IN IF s.found # <<>> THEN Link(left.item, lower, upper) ELSE Merge(lower, upper)

----------------------------------------------------------------------------
(* fromList takes the ascending beginning of its list in pieces of 1, 2,   *)
(* 4, ... elements, each linked to what is there, and inserts the rest one *)
(* by one.  A place in the list is the index of the next element.          *)

NotOrdered(list, at) == at < Len(list) /\ list[at].key >= list[at + 1].key

InsertRemaining(t, list, at) ==
  FoldLeft(LAMBDA tree, item : Insert("replace", item, tree), t,
           SubSeq(list, at, Len(list)))

RECURSIVE Create(_, _, _), FromOrdered(_, _, _, _)
Create(size, list, at) ==
  IF at > Len(list) THEN [tree |-> Tip, next |-> at, unordered |-> FALSE]
  ELSE IF size = 1
    THEN [tree |-> Singleton(list[at]), next |-> at + 1, unordered |-> NotOrdered(list, at)]
  ELSE LET l == Create(size \div 2, list, at)
       IN IF l.unordered \/ l.next > Len(list) THEN l
          ELSE IF l.next = Len(list)
            THEN [tree |-> InsertMax(list[l.next], l.tree), next |-> l.next + 1,
                  unordered |-> FALSE]
          ELSE IF NotOrdered(list, l.next) THEN [l EXCEPT !.unordered = TRUE]
          ELSE LET r == Create(size \div 2, list, l.next + 1)
               IN [r EXCEPT !.tree = Link(list[l.next], l.tree, @)]

FromOrdered(size, left, list, at) ==
  IF at > Len(list) THEN left
  ELSE IF at = Len(list) THEN InsertMax(list[at], left)
  ELSE IF NotOrdered(list, at) THEN InsertRemaining(left, list, at)
  ELSE LET c == Create(size, list, at + 1)
           linked == Link(list[at], left, c.tree)
       IN IF c.unordered THEN InsertRemaining(linked, list, c.next)
          ELSE FromOrdered(2 * size, linked, list, c.next)

FromList(list) ==
  IF list = <<>> THEN Tip
  ELSE IF NotOrdered(list, 1) THEN InsertRemaining(Singleton(list[1]), list, 2)
  ELSE FromOrdered(1, Singleton(list[1]), list, 2)

----------------------------------------------------------------------------
NothingYet == <<"none", 0>>

CollectionsInit == first = Tip /\ second = Tip /\ request = NothingYet /\ result = Tip

(* Building: insert and delete, one key at a time.                         *)
GrowFirst(k) ==
  /\ request = NothingYet /\ second = Tip
  /\ first' \in {Insert("replace", Item(k, 1), first), RemoveKey(k, first)}
  /\ UNCHANGED <<second, request, result>>

GrowSecond(k) ==
  /\ request = NothingYet
  /\ second' \in {Insert("replace", Item(k, 2), second), RemoveKey(k, second)}
  /\ first.len + second'.len <= MaxElements
  /\ UNCHANGED <<first, request, result>>

Answer(op, arg, tree) ==
  /\ request = NothingYet
  /\ request' = <<op, arg>>
  /\ result' = tree
  /\ UNCHANGED <<first, second>>

(* One operation on the first tree, on both, or on a list.  Operations     *)
(* that do not look at the second tree are performed while it is empty.    *)
(* What is looked up is shown as a tree with that item only.               *)
OnOne(k) ==
  /\ second = Tip
  /\ \/ Answer("insert", k, Insert("replace", Item(k, 3), first))
     \/ Answer("insertWith", k, Insert("with", Item(k, 3), first))
     \/ Answer("delete", k, RemoveKey(k, first))
     \/ Answer("adjust", k, Adjust(k, first))
     \/ Answer("lookup", k, IF Find(k, first) = <<>> THEN Tip ELSE Singleton(Find(k, first)[1]))

Keep(t, parity) == FromSorted(SelectSeq(InOrder(t), LAMBDA item : item.key % 2 = parity))
OnFiltered(parity) == second = Tip /\ Answer("filter", parity, Keep(first, parity))

OnBoth ==
  \/ Answer("unionWith", 0, UnionWith(first, second))
  \/ Answer("union", 0, Union(first, second))
  \/ Answer("difference", 0, Difference(first, second))
  \/ Answer("intersection", 0, Intersection(first, second))

Listed(keys) == [i \in DOMAIN keys |-> Item(keys[i], i)]
OnList ==
  /\ first = Tip /\ second = Tip
  /\ \E keys \in Lists : Answer("fromList", keys, FromList(Listed(keys)))

CollectionsNext ==
  \/ \E k \in TreeKeys : GrowFirst(k) \/ GrowSecond(k) \/ OnOne(k)
  \/ \E parity \in {0, 1} : OnFiltered(parity)
  \/ OnBoth
  \/ OnList

----------------------------------------------------------------------------

Trees == {first, second, result}

RECURSIVE Balanced(_)
Balanced(t) ==
  t # Tip => /\ ~TooHeavy(t.left, t.right) /\ ~TooHeavy(t.right, t.left)
             /\ Balanced(t.left) /\ Balanced(t.right)

(* Whatever is performed on whatever trees, the keys of the outcome ascend *)
(* strictly from left to right, and no branch of any node is more than     *)
(* Delta times as heavy as the other: lookups stay logarithmic, and the    *)
(* rotations, which expect children to be there, find them.                *)
TreesSound ==
  \A t \in Trees :
    LET items == InOrder(t)
    IN /\ Balanced(t)
       /\ \A i \in 1..(Len(items) - 1) : items[i].key < items[i + 1].key

Items(t) == ToSet(InOrder(t))
Keys(t) == {item.key : item \in Items(t)}
At(t, k) == CHOOSE item \in Items(t) : item.key = k
Others(t, k) == {item \in Items(t) : item.key # k}

(* Each operation has exactly the items it should: of two equal keys the   *)
(* later one of a list or an insert, the one of the first tree in a union  *)
(* or an intersection, and the callback's arguments in their order.        *)
ItemsExact ==
  LET op == request[1]
      k == request[2]
      t == result
      common == Keys(first) \cap Keys(second)
  IN CASE op = "insert" -> Items(t) = Others(first, k) \cup {Item(k, 3)}
       [] op = "insertWith" ->
            Items(t) = Others(first, k) \cup
              {[Item(k, 3) EXCEPT !.value =
                  IF k \in Keys(first) THEN @ \o At(first, k).value ELSE @]}
       [] op = "delete" -> Items(t) = Others(first, k)
       [] op = "adjust" ->
            Items(t) = {IF item.key = k THEN [item EXCEPT !.value = <<0>> \o @] ELSE item :
                          item \in Items(first)}
       [] op = "lookup" ->
            Items(t) = Items(first) \ Others(first, k)
       [] op = "filter" -> Items(t) = {item \in Items(first) : item.key % 2 = k}
       [] op = "unionWith" ->
            Items(t) = {IF item.key \in common
                          THEN [item EXCEPT !.value = @ \o At(second, item.key).value]
                          ELSE item : item \in Items(first)}
                       \cup {item \in Items(second) : item.key \notin common}
       [] op = "union" ->
            Items(t) = Items(first) \cup {item \in Items(second) : item.key \notin common}
       [] op = "difference" ->
            Items(t) = {item \in Items(first) : item.key \notin common}
       [] op = "intersection" ->
            Items(t) = {item \in Items(first) : item.key \in common}
       [] op = "fromList" ->
            Items(t) = {Item(k[i], i) : i \in {j \in DOMAIN k :
                          \A later \in (j + 1)..Len(k) : k[later] # k[j]}}
       [] OTHER -> TRUE
(* Maps and sets are balanced trees of exactly the items they should have  *)
(* (native_collections.rs).                                                *)
CollectionsExact == TreesSound /\ ItemsExact
=============================================================================
