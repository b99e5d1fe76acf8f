------------------------------ MODULE ListSort ------------------------------
(***************************************************************************)
(* native_list::sort and typeclasses::sort_list_on: a list is cut into     *)
(* ascending runs, which are merged until one is left.  The order of the   *)
(* comparisons and the comparator are those of the compiler whose answers  *)
(* the build reproduces, because a program can see both: Incomparable is a *)
(* key, like NaN, that is neither equal to nor less than any.              *)
(***************************************************************************)
EXTENDS Integers, SequencesExt

CONSTANT
  SortLists   \* bound: lists of keys, each Incomparable or positive

Incomparable == 0

VARIABLES
  unsorted,    \* the list to be sorted, each item with its place
  order,       \* how
  runs,        \* the runs, once they are found
  sorting      \* "list", "runs" or "sorted"

sortVars == <<unsorted, order, runs, sorting>>

(* Lists are sorted with `>` where the answers are those of base 4.21, and *)
(* by comparing otherwise; sorting on a key always compares.               *)
Orders ==
  {[topology |-> "four way", comparator |-> "greater"],
   [topology |-> "four way", comparator |-> "compare"],
   [topology |-> "two way", comparator |-> "compare"]}

Less(x, y) == x # Incomparable /\ y # Incomparable /\ x < y
Equal(x, y) == x # Incomparable /\ x = y

(* Mutant of Greater: equal items change places.                           *)
GreaterOrEqual(left, right) == ~Less(left.key, right.key)

Greater(left, right) ==
  IF order.comparator = "greater" THEN Less(right.key, left.key)
  ELSE ~Equal(left.key, right.key) /\ ~Less(left.key, right.key)

RECURSIVE MergeTwo(_, _)
MergeTwo(left, right) ==
  IF left = <<>> \/ right = <<>> THEN left \o right
  ELSE IF Greater(Head(left), Head(right))
  THEN <<Head(right)>> \o MergeTwo(left, Tail(right))
  ELSE <<Head(left)>> \o MergeTwo(Tail(left), right)

Merge3(some) == MergeTwo(MergeTwo(some[1], some[2]), some[3])
Merge4(some) == MergeTwo(MergeTwo(some[1], some[2]), MergeTwo(some[3], some[4]))

(* A run is ascending, or strictly descending and then turned around.      *)
RECURSIVE NaturalRuns(_)
NaturalRuns(items) ==
  IF items = <<>> THEN <<>>
  ELSE IF Len(items) = 1 THEN <<items>>
  ELSE LET descending == Greater(items[1], items[2])
           goes(n) == \A i \in 1..(n - 1) : Greater(items[i], items[i + 1]) = descending
           n == CHOOSE n \in 2..Len(items) : goes(n) /\ (n = Len(items) \/ ~goes(n + 1))
           run == SubSeq(items, 1, n)
       IN <<IF descending THEN Reverse(run) ELSE run>>
            \o NaturalRuns(SubSeq(items, n + 1, Len(items)))

RECURSIVE FourWayRound(_), TwoWayRound(_)
FourWayRound(some) ==
  LET rest(n) == FourWayRound(SubSeq(some, n + 1, Len(some)))
  IN CASE Len(some) < 2 -> some
       [] Len(some) \in {2, 5} -> <<MergeTwo(some[1], some[2])>> \o rest(2)
       [] Len(some) \in {3, 6} -> <<Merge3(some)>> \o rest(3)
       [] OTHER -> <<Merge4(some)>> \o rest(4)

TwoWayRound(some) ==
  IF Len(some) < 2 THEN some
  ELSE <<MergeTwo(some[1], some[2])>> \o TwoWayRound(SubSeq(some, 3, Len(some)))

SortInit ==
  /\ \E list \in SortLists :
       unsorted = [i \in DOMAIN list |-> [key |-> list[i], place |-> i]]
  /\ order \in Orders
  /\ runs = <<>>
  /\ sorting = "list"

(* base_421_sort merges up to four items without looking for runs.         *)
SortFew ==
  /\ sorting = "list" /\ order.topology = "four way" /\ Len(unsorted) \in 2..4
  /\ LET each == [i \in DOMAIN unsorted |-> <<unsorted[i]>>]
     IN runs' = <<CASE Len(each) = 2 -> MergeTwo(each[1], each[2])
                    [] Len(each) = 3 -> Merge3(each)
                    [] Len(each) = 4 -> Merge4(each)>>
  /\ sorting' = "runs"
  /\ UNCHANGED <<unsorted, order>>

FindRuns ==
  /\ sorting = "list" /\ ~(order.topology = "four way" /\ Len(unsorted) \in 2..4)
  /\ runs' = NaturalRuns(unsorted)
  /\ sorting' = "runs"
  /\ UNCHANGED <<unsorted, order>>

MergeRuns ==
  /\ sorting = "runs" /\ Len(runs) > 1
  /\ runs' = IF order.topology = "four way" THEN FourWayRound(runs) ELSE TwoWayRound(runs)
  /\ UNCHANGED <<unsorted, order, sorting>>

ReturnSorted ==
  /\ sorting = "runs" /\ Len(runs) <= 1
  /\ sorting' = "sorted"
  /\ UNCHANGED <<unsorted, order, runs>>

SortNext == SortFew \/ FindRuns \/ MergeRuns \/ ReturnSorted

----------------------------------------------------------------------------

(* Whatever the comparator answers, no item is lost or doubled between the *)
(* runs; and where it is an order, the one run that is left is ascending   *)
(* and equal items keep their places (native_list.rs:1108).                *)
SortExact ==
  LET all == FlattenSeq(runs)
      before(x, y) == x.key < y.key \/ (x.key = y.key /\ x.place < y.place)
  IN sorting # "list" =>
       /\ Len(all) = Len(unsorted) /\ ToSet(all) = ToSet(unsorted)
       /\ (\A x \in ToSet(unsorted) : x.key # Incomparable) =>
            \A r \in DOMAIN runs : \A i \in 1..(Len(runs[r]) - 1) :
              before(runs[r][i], runs[r][i + 1])
=============================================================================
