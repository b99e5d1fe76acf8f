---------------------------- MODULE MCComponents ----------------------------
(***************************************************************************)
(* Instances of the components that have state of their own and share none *)
(* with each other: the resources a program takes from its host (the       *)
(* budget's counters, the cancellation of an HTTP request, file handles,   *)
(* temporary objects, child processes), and the data types the runtime     *)
(* implements (maps and sets, big integers, times), parts of the compiler  *)
(* (the parser, the unifier, the sweep for cyclic declarations) and the    *)
(* batches of the test kit.  A behaviour follows one of them, the subject, *)
(* chosen at the start, and leaves the others in one initial state.        *)
(***************************************************************************)
EXTENDS Budget, HostCancellation, FileHandle, TempResource, ChildProcess,
        OrderedCollections, BigInteger, GuestTime, TypeUnifier, DependencySweep,
        ListSort, ProgramText, DifferentialBatch

CONSTANTS t1, t2, t3

VARIABLE subject

resourceVars == <<budgetVars, cancelVars, handleVars, tempVars, processVars>>
dataVars == <<collectionVars, integerVars, timeVars, sortVars>>
compilerVars == <<unifierVars, sweepVars, parserVars, batchVars>>
components == <<subject, resourceVars, dataVars, compilerVars>>

Init ==
  /\ subject \in {"budget", "cancellation", "handle", "temporary", "process",
                  "collections", "integers", "time", "unifier", "sweep",
                  "parser", "batch", "sort"}
  /\ subject = "parser" \/ (subject # "parser" /\ source = Program(A, "aligned"))
  /\ ParserInit
  /\ BudgetInit      /\ (subject # "budget"   => limit = CHOOSE l \in Limits : TRUE)
  /\ ProcessInit     /\ (subject # "process"  => call = CHOOSE c \in Calls : TRUE)
  /\ IntegersInit    /\ (subject # "integers" => left = Zero /\ right = Zero)
  /\ TimeInit        /\ (subject # "time"     => day = UnixEpochMjd + 30 /\ dayTime = 0)
  /\ SweepInit       /\ (subject # "sweep"    => ready = Declarations)
  /\ SortInit        /\ (subject # "sort"     => unsorted = <<>> /\ order.topology = "two way")
  /\ BatchInit       /\ (subject # "batch"    => failing = {})
  /\ CancellationInit /\ HandleInit /\ TempInit /\ CollectionsInit /\ UnifierInit

Next ==
  /\ UNCHANGED subject
  /\ \/ /\ subject = "budget" /\ BudgetNext
        /\ UNCHANGED <<cancelVars, handleVars, tempVars, processVars,
                       dataVars, compilerVars>>
     \/ /\ subject = "cancellation" /\ CancellationNext
        /\ UNCHANGED <<budgetVars, handleVars, tempVars, processVars,
                       dataVars, compilerVars>>
     \/ /\ subject = "handle" /\ HandleNext
        /\ UNCHANGED <<budgetVars, cancelVars, tempVars, processVars,
                       dataVars, compilerVars>>
     \/ /\ subject = "temporary" /\ TempNext
        /\ UNCHANGED <<budgetVars, cancelVars, handleVars, processVars,
                       dataVars, compilerVars>>
     \/ /\ subject = "process" /\ ProcessNext
        /\ UNCHANGED <<budgetVars, cancelVars, handleVars, tempVars,
                       dataVars, compilerVars>>
     \/ /\ subject = "collections" /\ CollectionsNext
        /\ UNCHANGED <<integerVars, timeVars, sortVars, resourceVars, compilerVars>>
     \/ /\ subject = "integers" /\ IntegersNext
        /\ UNCHANGED <<collectionVars, timeVars, sortVars, resourceVars, compilerVars>>
     \/ /\ subject = "time" /\ TimeNext
        /\ UNCHANGED <<collectionVars, integerVars, sortVars, resourceVars, compilerVars>>
     \/ /\ subject = "sort" /\ SortNext
        /\ UNCHANGED <<collectionVars, integerVars, timeVars, resourceVars, compilerVars>>
     \/ /\ subject = "unifier" /\ UnifierNext
        /\ UNCHANGED <<sweepVars, parserVars, batchVars, resourceVars, dataVars>>
     \/ /\ subject = "sweep" /\ Sweep
        /\ UNCHANGED <<unifierVars, parserVars, batchVars, resourceVars, dataVars>>
     \/ /\ subject = "parser" /\ ParserNext
        /\ UNCHANGED <<unifierVars, sweepVars, batchVars, resourceVars, dataVars>>
     \/ /\ subject = "batch" /\ BatchNext
        /\ UNCHANGED <<unifierVars, sweepVars, parserVars, resourceVars, dataVars>>

Spec == Init /\ [][Next]_components

FairSpec == Spec /\ (subject = "process" => ProcessFairness)

(* The data types implemented by the runtime compute what they should      *)
(* (native_list.rs, native_collections.rs, native_integer.rs,              *)
(* native_time.rs).                                                        *)
KernelsExact ==
  /\ subject = "collections" => CollectionsExact
  /\ subject = "integers" => IntegersExact
  /\ subject = "time" => TimeExact
  /\ subject = "sort" => SortExact

----------------------------------------------------------------------------
(* Two threads that charge one counter of at most three units.             *)
Threads == {t1, t2}
ThreeRegistrars == {t1, t2, t3}
TwoLimits == {2, Unlimited}
OneOrTwo == {1, 2}

AllModes == {"none", "line", "block"}

Invocation(host, input, reads, ends, writes) ==
  [host |-> host, input |-> input, reads |-> reads, ends |-> ends, writes |-> writes]
FewCalls ==
  {Invocation("runtime", TRUE, TRUE, TRUE, {"stdout"}),
   Invocation("runtime", FALSE, FALSE, FALSE, {"stdout"}),
   Invocation("runtime", TRUE, FALSE, TRUE, {}),
   Invocation("testkit", TRUE, TRUE, TRUE, {"stdout", "stderr"}),
   Invocation("testkit", TRUE, FALSE, FALSE, {"stdout"})}

FiveKeys == 1..5

(* Lists of up to eleven ascending keys, one of which is out of order or   *)
(* equal to another.                                                       *)
NearlyAscending ==
  UNION {{[[i \in 1..n |-> 2 * i] EXCEPT ![j] = k] : j \in 1..n, k \in 1..(2 * n + 1)} :
           n \in 1..11}

(* Every list of up to four keys, and lists of up to eleven runs of two.   *)
FewKeys == {0, 1, 2}
Pairs == {<<1, 2>>, <<2, 1>>, <<3, 1>>}
ShortLists == UNION {[1..n -> FewKeys] : n \in 0..4}
InPairs(n, pairs) ==
  [i \in 1..(2 * n) |-> pairs[1 + (((i - 1) \div 2) % 3)][1 + ((i - 1) % 2)]]
FewLists ==
  ShortLists
    \cup {InPairs(n, pairs) : n \in 3..11, pairs \in [1..3 -> Pairs]}
    \cup {[i \in 1..n |-> (i * k) % 7] : n \in 5..12, k \in 1..6}

(* Two binary digits to a limb, five to a word: numbers of up to five      *)
(* limbs, about every border of a limb and of a word, and one from which   *)
(* a borrow ends below the highest limb.                                   *)
BorderNumbers ==
  (-9..9) \cup {-256, -65, -63, -33, -32, -31, 22, 31, 32, 33, 63, 65, 255, 256, 1023}
FewDivisors == {1, 2, 3, 5, 7}

(* Two ticks to a second, twenty bits to a count of them: numbers of       *)
(* seconds about every border of a tick and of the width.                  *)
FewDoubles ==
  [negative : BOOLEAN, mantissa : {0, 1, 9, 15},
   exponent : {-25, -20, -4, -1, 0, 14, 15, 16, 17, 18, 19, 20}]

(* The days about the end of February in years of every kind, and the      *)
(* starts from which operations are performed.                             *)
BorderDays ==
  {GregorianToMjd(y, 3, 1) + k - UnixEpochMjd :
     y \in {-400, -1, 0, 1, 4, 100, 400, 1900, 2000, 2100, 9999, 10000},
       k \in {-62, -61, -60, -59, -31, -30, -2, -1, 0, 1, 2}}
FewStarts ==
  [day : BorderDays, ticks : {0}, steps : {0}]
    \cup [day : {-1, 30}, ticks : {-1, 0, PerDay - 1}, steps : {2}]
FewTexts ==
  [year : {-1, 2024}, month : {0, 2, 12}, day : {29, 30}, hour : {23, 24, 25},
   minute : {0, 59}, second : {0, 60, 61}, fraction : {0, 1}]

(* Constructors of every kind of argument, and metavariables of every kind *)
(* a type can have in the compiler's equations.                            *)
FourConstructors ==
  [Int |-> KType, List |-> KArrow(KType, KType), Maybe |-> KArrow(KType, KType),
   Record |-> KArrow(KRow, KType)]
FourKinds == <<KType, KType, KArrow(KType, KType), KRow>>

IntType == Constructor("Int")
ListOf(t) == Apply(Constructor("List"), t)
RecordOf(row) == Apply(Constructor("Record"), row)

(* Each metavariable brings the types it occurs in.                        *)
FewTypes(n) ==
  LET a == Meta(1)  b == Meta(2)  f == Meta(3)  r == Meta(4)
      brought == <<{RowNil, ListOf(IntType)}, {a, Function(a, IntType)}, {b},
                   {Apply(f, a)},
                   {RowCons("x", b, r), RowCons("x", a, RowNil), RowCons("y", a, RowNil),
                    RecordOf(r)}>>
  IN UNION {brought[i] : i \in 1..(n + 1)}

FewGroundTypes(kind) ==
  CASE kind = KType -> {IntType, ListOf(IntType), Function(IntType, IntType)}
    [] kind = KRow  -> {RowNil, RowCons("x", IntType, RowNil)}
    [] OTHER        -> {Constructor("List"), Constructor("Maybe")}

(* Every construct around every leaf and operation, and, in every layout,  *)
(* around one that has no end of its own; and one declaration for each way *)
(* in which one is refused.                                                *)
PlainTrees ==
  Leaves \cup UNION {Around(l) : l \in Leaves \cup {u \in Around(A) : IsOperation(u)}}
BlockTrees == UNION {Around(t) : t \in {u \in Around(A) : u.node \in OpenEnded}}
RecordTrees ==
  UNION {{Tree("do", <<>>, <<Then(r), Then(A)>>),
          Case(A, <<To(<<"C">>, Case(A, <<To(<<"C">>, r)>>)), To(<<"_">>, A)>>)} :
           r \in {Tree("record", <<"Q.c">>, <<FieldOf("f", t)>>) :
                   t \in {u \in Around(A) : u.node \in OpenEnded}}}
RefusedTexts ==
  {<<"lower", "=", ")">>, <<"lower", "lower", "=", "lower">>, <<"upper", "=", "lower">>,
   <<"lower", "::", "upper", "upper">>, <<"lower", "=", "lower", "op", "lower">>,
   <<"lower", "=", "\\", "->", "lower">>, <<"lower", "=", "\\", "upper", "->", "lower">>,
   <<"lower", "=", "\\", "(", "lower", ",", "lower", ")", "->", "lower">>,
   <<"lower", "=", "if", "lower", "else">>, <<"lower", "=", "if", "lower", "then", "lower">>,
   <<"lower", "=", "case", "lower">>, <<"lower", "=", "case", "lower", "of", "{", "}">>,
   <<"lower", "=", "case", "lower", "of", "{", "lower", "->", "lower", "}">>,
   <<"lower", "=", "case", "lower", "of", "{", "upper", "lower", "lower", "}">>,
   <<"lower", "=", "do", "{", "}">>, <<"lower", "=", "do", "{", "lower", "<-", "lower", "}">>,
   <<"lower", "=", "do", "{", "let", "lower", "lower", "}">>,
   <<"lower", "=", "[", "lower", ")">>, <<"lower", "=", "(", "lower", "]">>,
   <<"lower", "=", "(", "lower", ",", "lower", "]">>,
   <<"lower", "=", "qualified", "{", "upper", "}">>,
   <<"lower", "=", "qualified", "{", "lower", ")", "}">>}
(* Broken off at its end, or with more of it after the error.              *)
UnendingTexts ==
  {<<"lower", "=">>, <<"lower", "=", "lower", "@">>, <<"lower", "=", "(", "lower">>,
   <<"lower", "=", "do", "{", ")", ";", "lower", "}">>,
   <<"lower", "=", "do", "aligned", "lower", "item", ")", "item", "lower", "end">>,
   <<"lower", "=", "case", "lower", "of", "broken", "lower", "->", "lower", "end">>}
FewFiles ==
  {Program(t, s) : t \in BlockTrees \cup RecordTrees, s \in Styles}
    \cup {Program(t, "aligned") : t \in PlainTrees}
    \cup {WithRefused(text, TRUE) : text \in RefusedTexts}
    \cup {WithRefused(text, FALSE) : text \in UnendingTexts}
=============================================================================
