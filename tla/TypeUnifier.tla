---------------------------- MODULE TypeUnifier ----------------------------
(***************************************************************************)
(* hell_types::Unifier: metavariables, their bindings, unification with    *)
(* its work list, occurs check and kind check, and zonking with its memo.  *)
(* The compiler asks for one thing after the other and stops at the first  *)
(* unification that fails.                                                 *)
(*                                                                         *)
(* The arena interns every node but a metavariable's, so two identifiers   *)
(* are equal exactly when the types are: a type stands for its identifier. *)
(* A type is a node with a name (of a constructor or a label), a number    *)
(* (of a metavariable) and parts.                                          *)
(***************************************************************************)
EXTENDS Integers, Sequences, FiniteSets, SequencesExt, Functions

CONSTANTS
  ConstructorKind,   \* the constructors and their kinds
  MetaKinds,         \* bound: the kinds of the metavariables, in order
  TypesOver(_),      \* bound: the types that mention the first n of them
  GroundTypes(_),    \* bound: closed types of a kind, to compare with
  MaxAsks            \* bound: unifications and zonks

VARIABLES
  metaKinds,   \* kinds of the metavariables there are, by number
  binding,     \* what each is bound to, or Free
  memo,        \* the types already zonked
  equations,   \* what the compiler asked to be equal
  asks,        \* how often it asked
  verdict,     \* "ok", or why a unification failed
  closed       \* the type zonked last and its answer

unifierVars == <<metaKinds, binding, memo, equations, asks, verdict, closed>>

Type(node, name, parts) ==
  [node |-> node, name |-> name, number |-> 0, parts |-> parts]
Meta(m) == [Type("meta", "", <<>>) EXCEPT !.number = m]
Constructor(name) == Type("constructor", name, <<>>)
Function(argument, result) == Type("function", "", <<argument, result>>)
Apply(function, argument) == Type("apply", "", <<function, argument>>)
RowNil == Type("nil", "", <<>>)
RowCons(label, field, tail) == Type("row", label, <<field, tail>>)
Free == Type("free", "", <<>>)

KType == <<"Type">>
KRow == <<"Row">>
KArrow(from, to) == <<"Arrow", from, to>>
IllKinded == <<"none">>

RECURSIVE KindOf(_)
KindOf(t) ==
  LET kinds == [i \in DOMAIN t.parts |-> KindOf(t.parts[i])]
  IN CASE t.node = "meta"        -> metaKinds[t.number]
       [] t.node = "constructor" -> ConstructorKind[t.name]
       [] t.node = "nil"         -> KRow
       [] t.node = "function"    -> IF kinds = <<KType, KType>> THEN KType ELSE IllKinded
       [] t.node = "row"         -> IF kinds = <<KType, KRow>> THEN KRow ELSE IllKinded
       [] t.node = "apply"       ->
            IF Len(kinds[1]) = 3 /\ kinds[1][2] = kinds[2] THEN kinds[1][3] ELSE IllKinded

----------------------------------------------------------------------------
(* Bindings.  Pruning follows them to the end and shortens the path.       *)

Bound(b, t) == t.node = "meta" /\ b[t.number] # Free

RECURSIVE Path(_, _)
Path(b, t) == IF Bound(b, t) THEN <<t.number>> \o Path(b, b[t.number]) ELSE <<>>
End(b, t) ==
  IF Bound(b, t) THEN b[Last(Path(b, t))] ELSE t
Shortened(b, ms) == [m \in DOMAIN b |-> IF m \in ms THEN End(b, Meta(m)) ELSE b[m]]
Pruned(b, t) == Shortened(b, ToSet(Path(b, t)))

(* The metavariables that the occurs check meets, bound ones included.     *)
RECURSIVE Meets(_, _)
Meets(b, t) ==
  IF Bound(b, t) THEN {t.number} \cup Meets(b, b[t.number])
  ELSE IF t.node = "meta" THEN {t.number}
  ELSE UNION {Meets(b, t.parts[i]) : i \in DOMAIN t.parts}

(* Mutant of Bind: the kinds are not compared.                             *)
BindAnyKind(b, m, t) ==
  LET met == Meets(b, t)
      short == Shortened(b, {n \in met : b[n] # Free})
  IN IF m \in met THEN [binding |-> short, error |-> "occurs"]
     ELSE [binding |-> [short EXCEPT ![m] = t], error |-> "ok"]

(* What binding m to t answers, with the paths the check has shortened.    *)
Bind(b, m, t) ==
  LET met == Meets(b, t)
      short == Shortened(b, {n \in met : b[n] # Free})
  IN IF m \in met THEN [binding |-> short, error |-> "occurs"]
     ELSE IF KindOf(t) # metaKinds[m] THEN [binding |-> short, error |-> "kind"]
     ELSE [binding |-> [short EXCEPT ![m] = t], error |-> "ok"]

(* Mutant of Alike: any two rows are alike, whatever their labels.         *)
AlikeAnyLabel(l, r) == l.node = r.node /\ l.parts # <<>>

(* Nodes that are equal when their parts are.                              *)
Alike(l, r) == l.node = r.node /\ l.name = r.name /\ l.parts # <<>>

(* The pairs still to be unified, the next one first.                      *)
RECURSIVE Unified(_, _)
Unified(b, work) ==
  IF work = <<>> THEN [binding |-> b, error |-> "ok"]
  ELSE LET l == End(b, work[1][1])
           r == End(b, work[1][2])
           short == Pruned(Pruned(b, work[1][1]), work[1][2])
           bound == IF l.node = "meta" THEN Bind(short, l.number, r)
                                       ELSE Bind(short, r.number, l)
           parts == [i \in DOMAIN l.parts |-> <<l.parts[i], r.parts[i]>>]
       IN IF l = r THEN Unified(short, Tail(work))
          ELSE IF "meta" \in {l.node, r.node}
            THEN (IF bound.error = "ok" THEN Unified(bound.binding, Tail(work)) ELSE bound)
          ELSE IF Alike(l, r) THEN Unified(short, parts \o Tail(work))
          ELSE [binding |-> short, error |-> "mismatch"]

(* Mutant of Remember: the type itself is remembered.                      *)
RememberItself(table, t, whole) ==
  [u \in DOMAIN table \cup {t} |-> IF u = t THEN t ELSE table[u]]

Remember(table, t, whole) ==
  [u \in DOMAIN table \cup {t} |-> IF u = t THEN whole ELSE table[u]]

(* Zonking, from left to right; it stops at a metavariable that is free.   *)
RECURSIVE Zonked(_, _, _)
Zonked(b, table, t) ==
  LET end == End(b, t)
      step(done, part) ==
        IF ~done.ok THEN done
        ELSE LET z == Zonked(b, done.table, part)
             IN [z EXCEPT !.met = @ \cup done.met, !.out = Append(done.out, @)]
      parts == FoldLeft(step, [ok |-> TRUE, table |-> table, met |-> {}, out |-> <<>>],
                        end.parts)
      whole == [end EXCEPT !.parts = parts.out]
      met == ToSet(Path(b, t))
  IN IF end \in DOMAIN table
       THEN [ok |-> TRUE, table |-> table, met |-> met, out |-> table[end]]
     ELSE IF end.node = "meta"
       THEN [ok |-> FALSE, table |-> table, met |-> met, out |-> end]
     ELSE IF ~parts.ok THEN [parts EXCEPT !.met = @ \cup met, !.out = end]
     ELSE [ok |-> TRUE, table |-> Remember(parts.table, end, whole),
           met |-> parts.met \cup met, out |-> whole]

----------------------------------------------------------------------------

UnifierInit ==
  /\ metaKinds = <<>> /\ binding = <<>> /\ memo = [t \in {} |-> t]
  /\ equations = {} /\ asks = 0 /\ verdict = "ok" /\ closed = <<>>

Fresh ==
  /\ verdict = "ok" /\ Len(metaKinds) < Len(MetaKinds)
  /\ metaKinds' = Append(metaKinds, MetaKinds[Len(metaKinds) + 1])
  /\ binding' = Append(binding, Free)
  /\ memo' = [t \in {} |-> t]
  /\ UNCHANGED <<equations, asks, verdict, closed>>

Asking == verdict = "ok" /\ asks < MaxAsks /\ asks' = asks + 1

(* The memo is cleared when something is bound, and only then.             *)
Unify(l, r) ==
  LET answer == Unified(binding, <<<<l, r>>>>)
      stillFree == \A m \in DOMAIN binding :
                     binding[m] = Free => answer.binding[m] = Free
  IN /\ Asking
     /\ binding' = answer.binding
     /\ verdict' = answer.error
     /\ memo' = IF stillFree THEN memo ELSE [t \in {} |-> t]
     /\ equations' = equations \cup {{l, r}}
     /\ UNCHANGED <<metaKinds, closed>>

Zonk(t) ==
  LET answer == Zonked(binding, memo, t)
  IN /\ Asking
     /\ closed' = IF answer.ok THEN <<t, answer.out>> ELSE <<t>>
     /\ memo' = answer.table
     /\ binding' = Shortened(binding, answer.met)
     /\ UNCHANGED <<metaKinds, equations, verdict>>

UnifierNext ==
  \/ Fresh
  \/ \E l, r \in TypesOver(Len(metaKinds)) : Unify(l, r)
  \/ \E t \in TypesOver(Len(metaKinds)) : Zonk(t)

----------------------------------------------------------------------------

(* Closed types for the metavariables, of their kinds.                     *)
RECURSIVE Assignments(_)
Assignments(n) ==
  IF n = 0 THEN {<<>>}
  ELSE {Append(s, t) : s \in Assignments(n - 1), t \in GroundTypes(metaKinds[n])}

RECURSIVE Under(_, _)
Under(s, t) ==
  IF t.node = "meta" THEN s[t.number]
  ELSE [t EXCEPT !.parts = [i \in DOMAIN @ |-> Under(s, @[i])]]

Solves(s) == \A e \in equations : \A l, r \in e : Under(s, l) = Under(s, r)
Respects(s) == \A m \in DOMAIN binding : binding[m] # Free => s[m] = Under(s, binding[m])

(* The bindings are a most general solution of everything that was asked:  *)
(* closed types solve the equations exactly when they agree with the       *)
(* bindings, and when unification has failed nothing solves them.          *)
MostGeneral ==
  \A s \in Assignments(Len(metaKinds)) :
    Solves(s) <=> verdict = "ok" /\ Respects(s)

Mentions(t) == Meets([m \in DOMAIN binding |-> Free], t)

RECURSIVE Reaches(_, _)
Reaches(ms, n) ==
  IF n = 0 THEN ms
  ELSE Reaches(ms \cup UNION {Mentions(binding[m]) : m \in ms}, n - 1)

(* No metavariable occurs in what it stands for, through any number of     *)
(* bindings, so pruning, the occurs check and zonking come to an end; and  *)
(* each is bound to a type of its own kind.                                *)
BindingsSound ==
  \A m \in DOMAIN binding :
    binding[m] # Free =>
      /\ KindOf(binding[m]) = metaKinds[m]
      /\ m \notin Reaches(Mentions(binding[m]), Len(binding))

RECURSIVE Resolved(_)
Resolved(t) ==
  LET end == End(binding, t)
  IN [end EXCEPT !.parts = [i \in DOMAIN @ |-> Resolved(@[i])]]
IsClosed(t) == Mentions(t) = {}

(* What zonking has answered is closed and is the type with every binding  *)
(* applied, and so is whatever the memo holds, whenever it was put there.  *)
ZonkExact ==
  /\ \A t \in DOMAIN memo : memo[t] = Resolved(t) /\ IsClosed(memo[t])
  /\ Len(closed) = 2 => closed[2] = Resolved(closed[1]) /\ IsClosed(closed[2])
(* The bindings are well founded and most general, and zonked types are    *)
(* what they say (hell-types lib.rs:440-600).                              *)
UnifierSound == BindingsSound /\ MostGeneral /\ ZonkExact
=============================================================================
