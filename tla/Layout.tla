------------------------------- MODULE Layout -------------------------------
(***************************************************************************)
(* hell_syntax::insert_layout: the tokens of a file, each with its column  *)
(* and whether it starts a line, become tokens with virtual braces and     *)
(* semicolons.  The blocks in which a token stands are kept innermost      *)
(* first; a block in real braces has column 0, which no token has.         *)
(***************************************************************************)
EXTENDS Naturals, SequencesExt

Token(kind, label, column, fresh) ==
  [kind |-> kind, label |-> label, column |-> column, fresh |-> fresh]

Virtual(kind) == Token(kind, <<>>, 0, FALSE)

Explicit == [column |-> 0, first |-> FALSE]
Implicit(column) == [column |-> column, first |-> TRUE]

(* How many of the innermost blocks begin to the right of a column.        *)
Leading(contexts, column) ==
  CHOOSE n \in 0..Len(contexts) :
    /\ n = Len(contexts) \/ contexts[n + 1].column <= column
    /\ \A i \in 1..n : contexts[i].column > column

Without(contexts, n) == SubSeq(contexts, n + 1, Len(contexts))

Closes(n) == [i \in 1..n |-> Virtual("v}")]

(* The token after do or of opens a block, unless it is a brace.           *)
OpenPending(l, t) ==
  IF l.pending /\ t.kind # "{"
  THEN [l EXCEPT !.pending = FALSE,
                 !.output = Append(@, Virtual("v{")),
                 !.contexts = <<Implicit(t.column)>> \o @]
  ELSE [l EXCEPT !.pending = FALSE]

(* Mutant of CloseLeft: a line ends the innermost block only.              *)
CloseLeftOnce(l, t) ==
  IF t.fresh /\ l.contexts # <<>> /\ t.column < Head(l.contexts).column
  THEN [l EXCEPT !.output = @ \o Closes(1), !.contexts = Tail(@)]
  ELSE l

(* A line to the left of a block ends it.                                  *)
CloseLeft(l, t) ==
  LET n == Leading(l.contexts, t.column)
  IN IF t.fresh
     THEN [l EXCEPT !.output = @ \o Closes(n), !.contexts = Without(@, n)]
     ELSE l

(* A line in the column of the innermost block begins its next item.       *)
Separate(l, t) ==
  IF l.contexts = <<>> \/ (t.fresh /\ Head(l.contexts).column # t.column) THEN l
  ELSE [l EXCEPT !.contexts[1].first = FALSE,
                 !.output = IF t.fresh /\ ~Head(l.contexts).first
                            THEN Append(@, Virtual("v;")) ELSE @]

(* A closing brace leaves the blocks that are open inside silently.        *)
Enter(l, t) ==
  [l EXCEPT
    !.output = Append(@, t),
    !.pending = t.kind \in {"do", "of"},
    !.contexts =
      CASE t.kind = "{" -> <<Explicit>> \o @
        [] t.kind = "}" -> Without(@, Leading(@, Explicit.column) + 1)
        [] OTHER -> @]

AtEnd(l, t) ==
  [l EXCEPT !.output = Append(@ \o Closes(Leading(l.contexts, Explicit.column)), t)]

LayToken(l, t) ==
  IF t.kind = "eof" THEN AtEnd(l, t)
  ELSE Enter(Separate(CloseLeft(OpenPending(l, t), t), t), t)

LaidOut(physical) ==
  LET laid[i \in 0..Len(physical)] ==
        IF i = 0
        THEN [output |-> <<Virtual("v{")>>, pending |-> FALSE,
              contexts |-> <<Implicit(Head(physical).column)>>]
        ELSE LayToken(laid[i - 1], physical[i])
  IN laid[Len(physical)].output
=============================================================================
