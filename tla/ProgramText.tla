---------------------------- MODULE ProgramText ----------------------------
(***************************************************************************)
(* How the trees of declarations are written down: the grammar that the    *)
(* front end reads, the other way around.  A tree is put in parentheses    *)
(* only where the grammar asks for it, blocks are laid out in one of seven *)
(* styles, and a fold gives every token its column.                        *)
(***************************************************************************)
EXTENDS ExpressionParser

Kinds ==
  [word \in {"C", "T"} |-> "upper"] @@ [word \in {"Q.c"} |-> "qualified"]
    @@ [word \in {"1"} |-> "literal"] @@ [word \in {"_"} |-> "_"]
    @@ [word \in Operators |-> "op"]
    @@ [word \in {"a", "b", "f", "g", "x", "y", "main"} |-> "lower"]

Sign(kind) == <<Token(kind, <<>>, 0, FALSE)>>
Named(name) == <<Token(Kinds[name], <<name>>, 0, FALSE)>>
NamedAll(names) == FlattenSeq([i \in DOMAIN names |-> Named(names[i])])

Aligned == Sign("aligned")   \* the next token begins the items of a block
Broken == Sign("broken")     \* they begin on a line of their own
NewItem == Sign("item")         \* the next item begins on a new line
Line == Sign("line")         \* the text goes on, indented, on a new line
BlockEnds == Sign("end")           \* the block is over
Beside == Sign("beside")     \* the text goes on below the block just over

(* Texts one after the other, with what goes between them.                 *)
Separated(texts, between) ==
  FlattenSeq([i \in DOMAIN texts |->
                IF i = 1 THEN texts[i] ELSE between \o texts[i]])

IsOperation(tree) ==
  /\ tree.node = "apply" /\ tree.parts[1].node = "apply"
  /\ tree.parts[1].parts[1].node = "name"
  /\ Head(tree.parts[1].parts[1].label) \in Operators

(* What ends only where something around it ends.                          *)
OpenEnded == {"lambda", "if", "case", "do"}

(* How tightly the operators bind, and those that associate to the right.  *)
Binds == [o \in {"$"} |-> 1] @@ [o \in {"<$>", "<*>", "<**>"} |-> 5]
           @@ [o \in {"<>"} |-> 7] @@ [o \in {"."} |-> 10]
ToTheRight == {"$", "<>", "."}

Full == 0
FunctionPosition == 11
ArgumentPosition == 12

PatternText(names) ==
  IF Len(names) = 1 THEN Named(names[1])
  ELSE IF names[2] = "T" THEN Named(names[1]) \o Sign("::") \o Named("T")
  ELSE LET each == [i \in DOMAIN names |-> Named(names[i])]
       IN Sign("(") \o Separated(each, Sign(",")) \o Sign(")")

(* A tree at a level of the grammar; nothing follows it on its line when   *)
(* it is last.                                                             *)
RECURSIVE Written(_, _, _, _)
Written(tree, level, last, style) ==
  LET parts == tree.parts
      parenthesized == Sign("(") \o Written(tree, Full, TRUE, style) \o Sign(")")
      Inside == CASE style = "inline" -> Sign("(") \o parenthesized \o Sign(")")
                  [] style = "beside" -> parenthesized \o Beside
                  [] OTHER -> parenthesized
      below == IF style = "outside" THEN "aligned" ELSE style
      Whole(i, isLast) == Written(parts[i], Full, isLast, style)
      Items(item(_, _), from, used) ==
        LET n == Len(parts) - from + 1
            text(i) == item(parts[from + i - 1], used \notin {"inline", "outside"} \/ i = n)
            texts == [i \in 1..n |-> text(i)]
            sameLine == Separated(texts, Sign(";"))
        IN CASE used \in {"braced", "outside"} -> Sign("{") \o sameLine \o Sign("}")
             [] used = "inline" -> Aligned \o sameLine \o BlockEnds
             [] used \in {"aligned", "beside", "fields"} -> Aligned \o Separated(texts, NewItem) \o BlockEnds
             [] used = "broken" -> Broken \o Separated(texts, NewItem) \o BlockEnds
      Statement(item, isLast) ==
        LET value == Written(item.parts[1], Full, isLast, below)
        IN CASE item.node = "then" -> value
             [] item.node = "bind" -> PatternText(item.label) \o Sign("<-") \o value
             [] item.node = "let" ->
                  Sign("let") \o PatternText(item.label) \o Sign("=") \o value
      Alternative(item, isLast) ==
        NamedAll(item.label) \o Sign("->")
          \o Written(item.parts[1], Full, isLast, below)
      Listed == Separated([i \in DOMAIN parts |-> Whole(i, FALSE)], Sign(","))
      Field(field) ==
        IF field.node = "pun" THEN NamedAll(field.label)
        ELSE NamedAll(field.label) \o Sign("=")
               \o Written(field.parts[1], Full, FALSE,
                          IF style = "fields" THEN style ELSE "braced")
  IN IF tree.node \in OpenEnded /\ ~last THEN Inside
     ELSE CASE tree.node = "name" -> NamedAll(tree.label)
       [] tree.node = "literal" ->
            IF tree = Unit THEN Sign("(") \o Sign(")") ELSE NamedAll(tree.label)
       [] tree.node = "list" -> Sign("[") \o Listed \o Sign("]")
       [] tree.node = "tuple" -> Sign("(") \o Listed \o Sign(")")
       [] tree.node = "record" ->
            NamedAll(tree.label) \o Sign("{")
              \o Separated([i \in DOMAIN parts |-> Field(parts[i])], Sign(",")) \o Sign("}")
       [] tree.node = "annotation" ->
            IF level > Full THEN Inside
            ELSE Written(parts[1], Binds["$"] + 1, FALSE, style)
                   \o Sign("::") \o NamedAll(tree.label)
       [] tree.node = "at" ->
            IF level > FunctionPosition THEN Inside
            ELSE Written(parts[1], FunctionPosition, FALSE, style)
                   \o Sign("@") \o NamedAll(tree.label)
       [] tree.node = "lambda" ->
            Sign("\\") \o NamedAll(tree.label) \o Sign("->") \o Whole(1, TRUE)
       [] tree.node = "if" ->
            Sign("if") \o Whole(1, TRUE) \o Line \o Sign("then") \o Whole(2, TRUE)
              \o Line \o Sign("else") \o Whole(3, TRUE)
       [] tree.node = "case" ->
            Sign("case") \o Whole(1, FALSE) \o Sign("of") \o Items(Alternative, 2, style)
       [] tree.node = "do" -> Sign("do") \o Items(Statement, 1, style)
       [] tree.node = "apply" /\ ~IsOperation(tree) ->
            IF level > FunctionPosition THEN Inside
            ELSE Written(parts[1], FunctionPosition, FALSE, style)
                   \o Written(parts[2], ArgumentPosition, last, style)
       [] IsOperation(tree) ->
            LET operator == Head(parts[1].parts[1].label)
                own == Binds[operator]
                right == operator \in ToTheRight
            IN IF level > own THEN Inside
               ELSE Written(parts[1].parts[2], IF right THEN own + 1 ELSE own, FALSE, style)
                      \o Named(operator)
                      \o Written(parts[2], IF right THEN own ELSE own + 1, last, style)

(* Columns, from the marks between the tokens.                             *)
Place(s, t) ==
  LET fresh(column) == [s EXCEPT !.column = column, !.fresh = TRUE]
  IN CASE t.kind = "aligned" -> [s EXCEPT !.blocks = <<s.column>> \o @]
       [] t.kind = "broken" ->
            [fresh(Head(s.blocks) + 2) EXCEPT !.blocks = <<Head(@) + 2>> \o @]
       [] t.kind = "item" -> fresh(Head(s.blocks))
       [] t.kind = "line" -> fresh(Head(s.blocks) + 1)
       [] t.kind = "end" -> [s EXCEPT !.blocks = Tail(@), !.ended = Head(s.blocks)]
       [] t.kind = "beside" -> fresh(s.ended)
       [] OTHER ->
            [s EXCEPT !.text = Append(@, [t EXCEPT !.column = s.column, !.fresh = s.fresh]),
                      !.column = @ + 1, !.fresh = FALSE]

Placed(marked) ==
  LET placed[i \in 0..Len(marked)] ==
        IF i = 0 THEN [text |-> <<>>, column |-> 1, fresh |-> TRUE,
                       blocks |-> <<1>>, ended |-> 2]
                 ELSE Place(placed[i - 1], marked[i])
  IN placed[Len(marked)].text

Declared(name, tree) == Tree("value", <<name>>, <<tree>>)

(* A file of declarations, each on a new line.                             *)
FileText(texts) == Placed(Separated(texts, NewItem) \o NewItem \o Sign("eof"))

Program(tree, style) ==
  LET written(name, t) == Named(name) \o Sign("=") \o Written(t, Full, TRUE, style)
  IN [text |-> FileText(<<written("main", tree), written("x", Name(<<"a">>))>>),
      declarations |-> <<Declared("main", tree), Declared("x", Name(<<"a">>))>>,
      errors |-> 0, recovers |-> TRUE]

(* A declaration that is refused, between two that are read and after them.*)
WithRefused(kinds, recovers) ==
  LET good(name) == Named(name) \o Sign("=") \o Named("a")
      words(kind) ==
        IF kind \in {"lower", "upper", "op"}
        THEN <<Token(kind, <<kind>>, 0, FALSE)>> ELSE Sign(kind)
      wrong == FlattenSeq([i \in DOMAIN kinds |-> words(kinds[i])])
  IN [text |-> FileText(<<good("a"), wrong, good("b"), wrong>>),
      declarations |-> <<Declared("a", Name(<<"a">>)), Declared("b", Name(<<"a">>))>>,
      errors |-> 2, recovers |-> recovers]

----------------------------------------------------------------------------
(* Trees: every construct with a tree in each of its places.               *)

A == Name(<<"a">>)
Operation(o, l, r) == Applied(Applied(Name(<<o>>), l), r)
Then(t) == Tree("then", <<>>, <<t>>)
BindTo(names, t) == Tree("bind", names, <<t>>)
Let(names, t) == Tree("let", names, <<t>>)
Case(t, alternatives) == Tree("case", <<>>, <<t>> \o alternatives)
To(pattern, t) == Tree("alternative", pattern, <<t>>)
FieldOf(name, t) == Tree("field", <<name>>, <<t>>)
Pun == Tree("pun", <<"g">>, <<Name(<<"g">>)>>)

Leaves == {A, Unit, Tree("literal", <<"1">>, <<>>), Name(<<"C">>), Name(<<"Q.c">>),
           Tree("list", <<>>, <<>>), Tree("record", <<"Q.c">>, <<>>)}

Around(t) ==
  {Applied(Name(<<"f">>), t), Applied(t, A)}
    \cup {Operation(o, t, A) : o \in {"$", "<$>", "<>", "."}}
    \cup {Operation(o, A, t) : o \in {"$", "<$>", "<>", "."}}
    \cup {Tree("at", <<"T">>, <<t>>), Tree("annotation", <<"T">>, <<t>>),
          Tree("lambda", <<"x", "y">>, <<t>>),
          Tree("if", <<>>, <<t, A, A>>), Tree("if", <<>>, <<A, t, A>>),
          Tree("if", <<>>, <<A, A, t>>),
          Case(t, <<To(<<"_">>, A)>>),
          Case(A, <<To(<<"C">>, t), To(<<"Q.c", "x", "y">>, A)>>),
          Case(A, <<To(<<"C", "x">>, A), To(<<"_">>, t)>>),
          Tree("do", <<>>, <<Then(t), Then(A)>>), Tree("do", <<>>, <<Then(A), Then(t)>>),
          Tree("do", <<>>, <<BindTo(<<"x", "y">>, t), Then(A)>>),
          Tree("do", <<>>, <<Let(<<"x", "T">>, t), Then(A)>>),
          Tree("list", <<>>, <<t, A>>), Tree("tuple", <<>>, <<A, t>>),
          Tree("record", <<"Q.c">>, <<FieldOf("f", t), Pun>>)}

(* In the last three, blocks stand inside braces and before a line in      *)
(* their own column.                                                       *)
Styles == {"aligned", "broken", "inline", "braced", "outside", "beside", "fields"}
=============================================================================
