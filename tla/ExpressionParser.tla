-------------------------- MODULE ExpressionParser --------------------------
(***************************************************************************)
(* hell_syntax::Parser: declarations and expressions, read from the laid   *)
(* out tokens with a stack of work instead of recursion.  Types are single *)
(* tokens here; declarations of data are left out.                         *)
(***************************************************************************)
EXTENDS Layout

CONSTANT
  Files   \* what may be parsed: physical tokens, with what was meant

VARIABLES
  source,          \* the file that is parsed
  tokens,        \* its tokens, laid out
  at,            \* the next one
  work,          \* what is to be done, the most urgent first
  output,        \* the last expression read
  declarations,  \* those read
  errors         \* how many declarations were refused

parserVars == <<source, tokens, at, work, output, declarations, errors>>

Tree(node, label, parts) == [node |-> node, label |-> label, parts |-> parts]
Name(label) == Tree("name", label, <<>>)
Applied(f, x) == Tree("apply", <<>>, <<f, x>>)
Unit == Tree("literal", <<"()">>, <<>>)
NoTree == Tree("none", <<>>, <<>>)

Kind(i) == tokens[i].kind
Here == Kind(at)
Label == tokens[at].label
Semicolons == {"v;", ";"}

(* Mutant of Fixity: `$` associates to the left.                           *)
FixityLeft(operator) ==
  IF operator = "$" THEN [precedence |-> 0, right |-> FALSE]
  ELSE IF operator = "<>" THEN [precedence |-> 6, right |-> TRUE]
  ELSE IF operator = "." THEN [precedence |-> 9, right |-> TRUE]
  ELSE [precedence |-> 4, right |-> FALSE]

Operators == {"$", "<$>", "<*>", "<**>", "<>", "."}

Fixity(operator) ==
  CASE operator = "$" -> [precedence |-> 0, right |-> TRUE]
    [] operator \in {"<$>", "<*>", "<**>"} -> [precedence |-> 4, right |-> FALSE]
    [] operator = "<>" -> [precedence |-> 6, right |-> TRUE]
    [] operator = "." -> [precedence |-> 9, right |-> TRUE]

StartsAtom(kind) ==
  kind \in {"lower", "upper", "qualified", "literal", "(", "[", "\\", "if", "case", "do"}

----------------------------------------------------------------------------
(* Patterns: where one that starts at i ends, or 0 if there is none.       *)

(* The variables between parentheses: one, or two to four distinct ones.   *)
TupleEnd(i) ==
  LET listed(n) == \A k \in 1..n : /\ Kind(i + 2 * k - 1) = "lower"
                                   /\ k < n => Kind(i + 2 * k) = ","
      n == CHOOSE n \in 0..5 : listed(n) /\ (n = 5 \/ ~listed(n + 1))
      label(k) == tokens[i + 2 * k - 1].label
  IN IF n \in 1..4 /\ Kind(i + 2 * n) = ")" /\ Cardinality({label(k) : k \in 1..n}) = n
     THEN i + 2 * n + 1
     ELSE IF n = 1 /\ Kind(i + 2) = "::" /\ Kind(i + 4) = ")" THEN i + 5
     ELSE 0

PatternEnd(i) ==
  LET end == CASE Kind(i) \in {"lower", "_"} -> i + 1
               [] Kind(i) = "(" -> TupleEnd(i)
               [] OTHER -> 0
  IN IF end > 0 /\ Kind(end) = "::" THEN end + 2 ELSE end

(* Patterns follow each other up to the arrow of a lambda.                 *)
ParametersEnd[i \in Nat] ==
  IF Kind(i) \in {"->", "eof"} THEN i
  ELSE IF PatternEnd(i) = 0 THEN 0
  ELSE ParametersEnd[PatternEnd(i)]

CasePatternEnd(i) ==
  CASE Kind(i) = "_" -> i + 1
    [] Kind(i) = "upper" -> IF Kind(i + 1) = "lower" THEN i + 2 ELSE i + 1
    [] Kind(i) = "qualified" ->
         CHOOSE n \in (i + 1)..Len(tokens) :
           Kind(n) # "lower" /\ \A j \in (i + 1)..(n - 1) : Kind(j) = "lower"
    [] OTHER -> 0

Names(first, end) ==
  FlattenSeq([i \in 1..(end - first) |-> tokens[first + i - 1].label])

----------------------------------------------------------------------------
(* The work.                                                               *)

Expression(minimum) == [step |-> "expression", minimum |-> minimum]
Prefix == [step |-> "prefix"]
After(minimum) == [step |-> "after", minimum |-> minimum]
Resume(left, minimum) == [step |-> "resume", left |-> left, minimum |-> minimum]
(* What is read next belongs to the tree, when it has been read.           *)
Gather(step, tree) == [step |-> step, tree |-> tree]
Parenthesis(nested) == [step |-> "parenthesis", nested |-> nested]
TupleRest(tree, nested) == [step |-> "tuple", tree |-> tree, nested |-> nested]
Operand(left, operator, minimum) ==
  [step |-> "operand", left |-> left, operator |-> operator, minimum |-> minimum]
Argument(function, minimum) ==
  [step |-> "argument", left |-> function, minimum |-> minimum]
Declare(name) == [step |-> "declare", name |-> name]
Recover == [step |-> "recover"]
TopLevel == [step |-> "declarations"]

Top == work[1]
Step(step) == work # <<>> /\ Top.step = step
Instead(items) == work' = items \o Tail(work)
Advance(n) == at' = at + n
Stay == UNCHANGED at
Quiet == UNCHANGED <<source, tokens, declarations, errors>>
Goes(items) == Instead(items) /\ UNCHANGED output /\ Quiet
Yields(tree) == output' = tree /\ Instead(<<>>) /\ Quiet

(* Any error leaves the expression and is met again at the declarations.   *)
Fails(read) ==
  /\ Advance(read)
  /\ work' = <<Recover, TopLevel>> /\ errors' = errors + 1
  /\ UNCHANGED <<source, tokens, output, declarations>>

With(tree, part) == [tree EXCEPT !.parts = Append(@, part)]

ParserInit ==
  /\ source \in Files
  /\ tokens = LaidOut(source.text)
  /\ at = 2
  /\ work = <<TopLevel>>
  /\ output = NoTree
  /\ declarations = <<>>
  /\ errors = 0

ReadExpression ==
  /\ Step("expression")
  /\ Stay /\ Goes(<<Prefix, After(Top.minimum)>>)

AfterPrefix ==
  /\ Step("after")
  /\ Stay /\ Goes(<<Resume(output, Top.minimum)>>)

----------------------------------------------------------------------------
(* Work::ParsePrefix                                                       *)

PrefixName ==
  /\ Step("prefix") /\ Advance(1)
  /\ Here \in {"lower", "upper", "literal", "op"}
       \/ (Here = "qualified" /\ Kind(at + 1) # "{")
  /\ Yields(IF Here = "literal" THEN Tree("literal", Label, <<>>) ELSE Name(Label))

PrefixLambda ==
  /\ Step("prefix") /\ Here = "\\"
  /\ LET end == ParametersEnd[at + 1]
     IN IF end > at + 1 /\ Kind(end) = "->"
        THEN /\ at' = end + 1
             /\ Goes(<<Expression(0),
                       Gather("lambda", Tree("lambda", Names(at + 1, end), <<>>))>>)
        ELSE Fails(1)

PrefixIf ==
  /\ Step("prefix") /\ Here = "if"
  /\ Advance(1) /\ Goes(<<Expression(0), Gather("if", Tree("if", <<>>, <<>>))>>)

PrefixCase ==
  /\ Step("prefix") /\ Here = "case"
  /\ Advance(1) /\ Goes(<<Expression(0), Gather("scrutinee", Tree("case", <<>>, <<>>))>>)

PrefixDo ==
  /\ Step("prefix") /\ Here = "do"
  /\ IF Kind(at + 1) \in {"v{", "{"}
     THEN Advance(2) /\ Goes(<<Gather("block", Tree("do", <<>>, <<>>))>>)
     ELSE Fails(1)

PrefixRecord ==
  /\ Step("prefix") /\ Here = "qualified" /\ Kind(at + 1) = "{"
  /\ Advance(2) /\ Goes(<<Gather("record", Tree("record", Label, <<>>))>>)

PrefixList ==
  /\ Step("prefix") /\ Here = "["
  /\ IF Kind(at + 1) = "]"
     THEN Advance(2) /\ Yields(Tree("list", <<>>, <<>>))
     ELSE Advance(1) /\ Goes(<<Expression(0), Gather("list", Tree("list", <<>>, <<>>))>>)

(* All the parentheses that open here are taken together.                  *)
PrefixParenthesis ==
  /\ Step("prefix") /\ Here = "("
  /\ LET opened == CHOOSE n \in 1..Len(tokens) :
                     Kind(at + n) # "(" /\ \A i \in 0..(n - 1) : Kind(at + i) = "("
     IN IF Kind(at + opened) # ")"
        THEN Advance(opened) /\ Goes(<<Expression(0), Parenthesis(opened - 1)>>)
        ELSE /\ Advance(opened + 1)
             /\ IF opened = 1 THEN Yields(Unit)
                ELSE Goes(<<Resume(Unit, 0), Parenthesis(opened - 2)>>)

PrefixNone ==
  /\ Step("prefix") /\ ~StartsAtom(Here) /\ Here # "op"
  /\ Fails(1)

----------------------------------------------------------------------------
(* Work::ResumeExpression and what follows an operand.                     *)

ApplyType ==
  /\ Step("resume") /\ Here = "@"
  /\ Advance(2)
  /\ Goes(<<Resume(Tree("at", tokens[at + 1].label, <<Top.left>>), Top.minimum)>>)

ReadArgument ==
  /\ Step("resume") /\ StartsAtom(Here)
  /\ Stay /\ Goes(<<Prefix, Argument(Top.left, Top.minimum)>>)

(* Mutant of OperandMinimum: operands of equal precedence are taken in.    *)
OperandMinimumEqual(fixity) == fixity.precedence

OperandMinimum(fixity) ==
  IF fixity.right THEN fixity.precedence ELSE fixity.precedence + 1

ReadOperator ==
  /\ Step("resume") /\ Here = "op" /\ Label[1] \in Operators
  /\ LET fixity == Fixity(Label[1])
     IN /\ fixity.precedence >= Top.minimum
        /\ Advance(1)
        /\ Goes(<<Expression(OperandMinimum(fixity)),
                  Operand(Top.left, Name(Label), Top.minimum)>>)

UnknownOperator ==
  /\ Step("resume") /\ Here = "op" /\ Label[1] \notin Operators
  /\ Fails(0)

Annotate ==
  /\ Step("resume") /\ Here = "::" /\ Top.minimum = 0
  /\ Advance(2) /\ Yields(Tree("annotation", tokens[at + 1].label, <<Top.left>>))

EndExpression ==
  /\ Step("resume")
  /\ ~StartsAtom(Here) /\ Here # "@"
  /\ Here = "op" => /\ Label[1] \in Operators
                    /\ Fixity(Label[1]).precedence < Top.minimum
  /\ Here = "::" => Top.minimum > 0
  /\ Stay /\ Yields(Top.left)

FinishArgument ==
  /\ Step("argument")
  /\ Stay /\ Goes(<<Resume(Applied(Top.left, output), Top.minimum)>>)

FinishOperand ==
  /\ Step("operand")
  /\ Stay
  /\ Goes(<<Resume(Applied(Applied(Top.operator, Top.left), output), Top.minimum)>>)

----------------------------------------------------------------------------
(* Lambda, if, case and do.                                                *)

FinishLambda == Step("lambda") /\ Stay /\ Yields(With(Top.tree, output))

AfterIfPart ==
  /\ Step("if")
  /\ LET tree == With(Top.tree, output)
         wanted == <<"then", "else">>
     IN IF Len(tree.parts) = 3 THEN Stay /\ Yields(tree)
        ELSE IF Here = wanted[Len(tree.parts)]
        THEN Advance(1) /\ Goes(<<Expression(0), Gather("if", tree)>>)
        ELSE Fails(0)

AfterScrutinee ==
  /\ Step("scrutinee")
  /\ IF Here = "of" /\ Kind(at + 1) \in {"v{", "{"}
     THEN Advance(2) /\ Goes(<<Gather("block", With(Top.tree, output))>>)
     ELSE Fails(IF Here = "of" THEN 1 ELSE 0)

(* Mutant of Undeferred: the close stays where it is.                      *)
UndeferredKept(i) == tokens

(* discard_deferred_layout_close: the next virtual close after i goes.     *)
Undeferred(i) ==
  LET later == {j \in (i + 1)..Len(tokens) : Kind(j) = "v}"}
      next == CHOOSE j \in later : \A k \in later : j <= k
  IN IF later = {} THEN tokens ELSE RemoveAt(tokens, next)

BlockEnd == {"v}", "}", ")"}

SkipSemicolons ==
  /\ Step("block") \/ Step("declarations")
  /\ Here \in Semicolons
  /\ Advance(1) /\ UNCHANGED work /\ UNCHANGED output /\ Quiet

(* A block ends in a brace, or before a parenthesis of an outer one.       *)
BlockComplete(tree) ==
  IF tree.node = "case" THEN Len(tree.parts) > 1
  ELSE tree.parts # <<>> /\ Last(tree.parts).node = "then"

EndBlock ==
  /\ Step("block") /\ Here \in BlockEnd
  /\ tokens' = IF Here = ")" THEN Undeferred(at) ELSE tokens
  /\ at' = IF Here = ")" THEN at ELSE at + 1
  /\ IF BlockComplete(Top.tree)
     THEN /\ output' = Top.tree /\ Instead(<<>>)
          /\ UNCHANGED <<source, declarations, errors>>
     ELSE /\ work' = <<Recover, TopLevel>> /\ errors' = errors + 1
          /\ UNCHANGED <<source, output, declarations>>

ReadAlternative ==
  /\ Step("block") /\ Top.tree.node = "case" /\ Here \notin BlockEnd \cup Semicolons
  /\ LET end == CasePatternEnd(at)
     IN IF Here # "eof" /\ end > 0 /\ Kind(end) = "->"
        THEN /\ at' = end + 1
             /\ Goes(<<Expression(0),
                       [Gather("item", Top.tree)
                          EXCEPT !.tree = With(@, Tree("alternative", Names(at, end), <<>>))]>>)
        ELSE Fails(IF Here = "eof" THEN 0 ELSE 1)

(* A statement is a let, a pattern and an arrow, or else an expression.    *)
ReadStatement ==
  /\ Step("block") /\ Top.tree.node = "do" /\ Here \notin BlockEnd \cup Semicolons
  /\ LET start == IF Here = "let" THEN at + 1 ELSE at
         end == PatternEnd(start)
         item(node, label) == Gather("item", With(Top.tree, Tree(node, label, <<>>)))
     IN CASE Here = "eof" -> Fails(0)
          [] Here = "let" ->
               IF end > 0 /\ Kind(end) = "="
               THEN at' = end + 1 /\ Goes(<<Expression(0), item("let", Names(start, end))>>)
               ELSE Fails(1)
          [] OTHER ->
               IF end > 0 /\ Kind(end) = "<-"
               THEN at' = end + 1 /\ Goes(<<Expression(0), item("bind", Names(start, end))>>)
               ELSE Stay /\ Goes(<<Expression(0), item("then", <<>>)>>)

FinishItem ==
  /\ Step("item")
  /\ LET n == Len(Top.tree.parts)
     IN Stay /\ Goes(<<Gather("block", [Top.tree EXCEPT !.parts[n] = With(@, output)])>>)

----------------------------------------------------------------------------
(* Lists, records, parentheses and tuples.                                 *)

AfterElement ==
  /\ Step("list")
  /\ LET tree == With(Top.tree, output)
     IN CASE Here = "," -> Advance(1) /\ Goes(<<Expression(0), Gather("list", tree)>>)
          [] Here = "]" -> Advance(1) /\ Yields(tree)
          [] OTHER -> Fails(1)

ReadField ==
  /\ Step("record")
  /\ CASE Here = "}" -> Advance(1) /\ Yields(Top.tree)
       [] Here = "lower" /\ Kind(at + 1) = "=" ->
            /\ Advance(2)
            /\ Goes(<<Expression(0),
                      Gather("field", With(Top.tree, Tree("field", Label, <<>>)))>>)
       [] Here = "lower" /\ Kind(at + 1) # "=" ->
            /\ Advance(1)
            /\ output' = Name(Label) /\ Quiet
            /\ Instead(<<Gather("field", With(Top.tree, Tree("pun", Label, <<>>)))>>)
       [] OTHER -> Fails(1)

FinishField ==
  /\ Step("field")
  /\ LET n == Len(Top.tree.parts)
         tree == [Top.tree EXCEPT !.parts[n] = With(@, output)]
     IN CASE Here = "," -> Advance(1) /\ Goes(<<Gather("record", tree)>>)
          [] Here = "}" -> Advance(1) /\ Yields(tree)
          [] OTHER -> Fails(1)

(* An expression in parentheses is an operand of the enclosing pair.       *)
Enclosed(tree, nested) ==
  IF nested = 0 THEN Yields(tree)
  ELSE Goes(<<Resume(tree, 0), Parenthesis(nested - 1)>>)

FinishParenthesis ==
  /\ Step("parenthesis")
  /\ CASE Here = "," ->
            /\ Advance(1)
            /\ Goes(<<Expression(0), TupleRest(Tree("tuple", <<>>, <<output>>), Top.nested)>>)
       [] Here = ")" -> Advance(1) /\ Enclosed(output, Top.nested)
       [] OTHER -> Fails(1)

FinishTuple ==
  /\ Step("tuple")
  /\ LET tree == With(Top.tree, output)
     IN CASE Here = "," -> Advance(1) /\ Goes(<<Expression(0), TupleRest(tree, Top.nested)>>)
          [] Here = ")" /\ Len(tree.parts) \in 2..4 -> Advance(1) /\ Enclosed(tree, Top.nested)
          [] OTHER -> Fails(1)

----------------------------------------------------------------------------
(* Parser::parse                                                           *)

ReadDeclaration ==
  /\ Step("declarations") /\ Here \notin Semicolons \cup {"v}", "eof"}
  /\ LET equals == IF Kind(at + 1) = "::" THEN at + 3 ELSE at + 1
     IN IF Here # "lower" THEN Fails(1)
        ELSE IF Kind(equals) # "=" THEN Fails(equals - at)
        ELSE at' = equals + 1 /\ Goes(<<Expression(0), Declare(Label), TopLevel>>)

FinishDeclaration ==
  /\ Step("declare")
  /\ declarations' = Append(declarations, Tree("value", Top.name, <<output>>))
  /\ Instead(<<>>) /\ Stay
  /\ UNCHANGED <<source, tokens, output, errors>>

(* The tokens up to the next semicolon or close are dropped.               *)
SkipToBoundary ==
  /\ Step("recover")
  /\ at' = CHOOSE i \in at..Len(tokens) :
             /\ Kind(i) \in Semicolons \cup {"v}", "eof"}
             /\ \A j \in at..(i - 1) : Kind(j) \notin Semicolons \cup {"v}", "eof"}
  /\ Goes(<<>>)

EndFile ==
  /\ Step("declarations") /\ Here \in {"v}", "eof"}
  /\ Advance(1) /\ Goes(<<>>)

ParserNext ==
  \/ ReadExpression \/ AfterPrefix
  \/ PrefixName \/ PrefixLambda \/ PrefixIf \/ PrefixCase \/ PrefixDo
  \/ PrefixRecord \/ PrefixList \/ PrefixParenthesis \/ PrefixNone
  \/ ApplyType \/ ReadArgument \/ ReadOperator \/ UnknownOperator \/ Annotate \/ EndExpression
  \/ FinishArgument \/ FinishOperand
  \/ FinishLambda \/ AfterIfPart \/ AfterScrutinee
  \/ SkipSemicolons \/ EndBlock \/ ReadAlternative \/ ReadStatement \/ FinishItem
  \/ AfterElement \/ ReadField \/ FinishField \/ FinishParenthesis \/ FinishTuple
  \/ ReadDeclaration \/ FinishDeclaration \/ SkipToBoundary \/ EndFile

----------------------------------------------------------------------------
(* Where the blocks of a text end, for its lines and for its brackets.     *)

(* The first tokens of the blocks that are laid out.                       *)
BlockStarts(text) ==
  {i \in 2..Len(text) : text[i - 1].kind \in {"do", "of"} /\ text[i].kind # "{"}

(* The first line to the left of the block that starts at i.               *)
LineEnd(text, i) ==
  CHOOSE j \in (i + 1)..Len(text) :
    /\ j = Len(text) \/ (text[j].fresh /\ text[j].column < text[i].column)
    /\ \A k \in (i + 1)..(j - 1) : text[k].fresh => text[k].column >= text[i].column

Depths(text) ==
  LET depth[i \in 0..Len(text)] ==
        IF i = 0 THEN 0
        ELSE CASE text[i].kind \in {"(", "[", "{"} -> depth[i - 1] + 1
               [] text[i].kind \in {")", "]", "}"} -> depth[i - 1] - 1
               [] OTHER -> depth[i - 1]
  IN depth

(* The brackets that close around a block before a line ends it.           *)
CutBy(text, i) ==
  LET depth == Depths(text)
  IN {k \in i..(LineEnd(text, i) - 1) :
        /\ text[k].kind \in {")", "]", "}"}
        /\ \A j \in i..(k - 1) : depth[k] < depth[j]
        /\ depth[k] < depth[i - 1]}

(* The parser ends such a block at the bracket, the layout pass where its  *)
(* lines end.  They part at a brace, which ends the block itself or stands *)
(* in another one, and at a line that follows the bracket in the block's   *)
(* column, or ends a block begun since.                                    *)
EndsApart(text) ==
  \E i \in BlockStarts(text) : \E k \in CutBy(text, i) :
    LET within(m, j) == m < j /\ j < LineEnd(text, m) /\ k \notin CutBy(text, m)
        since == BlockStarts(text) \cap ((k + 1)..(LineEnd(text, i) - 1))
    IN IF text[k].kind = "}"
       THEN \/ \A j \in CutBy(text, i) : k <= j
            \/ \E m \in BlockStarts(text) : m < i /\ within(m, k)
       ELSE \/ \E j \in (k + 1)..(LineEnd(text, i) - 1) :
                 /\ text[j].fresh /\ text[j].column = text[i].column
                 /\ ~\E m \in since : m = j \/ within(m, j)
            \/ \E m \in since :
                 CutBy(text, m) = {} /\ LineEnd(text, m) < LineEnd(text, i)

(* What was written is what is read: each declaration is the tree that was *)
(* put into words and lines, operators associate and bind by their fixity, *)
(* a block ends where its lines or its parenthesis end, and a declaration  *)
(* whose error is met inside it and before any boundary is refused alone   *)
(* ("parser errors recovered at declaration boundaries", lib.rs:2359).  A  *)
(* file with a wrong declaration is refused in every case.  Nothing more   *)
(* is said of two kinds of files.  In the ones whose blocks end apart, see *)
(* above, the close that discard_deferred_layout_close drops is none of    *)
(* the block's own (lib.rs:1021-1031).  In the ones with a declaration     *)
(* that is broken off, or in error before a boundary inside it, recovery   *)
(* takes that boundary for the end of the declaration, or skips the one at *)
(* its end, and may leave out the declarations that follow, with their own *)
(* errors (lib.rs:1062-1074).                                              *)
ParsesAsWritten ==
  work = <<>> =>
    /\ source.errors > 0 => errors > 0
    /\ source.recovers /\ ~EndsApart(source.text)
         => declarations = source.declarations /\ errors = source.errors
=============================================================================
