----------------------------- MODULE BigInteger -----------------------------
(***************************************************************************)
(* hell_runtime::native_integer::BigInteger: the guest's Integer, a sign   *)
(* and limbs, the lowest first.  Equality is the derived one, so a number  *)
(* must have one representation only.  Two numbers are given; one          *)
(* operation answers, and the answer is compared with the integers.        *)
(***************************************************************************)
EXTENDS Integers, Sequences, SequencesExt

CONSTANTS
  LimbDigits,   \* decimal digits of a limb, 9 in the code
  Radix,        \* 10 in the code
  WordBits,     \* 64 in the code
  Numbers,      \* bound: the integers given
  Divisors      \* bound: the small divisors given

ASSUME IntegersAssumption ==
  /\ LimbDigits \in Nat \ {0} /\ Radix \in Nat \ {0, 1} /\ WordBits \in Nat \ {0}
  /\ Numbers \subseteq Int /\ Divisors \subseteq Nat \ {0}

VARIABLES
  left, right,  \* the numbers
  figure        \* the operation performed, or "none", and its answer

integerVars == <<left, right, figure>>

Base == Radix ^ LimbDigits
Word == 2 ^ WordBits

(* Leading zero limbs go, and zero has no sign.                            *)
Normalized(negative, limbs) ==
  LET top == {i \in DOMAIN limbs : limbs[i] # 0}
      kept == IF top = {} THEN <<>> ELSE SubSeq(limbs, 1, CHOOSE i \in top : \A j \in top : j <= i)
  IN [negative |-> negative /\ kept # <<>>, limbs |-> kept]

RECURSIVE Limbs(_)
Limbs(magnitude) ==
  IF magnitude = 0 THEN <<>> ELSE <<magnitude % Base>> \o Limbs(magnitude \div Base)

Magnitude(n) == IF n < 0 THEN -n ELSE n
FromInt(n) == Normalized(n < 0, Limbs(Magnitude(n)))
Zero == FromInt(0)

Limb(limbs, i) == IF i \in DOMAIN limbs THEN limbs[i] ELSE 0
Longest(l, r) == IF Len(l) < Len(r) THEN Len(r) ELSE Len(l)

(* The carry goes from limb to limb; a last one is a limb of its own.      *)
AddMagnitudes(l, r) ==
  LET step(sum, i) ==
        LET value == Limb(l, i) + Limb(r, i) + sum.carry
        IN [out |-> Append(sum.out, value % Base), carry |-> value \div Base]
      sum == FoldLeft(step, [out |-> <<>>, carry |-> 0], [i \in 1..Longest(l, r) |-> i])
  IN IF sum.carry = 0 THEN sum.out ELSE Append(sum.out, sum.carry)

(* Mutant of SubtractMagnitudes: a borrow, once made, is made for ever.     *)
SubtractBorrowing(larger, smaller) ==
  LET step(rest, i) ==
        LET value == larger[i] - Limb(smaller, i) - rest.borrow
        IN IF value < 0 THEN [out |-> Append(rest.out, value + Base), borrow |-> 1]
                        ELSE [rest EXCEPT !.out = Append(@, value)]
  IN FoldLeft(step, [out |-> <<>>, borrow |-> 0], [i \in 1..Len(larger) |-> i]).out

SubtractMagnitudes(larger, smaller) ==
  LET step(rest, i) ==
        LET value == larger[i] - Limb(smaller, i) - rest.borrow
        IN IF value < 0 THEN [out |-> Append(rest.out, value + Base), borrow |-> 1]
                        ELSE [out |-> Append(rest.out, value), borrow |-> 0]
  IN FoldLeft(step, [out |-> <<>>, borrow |-> 0], [i \in 1..Len(larger) |-> i]).out

(* Longer is greater; then the highest limb that differs decides.          *)
CompareMagnitudes(l, r) ==
  LET differ == {i \in DOMAIN l : l[i] # r[i]}
      top == CHOOSE i \in differ : \A j \in differ : j <= i
  IN IF Len(l) # Len(r) THEN (IF Len(l) < Len(r) THEN -1 ELSE 1)
     ELSE IF differ = {} THEN 0
     ELSE IF l[top] < r[top] THEN -1 ELSE 1

Add(x, y) ==
  IF x.negative = y.negative THEN Normalized(x.negative, AddMagnitudes(x.limbs, y.limbs))
  ELSE LET order == CompareMagnitudes(x.limbs, y.limbs)
       IN CASE order = 1  -> Normalized(x.negative, SubtractMagnitudes(x.limbs, y.limbs))
            [] order = -1 -> Normalized(y.negative, SubtractMagnitudes(y.limbs, x.limbs))
            [] order = 0  -> Zero

Subtract(x, y) ==
  Add(x, IF y.limbs = <<>> THEN y ELSE [y EXCEPT !.negative = ~@])

Compare(x, y) ==
  CASE x.negative /\ ~y.negative -> -1
    [] ~x.negative /\ y.negative -> 1
    [] ~x.negative /\ ~y.negative -> CompareMagnitudes(x.limbs, y.limbs)
    [] x.negative /\ y.negative -> CompareMagnitudes(y.limbs, x.limbs)

(* One row of the multiplication is added to the result; its carry runs on *)
(* through the limbs above it.                                             *)
RECURSIVE Carry(_, _, _)
Carry(result, i, carry) ==
  IF carry = 0 THEN result
  ELSE LET value == result[i] + carry
       IN Carry([result EXCEPT ![i] = value % Base], i + 1, value \div Base)

Row(result, i, limb, r) ==
  LET step(row, j) ==
        LET value == row.out[i + j - 1] + limb * r[j] + row.carry
        IN [out |-> [row.out EXCEPT ![i + j - 1] = value % Base], carry |-> value \div Base]
      row == FoldLeft(step, [out |-> result, carry |-> 0], [j \in 1..Len(r) |-> j])
  IN Carry(row.out, i + Len(r), row.carry)

Multiply(x, y) ==
  IF x.limbs = <<>> \/ y.limbs = <<>> THEN Zero
  ELSE LET zeros == [i \in 1..(Len(x.limbs) + Len(y.limbs)) |-> 0]
           step(result, i) == Row(result, i, x.limbs[i], y.limbs)
       IN Normalized(x.negative # y.negative,
                     FoldLeft(step, zeros, [i \in 1..Len(x.limbs) |-> i]))

(* Down from the highest limb; the remainder of a negative number is made  *)
(* positive at the expense of the quotient.                                *)
DivRemEuclidSmall(x, divisor) ==
  LET step(limb, part) ==
        LET current == part.rest * Base + limb
        IN [out |-> <<current \div divisor>> \o part.out, rest |-> current % divisor]
      part == FoldRight(step, x.limbs, [out |-> <<>>, rest |-> 0])
  IN IF ~x.negative \/ part.rest = 0
       THEN [quotient |-> Normalized(x.negative, part.out), remainder |-> part.rest]
       ELSE [quotient |-> Subtract(Normalized(TRUE, part.out), FromInt(1)),
             remainder |-> divisor - part.rest]

(* The machine word: unsigned wrapping arithmetic, read as signed.         *)
Signed(word) == IF word >= Word \div 2 THEN word - Word ELSE word
WrappingI64(x) ==
  LET value == FoldRight(LAMBDA limb, word : (word * Base + limb) % Word, x.limbs, 0)
  IN Signed(IF x.negative THEN (Word - value) % Word ELSE value)

(* Checked arithmetic answers <<>> instead of None.                        *)
ToU64(x) ==
  LET checked(limb, word) ==
        IF word = <<>> \/ word[1] * Base + limb >= Word THEN <<>>
        ELSE <<word[1] * Base + limb>>
  IN IF x.negative THEN <<>> ELSE FoldRight(checked, x.limbs, <<0>>)

(* Decimal digits: the highest limb without zeros in front, the others     *)
(* with.  Parsing multiplies and adds in place, digit by digit.            *)
RECURSIVE Digits(_)
Digits(n) == IF n < Radix THEN <<n>> ELSE Append(Digits(n \div Radix), n % Radix)
Padded(limb) ==
  LET digits == Digits(limb) IN [i \in 1..(LimbDigits - Len(digits)) |-> 0] \o digits

Display(x) ==
  [negative |-> x.negative,
   digits |-> IF x.limbs = <<>> THEN <<0>>
              ELSE FoldRight(LAMBDA limb, text : text \o Padded(limb), Front(x.limbs),
                             Digits(Last(x.limbs)))]

MultiplySmall(limbs, factor) ==
  LET step(product, limb) ==
        LET value == limb * factor + product.carry
        IN [out |-> Append(product.out, value % Base), carry |-> value \div Base]
      product == FoldLeft(step, [out |-> <<>>, carry |-> 0], limbs)
  IN IF product.carry = 0 THEN product.out ELSE Append(product.out, product.carry)

AddSmall(limbs, addend) ==
  IF limbs = <<>> THEN (IF addend = 0 THEN <<>> ELSE <<addend>>)
  ELSE AddMagnitudes(limbs, IF addend = 0 THEN <<>> ELSE <<addend>>)

Parse(text) ==
  LET limbs == FoldLeft(LAMBDA value, digit : AddSmall(MultiplySmall(value, Radix), digit),
                        <<>>, text.digits)
  IN [negative |-> text.negative /\ limbs # <<>>, limbs |-> limbs]

----------------------------------------------------------------------------
IntegersInit ==
  /\ \E n, m \in Numbers : left = FromInt(n) /\ right = FromInt(m)
  /\ figure = <<"none", Zero>>

Calculate(op, answer) ==
  /\ figure[1] = "none"
  /\ figure' = <<op, answer>>
  /\ UNCHANGED <<left, right>>

(* Operations on one number are performed while both are the same.         *)
IntegersNext ==
  \/ Calculate("add", Add(left, right))
  \/ Calculate("subtract", Subtract(left, right))
  \/ Calculate("multiply", Multiply(left, right))
  \/ Calculate("compare", Compare(left, right))
  \/ /\ left = right
     /\ \/ \E d \in Divisors : Calculate("divide", <<d, DivRemEuclidSmall(left, d)>>)
        \/ Calculate("wrap", WrappingI64(left))
        \/ Calculate("to word", ToU64(left))
        \/ Calculate("display", Display(left))
        \/ \E zeros \in {<<>>, <<0>>} :
             Calculate("parse", Parse([Display(left) EXCEPT !.digits = zeros \o @]))

----------------------------------------------------------------------------

Value(x) ==
  (IF x.negative THEN -1 ELSE 1) *
    FoldRight(LAMBDA limb, sum : sum * Base + limb, x.limbs, 0)

Canonical(x) ==
  /\ \A i \in DOMAIN x.limbs : x.limbs[i] \in 0..(Base - 1)
  /\ x.limbs # <<>> => Last(x.limbs) # 0
  /\ x.negative => x.limbs # <<>>

(* Every answer is the integer it should be, in its one representation     *)
(* (Eq is derived, so a zero with a sign or a leading zero limb would be   *)
(* unequal to itself); words wrap as in two's complement or are refused    *)
(* when they do not fit, and what is displayed parses to the same number.  *)
IntegersExact ==
  LET x == Value(left)
      y == Value(right)
      operation == figure[1]
      answer == figure[2]
      isExactly(number, n) == Canonical(number) /\ Value(number) = n
  IN /\ Canonical(left) /\ Canonical(right)
     /\ CASE operation = "add"      -> isExactly(answer, x + y)
          [] operation = "subtract" -> isExactly(answer, x - y)
          [] operation = "multiply" -> isExactly(answer, x * y)
          [] operation = "compare"  ->
               answer = (IF x < y THEN -1 ELSE IF x = y THEN 0 ELSE 1)
          [] operation = "divide"   ->
               LET d == answer[1]
               IN /\ isExactly(answer[2].quotient, x \div d)
                  /\ answer[2].remainder = x % d
          [] operation = "wrap"     ->
               /\ answer \in (-(Word \div 2))..(Word \div 2 - 1)
               /\ (answer - x) % Word = 0
          [] operation = "to word"  ->
               answer = (IF x \in 0..(Word - 1) THEN <<x>> ELSE <<>>)
          [] operation = "display"  ->
               /\ (Len(answer.digits) > 1 => Head(answer.digits) # 0)
               /\ answer.negative <=> x < 0
          [] operation = "parse"    -> answer = left
          [] OTHER -> TRUE
=============================================================================
