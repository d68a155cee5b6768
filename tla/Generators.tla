----------------------------- MODULE Generators -----------------------------
(***************************************************************************)
(* The four CAPTCHA generators of src/core: the math, logic, image and     *)
(* text generators each return a challenge, what it shows and what answers *)
(* it.  Symbols, colours and shapes are small integers (1, 2, ... in the   *)
(* order a pattern shows them); a number of a math problem is a fraction   *)
(* <<n, d>>; the key of a puzzle is the 1-based index of its option.       *)
(* Bounds: the operands are Numbers, the wrong options Alternatives, the   *)
(* grid of an object puzzle has Cells cells, the charset is Charset.       *)
(***************************************************************************)
EXTENDS Integers, FiniteSetsExt, SequencesExt, Subsequences

CONSTANTS Numbers,       \* operands of a math problem
          Alternatives,  \* symbols a wrong option may show
          Cells,         \* cells of an object identification grid
          Charset        \* characters of a text challenge

VARIABLE challenge

Difficulties == {"easy", "medium", "hard"}
NoChallenge == [kind |-> "none"]

(***************************************************************************)
(* Math problems.                                                          *)
(***************************************************************************)
Complexity == [easy |-> 2, medium |-> 3, hard |-> 4]

\* the operators of a problem: exactly one * when medium, exactly one / when hard
Operations(d) ==
  LET n == Complexity[d] - 1
      Mixed(forced, rest) ==
        UNION {{[o EXCEPT ![k] = forced] : o \in [1..n -> rest]} : k \in 1..n}
  IN CASE d = "easy"   -> [1..n -> {"+", "-"}]
       [] d = "medium" -> Mixed("*", {"+", "-"})
       [] d = "hard"   -> Mixed("/", {"+", "-", "*"})

Calculate(l, op, r) ==
  CASE op = "+" -> <<l[1] * r[2] + r[1] * l[2], l[2] * r[2]>>
    [] op = "-" -> <<l[1] * r[2] - r[1] * l[2], l[2] * r[2]>>
    [] op = "*" -> <<l[1] * r[1], l[2] * r[2]>>
    [] op = "/" -> IF r[1] = 0 THEN l ELSE <<l[1] * r[2], l[2] * r[1]>>

Binds(op) == op \in {"*", "/"}

\* the splice that puts the result of operator k in place of its operands
Spliced(e, k) ==
  [nums |-> [i \in 1..(Len(e.nums) - 1) |->
               CASE i < k -> e.nums[i]
                 [] i = k -> Calculate(e.nums[k], e.ops[k], e.nums[k + 1])
                 [] i > k -> e.nums[i + 1]],
   ops  |-> [i \in 1..(Len(e.ops) - 1) |-> IF i < k THEN e.ops[i] ELSE e.ops[i + 1]]]

\* One turn of the first pass, at operator p.at of what is left.  After a splice the loop
\* steps back by one token: onto the next operator when the first is spliced, and else
\* onto a number, from where it steps over numbers only until it ends.
PassStep(p) ==
  IF p.over \/ p.at > Len(p.left.ops) THEN p
  ELSE IF Binds(p.left.ops[p.at])
  THEN [left |-> Spliced(p.left, p.at), at |-> p.at, over |-> p.at > 1]
  ELSE [p EXCEPT !.at = @ + 1]

\* Each turn leaves an operator behind, so there are no more turns than operators.
FirstPass(e) ==
  FoldLeft(LAMBDA p, op : PassStep(p), [left |-> e, at |-> 1, over |-> FALSE], e.ops).left

SecondPass(e) ==
  FoldLeft(LAMBDA v, k : Calculate(v, e.ops[k], e.nums[k + 1]), e.nums[1],
           [k \in 1..Len(e.ops) |-> k])

\* a number as the expression prints it: two decimals unless it is whole
Printed(x) == IF x[1] % x[2] = 0 THEN <<x[1] \div x[2], 1>>
              ELSE <<(200 * x[1] + x[2]) \div (2 * x[2]), 100>>

\* what generateProblem shows: the operands as drawn when easy, and what the
\* first pass leaves of them otherwise
Expression(d, nums, ops) ==
  LET drawn == [nums |-> nums, ops |-> ops]
      left  == IF d = "easy" THEN drawn ELSE FirstPass(drawn)
  IN [left EXCEPT !.nums = [i \in DOMAIN left.nums |-> Printed(left.nums[i])]]

\* the answer CaptchaService stores: the shown expression evaluated again
GetAnswerForExpression(e) == SecondPass(FirstPass(e))

Abs(n) == IF n < 0 THEN -n ELSE n

\* compareAnswers for math: less than a hundredth apart
MathAccepted(expected, actual) ==
  LET apart == Calculate(expected, "-", actual) IN 100 * Abs(apart[1]) < Abs(apart[2])

GenerateMath(d) ==
  \E drawn \in [1..Complexity[d] -> Numbers], ops \in Operations(d) :
    LET e == Expression(d, [i \in DOMAIN drawn |-> <<drawn[i], 1>>], ops)
    IN challenge' = [kind |-> "math", shown |-> e, answer |-> GetAnswerForExpression(e)]

(***************************************************************************)
(* Puzzles with four options.                                              *)
(***************************************************************************)
\* four options in any order, the right one among them and all different
Options(right, others) ==
  {o \in [1..4 -> {right} \cup others] : IsInjective(o) /\ right \in {o[i] : i \in 1..4}}

\* the image generator stops looking for new options after a hundred tries:
\* then a wrong option may repeat, and its numeric options the right one too; those
\* come from farther away, and none is less than zero
OptionsOrRepeats(right, others) ==
  {o \in [1..4 -> {right} \cup others] : right \in {o[i] : i \in 1..4}}

\* mistake: the key is read before the options are shuffled
KeyUnshuffled(options, right) == 1

Key(options, right) == CHOOSE i \in 1..4 : options[i] = right /\ \A j \in 1..(i - 1) : options[j] # right

Ask(kind, shown, options, right) ==
  challenge' = [kind |-> kind, shown |-> shown, options |-> options, key |-> Key(options, right)]

PatternLength == [easy |-> 4, medium |-> 5, hard |-> 6]
GridSize == [easy |-> 3, medium |-> 4, hard |-> 5]
ColorCount == [easy |-> 3, medium |-> 4, hard |-> 5]

Alternating == [sequence |-> <<1, 2, 1, 2>>, answer |-> 1]
Rotating    == [sequence |-> <<1, 2, 3, 4>>, answer |-> 1]
Progressing == [sequence |-> <<1, 2, 3, 4>>, answer |-> 5]

Sliced(s, n) == SubSeq(s, 1, Min({n, Len(s)}))

LogicPattern(d) ==
  \E p \in {Alternating, Rotating, Progressing} :
    \E o \in Options(p.answer, Alternatives) :
      Ask(IF p = Progressing THEN "progression" ELSE "pattern",
          Sliced(p.sequence, PatternLength[d]), o, p.answer)

\* the rules of the sequence puzzles, by name
Rule == [Doubling |-> [start |-> 2, next |-> [n \in 0..200 |-> n * 2]],
         Add3 |-> [start |-> 1, next |-> [n \in 0..200 |-> n + 3]],
         Squares |-> [start |-> 1, next |-> [n \in 0..200 |-> n * n]],
         FibonacciLike |-> [start |-> 0, next |-> [n \in 0..200 |-> n + n + 1]],
         Tripling |-> [start |-> 1, next |-> [n \in 0..300 |-> n * 3]]]

LogicSequence(d) ==
  \E name \in DOMAIN Rule :
    LET terms[i \in 1..7] == IF i = 1 THEN Rule[name].start ELSE Rule[name].next[terms[i - 1]]
        n == PatternLength[d]
        right == terms[n + 1]
    IN \E o \in Options(right, {v \in {right + i : i \in -5..4} : v > 0}) :
         Ask("sequence", [i \in 1..n |-> terms[i]], o, right)

\* the four spatial and five analogy questions come with their options in a
\* fixed order and the index of the right one
LogicFixed == \E k \in 1..4 : Ask("fixed", <<>>, <<1, 2, 3, 4>>, k)

Objects == {1, 2}
Blank == 0
Count(grid, object) == Cardinality({c \in Cells : grid[c] = object})

\* an empty grid is given one object before a target that occurs is picked
GridsShown(grid) ==
  IF \A c \in Cells : grid[c] = Blank
  THEN {[grid EXCEPT ![c] = o] : c \in Cells, o \in Objects}
  ELSE {grid}

ImageObjects ==
  \E drawn \in [Cells -> Objects \cup {Blank}] : \E grid \in GridsShown(drawn) :
    \E target \in {o \in Objects : Count(grid, o) > 0} :
      LET right == Count(grid, target) IN
      \E o \in OptionsOrRepeats(right, {Max({0, right + i}) : i \in -5..4}) :
        Ask("objects", [grid |-> grid, target |-> target], o, right)

ImagePattern(d) ==
  \E p \in {Alternating, Rotating} : \E o \in OptionsOrRepeats(p.answer, Alternatives \ {p.answer}) :
    /\ Cardinality({i \in 1..4 : o[i] = p.answer}) = 1
    /\ Ask("imagePattern", Sliced(p.sequence, GridSize[d]), o, p.answer)

\* the cells are drawn at random, and the piece taken out is the answer
ImageArrangement ==
  \E grid \in [Cells -> Objects], c \in Cells : \E o \in Options(grid[c], Alternatives \ {grid[c]}) :
    Ask("arrangement", [grid EXCEPT ![c] = Blank], o, grid[c])

ImageColors(d) ==
  LET n == ColorCount[d] IN
  \E o \in Options(1, Alternatives \ {1}) :
    Ask("colors", [i \in 1..(n + 1) |-> ((i - 1) % n) + 1], o, 1)

(***************************************************************************)
(* Text challenges.                                                        *)
(***************************************************************************)
TextLength == [easy |-> 4, medium |-> 6, hard |-> 8]

GenerateText(d) ==
  \E text \in [1..TextLength[d] -> Charset] : challenge' = [kind |-> "text", text |-> text]

-----------------------------------------------------------------------------
Init == challenge = NoChallenge

\* A generator keeps nothing between two calls, so one call is enough: every
\* challenge it can return is a state.
Next == /\ challenge = NoChallenge
        /\ \/ \E d \in Difficulties : \/ GenerateMath(d) \/ GenerateText(d)
                                      \/ LogicPattern(d) \/ LogicSequence(d)
                                      \/ ImagePattern(d) \/ ImageColors(d)
           \/ LogicFixed
           \/ ImageObjects
           \/ ImageArrangement

Spec == Init /\ [][Next]_challenge

-----------------------------------------------------------------------------
\* The value of an expression by precedence: a term starts after every + or - and runs to
\* the next one, is evaluated from left to right, and so are the terms.
Precedence(e) ==
  LET Starts == {1} \cup {k + 1 : k \in {k \in DOMAIN e.ops : ~Binds(e.ops[k])}}
      End(a) == Min({b \in a..Len(e.nums) : b = Len(e.nums) \/ ~Binds(e.ops[b])})
      Term(a) == SecondPass([nums |-> [i \in 1..(End(a) - a + 1) |-> e.nums[a + i - 1]],
                             ops |-> [i \in 1..(End(a) - a) |-> e.ops[a + i - 1]]])
  IN SecondPass([nums |-> [n \in 1..Cardinality(Starts) |-> Term(Nth(Starts, n))],
                 ops |-> [n \in 1..(Cardinality(Starts) - 1) |-> e.ops[Nth(Starts, n + 1) - 1]]])

SameValue(x, y) == x[1] * y[2] = y[1] * x[2]

\* The answer stored for a math challenge is the value of the expression the
\* user is shown, by the precedence of its operators, although the pass that
\* produced that expression stops at its first product or quotient past the
\* first operator.
StoredAnswerRight ==
  challenge.kind = "math" => SameValue(challenge.answer, Precedence(challenge.shown))

\* A user who gives the answer with two decimals is right, whether he rounds
\* or cuts the rest off: compareAnswers is never stricter than what is shown.
TwoDecimalsSuffice ==
  challenge.kind = "math" =>
    LET n == challenge.answer[1]
        d == challenge.answer[2]
    IN /\ MathAccepted(challenge.answer, <<(100 * n) \div d, 100>>)
       /\ MathAccepted(challenge.answer, <<(200 * n + d) \div (2 * d), 100>>)

\* the distance at which what is shown repeats itself, when it does
Periods(s) == {p \in 1..(Len(s) - 1) : \A i \in (p + 1)..Len(s) : s[i] = s[i - p]}
Continues(s, next) == Periods(s) # {} => next = s[Len(s) + 1 - Min(Periods(s))]

Answer == challenge.options[challenge.key]

\* The option under the key is what the picture or the pattern calls for: the
\* number of target objects in the grid that is shown, also when it was empty
\* at first, and what continues a pattern that is shown in full.
KeyAnswersShown ==
  CASE challenge.kind = "objects" ->
         Answer = Count(challenge.shown.grid, challenge.shown.target)
    [] challenge.kind = "pattern" -> Continues(challenge.shown, Answer)
    [] challenge.kind = "progression" -> Answer = Last(challenge.shown) + 1
    [] challenge.kind = "imagePattern" /\ Len(challenge.shown) = 4 -> Continues(challenge.shown, Answer)
    [] OTHER -> TRUE

\* image-captcha-generator.ts:274 and :343 ask what comes next in a pattern
\* and in a repeating sequence of colours: the key should continue them.
PuzzleKeyRight ==
  challenge.kind \in {"imagePattern", "colors"} => Continues(challenge.shown, Answer)
=============================================================================
