------------------------------ MODULE RpnStack ------------------------------
(* The pocket calculator of the programming course: a line of tokens in    *)
(* postfix order is worked off on a stack, which is cleared after the line *)
(* when something is left on it.                                           *)
EXTENDS Integers, Sequences

CONSTANTS
    Number,      \* bound: the numbers that are typed
    MaxTokens,   \* bound: the length of a line
    Plus, Minus, Times,
    NaN,
    Word,        \* a token that is neither a number nor an operator
    NotEmpty, Failed    \* the two complaints

Operator == {Plus, Minus, Times}
Token == Number \cup Operator \cup {Word}

ASSUME RpnAssumption ==
    /\ Number \subseteq Int /\ MaxTokens \in Nat
    /\ ({NaN, Word, NotEmpty, Failed} \cup Operator) \cap Int = {}

VARIABLES
    stack,   \* the top is the head
    line,    \* the tokens of this line
    answer   \* what the end of a line has printed, NaN for nothing

rpnVars == <<stack, line, answer>>

RpnInit == stack = <<>> /\ line = <<>> /\ answer = NaN

\* stack_pop, of two numbers one after the other
Top(s) == IF s = <<>> THEN NaN ELSE Head(s)
Below(s) == IF s = <<>> THEN <<>> ELSE Tail(s)

Applied(op, x, y) ==
    IF NaN \in {x, y} THEN NaN
    ELSE CASE op = Plus -> x + y
           [] op = Minus -> x - y
           [] op = Times -> x * y

\* Mutant: the first number that is popped is taken for the first operand.
ProcessSwapped(t) ==
    IF t = Word THEN stack
    ELSE IF t \in Number THEN <<t>> \o stack
    ELSE <<Applied(t, Top(stack), Top(Below(stack)))>> \o Below(Below(stack))

\* process: what the stack is afterwards.
Process(t) ==
    IF t = Word THEN stack
    ELSE IF t \in Number THEN <<t>> \o stack
    ELSE <<Applied(t, Top(Below(stack)), Top(stack))>> \o Below(Below(stack))

TypeToken(t) ==
    /\ Len(line) < MaxTokens
    /\ line' = Append(line, t)
    /\ stack' = Process(t)
    /\ answer' = NaN

\* The end of the loop in main.
EndLine ==
    /\ answer' = IF Below(stack) # <<>> THEN NotEmpty
                 ELSE IF Top(stack) = NaN THEN Failed ELSE Top(stack)
    /\ stack' = <<>>
    /\ line' = <<>>

RpnNext == EndLine \/ \E t \in Token : TypeToken(t)

RpnSpec == RpnInit /\ [][RpnNext]_rpnVars
-----------------------------------------------------------------------------
\* The value of a postfix expression by its structure: a number, or two
\* expressions and an operator; words are passed over.  NaN for a line that
\* is no expression.
ValueOf(typed) ==
    LET n == Len(typed)
        val[c \in (1 .. n + 1) \X (0 .. n)] ==    \* from c[1] to c[2]
          IF c[1] > c[2] THEN NaN
          ELSE IF typed[c[1]] = Word THEN val[<<c[1] + 1, c[2]>>]
          ELSE IF typed[c[2]] = Word THEN val[<<c[1], c[2] - 1>>]
          ELSE IF typed[c[2]] \in Number THEN IF c[1] = c[2] THEN typed[c[2]] ELSE NaN
          ELSE LET cuts == {m \in c[1] .. c[2] - 2 : NaN \notin {val[<<c[1], m>>], val[<<m + 1, c[2] - 1>>]}}
               IN IF cuts = {} THEN NaN
                  ELSE LET m == CHOOSE m \in cuts : TRUE
                       IN Applied(typed[c[2]], val[<<c[1], m>>], val[<<m + 1, c[2] - 1>>])
    IN val[<<1, n>>]

\* A line gets a number for its answer exactly when it is an expression,
\* the number is the expression's, and no line leaves anything to the next.
AnswersValue ==
    [][line' = <<>> => /\ (answer' \in Int <=> ValueOf(line) # NaN)
                       /\ answer' \in Int => answer' = ValueOf(line)
                       /\ stack' = <<>>]_rpnVars
=============================================================================
