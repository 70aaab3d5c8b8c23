---------------------------- MODULE IntegerSemantics ----------------------------
(***************************************************************************)
(* The constraints that RefinementInstructionConstraintGenerator writes    *)
(* for integer instructions, next to what the instructions do.             *)
(*                                                                         *)
(* A function computes on registers of a width, in two's complement, held  *)
(* as unsigned numbers; registers of one bit are booleans, 0 and 1 here.   *)
(* The query has a variable for each register, a boolean or an unbounded   *)
(* integer, and for each instruction a formula over the variable of its    *)
(* result, __value in the code.  The solver considers every assignment of  *)
(* the variables that satisfies the formulas: a model of the query.        *)
(*                                                                         *)
(* A formula is taken as the tree the code means it to be; how the solver  *)
(* parses the text, which leaves conditionals unparenthesised, is not      *)
(* modelled.                                                               *)
(***************************************************************************)
EXTENDS Integers, Sequences

CONSTANTS
    Widths,             \* the widths of registers, in bits
    BinaryOperators,    \* pairs <<operation, set of flags>>
    Comparisons,        \* pairs <<"signed" or "unsigned", predicate>>
    MaxRegisters        \* bound of the model on the length of the function

Flags == {"nsw", "nuw"}
Predicates == {"lt", "gt", "le", "ge", "eq", "ne"}

ASSUME WidthsAssumption == Widths \subseteq Nat \ {0}
ASSUME OperatorsAssumption ==
    /\ BinaryOperators \subseteq {"add", "sub", "mul"} \X SUBSET Flags
    /\ Comparisons \subseteq {"signed", "unsigned"} \X Predicates

VARIABLES
    registers,      \* the width and the value of each register, in order
    models          \* the assignments that the query so far admits

vars == <<registers, models>>

UnsignedMax(w) == 2^w - 1
SignedMax(w) == 2^(w - 1) - 1
SignedMin(w) == -(2^(w - 1))

--------------------------------------------------------------------------------
\* What the instructions do.
Apply(operation, l, r) ==
    CASE operation = "add" -> l + r
      [] operation = "sub" -> l - r
      [] operation = "mul" -> l * r

Compare(predicate, l, r) ==
    CASE predicate = "lt" -> l < r
      [] predicate = "gt" -> l > r
      [] predicate = "le" -> l <= r
      [] predicate = "ge" -> l >= r
      [] predicate = "eq" -> l = r
      [] predicate = "ne" -> l # r

SignedValue(w, v) == IF v > SignedMax(w) THEN v - 2^w ELSE v

Bit(truth) == IF truth THEN 1 ELSE 0

\* The result is not to be used: an overflow that a flag rules out.
IsPoison(operation, flags, w, l, r) ==
    \/ "nuw" \in flags /\ Apply(operation, l, r) \notin 0 .. UnsignedMax(w)
    \/ "nsw" \in flags /\ Apply(operation, SignedValue(w, l), SignedValue(w, r))
                              \notin SignedMin(w) .. SignedMax(w)

--------------------------------------------------------------------------------
\* What the code writes for them.
GetFixpointType(w) == IF w = 1 THEN "bool" ELSE "int"

getSignedIntFromUnsignedRepresentation(v, w) ==
    IF v > SignedMax(w) THEN v - UnsignedMax(w) ELSE v

\* Mutants: the wrapped result is one off; the condition is only necessary.
OperatorExpressionOffByOne(operation, flags, w, l, r, value) ==
    LET result == Apply(operation, l, r)
    IN  IF result <= UnsignedMax(w) THEN value = result ELSE value = result - UnsignedMax(w)

OperatorExpressionOneWay(operation, flags, w, l, r, value) ==
    LET result == Apply(operation, l, r)
    IN  value = result => result <= UnsignedMax(w)

\* value is what the formula calls __value.
GetIntegerOperatorExpression(operation, flags, w, l, r, value) ==
    LET result == Apply(operation, l, r)
        signedResult == Apply(operation, getSignedIntFromUnsignedRepresentation(l, w),
                                         getSignedIntFromUnsignedRepresentation(r, w))
    IN  IF "nsw" \in flags
        THEN (signedResult >= SignedMin(w) /\ signedResult <= SignedMax(w)) <=> value = result
        ELSE IF "nuw" \in flags
        THEN result <= UnsignedMax(w) <=> value = result
        ELSE IF result <= UnsignedMax(w) THEN value = result
             ELSE value = result - 1 - UnsignedMax(w)

\* A signed comparison moves the operands above SignedMax down.
ComparisonExpression(signedness, predicate, w, l, r, value) ==
    LET wrap(v) == IF signedness = "signed" /\ v > SignedMax(w) THEN v - 1 - SignedMax(w) ELSE v
    IN  value = 1 <=> Compare(predicate, wrap(l), wrap(r))

ZeroExtendExpression(fromWidth, v, value) ==
    IF fromWidth = 1 THEN (IF v = 1 THEN value = 1 ELSE value = 0) ELSE value = v

--------------------------------------------------------------------------------
\* Bounds of the model for the unbounded integers of the solver.
MaxWidth == CHOOSE w \in Widths : \A x \in Widths : x <= w
Integers == -(2^(2 * MaxWidth)) .. 2^(2 * MaxWidth)

OfType(type) == IF type = "bool" THEN {0, 1} ELSE Integers

Width(i) == registers[i].width
Value(i) == registers[i].value

\* The arguments: the query leaves them as they are.
Init ==
    /\ registers \in [1 .. 2 -> UNION {[width : {w}, value : 0 .. UnsignedMax(w)] : w \in Widths}]
    /\ models = {<<registers[1].value, registers[2].value>>}

\* The assignments of the registers and of a new one of width w, the last.
Extended(w) == {Append(n, v) : n \in models, v \in OfType(GetFixpointType(w))}

\* The instruction gives a new register of width w its value; the query admits
\* the extended assignments that satisfy its formula.
Define(w, value, admitted) ==
    /\ Len(registers) < MaxRegisters
    /\ registers' = Append(registers, [width |-> w, value |-> value])
    /\ models' = admitted

BinaryOperator(operation, flags, i, j) ==
    LET w == Width(i)
    IN  /\ w = Width(j) /\ w > 1
        /\ ~IsPoison(operation, flags, w, Value(i), Value(j))
        /\ Define(w, Apply(operation, Value(i), Value(j)) % 2^w,
                  {m \in Extended(w) :
                     GetIntegerOperatorExpression(operation, flags, w, m[i], m[j], m[Len(m)])})

CmpInst(signedness, predicate, i, j) ==
    LET w == Width(i)
        truth == IF signedness = "signed"
                 THEN Compare(predicate, SignedValue(w, Value(i)), SignedValue(w, Value(j)))
                 ELSE Compare(predicate, Value(i), Value(j))
    IN  /\ w = Width(j) /\ w > 1
        /\ Define(1, Bit(truth),
                  {m \in Extended(1) :
                     ComparisonExpression(signedness, predicate, w, m[i], m[j], m[Len(m)])})

ZExtInst(i, w) ==
    /\ w > Width(i)
    /\ Define(w, Value(i), {m \in Extended(w) : ZeroExtendExpression(Width(i), m[i], m[Len(m)])})

Next ==
    \E i \in DOMAIN registers :
        \/ \E j \in DOMAIN registers, o \in BinaryOperators : BinaryOperator(o[1], o[2], i, j)
        \/ \E j \in DOMAIN registers, c \in Comparisons : CmpInst(c[1], c[2], i, j)
        \/ \E w \in Widths : ZExtInst(i, w)

Spec == Init /\ [][Next]_vars

--------------------------------------------------------------------------------
Run == [i \in DOMAIN registers |-> Value(i)]

\* The run of the function is a model of its query.  If it were not, the
\* solver would prove refinements that the run breaks.
RunAdmitted == Run \in models

\* The query has no other model.  If it had, a refinement that holds would be
\* reported as unsafe.
RunDetermined == models \subseteq {Run}
================================================================================
