------------------------ MODULE InstructionConstraints ------------------------
(***************************************************************************)
(* RefinementConstraintGenerator and RefinementInstructionConstraint-      *)
(* Generator: they walk the blocks of a function in the order of the       *)
(* function, and make calls of the environment for each instruction.       *)
(*                                                                         *)
(* The function is any legal one in static single assignment form.  It is  *)
(* not given beforehand: an instruction is chosen when it is its turn, and *)
(* a register that a phi node takes from a block to come is defined by     *)
(* some instruction before that block ends.  What an instruction computes  *)
(* is in IntegerSemantics; here an expression is the set of names it       *)
(* mentions.  All parameters and results of functions are integers, since  *)
(* the code refuses others; values are "int", "bool" or "ptr", which is    *)
(* what the widths come down to.                                           *)
(*                                                                         *)
(* An assertion that fails ends the run as "aborted".                      *)
(***************************************************************************)
EXTENDS EnvironmentStore

CONSTANTS
    Functions,          \* control flow graphs of functions, each with a bound of
                        \* the model on the instructions other than terminators
    Parameters,         \* the number of parameters they may have
    CalleeParameters,   \* and of parameters of the functions they call
    Numbers,            \* the numbers that occur as constants
    MaxRegisters        \* bound of the model on the registers of a function

ASSUME BlockAssumption == IsFiniteSet(Block) /\ NoBlock \notin Block
ASSUME FunctionsAssumption ==
    \A f \in Functions : f[1] \in [Block -> Terminators] /\ OnlySelfLoops(f[1]) /\ f[2] \in Nat
ASSUME CountsAssumption ==
    /\ MaxRegisters \in Nat
    /\ Parameters \subseteq 0 .. MaxRegisters
    /\ CalleeParameters \subseteq Nat

VARIABLES
    succ,           \* the control flow graph
    env,            \* the environment
    started,        \* the blocks visited
    position,       \* within the current block: "phis", "body" or "done"
    defs,           \* for each register defined, where, its type and its kind
    owed,           \* the registers that phi nodes wait for
    room,           \* the instructions that it may still have
    returns,        \* history: the block and the value of each return
    outcome,        \* "open", "error", "aborted" or "emitted"
    stopped         \* the kind of the call that ended the run, or "none"

vars == <<succ, env, started, position, defs, owed, room, returns, outcome, stopped>>

Current == env.currentBlockName

\* The names of the generator.  A constant has one name, whatever its type.
Register(n) == <<"register", n>>
constInt(n) == <<"constInt", n>>
Return == <<"return">>
getValueVariable(r) == <<"val", r>>
Formal(r, name) == <<"formal", r, name>>
NoName == <<"">>

Registers == {Register(n) : n \in 1 .. MaxRegisters}
Constants == {constInt(n) : n \in Numbers}
Names ==
    Registers \cup Constants \cup {Return} \cup {getValueVariable(r) : r \in Registers}
        \cup {Formal(r, p) : r \in Registers, p \in Registers \cup {Return}}

ASSUME VariableAssumption == Variable = Names

\* Refinements of parameters, and that of a result, which speaks of parameters.
Refinement(names) == {Over(names)}

--------------------------------------------------------------------------------
Abort(e) == [ok |-> FALSE, env |-> e, aborted |-> TRUE]

\* GetVariableName for all of operands, in the current block, and then Op.
LookUp(e, operands, Op(_)) ==
    IF operands \subseteq DOMAIN Mapping(e, e.currentBlockName) THEN Op(e) ELSE Abort(e)

MappedNames(e, operands) == {GetVariableName(e, v) : v \in operands}

\* Mutant: a constant is created whenever it occurs.
getBinderNameAfresh(e, operand, type) ==
    IF operand \in Constants THEN CreateImmutableInputVariable(e, operand, type, Refinement({}))
    ELSE Succeed(e)

\* The operand itself, unless it is a constant that occurs for the first time:
\* it becomes an input, of the type it has there.
getBinderName(e, operand, type) ==
    IF operand \in Constants /\ ~IsVariableDefined(e, operand)
    THEN CreateImmutableInputVariable(e, operand, type, Refinement({}))
    ELSE Succeed(e)

getBinderNames(e, operands, type) ==
    ForEach(operands, Succeed(e), LAMBDA d, v : getBinderName(d, v, type))

\* addConstraintsForVariable for the parameters names and the result returnName
\* of a signature.
buildConstraintsFromSignatureForBlock(e, names, returnName) ==
    Then(ForEach(names, Succeed(e),
                 LAMBDA d, p : CreateImmutableInputVariable(d, p, "int", Refinement({}))),
         LAMBDA d : CreateMutableOutputVariable(d, returnName, "int", Refinement(names)))

\* Mutant: the result has the type of the operands.
CaptureComputationLikeOperands(e, r, type, operands, operandType) ==
    Then(getBinderNames(e, operands, operandType), LAMBDA d :
        LookUp(d, operands, LAMBDA f :
            CreateImmutableVariable(f, r, operandType, {}, Over(MappedNames(f, operands)))))

\* Binary operators, comparisons and zero extension.
CaptureComputation(e, r, type, operands, operandType) ==
    Then(getBinderNames(e, operands, operandType), LAMBDA d :
        LookUp(d, operands, LAMBDA f :
            CreateImmutableVariable(f, r, type, {}, Over(MappedNames(f, operands)))))

\* Mutant: the result is assigned without its refinement.
CaptureReturnUnchecked(e, operand) ==
    Then(getBinderName(e, operand, "int"), LAMBDA d :
        LookUp(d, {operand}, LAMBDA f :
            AssignUnchecked(f, Return, Over(MappedNames(f, {operand})))))

CaptureReturnInstructionConstraint(e, operand) ==
    Then(getBinderName(e, operand, "int"), LAMBDA d :
        LookUp(d, {operand}, LAMBDA f :
            AssignMutableVariable(f, Return, Over(MappedNames(f, {operand})))))

CaptureJump(e, target) == AddJumpInformation(e, target)

\* The condition goes in by its own name.
CaptureBranch(e, condition, success, fail) ==
    Then(getBinderName(e, condition, "bool"), LAMBDA d :
        Then(AddBranchInformation(d, condition, success), LAMBDA f :
            AddBranchInformation(f, condition, fail)))

CapturePhiInstructionConstraint(e, r, type, sources) ==
    Then(getBinderNames(e, {sources[p] : p \in DOMAIN sources}, type), LAMBDA d :
        CreatePhiNode(succ, d, r, type, sources))

\* The names of the two values go where that of the condition was, and the
\* empty name is looked up in their stead.
CaptureSelectInstructionConstraint(e, condition, trueValue, type) ==
    Then(getBinderName(e, condition, "bool"), LAMBDA d :
        LookUp(d, {condition}, LAMBDA f :
            Then(getBinderName(f, trueValue, type), LAMBDA g :
                LookUp(g, {NoName}, Succeed))))

\* The formals are created for the call, by generateCallSignatureVariables, and
\* the actual values are then to be assigned to them.
CaptureCallInstructionConstraint(e, r, actuals) ==
    LET formal(i) == Formal(r, Register(i))
        formalReturn == Formal(r, Return)
        signature == buildConstraintsFromSignatureForBlock(e, {formal(i) : i \in DOMAIN actuals}, formalReturn)
        assign(d, i) == AssignMutableVariable(d, formal(i), Over({actuals[i]}))
    IN  Then(ForEach(DOMAIN actuals, signature, assign), LAMBDA d :
            CreateImmutableVariable(d, r, "int", {}, Over({formalReturn})))

\* A cell of memory is a mutable variable; its address is the id of the binder
\* that the variable was created with.  Memory holds integers: clang keeps a
\* boolean as a byte.
CaptureAllocaInstructionConstraint(e, r) ==
    Then(CreateMutableVariable(e, getValueVariable(r), "int", {}, Over({})), LAMBDA d :
        CreateImmutableVariable(d, r, "ptr", {}, Over({})))

\* Of several cells, those that are not the one keep their values.
CaptureStoreInstructionConstraint(e, source, target, aliases) ==
    LET operands(r) == IF Cardinality(aliases) = 1 THEN {source} ELSE {source, target, getValueVariable(r)}
        assign(d, r) ==
            LookUp(d, operands(r), LAMBDA f :
                AssignMutableVariable(f, getValueVariable(r), Over(MappedNames(f, operands(r)))))
    IN  Then(getBinderName(e, source, "int"), LAMBDA d : ForEach(aliases, Succeed(d), assign))

CaptureLoadInstructionConstraint(e, r, source, aliases) ==
    LET operands == {source} \cup {getValueVariable(a) : a \in aliases}
    IN  LookUp(e, operands, LAMBDA d :
            CreateImmutableVariable(d, r, "int", {}, Over(MappedNames(d, operands))))

--------------------------------------------------------------------------------
\* What makes the function legal.  The registers that may be used here:
Usable == {r \in DOMAIN defs : Dominates(succ, defs[r].block, Current)}

Operands(type) ==
    {r \in Usable : defs[r].type = type} \cup (IF type = "ptr" THEN {} ELSE Constants)

Unused == {r \in Registers : r \notin DOMAIN defs /\ \A o \in owed : o.register # r}

\* Registers are numbered in the order of their first occurrence.
First(registers) == {r \in registers : \A q \in registers : r[2] <= q[2]}

\* The registers an instruction of this type may define here: one that is owed
\* to a block that only this one leads to, or the next that is not in use.
Definable(type) ==
    {o.register : o \in {o \in owed : o.type = type /\ Dominates(succ, Current, o.block)}}
        \cup First(Unused)

\* The cells that an analysis says a pointer may point to: those it does, and
\* perhaps others.
Allocas == {r \in DOMAIN defs : defs[r].kind = "alloca"}

Aliases(pointer) == {defs[pointer].cells \cup others : others \in SUBSET (Allocas \cap Usable)}

--------------------------------------------------------------------------------
Init ==
    /\ \E f \in Functions : succ = f[1] /\ room = f[2]
    /\ \E n \in Parameters :
          LET parameters == {Register(i) : i \in 1 .. n}
              entered == StartBlock(succ, EmptyEnvironment, Entry)
          IN  /\ env = buildConstraintsFromSignatureForBlock(entered.env, parameters, Return).env
              /\ defs = [r \in parameters |-> [block |-> Entry, type |-> "int", kind |-> "parameter", cells |-> {}]]
    /\ started = {Entry}
    /\ position = "phis"
    /\ owed = {}
    /\ returns = << >>
    /\ outcome = "open"
    /\ stopped = "none"

Call(kind, result) ==
    /\ outcome = "open"
    /\ env' = result.env
    /\ outcome' = IF result.ok THEN "open" ELSE IF "aborted" \in DOMAIN result THEN "aborted" ELSE "error"
    /\ stopped' = IF result.ok THEN "none" ELSE kind
    /\ UNCHANGED succ

\* The next block of the function, whichever the order of its blocks is.
EnterBlock(b) ==
    /\ outcome = "open" /\ position = "done"
    /\ b \notin started /\ b \in Reach(succ, Entry)
    /\ Call("block", StartBlock(succ, env, b))
    /\ started' = started \cup {b}
    /\ position' = "phis"
    /\ UNCHANGED <<defs, owed, room, returns>>

InBlock == outcome = "open" /\ position # "done"

\* An instruction that is neither a phi node nor a terminator.
InstructionDue == InBlock /\ room > 0

Instruction(kind, result) ==
    /\ Call(kind, result)
    /\ position' = "body"
    /\ room' = room - 1
    /\ UNCHANGED <<started, returns>>

Defines(r, type, kind, cells) ==
    /\ defs' = IF outcome' # "open" THEN defs ELSE Put(defs, r, [block |-> Current, type |-> type, kind |-> kind, cells |-> cells])
    /\ owed' = {o \in owed : o.register # r}

\* Arithmetic or extension, and comparison, of integers.  One operand stands for
\* two: an expression mentions what its operands are mapped to.
Computation ==
    /\ InstructionDue
    /\ \E types \in {<<"int", "int">>, <<"int", "bool">>} :
        \E r \in Definable(types[2]), v \in Operands(types[1]) :
            /\ Instruction("computation", CaptureComputation(env, r, types[2], {v}, types[1]))
            /\ Defines(r, types[2], "computation", {})

Select ==
    /\ InstructionDue
    /\ \E type \in {"int", "bool"} :
        \E r \in Definable(type), c \in Operands("bool"), v \in Operands(type) :
            /\ Instruction("select", CaptureSelectInstructionConstraint(env, c, v, type))
            /\ Defines(r, type, "select", {})

CallFunction ==
    /\ InstructionDue
    /\ \E n \in CalleeParameters :
        \E r \in Definable("int"), actuals \in [1 .. n -> Operands("int")] :
            /\ Instruction("call", CaptureCallInstructionConstraint(env, r, actuals))
            /\ Defines(r, "int", "call", {})

Alloca ==
    /\ InstructionDue
    /\ \E r \in Definable("ptr") :
        /\ Instruction("alloca", CaptureAllocaInstructionConstraint(env, r))
        /\ Defines(r, "ptr", "alloca", {r})

Store ==
    /\ InstructionDue
    /\ \E source \in Operands("int"), target \in Operands("ptr") :
        \E aliases \in Aliases(target) :
            /\ Instruction("store", CaptureStoreInstructionConstraint(env, source, target, aliases))
            /\ UNCHANGED <<defs, owed>>

Load ==
    /\ InstructionDue
    /\ \E r \in Definable("int"), source \in Operands("ptr") :
        \E aliases \in Aliases(source) :
            /\ Instruction("load", CaptureLoadInstructionConstraint(env, r, source, aliases))
            /\ Defines(r, "int", "load", {})

\* What a phi node r may take from block p: what may be used at the end of it,
\* and if p is still to come also r itself or a register that p will have.  No
\* two phi nodes wait for the same register.
PhiSources(r, type, p) ==
    {v \in DOMAIN defs : defs[v].type = type /\ Dominates(succ, defs[v].block, p)}
        \cup (IF type = "ptr" THEN {} ELSE Constants)
        \cup (IF p \in env.finishedBlocks \/ type = "ptr" THEN {}
              ELSE ({r} \cap Unused) \cup First(Unused \ {r}))

Phi ==
    /\ outcome = "open" /\ position = "phis"
    /\ room > 0
    /\ \E type \in {"int", "bool", "ptr"} :
       \E r \in Definable(type) :
          LET previous == ReachablePredecessors(succ, Current)
              candidates == UNION {PhiSources(r, type, p) : p \in previous}
          IN  /\ previous # {}
              /\ \E sources \in [previous -> candidates] :
                 /\ \A p \in previous : sources[p] \in PhiSources(r, type, p)
                 /\ Call("phi", CapturePhiInstructionConstraint(env, r, type, sources))
                 /\ defs' = Put(defs, r, [block |-> Current, type |-> type, kind |-> "phi",
                        cells |-> UNION {defs[sources[p]].cells : p \in {p \in previous : sources[p] \in DOMAIN defs}}])
                 /\ owed' = {o \in owed : o.register # r} \cup
                        {[register |-> sources[p], block |-> p, type |-> type] :
                            p \in {p \in previous : sources[p] \in Unused \ {r}}}
    /\ room' = room - 1
    /\ UNCHANGED <<started, position, returns>>

\* A terminator ends the block; what phi nodes wait for is there.
Terminator(kind, result) ==
    /\ \A o \in owed : o.block # Current
    /\ Call(kind, result)
    /\ position' = "done"
    /\ UNCHANGED <<started, defs, owed, room>>

ReturnValue ==
    /\ InBlock
    /\ succ[Current] = << >>
    /\ \E v \in Operands("int") :
          /\ Terminator("return", CaptureReturnInstructionConstraint(env, v))
          /\ returns' = Append(returns, [block |-> Current, value |-> v])

Jump ==
    /\ InBlock
    /\ Len(succ[Current]) = 1
    /\ Terminator("jump", CaptureJump(env, succ[Current][1]))
    /\ UNCHANGED returns

Branch ==
    /\ InBlock
    /\ Len(succ[Current]) = 2
    /\ \E c \in Operands("bool") :
          Terminator("branch", CaptureBranch(env, c, succ[Current][1], succ[Current][2]))
    /\ UNCHANGED returns

\* All blocks have been visited, and the query is written.
ToString ==
    /\ outcome = "open"
    /\ position = "done"
    /\ started = Reach(succ, Entry)
    /\ LET result == ToStringOrFailure(env)
       IN  /\ env' = result.env
           /\ outcome' = IF result.ok THEN "emitted" ELSE "error"
           /\ stopped' = IF result.ok THEN "none" ELSE "emit"
    /\ UNCHANGED <<succ, started, position, defs, owed, room, returns>>

Next ==
    \/ \E b \in Block : EnterBlock(b)
    \/ Computation \/ Select \/ CallFunction
    \/ Alloca \/ Store \/ Load
    \/ Phi
    \/ ReturnValue \/ Jump \/ Branch
    \/ ToString

Spec == Init /\ [][Next]_vars

--------------------------------------------------------------------------------

\* Every variable stays within its type, and the environment knows the type of
\* each register that is not a phi node.
TypeOK ==
    /\ started \subseteq Reach(succ, Entry)
    /\ Current \in started
    /\ position \in {"phis", "body", "done"}
    /\ DOMAIN defs \subseteq Registers
    /\ \A r \in DOMAIN defs :
          /\ defs[r].block \in started
          /\ defs[r].kind # "phi" => env.variableTypes[r] = defs[r].type
    /\ owed \subseteq [register : Registers, block : Block, type : {"int", "bool"}]
    /\ \A o \in owed : o.register \notin DOMAIN defs
    /\ room \in Nat
    /\ outcome \in {"open", "error", "aborted", "emitted"}
    /\ outcome \in {"open", "emitted"} <=> stopped = "none"

\* What the next instruction may use is found in the current block: a register
\* whose definition dominates the block, the cell of an alloca that does, and a
\* constant wherever it was first used.  GetVariableName asserts it.
OperandsFound ==
    outcome = "open" =>
        /\ Usable \subseteq DOMAIN Mapping(env, Current)
        /\ {getValueVariable(r) : r \in Allocas \cap Usable} \subseteq DOMAIN Mapping(env, Current)
        /\ \A c \in Constants : IsVariableDefined(env, c) => c \in DOMAIN Mapping(env, Current)

\* Branches, phi nodes and calls mention registers, constants and results of
\* callees by the names they have in the program, without a look-up.  That is
\* what they are mapped to, in every block: only cells and the function's own
\* result get other versions.
RawNamesSafe ==
    \A b \in Block : \A v \in DOMAIN Mapping(env, b) \cap Variable :
        v = Return \/ v[1] = "val" \/ Mapping(env, b)[v] = v

\* In the query, the value of each return is checked against the refinement of
\* the result under the guard of its block, and the parameters that the
\* refinement speaks of are known there.
ReturnsChecked ==
    outcome = "emitted" =>
        \A i \in DOMAIN returns :
            LET store == env.store
                parameters == {r \in DOMAIN defs : defs[r].kind = "parameter"}
                known == {BlockGuard(returns[i].block), returns[i].value} \cup parameters
            IN  \E c \in DOMAIN store.constraintNameMapping :
                    LET k == store.constraintNameMapping[c]
                    IN  /\ c[1] = "check"
                        /\ k.targetQualifiers = Refinement(parameters)
                        /\ k.qualifiers = {Over({returns[i].value})}
                        /\ getEnvironmentBinderIds(store, known) \subseteq k.env

\* A block owes one value twice: blocks with different dominators wait for the
\* same cell of it.  It cannot end, because the second value is refused.
OwedTwice(b) ==
    \E i, j \in DOMAIN env.phiNodeObligations[b] :
        /\ i # j
        /\ env.phiNodeObligations[b][i].TargetFutureVariable =
              env.phiNodeObligations[b][j].TargetFutureVariable

\* No formula has a free variable: what the two sides of a constraint mention
\* is in its environment, unless the function is about to be refused.
FormulasClosed ==
    outcome \in {"open", "emitted"} /\ (\A b \in Block : ~OwedTwice(b)) =>
        \A c \in DOMAIN env.store.constraintNameMapping :
            LET k == env.store.constraintNameMapping[c]
            IN  \A x \in k.qualifiers \cup k.targetQualifiers :
                    x[1] = "over" => getEnvironmentBinderIds(env.store, x[2]) \subseteq k.env

\* A condition that is mapped to a name, but not known to be a boolean.
Untyped(c) == c \notin DOMAIN env.variableTypes \/ env.variableTypes[c] # "bool"

\* A legal function is refused for one of these reasons only.  A select, or a
\* cell in use whose alloca the block is not dominated by, is looked up in vain.
\* The blocks come in an order in which a join has neither all its predecessors
\* before it nor one that dominates the others.  A condition is a phi node, or
\* a constant that was an integer before; or both its targets are one block.
\* A function with parameters is called.  A block owes one value twice.  A phi
\* node of a block that came early takes a register that was defined already,
\* but is not in the block it comes from yet: the promise made for it stays.
RefusalsKnown ==
    /\ outcome = "aborted" =>
          \/ stopped = "select"
          \/ stopped \in {"store", "load"} /\ Allocas \ Usable # {}
    /\ outcome = "error" =>
          \/ stopped = "call"
          \/ /\ stopped = "branch"
             /\ \/ \E c \in Operands("bool") : Untyped(c)
                \/ succ[Current][1] = succ[Current][2]
          \/ /\ stopped = "block"
             /\ \E p, q \in ReachablePredecessors(succ, Current) :
                   /\ q \notin env.finishedBlocks
                   /\ p = q \/ ~StrictlyDominates(succ, p, q)
          \/ stopped \in {"block", "emit"} /\ OwedTwice(Current)
          \/ stopped = "emit" /\ Promised(env.store) \cap Bound(env.store) # {}

\* A call is captured whenever the formals of the callee exist.
CallsCaptured == stopped # "call"
================================================================================
