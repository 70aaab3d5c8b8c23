--------------------------- MODULE EnvironmentStore ---------------------------
(***************************************************************************)
(* The operations of VariablesEnvironment as functions of the state of the *)
(* object, a record e, for a function with the control flow graph succ.    *)
(* An operation returns the fields ok, false when the code returns         *)
(* ResultType::Error, and env, the state it leaves behind either way.      *)
(*                                                                         *)
(* The object turns the program into static single assignment form.  In    *)
(* each block a variable is mapped to the name of the binder that holds    *)
(* its value, and a name is a member of Name, below: the code makes it by  *)
(* joining strings.  An expression or a predicate is a string that the     *)
(* environment never looks into; here it is Over(names), the names it      *)
(* mentions.  The code's loops over ordered sets are folds over sets: the  *)
(* order only decides which ids binders and constraints get.               *)
(***************************************************************************)
EXTENDS ControlFlow, ConstraintStore, FiniteSetsExt

CONSTANT Variable       \* the names a client gives to its variables

Over(names) == <<"over", names>>

\* The names the environment makes.
Version(v, n) == <<"version", v, n>>
TransitionGuard(p, b) == <<"transition", p, b>>
BlockGuard(b) == <<"block", b>>
FuturePhi(p, v) == <<"futurePhi", p, v>>
PhiGuard(mapped, p) == <<"phiGuard", mapped, p>>

NoBlock == "no block"

\* A new object; every counter of versions is at 1.
EmptyEnvironment ==
    [currentBlockName          |-> NoBlock,
     variableTypes             |-> << >>,
     mutableVariableState      |-> [v \in Variable |-> 1],
     variablesMappingsPerBlock |-> << >>,
     variablesValuesPerBlock   |-> [b \in Block |-> {}],
     finishedBlocks            |-> {},
     phiNodeObligations        |-> [b \in Block |-> << >>],
     outputVariables           |-> {},
     mutableVariables          |-> {},
     mutableVariableConstraints |-> << >>,
     store                     |-> EmptyStore]

Succeed(e) == [ok |-> TRUE, env |-> e]

Fail(e) == [ok |-> FALSE, env |-> e]

\* The next call is made only if the one before succeeded.
Then(r, Op(_)) == IF r.ok THEN Op(r.env) ELSE r

ForEach(S, r, Op(_, _)) == FoldSet(LAMBDA x, acc : IF acc.ok THEN Op(acc.env, x) ELSE acc, r, S)

\* A call of constraintBuilder on behalf of e.
Build(e, result) == [ok |-> result.ok, env |-> [e EXCEPT !.store = result.store]]

--------------------------------------------------------------------------------
Mapping(e, b) ==
    IF b \in DOMAIN e.variablesMappingsPerBlock THEN e.variablesMappingsPerBlock[b] ELSE << >>

IsVariableDefined(e, v) == v \in DOMAIN e.variableTypes

\* Mutant: the name the client knows instead of the one it is mapped to.
GetClientName(e, v) == v

GetVariableName(e, v) == Mapping(e, e.currentBlockName)[v]

\* Mutant: the name does not come into scope.
MapOutOfScope(e, b, variable, name) ==
    [e EXCEPT !.variablesMappingsPerBlock = Put(@, b, Put(Mapping(e, b), variable, name))]

\* From now on name holds the value of variable in block b.
MapIn(e, b, variable, name) ==
    [e EXCEPT !.variablesMappingsPerBlock = Put(@, b, Put(Mapping(e, b), variable, name)),
              !.variablesValuesPerBlock[b] = @ \cup {name}]

\* Mutant: one mapping shared by all blocks.
MapEverywhere(e, variable, name) ==
    [e EXCEPT !.variablesMappingsPerBlock =
                    [b \in DOMAIN @ \cup {e.currentBlockName} |-> Put(Mapping(e, b), variable, name)],
              !.variablesValuesPerBlock = [b \in Block |-> @[b] \cup {name}]]

MapVariable(e, variable, name) == MapIn(e, e.currentBlockName, variable, name)

SetType(e, variable, type) == [e EXCEPT !.variableTypes = Put(@, variable, type)]

getNextVariableName(e, v) == Version(v, e.mutableVariableState[v])

CountVersion(e, v) == [e EXCEPT !.mutableVariableState[v] = @ + 1]

\* What is in scope in a block: its values and its own guard.
getBlockBinders(e, b) == e.variablesValuesPerBlock[b] \cup {BlockGuard(b)}

--------------------------------------------------------------------------------
createIOVariable(e, v, type, constraints) ==
    IF IsVariableDefined(e, v) THEN Fail(e)
    ELSE Then(Build(e, CreateBinderWithConstraints(e.store, v, type, constraints)),
              LAMBDA d : Succeed(MapVariable(SetType(d, v, type), v, v)))

\* Mutant: it is visible in the current block only.
CreateLocalInputVariable(e, v, type, constraints) == createIOVariable(e, v, type, constraints)

\* An input variable is visible in every block that has a mapping by now.
CreateImmutableInputVariable(e, v, type, constraints) ==
    LET Unmapped(d) ==
            {b \in DOMAIN d.variablesMappingsPerBlock : v \notin DOMAIN Mapping(d, b)}
    IN  Then(createIOVariable(e, v, type, constraints),
             LAMBDA d : ForEach(Unmapped(d), Succeed(d), LAMBDA f, b : Succeed(MapIn(f, b, v, v))))

\* The constraints are noted before anything is validated.
CreateMutableOutputVariable(e, v, type, constraints) ==
    createIOVariable([e EXCEPT !.mutableVariableConstraints = Put(@, v, constraints),
                               !.outputVariables = @ \cup {v}],
                     v, type, constraints)

\* A binder whose refinement the solver finds; the expression must imply the
\* constraints of the variable, and implies the refinement.
createVariable(e, variable, mapped, type, constraints, expression) ==
    LET scope == getBlockBinders(e, e.currentBlockName)
        created == Build(e, CreateBinderWithUnknownType(e.store, mapped, type, scope))
        checked ==
            IF constraints = {} THEN created
            ELSE Then(created, LAMBDA d : Build(d,
                    AddConstraint(d.store, <<"check", mapped>>, type, constraints,
                                  {expression}, scope)))
        assigned ==
            Then(checked, LAMBDA d : Build(d,
                    AddConstraintForAssignment(d.store, <<"assignment", mapped>>, mapped,
                                               {expression}, scope)))
    IN  Then(assigned, LAMBDA d :
                Succeed(MapVariable(SetType(d, variable, type), variable, mapped)))

CreateImmutableVariable(e, v, type, constraints, expression) ==
    IF IsVariableDefined(e, v) THEN Fail(e)
    ELSE createVariable(e, v, v, type, constraints, expression)

CreateMutableVariable(e, v, type, constraints, expression) ==
    IF IsVariableDefined(e, v) THEN Fail(e)
    ELSE createVariable([e EXCEPT !.mutableVariableConstraints = Put(@, v, constraints),
                                  !.mutableVariables = @ \cup {v}],
                        v, v, type, constraints, expression)

\* Mutant: the constraints are checked at the creation only.
AssignUnchecked(e, v, expression) ==
    IF v \notin e.outputVariables \cup e.mutableVariables THEN Fail(e)
    ELSE createVariable(CountVersion(e, v), v, getNextVariableName(e, v), e.variableTypes[v],
                        {}, expression)

AssignMutableVariable(e, v, expression) ==
    IF v \notin e.outputVariables \cup e.mutableVariables THEN Fail(e)
    ELSE createVariable(CountVersion(e, v), v, getNextVariableName(e, v), e.variableTypes[v],
                        e.mutableVariableConstraints[v], expression)

--------------------------------------------------------------------------------
\* The binder of the transition guard takes over the id promised for the edge.
AddJumpInformation(e, target) ==
    Build(e, CreateBinderWithConstraints(e.store, TransitionGuard(e.currentBlockName, target),
                                         "bool", {Over({})}))

\* The guard is the boolean or its negation; it is mentioned by the name the
\* client gives, not by the name it is mapped to.
AddBranchInformation(e, booleanVariable, target) ==
    IF ~IsVariableDefined(e, booleanVariable) THEN Fail(e)
    ELSE IF e.variableTypes[booleanVariable] # "bool" THEN Fail(e)
    ELSE Build(e, CreateBinderWithConstraints(e.store,
                    TransitionGuard(e.currentBlockName, target),
                    "bool", {Over({booleanVariable})}))

\* What getBlockGuard's formula mentions: see GuardEdges in ControlFlow.
GuardNames(succ, b) == {TransitionGuard(t[1], t[2]) : t \in GuardEdges(succ, b)}

\* One source of a phi node: a constraint with the scope of block p, the edge
\* from it and a guard of its own.  A source is a variable of that block, or a
\* name not bound yet that is used as it is.
flowFrom(succ, e, mapped, sources, d, p) ==
    LET current == e.currentBlockName
        scope == getBlockBinders(e, p)
                    \cup {TransitionGuard(p, current), PhiGuard(mapped, p), sources[p]}
        value == IF sources[p] \in DOMAIN Mapping(e, p) THEN Mapping(e, p)[sources[p]]
                 ELSE sources[p]
    IN  Then(Build(d, CreateBinderWithConstraints(d.store, PhiGuard(mapped, p), "bool",
                        {Over(GuardNames(succ, p) \cup {TransitionGuard(p, current)})})),
             LAMBDA f : Build(f, AddConstraintForAssignment(f.store,
                        <<"phi", p, current, mapped>>, mapped, {Over({value})}, scope)))

\* A phi node, with a source for each block that sources gives a name to.
createPhiNodeWithoutCreatedBinders(succ, e, variable, mapped, type, sources) ==
    LET created == Build(e, CreateBinderWithUnknownType(e.store, mapped, type,
                                getBlockBinders(e, e.currentBlockName)))
        flows == ForEach(DOMAIN sources, created,
                         LAMBDA d, p : flowFrom(succ, e, mapped, sources, d, p))
    IN  Then(flows, LAMBDA d : Succeed(MapVariable(d, variable, mapped)))

\* Sources their blocks do not have are promised first, each time anew.
createPhiNodeInternal(succ, e, variable, mapped, type, sources) ==
    LET missing == {p \in DOMAIN sources : sources[p] \notin DOMAIN Mapping(e, p)}
        promised == ForEach(missing, Succeed(e),
                            LAMBDA d, p : Build(d, CreateFutureBinder(d.store, sources[p], type)))
    IN  Then(promised, LAMBDA d :
                createPhiNodeWithoutCreatedBinders(succ, d, variable, mapped, type, sources))

\* Mutant: a phi node of the program is a version of its variable as well.
CreateVersionedPhiNode(succ, e, variable, type, sources) ==
    createPhiNodeInternal(succ, CountVersion(e, variable), variable,
                          getNextVariableName(e, variable), type, sources)

CreatePhiNode(succ, e, variable, type, sources) ==
    createPhiNodeInternal(succ, e, variable, variable, type, sources)

--------------------------------------------------------------------------------
\* A transition guard is visible where its edge, branch i of block b, leads.
announceTransition(succ, d, b, i) ==
    LET target == succ[b][i]
        name == TransitionGuard(b, target)
    IN  ForEach(Reach(succ, target), Build(d, CreateFutureBinder(d.store, name, "bool")),
                LAMBDA f, s : Succeed(MapIn(f, s, name, name)))

\* The first block: promise a transition guard for every edge, and create the
\* guard of every block.  The binders of a branch to one block twice are
\* promised twice.
initializeBlockGuards(succ, e) ==
    LET blocks == Reach(succ, Entry)
        transfers == {t \in blocks \X (1 .. 2) : t[2] \in DOMAIN succ[t[1]]}
        guard(d, b) == Build(d, CreateBinderWithConstraints(d.store, BlockGuard(b), "bool",
                                                            {Over(GuardNames(succ, b))}))
    IN  ForEach(blocks,
                ForEach(transfers, Succeed(e),
                        LAMBDA d, t : announceTransition(succ, d, t[1], t[2])),
                guard)

\* The value that a phi node of another block waits for is bound.
discharge(d, obligation) ==
    CreateImmutableVariable(d, obligation.TargetFutureVariable,
        d.variableTypes[obligation.VariableSource], {},
        Over({GetVariableName(d, obligation.VariableSource)}))

endBlock(e) ==
    LET b == e.currentBlockName
        obligations == e.phiNodeObligations[b]
    IN  Then(ForEach(DOMAIN obligations, Succeed(e), LAMBDA d, i : discharge(d, obligations[i])),
             LAMBDA d : Succeed([d EXCEPT !.phiNodeObligations[b] = << >>,
                                          !.finishedBlocks = @ \cup {b}]))

\* Only one predecessor may be finished, and it must dominate the others.
validateFinishedAndUnfinishedBlockStates(succ, finished, unfinished) ==
    /\ Cardinality(finished) = 1
    /\ \A p \in finished, u \in unfinished : StrictlyDominates(succ, p, u)

\* The blocks owe a value for variable v.
owe(d, blocks, v) ==
    [d EXCEPT !.phiNodeObligations = [b \in Block |->
        IF b \in blocks
        THEN Append(@[b], [VariableSource |-> v, TargetFutureVariable |-> FuturePhi(b, v)])
        ELSE @[b]]]

\* A phi node for v of the finished predecessor p, for which others owe values.
anticipatePhi(succ, d, p, unfinished, v) ==
    createPhiNodeInternal(succ, CountVersion(owe(d, unfinished, v), v), v,
        getNextVariableName(d, v), d.variableTypes[v],
        [b \in {p} \cup unfinished |-> IF b = p THEN v ELSE FuturePhi(b, v)])

\* Block b has variable v of the finished predecessor p.
share(d, p, b, v) == Succeed(MapIn(d, b, v, Mapping(d, p)[v]))

\* Predecessors that are not finished owe a value for every mutable variable
\* of the finished one p, and have its other variables except the outputs.
anticipate(succ, e, p, unfinished) ==
    LET variables == DOMAIN Mapping(e, p)
        immutable == variables \ (e.mutableVariables \cup e.outputVariables)
    IN  Then(ForEach(variables \cap e.mutableVariables, Succeed(e),
                     LAMBDA d, v : anticipatePhi(succ, d, p, unfinished, v)),
             LAMBDA d : ForEach(unfinished \X immutable, Succeed(d),
                                LAMBDA f, t : share(f, p, t[1], t[2])))

\* Mutant: no phi nodes for predecessors that are not finished.
getCommonVariablesOfFinished(succ, e, previous) ==
    Succeed([e EXCEPT !.variablesMappingsPerBlock =
                [b \in DOMAIN @ \cup previous |-> Mapping(e, b)]])

\* After this every predecessor has a mapping, be it empty.
getCommonVariables(succ, e, previous) ==
    LET finished == previous \cap e.finishedBlocks
        unfinished == previous \ e.finishedBlocks
        touched == [e EXCEPT !.variablesMappingsPerBlock =
                        [b \in DOMAIN @ \cup previous |-> Mapping(e, b)]]
    IN  IF unfinished = {} THEN Succeed(touched)
        ELSE IF ~validateFinishedAndUnfinishedBlockStates(succ, finished, unfinished) THEN Fail(e)
        ELSE anticipate(succ, touched, CHOOSE p \in finished : TRUE, unfinished)

CommonVariables(e, previous) ==
    {v \in UNION {DOMAIN Mapping(e, p) : p \in previous} :
        \A p \in previous : v \in DOMAIN Mapping(e, p)}

\* The variables that all predecessors have come into scope: as they are if
\* all predecessors agree on the name, and otherwise through a phi node.
inheritVariables(succ, e, previous) ==
    LET agree(v) == \A p, q \in previous : Mapping(e, p)[v] = Mapping(e, q)[v]
        common == CommonVariables(e, previous)
        keep(d, v) == Succeed(MapVariable(d, v, Mapping(e, CHOOSE p \in previous : TRUE)[v]))
        phi(d, v) ==
            createPhiNodeWithoutCreatedBinders(succ, CountVersion(d, v), v,
                getNextVariableName(d, v), d.variableTypes[v],
                [p \in previous |-> Mapping(d, p)[v]])
    IN  ForEach({v \in common : ~agree(v)},
                ForEach({v \in common : agree(v)}, Succeed(e), keep), phi)

StartBlock(succ, e, b) ==
    LET previous == ReachablePredecessors(succ, b)
        left == IF e.currentBlockName = NoBlock THEN initializeBlockGuards(succ, e) ELSE endBlock(e)
        enter(d) == IF b \in d.finishedBlocks THEN Fail(d)
                    ELSE getCommonVariables(succ, [d EXCEPT !.currentBlockName = b], previous)
    IN  Then(Then(left, enter), LAMBDA d : inheritVariables(succ, d, previous))

\* Mutant: promises that were not kept are not noticed.
ToStringUnchecked(e) == endBlock(e)

\* The last block ends, and the builder writes the query.
ToStringOrFailure(e) ==
    Then(endBlock(e), LAMBDA d : IF validateNoUninstantiatedFutureBinders(d.store)
                                 THEN Succeed(d) ELSE Fail(d))
================================================================================
