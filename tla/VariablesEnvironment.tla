------------------------- MODULE VariablesEnvironment -------------------------
(***************************************************************************)
(* VariablesEnvironment and a client that drives it through the blocks of  *)
(* a function, as the instruction visitor and the example programs do.  A  *)
(* failed call is the last one, because every client gives up on an error; *)
(* ToStringOrFailure ends a run that succeeds.  On a control flow graph    *)
(* with a cycle through several blocks the first StartBlock exhausts the   *)
(* stack: see BlockGuards.                                                 *)
(*                                                                         *)
(* A client may start any block at any time, and create, assign and branch *)
(* as it likes; what it writes in an expression are names it asked         *)
(* GetVariableName for.  OrderlySpec is a client that never names, in a    *)
(* phi node, a variable that has been promised already.                    *)
(***************************************************************************)
EXTENDS EnvironmentStore

CONSTANTS
    Programs,       \* pairs of a control flow graph and the variables used on it
    TypeOf,         \* the fixpoint type of each variable
    Refined,        \* the variables that come with a constraint
    Inputs,         \* what each variable is created as
    Outputs,
    Mutables,
    Immutables,
    Phis,
    MaxWriters      \* bound of the model on the blocks that write one variable

ASSUME BlockAssumption == IsFiniteSet(Block) /\ NoBlock \notin Block
ASSUME VariableAssumption == IsFiniteSet(Variable) /\ Refined \subseteq Variable
ASSUME ProgramsAssumption == Programs \subseteq [Block -> Terminators] \X SUBSET Variable
ASSUME TypeOfAssumption == TypeOf \in [Variable -> {"int", "bool"}]
ASSUME MaxWritersAssumption == MaxWriters \in Nat
ASSUME RolesAssumption ==
    /\ Variable = UNION {Inputs, Outputs, Mutables, Immutables, Phis}
    /\ Inputs \cap UNION {Outputs, Mutables, Immutables, Phis} = {}

\* The keys of the mappings: the client's names, and those that the environment
\* makes for transitions and phi nodes.  The values are keys and versions.  No
\* client uses a name of the environment for a variable.
Transitions == {TransitionGuard(p, b) : p, b \in Block}
Futures == {FuturePhi(p, v) : p \in Block, v \in Variable}
Keys == Variable \cup Transitions \cup Futures
Versions == {"version"} \X Variable \X (Nat \ {0})
Values == Keys \cup Versions

ASSUME NamesAssumption == Variable \cap (Transitions \cup Futures \cup Versions) = {}

VARIABLES
    succ,           \* the control flow graph, fixed for the life of the object
    used,           \* the variables the client uses, also fixed
    env,            \* the private fields of the object
    outcome,        \* "open", or how the run ended: "error", "overflow", "emitted"
    atEntry,        \* history: the mapping of a block when it was started
    writtenIn       \* history: the blocks that created or assigned a variable

vars == <<succ, used, env, outcome, atEntry, writtenIn>>

Current == env.currentBlockName

Init ==
    /\ \E p \in Programs : succ = p[1] /\ used = p[2]
    /\ env = EmptyEnvironment
    /\ outcome = "open"
    /\ atEntry = << >>
    /\ writtenIn = [v \in Variable |-> {}]

\* The call made is op, which gives its result and the new state of the object.
Call(op) ==
    /\ outcome = "open"
    /\ env' = op.env
    /\ outcome' = IF op.ok THEN "open" ELSE "error"
    /\ UNCHANGED <<succ, used>>

Enter(b) ==
    /\ Current = NoBlock => OnlySelfLoops(succ)
    /\ Call(StartBlock(succ, env, b))
    /\ atEntry' = IF outcome' = "open" THEN Put(atEntry, b, Mapping(env', b)) ELSE atEntry
    /\ UNCHANGED writtenIn

Overflow ==
    /\ outcome = "open"
    /\ Current = NoBlock
    /\ ~OnlySelfLoops(succ)
    /\ outcome' = "overflow"
    /\ UNCHANGED <<succ, used, env, atEntry, writtenIn>>

Constraints(v) == IF v \in Refined THEN {Over({})} ELSE {}

\* An expression over variables that the current block has.
Expressions ==
    {Over({GetVariableName(env, v) : v \in reads}) :
        reads \in {{}} \cup {{v} : v \in DOMAIN Mapping(env, Current) \cap Variable}}

\* The statements of a block come before its terminator.
Open ==
    /\ Current # NoBlock
    /\ \A b \in Successors(succ, Current) : TransitionGuard(Current, b) \notin Bound(env.store)

Write(v, op) ==
    /\ Call(op)
    /\ writtenIn' = IF outcome' = "open" THEN [writtenIn EXCEPT ![v] = @ \cup {Current}]
                    ELSE writtenIn
    /\ UNCHANGED atEntry

CreateVariable(v) ==
    \/ /\ v \in Inputs
       /\ Write(v, CreateImmutableInputVariable(env, v, TypeOf[v], Constraints(v)))
    \/ /\ v \in Outputs
       /\ Write(v, CreateMutableOutputVariable(env, v, TypeOf[v], Constraints(v)))
    \/ \E e \in Expressions :
       \/ /\ v \in Mutables
          /\ Write(v, CreateMutableVariable(env, v, TypeOf[v], Constraints(v), e))
       \/ /\ v \in Immutables
          /\ Write(v, CreateImmutableVariable(env, v, TypeOf[v], Constraints(v), e))

\* A phi node of the program names a variable for every predecessor.
Phi(v, sources) ==
    /\ v \in Phis
    /\ \A p \in DOMAIN sources : TypeOf[sources[p]] = TypeOf[v]
    /\ Write(v, CreatePhiNode(succ, env, v, TypeOf[v], sources))

Sources == [ReachablePredecessors(succ, Current) -> used]

\* The sources that wait for a binder all wait for different ones, which
\* nothing else waits for.
OrderlySources ==
    {s \in Sources : \A p, q \in DOMAIN s :
        s[p] \notin DOMAIN Mapping(env, p) =>
            /\ s[p] \notin Promised(env.store)
            /\ s[p] = s[q] => p = q \/ s[q] \in DOMAIN Mapping(env, q)}

\* The bound: a variable is written once in a block, in MaxWriters blocks.
Assign(v) ==
    /\ Current \notin writtenIn[v]
    /\ Cardinality(writtenIn[v]) < MaxWriters
    /\ \E e \in Expressions : Write(v, AssignMutableVariable(env, v, e))

Jump(target) ==
    /\ Call(AddJumpInformation(env, target))
    /\ UNCHANGED <<atEntry, writtenIn>>

Branch(v, target) ==
    /\ v \in DOMAIN Mapping(env, Current)
    /\ Call(AddBranchInformation(env, v, target))
    /\ UNCHANGED <<atEntry, writtenIn>>

Finish ==
    /\ Current # NoBlock
    /\ outcome = "open"
    /\ LET result == ToStringOrFailure(env)
       IN  env' = result.env /\ outcome' = IF result.ok THEN "emitted" ELSE "error"
    /\ UNCHANGED <<succ, used, atEntry, writtenIn>>

Statement ==
    /\ Open
    /\ \E v \in used : CreateVariable(v) \/ Assign(v)

Terminator ==
    /\ Current # NoBlock
    /\ \E b \in Successors(succ, Current) : Jump(b) \/ \E v \in used : Branch(v, b)

OtherCall ==
    \/ \E b \in Block : Enter(b)
    \/ Overflow
    \/ Statement
    \/ Terminator
    \/ Finish

Next == OtherCall \/ (Open /\ \E v \in used, s \in Sources : Phi(v, s))

Spec == Init /\ [][Next]_vars

OrderlyNext == OtherCall \/ (Open /\ \E v \in used, s \in OrderlySources : Phi(v, s))

OrderlySpec == Init /\ [][OrderlyNext]_vars

--------------------------------------------------------------------------------
Finished == env.finishedBlocks

\* Every field stays within its type, and a block never maps a variable to a
\* name that is not among its values.
TypeOK ==
    /\ <<succ, used>> \in Programs
    /\ Current \in Block \cup {NoBlock}
    /\ DOMAIN env.variableTypes \subseteq Variable \cup Futures
    /\ \A v \in Variable : env.mutableVariableState[v] \in Nat \ {0}
    /\ DOMAIN env.variablesMappingsPerBlock \subseteq Block
    /\ \A b \in Block :
          /\ DOMAIN Mapping(env, b) \subseteq Keys
          /\ env.variablesValuesPerBlock[b] \subseteq Values
          /\ \A x \in DOMAIN Mapping(env, b) : Mapping(env, b)[x] \in env.variablesValuesPerBlock[b]
    /\ Finished \subseteq Block
    /\ env.outputVariables \subseteq Outputs
    /\ env.mutableVariables \subseteq Mutables
    /\ outcome \in {"open", "error", "overflow", "emitted"}

\* A variable is in scope in a block exactly when every path from the entry to
\* the block creates or assigns it: never too early, and never lost at a join,
\* around a loop or when a join is started before one of its predecessors.
\* Inputs are in scope everywhere; outputs are dropped at the latter two.
ScopeIsDefiniteAssignment ==
    outcome = "open" /\ Current \in Reach(succ, Entry) =>
        DOMAIN Mapping(env, Current) \cap (Variable \ (Inputs \cup Outputs)) =
            {v \in Variable \ (Inputs \cup Outputs) : ~Avoids(succ, writtenIn[v], Current)}

\* An input variable is visible in every block, whichever block created it,
\* those processed before included: constants of the program are inputs made
\* on first use, and phi nodes name them for any predecessor.
InputsVisibleEverywhere ==
    outcome = "open" =>
        \A v \in Inputs : writtenIn[v] \cap Reach(succ, Entry) # {} =>
            \A b \in Reach(succ, Entry) : v \in DOMAIN Mapping(env, b)

\* Pairs <<m, n>> of names: n gets the value of m, through a phi node or as the
\* binder that a phi node waits for.
Flows ==
    LET constraints == env.store.constraintNameMapping
        flowing == {c \in DOMAIN constraints :
                      c[1] = "phi" \/ (c[1] = "assignment" /\ c[2] \in Futures)}
        target(c) == IF c[1] = "phi" THEN c[4] ELSE c[2]
        mentioned(c) == UNION {expression[2] : expression \in constraints[c].qualifiers}
    IN  UNION {mentioned(c) \X {target(c)} : c \in flowing}

FlowsTo(m, n) ==
    LET names == {f[1] : f \in Flows} \cup {f[2] : f \in Flows} \cup {m}
    IN  \A S \in SUBSET names : m \in S /\ (\A f \in Flows : f[1] \in S => f[2] \in S) => n \in S

\* In the finished query, along every edge between two processed blocks the
\* value a variable has at the end of one block flows into the name it has at
\* the start of the other: no assignment is lost at a join or around a loop.
EveryPathFlows ==
    outcome = "emitted" =>
        \A e \in Edges(succ) : e[1] \in Finished /\ e[2] \in Finished =>
            \A v \in (Variable \ Inputs) \cap DOMAIN atEntry[e[2]] :
                /\ v \in DOMAIN Mapping(env, e[1])
                /\ FlowsTo(Mapping(env, e[1])[v], atEntry[e[2]][v])

\* Whatever value a refined variable ever has, the query demands that it
\* satisfies the refinement: the binder has it as its own, a check was added
\* for the expression assigned, or the value only flows in from others.
RefinementsChecked ==
    outcome # "error" =>
        \A b \in Block, v \in Refined \ Phis :
            v \in DOMAIN Mapping(env, b) =>
                LET n == Mapping(env, b)[v]
                    constraints == env.store.constraintNameMapping
                IN  \/ env.store.binderNameMapping[n].qualifiers = Constraints(v)
                    \/ /\ <<"check", n>> \in DOMAIN constraints
                       /\ constraints[<<"check", n>>].targetQualifiers = Constraints(v)
                       /\ constraints[<<"check", n>>].qualifiers =
                             constraints[<<"assignment", n>>].qualifiers
                    \/ n \in {f[2] : f \in Flows}

\* A query is written only when every edge of the graph has its guard, so
\* every block that can be left was processed, and no phi node is owed a value.
NothingSkipped ==
    outcome = "emitted" =>
        /\ \A e \in Edges(succ) : TransitionGuard(e[1], e[2]) \in Bound(env.store)
        /\ \A b \in Reach(succ, Entry) : succ[b] # << >> => b \in Finished
        /\ \A b \in Block : env.phiNodeObligations[b] = << >>

\* What a finished block maps its variables to is final: the phi nodes of
\* later blocks have been built from it.
FinishedBlocksFrozen ==
    [][\A b \in Finished : \A v \in DOMAIN Mapping(env, b) :
          /\ v \in DOMAIN Mapping(env', b)
          /\ Mapping(env', b)[v] = Mapping(env, b)[v]]_vars

\* In the query that is written, every id an environment mentions is declared.
QueryClosed ==
    outcome = "emitted" =>
        LET s == env.store
        IN  UNION ({s.constraintNameMapping[c].env : c \in DOMAIN s.constraintNameMapping}
                    \cup {s.wellFormednessConstraintsMapping[n].env :
                            n \in DOMAIN s.wellFormednessConstraintsMapping})
            \subseteq {s.binderNameMapping[n].id : n \in Bound(s)}
================================================================================
