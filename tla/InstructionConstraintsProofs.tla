----------------------- MODULE InstructionConstraintsProofs -----------------------
(***************************************************************************)
(* What the walk over the instructions of a function guarantees, for every *)
(* control flow graph, any number of registers and any order of the        *)
(* blocks: its variables stay within their types, a name of the program    *)
(* that is mentioned without a look-up is the name that the environment    *)
(* knows it by, an operand that is looked up is found, and every return is *)
(* checked in the query.                                                   *)
(*                                                                         *)
(* Every call that an instruction makes is a chain of small steps and of   *)
(* loops over finite sets.  Tidy holds of the environment after each of    *)
(* them, also when a call fails half way, and each of them leads to a      *)
(* state that Follows the one before it.  What the last sections show of   *)
(* an instruction is that it Walks; the rest is about the order of blocks. *)
(***************************************************************************)
EXTENDS InstructionConstraints, EnvironmentStoreTheorems

\* The two kinds of variables that are assigned more than once, or may be.
Cells == {getValueVariable(r) : r \in Registers}
ResultNames == {Return} \cup {Formal(r, Return) : r \in Registers}

\* What may be mapped to another name than its own.
Versioned(v) == v = Return \/ v[1] = "val"

Raw(v, name) == v # NoName /\ (v \in Variable => Versioned(v) \/ name = v)

Obligations ==
    [VariableSource : Variable, TargetFutureVariable : {FuturePhi(p, v) : p \in Block, v \in Variable}]

\* A variable's name is in scope where the variable is visible, and has its
\* binder if it is one of the program's registers or constants.
Placed(e, b, v) ==
    /\ Mapping(e, b)[v] \in e.variablesValuesPerBlock[b]
    /\ v \in Registers \cup Constants => v \in Bound(e.store)

Tidy(e) ==
    /\ Shape(e)
    /\ e.mutableVariables \subseteq Cells
    /\ e.outputVariables \subseteq ResultNames
    /\ e.phiNodeObligations \in [Block -> Seq(Obligations)]
    /\ DOMAIN e.variablesMappingsPerBlock \subseteq Block
    /\ DOMAIN e.variablesValuesPerBlock = Block
    /\ \A b \in Block :
          /\ IsFiniteSet(DOMAIN Mapping(e, b))
          /\ \A v \in DOMAIN Mapping(e, b) : Raw(v, Mapping(e, b)[v]) /\ Placed(e, b, v)

\* The client is in a block.
Running(e) == e.currentBlockName \in Block

\* The refinement noted for the function's result has not been replaced.
SameResult(e, d) ==
    Return \in DOMAIN e.variableTypes /\ Return \in DOMAIN e.mutableVariableConstraints =>
        /\ Return \in DOMAIN d.mutableVariableConstraints
        /\ d.mutableVariableConstraints[Return] = e.mutableVariableConstraints[Return]

\* From state e to d no type has changed, no name has gone out of scope, and no
\* binder and no constraint was lost.
Grows(e, d) ==
    /\ Grown(e.store, d.store)
    /\ SameResult(e, d)
    /\ \A x \in DOMAIN e.variableTypes :
          x \in DOMAIN d.variableTypes /\ d.variableTypes[x] = e.variableTypes[x]
    /\ DOMAIN e.variablesMappingsPerBlock \subseteq DOMAIN d.variablesMappingsPerBlock
    /\ \A b \in Block : DOMAIN Mapping(e, b) \subseteq DOMAIN Mapping(d, b)

\* The same block is current, and no block was finished.
Within(e, d) ==
    /\ Tidy(d)
    /\ Grows(e, d)
    /\ d.currentBlockName = e.currentBlockName
    /\ d.finishedBlocks = e.finishedBlocks

\* A constant that has occurred since is in scope in the blocks there were.
Seen(e, d) ==
    \A c \in Constants : c \in DOMAIN d.variableTypes =>
        \/ c \in DOMAIN e.variableTypes
        \/ \A b \in Block : b \in DOMAIN e.variablesMappingsPerBlock \/ b = e.currentBlockName =>
              c \in DOMAIN Mapping(d, b)

Follows(e, d) == Within(e, d) /\ Seen(e, d)

LEMMA GrowsTransitive ==
    ASSUME NEW e, NEW d, NEW f, Grows(e, d), Grows(d, f)
    PROVE  Grows(e, f)
<1>1. Grown(e.store, f.store) /\ SameResult(e, f)
  BY GrownTransitive DEF Grows, SameResult
<1> QED BY <1>1 DEF Grows

LEMMA WithinReflexive ==
    ASSUME NEW e, Tidy(e)
    PROVE  Within(e, e)
BY GrownReflexive DEF Within, Grows, SameResult, Tidy, Shape

LEMMA WithinTransitive ==
    ASSUME NEW e, NEW d, NEW f, Within(e, d), Within(d, f)
    PROVE  Within(e, f)
BY GrowsTransitive DEF Within

LEMMA FollowsReflexive ==
    ASSUME NEW e, Tidy(e)
    PROVE  Follows(e, e)
BY WithinReflexive DEF Follows, Seen

LEMMA FollowsTransitive ==
    ASSUME NEW e, NEW d, NEW f, Follows(e, d), Follows(d, f)
    PROVE  Follows(e, f)
<1>1. Within(e, f)
  BY WithinTransitive DEF Follows
<1>2. Seen(e, f)
  BY DEF Follows, Seen, Within, Grows
<1> QED BY <1>1, <1>2 DEF Follows

LEMMA RunningStays ==
    ASSUME NEW e, NEW d, Running(e), Within(e, d)
    PROVE  Running(d)
BY DEF Running, Within

--------------------------------------------------------------------------------
\* Small steps.

\* Nothing is changed that Tidy and Follows speak of.
LEMMA UntouchedFollows ==
    ASSUME NEW e, Tidy(e), NEW d, Shape(d),
           d.mutableVariables \subseteq Cells,
           d.outputVariables \subseteq ResultNames,
           d.phiNodeObligations \in [Block -> Seq(Obligations)],
           d.variablesMappingsPerBlock = e.variablesMappingsPerBlock,
           d.variablesValuesPerBlock = e.variablesValuesPerBlock,
           d.variableTypes = e.variableTypes,
           d.currentBlockName = e.currentBlockName,
           d.finishedBlocks = e.finishedBlocks,
           Grown(e.store, d.store), SameResult(e, d)
    PROVE  Follows(e, d)
<1>1. \A b : Mapping(d, b) = Mapping(e, b)
  BY DEF Mapping
<1>2. Tidy(d)
  BY <1>1 DEF Tidy, Placed, Grown
<1>3. Grows(e, d)
  BY <1>1 DEF Grows
<1> QED BY <1>2, <1>3 DEF Follows, Within, Seen

LEMMA BuildFollows ==
    ASSUME NEW e, Tidy(e), NEW result, Grown(e.store, result.store)
    PROVE  /\ Follows(e, Build(e, result).env)
           /\ Build(e, result).ok = result.ok
           /\ Build(e, result).env.store = result.store
           /\ Build(e, result).env.variableTypes = e.variableTypes
<1> DEFINE d == Build(e, result).env
<1>1. /\ Build(e, result).ok = result.ok
      /\ SameBut(e, d, {"store"})
      /\ d.store = result.store
  BY BuildFields DEF Tidy
<1> HIDE DEF d
<1>2. /\ d.mutableVariables = e.mutableVariables
      /\ d.outputVariables = e.outputVariables
      /\ d.phiNodeObligations = e.phiNodeObligations
      /\ d.variablesMappingsPerBlock = e.variablesMappingsPerBlock
      /\ d.variablesValuesPerBlock = e.variablesValuesPerBlock
      /\ d.variableTypes = e.variableTypes
      /\ d.currentBlockName = e.currentBlockName
      /\ d.finishedBlocks = e.finishedBlocks
      /\ d.mutableVariableConstraints = e.mutableVariableConstraints
      /\ Grown(e.store, d.store)
      /\ Shape(d)
  BY <1>1 DEF SameBut, EnvironmentFields, Shape, Grown
<1>3. Follows(e, d)
  BY <1>2, UntouchedFollows DEF Tidy, SameResult
<1> QED BY <1>1, <1>2, <1>3 DEF d

LEMMA MapInFollows ==
    ASSUME NEW e, Tidy(e), NEW b \in Block, NEW v, NEW name, Raw(v, name),
           v \in Registers \cup Constants => v \in Bound(e.store)
    PROVE  LET d == MapIn(e, b, v, name)
           IN  /\ Follows(e, d)
               /\ d.variableTypes = e.variableTypes
               /\ d.store = e.store
               /\ d.phiNodeObligations = e.phiNodeObligations
               /\ d.mutableVariables = e.mutableVariables
               /\ v \in DOMAIN Mapping(d, b)
<1> DEFINE d == MapIn(e, b, v, name)
<1>1. /\ SameBut(e, d, {"variablesMappingsPerBlock", "variablesValuesPerBlock"})
      /\ DOMAIN d.variablesMappingsPerBlock = DOMAIN e.variablesMappingsPerBlock \cup {b}
      /\ Mapping(d, b) = Put(Mapping(e, b), v, name)
      /\ \A c : c # b => Mapping(d, c) = Mapping(e, c)
      /\ d.variablesValuesPerBlock = [e.variablesValuesPerBlock EXCEPT ![b] = @ \cup {name}]
  <2>1. MappedIn(e, d, b, v, name)
    BY MapInFields DEF Tidy
  <2> QED BY <2>1 DEF MappedIn
<1> HIDE DEF d
<1>2. /\ d.mutableVariables = e.mutableVariables
      /\ d.outputVariables = e.outputVariables
      /\ d.phiNodeObligations = e.phiNodeObligations
      /\ d.variableTypes = e.variableTypes
      /\ d.currentBlockName = e.currentBlockName
      /\ d.finishedBlocks = e.finishedBlocks
      /\ d.store = e.store
      /\ d.mutableVariableConstraints = e.mutableVariableConstraints
      /\ Shape(d)
  BY <1>1 DEF SameBut, EnvironmentFields, Shape, Tidy
<1>7. /\ DOMAIN d.variablesValuesPerBlock = Block
      /\ name \in d.variablesValuesPerBlock[b]
      /\ \A c \in Block : e.variablesValuesPerBlock[c] \subseteq d.variablesValuesPerBlock[c]
  <2> DEFINE values == e.variablesValuesPerBlock
  <2>1. DOMAIN values = Block
    BY DEF Tidy
  <2> HIDE DEF values
  <2>2. d.variablesValuesPerBlock = [values EXCEPT ![b] = @ \cup {name}]
    BY <1>1 DEF values
  <2> QED BY <2>1, <2>2 DEF values
<1>3. /\ DOMAIN Mapping(d, b) = DOMAIN Mapping(e, b) \cup {v}
      /\ Mapping(d, b)[v] = name
      /\ \A x \in DOMAIN Mapping(e, b) : x # v => Mapping(d, b)[x] = Mapping(e, b)[x]
  <2> DEFINE m == Mapping(e, b)
  <2> HIDE DEF m
  <2>1. /\ DOMAIN Put(m, v, name) = DOMAIN m \cup {v}
        /\ Put(m, v, name)[v] = name
        /\ \A x \in DOMAIN m : x # v => Put(m, v, name)[x] = m[x]
    BY DEF Put
  <2> QED BY <1>1, <2>1 DEF m
<1>4. ASSUME NEW c \in Block
      PROVE  /\ IsFiniteSet(DOMAIN Mapping(d, c))
             /\ \A x \in DOMAIN Mapping(d, c) : Raw(x, Mapping(d, c)[x]) /\ Placed(d, c, x)
             /\ DOMAIN Mapping(e, c) \subseteq DOMAIN Mapping(d, c)
  <2>1. /\ IsFiniteSet(DOMAIN Mapping(e, c))
        /\ \A x \in DOMAIN Mapping(e, c) : Raw(x, Mapping(e, c)[x]) /\ Placed(e, c, x)
    BY DEF Tidy
  <2>2. CASE c # b
    BY <1>1, <1>2, <1>7, <2>1, <2>2 DEF Placed
  <2>3. CASE c = b
    <3>1. IsFiniteSet(DOMAIN Mapping(d, c))
      BY <1>3, <2>1, <2>3, FS_AddElement
    <3>2. ASSUME NEW x \in DOMAIN Mapping(d, c)
          PROVE  Raw(x, Mapping(d, c)[x]) /\ Placed(d, c, x)
      <4>1. CASE x = v
        BY <1>2, <1>3, <1>7, <2>3, <4>1 DEF Placed
      <4>2. CASE x # v
        BY <1>2, <1>3, <1>7, <2>1, <2>3, <4>2 DEF Placed
      <4> QED BY <4>1, <4>2
    <3> QED BY <1>3, <2>3, <3>1, <3>2
  <2> QED BY <2>2, <2>3
<1>5. Tidy(d)
  BY <1>1, <1>2, <1>4, <1>7 DEF Tidy
<1>6. Grows(e, d)
  <2>1. Grown(e.store, d.store) /\ SameResult(e, d)
    BY <1>2, GrownReflexive DEF SameResult, Tidy, Shape
  <2> QED BY <1>1, <1>2, <1>4, <2>1 DEF Grows
<1> QED BY <1>2, <1>3, <1>5, <1>6 DEF Follows, Within, Seen, d

\* A variable gets a type, which is the one it had if it had one.
LEMMA SetTypeFollows ==
    ASSUME NEW e, Tidy(e), NEW v, NEW type,
           v \in DOMAIN e.variableTypes => e.variableTypes[v] = type
    PROVE  LET d == SetType(e, v, type)
           IN  /\ Within(e, d)
               /\ v \notin Constants => Follows(e, d)
               /\ DOMAIN d.variableTypes = DOMAIN e.variableTypes \cup {v}
               /\ d.variableTypes[v] = type
               /\ d.store = e.store
<1> DEFINE d == SetType(e, v, type)
           types == Put(e.variableTypes, v, type)
<1>1. d = [e EXCEPT !.variableTypes = types]
  BY DEF SetType
<1>2. /\ DOMAIN types = DOMAIN e.variableTypes \cup {v}
      /\ types[v] = type
      /\ \A x \in DOMAIN e.variableTypes : types[x] = e.variableTypes[x]
  BY DEF Put
<1> HIDE DEF d, types
<1>3. /\ d.mutableVariables = e.mutableVariables
      /\ d.outputVariables = e.outputVariables
      /\ d.phiNodeObligations = e.phiNodeObligations
      /\ d.variablesMappingsPerBlock = e.variablesMappingsPerBlock
      /\ d.variablesValuesPerBlock = e.variablesValuesPerBlock
      /\ d.variableTypes = types
      /\ d.currentBlockName = e.currentBlockName
      /\ d.finishedBlocks = e.finishedBlocks
      /\ d.mutableVariableConstraints = e.mutableVariableConstraints
      /\ d.store = e.store
      /\ Shape(d)
  BY <1>1 DEF EnvironmentFields, Shape, Tidy
<1>4. \A b : Mapping(d, b) = Mapping(e, b)
  BY <1>3 DEF Mapping
<1>5. Tidy(d)
  BY <1>3, <1>4 DEF Tidy, Placed
<1>6. Grows(e, d)
  <2>1. Grown(e.store, d.store) /\ SameResult(e, d)
    BY <1>3, GrownReflexive DEF SameResult, Tidy, Shape
  <2> QED BY <1>2, <1>3, <1>4, <2>1 DEF Grows
<1> QED BY <1>2, <1>3, <1>5, <1>6 DEF Follows, Within, Seen, d

LEMMA CountVersionFollows ==
    ASSUME NEW e, Tidy(e), NEW v
    PROVE  /\ Follows(e, CountVersion(e, v))
           /\ CountVersion(e, v).variableTypes = e.variableTypes
           /\ CountVersion(e, v).store = e.store
           /\ CountVersion(e, v).variablesValuesPerBlock = e.variablesValuesPerBlock
           /\ \A b : Mapping(CountVersion(e, v), b) = Mapping(e, b)
<1> DEFINE d == CountVersion(e, v)
<1>1. SameBut(e, d, {"mutableVariableState"})
  BY CountVersionFields DEF Tidy
<1> HIDE DEF d
<1>2. /\ d.mutableVariables = e.mutableVariables
      /\ d.outputVariables = e.outputVariables
      /\ d.phiNodeObligations = e.phiNodeObligations
      /\ d.variablesMappingsPerBlock = e.variablesMappingsPerBlock
      /\ d.variablesValuesPerBlock = e.variablesValuesPerBlock
      /\ d.variableTypes = e.variableTypes
      /\ d.currentBlockName = e.currentBlockName
      /\ d.finishedBlocks = e.finishedBlocks
      /\ d.mutableVariableConstraints = e.mutableVariableConstraints
      /\ d.store = e.store
      /\ Shape(d)
  BY <1>1 DEF SameBut, EnvironmentFields, Shape, Tidy
<1>3. Follows(e, d)
  BY <1>2, UntouchedFollows, GrownReflexive DEF Tidy, SameResult, Shape
<1> QED BY <1>2, <1>3 DEF Mapping, d

--------------------------------------------------------------------------------
\* Calls of the environment.

\* The names of the program and of the environment are apart.
LEMMA NamesApart ==
    /\ Registers \cap Constants = {}
    /\ ResultNames \cap Constants = {}
    /\ Cells \cap Constants = {}
    /\ Registers \cap ResultNames = {}
    /\ Registers \cap Cells = {}
    /\ ResultNames \cap Cells = {}
    /\ \A p, v : FuturePhi(p, v) \notin Constants /\ FuturePhi(p, v) # NoName
    /\ NoName \notin Registers \cup Constants \cup ResultNames \cup Cells
    /\ \A p, b : TransitionGuard(p, b) # NoName
    /\ \A v \in Cells : Versioned(v)
    /\ Versioned(Return)
<1>1. /\ \A n : Register(n)[1] = "register"
      /\ \A n : constInt(n)[1] = "constInt"
      /\ Return[1] = "return"
      /\ \A r : getValueVariable(r)[1] = "val"
      /\ \A r, n : Formal(r, n)[1] = "formal"
      /\ \A p, v : FuturePhi(p, v)[1] = "futurePhi"
      /\ \A p, b : TransitionGuard(p, b)[1] = "transition"
      /\ NoName[1] = ""
  BY DEF NoName, TransitionGuard, Register, constInt, Return, getValueVariable, Formal, FuturePhi
<1> QED BY <1>1, Zenon DEF Registers, Constants, ResultNames, Cells, Versioned

\* A register or a constant is known by its own name.
LEMMA RawIsItself ==
    ASSUME NEW v \in Registers \cup Constants, NEW name, Raw(v, name)
    PROVE  name = v
<1>1. v \in Variable
  BY VariableAssumption DEF Names
<1>2. v # Return /\ v[1] # "val"
  <2>1. /\ \A n : Register(n)[1] = "register"
        /\ \A n : constInt(n)[1] = "constInt"
        /\ Return[1] = "return"
    BY DEF Register, constInt, Return
  <2> QED BY <2>1 DEF Registers, Constants
<1> QED BY <1>1, <1>2 DEF Raw, Versioned

\* The result r of giving variable v a binder of this type.
HasType(e, r, v, type) ==
    r.ok => /\ v \in DOMAIN r.env.variableTypes
            /\ r.env.variableTypes[v] = type
            /\ v \in DOMAIN Mapping(r.env, e.currentBlockName)

Made(e, r, v, type) == Follows(e, r.env) /\ HasType(e, r, v, type)

\* v has got its binder, under this name.
Introduce(d, v, name, type) == MapVariable(SetType(d, v, type), v, name)

LEMMA IntroduceMakes ==
    ASSUME NEW d, Tidy(d), Running(d), NEW v, NEW name, Raw(v, name), NEW type,
           v \in DOMAIN d.variableTypes => d.variableTypes[v] = type,
           v \in Registers \cup Constants => v \in Bound(d.store)
    PROVE  /\ Within(d, Introduce(d, v, name, type))
           /\ v \notin Constants => Follows(d, Introduce(d, v, name, type))
           /\ v \in DOMAIN Mapping(Introduce(d, v, name, type), d.currentBlockName)
           /\ Introduce(d, v, name, type).variableTypes[v] = type
           /\ DOMAIN Introduce(d, v, name, type).variableTypes = DOMAIN d.variableTypes \cup {v}
           /\ Introduce(d, v, name, type).store = d.store
<1> DEFINE f == SetType(d, v, type)
           b == f.currentBlockName
           m == MapIn(f, b, v, name)
<1>1. /\ Within(d, f)
      /\ v \notin Constants => Follows(d, f)
      /\ DOMAIN f.variableTypes = DOMAIN d.variableTypes \cup {v}
      /\ f.variableTypes[v] = type
      /\ f.store = d.store
  BY SetTypeFollows
<1>2. Introduce(d, v, name, type) = m
  BY DEF Introduce, MapVariable
<1> HIDE DEF f
<1>3. Tidy(f) /\ b \in Block
  BY <1>1, RunningStays DEF Within, Running
<1>4. /\ Follows(f, m)
      /\ v \in DOMAIN Mapping(m, b)
      /\ m.variableTypes = f.variableTypes
      /\ m.store = f.store
  <2> HIDE DEF b
  <2>1. v \in Registers \cup Constants => v \in Bound(f.store)
    BY <1>1
  <2> QED BY <1>3, <2>1, MapInFollows
<1> HIDE DEF m
<1>5. Within(d, m) /\ (v \notin Constants => Follows(d, m))
  BY <1>1, <1>4, WithinTransitive, FollowsTransitive DEF Follows
<1>6. b = d.currentBlockName
  BY <1>1 DEF Within
<1> QED BY <1>1, <1>2, <1>4, <1>5, <1>6

LEMMA CreateIOMakes ==
    ASSUME NEW e, Tidy(e), Running(e), NEW v, v # NoName, NEW type, NEW constraints
    PROVE  LET r == createIOVariable(e, v, type, constraints)
           IN  /\ Within(e, r.env)
               /\ v \notin Constants \/ ~r.ok => Follows(e, r.env)
               /\ HasType(e, r, v, type)
               /\ r.ok => DOMAIN r.env.variableTypes = DOMAIN e.variableTypes \cup {v}
               /\ r.ok => v \in Bound(r.env.store)
<1> DEFINE built == Build(e, CreateBinderWithConstraints(e.store, v, type, constraints))
           r == createIOVariable(e, v, type, constraints)
<1>1. r = IF IsVariableDefined(e, v) THEN Fail(e)
          ELSE IF built.ok THEN Succeed(Introduce(built.env, v, v, type)) ELSE built
  BY DEF createIOVariable, Then, Introduce
<1>2. CASE IsVariableDefined(e, v)
  <2>1. r.env = e /\ r.ok = FALSE
    BY <1>1, <1>2 DEF Fail
  <2> QED BY <2>1, FollowsReflexive DEF Follows, HasType
<1>3. /\ Follows(e, built.env) /\ built.env.variableTypes = e.variableTypes
      /\ built.ok => v \in Bound(built.env.store)
  <2> DEFINE result == CreateBinderWithConstraints(e.store, v, type, constraints)
  <2>1. BinderMade(e.store, result, v, constraints)
    BY ConstrainedBinderCreated DEF Tidy, Shape
  <2> HIDE DEF result
  <2> QED BY <2>1, BuildFollows DEF BinderMade, result
<1> HIDE DEF built, r
<1>4. CASE ~IsVariableDefined(e, v) /\ ~built.ok
  BY <1>1, <1>3, <1>4 DEF Follows, HasType, r
<1>5. CASE ~IsVariableDefined(e, v) /\ built.ok
  <2> DEFINE d == Introduce(built.env, v, v, type)
  <2>1. r.env = d
    BY <1>1, <1>5 DEF Succeed
  <2>2. Tidy(built.env) /\ Running(built.env) /\ v \notin DOMAIN built.env.variableTypes
    BY <1>3, <1>5, RunningStays DEF Follows, Within, IsVariableDefined
  <2>3. Raw(v, v)
    BY DEF Raw
  <2>4. /\ Within(built.env, d)
        /\ v \notin Constants => Follows(built.env, d)
        /\ v \in DOMAIN Mapping(d, built.env.currentBlockName)
        /\ d.variableTypes[v] = type
        /\ DOMAIN d.variableTypes = DOMAIN built.env.variableTypes \cup {v}
    BY <1>3, <1>5, <2>2, <2>3, IntroduceMakes
  <2> HIDE DEF d
  <2>5. Within(e, d) /\ (v \notin Constants => Follows(e, d))
    BY <1>3, <2>4, WithinTransitive, FollowsTransitive DEF Follows
  <2>6. built.env.currentBlockName = e.currentBlockName
    BY <1>3 DEF Follows, Within
  <2>7. v \in Bound(d.store)
    BY <1>3, <1>5, <2>4 DEF Within, Grows, Grown
  <2> QED BY <1>1, <1>3, <1>5, <2>1, <2>4, <2>5, <2>6, <2>7 DEF HasType, Succeed, r
<1> QED BY <1>2, <1>4, <1>5

LEMMA ConstrainedFollows ==
    ASSUME NEW e, Tidy(e), NEW name, NEW type, NEW qualifiers
    PROVE  LET r == Build(e, CreateBinderWithConstraints(e.store, name, type, qualifiers))
           IN  /\ Follows(e, r.env)
               /\ r.env.variableTypes = e.variableTypes
<1>1. Grown(e.store, CreateBinderWithConstraints(e.store, name, type, qualifiers).store)
  BY ConstrainedBinderCreated DEF Tidy, Shape, BinderMade
<1> QED BY <1>1, BuildFollows

\* What is noted of a variable stays as it is.
LEMMA IOKeepsNotes ==
    ASSUME NEW e, Tidy(e), Running(e), NEW v, v # NoName, NEW type, NEW constraints
    PROVE  createIOVariable(e, v, type, constraints).env.mutableVariableConstraints
            = e.mutableVariableConstraints
<1> DEFINE built == Build(e, CreateBinderWithConstraints(e.store, v, type, constraints))
           typed == SetType(built.env, v, type)
           b == typed.currentBlockName
           d == MapIn(typed, b, v, v)
           r == createIOVariable(e, v, type, constraints)
<1>1. \/ r.env = e
      \/ r.env = d
      \/ r.env = built.env
  BY DEF createIOVariable, Then, Fail, Succeed, MapVariable
<1> HIDE DEF r
<1>2. SameBut(e, built.env, {"store"})
  BY BuildFields DEF Tidy
<1>3. /\ built.env.mutableVariableConstraints = e.mutableVariableConstraints
      /\ Follows(e, built.env)
  <2>1. Follows(e, built.env)
    BY ConstrainedFollows
  <2> HIDE DEF built
  <2> QED BY <1>2, <2>1 DEF SameBut, EnvironmentFields
<1> HIDE DEF built
<1>4. /\ typed.mutableVariableConstraints = e.mutableVariableConstraints
      /\ Shape(typed)
  BY <1>3 DEF SetType, Follows, Within, Tidy, Shape, EnvironmentFields
<1> HIDE DEF typed
<1>5. d.mutableVariableConstraints = e.mutableVariableConstraints
  <2> HIDE DEF b
  <2>1. MappedIn(typed, d, b, v, v)
    BY <1>4, MapInFields
  <2> HIDE DEF d
  <2> QED BY <1>4, <2>1 DEF MappedIn, SameBut, EnvironmentFields
<1> HIDE DEF d
<1> QED BY <1>1, <1>3, <1>5 DEF r

LEMMA CreateVariableMakes ==
    ASSUME NEW e, Tidy(e), Running(e), NEW v, v \notin Constants, NEW name, Raw(v, name), NEW type,
           v \in DOMAIN e.variableTypes => e.variableTypes[v] = type,
           NEW constraints, NEW expression
    PROVE  Made(e, createVariable(e, v, name, type, constraints, expression), v, type)
<1> DEFINE scope == getBlockBinders(e, e.currentBlockName)
           created == Build(e, CreateBinderWithUnknownType(e.store, name, type, scope))
           check == Build(created.env,
                          AddConstraint(created.env.store, <<"check", name>>, type, constraints,
                                        {expression}, scope))
           checked == IF constraints = {} THEN created
                      ELSE IF created.ok THEN check ELSE created
           assignment == Build(checked.env,
                               AddConstraintForAssignment(checked.env.store,
                                   <<"assignment", name>>, name, {expression}, scope))
           assigned == IF checked.ok THEN assignment ELSE checked
           r == createVariable(e, v, name, type, constraints, expression)
<1>1. r = IF assigned.ok THEN Succeed(Introduce(assigned.env, v, name, type)) ELSE assigned
  BY DEF createVariable, Then, Introduce
<1> HIDE DEF r
<1>2. /\ Follows(e, created.env) /\ created.env.variableTypes = e.variableTypes
      /\ created.ok => name \in Bound(created.env.store)
  <2> DEFINE result == CreateBinderWithUnknownType(e.store, name, type, scope)
  <2>1. Grown(e.store, result.store) /\ (result.ok => name \in Bound(result.store))
    <3> HIDE DEF scope
    <3> QED BY UnknownBinderCreated DEF Tidy, Shape
  <2> HIDE DEF result
  <2> QED BY <2>1, BuildFollows DEF result
<1> HIDE DEF created
<1>3. /\ Follows(e, checked.env) /\ checked.env.variableTypes = e.variableTypes
      /\ checked.ok => name \in Bound(checked.env.store)
  <2>1. Tidy(created.env)
    BY <1>2 DEF Follows, Within
  <2>2. Grown(created.env.store,
              AddConstraint(created.env.store, <<"check", name>>, type, constraints,
                            {expression}, scope).store)
    <3> HIDE DEF scope
    <3> QED BY <2>1, ConstraintAdded DEF Tidy, Shape
  <2>3. Follows(created.env, check.env) /\ check.env.variableTypes = created.env.variableTypes
    BY <2>1, <2>2, BuildFollows
  <2> HIDE DEF check
  <2>4. created.ok => name \in Bound(check.env.store)
    BY <1>2, <2>3 DEF Follows, Within, Grows, Grown
  <2> QED BY <1>2, <2>3, <2>4, FollowsTransitive
<1> HIDE DEF checked
<1>4. /\ Follows(e, assigned.env) /\ assigned.env.variableTypes = e.variableTypes
      /\ assigned.ok => name \in Bound(assigned.env.store)
  <2>1. Tidy(checked.env)
    BY <1>3 DEF Follows, Within
  <2>2. Grown(checked.env.store,
              AddConstraintForAssignment(checked.env.store, <<"assignment", name>>, name,
                                         {expression}, scope).store)
    <3> HIDE DEF scope
    <3> QED BY <2>1, AssignmentConstraintAdded DEF Tidy, Shape
  <2>3. Follows(checked.env, assignment.env) /\ assignment.env.variableTypes = checked.env.variableTypes
    BY <2>1, <2>2, BuildFollows
  <2> HIDE DEF assignment
  <2>4. checked.ok => name \in Bound(assignment.env.store)
    BY <1>3, <2>3 DEF Follows, Within, Grows, Grown
  <2> QED BY <1>3, <2>3, <2>4, FollowsTransitive
<1> HIDE DEF assigned
<1>5. CASE ~assigned.ok
  BY <1>1, <1>4, <1>5 DEF Made, HasType, r
<1>6. CASE assigned.ok
  <2> DEFINE d == Introduce(assigned.env, v, name, type)
  <2>1. r.env = d
    BY <1>1, <1>6 DEF Succeed
  <2>2. Tidy(assigned.env) /\ Running(assigned.env)
    BY <1>4, RunningStays DEF Follows, Within
  <2>6. v \in Registers \cup Constants => v \in Bound(assigned.env.store)
    BY <1>4, <1>6, RawIsItself
  <2>3. /\ Follows(assigned.env, d)
        /\ v \in DOMAIN Mapping(d, assigned.env.currentBlockName)
        /\ d.variableTypes[v] = type
        /\ DOMAIN d.variableTypes = DOMAIN assigned.env.variableTypes \cup {v}
    BY <1>4, <2>2, <2>6, IntroduceMakes
  <2> HIDE DEF d
  <2>4. Follows(e, d)
    BY <1>4, <2>3, FollowsTransitive
  <2>5. assigned.env.currentBlockName = e.currentBlockName
    BY <1>4 DEF Follows, Within
  <2> QED BY <2>1, <2>3, <2>4, <2>5 DEF Made, HasType, r
<1> QED BY <1>5, <1>6

LEMMA CreateImmutableMakes ==
    ASSUME NEW e, Tidy(e), Running(e), NEW v, v \notin Constants, v # NoName, NEW type,
           NEW constraints, NEW expression
    PROVE  Made(e, CreateImmutableVariable(e, v, type, constraints, expression), v, type)
<1>1. CASE IsVariableDefined(e, v)
  BY <1>1, FollowsReflexive DEF CreateImmutableVariable, Fail, Made, HasType
<1>2. CASE ~IsVariableDefined(e, v)
  BY <1>2, CreateVariableMakes DEF CreateImmutableVariable, IsVariableDefined, Raw
<1> QED BY <1>1, <1>2

LEMMA PutElsewhere ==
    ASSUME NEW m, NEW x, NEW value, NEW y \in DOMAIN m, x # y
    PROVE  y \in DOMAIN Put(m, x, value) /\ Put(m, x, value)[y] = m[y]
BY DEF Put

\* What is noted of a variable before it is created.
LEMMA NoteFollows ==
    ASSUME NEW e, Tidy(e), NEW v, NEW constraints,
           v = Return => Return \notin DOMAIN e.variableTypes
    PROVE  /\ v \in ResultNames =>
                Follows(e, [e EXCEPT !.mutableVariableConstraints = Put(@, v, constraints),
                                     !.outputVariables = @ \cup {v}])
           /\ v \in Cells =>
                Follows(e, [e EXCEPT !.mutableVariableConstraints = Put(@, v, constraints),
                                     !.mutableVariables = @ \cup {v}])
<1> DEFINE note == Put(e.mutableVariableConstraints, v, constraints)
<1>3. Return \in DOMAIN e.variableTypes /\ Return \in DOMAIN e.mutableVariableConstraints =>
        Return \in DOMAIN note /\ note[Return] = e.mutableVariableConstraints[Return]
  BY PutElsewhere
<1> HIDE DEF note
<1>1. ASSUME v \in ResultNames
      PROVE  Follows(e, [e EXCEPT !.mutableVariableConstraints = note,
                                  !.outputVariables = @ \cup {v}])
  <2> DEFINE d == [e EXCEPT !.mutableVariableConstraints = note,
                            !.outputVariables = @ \cup {v}]
  <2>1. /\ Shape(d)
        /\ d.mutableVariables = e.mutableVariables
        /\ d.outputVariables = e.outputVariables \cup {v}
        /\ d.phiNodeObligations = e.phiNodeObligations
        /\ d.variablesMappingsPerBlock = e.variablesMappingsPerBlock
        /\ d.variablesValuesPerBlock = e.variablesValuesPerBlock
        /\ d.variableTypes = e.variableTypes
        /\ d.currentBlockName = e.currentBlockName
        /\ d.finishedBlocks = e.finishedBlocks
        /\ d.mutableVariableConstraints = note
        /\ d.store = e.store
    BY DEF Tidy, Shape, EnvironmentFields
  <2> HIDE DEF d
  <2>2. d.outputVariables \subseteq ResultNames
    BY <1>1, <2>1 DEF Tidy
  <2>3. Follows(e, d)
    BY <1>3, <2>1, <2>2, UntouchedFollows, GrownReflexive DEF Tidy, Shape, SameResult
  <2> QED BY <2>3 DEF d
<1>2. ASSUME v \in Cells
      PROVE  Follows(e, [e EXCEPT !.mutableVariableConstraints = note,
                                  !.mutableVariables = @ \cup {v}])
  <2> DEFINE d == [e EXCEPT !.mutableVariableConstraints = note,
                            !.mutableVariables = @ \cup {v}]
  <2>1. /\ Shape(d)
        /\ d.outputVariables = e.outputVariables
        /\ d.mutableVariables = e.mutableVariables \cup {v}
        /\ d.phiNodeObligations = e.phiNodeObligations
        /\ d.variablesMappingsPerBlock = e.variablesMappingsPerBlock
        /\ d.variablesValuesPerBlock = e.variablesValuesPerBlock
        /\ d.variableTypes = e.variableTypes
        /\ d.currentBlockName = e.currentBlockName
        /\ d.finishedBlocks = e.finishedBlocks
        /\ d.mutableVariableConstraints = note
        /\ d.store = e.store
    BY DEF Tidy, Shape, EnvironmentFields
  <2> HIDE DEF d
  <2>2. d.mutableVariables \subseteq Cells
    BY <1>2, <2>1 DEF Tidy
  <2>3. Follows(e, d)
    BY <1>3, <2>1, <2>2, UntouchedFollows, GrownReflexive DEF Tidy, Shape, SameResult
  <2> QED BY <2>3 DEF d
<1> QED BY <1>1, <1>2 DEF note

LEMMA CreateOutputMakes ==
    ASSUME NEW e, Tidy(e), Running(e), NEW v \in ResultNames, NEW type, NEW constraints,
           v = Return => Return \notin DOMAIN e.variableTypes
    PROVE  LET r == CreateMutableOutputVariable(e, v, type, constraints)
           IN  /\ Made(e, r, v, type)
               /\ r.ok => DOMAIN r.env.variableTypes = DOMAIN e.variableTypes \cup {v}
<1> DEFINE d == [e EXCEPT !.mutableVariableConstraints = Put(@, v, constraints),
                          !.outputVariables = @ \cup {v}]
           r == createIOVariable(d, v, type, constraints)
<1>1. Follows(e, d)
  BY NoteFollows, Zenon
<1>2. CreateMutableOutputVariable(e, v, type, constraints) = r
  BY DEF CreateMutableOutputVariable
<1>3. d.variableTypes = e.variableTypes
  BY DEF Tidy, Shape, EnvironmentFields
<1> HIDE DEF d
<1>4. /\ Follows(d, r.env)
      /\ HasType(d, r, v, type)
      /\ r.ok => DOMAIN r.env.variableTypes = DOMAIN d.variableTypes \cup {v}
  BY <1>1, NamesApart, RunningStays, CreateIOMakes DEF Follows, Within
<1> HIDE DEF r
<1>5. Follows(e, r.env) /\ d.currentBlockName = e.currentBlockName
  BY <1>1, <1>4, FollowsTransitive DEF Follows, Within
<1> QED BY <1>2, <1>3, <1>4, <1>5 DEF Made, HasType

LEMMA CreateMutableMakes ==
    ASSUME NEW e, Tidy(e), Running(e), NEW v \in Cells, NEW type, NEW constraints, NEW expression
    PROVE  Made(e, CreateMutableVariable(e, v, type, constraints, expression), v, type)
<1> DEFINE d == [e EXCEPT !.mutableVariableConstraints = Put(@, v, constraints),
                          !.mutableVariables = @ \cup {v}]
           r == createVariable(d, v, v, type, constraints, expression)
<1>1. CASE IsVariableDefined(e, v)
  BY <1>1, FollowsReflexive DEF CreateMutableVariable, Fail, Made, HasType
<1>2. CASE ~IsVariableDefined(e, v)
  <2>6. v # Return
    BY NamesApart DEF ResultNames
  <2>1. Follows(e, d)
    BY <2>6, NoteFollows, Zenon
  <2>2. CreateMutableVariable(e, v, type, constraints, expression) = r
    BY <1>2 DEF CreateMutableVariable
  <2>3. v \notin DOMAIN d.variableTypes
    BY <1>2 DEF IsVariableDefined, Tidy, Shape, EnvironmentFields
  <2> HIDE DEF d
  <2>4. Made(d, r, v, type)
    BY <2>1, <2>3, NamesApart, RunningStays, CreateVariableMakes DEF Follows, Within, Raw
  <2> HIDE DEF r
  <2>5. Follows(e, r.env)
    BY <2>1, <2>4, FollowsTransitive DEF Made
  <2> QED BY <2>1, <2>2, <2>4, <2>5 DEF Made, HasType, Follows, Within
<1> QED BY <1>1, <1>2

\* The result of the function and cells are assigned; what else is not refused
\* is the result of a callee, which nothing assigns.
LEMMA AssignFollows ==
    ASSUME NEW e, Tidy(e), Running(e), NEW v, NEW expression,
           Versioned(v) \/ v \notin ResultNames \cup Cells
    PROVE  Follows(e, AssignMutableVariable(e, v, expression).env)
<1>1. CASE v \notin e.outputVariables \cup e.mutableVariables
  BY <1>1, FollowsReflexive DEF AssignMutableVariable, Fail
<1>2. CASE v \in e.outputVariables \cup e.mutableVariables
  <2> DEFINE d == CountVersion(e, v)
             name == getNextVariableName(e, v)
             constraints == e.mutableVariableConstraints[v]
             r == createVariable(d, v, name, e.variableTypes[v], constraints, expression)
  <2>1. Follows(e, d) /\ d.variableTypes = e.variableTypes
    BY CountVersionFollows
  <2>2. AssignMutableVariable(e, v, expression) = r
    BY <1>2 DEF AssignMutableVariable
  <2>3. Versioned(v) /\ v \notin Constants /\ v # NoName
    BY <1>2, NamesApart DEF Tidy
  <2> HIDE DEF d, name, constraints
  <2>4. Follows(d, r.env)
    BY <2>1, <2>3, RunningStays, CreateVariableMakes DEF Follows, Within, Made, Raw
  <2> HIDE DEF r
  <2> QED BY <2>1, <2>2, <2>4, FollowsTransitive
<1> QED BY <1>1, <1>2

LEMMA JumpFollows ==
    ASSUME NEW e, Tidy(e), NEW target
    PROVE  Follows(e, AddJumpInformation(e, target).env)
BY ConstrainedFollows DEF AddJumpInformation

LEMMA BranchFollows ==
    ASSUME NEW e, Tidy(e), NEW v, NEW target
    PROVE  Follows(e, AddBranchInformation(e, v, target).env)
<1> DEFINE built == Build(e, CreateBinderWithConstraints(e.store,
                                TransitionGuard(e.currentBlockName, target), "bool", {Over({v})}))
<1>1. \/ AddBranchInformation(e, v, target) = Fail(e)
      \/ AddBranchInformation(e, v, target) = built
  BY DEF AddBranchInformation
<1>2. Follows(e, built.env)
  BY ConstrainedFollows
<1> HIDE DEF built
<1>3. Follows(e, Fail(e).env)
  BY FollowsReflexive DEF Fail
<1> QED BY <1>1, <1>2, <1>3

--------------------------------------------------------------------------------
\* The loops.  Each is given as an instance of LoopTheorems: what one iteration
\* does in a context k, and what holds when the elements in s are done.

LEMMA BlocksSmallest ==
    ASSUME NEW S \in SUBSET Block
    PROVE  SomeSmallest(S)
BY BlockAssumption, FS_Subset, FiniteSmallest

\* An input variable comes into scope in the blocks that have a mapping.
ShareInput(k, d, b) == Succeed(MapIn(d, b, k.v, k.v))

InputShared(k, s, r) ==
    /\ Within(k.start, r.env)
    /\ r.ok
    /\ r.env.variableTypes = k.start.variableTypes
    /\ r.env.store = k.start.store
    /\ \A b \in s : k.v \in DOMAIN Mapping(r.env, b)

InputLoop == INSTANCE LoopTheorems WITH Iteration <- ShareInput, Invariant <- InputShared

LEMMA InputLoopIs ==
    ASSUME NEW S, NEW d, NEW v
    PROVE  ForEach(S, Succeed(d), LAMBDA f, b : Succeed(MapIn(f, b, v, v)))
            = InputLoop!Results([v |-> v, start |-> d], S, Succeed(d))[S]
BY DEF ForEach, FoldSet, MapThenFoldSet, InputLoop!Results, ShareInput

LEMMA AllInputsShared ==
    ASSUME NEW k, k.v # NoName, k.v \in Bound(k.start.store), NEW S \in SUBSET Block, Tidy(k.start), NEW r, r = Succeed(k.start)
    PROVE  InputShared(k, S, InputLoop!Results(k, S, r)[S])
<1>1. InputShared(k, {}, r)
  BY WithinReflexive DEF InputShared, Succeed
<1>2. ASSUME NEW s \in SUBSET S, NEW b \in s, NEW q, InputShared(k, s \ {b}, q)
      PROVE  InputShared(k, s, IF q.ok THEN ShareInput(k, q.env, b) ELSE q)
  <2> DEFINE d == MapIn(q.env, b, k.v, k.v)
  <2>1. b \in Block /\ Tidy(q.env) /\ Raw(k.v, k.v) /\ k.v \in Bound(q.env.store)
    BY <1>2 DEF InputShared, Within, Raw
  <2>2. /\ Follows(q.env, d)
        /\ d.variableTypes = q.env.variableTypes
        /\ d.store = q.env.store
        /\ k.v \in DOMAIN Mapping(d, b)
    BY <2>1, MapInFollows
  <2> HIDE DEF d
  <2>3. Within(k.start, d)
    BY <1>2, <2>2, WithinTransitive DEF InputShared, Follows
  <2>4. ASSUME NEW c \in s  PROVE k.v \in DOMAIN Mapping(d, c)
    BY <1>2, <2>2 DEF InputShared, Follows, Within, Grows
  <2>5. InputShared(k, s, Succeed(d))
    BY <1>2, <2>2, <2>3, <2>4 DEF InputShared, Succeed
  <2> QED BY <1>2, <2>5 DEF InputShared, ShareInput, d
<1>3. InputLoop!Inductive(S)
  BY BlocksSmallest DEF SomeSmallest, InputLoop!Inductive
<1> QED BY <1>1, <1>2, <1>3, InputLoop!LoopInvariant

LEMMA CreateInputMakes ==
    ASSUME NEW e, Tidy(e), Running(e), NEW v, v # NoName, NEW type, NEW constraints
    PROVE  LET r == CreateImmutableInputVariable(e, v, type, constraints)
               io == createIOVariable(e, v, type, constraints)
           IN  /\ Made(e, r, v, type)
               /\ r.ok = io.ok /\ r.env.store = io.env.store
               /\ r.env.variableTypes = io.env.variableTypes
<1> DEFINE io == createIOVariable(e, v, type, constraints)
           d == io.env
           S == {b \in DOMAIN d.variablesMappingsPerBlock : v \notin DOMAIN Mapping(d, b)}
           k == [v |-> v, start |-> d]
           q == InputLoop!Results(k, S, Succeed(d))[S]
           r == CreateImmutableInputVariable(e, v, type, constraints)
<1>1. r = IF io.ok THEN q ELSE io
  BY InputLoopIs DEF CreateImmutableInputVariable, Then
<1>2. /\ Within(e, d)
      /\ ~io.ok => Follows(e, d)
      /\ HasType(e, io, v, type)
      /\ io.ok => DOMAIN d.variableTypes = DOMAIN e.variableTypes \cup {v}
      /\ io.ok => v \in Bound(d.store)
  BY CreateIOMakes
<1> HIDE DEF io, q, r
<1>3. CASE ~io.ok
  BY <1>1, <1>2, <1>3 DEF Made, HasType, r, io
<1>4. CASE io.ok
  <2>1. Tidy(d) /\ S \subseteq Block /\ k.start = d /\ k.v = v /\ v \in Bound(d.store)
    BY <1>2, <1>4 DEF Within, Tidy
  <2>2. InputShared(k, S, q)
    <3> HIDE DEF k, S, d
    <3> QED BY <2>1, AllInputsShared DEF q
  <2> HIDE DEF k, d
  <2>3. /\ Within(d, q.env) /\ q.ok /\ q.env.variableTypes = d.variableTypes
        /\ q.env.store = d.store
        /\ \A b \in S : v \in DOMAIN Mapping(q.env, b)
    BY <2>1, <2>2 DEF InputShared
  <2>4. Within(e, q.env)
    BY <1>2, <2>3, WithinTransitive
  <2>5. Seen(e, q.env)
    <3> SUFFICES ASSUME NEW b \in Block,
                        b \in DOMAIN e.variablesMappingsPerBlock \/ b = e.currentBlockName
                 PROVE  v \in DOMAIN Mapping(q.env, b)
      BY <1>2, <1>4, <2>3 DEF Seen
    <3>1. CASE v \in DOMAIN Mapping(d, b)
      BY <3>1, <2>3 DEF Within, Grows
    <3>2. CASE v \notin DOMAIN Mapping(d, b)
      <4>1. b # e.currentBlockName
        BY <1>2, <1>4, <3>2 DEF HasType, d
      <4>2. b \in DOMAIN d.variablesMappingsPerBlock
        BY <1>2, <4>1 DEF Within, Grows
      <4> QED BY <2>3, <3>2, <4>2
    <3> QED BY <3>1, <3>2
  <2>6. v \in DOMAIN Mapping(q.env, e.currentBlockName)
    BY <1>2, <1>4, <2>3 DEF HasType, Within, Grows, Running, d
  <2> QED BY <1>1, <1>2, <1>4, <2>3, <2>4, <2>5, <2>6 DEF Made, HasType, Follows, r, d, io
<1> QED BY <1>3, <1>4

--------------------------------------------------------------------------------
LEMMA FlowFollows ==
    ASSUME NEW e, NEW d, Tidy(d), NEW g, NEW mapped, NEW sources, NEW p
    PROVE  Follows(d, flowFrom(g, e, mapped, sources, d, p).env)
<1> DEFINE b == e.currentBlockName
           value == IF sources[p] \in DOMAIN Mapping(e, p) THEN Mapping(e, p)[sources[p]]
                    ELSE sources[p]
           scope == getBlockBinders(e, p) \cup {TransitionGuard(p, b), PhiGuard(mapped, p), sources[p]}
           guard == Build(d, CreateBinderWithConstraints(d.store, PhiGuard(mapped, p), "bool",
                        {Over(GuardNames(g, p) \cup {TransitionGuard(p, b)})}))
           flow == Build(guard.env, AddConstraintForAssignment(guard.env.store,
                        <<"phi", p, b, mapped>>, mapped, {Over({value})}, scope))
           r == flowFrom(g, e, mapped, sources, d, p)
<1>1. r = IF guard.ok THEN flow ELSE guard
  BY DEF flowFrom, Then
<1>2. Follows(d, guard.env)
  BY ConstrainedFollows
<1> HIDE DEF guard, scope, value, b, r
<1>3. Tidy(guard.env)
  BY <1>2 DEF Follows, Within
<1>4. Grown(guard.env.store,
            AddConstraintForAssignment(guard.env.store, <<"phi", p, b, mapped>>, mapped,
                                       {Over({value})}, scope).store)
  BY <1>3, AssignmentConstraintAdded DEF Tidy, Shape
<1>5. Follows(guard.env, flow.env)
  BY <1>3, <1>4, BuildFollows
<1> HIDE DEF flow
<1>6. Follows(d, flow.env)
  BY <1>2, <1>5, FollowsTransitive
<1> QED BY <1>1, <1>2, <1>6 DEF r

\* The sources of a phi node flow into it.
FlowIn(k, d, p) == flowFrom(k.succ, k.env, k.mapped, k.sources, d, p)

FlowsBuilt(k, s, r) ==
    /\ Follows(k.env, r.env)
    /\ r.ok => k.mapped \in Bound(r.env.store)

FlowLoop == INSTANCE LoopTheorems WITH Iteration <- FlowIn, Invariant <- FlowsBuilt

LEMMA AllFlowsBuilt ==
    ASSUME NEW k, NEW S \in SUBSET Block, NEW r, Follows(k.env, r.env),
           r.ok => k.mapped \in Bound(r.env.store)
    PROVE  FlowsBuilt(k, S, FlowLoop!Results(k, S, r)[S])
<1>1. FlowsBuilt(k, {}, r)
  BY DEF FlowsBuilt
<1>2. ASSUME NEW s \in SUBSET S, NEW p \in s, NEW q, FlowsBuilt(k, s \ {p}, q)
      PROVE  FlowsBuilt(k, s, IF q.ok THEN FlowIn(k, q.env, p) ELSE q)
  <2> DEFINE f == FlowIn(k, q.env, p)
  <2>1. Tidy(q.env)
    BY <1>2 DEF FlowsBuilt, Follows, Within
  <2>2. Follows(q.env, f.env)
    BY <2>1, FlowFollows DEF FlowIn
  <2> HIDE DEF f
  <2>3. Follows(k.env, f.env)
    BY <1>2, <2>2, FollowsTransitive DEF FlowsBuilt
  <2>4. q.ok => k.mapped \in Bound(f.env.store)
    BY <1>2, <2>2 DEF FlowsBuilt, Follows, Within, Grows, Grown
  <2> QED BY <1>2, <2>3, <2>4 DEF FlowsBuilt, f
<1>3. FlowLoop!Inductive(S)
  BY BlocksSmallest DEF SomeSmallest, FlowLoop!Inductive
<1> QED BY <1>1, <1>2, <1>3, FlowLoop!LoopInvariant

\* The result r of making variable v visible in the current block of e.
Mapped(e, r, v) ==
    /\ Follows(e, r.env)
    /\ r.ok => v \in DOMAIN Mapping(r.env, e.currentBlockName)

LEMMA MapVariableFollows ==
    ASSUME NEW e, Tidy(e), Running(e), NEW v, NEW name, Raw(v, name),
           v \in Registers \cup Constants => v \in Bound(e.store)
    PROVE  /\ Follows(e, MapVariable(e, v, name))
           /\ v \in DOMAIN Mapping(MapVariable(e, v, name), e.currentBlockName)
           /\ MapVariable(e, v, name).variableTypes = e.variableTypes
<1> DEFINE b == e.currentBlockName
<1>1. b \in Block
  BY DEF Running
<1> HIDE DEF b
<1>2. /\ Follows(e, MapIn(e, b, v, name))
      /\ v \in DOMAIN Mapping(MapIn(e, b, v, name), b)
      /\ MapIn(e, b, v, name).variableTypes = e.variableTypes
  BY <1>1, MapInFollows
<1> QED BY <1>2 DEF MapVariable, b

LEMMA PhiNodeMapped ==
    ASSUME NEW e, Tidy(e), Running(e), NEW variable, NEW mapped, Raw(variable, mapped),
           NEW sources, DOMAIN sources \subseteq Block, NEW g, NEW type
    PROVE  Mapped(e, createPhiNodeWithoutCreatedBinders(g, e, variable, mapped, type, sources),
                  variable)
<1> DEFINE S == DOMAIN sources
           scope == getBlockBinders(e, e.currentBlockName)
           created == Build(e, CreateBinderWithUnknownType(e.store, mapped, type, scope))
           k == [succ |-> g, env |-> e, mapped |-> mapped, sources |-> sources]
           flows == FlowLoop!Results(k, S, created)[S]
           r == createPhiNodeWithoutCreatedBinders(g, e, variable, mapped, type, sources)
<1>1. r = IF flows.ok THEN Succeed(MapVariable(flows.env, variable, mapped)) ELSE flows
  <2>1. ForEach(S, created, LAMBDA d, p : flowFrom(g, e, mapped, sources, d, p)) = flows
    <3> HIDE DEF created
    <3> QED BY DEF ForEach, FoldSet, MapThenFoldSet, FlowLoop!Results, FlowIn
  <2> HIDE DEF flows
  <2> QED BY <2>1 DEF createPhiNodeWithoutCreatedBinders, Then
<1> HIDE DEF r
<1>2. Follows(e, created.env) /\ (created.ok => mapped \in Bound(created.env.store))
  <2> DEFINE result == CreateBinderWithUnknownType(e.store, mapped, type, scope)
  <2>1. Grown(e.store, result.store) /\ (result.ok => mapped \in Bound(result.store))
    <3> HIDE DEF scope
    <3> QED BY UnknownBinderCreated DEF Tidy, Shape
  <2> HIDE DEF result
  <2> QED BY <2>1, BuildFollows DEF result
<1>3. k.env = e /\ k.mapped = mapped
  OBVIOUS
<1>4. Follows(e, flows.env) /\ (flows.ok => mapped \in Bound(flows.env.store))
  <2> HIDE DEF k, created
  <2>1. FlowsBuilt(k, S, flows)
    BY <1>2, <1>3, AllFlowsBuilt
  <2> QED BY <1>3, <2>1 DEF FlowsBuilt
<1> HIDE DEF flows
<1>5. CASE ~flows.ok
  BY <1>1, <1>4, <1>5 DEF Mapped, r
<1>6. CASE flows.ok
  <2> DEFINE d == MapVariable(flows.env, variable, mapped)
  <2>1. Tidy(flows.env) /\ Running(flows.env) /\ flows.env.currentBlockName = e.currentBlockName
    BY <1>4, RunningStays DEF Follows, Within
  <2>2. /\ Follows(flows.env, d)
        /\ variable \in DOMAIN Mapping(d, e.currentBlockName)
    <3>1. variable \in Registers \cup Constants => variable \in Bound(flows.env.store)
      BY <1>4, <1>6, RawIsItself
    <3> QED BY <2>1, <3>1, MapVariableFollows
  <2>3. r.env = d
    BY <1>1, <1>6 DEF Succeed
  <2> HIDE DEF d
  <2>4. Follows(e, d)
    BY <1>4, <2>2, FollowsTransitive
  <2> QED BY <2>2, <2>3, <2>4 DEF Mapped, r
<1> QED BY <1>5, <1>6

\* The missing sources of a phi node are promised.
PromiseSource(k, d, p) == Build(d, CreateFutureBinder(d.store, k.sources[p], k.type))

SourcesPromised(k, s, r) == Follows(k.env, r.env)

PromiseLoop == INSTANCE LoopTheorems WITH Iteration <- PromiseSource, Invariant <- SourcesPromised

LEMMA PromiseFollows ==
    ASSUME NEW d, Tidy(d), NEW name, NEW type
    PROVE  /\ Follows(d, Build(d, CreateFutureBinder(d.store, name, type)).env)
           /\ Build(d, CreateFutureBinder(d.store, name, type)).env.variableTypes = d.variableTypes
<1>1. Grown(d.store, CreateFutureBinder(d.store, name, type).store)
  BY FutureBinderCreated DEF Tidy, Shape
<1> QED BY <1>1, BuildFollows

LEMMA AllSourcesPromised ==
    ASSUME NEW k, NEW S \in SUBSET Block, Tidy(k.env), NEW r, r = Succeed(k.env)
    PROVE  SourcesPromised(k, S, PromiseLoop!Results(k, S, r)[S])
<1>1. SourcesPromised(k, {}, r)
  BY FollowsReflexive DEF SourcesPromised, Succeed
<1>2. ASSUME NEW s \in SUBSET S, NEW p \in s, NEW q, SourcesPromised(k, s \ {p}, q)
      PROVE  SourcesPromised(k, s, IF q.ok THEN PromiseSource(k, q.env, p) ELSE q)
  <2> DEFINE f == PromiseSource(k, q.env, p)
  <2>1. Tidy(q.env)
    BY <1>2 DEF SourcesPromised, Follows, Within
  <2>2. Follows(q.env, f.env)
    BY <2>1, PromiseFollows DEF PromiseSource
  <2> HIDE DEF f
  <2>3. Follows(k.env, f.env)
    BY <1>2, <2>2, FollowsTransitive DEF SourcesPromised
  <2> QED BY <1>2, <2>3 DEF SourcesPromised, f
<1>3. PromiseLoop!Inductive(S)
  BY BlocksSmallest DEF SomeSmallest, PromiseLoop!Inductive
<1> QED BY <1>1, <1>2, <1>3, PromiseLoop!LoopInvariant

LEMMA PhiNodeInternalMapped ==
    ASSUME NEW e, Tidy(e), Running(e), NEW variable, NEW mapped, Raw(variable, mapped),
           NEW sources, DOMAIN sources \subseteq Block, NEW g, NEW type
    PROVE  Mapped(e, createPhiNodeInternal(g, e, variable, mapped, type, sources), variable)
<1> DEFINE S == {p \in DOMAIN sources : sources[p] \notin DOMAIN Mapping(e, p)}
           k == [env |-> e, sources |-> sources, type |-> type]
           promised == PromiseLoop!Results(k, S, Succeed(e))[S]
           d == promised.env
           phi == createPhiNodeWithoutCreatedBinders(g, d, variable, mapped, type, sources)
           r == createPhiNodeInternal(g, e, variable, mapped, type, sources)
<1>1. r = IF promised.ok THEN phi ELSE promised
  <2>1. ForEach(S, Succeed(e), LAMBDA f, p : Build(f, CreateFutureBinder(f.store, sources[p], type)))
          = promised
    BY DEF ForEach, FoldSet, MapThenFoldSet, PromiseLoop!Results, PromiseSource
  <2> HIDE DEF promised
  <2> QED BY <2>1 DEF createPhiNodeInternal, Then
<1> HIDE DEF r
<1>2. k.env = e /\ S \subseteq Block
  OBVIOUS
<1>3. Follows(e, d)
  <2> HIDE DEF k, S
  <2>1. SourcesPromised(k, S, promised)
    BY <1>2, AllSourcesPromised
  <2> HIDE DEF promised
  <2> QED BY <1>2, <2>1 DEF SourcesPromised
<1> HIDE DEF promised
<1>4. CASE ~promised.ok
  BY <1>1, <1>3, <1>4 DEF Mapped, r
<1>5. CASE promised.ok
  <2>1. Tidy(d) /\ Running(d) /\ d.currentBlockName = e.currentBlockName
    BY <1>3, RunningStays DEF Follows, Within
  <2> HIDE DEF d
  <2>2. Mapped(d, phi, variable)
    BY <2>1, PhiNodeMapped
  <2> HIDE DEF phi
  <2>3. Follows(e, phi.env)
    BY <1>3, <2>2, FollowsTransitive DEF Mapped
  <2> QED BY <1>1, <1>5, <2>1, <2>2, <2>3 DEF Mapped, r
<1> QED BY <1>4, <1>5

--------------------------------------------------------------------------------
\* What a block takes over from its predecessors.

LEMMA OweFollows ==
    ASSUME NEW e, Tidy(e), NEW blocks, NEW v \in Variable
    PROVE  /\ Follows(e, owe(e, blocks, v))
           /\ owe(e, blocks, v).variableTypes = e.variableTypes
<1> DEFINE owes == [b \in Block |->
                IF b \in blocks
                THEN Append(e.phiNodeObligations[b],
                            [VariableSource |-> v, TargetFutureVariable |-> FuturePhi(b, v)])
                ELSE e.phiNodeObligations[b]]
           d == [e EXCEPT !.phiNodeObligations = owes]
<1>1. owe(e, blocks, v) = d
  BY DEF owe
<1>2. owes \in [Block -> Seq(Obligations)]
  <2> SUFFICES ASSUME NEW b \in Block  PROVE owes[b] \in Seq(Obligations)
    OBVIOUS
  <2>1. e.phiNodeObligations[b] \in Seq(Obligations)
    BY DEF Tidy
  <2>2. [VariableSource |-> v, TargetFutureVariable |-> FuturePhi(b, v)] \in Obligations
    BY DEF Obligations
  <2> QED BY <2>1, <2>2
<1> HIDE DEF owes
<1>3. /\ Shape(d)
      /\ d.phiNodeObligations = owes
      /\ d.mutableVariables = e.mutableVariables
      /\ d.outputVariables = e.outputVariables
      /\ d.variablesMappingsPerBlock = e.variablesMappingsPerBlock
      /\ d.variablesValuesPerBlock = e.variablesValuesPerBlock
      /\ d.mutableVariableConstraints = e.mutableVariableConstraints
      /\ d.store = e.store
      /\ d.variableTypes = e.variableTypes
      /\ d.currentBlockName = e.currentBlockName
      /\ d.finishedBlocks = e.finishedBlocks
  BY DEF Tidy, Shape, EnvironmentFields
<1> HIDE DEF d
<1>4. Follows(e, d)
  BY <1>2, <1>3, UntouchedFollows, GrownReflexive DEF Tidy, Shape, SameResult
<1> QED BY <1>1, <1>3, <1>4

\* A phi node for a cell of the finished predecessor p.
AnticipatePhi(k, d, v) == anticipatePhi(k.succ, d, k.p, k.unfinished, v)

LEMMA CellsAreVariables == Cells \subseteq Variable
BY VariableAssumption DEF Cells, Names

LEMMA AnticipatePhiMapped ==
    ASSUME NEW d, Tidy(d), Running(d), NEW v \in Cells,
           NEW k, k.unfinished \subseteq Block, k.p \in Block
    PROVE  Mapped(d, AnticipatePhi(k, d, v), v)
<1> DEFINE d1 == owe(d, k.unfinished, v)
           d2 == CountVersion(d1, v)
           mapped == getNextVariableName(d, v)
           sources == [b \in {k.p} \cup k.unfinished |-> IF b = k.p THEN v ELSE FuturePhi(b, v)]
           r == createPhiNodeInternal(k.succ, d2, v, mapped, d.variableTypes[v], sources)
<1>1. Follows(d, d1)
  BY CellsAreVariables, OweFollows
<1> HIDE DEF d1
<1>2. Follows(d, d2)
  <2>1. Tidy(d1)
    BY <1>1 DEF Follows, Within
  <2>2. Follows(d1, d2)
    BY <2>1, CountVersionFollows
  <2> HIDE DEF d2
  <2> QED BY <1>1, <2>2, FollowsTransitive
<1>3. DOMAIN sources \subseteq Block
  OBVIOUS
<1>4. AnticipatePhi(k, d, v) = r
  BY DEF AnticipatePhi, anticipatePhi, d1
<1> HIDE DEF sources, d2, mapped
<1>5. Tidy(d2) /\ Running(d2) /\ d2.currentBlockName = d.currentBlockName /\ Raw(v, mapped)
  BY <1>2, RunningStays, NamesApart DEF Follows, Within, Raw
<1>6. Mapped(d2, r, v)
  BY <1>3, <1>5, PhiNodeInternalMapped
<1> HIDE DEF r
<1>7. Follows(d, r.env)
  BY <1>2, <1>6, FollowsTransitive DEF Mapped
<1> QED BY <1>4, <1>5, <1>6, <1>7 DEF Mapped

\* The loops below make every variable of their set visible in the current block.
AllMapped(k, s, r) ==
    /\ Follows(k.env, r.env)
    /\ r.ok => \A v \in s : v \in DOMAIN Mapping(r.env, k.env.currentBlockName)

\* One more variable is visible after a step that succeeds.
LEMMA MoreMapped ==
    ASSUME NEW k, Running(k.env), NEW s, NEW v \in s, NEW q, AllMapped(k, s \ {v}, q), q.ok,
           NEW f, Mapped(q.env, f, v)
    PROVE  AllMapped(k, s, f)
<1>1. Follows(k.env, f.env)
  BY FollowsTransitive DEF AllMapped, Mapped
<1>2. q.env.currentBlockName = k.env.currentBlockName
  BY DEF AllMapped, Follows, Within
<1>3. ASSUME f.ok, NEW w \in s
      PROVE  w \in DOMAIN Mapping(f.env, k.env.currentBlockName)
  <2>1. CASE w = v
    BY <1>2, <1>3, <2>1 DEF Mapped
  <2>2. CASE w # v
    <3>1. w \in DOMAIN Mapping(q.env, k.env.currentBlockName)
      BY <2>2 DEF AllMapped
    <3> QED BY <3>1 DEF Mapped, Follows, Within, Grows, Running
  <2> QED BY <2>1, <2>2
<1> QED BY <1>1, <1>3 DEF AllMapped

LEMMA NothingMapped ==
    ASSUME NEW k, Tidy(k.env)
    PROVE  AllMapped(k, {}, Succeed(k.env))
BY FollowsReflexive DEF AllMapped, Succeed

LEMMA StillRunning ==
    ASSUME NEW k, Running(k.env), NEW s, NEW q, AllMapped(k, s, q)
    PROVE  Tidy(q.env) /\ Running(q.env)
BY RunningStays DEF AllMapped, Follows, Within

AnticipateLoop == INSTANCE LoopTheorems WITH Iteration <- AnticipatePhi, Invariant <- AllMapped

LEMMA AllAnticipated ==
    ASSUME NEW k, Tidy(k.env), Running(k.env), k.unfinished \subseteq Block, k.p \in Block,
           NEW S \in SUBSET Cells, IsFiniteSet(S), NEW r, r = Succeed(k.env)
    PROVE  AllMapped(k, S, AnticipateLoop!Results(k, S, r)[S])
<1>1. AllMapped(k, {}, r)
  BY NothingMapped
<1>2. ASSUME NEW s \in SUBSET S, NEW v \in s, NEW q, AllMapped(k, s \ {v}, q)
      PROVE  AllMapped(k, s, IF q.ok THEN AnticipatePhi(k, q.env, v) ELSE q)
  <2>1. CASE ~q.ok
    BY <1>2, <2>1 DEF AllMapped
  <2>2. CASE q.ok
    <3> DEFINE f == AnticipatePhi(k, q.env, v)
    <3>1. Tidy(q.env) /\ Running(q.env) /\ v \in Cells
      BY <1>2, StillRunning
    <3>2. Mapped(q.env, f, v)
      BY <3>1, AnticipatePhiMapped
    <3> HIDE DEF f
    <3>3. AllMapped(k, s, f)
      BY <1>2, <2>2, <3>2, MoreMapped
    <3> QED BY <2>2, <3>3 DEF f
  <2> QED BY <2>1, <2>2
<1>3. AnticipateLoop!Inductive(S)
  BY FiniteSmallest DEF SomeSmallest, AnticipateLoop!Inductive
<1> QED BY <1>1, <1>2, <1>3, AnticipateLoop!LoopInvariant

\* A block has a variable of the finished predecessor p.
ShareFinished(k, d, t) == share(d, k.p, t[1], t[2])

FinishedShared(k, s, r) ==
    /\ r.ok
    /\ Follows(k.env, r.env)
    /\ \A t \in s : t[2] \in DOMAIN Mapping(r.env, t[1])

ShareLoop == INSTANCE LoopTheorems WITH Iteration <- ShareFinished, Invariant <- FinishedShared

LEMMA AllFinishedShared ==
    ASSUME NEW k, Tidy(k.env), k.p \in Block, NEW blocks \in SUBSET Block,
           NEW variables \in SUBSET DOMAIN Mapping(k.env, k.p), NEW r, r = Succeed(k.env)
    PROVE  LET S == blocks \X variables
           IN  FinishedShared(k, S, ShareLoop!Results(k, S, r)[S])
<1> DEFINE S == blocks \X variables
<1>1. FinishedShared(k, {}, r)
  BY FollowsReflexive DEF FinishedShared, Succeed
<1>2. ASSUME NEW s \in SUBSET S, NEW t \in s, NEW q, FinishedShared(k, s \ {t}, q)
      PROVE  FinishedShared(k, s, IF q.ok THEN ShareFinished(k, q.env, t) ELSE q)
  <2> DEFINE b == t[1]
             v == t[2]
             name == Mapping(q.env, k.p)[v]
             f == MapIn(q.env, b, v, name)
  <2>1. b \in Block /\ v \in DOMAIN Mapping(k.env, k.p)
    <3>1. t \in blocks \X variables
      OBVIOUS
    <3> QED BY <3>1
  <2>2. /\ Tidy(q.env) /\ Raw(v, name)
        /\ v \in Registers \cup Constants => v \in Bound(q.env.store)
    BY <1>2, <2>1 DEF FinishedShared, Follows, Within, Grows, Tidy, Placed
  <2>3. ShareFinished(k, q.env, t) = Succeed(f)
    BY DEF ShareFinished, share
  <2> HIDE DEF b, v, name, S
  <2>4. Follows(q.env, f) /\ v \in DOMAIN Mapping(f, b)
    BY <2>1, <2>2, MapInFollows
  <2> HIDE DEF f
  <2>5. Follows(k.env, f)
    BY <1>2, <2>4, FollowsTransitive DEF FinishedShared
  <2>6. ASSUME NEW u \in s  PROVE u[2] \in DOMAIN Mapping(f, u[1])
    <3>1. CASE u = t
      BY <2>4, <3>1 DEF b, v
    <3>2. CASE u # t
      <4>1. u[2] \in DOMAIN Mapping(q.env, u[1])
        BY <1>2, <3>2 DEF FinishedShared
      <4>2. u[1] \in Block
        <5>1. u \in blocks \X variables
          BY DEF S
        <5> QED BY <5>1
      <4> QED BY <2>4, <4>1, <4>2 DEF Follows, Within, Grows
    <3> QED BY <3>1, <3>2
  <2>7. FinishedShared(k, s, Succeed(f))
    BY <2>5, <2>6 DEF FinishedShared, Succeed
  <2> QED BY <1>2, <2>3, <2>7 DEF FinishedShared
<1>3. ShareLoop!Inductive(S)
  <2>1. IsFiniteSet(DOMAIN Mapping(k.env, k.p))
    BY DEF Tidy
  <2>2. IsFiniteSet(blocks) /\ IsFiniteSet(variables)
    BY <2>1, BlockAssumption, FS_Subset
  <2>3. IsFiniteSet(S)
    BY <2>2, FS_Product
  <2> HIDE DEF S
  <2> QED BY <2>3, FiniteSmallest DEF SomeSmallest, ShareLoop!Inductive
<1> HIDE DEF S
<1> QED BY <1>1, <1>2, <1>3, ShareLoop!LoopInvariant DEF S

\* The result r of preparing for what all blocks of previous have: if it
\* succeeded, what the finished ones have and may be shared is had by all, and
\* cells are visible here.
Prepared(e, r, previous) ==
    /\ Follows(e, r.env)
    /\ r.ok =>
          \/ previous \subseteq e.finishedBlocks
          \/ \E p \in previous \cap e.finishedBlocks :
                \A v \in DOMAIN Mapping(e, p) \ ResultNames :
                    \/ v \in DOMAIN Mapping(r.env, e.currentBlockName)
                    \/ \A u \in previous \ e.finishedBlocks : v \in DOMAIN Mapping(r.env, u)

LEMMA AnticipatePrepares ==
    ASSUME NEW e, Tidy(e), Running(e), NEW g, NEW p \in Block, NEW unfinished \in SUBSET Block
    PROVE  LET r == anticipate(g, e, p, unfinished)
           IN  /\ Follows(e, r.env)
               /\ r.ok => \A v \in DOMAIN Mapping(e, p) \ ResultNames :
                    \/ v \in DOMAIN Mapping(r.env, e.currentBlockName)
                    \/ \A u \in unfinished : v \in DOMAIN Mapping(r.env, u)
<1> DEFINE variables == DOMAIN Mapping(e, p)
           cells == variables \cap e.mutableVariables
           immutable == variables \ (e.mutableVariables \cup e.outputVariables)
           k == [succ |-> g, env |-> e, p |-> p, unfinished |-> unfinished]
           phis == AnticipateLoop!Results(k, cells, Succeed(e))[cells]
           d == phis.env
           j == [env |-> d, p |-> p]
           S == unfinished \X immutable
           shared == ShareLoop!Results(j, S, Succeed(d))[S]
           r == anticipate(g, e, p, unfinished)
<1>1. r = IF phis.ok THEN shared ELSE phis
  <2>1. ForEach(cells, Succeed(e), LAMBDA f, v : anticipatePhi(g, f, p, unfinished, v)) = phis
    <3> HIDE DEF cells
    <3> QED BY DEF ForEach, FoldSet, MapThenFoldSet, AnticipateLoop!Results, AnticipatePhi
  <2> HIDE DEF phis
  <2>2. ForEach(S, Succeed(d), LAMBDA f, t : share(f, p, t[1], t[2])) = shared
    <3> HIDE DEF S, d
    <3> QED BY DEF ForEach, FoldSet, MapThenFoldSet, ShareLoop!Results, ShareFinished
  <2> HIDE DEF shared
  <2> QED BY <2>1, <2>2 DEF anticipate, Then
<1> HIDE DEF r
<1>2. k.env = e /\ k.p = p /\ k.unfinished = unfinished
  OBVIOUS
<1>3. cells \subseteq Cells /\ IsFiniteSet(cells)
  <2>1. IsFiniteSet(variables)
    BY DEF Tidy
  <2> QED BY <2>1, FS_Subset DEF Tidy
<1> HIDE DEF k
<1>4. AllMapped(k, cells, phis)
  <2> HIDE DEF cells
  <2> QED BY <1>2, <1>3, AllAnticipated
<1> HIDE DEF phis
<1>5. Follows(e, d)
  BY <1>2, <1>4 DEF AllMapped
<1>6. CASE ~phis.ok
  BY <1>1, <1>5, <1>6 DEF r
<1>7. CASE phis.ok
  <2>1. j.env = d /\ j.p = p
    OBVIOUS
  <2>2. Tidy(d) /\ immutable \subseteq DOMAIN Mapping(d, p)
    BY <1>5 DEF Follows, Within, Grows
  <2> HIDE DEF j, d, immutable
  <2>3. FinishedShared(j, S, shared)
    BY <2>1, <2>2, AllFinishedShared
  <2> HIDE DEF shared
  <2>4. Follows(d, shared.env)
    BY <2>1, <2>3 DEF FinishedShared
  <2>5. Follows(e, shared.env)
    BY <1>5, <2>4, FollowsTransitive
  <2>6. ASSUME NEW v \in DOMAIN Mapping(e, p) \ ResultNames
        PROVE  \/ v \in DOMAIN Mapping(shared.env, e.currentBlockName)
               \/ \A u \in unfinished : v \in DOMAIN Mapping(shared.env, u)
    <3>1. CASE v \in cells
      <4>1. v \in DOMAIN Mapping(d, e.currentBlockName)
        BY <1>2, <1>4, <1>7, <3>1 DEF AllMapped, d
      <4> QED BY <2>4, <4>1 DEF Follows, Within, Grows, Running
    <3>2. CASE v \notin cells
      <4>1. v \in immutable
        BY <3>2 DEF Tidy, immutable
      <4>2. ASSUME NEW u \in unfinished  PROVE v \in DOMAIN Mapping(shared.env, u)
        <5> DEFINE t == <<u, v>>
        <5>1. t \in S /\ t[1] = u /\ t[2] = v
          BY <4>1
        <5> HIDE DEF t, S
        <5> QED BY <2>3, <5>1 DEF FinishedShared
      <4> QED BY <4>2
    <3> QED BY <3>1, <3>2
  <2>7. r = shared
    BY <1>1, <1>7
  <2> QED BY <2>5, <2>6, <2>7 DEF r
<1> QED BY <1>6, <1>7

LEMMA TouchFollows ==
    ASSUME NEW e, Tidy(e), NEW previous \in SUBSET Block, NEW d,
           d = [e EXCEPT !.variablesMappingsPerBlock = [b \in DOMAIN @ \cup previous |-> Mapping(e, b)]]
    PROVE  /\ Follows(e, d)
           /\ d.variableTypes = e.variableTypes
           /\ d.store = e.store
           /\ \A b : Mapping(d, b) = Mapping(e, b)
<1> DEFINE mappings == [b \in DOMAIN e.variablesMappingsPerBlock \cup previous |-> Mapping(e, b)]
<1>1. DOMAIN mappings = DOMAIN e.variablesMappingsPerBlock \cup previous
  OBVIOUS
<1>2. \A b \in DOMAIN mappings : mappings[b] = Mapping(e, b)
  OBVIOUS
<1> HIDE DEF mappings
<1>3. /\ Shape(d)
      /\ d.phiNodeObligations = e.phiNodeObligations
      /\ d.mutableVariables = e.mutableVariables
      /\ d.outputVariables = e.outputVariables
      /\ d.variablesMappingsPerBlock = mappings
      /\ d.variablesValuesPerBlock = e.variablesValuesPerBlock
      /\ d.mutableVariableConstraints = e.mutableVariableConstraints
      /\ d.variableTypes = e.variableTypes
      /\ d.store = e.store
      /\ d.currentBlockName = e.currentBlockName
      /\ d.finishedBlocks = e.finishedBlocks
  BY DEF Tidy, Shape, EnvironmentFields, mappings
<1>4. \A b : Mapping(d, b) = Mapping(e, b)
  BY <1>1, <1>2, <1>3 DEF Mapping
<1>5. Tidy(d)
  BY <1>1, <1>3, <1>4 DEF Tidy, Placed
<1>6. Grows(e, d)
  <2>1. Grown(e.store, d.store) /\ SameResult(e, d)
    BY <1>3, GrownReflexive DEF SameResult, Tidy, Shape
  <2> QED BY <1>1, <1>3, <1>4, <2>1 DEF Grows
<1> QED BY <1>3, <1>4, <1>5, <1>6 DEF Follows, Within, Seen

LEMMA CommonVariablesPrepared ==
    ASSUME NEW e, Tidy(e), Running(e), NEW previous \in SUBSET Block, NEW g
    PROVE  Prepared(e, getCommonVariables(g, e, previous), previous)
<1> DEFINE finished == previous \cap e.finishedBlocks
           unfinished == previous \ e.finishedBlocks
           touched == [e EXCEPT !.variablesMappingsPerBlock =
                            [b \in DOMAIN @ \cup previous |-> Mapping(e, b)]]
           p == CHOOSE p \in finished : TRUE
           r == getCommonVariables(g, e, previous)
<1>1. Follows(e, touched) /\ \A b : Mapping(touched, b) = Mapping(e, b)
  BY TouchFollows
<1>2. CASE unfinished = {}
  <2>1. r = Succeed(touched)
    BY <1>2 DEF getCommonVariables
  <2> HIDE DEF touched
  <2>2. r.env = touched
    BY <2>1 DEF Succeed
  <2> HIDE DEF r
  <2> QED BY <1>1, <1>2, <2>2 DEF Prepared, r
<1>3. CASE unfinished # {} /\ ~validateFinishedAndUnfinishedBlockStates(g, finished, unfinished)
  <2>1. r = Fail(e)
    BY <1>3 DEF getCommonVariables
  <2>2. r.env = e /\ r.ok = FALSE
    BY <2>1 DEF Fail
  <2> HIDE DEF r
  <2> QED BY <2>2, FollowsReflexive DEF Prepared, r
<1>4. CASE unfinished # {} /\ validateFinishedAndUnfinishedBlockStates(g, finished, unfinished)
  <2>1. r = anticipate(g, touched, p, unfinished)
    BY <1>4 DEF getCommonVariables
  <2> HIDE DEF touched
  <2>2. p \in finished
    <3>1. Cardinality({}) = 0
      BY FS_EmptySet
    <3>2. finished # {}
      BY <1>4, <3>1 DEF validateFinishedAndUnfinishedBlockStates
    <3> QED BY <3>2
  <2>3. Tidy(touched) /\ Running(touched) /\ touched.currentBlockName = e.currentBlockName
    BY <1>1, RunningStays DEF Follows, Within
  <2> HIDE DEF p, r
  <2>4. /\ Follows(touched, r.env)
        /\ r.ok => \A v \in DOMAIN Mapping(touched, p) \ ResultNames :
              \/ v \in DOMAIN Mapping(r.env, touched.currentBlockName)
              \/ \A u \in unfinished : v \in DOMAIN Mapping(r.env, u)
    <3>1. p \in Block /\ unfinished \in SUBSET Block
      BY <2>2
    <3> HIDE DEF unfinished
    <3> QED BY <2>1, <2>3, <3>1, AnticipatePrepares
  <2>5. Follows(e, r.env)
    BY <1>1, <2>4, FollowsTransitive
  <2> QED BY <1>1, <2>2, <2>3, <2>4, <2>5 DEF Prepared, r
<1> QED BY <1>2, <1>3, <1>4

\* Variables on which the predecessors agree.
KeepVariable(k, d, v) == Succeed(MapVariable(d, v, Mapping(k.env, k.p)[v]))

KeepLoop == INSTANCE LoopTheorems WITH Iteration <- KeepVariable, Invariant <- AllMapped

LEMMA AllKept ==
    ASSUME NEW k, Tidy(k.env), Running(k.env), k.p \in Block,
           NEW S \in SUBSET DOMAIN Mapping(k.env, k.p), NEW r, r = Succeed(k.env)
    PROVE  AllMapped(k, S, KeepLoop!Results(k, S, r)[S])
<1>1. AllMapped(k, {}, r)
  BY NothingMapped
<1>2. ASSUME NEW s \in SUBSET S, NEW v \in s, NEW q, AllMapped(k, s \ {v}, q)
      PROVE  AllMapped(k, s, IF q.ok THEN KeepVariable(k, q.env, v) ELSE q)
  <2>1. CASE ~q.ok
    BY <1>2, <2>1 DEF AllMapped
  <2>2. CASE q.ok
    <3> DEFINE name == Mapping(k.env, k.p)[v]
               d == MapVariable(q.env, v, name)
               f == Succeed(d)
    <3>1. Tidy(q.env) /\ Running(q.env) /\ Raw(v, name)
      BY <1>2, StillRunning DEF Tidy
    <3>6. v \in Registers \cup Constants => v \in Bound(q.env.store)
      BY <1>2 DEF Tidy, Placed, AllMapped, Follows, Within, Grows, Grown
    <3>2. KeepVariable(k, q.env, v) = f
      BY DEF KeepVariable
    <3> HIDE DEF name
    <3>3. Follows(q.env, d) /\ v \in DOMAIN Mapping(d, q.env.currentBlockName)
      BY <3>1, <3>6, MapVariableFollows
    <3> HIDE DEF d
    <3>4. Mapped(q.env, f, v)
      BY <3>3 DEF Mapped, Succeed
    <3> HIDE DEF f
    <3>5. AllMapped(k, s, f)
      BY <1>2, <2>2, <3>4, MoreMapped
    <3> QED BY <2>2, <3>2, <3>5
  <2> QED BY <2>1, <2>2
<1>3. KeepLoop!Inductive(S)
  <2>1. IsFiniteSet(DOMAIN Mapping(k.env, k.p))
    BY DEF Tidy
  <2>2. IsFiniteSet(S)
    BY <2>1, FS_Subset
  <2> QED BY <2>2, FiniteSmallest DEF SomeSmallest, KeepLoop!Inductive
<1> QED BY <1>1, <1>2, <1>3, KeepLoop!LoopInvariant

\* Variables on which they do not get a phi node.
JoinVariable(k, d, v) ==
    createPhiNodeWithoutCreatedBinders(k.succ, CountVersion(d, v), v, getNextVariableName(d, v),
        d.variableTypes[v], [p \in k.previous |-> Mapping(d, p)[v]])

VariablesJoined(k, s, r) == AllMapped(k, k.kept \cup s, r)

JoinLoop == INSTANCE LoopTheorems WITH Iteration <- JoinVariable, Invariant <- VariablesJoined

LEMMA JoinVariableMapped ==
    ASSUME NEW d, Tidy(d), Running(d), NEW v, v # NoName, v \in Variable => Versioned(v), NEW k,
           k.previous \subseteq Block
    PROVE  Mapped(d, JoinVariable(k, d, v), v)
<1> DEFINE d1 == CountVersion(d, v)
           mapped == getNextVariableName(d, v)
           type == d.variableTypes[v]
           sources == [p \in k.previous |-> Mapping(d, p)[v]]
           r == createPhiNodeWithoutCreatedBinders(k.succ, d1, v, mapped, type, sources)
<1>1. Follows(d, d1)
  BY CountVersionFollows
<1>2. DOMAIN sources \subseteq Block
  OBVIOUS
<1>3. JoinVariable(k, d, v) = r
  BY DEF JoinVariable
<1> HIDE DEF d1, sources, mapped, type
<1>4. Tidy(d1) /\ Running(d1) /\ d1.currentBlockName = d.currentBlockName /\ Raw(v, mapped)
  BY <1>1, RunningStays DEF Follows, Within, Raw
<1>5. Mapped(d1, r, v)
  BY <1>2, <1>4, PhiNodeMapped
<1> HIDE DEF r
<1>6. Follows(d, r.env)
  BY <1>1, <1>5, FollowsTransitive DEF Mapped
<1> QED BY <1>3, <1>4, <1>5, <1>6 DEF Mapped

LEMMA AllJoined ==
    ASSUME NEW k, Running(k.env), k.previous \subseteq Block, NEW S, IsFiniteSet(S),
           \A v \in S : v # NoName /\ (v \in Variable => Versioned(v)), NEW r, AllMapped(k, k.kept, r)
    PROVE  AllMapped(k, k.kept \cup S, JoinLoop!Results(k, S, r)[S])
<1>1. VariablesJoined(k, {}, r)
  BY DEF VariablesJoined, AllMapped
<1>2. ASSUME NEW s \in SUBSET S, NEW v \in s, NEW q, VariablesJoined(k, s \ {v}, q)
      PROVE  VariablesJoined(k, s, IF q.ok THEN JoinVariable(k, q.env, v) ELSE q)
  <2>1. CASE ~q.ok
    BY <1>2, <2>1 DEF VariablesJoined, AllMapped
  <2>2. CASE q.ok
    <3> DEFINE f == JoinVariable(k, q.env, v)
               all == k.kept \cup s
    <3>1. Tidy(q.env) /\ Running(q.env) /\ v \in S
      BY <1>2, StillRunning DEF VariablesJoined
    <3>2. Mapped(q.env, f, v)
      BY <3>1, JoinVariableMapped
    <3>3. AllMapped(k, all \ {v}, q) /\ v \in all
      BY <1>2 DEF VariablesJoined, AllMapped
    <3> HIDE DEF f, all
    <3>4. AllMapped(k, all, f)
      BY <2>2, <3>2, <3>3, MoreMapped
    <3> QED BY <2>2, <3>4 DEF VariablesJoined, f, all
  <2> QED BY <2>1, <2>2
<1>3. JoinLoop!Inductive(S)
  BY FiniteSmallest DEF SomeSmallest, JoinLoop!Inductive
<1>4. VariablesJoined(k, S, JoinLoop!Results(k, S, r)[S])
  BY <1>1, <1>2, <1>3, JoinLoop!LoopInvariant
<1> QED BY <1>4 DEF VariablesJoined

LEMMA InheritMapped ==
    ASSUME NEW e, Tidy(e), Running(e), NEW previous \in SUBSET Block, NEW g
    PROVE  LET r == inheritVariables(g, e, previous)
           IN  /\ Follows(e, r.env)
               /\ r.ok => \A v \in CommonVariables(e, previous) :
                              v \in DOMAIN Mapping(r.env, e.currentBlockName)
<1> DEFINE agree(v) == \A p, q \in previous : Mapping(e, p)[v] = Mapping(e, q)[v]
           common == CommonVariables(e, previous)
           p0 == CHOOSE p \in previous : TRUE
           same == {v \in common : agree(v)}
           different == {v \in common : ~agree(v)}
           k == [succ |-> g, env |-> e, p |-> p0, previous |-> previous, kept |-> same]
           kept == KeepLoop!Results(k, same, Succeed(e))[same]
           joined == JoinLoop!Results(k, different, kept)[different]
           r == inheritVariables(g, e, previous)
<1>1. r = joined
  <2>1. ForEach(same, Succeed(e), LAMBDA d, v : Succeed(MapVariable(d, v, Mapping(e, p0)[v]))) = kept
    <3> HIDE DEF same
    <3> QED BY DEF ForEach, FoldSet, MapThenFoldSet, KeepLoop!Results, KeepVariable
  <2> HIDE DEF kept
  <2>2. ForEach(different, kept,
            LAMBDA d, v : createPhiNodeWithoutCreatedBinders(g, CountVersion(d, v), v,
                              getNextVariableName(d, v), d.variableTypes[v],
                              [p \in previous |-> Mapping(d, p)[v]])) = joined
    <3> HIDE DEF different
    <3> QED BY DEF ForEach, FoldSet, MapThenFoldSet, JoinLoop!Results, JoinVariable
  <2> HIDE DEF joined
  <2> QED BY <2>1, <2>2 DEF inheritVariables
<1> HIDE DEF r
<1>2. k.env = e /\ k.p = p0 /\ k.previous = previous /\ k.kept = same
  OBVIOUS
<1>3. ASSUME common # {}
      PROVE  p0 \in previous /\ common \subseteq DOMAIN Mapping(e, p0)
  <2>1. previous # {}
    BY <1>3 DEF CommonVariables
  <2>2. p0 \in previous
    BY <2>1
  <2> QED BY <2>2 DEF CommonVariables
<1>4. IsFiniteSet(common)
  <2>1. CASE common = {}
    BY <2>1, FS_EmptySet
  <2>2. CASE common # {}
    <3>1. IsFiniteSet(DOMAIN Mapping(e, p0))
      BY <1>3, <2>2 DEF Tidy
    <3> QED BY <1>3, <2>2, <3>1, FS_Subset
  <2> QED BY <2>1, <2>2
<1>5. AllMapped(k, same, kept)
  <2>1. CASE common = {}
    <3>1. same = {}
      BY <2>1
    <3>2. KeepLoop!Inductive({})
      BY FS_EmptySet, FiniteSmallest DEF SomeSmallest, KeepLoop!Inductive
    <3>3. AllMapped(k, {}, Succeed(e))
      BY <1>2, NothingMapped
    <3>4. AllMapped(k, {}, KeepLoop!Results(k, {}, Succeed(e))[{}])
      <4> HIDE DEF k
      <4> QED BY <3>2, <3>3, KeepLoop!LoopInvariant
    <3> HIDE DEF k, same
    <3> QED BY <3>1, <3>4
  <2>2. CASE common # {}
    <3>1. p0 \in Block /\ same \subseteq DOMAIN Mapping(e, p0)
      BY <1>3, <2>2
    <3> HIDE DEF k, p0, same
    <3> QED BY <1>2, <3>1, AllKept
  <2> QED BY <2>1, <2>2
<1>6. IsFiniteSet(different)
  BY <1>4, FS_Subset
<1>7. ASSUME NEW v \in different  PROVE v # NoName /\ (v \in Variable => Versioned(v))
  <2>1. PICK p \in previous, q \in previous : Mapping(e, p)[v] # Mapping(e, q)[v]
    OBVIOUS
  <2>2. v \in DOMAIN Mapping(e, p) /\ v \in DOMAIN Mapping(e, q)
    BY DEF CommonVariables
  <2>3. Raw(v, Mapping(e, p)[v]) /\ Raw(v, Mapping(e, q)[v])
    BY <2>2 DEF Tidy
  <2> QED BY <2>1, <2>3 DEF Raw
<1>8. same \cup different = common
  OBVIOUS
<1> HIDE DEF k, same, different, kept, common
<1>9. AllMapped(k, same \cup different, joined)
  BY <1>2, <1>5, <1>6, <1>7, AllJoined
<1> HIDE DEF joined
<1> QED BY <1>1, <1>2, <1>8, <1>9 DEF AllMapped, r, common

--------------------------------------------------------------------------------
\* From one block to the next.

\* Like Follows, when the current block may have been finished or left.
Advances(e, d) ==
    /\ Tidy(d)
    /\ Grows(e, d)
    /\ \A c \in Constants : c \in DOMAIN d.variableTypes =>
        \/ c \in DOMAIN e.variableTypes
        \/ \A b \in Block : b \in DOMAIN e.variablesMappingsPerBlock => c \in DOMAIN Mapping(d, b)

LEMMA FollowsAdvances ==
    ASSUME NEW e, NEW d, Follows(e, d)
    PROVE  Advances(e, d)
BY DEF Follows, Within, Seen, Advances

LEMMA AdvancesTransitive ==
    ASSUME NEW e, NEW d, NEW f, Advances(e, d), Advances(d, f)
    PROVE  Advances(e, f)
<1>1. Grows(e, f)
  BY GrowsTransitive DEF Advances
<1> QED BY <1>1 DEF Advances, Grows

\* The values that a block owes are bound at its end.
DischargeOne(k, d, i) == discharge(d, k.obligations[i])

Discharged(k, s, r) == Follows(k.env, r.env)

DischargeLoop == INSTANCE LoopTheorems WITH Iteration <- DischargeOne, Invariant <- Discharged

LEMMA AllDischarged ==
    ASSUME NEW k, Tidy(k.env), Running(k.env), NEW n \in Nat,
           k.obligations \in [1 .. n -> Obligations], NEW r, r = Succeed(k.env)
    PROVE  Discharged(k, 1 .. n, DischargeLoop!Results(k, 1 .. n, r)[1 .. n])
<1> DEFINE S == 1 .. n
<1>1. Discharged(k, {}, r)
  BY FollowsReflexive DEF Discharged, Succeed
<1>2. ASSUME NEW s \in SUBSET S, NEW i \in s, NEW q, Discharged(k, s \ {i}, q)
      PROVE  Discharged(k, s, IF q.ok THEN DischargeOne(k, q.env, i) ELSE q)
  <2> DEFINE future == k.obligations[i].TargetFutureVariable
             source == k.obligations[i].VariableSource
             type == q.env.variableTypes[source]
             expression == Over({GetVariableName(q.env, source)})
             f == CreateImmutableVariable(q.env, future, type, {}, expression)
  <2>1. Tidy(q.env) /\ Running(q.env)
    BY <1>2, RunningStays DEF Discharged, Follows, Within
  <2>2. future \notin Constants /\ future # NoName
    <3>1. k.obligations[i] \in Obligations
      OBVIOUS
    <3> QED BY <3>1, NamesApart DEF Obligations
  <2>3. DischargeOne(k, q.env, i) = f
    BY DEF DischargeOne, discharge
  <2> HIDE DEF future, type, expression
  <2>4. Follows(q.env, f.env)
    BY <2>1, <2>2, CreateImmutableMakes DEF Made
  <2> HIDE DEF f
  <2>5. Follows(k.env, f.env)
    BY <1>2, <2>4, FollowsTransitive DEF Discharged
  <2> QED BY <1>2, <2>3, <2>5 DEF Discharged
<1>3. DischargeLoop!Inductive(S)
  <2>1. IsFiniteSet(S)
    BY FS_Interval
  <2> HIDE DEF S
  <2> QED BY <2>1, FiniteSmallest DEF SomeSmallest, DischargeLoop!Inductive
<1> HIDE DEF S
<1>4. Discharged(k, S, DischargeLoop!Results(k, S, r)[S])
  BY <1>1, <1>2, <1>3, DischargeLoop!LoopInvariant
<1> QED BY <1>4 DEF S

\* The current block is finished, if r is a success.
Left(e, r) ==
    /\ Advances(e, r.env)
    /\ r.env.currentBlockName = e.currentBlockName
    /\ r.env.finishedBlocks = IF r.ok THEN e.finishedBlocks \cup {e.currentBlockName}
                              ELSE e.finishedBlocks

LEMMA EndBlockLeaves ==
    ASSUME NEW e, Tidy(e), Running(e)
    PROVE  Left(e, endBlock(e))
<1> DEFINE b == e.currentBlockName
           obligations == e.phiNodeObligations[b]
           S == DOMAIN obligations
           k == [env |-> e, obligations |-> obligations]
           done == DischargeLoop!Results(k, S, Succeed(e))[S]
           d == done.env
           left == [d.phiNodeObligations EXCEPT ![b] = << >>]
           final == [d EXCEPT !.phiNodeObligations = left, !.finishedBlocks = @ \cup {b}]
           r == endBlock(e)
<1>1. r = IF done.ok THEN Succeed(final) ELSE done
  <2>1. ForEach(S, Succeed(e), LAMBDA f, i : discharge(f, obligations[i])) = done
    BY DEF ForEach, FoldSet, MapThenFoldSet, DischargeLoop!Results, DischargeOne
  <2> HIDE DEF done
  <2> QED BY <2>1 DEF endBlock, Then
<1> HIDE DEF r
<1>2. k.env = e /\ k.obligations = obligations
  OBVIOUS
<1>3. b \in Block /\ obligations \in Seq(Obligations)
  BY DEF Running, Tidy
<1>4. Follows(e, d)
  <2>1. PICK n \in Nat : obligations \in [1 .. n -> Obligations]
    BY <1>3
  <2>2. S = 1 .. n
    BY <2>1
  <2> HIDE DEF k, obligations
  <2>3. Discharged(k, 1 .. n, DischargeLoop!Results(k, 1 .. n, Succeed(e))[1 .. n])
    BY <1>2, <2>1, AllDischarged
  <2> HIDE DEF S
  <2> QED BY <1>2, <2>2, <2>3 DEF Discharged
<1> HIDE DEF done
<1>5. Tidy(d) /\ d.currentBlockName = b /\ d.finishedBlocks = e.finishedBlocks
  BY <1>4 DEF Follows, Within
<1>6. CASE ~done.ok
  BY <1>1, <1>4, <1>5, <1>6, FollowsAdvances DEF Left, r
<1>7. CASE done.ok
  <2>1. left \in [Block -> Seq(Obligations)]
    <3>1. << >> \in Seq(Obligations) /\ d.phiNodeObligations \in [Block -> Seq(Obligations)]
      BY <1>5 DEF Tidy
    <3> QED BY <3>1
  <2> HIDE DEF left, d
  <2>2. /\ Shape(final)
        /\ final.phiNodeObligations = left
        /\ final.mutableVariables = d.mutableVariables
        /\ final.outputVariables = d.outputVariables
        /\ final.variablesMappingsPerBlock = d.variablesMappingsPerBlock
        /\ final.variablesValuesPerBlock = d.variablesValuesPerBlock
        /\ final.mutableVariableConstraints = d.mutableVariableConstraints
        /\ final.store = d.store
        /\ final.variableTypes = d.variableTypes
        /\ final.currentBlockName = d.currentBlockName
        /\ final.finishedBlocks = d.finishedBlocks \cup {b}
    BY <1>5 DEF Tidy, Shape, EnvironmentFields
  <2>3. r.env = final /\ r.ok = TRUE
    BY <1>1, <1>7 DEF Succeed, left, d
  <2> HIDE DEF final
  <2>4. \A c : Mapping(final, c) = Mapping(d, c)
    BY <2>2 DEF Mapping
  <2>5. Tidy(final)
    BY <1>5, <2>1, <2>2, <2>4 DEF Tidy, Placed
  <2>6. Grows(d, final)
    BY <1>5, <2>2, <2>4, GrownReflexive DEF Grows, SameResult, Tidy, Shape
  <2>7. Advances(e, final)
    <3>1. Advances(d, final)
      BY <2>2, <2>5, <2>6 DEF Advances
    <3> QED BY <1>4, <3>1, FollowsAdvances, AdvancesTransitive
  <2> QED BY <1>5, <2>2, <2>3, <2>7 DEF Left, r
<1> QED BY <1>6, <1>7

\* The result r of starting block b: if it succeeded, what the finished
\* predecessors had is visible, but for results.
Started(g, e, b, r) ==
    LET previous == ReachablePredecessors(g, b)
        finished == e.finishedBlocks \cup {e.currentBlockName}
    IN  /\ Advances(e, r.env)
        /\ r.env.currentBlockName \in {e.currentBlockName, b}
        /\ r.ok =>
              /\ r.env.currentBlockName = b
              /\ r.env.finishedBlocks = finished
              /\ b \notin finished
              /\ previous # {} =>
                    /\ previous \cap finished # {}
                    /\ \A v :
                          v \notin ResultNames
                            /\ (\A p \in previous \cap finished : v \in DOMAIN Mapping(e, p))
                          => v \in DOMAIN Mapping(r.env, b)

LEMMA EnterAdvances ==
    ASSUME NEW e, Tidy(e), NEW b \in Block, NEW d, d = [e EXCEPT !.currentBlockName = b]
    PROVE  /\ Advances(e, d)
           /\ Running(d)
           /\ d.currentBlockName = b
           /\ d.finishedBlocks = e.finishedBlocks
           /\ d.variableTypes = e.variableTypes
           /\ d.store = e.store
           /\ d.variablesMappingsPerBlock = e.variablesMappingsPerBlock
           /\ \A c : Mapping(d, c) = Mapping(e, c)
<1>1. /\ Shape(d)
      /\ d.phiNodeObligations = e.phiNodeObligations
      /\ d.mutableVariables = e.mutableVariables
      /\ d.outputVariables = e.outputVariables
      /\ d.variablesMappingsPerBlock = e.variablesMappingsPerBlock
      /\ d.variablesValuesPerBlock = e.variablesValuesPerBlock
      /\ d.mutableVariableConstraints = e.mutableVariableConstraints
      /\ d.variableTypes = e.variableTypes
      /\ d.currentBlockName = b
      /\ d.finishedBlocks = e.finishedBlocks
      /\ d.store = e.store
  BY DEF Tidy, Shape, EnvironmentFields
<1>2. \A c : Mapping(d, c) = Mapping(e, c)
  BY <1>1 DEF Mapping
<1>3. Tidy(d)
  BY <1>1, <1>2 DEF Tidy, Placed
<1>4. Grows(e, d)
  BY <1>1, <1>2, GrownReflexive DEF Grows, SameResult, Tidy, Shape
<1> QED BY <1>1, <1>2, <1>3, <1>4 DEF Advances, Running

LEMMA PreviousBlocks ==
    ASSUME NEW g, NEW b
    PROVE  ReachablePredecessors(g, b) \subseteq Block
BY DEF ReachablePredecessors, Reach

LEMMA StartBlockStarts ==
    ASSUME NEW e, Tidy(e), Running(e), NEW g, NEW b \in Block
    PROVE  Started(g, e, b, StartBlock(g, e, b))
<1> DEFINE previous == ReachablePredecessors(g, b)
           left == endBlock(e)
           entered == [left.env EXCEPT !.currentBlockName = b]
           common == getCommonVariables(g, entered, previous)
           inherited == inheritVariables(g, common.env, previous)
           r == StartBlock(g, e, b)
           finished == e.finishedBlocks \cup {e.currentBlockName}
<1>1. e.currentBlockName # NoBlock
  BY BlockAssumption DEF Running
<1>2. r = IF ~left.ok THEN left
          ELSE IF b \in left.env.finishedBlocks THEN Fail(left.env)
          ELSE IF ~common.ok THEN common ELSE inherited
  <2> HIDE DEF left, common, inherited
  <2> QED BY <1>1 DEF StartBlock, Then, Fail, left, common, inherited
<1> HIDE DEF r
<1>3. Left(e, left)
  BY EndBlockLeaves
<1> HIDE DEF left
<1>4. CASE ~left.ok
  BY <1>2, <1>3, <1>4 DEF Left, Started, r
<1>5. CASE left.ok /\ b \in left.env.finishedBlocks
  <2>1. r.env = left.env /\ r.ok = FALSE
    BY <1>2, <1>5 DEF Fail
  <2> QED BY <1>3, <2>1 DEF Left, Started, r
<1>6. CASE left.ok /\ b \notin left.env.finishedBlocks
  <2>1. /\ Advances(left.env, entered)
        /\ Running(entered)
        /\ entered.currentBlockName = b
        /\ entered.finishedBlocks = left.env.finishedBlocks
    BY <1>3, EnterAdvances DEF Left, Advances
  <2>2. entered.finishedBlocks = finished
    BY <1>3, <1>6, <2>1 DEF Left
  <2> HIDE DEF entered, finished
  <2>3. Advances(e, entered)
    BY <1>3, <2>1, AdvancesTransitive DEF Left
  <2>4. previous \subseteq Block
    BY PreviousBlocks
  <2>5. Prepared(entered, common, previous)
    <3> HIDE DEF previous
    <3> QED BY <2>1, <2>3, <2>4, CommonVariablesPrepared DEF Advances
  <2> HIDE DEF common
  <2>6. /\ Advances(e, common.env)
        /\ Tidy(common.env) /\ Running(common.env)
        /\ common.env.currentBlockName = b
        /\ common.env.finishedBlocks = finished
    BY <2>1, <2>2, <2>3, <2>5, FollowsAdvances, AdvancesTransitive, RunningStays
       DEF Prepared, Follows, Within
  <2>7. CASE ~common.ok
    BY <1>2, <1>6, <2>6, <2>7 DEF Started, r
  <2>8. CASE common.ok
    <3>1. /\ Follows(common.env, inherited.env)
          /\ inherited.ok => \A v \in CommonVariables(common.env, previous) :
                                v \in DOMAIN Mapping(inherited.env, b)
      <4> HIDE DEF previous
      <4> QED BY <2>4, <2>6, InheritMapped
    <3> HIDE DEF inherited, previous
    <3>2. /\ Advances(e, inherited.env)
          /\ inherited.env.currentBlockName = b
          /\ inherited.env.finishedBlocks = finished
      BY <2>6, <3>1, FollowsAdvances, AdvancesTransitive DEF Follows, Within
    <3>3. ASSUME previous # {}  PROVE previous \cap finished # {}
      BY <2>2, <2>5, <2>8, <3>3 DEF Prepared
    <3>4. ASSUME previous # {}, inherited.ok, NEW v, v \notin ResultNames,
                 \A p \in previous \cap finished : v \in DOMAIN Mapping(e, p)
          PROVE  v \in DOMAIN Mapping(inherited.env, b)
      <4>1. \A p \in previous \cap finished :
                v \in DOMAIN Mapping(entered, p) /\ v \in DOMAIN Mapping(common.env, p)
        BY <2>3, <2>4, <2>6, <3>4 DEF Advances, Grows
      <4>2. CASE v \in DOMAIN Mapping(common.env, b)
        BY <3>1, <4>2 DEF Follows, Within, Grows
      <4>3. CASE v \notin DOMAIN Mapping(common.env, b)
        <5>1. \A u \in previous \ finished : v \in DOMAIN Mapping(common.env, u)
          BY <2>1, <2>2, <2>5, <2>8, <3>4, <4>1, <4>3 DEF Prepared
        <5>2. v \in CommonVariables(common.env, previous)
          <6>1. \A p \in previous : v \in DOMAIN Mapping(common.env, p)
            BY <4>1, <5>1
          <6> QED BY <3>4, <6>1 DEF CommonVariables
        <5> QED BY <3>1, <3>4, <5>2
      <4> QED BY <4>2, <4>3
    <3>5. r = inherited
      BY <1>2, <1>6, <2>8
    <3>6. b \notin finished
      BY <1>6, <2>1, <2>2
    <3> QED BY <3>2, <3>3, <3>4, <3>5, <3>6 DEF Started, r, finished, previous
  <2> QED BY <2>7, <2>8
<1> QED BY <1>4, <1>5, <1>6

--------------------------------------------------------------------------------
\* The first block.

\* Only transition guards are promised, as booleans.
TransitionsPromised(s) ==
    \A n \in Promised(s) : n[1] = "transition" /\ s.futureBindersMapping[n].type = "bool"

\* There are no variables yet, and these names have binders.
Opening(e, names) ==
    /\ Tidy(e)
    /\ e.variableTypes = << >>
    /\ e.currentBlockName = NoBlock
    /\ e.finishedBlocks = {}
    /\ Bound(e.store) = names
    /\ TransitionsPromised(e.store)

LEMMA EmptyOpening == Opening(EmptyEnvironment, {})
<1> DEFINE e == EmptyEnvironment
<1>1. /\ e.currentBlockName = NoBlock
      /\ e.variableTypes = << >>
      /\ e.variablesMappingsPerBlock = << >>
      /\ DOMAIN e.variablesValuesPerBlock = Block
      /\ e.finishedBlocks = {}
      /\ e.phiNodeObligations = [b \in Block |-> << >>]
      /\ e.outputVariables = {}
      /\ e.mutableVariables = {}
      /\ e.store = EmptyStore
  BY DEF EmptyEnvironment
<1>2. Shape(e)
  BY EmptyShape
<1> HIDE DEF e
<1>3. \A b : DOMAIN Mapping(e, b) = {}
  BY <1>1 DEF Mapping
<1>4. \A b \in Block : IsFiniteSet(DOMAIN Mapping(e, b))
  BY <1>3, FS_EmptySet
<1>5. e.phiNodeObligations \in [Block -> Seq(Obligations)]
  BY <1>1
<1>6. Tidy(e)
  BY <1>1, <1>2, <1>3, <1>4, <1>5 DEF Tidy
<1>7. Bound(e.store) = {} /\ Promised(e.store) = {}
  BY <1>1 DEF EmptyStore, Bound, Promised
<1> QED BY <1>1, <1>6, <1>7 DEF Opening, TransitionsPromised, e

LEMMA FuturePromised ==
    ASSUME NEW s, DOMAIN s = StoreFields, TransitionsPromised(s), NEW name, name[1] = "transition"
    PROVE  LET r == CreateFutureBinder(s, name, "bool")
           IN  /\ r.ok
               /\ DOMAIN r.store = StoreFields
               /\ Bound(r.store) = Bound(s)
               /\ TransitionsPromised(r.store)
<1> DEFINE r == CreateFutureBinder(s, name, "bool")
           futures == Put(s.futureBindersMapping, name, [id |-> s.freshBinderId, type |-> "bool"])
<1>1. isFutureBinderTypeValidIfExists(s, name, "bool")
  BY DEF TransitionsPromised, isFutureBinderTypeValidIfExists
<1>2. r = Success([s EXCEPT !.freshBinderId = @ + 1, !.futureBindersMapping = futures])
  BY <1>1 DEF CreateFutureBinder
<1>3. /\ DOMAIN futures = Promised(s) \cup {name}
      /\ futures[name].type = "bool"
      /\ \A n \in Promised(s) : n # name => futures[n] = s.futureBindersMapping[n]
  BY DEF Put, Promised
<1> DEFINE t == [s EXCEPT !.freshBinderId = @ + 1, !.futureBindersMapping = futures]
<1> HIDE DEF futures, r
<1>4. /\ r.ok
      /\ DOMAIN r.store = StoreFields
      /\ r.store.binderNameMapping = s.binderNameMapping
      /\ r.store.futureBindersMapping = futures
  <2>1. /\ DOMAIN t = StoreFields
        /\ t.binderNameMapping = s.binderNameMapping
        /\ t.futureBindersMapping = futures
    BY DEF StoreFields
  <2>2. r = Success(t)
    BY <1>2
  <2> HIDE DEF t
  <2> QED BY <2>1, <2>2 DEF Success
<1>5. TransitionsPromised(r.store)
  BY <1>3, <1>4 DEF TransitionsPromised, Promised
<1> QED BY <1>4, <1>5 DEF Bound, r

LEMMA NewBinderMade ==
    ASSUME NEW s, DOMAIN s = StoreFields, NEW name, name \notin Bound(s), name \notin Promised(s),
           NEW type, NEW qualifiers
    PROVE  LET r == CreateBinderWithConstraints(s, name, type, qualifiers)
           IN  /\ r.ok
               /\ Bound(r.store) = Bound(s) \cup {name}
               /\ r.store.futureBindersMapping = s.futureBindersMapping
<1> DEFINE valid == validateBinder(s, name, type)
           binder == [id |-> valid.id, type |-> type, qualifiers |-> qualifiers]
           binders == Put(s.binderNameMapping, name, binder)
           v == [s EXCEPT !.freshBinderId = @ + 1]
           r == CreateBinderWithConstraints(s, name, type, qualifiers)
<1>1. valid.ok /\ valid.store = v
  BY DEF validateBinder, isFutureBinderTypeValidIfExists
<1>2. /\ DOMAIN v = StoreFields
      /\ v.binderNameMapping = s.binderNameMapping
      /\ v.futureBindersMapping = s.futureBindersMapping
  BY DEF StoreFields
<1> HIDE DEF v, valid
<1>3. r = Success([v EXCEPT !.binderNameMapping = binders])
  BY <1>1, <1>2 DEF CreateBinderWithConstraints, valid
<1>4. DOMAIN binders = Bound(s) \cup {name}
  BY DEF Put, Bound
<1> HIDE DEF binders
<1>5. /\ r.ok
      /\ r.store.binderNameMapping = binders
      /\ r.store.futureBindersMapping = s.futureBindersMapping
  BY <1>2, <1>3 DEF Success, StoreFields
<1> QED BY <1>4, <1>5 DEF Bound

\* A transition guard comes into scope.
ShareGuard(k, d, b) == Succeed(MapIn(d, b, k.name, k.name))

GuardShared(k, s, r) ==
    /\ r.ok
    /\ Within(k.env, r.env)
    /\ r.env.variableTypes = k.env.variableTypes
    /\ r.env.store = k.env.store
    /\ s \subseteq DOMAIN r.env.variablesMappingsPerBlock

GuardLoop == INSTANCE LoopTheorems WITH Iteration <- ShareGuard, Invariant <- GuardShared

LEMMA HasMapping ==
    ASSUME NEW e, NEW b, NEW v \in DOMAIN Mapping(e, b)
    PROVE  b \in DOMAIN e.variablesMappingsPerBlock
<1>1. DOMAIN << >> = {}
  OBVIOUS
<1> QED BY <1>1 DEF Mapping

LEMMA AllGuardsShared ==
    ASSUME NEW k, Tidy(k.env), k.name # NoName, k.name \notin Registers \cup Constants, NEW S \in SUBSET Block, NEW r, r.ok, r.env = k.env
    PROVE  GuardShared(k, S, GuardLoop!Results(k, S, r)[S])
<1>1. GuardShared(k, {}, r)
  BY WithinReflexive DEF GuardShared
<1>2. ASSUME NEW s \in SUBSET S, NEW b \in s, NEW q, GuardShared(k, s \ {b}, q)
      PROVE  GuardShared(k, s, IF q.ok THEN ShareGuard(k, q.env, b) ELSE q)
  <2> DEFINE d == MapIn(q.env, b, k.name, k.name)
  <2>1. Tidy(q.env) /\ b \in Block /\ Raw(k.name, k.name)
    BY <1>2 DEF GuardShared, Within, Raw
  <2>2. /\ Follows(q.env, d)
        /\ d.variableTypes = q.env.variableTypes
        /\ d.store = q.env.store
        /\ k.name \in DOMAIN Mapping(d, b)
    BY <2>1, MapInFollows
  <2>3. ShareGuard(k, q.env, b) = Succeed(d)
    BY DEF ShareGuard
  <2> HIDE DEF d
  <2>4. b \in DOMAIN d.variablesMappingsPerBlock
    BY <2>2, HasMapping
  <2>5. Within(k.env, d)
    BY <1>2, <2>2, WithinTransitive DEF GuardShared, Follows
  <2>6. s \subseteq DOMAIN d.variablesMappingsPerBlock
    BY <1>2, <2>2, <2>4 DEF GuardShared, Follows, Within, Grows
  <2>7. GuardShared(k, s, Succeed(d))
    BY <1>2, <2>2, <2>5, <2>6 DEF GuardShared, Succeed
  <2> QED BY <1>2, <2>3, <2>7 DEF GuardShared
<1>3. GuardLoop!Inductive(S)
  BY BlocksSmallest DEF SomeSmallest, GuardLoop!Inductive
<1> QED BY <1>1, <1>2, <1>3, GuardLoop!LoopInvariant

\* No block that had a mapping has lost it.
Keeps(e, d) == DOMAIN e.variablesMappingsPerBlock \subseteq DOMAIN d.variablesMappingsPerBlock

LEMMA AnnounceOpens ==
    ASSUME NEW e, Opening(e, {}), NEW g, NEW b, NEW i
    PROVE  LET r == announceTransition(g, e, b, i)
           IN  /\ r.ok
               /\ Opening(r.env, {})
               /\ Keeps(e, r.env)
               /\ Reach(g, g[b][i]) \subseteq DOMAIN r.env.variablesMappingsPerBlock
<1> DEFINE target == g[b][i]
           name == TransitionGuard(b, target)
           result == CreateFutureBinder(e.store, name, "bool")
           promised == Build(e, result)
           k == [env |-> promised.env, name |-> name]
           S == Reach(g, target)
           shared == GuardLoop!Results(k, S, promised)[S]
           r == announceTransition(g, e, b, i)
<1>1. r = shared
  <2>1. ForEach(S, promised, LAMBDA f, s : Succeed(MapIn(f, s, name, name))) = shared
    <3> HIDE DEF promised, name
    <3> QED BY DEF ForEach, FoldSet, MapThenFoldSet, GuardLoop!Results, ShareGuard
  <2> HIDE DEF shared
  <2> QED BY <2>1 DEF announceTransition
<1> HIDE DEF r
<1>2. name[1] = "transition" /\ name # NoName /\ S \subseteq Block
  BY NamesApart DEF TransitionGuard, Reach
<1> HIDE DEF name
<1>8. name \notin Registers \cup Constants
  BY <1>2 DEF Registers, Constants, Register, constInt
<1>3. /\ result.ok
      /\ Grown(e.store, result.store)
      /\ Bound(result.store) = {}
      /\ TransitionsPromised(result.store)
  <2>1. DOMAIN e.store = StoreFields
    BY DEF Opening, Tidy, Shape
  <2> QED BY <1>2, <2>1, FuturePromised, FutureBinderCreated DEF Opening
<1> HIDE DEF result
<1>4. /\ Follows(e, promised.env)
      /\ promised.ok
      /\ promised.env.store = result.store
      /\ promised.env.variableTypes = e.variableTypes
  BY <1>3, BuildFollows DEF Opening
<1>5. k.env = promised.env /\ k.name = name
  OBVIOUS
<1> HIDE DEF promised, k, S
<1>6. GuardShared(k, S, shared)
  BY <1>2, <1>4, <1>5, <1>8, AllGuardsShared DEF Follows, Within
<1> HIDE DEF shared
<1>7. Opening(shared.env, {})
  BY <1>3, <1>4, <1>5, <1>6 DEF GuardShared, Follows, Within, Opening
<1> QED BY <1>1, <1>4, <1>5, <1>6, <1>7 DEF GuardShared, Follows, Within, Grows, Keeps, r, S

\* Every edge is announced.
AnnounceOne(k, d, t) == announceTransition(k.succ, d, t[1], t[2])

TransitionsAnnounced(k, s, r) ==
    /\ r.ok
    /\ Opening(r.env, {})
    /\ \A t \in s : Reach(k.succ, k.succ[t[1]][t[2]]) \subseteq DOMAIN r.env.variablesMappingsPerBlock

AnnounceLoop == INSTANCE LoopTheorems WITH Iteration <- AnnounceOne,
                                           Invariant <- TransitionsAnnounced

LEMMA AllTransitionsAnnounced ==
    ASSUME NEW k, NEW S \in SUBSET (Block \X (1 .. 2)), NEW r, r = Succeed(EmptyEnvironment)
    PROVE  TransitionsAnnounced(k, S, AnnounceLoop!Results(k, S, r)[S])
<1>1. TransitionsAnnounced(k, {}, r)
  BY EmptyOpening DEF TransitionsAnnounced, Succeed
<1>2. ASSUME NEW s \in SUBSET S, NEW t \in s, NEW q, TransitionsAnnounced(k, s \ {t}, q)
      PROVE  TransitionsAnnounced(k, s, IF q.ok THEN AnnounceOne(k, q.env, t) ELSE q)
  <2> DEFINE f == AnnounceOne(k, q.env, t)
             blocks(u) == Reach(k.succ, k.succ[u[1]][u[2]])
  <2>1. /\ f.ok
        /\ Opening(f.env, {})
        /\ Keeps(q.env, f.env)
        /\ blocks(t) \subseteq DOMAIN f.env.variablesMappingsPerBlock
    BY <1>2, AnnounceOpens DEF AnnounceOne, TransitionsAnnounced
  <2> HIDE DEF f
  <2>2. ASSUME NEW u \in s
        PROVE  blocks(u) \subseteq DOMAIN f.env.variablesMappingsPerBlock
    <3>1. CASE u = t
      BY <2>1, <3>1
    <3>2. CASE u # t
      <4>1. blocks(u) \subseteq DOMAIN q.env.variablesMappingsPerBlock
        BY <1>2, <3>2 DEF TransitionsAnnounced
      <4> QED BY <2>1, <4>1 DEF Keeps
    <3> QED BY <3>1, <3>2
  <2>3. TransitionsAnnounced(k, s, f)
    BY <2>1, <2>2 DEF TransitionsAnnounced
  <2> QED BY <1>2, <2>3 DEF TransitionsAnnounced, f
<1>3. AnnounceLoop!Inductive(S)
  <2>1. IsFiniteSet(1 .. 2)
    <3>1. \A n \in Nat : IsFiniteSet(1 .. n)
      BY FS_Interval
    <3> QED BY <3>1, Zenon
  <2>2. IsFiniteSet(S)
    BY <2>1, BlockAssumption, FS_Product, FS_Subset
  <2> QED BY <2>2, FiniteSmallest DEF SomeSmallest, AnnounceLoop!Inductive
<1> QED BY <1>1, <1>2, <1>3, AnnounceLoop!LoopInvariant

\* Every block gets its guard.
Guards(blocks) == {BlockGuard(b) : b \in blocks}

MakeGuard(k, d, b) ==
    Build(d, CreateBinderWithConstraints(d.store, BlockGuard(b), "bool",
                                         {Over(GuardNames(k.succ, b))}))

GuardsMade(k, s, r) ==
    /\ r.ok
    /\ Opening(r.env, Guards(s))
    /\ Keeps(k.env, r.env)

MakeLoop == INSTANCE LoopTheorems WITH Iteration <- MakeGuard, Invariant <- GuardsMade

LEMMA AllGuardsMade ==
    ASSUME NEW k, NEW S \in SUBSET Block, NEW r, r.ok, r.env = k.env, Opening(k.env, {})
    PROVE  GuardsMade(k, S, MakeLoop!Results(k, S, r)[S])
<1>1. GuardsMade(k, {}, r)
  <2>1. Guards({}) = {}
    BY DEF Guards
  <2> QED BY <2>1 DEF GuardsMade, Keeps
<1>2. ASSUME NEW s \in SUBSET S, NEW b \in s, NEW q, GuardsMade(k, s \ {b}, q)
      PROVE  GuardsMade(k, s, IF q.ok THEN MakeGuard(k, q.env, b) ELSE q)
  <2> DEFINE name == BlockGuard(b)
             result == CreateBinderWithConstraints(q.env.store, name, "bool",
                                                   {Over(GuardNames(k.succ, b))})
             f == Build(q.env, result)
  <2>1. /\ Opening(q.env, Guards(s \ {b}))
        /\ DOMAIN q.env.store = StoreFields
        /\ Tidy(q.env)
    BY <1>2 DEF GuardsMade, Opening, Tidy, Shape
  <2>2. name \notin Bound(q.env.store)
    <3>1. Bound(q.env.store) = Guards(s \ {b})
      BY <2>1 DEF Opening
    <3>2. \A c : BlockGuard(c) = BlockGuard(b) => c = b
      BY DEF BlockGuard
    <3> QED BY <3>1, <3>2 DEF Guards
  <2>3. name \notin Promised(q.env.store)
    <3>1. name[1] = "block"
      BY DEF BlockGuard
    <3> QED BY <2>1, <3>1 DEF Opening, TransitionsPromised
  <2>4. MakeGuard(k, q.env, b) = f
    BY DEF MakeGuard
  <2>5. /\ result.ok
        /\ Bound(result.store) = Bound(q.env.store) \cup {name}
        /\ result.store.futureBindersMapping = q.env.store.futureBindersMapping
        /\ Grown(q.env.store, result.store)
    <3> HIDE DEF name
    <3>1. Grown(q.env.store, result.store)
      BY <2>1, ConstrainedBinderCreated DEF BinderMade
    <3> QED BY <2>1, <2>2, <2>3, <3>1, NewBinderMade
  <2> HIDE DEF result
  <2>6. /\ Follows(q.env, f.env)
        /\ f.ok
        /\ f.env.store = result.store
        /\ f.env.variableTypes = q.env.variableTypes
    BY <2>1, <2>5, BuildFollows
  <2> HIDE DEF f
  <2>7. TransitionsPromised(f.env.store)
    BY <2>1, <2>5, <2>6 DEF Opening, TransitionsPromised, Promised
  <2>8. Bound(f.env.store) = Guards(s)
    <3>1. Guards(s) = Guards(s \ {b}) \cup {name}
      BY DEF Guards
    <3> QED BY <2>1, <2>5, <2>6, <3>1 DEF Opening
  <2>9. Opening(f.env, Guards(s)) /\ Keeps(k.env, f.env)
    BY <1>2, <2>1, <2>6, <2>7, <2>8 DEF Opening, Follows, Within, GuardsMade, Keeps, Grows
  <2> QED BY <1>2, <2>4, <2>6, <2>9 DEF GuardsMade
<1>3. MakeLoop!Inductive(S)
  BY BlocksSmallest DEF SomeSmallest, MakeLoop!Inductive
<1> QED BY <1>1, <1>2, <1>3, MakeLoop!LoopInvariant

LEMMA BlockGuardsInitialized ==
    ASSUME NEW g \in [Block -> Terminators]
    PROVE  LET r == initializeBlockGuards(g, EmptyEnvironment)
           IN  /\ r.ok
               /\ Opening(r.env, Guards(Reach(g, Entry)))
               /\ Reach(g, Entry) \ {Entry} \subseteq DOMAIN r.env.variablesMappingsPerBlock
<1> DEFINE e == EmptyEnvironment
           blocks == Reach(g, Entry)
           transfers == {t \in blocks \X (1 .. 2) : t[2] \in DOMAIN g[t[1]]}
           k == [succ |-> g]
           announced == AnnounceLoop!Results(k, transfers, Succeed(e))[transfers]
           j == [succ |-> g, env |-> announced.env]
           made == MakeLoop!Results(j, blocks, announced)[blocks]
           r == initializeBlockGuards(g, e)
<1>1. r = made
  <2>1. ForEach(transfers, Succeed(e), LAMBDA d, t : announceTransition(g, d, t[1], t[2])) = announced
    <3> HIDE DEF transfers, e
    <3> QED BY DEF ForEach, FoldSet, MapThenFoldSet, AnnounceLoop!Results, AnnounceOne
  <2> HIDE DEF announced
  <2>2. ForEach(blocks, announced,
                LAMBDA d, b : Build(d, CreateBinderWithConstraints(d.store, BlockGuard(b), "bool",
                                                                   {Over(GuardNames(g, b))})))
            = made
    <3> HIDE DEF blocks
    <3> QED BY DEF ForEach, FoldSet, MapThenFoldSet, MakeLoop!Results, MakeGuard
  <2> HIDE DEF made, e
  <2> QED BY <2>1, <2>2 DEF initializeBlockGuards
<1> HIDE DEF r
<1>2. k.succ = g /\ blocks \in SUBSET Block /\ transfers \in SUBSET (Block \X (1 .. 2))
  BY DEF Reach
<1> HIDE DEF k
<1>3. TransitionsAnnounced(k, transfers, announced)
  <2> HIDE DEF transfers
  <2> QED BY <1>2, AllTransitionsAnnounced
<1> HIDE DEF announced
<1>4. j.env = announced.env
  OBVIOUS
<1> HIDE DEF j
<1>5. GuardsMade(j, blocks, made)
  <2> HIDE DEF blocks
  <2> QED BY <1>2, <1>3, <1>4, AllGuardsMade DEF TransitionsAnnounced
<1> HIDE DEF made
<1>6. ASSUME NEW c \in blocks \ {Entry}  PROVE c \in DOMAIN announced.env.variablesMappingsPerBlock
  <2>1. g \in [Block -> Seq(Block)]
    BY TerminatorsAreSequences
  <2>2. PICK p \in blocks : c \in Successors(g, p)
    BY <2>1, EntryAssumption, LastEdge
  <2>3. PICK i \in DOMAIN g[p] : c = g[p][i]
    BY <2>2 DEF Successors
  <2>4. <<p, i>> \in transfers
    BY <1>2, <2>2, <2>3, SuccessorsOfTerminator
  <2>5. Reach(g, g[p][i]) \subseteq DOMAIN announced.env.variablesMappingsPerBlock
    <3> DEFINE t == <<p, i>>
    <3>1. t[1] = p /\ t[2] = i /\ t \in transfers
      BY <2>4
    <3> HIDE DEF t, transfers
    <3> QED BY <1>2, <1>3, <3>1 DEF TransitionsAnnounced
  <2>6. c \in Reach(g, c)
    BY <1>2, <2>1, ReachStep
  <2> QED BY <2>3, <2>5, <2>6
<1> QED BY <1>1, <1>4, <1>5, <1>6 DEF GuardsMade, Keeps, r, blocks, e

\* The first block is current, and these names have binders.
Opened(g, e, names) ==
    /\ Tidy(e)
    /\ e.variableTypes = << >>
    /\ e.currentBlockName = Entry
    /\ e.finishedBlocks = {}
    /\ Bound(e.store) = names
    /\ TransitionsPromised(e.store)
    /\ Reach(g, Entry) \ {Entry} \subseteq DOMAIN e.variablesMappingsPerBlock

LEMMA NothingInherited ==
    ASSUME NEW g, NEW e
    PROVE  inheritVariables(g, e, {}) = Succeed(e)
<1> DEFINE k == [succ |-> g, env |-> e, p |-> CHOOSE p \in {} : TRUE, previous |-> {}]
           agree(v) == \A p, q \in {} : Mapping(e, p)[v] = Mapping(e, q)[v]
           same == {v \in CommonVariables(e, {}) : agree(v)}
           different == {v \in CommonVariables(e, {}) : ~agree(v)}
           kept == ForEach(same, Succeed(e),
                       LAMBDA d, v : Succeed(MapVariable(d, v, Mapping(e, CHOOSE p \in {} : TRUE)[v])))
           joined == ForEach(different, kept,
                       LAMBDA d, v : createPhiNodeWithoutCreatedBinders(g, CountVersion(d, v), v,
                              getNextVariableName(d, v), d.variableTypes[v],
                              [p \in {} |-> Mapping(d, p)[v]]))
<1>1. same = {} /\ different = {}
  BY DEF CommonVariables
<1>2. kept = KeepLoop!Results(k, same, Succeed(e))[same]
  <2> HIDE DEF same
  <2> QED BY DEF ForEach, FoldSet, MapThenFoldSet, KeepLoop!Results, KeepVariable
<1> HIDE DEF kept, same
<1>3. kept = Succeed(e)
  <2> HIDE DEF k
  <2> QED BY <1>1, <1>2, KeepLoop!NothingDone
<1>4. joined = JoinLoop!Results(k, different, kept)[different]
  <2> HIDE DEF different
  <2> QED BY DEF ForEach, FoldSet, MapThenFoldSet, JoinLoop!Results, JoinVariable
<1> HIDE DEF joined, different
<1>5. joined = kept
  <2> HIDE DEF k
  <2> QED BY <1>1, <1>4, JoinLoop!NothingDone
<1>6. inheritVariables(g, e, {}) = joined
  BY DEF inheritVariables, joined, kept, same, different
<1> QED BY <1>3, <1>5, <1>6

LEMMA EntryStarted ==
    ASSUME NEW g \in [Block -> Terminators]
    PROVE  Opened(g, StartBlock(g, EmptyEnvironment, Entry).env, Guards(Reach(g, Entry)))
<1> DEFINE previous == ReachablePredecessors(g, Entry)
           left == initializeBlockGuards(g, EmptyEnvironment)
           entered == [left.env EXCEPT !.currentBlockName = Entry]
           touched == [entered EXCEPT !.variablesMappingsPerBlock =
                            [b \in DOMAIN @ \cup previous |-> Mapping(entered, b)]]
           common == getCommonVariables(g, entered, previous)
           r == StartBlock(g, EmptyEnvironment, Entry)
           names == Guards(Reach(g, Entry))
<1>1. /\ left.ok
      /\ Opening(left.env, names)
      /\ Reach(g, Entry) \ {Entry} \subseteq DOMAIN left.env.variablesMappingsPerBlock
  BY BlockGuardsInitialized
<1>2. r = IF ~left.ok THEN left
          ELSE IF Entry \in left.env.finishedBlocks THEN Fail(left.env)
          ELSE IF ~common.ok THEN common ELSE inheritVariables(g, common.env, previous)
  <2>1. EmptyEnvironment.currentBlockName = NoBlock
    BY DEF EmptyEnvironment
  <2> HIDE DEF left, common
  <2> QED BY <2>1 DEF StartBlock, Then, Fail, left, common
<1> HIDE DEF left, names, r
<1>3. Opened(g, entered, names)
  BY <1>1, EntryAssumption, EnterAdvances DEF Opening, Opened, Advances
<1>4. Opened(g, touched, names)
  <2>1. /\ Follows(entered, touched)
        /\ touched.variableTypes = entered.variableTypes
        /\ touched.store = entered.store
    <3> HIDE DEF entered
    <3> QED BY <1>3, PreviousBlocks, TouchFollows DEF Opened
  <2> HIDE DEF entered, touched
  <2> QED BY <1>3, <2>1 DEF Opened, Follows, Within, Grows
<1>5. Entry \notin left.env.finishedBlocks /\ entered.finishedBlocks = {}
  BY <1>1, <1>3 DEF Opening, Opened
<1> HIDE DEF entered
<1>6. CASE previous = {}
  <2>1. common = Succeed(touched)
    BY <1>5, <1>6 DEF getCommonVariables
  <2> HIDE DEF common, touched
  <2>2. r = inheritVariables(g, touched, {})
    BY <1>1, <1>2, <1>5, <1>6, <2>1 DEF Succeed
  <2>3. r.env = touched
    BY <2>2, NothingInherited DEF Succeed
  <2> QED BY <1>4, <2>3 DEF r, names
<1>7. CASE previous # {}
  <2>1. ~validateFinishedAndUnfinishedBlockStates(g, {}, previous)
    BY FS_EmptySet DEF validateFinishedAndUnfinishedBlockStates
  <2>2. common = Fail(entered)
    <3> HIDE DEF touched
    <3> QED BY <1>5, <1>7, <2>1 DEF getCommonVariables
  <2> HIDE DEF common
  <2>3. r.env = entered
    BY <1>1, <1>2, <1>5, <2>2 DEF Fail
  <2> QED BY <1>3, <2>3 DEF r, names
<1> QED BY <1>6, <1>7

--------------------------------------------------------------------------------
\* The signature.

LEMMA RegistersFinite ==
    ASSUME NEW S \in SUBSET Registers
    PROVE  IsFiniteSet(S)
<1> DEFINE N == 1 .. MaxRegisters
<1>1. IsFiniteSet(N)
  BY CountsAssumption, FS_Interval
<1> DEFINE f == [n \in N |-> Register(n)]
<1>2. Registers = {Register(n) : n \in N}
  BY DEF Registers
<1> HIDE DEF N
<1>3. f \in Surjection(N, Registers)
  BY <1>2 DEF Surjection
<1>4. IsFiniteSet(Registers)
  BY <1>1, <1>3, FS_Surjection
<1> QED BY <1>4, FS_Subset

AddParameter(k, d, p) == CreateImmutableInputVariable(d, p, "int", Refinement({}))

SignatureFollows(k, s, r) == Follows(k.env, r.env)

SignatureLoop == INSTANCE LoopTheorems WITH Iteration <- AddParameter, Invariant <- SignatureFollows

LEMMA SignatureLoopIs ==
    ASSUME NEW k, NEW e, NEW names
    PROVE  ForEach(names, Succeed(e),
                   LAMBDA d, p : CreateImmutableInputVariable(d, p, "int", Refinement({})))
            = SignatureLoop!Results(k, names, Succeed(e))[names]
BY DEF ForEach, FoldSet, MapThenFoldSet, SignatureLoop!Results, AddParameter

LEMMA AllParametersFollow ==
    ASSUME NEW k, Tidy(k.env), Running(k.env), NEW S, IsFiniteSet(S), NoName \notin S,
           NEW r, r = Succeed(k.env)
    PROVE  SignatureFollows(k, S, SignatureLoop!Results(k, S, r)[S])
<1>1. SignatureFollows(k, {}, r)
  BY FollowsReflexive DEF SignatureFollows, Succeed
<1>2. ASSUME NEW s \in SUBSET S, NEW p \in s, NEW q, SignatureFollows(k, s \ {p}, q)
      PROVE  SignatureFollows(k, s, IF q.ok THEN AddParameter(k, q.env, p) ELSE q)
  <2> DEFINE f == AddParameter(k, q.env, p)
  <2>1. Tidy(q.env) /\ Running(q.env) /\ p # NoName
    BY <1>2, RunningStays DEF SignatureFollows, Follows, Within
  <2>2. Follows(q.env, f.env)
    BY <2>1, CreateInputMakes DEF AddParameter, Made
  <2> HIDE DEF f
  <2>3. Follows(k.env, f.env)
    BY <1>2, <2>2, FollowsTransitive DEF SignatureFollows
  <2> QED BY <1>2, <2>3 DEF SignatureFollows, f
<1>3. SignatureLoop!Inductive(S)
  BY FiniteSmallest DEF SomeSmallest, SignatureLoop!Inductive
<1> QED BY <1>1, <1>2, <1>3, SignatureLoop!LoopInvariant

LEMMA SignatureBuilt ==
    ASSUME NEW e, Tidy(e), Running(e), NEW names, IsFiniteSet(names), NoName \notin names,
           NEW result \in ResultNames, result # Return
    PROVE  Follows(e, buildConstraintsFromSignatureForBlock(e, names, result).env)
<1> DEFINE k == [env |-> e]
           q == SignatureLoop!Results(k, names, Succeed(e))[names]
           output == CreateMutableOutputVariable(q.env, result, "int", Refinement(names))
           r == buildConstraintsFromSignatureForBlock(e, names, result)
<1>1. r = IF q.ok THEN output ELSE q
  <2> HIDE DEF k
  <2> QED BY SignatureLoopIs DEF buildConstraintsFromSignatureForBlock, Then
<1> HIDE DEF r
<1>2. k.env = e
  OBVIOUS
<1> HIDE DEF k
<1>3. Follows(e, q.env)
  BY <1>2, AllParametersFollow DEF SignatureFollows
<1> HIDE DEF q
<1>4. Follows(q.env, output.env)
  BY <1>3, RunningStays, CreateOutputMakes DEF Follows, Within, Made
<1> HIDE DEF output
<1>5. Follows(e, output.env)
  BY <1>3, <1>4, FollowsTransitive
<1> QED BY <1>1, <1>3, <1>5 DEF r

\* A name that is new to the environment gets its binder.
LEMMA IOSucceeds ==
    ASSUME NEW e, Tidy(e), Running(e), NEW v, v # NoName, v \notin DOMAIN e.variableTypes,
           v \notin Bound(e.store), v \notin Promised(e.store), NEW type, NEW constraints
    PROVE  LET r == createIOVariable(e, v, type, constraints)
           IN  /\ r.ok
               /\ Bound(r.env.store) = Bound(e.store) \cup {v}
               /\ r.env.store.futureBindersMapping = e.store.futureBindersMapping
               /\ DOMAIN r.env.variableTypes = DOMAIN e.variableTypes \cup {v}
<1> DEFINE result == CreateBinderWithConstraints(e.store, v, type, constraints)
           built == Build(e, result)
           d == Introduce(built.env, v, v, type)
           r == createIOVariable(e, v, type, constraints)
<1>1. r = IF built.ok THEN Succeed(d) ELSE built
  BY DEF createIOVariable, Then, Introduce, IsVariableDefined
<1> HIDE DEF r
<1>2. /\ result.ok
      /\ Bound(result.store) = Bound(e.store) \cup {v}
      /\ result.store.futureBindersMapping = e.store.futureBindersMapping
      /\ Grown(e.store, result.store)
  <2>1. DOMAIN e.store = StoreFields
    BY DEF Tidy, Shape
  <2>2. Grown(e.store, result.store)
    BY <2>1, ConstrainedBinderCreated DEF BinderMade
  <2> QED BY <2>1, <2>2, NewBinderMade
<1> HIDE DEF result
<1>3. /\ Follows(e, built.env)
      /\ built.ok
      /\ built.env.store = result.store
      /\ built.env.variableTypes = e.variableTypes
  BY <1>2, BuildFollows
<1> HIDE DEF built
<1>4. d.store = result.store /\ DOMAIN d.variableTypes = DOMAIN e.variableTypes \cup {v}
  <2>1. Tidy(built.env) /\ Running(built.env) /\ Raw(v, v) /\ v \notin DOMAIN built.env.variableTypes
    BY <1>3, RunningStays DEF Follows, Within, Raw
  <2>2. v \in Bound(built.env.store)
    BY <1>2, <1>3
  <2> QED BY <1>3, <2>1, <2>2, IntroduceMakes
<1> HIDE DEF d
<1> QED BY <1>1, <1>2, <1>3, <1>4 DEF Succeed, r

\* The parameters in s are the only variables.
ParametersMade(k, s, r) ==
    /\ r.ok
    /\ Follows(k.env, r.env)
    /\ DOMAIN r.env.variableTypes = s
    /\ \A p \in s : /\ r.env.variableTypes[p] = "int"
                    /\ p \in DOMAIN Mapping(r.env, k.env.currentBlockName)
    /\ Bound(r.env.store) = Bound(k.env.store) \cup s
    /\ TransitionsPromised(r.env.store)

ParameterLoop == INSTANCE LoopTheorems WITH Iteration <- AddParameter, Invariant <- ParametersMade

LEMMA AllParametersMade ==
    ASSUME NEW k, Opened(k.succ, k.env, Guards(Reach(k.succ, Entry))), NEW S \in SUBSET Registers,
           NEW r, r = Succeed(k.env)
    PROVE  ParametersMade(k, S, ParameterLoop!Results(k, S, r)[S])
<1> USE EntryAssumption
<1>1. ParametersMade(k, {}, r)
  BY FollowsReflexive DEF ParametersMade, Succeed, Opened
<1>2. ASSUME NEW s \in SUBSET S, NEW p \in s, NEW q, ParametersMade(k, s \ {p}, q)
      PROVE  ParametersMade(k, s, IF q.ok THEN AddParameter(k, q.env, p) ELSE q)
  <2> DEFINE f == AddParameter(k, q.env, p)
             io == createIOVariable(q.env, p, "int", Refinement({}))
             b == k.env.currentBlockName
  <2>1. Tidy(q.env) /\ Running(q.env) /\ q.env.currentBlockName = b
    BY <1>2, RunningStays DEF ParametersMade, Follows, Within, Opened, Running
  <2>2. p[1] = "register" /\ p # NoName
    BY NamesApart DEF Registers, Register
  <2>3. p \notin DOMAIN q.env.variableTypes /\ p \notin Promised(q.env.store)
    BY <1>2, <2>2 DEF ParametersMade, TransitionsPromised
  <2>4. p \notin Bound(q.env.store)
    <3>1. p \notin Guards(Reach(k.succ, Entry))
      BY <2>2 DEF Guards, BlockGuard
    <3> QED BY <1>2, <3>1 DEF ParametersMade, Opened
  <2>5. /\ io.ok
        /\ Bound(io.env.store) = Bound(q.env.store) \cup {p}
        /\ io.env.store.futureBindersMapping = q.env.store.futureBindersMapping
        /\ DOMAIN io.env.variableTypes = DOMAIN q.env.variableTypes \cup {p}
    <3> DEFINE d == q.env
               constraints == Refinement({})
    <3>1. /\ Tidy(d) /\ Running(d) /\ p \notin DOMAIN d.variableTypes
          /\ p \notin Bound(d.store) /\ p \notin Promised(d.store)
      BY <2>1, <2>3, <2>4
    <3> HIDE DEF d, constraints
    <3>2. LET x == createIOVariable(d, p, "int", constraints)
          IN  /\ x.ok
              /\ Bound(x.env.store) = Bound(d.store) \cup {p}
              /\ x.env.store.futureBindersMapping = d.store.futureBindersMapping
              /\ DOMAIN x.env.variableTypes = DOMAIN d.variableTypes \cup {p}
      BY <2>2, <3>1, IOSucceeds
    <3> QED BY <3>2 DEF d, constraints
  <2>6. /\ Made(q.env, f, p, "int")
        /\ f.ok = io.ok
        /\ f.env.store = io.env.store
        /\ f.env.variableTypes = io.env.variableTypes
    BY <2>1, <2>2, CreateInputMakes DEF AddParameter
  <2> HIDE DEF f, io, b
  <2>7. Follows(k.env, f.env)
    BY <1>2, <2>6, FollowsTransitive DEF ParametersMade, Made
  <2>8. ASSUME NEW v \in s
        PROVE  f.env.variableTypes[v] = "int" /\ v \in DOMAIN Mapping(f.env, b)
    <3>1. CASE v = p
      BY <2>1, <2>5, <2>6, <3>1 DEF Made, HasType
    <3>2. CASE v # p
      <4>1. /\ v \in DOMAIN q.env.variableTypes /\ q.env.variableTypes[v] = "int"
            /\ v \in DOMAIN Mapping(q.env, b)
            /\ b \in Block
        BY <1>2, <2>1, <3>2 DEF ParametersMade, Running, b
      <4> QED BY <2>6, <4>1 DEF Made, Follows, Within, Grows
    <3> QED BY <3>1, <3>2
  <2>9. DOMAIN f.env.variableTypes = s /\ Bound(f.env.store) = Bound(k.env.store) \cup s
    BY <1>2, <2>5, <2>6 DEF ParametersMade
  <2>10. TransitionsPromised(f.env.store)
    BY <1>2, <2>5, <2>6 DEF ParametersMade, TransitionsPromised, Promised
  <2> QED BY <1>2, <2>5, <2>6, <2>7, <2>8, <2>9, <2>10 DEF ParametersMade, f, b
<1>3. ParameterLoop!Inductive(S)
  <2>1. IsFiniteSet(S)
    BY RegistersFinite
  <2> QED BY <2>1, FiniteSmallest DEF SomeSmallest, ParameterLoop!Inductive
<1> QED BY <1>1, <1>2, <1>3, ParameterLoop!LoopInvariant

\* The environment in the first block, when the signature has been built.
LEMMA FirstEnvironment ==
    ASSUME NEW g \in [Block -> Terminators], NEW parameters \in SUBSET Registers, NEW e,
           e = buildConstraintsFromSignatureForBlock(
                   StartBlock(g, EmptyEnvironment, Entry).env, parameters, Return).env
    PROVE  /\ Tidy(e)
           /\ e.currentBlockName = Entry
           /\ e.finishedBlocks = {}
           /\ DOMAIN e.variableTypes = parameters \cup {Return}
           /\ \A p \in parameters :
                 e.variableTypes[p] = "int" /\ p \in DOMAIN Mapping(e, Entry)
           /\ Reach(g, Entry) \subseteq DOMAIN e.variablesMappingsPerBlock
           /\ Return \in DOMAIN e.mutableVariableConstraints
           /\ e.mutableVariableConstraints[Return] = Refinement(parameters)
           /\ Guards(Reach(g, Entry)) \subseteq Bound(e.store)
<1> DEFINE start == StartBlock(g, EmptyEnvironment, Entry).env
           names == Guards(Reach(g, Entry))
           k == [succ |-> g, env |-> start]
           q == ParameterLoop!Results(k, parameters, Succeed(start))[parameters]
           d == q.env
           note == [d EXCEPT !.mutableVariableConstraints = Put(@, Return, Refinement(parameters)),
                             !.outputVariables = @ \cup {Return}]
           output == CreateMutableOutputVariable(d, Return, "int", Refinement(parameters))
           io == createIOVariable(note, Return, "int", Refinement(parameters))
<1>1. Opened(g, start, names)
  BY EntryStarted
<1> HIDE DEF start
<1>2. k.env = start /\ k.succ = g
  OBVIOUS
<1>3. ForEach(parameters, Succeed(start),
              LAMBDA f, p : CreateImmutableInputVariable(f, p, "int", Refinement({}))) = q
  BY DEF ForEach, FoldSet, MapThenFoldSet, ParameterLoop!Results, AddParameter
<1> HIDE DEF k, q
<1>4. e = (IF q.ok THEN output ELSE q).env
  BY <1>3 DEF buildConstraintsFromSignatureForBlock, Then, start
<1>5. ParametersMade(k, parameters, q)
  BY <1>1, <1>2, AllParametersMade DEF q
<1>6. Tidy(d) /\ d.currentBlockName = Entry /\ d.finishedBlocks = {} /\ Running(d)
  BY <1>1, <1>2, <1>5, EntryAssumption DEF ParametersMade, Follows, Within, Opened, Running
<1>7. Return[1] = "return" /\ Return \in ResultNames /\ Return # NoName
  BY NamesApart DEF Return, ResultNames
<1>8. Return \notin DOMAIN d.variableTypes
  <2>1. \A p \in Registers : p[1] = "register"
    BY DEF Registers, Register
  <2> QED BY <1>5, <1>7, <2>1 DEF ParametersMade
<1>9. Return \notin Bound(d.store) /\ Return \notin Promised(d.store)
  <2>1. \A n \in names : n[1] = "block"
    BY DEF Guards, BlockGuard
  <2>2. \A p \in Registers : p[1] = "register"
    BY DEF Registers, Register
  <2> QED BY <1>1, <1>2, <1>5, <1>7, <2>1, <2>2 DEF ParametersMade, Opened, TransitionsPromised
<1>10. Follows(d, note) /\ note.variableTypes = d.variableTypes /\ note.store = d.store
  <2>1. note.variableTypes = d.variableTypes /\ note.store = d.store
    BY <1>6 DEF Tidy, Shape, EnvironmentFields
  <2>2. Follows(d, note)
    <3> DEFINE constraints == Refinement(parameters)
    <3> HIDE DEF d, constraints
    <3>1. Follows(d, [d EXCEPT !.mutableVariableConstraints = Put(@, Return, constraints),
                               !.outputVariables = @ \cup {Return}])
      BY <1>6, <1>7, <1>8, NoteFollows, Zenon
    <3> QED BY <3>1 DEF constraints
  <2> QED BY <2>1, <2>2
<1>19. /\ Return \in DOMAIN note.mutableVariableConstraints
       /\ note.mutableVariableConstraints[Return] = Refinement(parameters)
  <2> DEFINE notes == Put(d.mutableVariableConstraints, Return, Refinement(parameters))
  <2>1. Return \in DOMAIN notes /\ notes[Return] = Refinement(parameters)
    BY DEF Put
  <2> HIDE DEF notes
  <2>2. note.mutableVariableConstraints = notes
    BY <1>6 DEF Tidy, Shape, EnvironmentFields, notes
  <2> QED BY <2>1, <2>2
<1>11. output = io
  BY DEF CreateMutableOutputVariable
<1> HIDE DEF note
<1>12. io.ok
  BY <1>6, <1>7, <1>8, <1>9, <1>10, RunningStays, IOSucceeds DEF Follows, Within
<1>20. io.env.mutableVariableConstraints = note.mutableVariableConstraints
  <2> DEFINE constraints == Refinement(parameters)
  <2> HIDE DEF constraints
  <2>1. Tidy(note) /\ Running(note)
    BY <1>6, <1>10, RunningStays DEF Follows, Within
  <2>2. createIOVariable(note, Return, "int", constraints).env.mutableVariableConstraints
         = note.mutableVariableConstraints
    BY <1>7, <2>1, IOKeepsNotes
  <2> QED BY <2>2 DEF constraints
<1> HIDE DEF io
<1>13. /\ Made(d, output, Return, "int")
       /\ output.ok => DOMAIN output.env.variableTypes = DOMAIN d.variableTypes \cup {Return}
  <2> DEFINE constraints == Refinement(parameters)
  <2> HIDE DEF d, constraints
  <2>1. LET x == CreateMutableOutputVariable(d, Return, "int", constraints)
        IN  /\ Made(d, x, Return, "int")
            /\ x.ok => DOMAIN x.env.variableTypes = DOMAIN d.variableTypes \cup {Return}
    BY <1>6, <1>7, <1>8, CreateOutputMakes
  <2> QED BY <2>1 DEF constraints
<1> HIDE DEF output
<1>14. e = output.env /\ output.ok
  BY <1>4, <1>5, <1>11, <1>12 DEF ParametersMade
<1>15. Follows(d, e) /\ Follows(start, e)
  BY <1>2, <1>5, <1>13, <1>14, FollowsTransitive DEF Made, ParametersMade
<1>16. Entry \in DOMAIN e.variablesMappingsPerBlock
  BY <1>6, <1>13, <1>14, HasMapping DEF Made, HasType
<1>17. Reach(g, Entry) \subseteq DOMAIN e.variablesMappingsPerBlock
  BY <1>1, <1>15, <1>16 DEF Opened, Follows, Within, Grows
<1>18. ASSUME NEW p \in parameters
       PROVE  e.variableTypes[p] = "int" /\ p \in DOMAIN Mapping(e, Entry)
  <2>1. /\ p \in DOMAIN d.variableTypes /\ d.variableTypes[p] = "int"
        /\ p \in DOMAIN Mapping(d, Entry)
    BY <1>1, <1>2, <1>5 DEF ParametersMade, Opened
  <2> QED BY <1>15, <2>1, EntryAssumption DEF Follows, Within, Grows
<1>21. /\ Return \in DOMAIN e.mutableVariableConstraints
       /\ e.mutableVariableConstraints[Return] = Refinement(parameters)
  BY <1>11, <1>14, <1>19, <1>20
<1>22. names \subseteq Bound(e.store)
  BY <1>1, <1>15 DEF Opened, Follows, Within, Grows, Grown
<1> QED BY <1>5, <1>6, <1>13, <1>14, <1>15, <1>17, <1>18, <1>21, <1>22
   DEF ParametersMade, Follows, Within

--------------------------------------------------------------------------------
\* The calls that instructions make.

LEMMA MadeAfter ==
    ASSUME NEW e, NEW d, Follows(e, d), NEW r, NEW v, NEW type, Made(d, r, v, type)
    PROVE  Made(e, r, v, type)
BY FollowsTransitive DEF Made, HasType, Follows, Within

\* A call that is not successful has made nothing.
LEMMA MadeNothing ==
    ASSUME NEW e, NEW r, Follows(e, r.env), ~r.ok, NEW v, NEW type
    PROVE  Made(e, r, v, type)
BY DEF Made, HasType

LEMMA StillTidy ==
    ASSUME NEW e, Running(e), NEW d, Follows(e, d)
    PROVE  Tidy(d) /\ Running(d) /\ d.currentBlockName = e.currentBlockName
BY RunningStays DEF Follows, Within

LEMMA BinderFollows ==
    ASSUME NEW e, Tidy(e), Running(e), NEW operand, NEW type
    PROVE  Follows(e, getBinderName(e, operand, type).env)
<1>1. CASE operand \in Constants /\ ~IsVariableDefined(e, operand)
  <2> DEFINE constraints == Refinement({})
  <2> HIDE DEF constraints
  <2>1. Follows(e, CreateImmutableInputVariable(e, operand, type, constraints).env)
    BY <1>1, NamesApart, CreateInputMakes DEF Made
  <2> QED BY <1>1, <2>1 DEF getBinderName, constraints
<1>2. CASE ~(operand \in Constants /\ ~IsVariableDefined(e, operand))
  BY <1>2, FollowsReflexive DEF getBinderName, Succeed
<1> QED BY <1>1, <1>2

\* The operands of an instruction.
BindOperand(k, d, v) == getBinderName(d, v, k.type)

OperandsBound(k, s, r) == Follows(k.env, r.env)

BinderLoop == INSTANCE LoopTheorems WITH Iteration <- BindOperand, Invariant <- OperandsBound

LEMMA BindersFollow ==
    ASSUME NEW e, Tidy(e), Running(e), NEW S, IsFiniteSet(S), NEW type
    PROVE  Follows(e, getBinderNames(e, S, type).env)
<1> DEFINE k == [env |-> e, type |-> type]
           r == BinderLoop!Results(k, S, Succeed(e))[S]
<1>1. getBinderNames(e, S, type) = r
  BY DEF getBinderNames, ForEach, FoldSet, MapThenFoldSet, BinderLoop!Results, BindOperand
<1>2. k.env = e
  OBVIOUS
<1> HIDE DEF k
<1>3. OperandsBound(k, {}, Succeed(e))
  BY <1>2, FollowsReflexive DEF OperandsBound, Succeed
<1>4. ASSUME NEW s \in SUBSET S, NEW v \in s, NEW q, OperandsBound(k, s \ {v}, q)
      PROVE  OperandsBound(k, s, IF q.ok THEN BindOperand(k, q.env, v) ELSE q)
  <2> DEFINE f == BindOperand(k, q.env, v)
  <2>1. Tidy(q.env) /\ Running(q.env)
    BY <1>2, <1>4, StillTidy DEF OperandsBound
  <2>2. Follows(q.env, f.env)
    BY <2>1, BinderFollows DEF BindOperand
  <2> HIDE DEF f
  <2>3. Follows(k.env, f.env)
    BY <1>4, <2>2, FollowsTransitive DEF OperandsBound
  <2> QED BY <1>4, <2>3 DEF OperandsBound, f
<1>5. BinderLoop!Inductive(S)
  BY FiniteSmallest DEF SomeSmallest, BinderLoop!Inductive
<1>6. OperandsBound(k, S, r)
  <2> DEFINE start == Succeed(e)
  <2> HIDE DEF start
  <2>1. OperandsBound(k, S, BinderLoop!Results(k, S, start)[S])
    BY <1>3, <1>4, <1>5, BinderLoop!LoopInvariant DEF start
  <2> QED BY <2>1 DEF start
<1> QED BY <1>1, <1>2, <1>6 DEF OperandsBound

LEMMA ComputationMakes ==
    ASSUME NEW e, Tidy(e), Running(e), NEW r \in Registers, NEW type,
           NEW operands, IsFiniteSet(operands), NEW operandType
    PROVE  Made(e, CaptureComputation(e, r, type, operands, operandType), r, type)
<1> DEFINE bound == getBinderNames(e, operands, operandType)
           d == bound.env
           created == CreateImmutableVariable(d, r, type, {}, Over(MappedNames(d, operands)))
           x == CaptureComputation(e, r, type, operands, operandType)
<1>1. x = IF ~bound.ok THEN bound
          ELSE IF operands \subseteq DOMAIN Mapping(d, d.currentBlockName) THEN created
          ELSE Abort(d)
  BY DEF CaptureComputation, Then, LookUp
<1> HIDE DEF x
<1>2. Follows(e, d)
  BY BindersFollow
<1>3. Tidy(d) /\ Running(d)
  BY <1>2, StillTidy
<1> HIDE DEF bound
<1>4. Made(d, created, r, type)
  <2>1. r \notin Constants /\ r # NoName
    BY NamesApart
  <2> QED BY <1>3, <2>1, CreateImmutableMakes
<1> HIDE DEF created
<1>5. Made(e, created, r, type)
  BY <1>2, <1>4, MadeAfter
<1>6. Abort(d).env = d /\ ~Abort(d).ok
  BY DEF Abort
<1> QED BY <1>1, <1>2, <1>5, <1>6, MadeNothing DEF x

LEMMA ReturnFollows ==
    ASSUME NEW e, Tidy(e), Running(e), NEW operand
    PROVE  Follows(e, CaptureReturnInstructionConstraint(e, operand).env)
<1> DEFINE bound == getBinderName(e, operand, "int")
           d == bound.env
           assigned == AssignMutableVariable(d, Return, Over(MappedNames(d, {operand})))
           x == CaptureReturnInstructionConstraint(e, operand)
<1>1. x = IF ~bound.ok THEN bound
          ELSE IF {operand} \subseteq DOMAIN Mapping(d, d.currentBlockName) THEN assigned
          ELSE Abort(d)
  BY DEF CaptureReturnInstructionConstraint, Then, LookUp
<1> HIDE DEF x
<1>2. Follows(e, d)
  BY BinderFollows
<1>3. Tidy(d) /\ Running(d)
  BY <1>2, StillTidy
<1> HIDE DEF bound
<1>4. Follows(d, assigned.env)
  BY <1>3, NamesApart, AssignFollows
<1> HIDE DEF assigned
<1>5. Follows(e, assigned.env)
  BY <1>2, <1>4, FollowsTransitive
<1>6. Abort(d).env = d
  BY DEF Abort
<1> QED BY <1>1, <1>2, <1>5, <1>6 DEF x

LEMMA CaptureBranchFollows ==
    ASSUME NEW e, Tidy(e), Running(e), NEW condition, NEW success, NEW fail
    PROVE  Follows(e, CaptureBranch(e, condition, success, fail).env)
<1> DEFINE bound == getBinderName(e, condition, "bool")
           first == AddBranchInformation(bound.env, condition, success)
           second == AddBranchInformation(first.env, condition, fail)
           x == CaptureBranch(e, condition, success, fail)
<1>1. x = IF ~bound.ok THEN bound ELSE IF ~first.ok THEN first ELSE second
  BY DEF CaptureBranch, Then
<1> HIDE DEF x
<1>2. Follows(e, bound.env)
  BY BinderFollows
<1> HIDE DEF bound
<1>3. Follows(e, first.env)
  <2>1. Follows(bound.env, first.env)
    BY <1>2, BranchFollows DEF Follows, Within
  <2> HIDE DEF first
  <2> QED BY <1>2, <2>1, FollowsTransitive
<1> HIDE DEF first
<1>4. Follows(e, second.env)
  <2>1. Follows(first.env, second.env)
    BY <1>3, BranchFollows DEF Follows, Within
  <2> HIDE DEF second
  <2> QED BY <1>3, <2>1, FollowsTransitive
<1> HIDE DEF second
<1> QED BY <1>1, <1>2, <1>3, <1>4 DEF x

LEMMA CapturePhiMapped ==
    ASSUME NEW e, Tidy(e), Running(e), NEW g, NEW r \in Registers, NEW type,
           NEW sources, DOMAIN sources \subseteq Block,
           NEW values, values = {sources[p] : p \in DOMAIN sources},
           NEW bound, bound = getBinderNames(e, values, type)
    PROVE  Mapped(e, IF bound.ok THEN CreatePhiNode(g, bound.env, r, type, sources) ELSE bound, r)
<1> DEFINE P == DOMAIN sources
           S == {sources[p] : p \in P}
           d == bound.env
           phi == CreatePhiNode(g, d, r, type, sources)
<1>1. S = values
  OBVIOUS
<1>2. IsFiniteSet(S)
  <2>1. IsFiniteSet(P)
    BY BlockAssumption, FS_Subset
  <2> DEFINE f == [p \in P |-> sources[p]]
  <2> HIDE DEF P
  <2>2. f \in Surjection(P, S)
    BY DEF Surjection
  <2> HIDE DEF f
  <2> QED BY <2>1, <2>2, FS_Surjection
<1> HIDE DEF S
<1>3. Follows(e, d)
  BY <1>1, <1>2, BindersFollow
<1>4. Tidy(d) /\ Running(d) /\ d.currentBlockName = e.currentBlockName
  BY <1>3, StillTidy
<1>5. Mapped(d, phi, r)
  <2>1. Raw(r, r)
    BY NamesApart DEF Raw
  <2> QED BY <1>4, <2>1, PhiNodeInternalMapped DEF CreatePhiNode
<1> HIDE DEF phi
<1>6. Mapped(e, phi, r)
  BY <1>3, <1>4, <1>5, FollowsTransitive DEF Mapped
<1>7. CASE bound.ok
  BY <1>6, <1>7 DEF phi
<1>8. CASE ~bound.ok
  BY <1>3, <1>8 DEF Mapped
<1> QED BY <1>7, <1>8

\* No environment knows the empty name, so every select ends the run.
LEMMA SelectFails ==
    ASSUME NEW e, Tidy(e), Running(e), NEW condition, NEW trueValue, NEW type
    PROVE  LET x == CaptureSelectInstructionConstraint(e, condition, trueValue, type)
           IN  Follows(e, x.env) /\ ~x.ok
<1> DEFINE bound == getBinderName(e, condition, "bool")
           d == bound.env
           value == getBinderName(d, trueValue, type)
           f == value.env
           x == CaptureSelectInstructionConstraint(e, condition, trueValue, type)
<1>1. x = IF ~bound.ok THEN bound
          ELSE IF {condition} \subseteq DOMAIN Mapping(d, d.currentBlockName)
          THEN IF ~value.ok THEN value
               ELSE IF {NoName} \subseteq DOMAIN Mapping(f, f.currentBlockName) THEN Succeed(f)
               ELSE Abort(f)
          ELSE Abort(d)
  BY DEF CaptureSelectInstructionConstraint, Then, LookUp
<1> HIDE DEF x
<1>2. Follows(e, d)
  BY BinderFollows
<1>3. Tidy(d) /\ Running(d)
  BY <1>2, StillTidy
<1> HIDE DEF bound
<1>4. Follows(e, f)
  <2>1. Follows(d, f)
    BY <1>3, BinderFollows
  <2> HIDE DEF value
  <2> QED BY <1>2, <2>1, FollowsTransitive
<1>5. NoName \notin DOMAIN Mapping(f, f.currentBlockName)
  BY <1>4, StillTidy DEF Tidy, Running, Raw
<1> HIDE DEF value
<1>6. /\ Abort(d).env = d /\ ~Abort(d).ok
      /\ Abort(f).env = f /\ ~Abort(f).ok
  BY DEF Abort
<1> QED BY <1>1, <1>2, <1>4, <1>5, <1>6 DEF x

\* The actual values of a call are assigned to the formals, which is refused.
AssignActual(k, d, i) ==
    AssignMutableVariable(d, Formal(k.register, Register(i)), Over({k.actuals[i]}))

ActualsAssigned(k, s, r) == Follows(k.env, r.env)

ActualLoop == INSTANCE LoopTheorems WITH Iteration <- AssignActual, Invariant <- ActualsAssigned

LEMMA AllActualsAssigned ==
    ASSUME NEW k, Running(k.env), NEW S, IsFiniteSet(S), NEW start, Follows(k.env, start.env)
    PROVE  ActualsAssigned(k, S, ActualLoop!Results(k, S, start)[S])
<1>1. ActualsAssigned(k, {}, start)
  BY DEF ActualsAssigned
<1>2. ASSUME NEW s \in SUBSET S, NEW i \in s, NEW q, ActualsAssigned(k, s \ {i}, q)
      PROVE  ActualsAssigned(k, s, IF q.ok THEN AssignActual(k, q.env, i) ELSE q)
  <2> DEFINE formal == Formal(k.register, Register(i))
             f == AssignMutableVariable(q.env, formal, Over({k.actuals[i]}))
  <2>1. Tidy(q.env) /\ Running(q.env)
    BY <1>2, StillTidy DEF ActualsAssigned
  <2>2. formal \notin ResultNames \cup Cells
    <3>1. formal[1] = "formal" /\ formal[3][1] = "register"
      BY DEF Formal, Register
    <3>2. Return[1] = "return" /\ \A p : Formal(p, Return)[3] = Return /\ getValueVariable(p)[1] = "val"
      BY DEF Formal, Return, getValueVariable
    <3> HIDE DEF formal
    <3> QED BY <3>1, <3>2, Zenon DEF ResultNames, Cells
  <2> HIDE DEF formal
  <2>3. Follows(q.env, f.env)
    BY <2>1, <2>2, AssignFollows
  <2>4. AssignActual(k, q.env, i) = f
    BY DEF AssignActual, formal
  <2> HIDE DEF f
  <2>5. Follows(k.env, f.env)
    BY <1>2, <2>3, FollowsTransitive DEF ActualsAssigned
  <2> QED BY <1>2, <2>4, <2>5 DEF ActualsAssigned
<1>3. ActualLoop!Inductive(S)
  BY FiniteSmallest DEF SomeSmallest, ActualLoop!Inductive
<1> QED BY <1>1, <1>2, <1>3, ActualLoop!LoopInvariant

LEMMA CallMakes ==
    ASSUME NEW e, Tidy(e), Running(e), NEW r \in Registers, NEW n \in Nat,
           NEW actuals, DOMAIN actuals = 1 .. n
    PROVE  Made(e, CaptureCallInstructionConstraint(e, r, actuals), r, "int")
<1> DEFINE S == 1 .. n
           formals == {Formal(r, Register(i)) : i \in S}
           formalReturn == Formal(r, Return)
           signature == buildConstraintsFromSignatureForBlock(e, formals, formalReturn)
           k == [env |-> e, register |-> r, actuals |-> actuals]
           q == ActualLoop!Results(k, S, signature)[S]
           created == CreateImmutableVariable(q.env, r, "int", {}, Over({formalReturn}))
           x == CaptureCallInstructionConstraint(e, r, actuals)
<1>1. x = IF q.ok THEN created ELSE q
  <2>1. k.register = r /\ k.actuals = actuals
    OBVIOUS
  <2> HIDE DEF k
  <2>2. ForEach(S, signature, LAMBDA d, i : AssignMutableVariable(d, Formal(r, Register(i)), Over({actuals[i]}))) = q
    <3> HIDE DEF S, signature
    <3> QED BY <2>1 DEF ForEach, FoldSet, MapThenFoldSet, ActualLoop!Results, AssignActual
  <2> HIDE DEF q
  <2> QED BY <2>2 DEF CaptureCallInstructionConstraint, Then
<1>2. IsFiniteSet(S)
  BY FS_Interval
<1>3. IsFiniteSet(formals) /\ NoName \notin formals
  <2> DEFINE f == [i \in S |-> Formal(r, Register(i))]
  <2> HIDE DEF S
  <2>1. f \in Surjection(S, formals)
    BY DEF Surjection
  <2> HIDE DEF f
  <2>2. IsFiniteSet(formals)
    BY <1>2, <2>1, FS_Surjection
  <2>3. \A i : Formal(r, Register(i))[1] = "formal" /\ NoName[1] = ""
    BY DEF Formal, NoName
  <2>4. \A y \in formals : y[1] = "formal" /\ NoName[1] = ""
    BY <2>3
  <2> QED BY <2>2, <2>4
<1>4. formalReturn \in ResultNames /\ formalReturn # Return
  <2>1. formalReturn[1] = "formal" /\ Return[1] = "return"
    BY DEF Formal, Return
  <2> QED BY <2>1 DEF ResultNames
<1> HIDE DEF formals, formalReturn, x
<1>5. Follows(e, signature.env)
  BY <1>3, <1>4, SignatureBuilt
<1> HIDE DEF signature
<1>6. Follows(e, q.env)
  <2>1. k.env = e
    OBVIOUS
  <2> HIDE DEF k, S
  <2> QED BY <1>2, <1>5, <2>1, AllActualsAssigned DEF ActualsAssigned
<1>7. Tidy(q.env) /\ Running(q.env)
  BY <1>6, StillTidy
<1> HIDE DEF q
<1>8. Made(q.env, created, r, "int")
  BY <1>7, NamesApart, CreateImmutableMakes
<1> HIDE DEF created
<1>9. Made(e, created, r, "int")
  BY <1>6, <1>8, MadeAfter
<1> QED BY <1>1, <1>6, <1>9, MadeNothing DEF x

LEMMA AllocaMakes ==
    ASSUME NEW e, Tidy(e), Running(e), NEW r \in Registers
    PROVE  LET x == CaptureAllocaInstructionConstraint(e, r)
           IN  /\ Made(e, x, r, "ptr")
               /\ x.ok => getValueVariable(r) \in DOMAIN Mapping(x.env, e.currentBlockName)
<1> DEFINE cell == getValueVariable(r)
           y == CreateMutableVariable(e, cell, "int", {}, Over({}))
           created == CreateImmutableVariable(y.env, r, "ptr", {}, Over({}))
           x == CaptureAllocaInstructionConstraint(e, r)
<1>1. x = IF y.ok THEN created ELSE y
  BY DEF CaptureAllocaInstructionConstraint, Then
<1> HIDE DEF x
<1>2. Made(e, y, cell, "int")
  <2>1. cell \in Cells
    BY DEF Cells
  <2> HIDE DEF cell
  <2> QED BY <2>1, CreateMutableMakes
<1> HIDE DEF y, cell
<1>3. Tidy(y.env) /\ Running(y.env)
  BY <1>2, StillTidy DEF Made
<1>4. Made(y.env, created, r, "ptr")
  BY <1>3, NamesApart, CreateImmutableMakes
<1> HIDE DEF created
<1>5. Made(e, created, r, "ptr")
  BY <1>2, <1>4, MadeAfter DEF Made
<1>6. y.ok => cell \in DOMAIN Mapping(created.env, e.currentBlockName)
  BY <1>2, <1>4 DEF Made, HasType, Follows, Within, Grows, Running
<1>7. ~y.ok => Made(e, y, r, "ptr")
  BY <1>2, MadeNothing DEF Made
<1> QED BY <1>1, <1>5, <1>6, <1>7 DEF x, cell

\* A store assigns to the cell of every alias.
StoreOperands(k, r) ==
    IF Cardinality(k.aliases) = 1 THEN {k.source} ELSE {k.source, k.target, getValueVariable(r)}

StoreTo(k, d, r) ==
    IF StoreOperands(k, r) \subseteq DOMAIN Mapping(d, d.currentBlockName)
    THEN AssignMutableVariable(d, getValueVariable(r), Over(MappedNames(d, StoreOperands(k, r))))
    ELSE Abort(d)

AliasesStored(k, s, r) == Follows(k.env, r.env)

StoreLoop == INSTANCE LoopTheorems WITH Iteration <- StoreTo, Invariant <- AliasesStored

LEMMA AllAliasesStored ==
    ASSUME NEW k, Running(k.env), NEW S \in SUBSET Registers, NEW start, Follows(k.env, start.env)
    PROVE  AliasesStored(k, S, StoreLoop!Results(k, S, start)[S])
<1>1. AliasesStored(k, {}, start)
  BY DEF AliasesStored
<1>2. ASSUME NEW s \in SUBSET S, NEW r \in s, NEW q, AliasesStored(k, s \ {r}, q)
      PROVE  AliasesStored(k, s, IF q.ok THEN StoreTo(k, q.env, r) ELSE q)
  <2> DEFINE d == q.env
             cell == getValueVariable(r)
             names == Over(MappedNames(d, StoreOperands(k, r)))
             f == AssignMutableVariable(d, cell, names)
             x == StoreTo(k, d, r)
  <2>1. Tidy(d) /\ Running(d)
    BY <1>2, StillTidy DEF AliasesStored
  <2>2. Versioned(cell)
    BY NamesApart DEF Cells
  <2>3. x = f \/ x = Abort(d)
    BY DEF StoreTo
  <2> HIDE DEF cell, names, x
  <2>4. Follows(d, f.env)
    BY <2>1, <2>2, AssignFollows
  <2> HIDE DEF f
  <2>5. Follows(k.env, f.env)
    BY <1>2, <2>4, FollowsTransitive DEF AliasesStored
  <2>6. Abort(d).env = d
    BY DEF Abort
  <2> QED BY <1>2, <2>3, <2>5, <2>6 DEF AliasesStored, x
<1>3. StoreLoop!Inductive(S)
  <2>1. IsFiniteSet(S)
    BY RegistersFinite
  <2> QED BY <2>1, FiniteSmallest DEF SomeSmallest, StoreLoop!Inductive
<1> QED BY <1>1, <1>2, <1>3, StoreLoop!LoopInvariant

LEMMA StoreFollows ==
    ASSUME NEW e, Tidy(e), Running(e), NEW source, NEW target, NEW aliases \in SUBSET Registers
    PROVE  Follows(e, CaptureStoreInstructionConstraint(e, source, target, aliases).env)
<1> DEFINE bound == getBinderName(e, source, "int")
           d == bound.env
           k == [env |-> d, source |-> source, target |-> target, aliases |-> aliases]
           q == StoreLoop!Results(k, aliases, Succeed(d))[aliases]
           x == CaptureStoreInstructionConstraint(e, source, target, aliases)
<1>1. x = IF bound.ok THEN q ELSE bound
  <2>1. k.source = source /\ k.target = target /\ k.aliases = aliases
    OBVIOUS
  <2> HIDE DEF k, bound
  <2> QED BY <2>1 DEF CaptureStoreInstructionConstraint, Then, LookUp, ForEach, FoldSet, MapThenFoldSet,
             StoreLoop!Results, StoreTo, StoreOperands, bound
<1> HIDE DEF x
<1>2. Follows(e, d)
  BY BinderFollows
<1>3. Tidy(d) /\ Running(d)
  BY <1>2, StillTidy
<1> HIDE DEF bound
<1>4. Follows(d, q.env)
  <2>1. k.env = d
    OBVIOUS
  <2> DEFINE start == Succeed(d)
  <2>2. Follows(d, start.env)
    BY <1>3, FollowsReflexive DEF Succeed
  <2> HIDE DEF k, start
  <2>3. AliasesStored(k, aliases, StoreLoop!Results(k, aliases, start)[aliases])
    BY <1>3, <2>1, <2>2, AllAliasesStored
  <2> QED BY <2>1, <2>3 DEF AliasesStored, start
<1> HIDE DEF q
<1>5. Follows(e, q.env)
  BY <1>2, <1>4, FollowsTransitive
<1> QED BY <1>1, <1>2, <1>5 DEF x

LEMMA LoadMakes ==
    ASSUME NEW e, Tidy(e), Running(e), NEW r \in Registers, NEW source, NEW aliases
    PROVE  Made(e, CaptureLoadInstructionConstraint(e, r, source, aliases), r, "int")
<1> DEFINE operands == {source} \cup {getValueVariable(a) : a \in aliases}
           created == CreateImmutableVariable(e, r, "int", {}, Over(MappedNames(e, operands)))
           x == CaptureLoadInstructionConstraint(e, r, source, aliases)
<1>1. x = created \/ x = Abort(e)
  BY DEF CaptureLoadInstructionConstraint, LookUp
<1> HIDE DEF x, operands
<1>2. Made(e, created, r, "int")
  BY NamesApart, CreateImmutableMakes
<1> HIDE DEF created
<1>3. Abort(e).env = e /\ ~Abort(e).ok
  BY DEF Abort
<1> QED BY <1>1, <1>2, <1>3, FollowsReflexive, MadeNothing DEF x

--------------------------------------------------------------------------------
\* The inductive invariant.  The first part is kept by every step, the second
\* until the run ends.

\* TypeOK says of the environment only where it is and what the registers'
\* types are.  It is in good order, knows each register that is not a phi
\* node, and cells are those of registers.
WalkInvariant ==
    /\ TypeOK
    /\ Tidy(env)
    /\ succ \in [Block -> Terminators]
    /\ \A r \in DOMAIN defs :
          /\ defs[r].kind # "phi" => r \in DOMAIN env.variableTypes
          /\ defs[r].cells \subseteq Registers

\* A register, and the cell if it is an alloca's, is in scope in block b.
InScope(e, b, r, d) ==
    /\ r \in DOMAIN Mapping(e, b)
    /\ d.kind = "alloca" => getValueVariable(r) \in DOMAIN Mapping(e, b)

\* The blocks started are those finished and the current one, and no block is
\* started before those that strictly dominate it are finished.  Thus what the
\* current block defines concerns no other block started; and a register is in
\* scope wherever its definition dominates.
ScopeInvariant ==
    outcome = "open" =>
        /\ started = env.finishedBlocks \cup {Current}
        /\ Current \notin env.finishedBlocks
        /\ Entry \in started
        /\ \A a \in Block, b \in started : StrictlyDominates(succ, a, b) => a \in env.finishedBlocks
        /\ \A r \in DOMAIN defs, b \in started :
              Dominates(succ, defs[r].block, b) => InScope(env, b, r, defs[r])
        /\ Reach(succ, Entry) \subseteq DOMAIN env.variablesMappingsPerBlock
        /\ \A c \in Constants, b \in Reach(succ, Entry) :
              c \in DOMAIN env.variableTypes => c \in DOMAIN Mapping(env, b)

\* The refinement noted for the function's result speaks of these names, and
\* each block of the function has the binder of its guard.
ResultKnown(g, e, names) ==
    /\ Return \in DOMAIN e.variableTypes
    /\ Return \in DOMAIN e.mutableVariableConstraints
    /\ e.mutableVariableConstraints[Return] = Refinement(names)
    /\ Guards(Reach(g, Entry)) \subseteq Bound(e.store)

LEMMA WalkRuns ==
    ASSUME WalkInvariant
    PROVE  Tidy(env) /\ Running(env) /\ started \subseteq Block
BY DEF WalkInvariant, TypeOK, Running, Reach, Current

\* Register r is defined as d in the current block.
Defined(r, d) ==
    /\ defs' = Put(defs, r, d)
    /\ r \in Registers \ DOMAIN defs
    /\ d.kind # "parameter"
    /\ d.block = Current
    /\ d.cells \subseteq Registers
    /\ d.kind # "phi" =>
          r \in DOMAIN env'.variableTypes /\ env'.variableTypes[r] = d.type
    /\ outcome' = "open" => InScope(env', Current, r, d)

Owes(owing, defined) ==
    /\ owing \subseteq [register : Registers, block : Block, type : {"int", "bool"}]
    /\ \A o \in owing : o.register \notin defined

\* A step within a block.
Walks ==
    /\ outcome = "open"
    /\ UNCHANGED <<succ, started>>
    /\ Follows(env, env')
    /\ UNCHANGED defs \/ \E r, d : Defined(r, d)
    /\ position' \in {"body", "done", position}
    /\ room' \in Nat
    /\ outcome' \in {"open", "error", "aborted"}
    /\ outcome' = "open" <=> stopped' = "none"
    /\ Owes(owed', DOMAIN defs')

LEMMA CallOutcome ==
    ASSUME NEW kind, kind # "none", NEW result, Call(kind, result)
    PROVE  /\ outcome = "open"
           /\ env' = result.env
           /\ UNCHANGED succ
           /\ outcome' \in {"open", "error", "aborted"}
           /\ outcome' = "open" => result.ok
           /\ outcome' = "open" <=> stopped' = "none"
BY DEF Call

LEMMA PutDomain ==
    ASSUME NEW m, NEW x, NEW value
    PROVE  /\ DOMAIN Put(m, x, value) = DOMAIN m \cup {x}
           /\ Put(m, x, value)[x] = value
           /\ \A y \in DOMAIN m : y # x => Put(m, x, value)[y] = m[y]
BY DEF Put

LEMMA DefinesWalks ==
    ASSUME WalkInvariant, InstructionDue,
           NEW kind, kind # "none", NEW result, Instruction(kind, result),
           NEW r \in Registers \ DOMAIN defs, NEW type,
           NEW sort, sort \notin {"phi", "parameter"}, NEW cells \in SUBSET Registers,
           Defines(r, type, sort, cells), Made(env, result, r, type),
           sort = "alloca" /\ result.ok => getValueVariable(r) \in DOMAIN Mapping(result.env, Current)
    PROVE  Walks
<1> DEFINE d == [block |-> Current, type |-> type, kind |-> sort, cells |-> cells]
<1>1. Call(kind, result) /\ position' = "body" /\ room' \in Nat /\ UNCHANGED started
  BY DEF InstructionDue, Instruction, WalkInvariant, TypeOK
<1>2. /\ outcome = "open"
      /\ env' = result.env
      /\ UNCHANGED succ
      /\ outcome' \in {"open", "error", "aborted"}
      /\ outcome' = "open" => result.ok
      /\ outcome' = "open" <=> stopped' = "none"
  BY <1>1, CallOutcome
<1>3. owed' = {o \in owed : o.register # r}
  BY DEF Defines
<1>4. Owes(owed, DOMAIN defs)
  BY DEF WalkInvariant, TypeOK, Owes
<1>5. Follows(env, env')
  BY <1>2 DEF Made
<1>6. CASE outcome' # "open"
  <2>1. UNCHANGED defs
    BY <1>6 DEF Defines
  <2>2. Owes(owed', DOMAIN defs')
    BY <1>3, <1>4, <2>1 DEF Owes
  <2> QED BY <1>1, <1>2, <1>5, <2>1, <2>2 DEF Walks
<1>7. CASE outcome' = "open"
  <2>1. defs' = Put(defs, r, d)
    BY <1>7 DEF Defines
  <2>2. d.block = Current /\ d.type = type /\ d.kind = sort /\ d.cells = cells
    OBVIOUS
  <2> HIDE DEF d
  <2>3. Defined(r, d)
    BY <1>2, <1>7, <2>1, <2>2 DEF Defined, Made, HasType, InScope, Current
  <2>4. DOMAIN defs' = DOMAIN defs \cup {r}
    BY <2>1, PutDomain
  <2>5. Owes(owed', DOMAIN defs')
    BY <1>3, <1>4, <2>4 DEF Owes
  <2> QED BY <1>1, <1>2, <1>5, <2>3, <2>5 DEF Walks
<1> QED BY <1>6, <1>7

LEMMA TerminatorWalks ==
    ASSUME WalkInvariant, NEW kind, kind # "none", NEW result, Terminator(kind, result),
           Follows(env, result.env)
    PROVE  Walks
<1>1. Call(kind, result) /\ position' = "done" /\ UNCHANGED <<started, defs, owed, room>>
  BY DEF Terminator
<1>2. /\ outcome = "open"
      /\ env' = result.env
      /\ UNCHANGED succ
      /\ outcome' \in {"open", "error", "aborted"}
      /\ outcome' = "open" <=> stopped' = "none"
  BY <1>1, CallOutcome
<1>3. room' \in Nat /\ Owes(owed', DOMAIN defs')
  BY <1>1 DEF WalkInvariant, TypeOK, Owes
<1> QED BY <1>1, <1>2, <1>3 DEF Walks

\* What may be defined is a register that is not defined yet.
LEMMA DefinableRegisters ==
    ASSUME WalkInvariant, NEW type
    PROVE  Definable(type) \subseteq Registers \ DOMAIN defs
BY DEF WalkInvariant, TypeOK, Definable, Unused, First

LEMMA ComputationWalks ==
    ASSUME WalkInvariant, Computation
    PROVE  Walks
<1>1. PICK types \in {<<"int", "int">>, <<"int", "bool">>} :
        \E r \in Definable(types[2]), v \in Operands(types[1]) :
            /\ Instruction("computation", CaptureComputation(env, r, types[2], {v}, types[1]))
            /\ Defines(r, types[2], "computation", {})
  BY DEF Computation
<1>2. PICK r \in Definable(types[2]), v \in Operands(types[1]) :
            /\ Instruction("computation", CaptureComputation(env, r, types[2], {v}, types[1]))
            /\ Defines(r, types[2], "computation", {})
  BY <1>1
<1> DEFINE result == CaptureComputation(env, r, types[2], {v}, types[1])
<1>3. r \in Registers \ DOMAIN defs
  BY DefinableRegisters
<1>4. Made(env, result, r, types[2])
  <2>1. IsFiniteSet({v})
    BY FS_Singleton
  <2> QED BY <1>3, <2>1, WalkRuns, ComputationMakes
<1> HIDE DEF result
<1>5. Instruction("computation", result) /\ Defines(r, types[2], "computation", {})
  BY <1>2 DEF result
<1>6. InstructionDue
  BY DEF Computation
<1> QED BY <1>3, <1>4, <1>5, <1>6, DefinesWalks

LEMMA SelectWalks ==
    ASSUME WalkInvariant, Select
    PROVE  Walks
<1>1. PICK type \in {"int", "bool"} :
        \E r \in Definable(type), c \in Operands("bool"), v \in Operands(type) :
            /\ Instruction("select", CaptureSelectInstructionConstraint(env, c, v, type))
            /\ Defines(r, type, "select", {})
  BY DEF Select
<1>2. PICK r \in Definable(type), c \in Operands("bool"), v \in Operands(type) :
            /\ Instruction("select", CaptureSelectInstructionConstraint(env, c, v, type))
            /\ Defines(r, type, "select", {})
  BY <1>1
<1> DEFINE result == CaptureSelectInstructionConstraint(env, c, v, type)
<1>3. r \in Registers \ DOMAIN defs
  BY DefinableRegisters
<1>4. Follows(env, result.env) /\ ~result.ok
  BY WalkRuns, SelectFails
<1> HIDE DEF result
<1>5. Made(env, result, r, type)
  BY <1>4, MadeNothing
<1>6. Instruction("select", result) /\ Defines(r, type, "select", {})
  BY <1>2 DEF result
<1>7. InstructionDue
  BY DEF Select
<1> QED BY <1>3, <1>5, <1>6, <1>7, DefinesWalks

LEMMA CallFunctionWalks ==
    ASSUME WalkInvariant, CallFunction
    PROVE  Walks
<1>1. PICK n \in CalleeParameters :
        \E r \in Definable("int"), actuals \in [1 .. n -> Operands("int")] :
            /\ Instruction("call", CaptureCallInstructionConstraint(env, r, actuals))
            /\ Defines(r, "int", "call", {})
  BY DEF CallFunction
<1>2. PICK r \in Definable("int"), actuals \in [1 .. n -> Operands("int")] :
            /\ Instruction("call", CaptureCallInstructionConstraint(env, r, actuals))
            /\ Defines(r, "int", "call", {})
  BY <1>1
<1> DEFINE result == CaptureCallInstructionConstraint(env, r, actuals)
<1>3. r \in Registers \ DOMAIN defs
  BY DefinableRegisters
<1>4. Made(env, result, r, "int")
  <2>1. n \in Nat /\ DOMAIN actuals = 1 .. n
    BY CountsAssumption
  <2> QED BY <1>3, <2>1, WalkRuns, CallMakes
<1> HIDE DEF result
<1>5. Instruction("call", result) /\ Defines(r, "int", "call", {})
  BY <1>2 DEF result
<1>6. InstructionDue
  BY DEF CallFunction
<1> QED BY <1>3, <1>4, <1>5, <1>6, DefinesWalks

LEMMA AllocaWalks ==
    ASSUME WalkInvariant, Alloca
    PROVE  Walks
<1>1. PICK r \in Definable("ptr") :
        /\ Instruction("alloca", CaptureAllocaInstructionConstraint(env, r))
        /\ Defines(r, "ptr", "alloca", {r})
  BY DEF Alloca
<1> DEFINE result == CaptureAllocaInstructionConstraint(env, r)
<1>2. r \in Registers \ DOMAIN defs
  BY DefinableRegisters
<1>3. /\ Made(env, result, r, "ptr")
      /\ result.ok => getValueVariable(r) \in DOMAIN Mapping(result.env, Current)
  BY <1>2, WalkRuns, AllocaMakes DEF Current
<1> HIDE DEF result
<1>4. Instruction("alloca", result) /\ Defines(r, "ptr", "alloca", {r})
  BY <1>1 DEF result
<1>5. InstructionDue
  BY DEF Alloca
<1> QED BY <1>2, <1>3, <1>4, <1>5, DefinesWalks

LEMMA AliasesAreRegisters ==
    ASSUME WalkInvariant, NEW pointer \in DOMAIN defs, NEW aliases \in Aliases(pointer)
    PROVE  aliases \in SUBSET Registers
BY DEF WalkInvariant, TypeOK, Aliases, Allocas

LEMMA StoreWalks ==
    ASSUME WalkInvariant, Store
    PROVE  Walks
<1>1. PICK source \in Operands("int"), target \in Operands("ptr") :
        \E aliases \in Aliases(target) :
            /\ Instruction("store", CaptureStoreInstructionConstraint(env, source, target, aliases))
            /\ UNCHANGED <<defs, owed>>
  BY DEF Store
<1>2. PICK aliases \in Aliases(target) :
            /\ Instruction("store", CaptureStoreInstructionConstraint(env, source, target, aliases))
            /\ UNCHANGED <<defs, owed>>
  BY <1>1
<1> DEFINE result == CaptureStoreInstructionConstraint(env, source, target, aliases)
<1>3. target \in DOMAIN defs
  BY DEF Operands, Usable
<1>4. Follows(env, result.env)
  BY <1>3, AliasesAreRegisters, WalkRuns, StoreFollows
<1> HIDE DEF result
<1>5. Instruction("store", result) /\ UNCHANGED <<defs, owed>>
  BY <1>2 DEF result
<1>6. Call("store", result) /\ position' = "body" /\ room' \in Nat /\ UNCHANGED started
  BY <1>5 DEF Store, InstructionDue, Instruction, WalkInvariant, TypeOK
<1>7. /\ outcome = "open"
      /\ env' = result.env
      /\ UNCHANGED succ
      /\ outcome' \in {"open", "error", "aborted"}
      /\ outcome' = "open" <=> stopped' = "none"
  BY <1>6, CallOutcome
<1>8. Owes(owed', DOMAIN defs')
  BY <1>5 DEF WalkInvariant, TypeOK, Owes
<1> QED BY <1>4, <1>5, <1>6, <1>7, <1>8 DEF Walks

LEMMA LoadWalks ==
    ASSUME WalkInvariant, Load
    PROVE  Walks
<1>1. PICK r \in Definable("int"), source \in Operands("ptr") :
        \E aliases \in Aliases(source) :
            /\ Instruction("load", CaptureLoadInstructionConstraint(env, r, source, aliases))
            /\ Defines(r, "int", "load", {})
  BY DEF Load
<1>2. PICK aliases \in Aliases(source) :
            /\ Instruction("load", CaptureLoadInstructionConstraint(env, r, source, aliases))
            /\ Defines(r, "int", "load", {})
  BY <1>1
<1> DEFINE result == CaptureLoadInstructionConstraint(env, r, source, aliases)
<1>3. r \in Registers \ DOMAIN defs
  BY DefinableRegisters
<1>4. Made(env, result, r, "int")
  BY <1>3, WalkRuns, LoadMakes
<1> HIDE DEF result
<1>5. Instruction("load", result) /\ Defines(r, "int", "load", {})
  BY <1>2 DEF result
<1>6. InstructionDue
  BY DEF Load
<1> QED BY <1>3, <1>4, <1>5, <1>6, DefinesWalks

LEMMA PhiWalks ==
    ASSUME WalkInvariant, Phi
    PROVE  Walks
<1> DEFINE previous == ReachablePredecessors(succ, Current)
           Candidates(r, type) == UNION {PhiSources(r, type, p) : p \in previous}
           Cell(sources) == UNION {defs[sources[p]].cells : p \in {p \in previous : sources[p] \in DOMAIN defs}}
           Definition(type, sources) ==
               [block |-> Current, type |-> type, kind |-> "phi", cells |-> Cell(sources)]
           New(r, type, sources) ==
               {[register |-> sources[p], block |-> p, type |-> type] :
                   p \in {p \in previous : sources[p] \in Unused \ {r}}}
<1>1. PICK type \in {"int", "bool", "ptr"} :
       \E r \in Definable(type) : \E sources \in [previous -> Candidates(r, type)] :
          /\ \A p \in previous : sources[p] \in PhiSources(r, type, p)
          /\ Call("phi", CapturePhiInstructionConstraint(env, r, type, sources))
          /\ defs' = Put(defs, r, Definition(type, sources))
          /\ owed' = {o \in owed : o.register # r} \cup New(r, type, sources)
  BY DEF Phi
<1>2. PICK r \in Definable(type) : \E sources \in [previous -> Candidates(r, type)] :
          /\ \A p \in previous : sources[p] \in PhiSources(r, type, p)
          /\ Call("phi", CapturePhiInstructionConstraint(env, r, type, sources))
          /\ defs' = Put(defs, r, Definition(type, sources))
          /\ owed' = {o \in owed : o.register # r} \cup New(r, type, sources)
  BY <1>1
<1>3. PICK sources \in [previous -> Candidates(r, type)] :
          /\ \A p \in previous : sources[p] \in PhiSources(r, type, p)
          /\ Call("phi", CapturePhiInstructionConstraint(env, r, type, sources))
          /\ defs' = Put(defs, r, Definition(type, sources))
          /\ owed' = {o \in owed : o.register # r} \cup New(r, type, sources)
  BY <1>2
<1> DEFINE result == CapturePhiInstructionConstraint(env, r, type, sources)
           d == Definition(type, sources)
<1>4. r \in Registers \ DOMAIN defs
  BY DefinableRegisters
<1>5. Mapped(env, result, r)
  <2>1. DOMAIN sources \subseteq Block
    <3>1. previous \subseteq Block
      BY PreviousBlocks
    <3> HIDE DEF previous
    <3> QED BY <3>1
  <2> DEFINE values == {sources[p] : p \in DOMAIN sources}
             bound == getBinderNames(env, values, type)
  <2>2. result = IF bound.ok THEN CreatePhiNode(succ, bound.env, r, type, sources) ELSE bound
    BY DEF CapturePhiInstructionConstraint, Then
  <2> HIDE DEF result
  <2> QED BY <1>4, <2>1, <2>2, WalkRuns, CapturePhiMapped
<1> HIDE DEF result
<1>6. Call("phi", result)
  BY <1>3 DEF result
<1>7. /\ outcome = "open"
      /\ env' = result.env
      /\ UNCHANGED succ
      /\ outcome' \in {"open", "error", "aborted"}
      /\ outcome' = "open" => result.ok
      /\ outcome' = "open" <=> stopped' = "none"
  BY <1>6, CallOutcome
<1>8. room' \in Nat /\ UNCHANGED <<started, position>>
  BY DEF Phi, WalkInvariant, TypeOK
<1>9. d.block = Current /\ d.kind = "phi" /\ d.cells = Cell(sources)
  OBVIOUS
<1>10. Cell(sources) \subseteq Registers
  BY DEF WalkInvariant
<1>11. defs' = Put(defs, r, d)
  BY <1>3
<1>12. owed' = {o \in owed : o.register # r} \cup New(r, type, sources)
  BY <1>3
<1>13. New(r, type, sources) \subseteq [register : Registers, block : Block, type : {"int", "bool"}]
  <2> SUFFICES ASSUME NEW p \in previous, sources[p] \in Unused \ {r}
               PROVE  sources[p] \in Registers /\ p \in Block /\ type \in {"int", "bool"}
    OBVIOUS
  <2>1. sources[p] \in Registers /\ sources[p] \notin DOMAIN defs /\ sources[p] \notin Constants
    BY NamesApart DEF Unused
  <2>2. type # "ptr"
    BY <1>3, <2>1 DEF PhiSources
  <2>3. p \in Block
    BY PreviousBlocks
  <2> QED BY <2>1, <2>2, <2>3
<1>14. \A o \in New(r, type, sources) : o.register \notin DOMAIN defs \cup {r}
  BY DEF Unused
<1> HIDE DEF d, previous, New, Cell
<1>15. DOMAIN defs' = DOMAIN defs \cup {r}
  BY <1>11, PutDomain
<1>16. Owes(owed', DOMAIN defs')
  <2>1. Owes(owed, DOMAIN defs)
    BY DEF WalkInvariant, TypeOK, Owes
  <2> QED BY <1>12, <1>13, <1>14, <1>15, <2>1 DEF Owes
<1>17. Defined(r, d)
  BY <1>4, <1>5, <1>7, <1>9, <1>10, <1>11 DEF Defined, Mapped, InScope, Current
<1>18. Follows(env, env')
  BY <1>5, <1>7 DEF Mapped
<1> QED BY <1>7, <1>8, <1>16, <1>17, <1>18 DEF Walks

LEMMA ReturnValueWalks ==
    ASSUME WalkInvariant, ReturnValue
    PROVE  Walks
<1>1. PICK v \in Operands("int") : Terminator("return", CaptureReturnInstructionConstraint(env, v))
  BY DEF ReturnValue
<1> DEFINE result == CaptureReturnInstructionConstraint(env, v)
<1>2. Follows(env, result.env)
  BY WalkRuns, ReturnFollows
<1> HIDE DEF result
<1>3. Terminator("return", result)
  BY <1>1 DEF result
<1> QED BY <1>2, <1>3, TerminatorWalks

LEMMA JumpWalks ==
    ASSUME WalkInvariant, Jump
    PROVE  Walks
<1> DEFINE result == CaptureJump(env, succ[Current][1])
<1>1. Follows(env, result.env)
  BY WalkRuns, JumpFollows DEF CaptureJump
<1>2. Terminator("jump", result)
  BY DEF Jump
<1> HIDE DEF result
<1> QED BY <1>1, <1>2, TerminatorWalks

LEMMA BranchWalks ==
    ASSUME WalkInvariant, Branch
    PROVE  Walks
<1>1. PICK c \in Operands("bool") :
        Terminator("branch", CaptureBranch(env, c, succ[Current][1], succ[Current][2]))
  BY DEF Branch
<1> DEFINE result == CaptureBranch(env, c, succ[Current][1], succ[Current][2])
<1>2. Follows(env, result.env)
  BY WalkRuns, CaptureBranchFollows
<1> HIDE DEF result
<1>3. Terminator("branch", result)
  BY <1>1 DEF result
<1> QED BY <1>2, <1>3, TerminatorWalks

\* The steps from one block to the next, and from the last to the query.
LEMMA EnterBlockStarts ==
    ASSUME WalkInvariant, NEW b \in Block, EnterBlock(b)
    PROVE  \E result :
              /\ Started(succ, env, b, result)
              /\ Call("block", result)
              /\ b \in Reach(succ, Entry) \ started
              /\ started' = started \cup {b}
              /\ position' = "phis"
              /\ UNCHANGED <<defs, owed, room>>
<1> DEFINE result == StartBlock(succ, env, b)
<1>1. Started(succ, env, b, result)
  BY WalkRuns, StartBlockStarts
<1>2. /\ Call("block", result)
      /\ b \in Reach(succ, Entry) \ started
      /\ started' = started \cup {b}
      /\ position' = "phis"
      /\ UNCHANGED <<defs, owed, room>>
  BY DEF EnterBlock
<1> HIDE DEF result
<1> QED BY <1>1, <1>2

LEMMA ToStringEnds ==
    ASSUME WalkInvariant, ToString
    PROVE  /\ Advances(env, env')
           /\ Current' = Current
           /\ outcome' \in {"error", "emitted"}
           /\ outcome' = "emitted" <=> stopped' = "none"
           /\ UNCHANGED <<succ, started, position, defs, owed, room>>
<1> DEFINE left == endBlock(env)
           result == ToStringOrFailure(env)
<1>1. result.env = left.env
  BY DEF ToStringOrFailure, Then, Succeed, Fail
<1>2. Left(env, left)
  BY WalkRuns, EndBlockLeaves
<1> HIDE DEF left
<1>3. /\ env' = result.env
      /\ outcome' = IF result.ok THEN "emitted" ELSE "error"
      /\ stopped' = IF result.ok THEN "none" ELSE "emit"
      /\ UNCHANGED <<succ, started, position, defs, owed, room>>
  BY DEF ToString
<1> HIDE DEF result
<1> QED BY <1>1, <1>2, <1>3 DEF Left, Current

--------------------------------------------------------------------------------
\* The first part of the invariant.

LEMMA WalksKeepsWalk ==
    ASSUME WalkInvariant, Walks
    PROVE  WalkInvariant'
<1>1. /\ Tidy(env')
      /\ Current' = Current
      /\ \A x \in DOMAIN env.variableTypes :
            x \in DOMAIN env'.variableTypes /\ env'.variableTypes[x] = env.variableTypes[x]
  BY DEF Walks, Follows, Within, Grows, Current
<1>2. /\ DOMAIN defs' \subseteq Registers
      /\ \A r \in DOMAIN defs' :
            /\ defs'[r].block \in started
            /\ defs'[r].cells \subseteq Registers
            /\ defs'[r].kind # "phi" =>
                  r \in DOMAIN env'.variableTypes /\ env'.variableTypes[r] = defs'[r].type
  <2>1. /\ DOMAIN defs \subseteq Registers
        /\ \A r \in DOMAIN defs :
              /\ defs[r].block \in started
              /\ defs[r].cells \subseteq Registers
              /\ defs[r].kind # "phi" =>
                    r \in DOMAIN env'.variableTypes /\ env'.variableTypes[r] = defs[r].type
    BY <1>1 DEF WalkInvariant, TypeOK
  <2>2. CASE UNCHANGED defs
    BY <2>1, <2>2
  <2>3. ASSUME NEW r, NEW d, Defined(r, d)
        PROVE  <1>2!1 /\ <1>2!2
    <3>1. /\ DOMAIN defs' = DOMAIN defs \cup {r}
          /\ defs'[r] = d
          /\ \A q \in DOMAIN defs : q # r => defs'[q] = defs[q]
      <4> DEFINE m == Put(defs, r, d)
      <4>1. /\ DOMAIN m = DOMAIN defs \cup {r}
            /\ m[r] = d
            /\ \A q \in DOMAIN defs : q # r => m[q] = defs[q]
        BY DEF Put
      <4> HIDE DEF m
      <4>2. defs' = m
        BY <2>3 DEF Defined, m
      <4> QED BY <4>1, <4>2
    <3>2. Current \in started
      BY DEF WalkInvariant, TypeOK
    <3> QED BY <2>1, <2>3, <3>1, <3>2 DEF Defined
  <2> QED BY <2>2, <2>3 DEF Walks
<1>3. succ' \in [Block -> Terminators] /\ UNCHANGED <<succ, started>>
  BY DEF WalkInvariant, Walks
<1>4. Current' \in started' /\ started' \subseteq Reach(succ', Entry)
  BY <1>1, <1>3 DEF WalkInvariant, TypeOK
<1>5. /\ position' \in {"phis", "body", "done"}
      /\ room' \in Nat
      /\ outcome' \in {"open", "error", "aborted", "emitted"}
      /\ outcome' \in {"open", "emitted"} <=> stopped' = "none"
      /\ Owes(owed', DOMAIN defs')
  BY DEF WalkInvariant, TypeOK, Walks
<1> QED BY <1>1, <1>2, <1>3, <1>4, <1>5 DEF WalkInvariant, TypeOK, Owes

LEMMA AdvancesKeepsWalk ==
    ASSUME WalkInvariant, Advances(env, env'), UNCHANGED <<succ, defs, owed, room>>,
           started \subseteq started', started' \subseteq Reach(succ, Entry), Current' \in started',
           position' \in {"phis", "body", "done"},
           outcome' \in {"open", "error", "aborted", "emitted"},
           outcome' \in {"open", "emitted"} <=> stopped' = "none"
    PROVE  WalkInvariant'
BY DEF WalkInvariant, TypeOK, Advances, Grows

LEMMA InitWalk ==
    ASSUME Init
    PROVE  /\ WalkInvariant
           /\ Current = Entry
           /\ env.finishedBlocks = {}
           /\ started = {Entry}
           /\ Reach(succ, Entry) \subseteq DOMAIN env.variablesMappingsPerBlock
           /\ \A c \in Constants : c \notin DOMAIN env.variableTypes
           /\ \A r \in DOMAIN defs :
                 /\ r \in DOMAIN Mapping(env, Entry)
                 /\ defs[r].kind = "parameter"
                 /\ defs[r].block = Entry
           /\ ResultKnown(succ, env, DOMAIN defs)
           /\ returns = << >>
<1>1. PICK f \in Functions : succ = f[1] /\ room = f[2]
  BY DEF Init
<1>2. PICK n \in Parameters :
          LET parameters == {Register(i) : i \in 1 .. n}
              entered == StartBlock(succ, EmptyEnvironment, Entry)
          IN  /\ env = buildConstraintsFromSignatureForBlock(entered.env, parameters, Return).env
              /\ defs = [r \in parameters |-> [block |-> Entry, type |-> "int", kind |-> "parameter", cells |-> {}]]
  BY DEF Init
<1> DEFINE parameters == {Register(i) : i \in 1 .. n}
<1>3. succ \in [Block -> Terminators] /\ room \in Nat
  BY <1>1, FunctionsAssumption
<1>4. parameters \in SUBSET Registers
  BY CountsAssumption DEF Registers
<1>5. /\ env = buildConstraintsFromSignatureForBlock(StartBlock(succ, EmptyEnvironment, Entry).env, parameters, Return).env
      /\ defs = [r \in parameters |-> [block |-> Entry, type |-> "int", kind |-> "parameter", cells |-> {}]]
  BY <1>2
<1> HIDE DEF parameters
<1>6. /\ Tidy(env)
      /\ Current = Entry
      /\ env.finishedBlocks = {}
      /\ DOMAIN env.variableTypes = parameters \cup {Return}
      /\ \A p \in parameters :
            env.variableTypes[p] = "int" /\ p \in DOMAIN Mapping(env, Entry)
      /\ Reach(succ, Entry) \subseteq DOMAIN env.variablesMappingsPerBlock
      /\ Return \in DOMAIN env.mutableVariableConstraints
      /\ env.mutableVariableConstraints[Return] = Refinement(parameters)
      /\ Guards(Reach(succ, Entry)) \subseteq Bound(env.store)
  BY <1>3, <1>4, <1>5, FirstEnvironment DEF Current
<1>12. ResultKnown(succ, env, parameters)
  BY <1>6 DEF ResultKnown
<1>13. DOMAIN defs = parameters
  BY <1>5
<1>7. /\ started = {Entry} /\ position = "phis" /\ owed = {} /\ returns = << >>
      /\ outcome = "open" /\ stopped = "none"
  BY DEF Init
<1>8. Entry \in Reach(succ, Entry)
  BY <1>3, EntryAssumption, TerminatorsAreSequences, ReachStep
<1>9. \A c \in Constants : c \notin parameters \cup {Return}
  BY <1>4, NamesApart DEF ResultNames
<1>10. TypeOK
  BY <1>3, <1>4, <1>5, <1>6, <1>7, <1>8 DEF TypeOK
<1>11. WalkInvariant
  BY <1>3, <1>5, <1>6, <1>10 DEF WalkInvariant
<1> QED BY <1>5, <1>6, <1>7, <1>9, <1>11, <1>12, <1>13

LEMMA NextSteps ==
    ASSUME WalkInvariant, Next
    PROVE  (\E b \in Block : EnterBlock(b)) \/ Walks \/ ToString
BY ComputationWalks, SelectWalks, CallFunctionWalks, AllocaWalks, StoreWalks, LoadWalks, PhiWalks,
   ReturnValueWalks, JumpWalks, BranchWalks DEF Next

LEMMA EnterBlockKeepsWalk ==
    ASSUME WalkInvariant, NEW b \in Block, EnterBlock(b)
    PROVE  WalkInvariant'
<1>1. PICK result :
              /\ Started(succ, env, b, result)
              /\ Call("block", result)
              /\ b \in Reach(succ, Entry) \ started
              /\ started' = started \cup {b}
              /\ position' = "phis"
              /\ UNCHANGED <<defs, owed, room>>
  BY EnterBlockStarts
<1>2. /\ env' = result.env
      /\ UNCHANGED succ
      /\ outcome' \in {"open", "error", "aborted"}
      /\ outcome' = "open" <=> stopped' = "none"
  BY <1>1, CallOutcome
<1>3. Advances(env, env') /\ Current' \in {Current, b}
  BY <1>1, <1>2 DEF Started, Current
<1>4. started' \subseteq Reach(succ, Entry) /\ Current' \in started'
  BY <1>1, <1>3 DEF WalkInvariant, TypeOK
<1> QED BY <1>1, <1>2, <1>3, <1>4, AdvancesKeepsWalk

LEMMA WalkStep ==
    ASSUME WalkInvariant, [Next]_vars
    PROVE  WalkInvariant'
<1>1. CASE Next
  <2>1. CASE \E b \in Block : EnterBlock(b)
    BY <2>1, EnterBlockKeepsWalk
  <2>2. CASE Walks
    BY <2>2, WalksKeepsWalk
  <2>3. CASE ToString
    <3>1. /\ Advances(env, env')
          /\ Current' = Current
          /\ outcome' \in {"error", "emitted"}
          /\ outcome' = "emitted" <=> stopped' = "none"
          /\ UNCHANGED <<succ, started, position, defs, owed, room>>
      BY <2>3, ToStringEnds
    <3>2. /\ started' = started /\ started' \subseteq Reach(succ, Entry) /\ Current' \in started'
          /\ position' \in {"phis", "body", "done"}
      BY <3>1 DEF WalkInvariant, TypeOK
    <3> QED BY <3>1, <3>2, AdvancesKeepsWalk
  <2> QED BY <1>1, <2>1, <2>2, <2>3, NextSteps
<1>2. CASE UNCHANGED vars
  BY <1>2 DEF vars, WalkInvariant, TypeOK, Current
<1> QED BY <1>1, <1>2

\* The walk stays within its types.  When an instruction has been captured, its
\* register has the type in the environment that it has in the program, in
\* whatever block and after however many others; a register that a phi node
\* waits for is not defined yet.
THEOREM TypeCorrect == Spec => []TypeOK
<1>1. Init => WalkInvariant
  BY InitWalk
<1>2. WalkInvariant /\ [Next]_vars => WalkInvariant'
  BY WalkStep
<1>3. WalkInvariant => TypeOK
  BY DEF WalkInvariant
<1> QED BY <1>1, <1>2, <1>3, PTL DEF Spec

\* Branches, phi nodes and calls mention names without a look-up, and it is
\* safe: in every block a name of the program that is not a cell or the
\* function's own result is mapped to itself.
THEOREM RawNamesAreSafe == Spec => []RawNamesSafe
<1>1. Init => WalkInvariant
  BY InitWalk
<1>2. WalkInvariant /\ [Next]_vars => WalkInvariant'
  BY WalkStep
<1>3. WalkInvariant => RawNamesSafe
  BY DEF WalkInvariant, RawNamesSafe, Tidy, Raw, Versioned
<1> QED BY <1>1, <1>2, <1>3, PTL DEF Spec

--------------------------------------------------------------------------------
\* The second part.

\* A block that another strictly dominates has it on all ways to it, thus also
\* on those to any of its predecessors.
LEMMA DominatesPredecessor ==
    ASSUME NEW g \in [Block -> Terminators], NEW a \in Block, NEW b \in Block,
           StrictlyDominates(g, a, b), NEW p \in ReachablePredecessors(g, b)
    PROVE  Dominates(g, a, p)
<1> DEFINE avoiding == [c \in Block |-> IF c \in {a} THEN << >> ELSE g[c]]
<1> SUFFICES ASSUME Avoids(g, {a}, p)  PROVE FALSE
  BY DEF Dominates
<1>1. Entry \notin {a} /\ p \notin {a} /\ p \in Reach(avoiding, Entry)
  BY DEF Avoids
<1>2. p \in Block /\ b \in Successors(g, p)
  BY DEF ReachablePredecessors, Reach
<1>3. avoiding \in [Block -> Seq(Block)]
  BY TerminatorsAreSequences
<1>4. Successors(avoiding, p) = Successors(g, p)
  BY <1>1, <1>2 DEF Successors
<1>5. b \in Reach(avoiding, Entry)
  <2> HIDE DEF avoiding
  <2> QED BY <1>1, <1>2, <1>3, <1>4, EntryAssumption, ReachStep
<1>6. b \notin {a}
  BY DEF StrictlyDominates
<1> QED BY <1>1, <1>5, <1>6 DEF StrictlyDominates, Dominates, Avoids

\* Nothing dominates the first block strictly.
LEMMA EntryNotDominated ==
    ASSUME NEW g \in [Block -> Terminators], NEW a
    PROVE  ~StrictlyDominates(g, a, Entry)
<1> DEFINE avoiding == [c \in Block |-> IF c \in {a} THEN << >> ELSE g[c]]
<1> SUFFICES ASSUME a # Entry  PROVE Avoids(g, {a}, Entry)
  BY DEF StrictlyDominates, Dominates
<1>1. avoiding \in [Block -> Seq(Block)]
  BY TerminatorsAreSequences
<1>2. Entry \in Reach(avoiding, Entry)
  BY <1>1, EntryAssumption, ReachStep
<1> QED BY <1>2 DEF Avoids

LEMMA BlocksHavePredecessors ==
    ASSUME NEW g \in [Block -> Terminators], NEW b \in Reach(g, Entry), b # Entry
    PROVE  ReachablePredecessors(g, b) # {}
BY EntryAssumption, TerminatorsAreSequences, LastEdge DEF ReachablePredecessors

LEMMA InitScope ==
    ASSUME Init
    PROVE  ScopeInvariant
<1>1. /\ WalkInvariant
      /\ Current = Entry
      /\ env.finishedBlocks = {}
      /\ started = {Entry}
      /\ Reach(succ, Entry) \subseteq DOMAIN env.variablesMappingsPerBlock
      /\ \A c \in Constants : c \notin DOMAIN env.variableTypes
      /\ \A r \in DOMAIN defs :
            r \in DOMAIN Mapping(env, Entry) /\ defs[r].kind = "parameter"
  BY InitWalk
<1>2. \A a : ~StrictlyDominates(succ, a, Entry)
  BY <1>1, EntryNotDominated DEF WalkInvariant
<1> QED BY <1>1, <1>2 DEF ScopeInvariant, InScope

\* The parts of ScopeInvariant, for a state in which the run is open.
BlocksInOrder(g, e, blocks) ==
    /\ blocks = e.finishedBlocks \cup {e.currentBlockName}
    /\ e.currentBlockName \notin e.finishedBlocks
    /\ Entry \in blocks
    /\ \A a \in Block, b \in blocks : StrictlyDominates(g, a, b) => a \in e.finishedBlocks

DefinitionsVisible(g, e, blocks, definitions) ==
    \A r \in DOMAIN definitions, b \in blocks :
        Dominates(g, definitions[r].block, b) => InScope(e, b, r, definitions[r])

ConstantsVisible(g, e) ==
    /\ Reach(g, Entry) \subseteq DOMAIN e.variablesMappingsPerBlock
    /\ \A c \in Constants, b \in Reach(g, Entry) :
          c \in DOMAIN e.variableTypes => c \in DOMAIN Mapping(e, b)

LEMMA ScopeParts ==
    ScopeInvariant <=>
        (outcome = "open" =>
            /\ BlocksInOrder(succ, env, started)
            /\ DefinitionsVisible(succ, env, started, defs)
            /\ ConstantsVisible(succ, env))
BY DEF ScopeInvariant, BlocksInOrder, DefinitionsVisible, ConstantsVisible, Current

LEMMA ConstantsStayVisible ==
    ASSUME NEW g, NEW e, NEW d, ConstantsVisible(g, e), Advances(e, d)
    PROVE  ConstantsVisible(g, d)
<1>1. Reach(g, Entry) \subseteq Block
  BY DEF Reach
<1> HIDE DEF Reach
<1> QED BY <1>1 DEF ConstantsVisible, Advances, Grows

LEMMA ScopeStays ==
    ASSUME NEW e, NEW f, Grows(e, f), NEW b \in Block, NEW r, NEW d, InScope(e, b, r, d)
    PROVE  InScope(f, b, r, d)
BY DEF Grows, InScope

LEMMA WalksKeepsScope ==
    ASSUME WalkInvariant, ScopeInvariant, Walks
    PROVE  ScopeInvariant'
<1> SUFFICES ASSUME outcome' = "open"
             PROVE  /\ BlocksInOrder(succ, env, started)'
                    /\ DefinitionsVisible(succ, env, started, defs)'
                    /\ ConstantsVisible(succ, env)'
  BY ScopeParts DEF ScopeInvariant, BlocksInOrder, DefinitionsVisible, ConstantsVisible, Current
<1>1. /\ BlocksInOrder(succ, env, started)
      /\ DefinitionsVisible(succ, env, started, defs)
      /\ ConstantsVisible(succ, env)
  BY ScopeParts DEF Walks
<1>2. UNCHANGED <<succ, started>> /\ Follows(env, env')
  BY DEF Walks
<1>3. env'.currentBlockName = env.currentBlockName /\ env'.finishedBlocks = env.finishedBlocks
  BY <1>2 DEF Follows, Within
<1>4. BlocksInOrder(succ, env, started)'
  BY <1>1, <1>2, <1>3 DEF BlocksInOrder
<1>5. ConstantsVisible(succ, env)'
  <2>1. Advances(env, env')
    BY <1>2, FollowsAdvances
  <2>2. ConstantsVisible(succ, env')
    BY <1>1, <2>1, ConstantsStayVisible
  <2> QED BY <1>2, <2>2
<1>6. ASSUME NEW r \in DOMAIN defs', NEW b \in started, Dominates(succ, defs'[r].block, b)
      PROVE  InScope(env', b, r, defs'[r])
  <2>1. b \in Block /\ Current \in Block
    BY WalkRuns DEF Running, Current
  <2>2. Grows(env, env')
    BY <1>2 DEF Follows, Within
  <2>3. CASE r \in DOMAIN defs /\ defs'[r] = defs[r]
    <3>1. InScope(env, b, r, defs[r])
      BY <1>1, <1>6, <2>3 DEF DefinitionsVisible
    <3> QED BY <2>1, <2>2, <2>3, <3>1, ScopeStays
  <2>4. CASE ~(r \in DOMAIN defs /\ defs'[r] = defs[r])
    <3>1. PICK q, d : Defined(q, d)
      BY <1>6, <2>4 DEF Walks
    <3>2. q = r /\ defs'[r] = d
      <4> DEFINE m == Put(defs, q, d)
      <4>1. /\ DOMAIN m = DOMAIN defs \cup {q}
            /\ m[q] = d
            /\ \A x \in DOMAIN defs : x # q => m[x] = defs[x]
        BY DEF Put
      <4> HIDE DEF m
      <4>2. defs' = m
        BY <3>1 DEF Defined, m
      <4> QED BY <1>6, <2>4, <4>1, <4>2
    <3>3. d.block = Current /\ InScope(env', Current, r, d)
      BY <3>1, <3>2 DEF Defined
    <3>4. b = Current
      <4> SUFFICES ASSUME b # Current  PROVE FALSE
        OBVIOUS
      <4>1. StrictlyDominates(succ, Current, b)
        BY <1>6, <3>2, <3>3 DEF StrictlyDominates
      <4> QED BY <1>1, <2>1, <4>1 DEF BlocksInOrder, Current
    <3> QED BY <3>2, <3>3, <3>4
  <2> QED BY <2>3, <2>4
<1>7. DefinitionsVisible(succ, env, started, defs)'
  BY <1>2, <1>6 DEF DefinitionsVisible
<1> QED BY <1>4, <1>5, <1>7

LEMMA EnterBlockKeepsScope ==
    ASSUME WalkInvariant, ScopeInvariant, NEW b \in Block, EnterBlock(b)
    PROVE  ScopeInvariant'
<1> SUFFICES ASSUME outcome' = "open"
             PROVE  /\ BlocksInOrder(succ, env, started)'
                    /\ DefinitionsVisible(succ, env, started, defs)'
                    /\ ConstantsVisible(succ, env)'
  BY DEF ScopeInvariant, BlocksInOrder, DefinitionsVisible, ConstantsVisible, Current
<1>1. PICK result :
              /\ Started(succ, env, b, result)
              /\ Call("block", result)
              /\ b \in Reach(succ, Entry) \ started
              /\ started' = started \cup {b}
              /\ position' = "phis"
              /\ UNCHANGED <<defs, owed, room>>
  BY EnterBlockStarts
<1>2. outcome = "open" /\ env' = result.env /\ result.ok /\ UNCHANGED succ
  BY <1>1, CallOutcome
<1>3. /\ BlocksInOrder(succ, env, started)
      /\ DefinitionsVisible(succ, env, started, defs)
      /\ ConstantsVisible(succ, env)
  BY <1>2, ScopeParts
<1> DEFINE previous == ReachablePredecessors(succ, b)
           finished == env.finishedBlocks \cup {env.currentBlockName}
<1>4. finished = started /\ started \subseteq Block /\ succ \in [Block -> Terminators]
  BY <1>3, WalkRuns DEF BlocksInOrder, WalkInvariant
<1>5. previous # {}
  <2>1. b # Entry
    BY <1>1, <1>3 DEF BlocksInOrder
  <2> QED BY <1>1, <1>4, <2>1, BlocksHavePredecessors
<1>6. /\ Advances(env, env')
      /\ env'.currentBlockName = b
      /\ env'.finishedBlocks = finished
      /\ previous \cap finished # {}
      /\ \A v :
            v \notin ResultNames /\ (\A p \in previous \cap finished : v \in DOMAIN Mapping(env, p))
                => v \in DOMAIN Mapping(env', b)
  BY <1>1, <1>2, <1>5 DEF Started
<1>7. ASSUME NEW a \in Block, StrictlyDominates(succ, a, b), NEW p \in previous
      PROVE  Dominates(succ, a, p)
  BY <1>4, <1>7, DominatesPredecessor
<1> HIDE DEF previous, finished
<1>8. BlocksInOrder(succ, env, started)'
  <2>1. ASSUME NEW a \in Block, StrictlyDominates(succ, a, b)
        PROVE  a \in started
    <3>1. PICK p \in previous : p \in started
      BY <1>4, <1>6
    <3>2. Dominates(succ, a, p)
      BY <1>7, <2>1
    <3>3. a = p \/ StrictlyDominates(succ, a, p)
      BY <3>2 DEF StrictlyDominates
    <3> QED BY <1>3, <1>4, <3>1, <3>3 DEF BlocksInOrder, finished
  <2>2. ASSUME NEW a \in Block, NEW c \in started, StrictlyDominates(succ, a, c)
        PROVE  a \in started
    BY <1>3, <1>4, <2>2 DEF BlocksInOrder
  <2>3. Entry \in started
    BY <1>3 DEF BlocksInOrder
  <2> QED BY <1>1, <1>2, <1>4, <1>6, <2>1, <2>2, <2>3 DEF BlocksInOrder
<1>9. ConstantsVisible(succ, env)'
  <2>1. ConstantsVisible(succ, env')
    BY <1>3, <1>6, ConstantsStayVisible
  <2> QED BY <1>2, <2>1
<1>10. ASSUME NEW r \in DOMAIN defs, NEW c \in started', Dominates(succ, defs[r].block, c)
       PROVE  InScope(env', c, r, defs[r])
  <2> DEFINE a == defs[r].block
  <2>1. a \in started /\ a \in Block /\ r \in Registers
    BY <1>4 DEF WalkInvariant, TypeOK
  <2>2. CASE c \in started
    <3>1. InScope(env, c, r, defs[r])
      BY <1>3, <1>10, <2>2 DEF DefinitionsVisible
    <3>2. c \in Block /\ Grows(env, env')
      BY <1>4, <1>6, <2>2 DEF Advances
    <3> QED BY <3>1, <3>2, ScopeStays
  <2>3. CASE c \notin started
    <3>1. c = b
      BY <1>1, <2>3
    <3>2. StrictlyDominates(succ, a, b)
      BY <1>10, <2>1, <2>3, <3>1 DEF StrictlyDominates
    <3>3. ASSUME NEW p \in previous \cap finished
          PROVE  InScope(env, p, r, defs[r])
      <4>1. Dominates(succ, a, p)
        BY <1>7, <2>1, <3>2
      <4> QED BY <1>3, <1>4, <4>1 DEF DefinitionsVisible
    <3>4. r \in DOMAIN Mapping(env', b)
      BY <1>6, <2>1, <3>3, NamesApart DEF InScope
    <3>5. ASSUME defs[r].kind = "alloca"
          PROVE  getValueVariable(r) \in DOMAIN Mapping(env', b)
      <4>1. getValueVariable(r) \notin ResultNames
        BY <2>1, NamesApart DEF Cells
      <4> QED BY <1>6, <3>3, <3>5, <4>1 DEF InScope
    <3> QED BY <3>1, <3>4, <3>5 DEF InScope
  <2> QED BY <2>2, <2>3
<1>11. DefinitionsVisible(succ, env, started, defs)'
  BY <1>1, <1>2, <1>10 DEF DefinitionsVisible
<1> QED BY <1>8, <1>9, <1>11

LEMMA ScopeStep ==
    ASSUME WalkInvariant, ScopeInvariant, [Next]_vars
    PROVE  ScopeInvariant'
<1>1. CASE Next
  <2>1. CASE \E b \in Block : EnterBlock(b)
    BY <2>1, EnterBlockKeepsScope
  <2>2. CASE Walks
    BY <2>2, WalksKeepsScope
  <2>3. CASE ToString
    <3>1. outcome' # "open"
      BY <2>3, ToStringEnds
    <3> QED BY <3>1 DEF ScopeInvariant
  <2> QED BY <1>1, <2>1, <2>2, <2>3, NextSteps
<1>2. CASE UNCHANGED vars
  BY <1>2 DEF vars, ScopeInvariant, Current
<1> QED BY <1>1, <1>2

LEMMA ScopeFindsOperands ==
    ASSUME WalkInvariant, ScopeInvariant
    PROVE  OperandsFound
<1> SUFFICES ASSUME outcome = "open"
             PROVE  /\ Usable \subseteq DOMAIN Mapping(env, Current)
                    /\ {getValueVariable(r) : r \in Allocas \cap Usable} \subseteq DOMAIN Mapping(env, Current)
                    /\ \A c \in Constants : IsVariableDefined(env, c) => c \in DOMAIN Mapping(env, Current)
  BY DEF OperandsFound
<1>1. DefinitionsVisible(succ, env, started, defs) /\ ConstantsVisible(succ, env)
  BY ScopeParts
<1>2. Current \in started /\ Current \in Reach(succ, Entry)
  BY DEF WalkInvariant, TypeOK
<1>3. ASSUME NEW r \in Usable
      PROVE  InScope(env, Current, r, defs[r])
  BY <1>1, <1>2 DEF Usable, DefinitionsVisible
<1>4. \A r \in Usable : r \in DOMAIN Mapping(env, Current)
  BY <1>3 DEF InScope
<1>5. \A r \in Allocas \cap Usable : getValueVariable(r) \in DOMAIN Mapping(env, Current)
  BY <1>3 DEF InScope, Allocas
<1>6. \A c \in Constants : IsVariableDefined(env, c) => c \in DOMAIN Mapping(env, Current)
  BY <1>1, <1>2 DEF ConstantsVisible, IsVariableDefined
<1> QED BY <1>4, <1>5, <1>6

\* GetVariableName's assertion never fails for what the next instruction may
\* use by the rules of single assignment: a register whose definition dominates
\* the block, the cell of such an alloca, a constant used before, wherever that
\* was.  They are mapped in the current block, whatever the order of the blocks.
THEOREM OperandsAreFound == Spec => []OperandsFound
<1>1. Init => WalkInvariant /\ ScopeInvariant
  BY InitWalk, InitScope
<1>2. WalkInvariant /\ ScopeInvariant /\ [Next]_vars => (WalkInvariant /\ ScopeInvariant)'
  BY WalkStep, ScopeStep
<1>3. WalkInvariant /\ ScopeInvariant => OperandsFound
  BY ScopeFindsOperands
<1> QED BY <1>1, <1>2, <1>3, PTL DEF Spec

--------------------------------------------------------------------------------
\* The returns.

Arguments == {r \in DOMAIN defs : defs[r].kind = "parameter"}

\* The query checks value against the refinement of the result, which speaks of
\* names, in an environment that has them and the guard of block b.
Checked(store, b, value, names) ==
    LET known == {BlockGuard(b), value} \cup names
    IN  /\ known \subseteq Bound(store)
        /\ \E c \in DOMAIN store.constraintNameMapping :
              LET k == store.constraintNameMapping[c]
              IN  /\ c[1] = "check"
                  /\ k.targetQualifiers = Refinement(names)
                  /\ k.qualifiers = {Over({value})}
                  /\ getEnvironmentBinderIds(store, known) \subseteq k.env

\* The refinement stays what it was when the signature was captured, however
\* many versions of the result there are, and the check of a return is never
\* lost or changed; nor are the ids that it mentions.
ReturnsInvariant ==
    /\ returns \in Seq([block : Block, value : Registers \cup Constants])
    /\ \A r \in Arguments : defs[r].block = Entry
    /\ ResultKnown(succ, env, Arguments)
    /\ outcome \in {"open", "emitted"} =>
          \A i \in DOMAIN returns :
              Checked(env.store, returns[i].block, returns[i].value, Arguments)

\* The id of a bound name does not change.
LEMMA IdsStay ==
    ASSUME NEW s, NEW t, Grown(s, t), NEW names \in SUBSET Bound(s)
    PROVE  getEnvironmentBinderIds(t, names) = getEnvironmentBinderIds(s, names)
<1>1. \A n \in names : /\ n \in Bound(s) /\ n \in Bound(t)
                       /\ t.binderNameMapping[n] = s.binderNameMapping[n]
  BY DEF Grown
<1> QED BY <1>1 DEF getEnvironmentBinderIds

LEMMA CheckedStays ==
    ASSUME NEW s, NEW t, Grown(s, t), NEW b, NEW value, NEW names, Checked(s, b, value, names)
    PROVE  Checked(t, b, value, names)
<1> DEFINE known == {BlockGuard(b), value} \cup names
<1>1. known \in SUBSET Bound(s)
  BY DEF Checked
<1>2. PICK c \in DOMAIN s.constraintNameMapping :
          /\ c[1] = "check"
          /\ s.constraintNameMapping[c].targetQualifiers = Refinement(names)
          /\ s.constraintNameMapping[c].qualifiers = {Over({value})}
          /\ getEnvironmentBinderIds(s, known) \subseteq s.constraintNameMapping[c].env
  BY DEF Checked
<1> HIDE DEF known
<1>3. getEnvironmentBinderIds(t, known) = getEnvironmentBinderIds(s, known)
  BY <1>1, IdsStay
<1>4. /\ c \in DOMAIN t.constraintNameMapping
      /\ t.constraintNameMapping[c] = s.constraintNameMapping[c]
  BY DEF Grown
<1>5. known \subseteq Bound(t)
  BY <1>1 DEF Grown
<1> QED BY <1>2, <1>3, <1>4, <1>5 DEF Checked, known

LEMMA ResultStaysKnown ==
    ASSUME NEW g, NEW e, NEW d, NEW names, ResultKnown(g, e, names), Grows(e, d)
    PROVE  ResultKnown(g, d, names)
BY DEF ResultKnown, Grows, Grown, SameResult

\* A new version that has to obey the refinement is checked against it, with
\* what the current block knows.
LEMMA VersionChecked ==
    ASSUME NEW e, Tidy(e), NEW v, NEW name, NEW type, NEW names, NEW value,
           NEW b, b = e.currentBlockName,
           {BlockGuard(b), value} \cup names \subseteq getBlockBinders(e, b) \cap Bound(e.store),
           NEW r, r = createVariable(e, v, name, type, Refinement(names), Over({value})), r.ok
    PROVE  Checked(r.env.store, b, value, names)
<1> DEFINE scope == getBlockBinders(e, b)
           known == {BlockGuard(b), value} \cup names
           constraints == Refinement(names)
           expression == Over({value})
           created == Build(e, CreateBinderWithUnknownType(e.store, name, type, scope))
           s == created.env.store
           check == AddConstraint(s, <<"check", name>>, type, constraints, {expression}, scope)
           checked == Build(created.env, check)
           checking == IF created.ok THEN checked ELSE created
           assignment == AddConstraintForAssignment(checking.env.store, <<"assignment", name>>,
                                                    name, {expression}, scope)
           assigned == Build(checking.env, assignment)
           assigning == IF checking.ok THEN assigned ELSE checking
<1>1. constraints # {}
  BY DEF Refinement
<1>2. r = IF assigning.ok THEN Succeed(Introduce(assigning.env, v, name, type)) ELSE assigning
  <2> HIDE DEF constraints, expression
  <2>1. r = createVariable(e, v, name, type, constraints, expression)
    BY DEF constraints, expression
  <2> QED BY <1>1, <2>1 DEF createVariable, Then, Introduce
<1> HIDE DEF constraints, expression, scope
<1>3. Tidy(created.env) /\ Grown(e.store, s)
  <2> DEFINE result == CreateBinderWithUnknownType(e.store, name, type, scope)
  <2>1. Grown(e.store, result.store)
    BY UnknownBinderCreated DEF Tidy, Shape
  <2> HIDE DEF result
  <2>2. Follows(e, Build(e, result).env)
    BY <2>1, BuildFollows
  <2> QED BY <2>2 DEF Follows, Within, Grows, result
<1> HIDE DEF created
<1>4. /\ Grown(s, check.store)
      /\ check.ok =>
            /\ <<"check", name>> \in DOMAIN check.store.constraintNameMapping
            /\ LET k == check.store.constraintNameMapping[<<"check", name>>]
               IN  /\ k.qualifiers = {expression}
                   /\ k.targetQualifiers = constraints
                   /\ k.env = getEnvironmentBinderIds(s, scope)
  <2> DEFINE c == <<"check", name>>
  <2>1. DOMAIN s = StoreFields
    BY <1>3 DEF Tidy, Shape
  <2> HIDE DEF s, c
  <2>2. LET x == AddConstraint(s, c, type, constraints, {expression}, scope)
            k == x.store.constraintNameMapping[c]
        IN  /\ Grown(s, x.store)
            /\ x.ok => /\ c \in DOMAIN x.store.constraintNameMapping
                       /\ k.qualifiers = {expression}
                       /\ k.targetQualifiers = constraints
                       /\ k.env = getEnvironmentBinderIds(s, scope)
    BY <2>1, ConstraintAdded
  <2> QED BY <2>2 DEF c, s
<1> HIDE DEF check
<1>5. check.ok => Checked(check.store, b, value, names)
  <2> SUFFICES ASSUME check.ok  PROVE Checked(check.store, b, value, names)
    OBVIOUS
  <2> DEFINE c == <<"check", name>>
             k == check.store.constraintNameMapping[c]
  <2>1. known \subseteq Bound(s) /\ known \subseteq Bound(check.store)
    BY <1>3, <1>4 DEF Grown, scope
  <2>2. known \subseteq scope
    BY DEF scope
  <2> HIDE DEF known
  <2>3. getEnvironmentBinderIds(check.store, known) \subseteq k.env
    <3>1. getEnvironmentBinderIds(check.store, known) = getEnvironmentBinderIds(s, known)
      BY <1>4, <2>1, IdsStay
    <3>2. getEnvironmentBinderIds(s, known) \subseteq getEnvironmentBinderIds(s, scope)
      BY <2>2 DEF getEnvironmentBinderIds
    <3> QED BY <1>4, <3>1, <3>2
  <2>4. c \in DOMAIN check.store.constraintNameMapping /\ c[1] = "check"
    BY <1>4
  <2>5. k.targetQualifiers = Refinement(names) /\ k.qualifiers = {Over({value})}
    BY <1>4 DEF constraints, expression
  <2> HIDE DEF c
  <2> QED BY <2>1, <2>3, <2>4, <2>5 DEF Checked, known
<1>6. /\ Tidy(checked.env)
      /\ checked.ok = check.ok
      /\ checked.env.store = check.store
  <2>1. /\ Follows(created.env, checked.env)
        /\ checked.ok = check.ok
        /\ checked.env.store = check.store
    BY <1>3, <1>4, BuildFollows
  <2> QED BY <2>1 DEF Follows, Within
<1> HIDE DEF checked
<1>7. assigning.ok => Checked(assigning.env.store, b, value, names) /\ Shape(assigning.env)
  <2> SUFFICES ASSUME assigning.ok
               PROVE  Checked(assigning.env.store, b, value, names) /\ Shape(assigning.env)
    OBVIOUS
  <2>1. checking = checked /\ checked.ok /\ assigning = assigned
    OBVIOUS
  <2>2. Grown(checking.env.store, assignment.store)
    BY <1>6, <2>1, AssignmentConstraintAdded DEF Tidy, Shape
  <2> HIDE DEF assignment, checking
  <2>3. Follows(checking.env, assigned.env)
    BY <1>6, <2>1, <2>2, BuildFollows
  <2> HIDE DEF assigned
  <2> QED BY <1>5, <1>6, <2>1, <2>3, CheckedStays DEF Follows, Within, Grows, Tidy
<1> HIDE DEF assigning
<1>8. r.env.store = assigning.env.store /\ assigning.ok
  <2> DEFINE f == SetType(assigning.env, v, type)
             m == MapIn(f, f.currentBlockName, v, name)
  <2>1. r.env = m /\ assigning.ok
    BY <1>2 DEF Introduce, MapVariable, Succeed
  <2>2. f.store = assigning.env.store /\ Shape(f)
    BY <1>7, <2>1 DEF SetType, Shape, EnvironmentFields
  <2> HIDE DEF f
  <2>3. m.store = f.store
    <3>1. MappedIn(f, m, f.currentBlockName, v, name)
      BY <2>2, MapInFields
    <3> HIDE DEF m
    <3> QED BY <3>1 DEF MappedIn, SameBut, EnvironmentFields
  <2> QED BY <2>1, <2>2, <2>3
<1> QED BY <1>7, <1>8

\* A return whose call succeeds is checked.
LEMMA ReturnChecks ==
    ASSUME NEW e, Tidy(e), Running(e), NEW operand \in Registers \cup Constants,
           NEW g, NEW names \in SUBSET Registers, ResultKnown(g, e, names),
           NEW b, b = e.currentBlockName, b \in Reach(g, Entry), names \subseteq DOMAIN Mapping(e, b),
           NEW x, x = CaptureReturnInstructionConstraint(e, operand), x.ok
    PROVE  Checked(x.env.store, b, operand, names)
<1> DEFINE bound == getBinderName(e, operand, "int")
           d == bound.env
           f == CountVersion(d, Return)
           name == getNextVariableName(d, Return)
           assigned == AssignMutableVariable(d, Return, Over(MappedNames(d, {operand})))
<1>1. /\ bound.ok
      /\ operand \in DOMAIN Mapping(d, d.currentBlockName)
      /\ x = assigned
  <2>1. x = IF ~bound.ok THEN bound
            ELSE IF {operand} \subseteq DOMAIN Mapping(d, d.currentBlockName) THEN assigned
            ELSE Abort(d)
    BY DEF CaptureReturnInstructionConstraint, Then, LookUp
  <2> HIDE DEF assigned, bound
  <2>2. ~Abort(d).ok
    BY DEF Abort
  <2> QED BY <2>1, <2>2
<1>2. Follows(e, d)
  BY BinderFollows
<1>3. /\ Tidy(d) /\ Running(d) /\ d.currentBlockName = b
      /\ Grows(e, d)
      /\ ResultKnown(g, d, names)
      /\ b \in Block
  BY <1>2, StillTidy, ResultStaysKnown DEF Follows, Within, Running
<1>4. operand \in DOMAIN Mapping(d, b) /\ names \subseteq DOMAIN Mapping(d, b)
  BY <1>1, <1>3 DEF Grows
<1> HIDE DEF bound
<1>5. ASSUME NEW v \in {operand} \cup names
      PROVE  Mapping(d, b)[v] = v /\ v \in d.variablesValuesPerBlock[b] /\ v \in Bound(d.store)
  <2>1. v \in Registers \cup Constants /\ v \in DOMAIN Mapping(d, b)
    BY <1>4
  <2>2. Raw(v, Mapping(d, b)[v]) /\ Placed(d, b, v)
    BY <1>3, <2>1 DEF Tidy
  <2> QED BY <2>1, <2>2, RawIsItself DEF Placed
<1>6. MappedNames(d, {operand}) = {operand}
  BY <1>3, <1>5 DEF MappedNames, GetVariableName
<1>7. x = createVariable(f, Return, name, d.variableTypes[Return], Refinement(names), Over({operand}))
  <2>1. AssignMutableVariable(d, Return, Over({operand})).ok
    BY <1>1, <1>6
  <2>2. d.mutableVariableConstraints[Return] = Refinement(names)
    BY <1>3 DEF ResultKnown
  <2> DEFINE expression == Over({operand})
  <2>3. x = AssignMutableVariable(d, Return, expression)
    BY <1>1, <1>6
  <2> HIDE DEF expression
  <2>4. AssignMutableVariable(d, Return, expression) = Fail(d)
        \/ AssignMutableVariable(d, Return, expression)
            = createVariable(f, Return, name, d.variableTypes[Return], Refinement(names), expression)
    BY <2>2 DEF AssignMutableVariable
  <2>5. ~Fail(d).ok
    BY DEF Fail
  <2> QED BY <2>3, <2>4, <2>5 DEF expression
<1>8. /\ Tidy(f) /\ f.currentBlockName = b
      /\ f.store = d.store
      /\ f.variablesValuesPerBlock = d.variablesValuesPerBlock
  BY <1>3, CountVersionFollows DEF Follows, Within
<1> HIDE DEF d, f, name, assigned
<1>9. BlockGuard(b) \in Bound(f.store)
  BY <1>3, <1>8 DEF ResultKnown, Guards
<1>10. {BlockGuard(b), operand} \cup names \subseteq getBlockBinders(f, b) \cap Bound(f.store)
  BY <1>5, <1>8, <1>9 DEF getBlockBinders
<1> QED BY <1>7, <1>8, <1>10, VersionChecked

--------------------------------------------------------------------------------
\* The steps keep the third part of the invariant.

\* Only a return adds to the returns.
LEMMA OnlyReturnsReturn ==
    ASSUME Next, ~ReturnValue
    PROVE  UNCHANGED returns
<1>1. Computation \/ Select \/ CallFunction => UNCHANGED returns
  BY DEF Computation, Select, CallFunction, Instruction
<1>2. Alloca \/ Store \/ Load => UNCHANGED returns
  BY DEF Alloca, Store, Load, Instruction
<1>3. Phi \/ Jump \/ Branch \/ ToString => UNCHANGED returns
  BY DEF Phi, Jump, Branch, ToString
<1>4. (\E b \in Block : EnterBlock(b)) => UNCHANGED returns
  BY DEF EnterBlock
<1> QED BY <1>1, <1>2, <1>3, <1>4 DEF Next

\* No instruction defines a parameter.
LEMMA WalksKeepsArguments ==
    ASSUME WalkInvariant, Walks
    PROVE  /\ Arguments' = Arguments
           /\ \A r \in Arguments : defs'[r] = defs[r]
<1>1. CASE UNCHANGED defs
  BY <1>1 DEF Arguments
<1>2. ASSUME NEW r, NEW d, Defined(r, d)
      PROVE  Arguments' = Arguments /\ \A q \in Arguments : defs'[q] = defs[q]
  <2>1. r \notin DOMAIN defs /\ d.kind # "parameter" /\ defs' = Put(defs, r, d)
    BY <1>2 DEF Defined
  <2> DEFINE m == Put(defs, r, d)
  <2>2. /\ DOMAIN m = DOMAIN defs \cup {r}
        /\ m[r] = d
        /\ \A q \in DOMAIN defs : q # r => m[q] = defs[q]
    BY DEF Put
  <2>3. defs' = m
    BY <2>1
  <2> HIDE DEF m
  <2> QED BY <2>1, <2>2, <2>3 DEF Arguments
<1> QED BY <1>1, <1>2 DEF Walks

\* Nothing is returned, and everything else is there as it was.
LEMMA ReturnsStay ==
    ASSUME ReturnsInvariant, UNCHANGED <<succ, returns>>, Grows(env, env'),
           Arguments' = Arguments, \A r \in Arguments : defs'[r] = defs[r],
           outcome \in {"open", "emitted"}
    PROVE  ReturnsInvariant'
<1>1. ResultKnown(succ', env', Arguments')
  BY ResultStaysKnown DEF ReturnsInvariant
<1>2. ASSUME NEW i \in DOMAIN returns
      PROVE  Checked(env'.store, returns[i].block, returns[i].value, Arguments)
  <2>1. Checked(env.store, returns[i].block, returns[i].value, Arguments)
    BY DEF ReturnsInvariant
  <2> QED BY <2>1, CheckedStays DEF Grows
<1> QED BY <1>1, <1>2 DEF ReturnsInvariant

LEMMA ReturnValueChecks ==
    ASSUME WalkInvariant, ScopeInvariant, ReturnsInvariant, ReturnValue
    PROVE  ReturnsInvariant'
<1>1. PICK v \in Operands("int") :
          /\ Terminator("return", CaptureReturnInstructionConstraint(env, v))
          /\ returns' = Append(returns, [block |-> Current, value |-> v])
  BY DEF ReturnValue
<1> DEFINE result == CaptureReturnInstructionConstraint(env, v)
           new == [block |-> Current, value |-> v]
<1>2. /\ outcome = "open"
      /\ env' = result.env
      /\ UNCHANGED <<succ, defs>>
      /\ outcome' \in {"open", "error", "aborted"}
      /\ outcome' = "open" => result.ok
  <2> HIDE DEF result
  <2>1. Terminator("return", result)
    BY <1>1 DEF result
  <2> QED BY <2>1, CallOutcome DEF Terminator
<1>3. v \in Registers \cup Constants
  BY DEF Operands, Usable, WalkInvariant, TypeOK
<1>4. Current \in Block /\ Current \in Reach(succ, Entry) /\ Current \in started
  BY WalkRuns DEF WalkInvariant, TypeOK, Running, Current
<1>5. Arguments \in SUBSET Registers /\ Arguments' = Arguments
  BY <1>2 DEF WalkInvariant, TypeOK, Arguments
<1>6. Arguments \subseteq DOMAIN Mapping(env, Current)
  <2>1. Dominates(succ, Entry, Current)
    BY DEF Dominates, Avoids
  <2>2. DefinitionsVisible(succ, env, started, defs)
    BY <1>2, ScopeParts
  <2> QED BY <1>4, <2>1, <2>2 DEF ReturnsInvariant, Arguments, DefinitionsVisible, InScope
<1>7. result.ok => Checked(result.env.store, Current, v, Arguments)
  BY <1>3, <1>4, <1>5, <1>6, WalkRuns, ReturnChecks DEF ReturnsInvariant, Current
<1>8. Grows(env, env')
  BY <1>2, WalkRuns, ReturnFollows DEF Follows, Within
<1> HIDE DEF result
<1>9. /\ returns' \in Seq([block : Block, value : Registers \cup Constants])
      /\ DOMAIN returns' = DOMAIN returns \cup {Len(returns) + 1}
      /\ returns'[Len(returns) + 1] = new
      /\ \A i \in DOMAIN returns : returns'[i] = returns[i]
  <2>1. returns \in Seq([block : Block, value : Registers \cup Constants])
    BY DEF ReturnsInvariant
  <2>2. new \in [block : Block, value : Registers \cup Constants]
    BY <1>3, <1>4
  <2>3. returns' = Append(returns, new)
    BY <1>1
  <2> DEFINE T == [block : Block, value : Registers \cup Constants]
  <2> HIDE DEF new, T
  <2>4. returns \in Seq(T) /\ new \in T
    BY <2>1, <2>2 DEF T
  <2>5. /\ returns' \in Seq(T)
        /\ DOMAIN returns' = DOMAIN returns \cup {Len(returns) + 1}
        /\ returns'[Len(returns) + 1] = new
        /\ \A i \in DOMAIN returns : returns'[i] = returns[i]
    BY <2>3, <2>4
  <2> QED BY <2>5 DEF T
<1>10. ASSUME outcome' = "open", NEW i \in DOMAIN returns'
       PROVE  Checked(env'.store, returns'[i].block, returns'[i].value, Arguments)
  <2>1. CASE i \in DOMAIN returns
    <3>1. Checked(env.store, returns[i].block, returns[i].value, Arguments)
      BY <1>2, <2>1 DEF ReturnsInvariant
    <3> QED BY <1>8, <1>9, <2>1, <3>1, CheckedStays DEF Grows
  <2>2. CASE i = Len(returns) + 1
    BY <1>2, <1>7, <1>9, <1>10, <2>2
  <2> QED BY <1>9, <2>1, <2>2
<1>11. ResultKnown(succ', env', Arguments')
  BY <1>2, <1>5, <1>8, ResultStaysKnown DEF ReturnsInvariant
<1> HIDE DEF new
<1> QED BY <1>2, <1>5, <1>9, <1>10, <1>11 DEF ReturnsInvariant

LEMMA ReturnsStep ==
    ASSUME WalkInvariant, ScopeInvariant, ReturnsInvariant, [Next]_vars
    PROVE  ReturnsInvariant'
<1>1. CASE Next /\ ReturnValue
  BY <1>1, ReturnValueChecks
<1>2. CASE Next /\ ~ReturnValue
  <2>1. UNCHANGED returns
    BY <1>2, OnlyReturnsReturn
  <2>2. CASE \E b \in Block : EnterBlock(b)
    <3>1. PICK b \in Block : EnterBlock(b)
      BY <2>2
    <3>2. PICK result :
              /\ Started(succ, env, b, result)
              /\ Call("block", result)
              /\ UNCHANGED <<defs, owed, room>>
      BY <3>1, EnterBlockStarts
    <3>3. outcome = "open" /\ env' = result.env /\ UNCHANGED succ
      BY <3>2, CallOutcome
    <3>4. Grows(env, env')
      BY <3>2, <3>3 DEF Started, Advances
    <3> QED BY <2>1, <3>2, <3>3, <3>4, ReturnsStay DEF Arguments
  <2>3. CASE Walks
    BY <2>1, <2>3, WalksKeepsArguments, ReturnsStay DEF Walks, Follows, Within
  <2>4. CASE ToString
    <3>1. Grows(env, env') /\ UNCHANGED <<succ, defs>>
      BY <2>4, ToStringEnds DEF Advances
    <3>2. outcome = "open"
      BY <2>4 DEF ToString
    <3> QED BY <2>1, <3>1, <3>2, ReturnsStay DEF Arguments
  <2> QED BY <1>2, <2>2, <2>3, <2>4, NextSteps
<1>3. CASE UNCHANGED vars
  BY <1>3 DEF vars, ReturnsInvariant, Arguments
<1> QED BY <1>1, <1>2, <1>3

LEMMA InitReturns ==
    ASSUME Init
    PROVE  ReturnsInvariant
<1>1. /\ \A r \in DOMAIN defs : defs[r].kind = "parameter" /\ defs[r].block = Entry
      /\ ResultKnown(succ, env, DOMAIN defs)
      /\ returns = << >>
  BY InitWalk
<1>2. Arguments = DOMAIN defs
  BY <1>1 DEF Arguments
<1> QED BY <1>1, <1>2 DEF ReturnsInvariant

\* Whatever comes between a return and the query, and however many others there
\* are: when the query is written, it has a check of the value of each return
\* against the refinement of the function's result, in an environment that has
\* the guard of the return's block and all parameters that the refinement
\* speaks of.
THEOREM ReturnsAreChecked == Spec => []ReturnsChecked
<1>1. Init => WalkInvariant /\ ScopeInvariant /\ ReturnsInvariant
  BY InitWalk, InitScope, InitReturns
<1>2. WalkInvariant /\ ScopeInvariant /\ ReturnsInvariant /\ [Next]_vars
        => (WalkInvariant /\ ScopeInvariant /\ ReturnsInvariant)'
  BY WalkStep, ScopeStep, ReturnsStep
<1>3. ReturnsInvariant => ReturnsChecked
  BY DEF ReturnsInvariant, ReturnsChecked, Checked, Arguments
<1> QED BY <1>1, <1>2, <1>3, PTL DEF Spec
================================================================================
