---------------------- MODULE VariablesEnvironmentProofs ----------------------
(***************************************************************************)
(* What VariablesEnvironment guarantees on any control flow graph, for any *)
(* variables: a finished block is never changed, an input is visible in    *)
(* every block, every value of a refined variable answers for its          *)
(* refinement, and a query is not written before all blocks are processed; *)
(* for an orderly client, every id in the query is declared there.         *)
(*                                                                         *)
(* An operation of the environment is a chain of small steps and of loops. *)
(* Healthy holds of the object after each of them, also when a call fails  *)
(* half way, and each of them leads to a state that Stays with the one     *)
(* before it: it takes nothing back.                                       *)
(*                                                                         *)
(* The last part is about the paths of the control flow graph: a variable  *)
(* is in scope exactly where every path has written it (ScopeIsExact), and *)
(* its value flows along every edge between processed blocks, through the  *)
(* name it keeps or through a phi node (EveryPathDoesFlow).  Their         *)
(* invariant says what is in scope, what each name may hold, and, for an   *)
(* edge whose source is unfinished, that the value is still owed.          *)
(***************************************************************************)
EXTENDS VariablesEnvironment, EnvironmentStoreTheorems

--------------------------------------------------------------------------------
\* The refinement of v is demanded of the value that name n holds.
Demanded(s, v, n) ==
    LET constraints == s.constraintNameMapping
    IN  \/ n \in Bound(s) /\ s.binderNameMapping[n].qualifiers = Constraints(v)
        \/ /\ {<<"check", n>>, <<"assignment", n>>} \subseteq DOMAIN constraints
           /\ constraints[<<"check", n>>].targetQualifiers = Constraints(v)
           /\ constraints[<<"check", n>>].qualifiers =
                 constraints[<<"assignment", n>>].qualifiers
        \/ \E p, b \in Block :
              /\ <<"phi", p, b, n>> \in DOMAIN constraints
              /\ \E x \in constraints[<<"phi", p, b, n>>].qualifiers : x[2] # {}

\* A block may map x to name n.
Fits(s, x, n) ==
    /\ x \in Keys
    /\ n \in Values
    /\ x \notin Variable => n = x
    /\ x \in Futures => x \in Bound(s)
    /\ x \in Refined \ Phis => Demanded(s, x, n)

\* Transition guards and promised values are bound by the block they come from.
BoundByOwner(e) ==
    \A c \in Block :
        (\E n \in Bound(e.store) : \/ \E b \in Block : n = TransitionGuard(c, b)
                                   \/ \E v \in Variable : n = FuturePhi(c, v))
            => c \in e.finishedBlocks \cup {e.currentBlockName}

MappingsFit(e) ==
    /\ DOMAIN e.variablesMappingsPerBlock \subseteq Block
    /\ e.variablesValuesPerBlock \in [Block -> SUBSET Values]
    /\ \A b \in Block : \A x \in DOMAIN Mapping(e, b) :
          /\ Fits(e.store, x, Mapping(e, b)[x])
          /\ Mapping(e, b)[x] \in e.variablesValuesPerBlock[b]

ConstraintsNoted(e) ==
    /\ e.outputVariables \subseteq Outputs
    /\ e.mutableVariables \subseteq Mutables
    /\ \A v \in e.outputVariables \cup e.mutableVariables :
          /\ v \in DOMAIN e.mutableVariableConstraints
          /\ e.mutableVariableConstraints[v] = Constraints(v)

Obligations == [VariableSource : Variable, TargetFutureVariable : Futures]

\* A finished block owes nothing, and the others owe values of their own.
ObligationsFit(e) ==
    /\ e.phiNodeObligations \in [Block -> Seq(Obligations)]
    /\ \A b \in e.finishedBlocks : e.phiNodeObligations[b] = << >>
    /\ \A b \in Block : \A i \in DOMAIN e.phiNodeObligations[b] :
          \E v \in Variable : e.phiNodeObligations[b][i].TargetFutureVariable = FuturePhi(b, v)

Healthy(e) ==
    /\ Shape(e)
    /\ e.currentBlockName \in Block \cup {NoBlock}
    /\ e.finishedBlocks \subseteq Block
    /\ DOMAIN e.variableTypes \subseteq Variable \cup Futures
    /\ e.mutableVariableState \in [Variable -> Nat \ {0}]
    /\ MappingsFit(e)
    /\ ConstraintsNoted(e)
    /\ ObligationsFit(e)
    /\ BoundByOwner(e)

\* What a phi node waits for has an id, so that it is missed if it is not bound.
Owed(e) ==
    \A b \in Block : \A i \in DOMAIN e.phiNodeObligations[b] :
        e.phiNodeObligations[b][i].TargetFutureVariable \in Known(e.store)

--------------------------------------------------------------------------------
\* The inductive invariant.
EnvironmentInv ==
    /\ <<succ, used>> \in Programs
    /\ Healthy(env)
    /\ outcome \in {"open", "error", "overflow", "emitted"}
    /\ writtenIn \in [Variable -> SUBSET (Block \cup {NoBlock})]

\* While the client may go on: before the first block nothing has happened,
\* and the current block is not finished.
OpenInv ==
    outcome = "open" =>
        /\ Current = NoBlock => env = EmptyEnvironment
        /\ Current \notin Finished

\* No edge and no phi node is forgotten.
KnownInv ==
    outcome \in {"open", "emitted"} /\ Current # NoBlock =>
        /\ Owed(env)
        /\ \A e \in Edges(succ) : TransitionGuard(e[1], e[2]) \in Known(env.store)

EmittedInv ==
    outcome = "emitted" => Current \in Finished /\ Promised(env.store) = {}

\* Every block that can be left has a mapping: those with a way to them from
\* the start, and the entry, to which there may be none, when it is left.
MappedInv ==
    outcome = "open" /\ Current # NoBlock =>
        /\ Reach(succ, Entry) \ {Entry} \subseteq DOMAIN env.variablesMappingsPerBlock
        /\ (Finished \cup {Current}) \cap (Reach(succ, Entry) \ {Entry}) # {} =>
              Entry \in DOMAIN env.variablesMappingsPerBlock

Inv ==
    /\ EnvironmentInv
    /\ OpenInv
    /\ KnownInv
    /\ EmittedInv
    /\ MappedInv
    /\ InputsVisibleEverywhere
--------------------------------------------------------------------------------
\* What every operation of the object guarantees, of the state e before it and
\* the state d after it: no name goes out of scope, and what finished blocks map
\* their variables to does not change.
Grows(e, d) ==
    /\ e.finishedBlocks \subseteq d.finishedBlocks
    /\ DOMAIN e.variableTypes \subseteq DOMAIN d.variableTypes
    /\ DOMAIN e.variablesMappingsPerBlock \subseteq DOMAIN d.variablesMappingsPerBlock
    /\ \A b \in Block : DOMAIN Mapping(e, b) \subseteq DOMAIN Mapping(d, b)
    /\ \A b \in e.finishedBlocks : \A x \in DOMAIN Mapping(e, b) :
          Mapping(d, b)[x] = Mapping(e, b)[x]
    /\ Grown(e.store, d.store)

\* The same block is current, and no block has been finished.
Stays(e, d) ==
    /\ Grows(e, d)
    /\ d.currentBlockName = e.currentBlockName
    /\ d.finishedBlocks = e.finishedBlocks

Within(e, d) == Stays(e, d) /\ d.phiNodeObligations = e.phiNodeObligations

\* The same of the result r of an operation on e, whether it succeeded or not.
Leads(e, r) ==
    /\ Healthy(r.env)
    /\ Within(e, r.env)
    /\ r.ok => Known(e.store) \subseteq Known(r.env.store)

\* And of an operation that promises nothing.
Keeps(e, r) == Leads(e, r) /\ (r.ok => Settles(e.store, r.env.store))

LEMMA GrowsTransitive ==
    ASSUME NEW d, NEW e, NEW f, d.finishedBlocks \subseteq Block, Grows(d, e), Grows(e, f)
    PROVE  Grows(d, f)
<1>1. Grown(d.store, f.store)
  BY GrownTransitive DEF Grows
<1>2. ASSUME NEW b \in d.finishedBlocks, NEW x \in DOMAIN Mapping(d, b)
      PROVE  Mapping(f, b)[x] = Mapping(d, b)[x]
  <2>1. b \in Block /\ b \in e.finishedBlocks /\ x \in DOMAIN Mapping(e, b)
    BY DEF Grows
  <2> QED BY <2>1 DEF Grows
<1>3. \A b \in Block : DOMAIN Mapping(d, b) \subseteq DOMAIN Mapping(f, b)
  BY DEF Grows
<1>4. /\ d.finishedBlocks \subseteq f.finishedBlocks
      /\ DOMAIN d.variableTypes \subseteq DOMAIN f.variableTypes
      /\ DOMAIN d.variablesMappingsPerBlock \subseteq DOMAIN f.variablesMappingsPerBlock
  BY DEF Grows
<1> QED BY <1>1, <1>2, <1>3, <1>4 DEF Grows

LEMMA GrowsReflexive ==
    ASSUME NEW e, Shape(e)
    PROVE  Grows(e, e)
BY GrownReflexive DEF Grows, Shape

LEMMA StaysTransitive ==
    ASSUME NEW d, NEW e, NEW f, d.finishedBlocks \subseteq Block, Stays(d, e), Stays(e, f)
    PROVE  Stays(d, f)
BY GrowsTransitive DEF Stays

LEMMA LeadsTransitive ==
    ASSUME NEW e, Healthy(e), NEW r, NEW q, Leads(e, r), r.ok, Leads(r.env, q)
    PROVE  Leads(e, q)
<1>1. Stays(e, q.env)
  <2>1. e.finishedBlocks \subseteq Block /\ Stays(e, r.env) /\ Stays(r.env, q.env)
    BY DEF Leads, Within, Healthy
  <2> QED BY <2>1, StaysTransitive
<1> QED BY <1>1 DEF Leads, Within

LEMMA KeepsReflexive ==
    ASSUME NEW e, Healthy(e), NEW r, r.env = e
    PROVE  Keeps(e, r)
BY GrowsReflexive, SettlesReflexive DEF Keeps, Leads, Within, Stays, Healthy

LEMMA KeepsTransitive ==
    ASSUME NEW e, Healthy(e), NEW r, NEW q, Keeps(e, r), r.ok, Keeps(r.env, q)
    PROVE  Keeps(e, q)
BY LeadsTransitive, SettlesTransitive DEF Keeps

--------------------------------------------------------------------------------
LEMMA DemandedGrows ==
    ASSUME NEW s, NEW t, Grown(s, t), NEW v, NEW n, Demanded(s, v, n)
    PROVE  Demanded(t, v, n)
BY DEF Grown, Demanded

LEMMA FitsGrows ==
    ASSUME NEW s, NEW t, Grown(s, t), NEW x, NEW n, Fits(s, x, n)
    PROVE  Fits(t, x, n)
BY DemandedGrows DEF Fits, Grown

\* The name n may be bound now.
MayBind(e, n) ==
    \A c \in Block :
        \/ \E b \in Block : n = TransitionGuard(c, b)
        \/ \E v \in Variable : n = FuturePhi(c, v)
        => c \in e.finishedBlocks \cup {e.currentBlockName}

LEMMA MayBindOwn ==
    ASSUME NEW e, NEW n
    PROVE  /\ n \in Variable \cup Versions => MayBind(e, n)
           /\ MayBind(e, BlockGuard(n))
           /\ \A p : MayBind(e, PhiGuard(n, p))
           /\ MayBind(e, TransitionGuard(e.currentBlockName, n))
           /\ MayBind(e, FuturePhi(e.currentBlockName, n))
<1>1. n \in Variable => MayBind(e, n)
  BY NamesAssumption DEF MayBind, Transitions, Futures
<1>2. n \in Versions => MayBind(e, n)
  BY DEF MayBind, Versions, TransitionGuard, FuturePhi
<1> QED BY <1>1, <1>2 DEF MayBind, BlockGuard, PhiGuard, TransitionGuard, FuturePhi

\* A call of the builder.
LEMMA BuildLeads ==
    ASSUME NEW e, Healthy(e), NEW result, Grown(e.store, result.store),
           NEW name, MayBind(e, name), Bound(result.store) \subseteq Bound(e.store) \cup {name},
           result.ok => Known(e.store) \subseteq Known(result.store)
    PROVE  Leads(e, Build(e, result))
<1> DEFINE r == Build(e, result)
           d == r.env
<1>1. /\ r.ok = result.ok
      /\ SameBut(e, d, {"store"})
      /\ d.store = result.store
  BY BuildFields DEF Healthy
<1> HIDE DEF r
<1>2. /\ d.currentBlockName = e.currentBlockName
      /\ d.variableTypes = e.variableTypes
      /\ d.mutableVariableState = e.mutableVariableState
      /\ d.variablesMappingsPerBlock = e.variablesMappingsPerBlock
      /\ d.variablesValuesPerBlock = e.variablesValuesPerBlock
      /\ d.finishedBlocks = e.finishedBlocks
      /\ d.phiNodeObligations = e.phiNodeObligations
      /\ d.outputVariables = e.outputVariables
      /\ d.mutableVariables = e.mutableVariables
      /\ d.mutableVariableConstraints = e.mutableVariableConstraints
      /\ DOMAIN d = EnvironmentFields
  BY <1>1 DEF SameBut, EnvironmentFields
<1>3. \A b : Mapping(d, b) = Mapping(e, b)
  BY <1>2 DEF Mapping
<1>4. Shape(d)
  BY <1>1, <1>2 DEF Shape, Grown
<1>5. MappingsFit(d)
  <2>1. ASSUME NEW b \in Block, NEW x \in DOMAIN Mapping(d, b)
        PROVE  Fits(d.store, x, Mapping(d, b)[x])
    BY <1>1, <1>3, FitsGrows DEF Healthy, MappingsFit
  <2> QED BY <1>2, <1>3, <2>1 DEF Healthy, MappingsFit
<1>6. ConstraintsNoted(d) /\ ObligationsFit(d)
  BY <1>2 DEF Healthy, ConstraintsNoted, ObligationsFit
<1>7. BoundByOwner(d)
  BY <1>1, <1>2 DEF Healthy, BoundByOwner, MayBind
<1>8. Healthy(d)
  BY <1>2, <1>4, <1>5, <1>6, <1>7 DEF Healthy
<1>9. Within(e, d)
  BY <1>1, <1>2, <1>3 DEF Within, Stays, Grows
<1> QED BY <1>1, <1>8, <1>9 DEF Leads, r

LEMMA BuildKeeps ==
    ASSUME NEW e, Healthy(e), NEW result, Grown(e.store, result.store),
           NEW name, MayBind(e, name), Bound(result.store) \subseteq Bound(e.store) \cup {name},
           result.ok => /\ Known(e.store) \subseteq Known(result.store)
                        /\ Settles(e.store, result.store)
    PROVE  Keeps(e, Build(e, result))
<1>1. Leads(e, Build(e, result))
  BY BuildLeads
<1>2. Build(e, result).ok = result.ok /\ Build(e, result).env.store = result.store
  BY BuildFields DEF Healthy
<1> QED BY <1>1, <1>2 DEF Keeps

LEMMA MayBindStays ==
    ASSUME NEW e, NEW d, Stays(e, d), NEW n, MayBind(e, n)
    PROVE  MayBind(d, n)
BY DEF Stays, MayBind

\* The result r of a call that creates the binder of a name.
BinderBuilt(e, r, name, qualifiers) ==
    /\ Keeps(e, r)
    /\ r.ok => /\ name \in Bound(r.env.store) /\ name \in Known(r.env.store)
               /\ r.env.store.binderNameMapping[name].qualifiers = qualifiers
               /\ Mentioned(r.env.store) = Mentioned(e.store)

LEMMA ConstrainedKeeps ==
    ASSUME NEW e, Healthy(e), NEW name, MayBind(e, name), NEW type, NEW qualifiers
    PROVE  BinderBuilt(e, Build(e, CreateBinderWithConstraints(e.store, name, type, qualifiers)),
                       name, qualifiers)
<1> DEFINE result == CreateBinderWithConstraints(e.store, name, type, qualifiers)
<1>1. Shape(e)
  BY DEF Healthy
<1>2. /\ Grown(e.store, result.store)
      /\ Bound(result.store) \subseteq Bound(e.store) \cup {name}
      /\ result.ok => /\ Known(e.store) \cup {name} \subseteq Known(result.store)
                      /\ name \in Bound(result.store)
                      /\ result.store.binderNameMapping[name].qualifiers = qualifiers
                      /\ Settles(e.store, result.store)
                      /\ Mentioned(result.store) = Mentioned(e.store)
  <2>1. BinderMade(e.store, result, name, qualifiers)
    BY <1>1, ConstrainedBinderCreated DEF Shape
  <2> QED BY <2>1 DEF BinderMade
<1> HIDE DEF result
<1>3. Build(e, result).ok = result.ok /\ Build(e, result).env.store = result.store
  BY <1>1, BuildFields
<1>4. Keeps(e, Build(e, result))
  BY <1>2, BuildKeeps
<1> QED BY <1>2, <1>3, <1>4 DEF BinderBuilt, result

LEMMA UnknownKeeps ==
    ASSUME NEW e, Healthy(e), NEW name, MayBind(e, name), NEW type, NEW names
    PROVE  LET r == Build(e, CreateBinderWithUnknownType(e.store, name, type, names))
           IN  /\ Keeps(e, r)
               /\ r.ok => name \in Bound(r.env.store) /\ name \notin Promised(r.env.store)
<1> DEFINE result == CreateBinderWithUnknownType(e.store, name, type, names)
<1>1. Shape(e)
  BY DEF Healthy
<1>2. /\ Grown(e.store, result.store)
      /\ Bound(result.store) \subseteq Bound(e.store) \cup {name}
      /\ result.ok => /\ Known(e.store) \cup {name} \subseteq Known(result.store)
                      /\ name \in Bound(result.store)
                      /\ name \notin Promised(result.store)
                      /\ Settles(e.store, result.store)
  BY <1>1, UnknownBinderCreated DEF Shape
<1> HIDE DEF result
<1>3. Build(e, result).ok = result.ok /\ Build(e, result).env.store = result.store
  BY <1>1, BuildFields
<1>4. Keeps(e, Build(e, result))
  BY <1>2, BuildKeeps
<1> QED BY <1>2, <1>3, <1>4 DEF result

\* A promise: nothing that is mentioned loses its id, unless it was one before.
LEMMA FutureLeads ==
    ASSUME NEW e, Healthy(e), NEW name, NEW type
    PROVE  LET r == Build(e, CreateFutureBinder(e.store, name, type))
           IN  /\ Leads(e, r)
               /\ r.ok => /\ name \in Known(r.env.store)
                          /\ Promised(r.env.store) = Promised(e.store) \cup {name}
                          /\ Mentioned(r.env.store) = Mentioned(e.store)
                          /\ name \notin Promised(e.store) /\ Live(e.store) => Live(r.env.store)
<1> DEFINE result == CreateFutureBinder(e.store, name, type)
<1>1. Shape(e)
  BY DEF Healthy
<1>2. /\ Grown(e.store, result.store)
      /\ Bound(result.store) = Bound(e.store)
      /\ result.ok => /\ Known(e.store) \cup {name} \subseteq Known(result.store)
                      /\ Promised(result.store) = Promised(e.store) \cup {name}
                      /\ Mentioned(result.store) = Mentioned(e.store)
                      /\ name \notin Promised(e.store) /\ Live(e.store) => Live(result.store)
  BY <1>1, FutureBinderCreated DEF Shape
<1> HIDE DEF result
<1>3. Build(e, result).ok = result.ok /\ Build(e, result).env.store = result.store
  BY <1>1, BuildFields
<1>4. Leads(e, Build(e, result))
  BY <1>2, BuildLeads, MayBindOwn
<1> QED BY <1>2, <1>3, <1>4 DEF result

\* The result r of a call that adds a constraint.
ConstraintBuilt(e, r, constraintName, expression) ==
    /\ Keeps(e, r)
    /\ r.ok => /\ constraintName \in DOMAIN r.env.store.constraintNameMapping
               /\ r.env.store.constraintNameMapping[constraintName].qualifiers = expression

LEMMA ConstraintKeeps ==
    ASSUME NEW e, Healthy(e), NEW constraintName, NEW type, NEW constraints,
           NEW expression, NEW names
    PROVE  LET r == Build(e, AddConstraint(e.store, constraintName, type, constraints,
                                           expression, names))
           IN  /\ ConstraintBuilt(e, r, constraintName, expression)
               /\ r.ok => r.env.store.constraintNameMapping[constraintName].targetQualifiers =
                             constraints
<1> DEFINE result == AddConstraint(e.store, constraintName, type, constraints, expression, names)
<1>1. Shape(e)
  BY DEF Healthy
<1>2. /\ Grown(e.store, result.store)
      /\ Bound(result.store) = Bound(e.store)
      /\ result.ok => /\ Known(e.store) \subseteq Known(result.store)
                      /\ constraintName \in DOMAIN result.store.constraintNameMapping
                      /\ result.store.constraintNameMapping[constraintName].qualifiers = expression
                      /\ result.store.constraintNameMapping[constraintName].targetQualifiers =
                            constraints
                      /\ Settles(e.store, result.store)
  BY <1>1, ConstraintAdded DEF Shape
<1> HIDE DEF result
<1>3. Build(e, result).ok = result.ok /\ Build(e, result).env.store = result.store
  BY <1>1, BuildFields
<1>4. Keeps(e, Build(e, result))
  BY <1>2, BuildKeeps, MayBindOwn
<1> QED BY <1>2, <1>3, <1>4 DEF ConstraintBuilt, result

LEMMA AssignmentKeeps ==
    ASSUME NEW e, Healthy(e), NEW constraintName, NEW target, NEW expression, NEW names
    PROVE  ConstraintBuilt(e, Build(e, AddConstraintForAssignment(e.store, constraintName, target,
                                                                  expression, names)),
                           constraintName, expression)
<1> DEFINE result == AddConstraintForAssignment(e.store, constraintName, target, expression, names)
<1>1. Shape(e)
  BY DEF Healthy
<1>2. /\ Grown(e.store, result.store)
      /\ Bound(result.store) = Bound(e.store)
      /\ result.ok => /\ Known(e.store) \subseteq Known(result.store)
                      /\ constraintName \in DOMAIN result.store.constraintNameMapping
                      /\ result.store.constraintNameMapping[constraintName].qualifiers = expression
                      /\ Settles(e.store, result.store)
  BY <1>1, AssignmentConstraintAdded DEF Shape
<1> HIDE DEF result
<1>3. Build(e, result).ok = result.ok /\ Build(e, result).env.store = result.store
  BY <1>1, BuildFields
<1>4. Keeps(e, Build(e, result))
  BY <1>2, BuildKeeps, MayBindOwn
<1> QED BY <1>2, <1>3, <1>4 DEF ConstraintBuilt, result

\* A name comes into scope; in a finished block, only one that it did not have.
LEMMA MapInKeeps ==
    ASSUME NEW e, Healthy(e), NEW b \in Block, NEW x, NEW n, Fits(e.store, x, n),
           b \in e.finishedBlocks => x \notin DOMAIN Mapping(e, b)
    PROVE  LET d == MapIn(e, b, x, n)
           IN  /\ Keeps(e, Succeed(d))
               /\ b \in DOMAIN d.variablesMappingsPerBlock
               /\ x \in DOMAIN Mapping(d, b)
               /\ d.store = e.store
               /\ \A c : c # b => Mapping(d, c) = Mapping(e, c)
<1> DEFINE d == MapIn(e, b, x, n)
<1>1. /\ SameBut(e, d, {"variablesMappingsPerBlock", "variablesValuesPerBlock"})
      /\ d.variablesValuesPerBlock = [e.variablesValuesPerBlock EXCEPT ![b] = @ \cup {n}]
      /\ DOMAIN d.variablesMappingsPerBlock = DOMAIN e.variablesMappingsPerBlock \cup {b}
      /\ Mapping(d, b) = Put(Mapping(e, b), x, n)
      /\ \A c : c # b => Mapping(d, c) = Mapping(e, c)
  <2>1. MappedIn(e, d, b, x, n)
    BY MapInFields DEF Healthy
  <2> QED BY <2>1 DEF MappedIn
<1> HIDE DEF d
<1>2. /\ d.currentBlockName = e.currentBlockName
      /\ d.variableTypes = e.variableTypes
      /\ d.mutableVariableState = e.mutableVariableState
      /\ d.finishedBlocks = e.finishedBlocks
      /\ d.phiNodeObligations = e.phiNodeObligations
      /\ d.outputVariables = e.outputVariables
      /\ d.mutableVariables = e.mutableVariables
      /\ d.mutableVariableConstraints = e.mutableVariableConstraints
      /\ d.store = e.store
      /\ DOMAIN d = EnvironmentFields
  BY <1>1 DEF SameBut, EnvironmentFields
<1>3. /\ DOMAIN Mapping(d, b) = DOMAIN Mapping(e, b) \cup {x}
      /\ Mapping(d, b)[x] = n
      /\ \A y \in DOMAIN Mapping(e, b) : y # x => Mapping(d, b)[y] = Mapping(e, b)[y]
  <2> DEFINE m == Mapping(e, b)
  <2> HIDE DEF m
  <2>1. /\ DOMAIN Put(m, x, n) = DOMAIN m \cup {x}
        /\ Put(m, x, n)[x] = n
        /\ \A y \in DOMAIN m : y # x => Put(m, x, n)[y] = m[y]
    BY DEF Put
  <2> QED BY <1>1, <2>1 DEF m
<1>4. e.variablesValuesPerBlock \in [Block -> SUBSET Values] /\ n \in Values
  BY DEF Healthy, MappingsFit, Fits
<1>5. MappingsFit(d)
  <2>1. d.variablesValuesPerBlock \in [Block -> SUBSET Values]
    BY <1>1, <1>4
  <2>2. ASSUME NEW c \in Block, NEW y \in DOMAIN Mapping(d, c)
        PROVE  /\ Fits(d.store, y, Mapping(d, c)[y])
               /\ Mapping(d, c)[y] \in d.variablesValuesPerBlock[c]
    <3>1. ASSUME y \in DOMAIN Mapping(e, c)
          PROVE  /\ Fits(e.store, y, Mapping(e, c)[y])
                 /\ Mapping(e, c)[y] \in e.variablesValuesPerBlock[c]
      BY <3>1 DEF Healthy, MappingsFit
    <3>2. c # b => d.variablesValuesPerBlock[c] = e.variablesValuesPerBlock[c]
      BY <1>1, <1>4
    <3>3. d.variablesValuesPerBlock[b] = e.variablesValuesPerBlock[b] \cup {n}
      BY <1>1, <1>4
    <3>4. CASE c # b
      BY <1>1, <1>2, <3>1, <3>2, <3>4
    <3>5. CASE c = b /\ y # x
      BY <1>2, <1>3, <3>1, <3>3, <3>5
    <3>6. CASE c = b /\ y = x
      BY <1>2, <1>3, <3>3, <3>6
    <3> QED BY <3>4, <3>5, <3>6
  <2>3. DOMAIN d.variablesMappingsPerBlock \subseteq Block
    BY <1>1 DEF Healthy, MappingsFit
  <2> QED BY <2>1, <2>2, <2>3 DEF MappingsFit
<1>6. Healthy(d)
  BY <1>2, <1>5 DEF Healthy, Shape, ConstraintsNoted, ObligationsFit, BoundByOwner
<1>7. Grows(e, d)
  <2>1. ASSUME NEW c \in e.finishedBlocks, NEW y \in DOMAIN Mapping(e, c)
        PROVE  Mapping(d, c)[y] = Mapping(e, c)[y]
    BY <1>1, <1>3
  <2>2. ASSUME NEW c \in Block
        PROVE  DOMAIN Mapping(e, c) \subseteq DOMAIN Mapping(d, c)
    BY <1>1, <1>3
  <2>3. Grown(e.store, d.store)
    BY <1>2, GrownReflexive DEF Healthy, Shape
  <2> QED BY <1>1, <1>2, <2>1, <2>2, <2>3 DEF Grows
<1> QED BY <1>1, <1>2, <1>3, <1>6, <1>7, SettlesReflexive DEF Keeps, Leads, Within, Stays, Succeed, d

LEMMA SetTypeKeeps ==
    ASSUME NEW e, Healthy(e), NEW variable \in Variable \cup Futures, NEW type
    PROVE  Keeps(e, Succeed(SetType(e, variable, type)))
<1> DEFINE d == SetType(e, variable, type)
<1>1. /\ SameBut(e, d, {"variableTypes"})
      /\ DOMAIN d.variableTypes = DOMAIN e.variableTypes \cup {variable}
  BY SetTypeFields DEF Healthy
<1> HIDE DEF d
<1>2. /\ d.currentBlockName = e.currentBlockName
      /\ d.mutableVariableState = e.mutableVariableState
      /\ d.variablesMappingsPerBlock = e.variablesMappingsPerBlock
      /\ d.variablesValuesPerBlock = e.variablesValuesPerBlock
      /\ d.finishedBlocks = e.finishedBlocks
      /\ d.phiNodeObligations = e.phiNodeObligations
      /\ d.outputVariables = e.outputVariables
      /\ d.mutableVariables = e.mutableVariables
      /\ d.mutableVariableConstraints = e.mutableVariableConstraints
      /\ d.store = e.store
      /\ DOMAIN d = EnvironmentFields
  BY <1>1 DEF SameBut, EnvironmentFields
<1>3. Healthy(d)
  BY <1>1, <1>2 DEF Healthy, Shape, MappingsFit, Mapping, ConstraintsNoted, ObligationsFit,
                    BoundByOwner
<1>4. Grows(e, d)
  BY <1>1, <1>2, GrownReflexive DEF Grows, Mapping, Healthy, Shape
<1> QED BY <1>2, <1>3, <1>4, SettlesReflexive DEF Keeps, Leads, Within, Stays, Succeed, d

LEMMA CountVersionKeeps ==
    ASSUME NEW e, Healthy(e), NEW v \in Variable
    PROVE  /\ Keeps(e, Succeed(CountVersion(e, v)))
           /\ getNextVariableName(e, v) \in Versions
           /\ \A b : Mapping(CountVersion(e, v), b) = Mapping(e, b)
           /\ CountVersion(e, v).store = e.store
<1> DEFINE d == CountVersion(e, v)
<1>1. /\ SameBut(e, d, {"mutableVariableState"})
      /\ d.mutableVariableState = [e.mutableVariableState EXCEPT ![v] = @ + 1]
  BY CountVersionFields DEF Healthy
<1> HIDE DEF d
<1>2. /\ d.currentBlockName = e.currentBlockName
      /\ d.variableTypes = e.variableTypes
      /\ d.variablesMappingsPerBlock = e.variablesMappingsPerBlock
      /\ d.variablesValuesPerBlock = e.variablesValuesPerBlock
      /\ d.finishedBlocks = e.finishedBlocks
      /\ d.phiNodeObligations = e.phiNodeObligations
      /\ d.outputVariables = e.outputVariables
      /\ d.mutableVariables = e.mutableVariables
      /\ d.mutableVariableConstraints = e.mutableVariableConstraints
      /\ d.store = e.store
      /\ DOMAIN d = EnvironmentFields
  BY <1>1 DEF SameBut, EnvironmentFields
<1>3. e.mutableVariableState \in [Variable -> Nat \ {0}]
  BY DEF Healthy
<1>4. d.mutableVariableState \in [Variable -> Nat \ {0}]
  BY <1>1, <1>3
<1>5. Healthy(d)
  BY <1>2, <1>4 DEF Healthy, Shape, MappingsFit, Mapping, ConstraintsNoted, ObligationsFit,
                    BoundByOwner
<1>6. Grows(e, d)
  BY <1>2, GrownReflexive DEF Grows, Mapping, Healthy, Shape
<1>7. getNextVariableName(e, v) \in Versions
  BY <1>3 DEF getNextVariableName, Version, Versions
<1> QED BY <1>2, <1>5, <1>6, <1>7, SettlesReflexive DEF Keeps, Leads, Within, Stays, Succeed, Mapping, d

--------------------------------------------------------------------------------
\* The client is in a block.
Running(e) == e.currentBlockName \in Block \ e.finishedBlocks

LEMMA RunningStays ==
    ASSUME NEW e, NEW d, Running(e), Stays(e, d)
    PROVE  Running(d)
BY DEF Running, Stays

\* The result r of making variable x visible in the current block of e.
MadeVisible(e, r, x) ==
    /\ Keeps(e, r)
    /\ r.ok => /\ x \in DOMAIN Mapping(r.env, e.currentBlockName)
               /\ e.currentBlockName \in DOMAIN r.env.variablesMappingsPerBlock

LEMMA VisibleLater ==
    ASSUME NEW e, Healthy(e), NEW r, NEW q, NEW x, Keeps(e, r), r.ok, MadeVisible(r.env, q, x)
    PROVE  MadeVisible(e, q, x)
<1>1. Keeps(e, q)
  BY KeepsTransitive DEF MadeVisible
<1> QED BY <1>1 DEF MadeVisible, Keeps, Leads, Within, Stays

LEMMA MapVariableKeeps ==
    ASSUME NEW e, Healthy(e), Running(e), NEW x, NEW n, Fits(e.store, x, n)
    PROVE  MadeVisible(e, Succeed(MapVariable(e, x, n)), x)
<1> DEFINE b == e.currentBlockName
           d == MapIn(e, b, x, n)
<1>1. b \in Block /\ b \notin e.finishedBlocks
  BY DEF Running
<1> HIDE DEF b
<1>2. Keeps(e, Succeed(d)) /\ b \in DOMAIN d.variablesMappingsPerBlock /\ x \in DOMAIN Mapping(d, b)
  BY <1>1, MapInKeeps
<1> QED BY <1>2 DEF MadeVisible, MapVariable, Succeed, b

\* Its own constraints are demanded of an input or output.
LEMMA CreateIOKeeps ==
    ASSUME NEW e, Healthy(e), Running(e), NEW v \in Variable, NEW type
    PROVE  LET r == createIOVariable(e, v, type, Constraints(v))
           IN  MadeVisible(e, r, v) /\ (r.ok => Fits(r.env.store, v, v))
<1> DEFINE r == createIOVariable(e, v, type, Constraints(v))
           built == Build(e, CreateBinderWithConstraints(e.store, v, type, Constraints(v)))
           typed == SetType(built.env, v, type)
           mapped == MapVariable(typed, v, v)
<1>1. r = IF IsVariableDefined(e, v) THEN Fail(e)
          ELSE IF built.ok THEN Succeed(mapped) ELSE built
  BY DEF createIOVariable, Then
<1>2. CASE IsVariableDefined(e, v)
  <2>1. r.env = e /\ r.ok = FALSE
    BY <1>1, <1>2 DEF Fail
  <2> HIDE DEF r
  <2> QED BY <2>1, KeepsReflexive DEF MadeVisible, r
<1>3. /\ Keeps(e, built)
      /\ built.ok => Demanded(built.env.store, v, v)
  <2>1. BinderBuilt(e, built, v, Constraints(v))
    BY ConstrainedKeeps, MayBindOwn
  <2> HIDE DEF built
  <2> QED BY <2>1 DEF BinderBuilt, Demanded
<1>4. CASE ~IsVariableDefined(e, v) /\ ~built.ok
  <2>1. r = built
    BY <1>1, <1>4
  <2> HIDE DEF r, built
  <2> QED BY <1>3, <1>4, <2>1 DEF MadeVisible, r
<1>5. CASE ~IsVariableDefined(e, v) /\ built.ok
  <2>1. r = Succeed(mapped)
    BY <1>1, <1>5
  <2> HIDE DEF r, built
  <2>2. Healthy(built.env) /\ Running(built.env)
    BY <1>3, RunningStays DEF Keeps, Leads, Within
  <2>3. Keeps(built.env, Succeed(typed)) /\ Keeps(e, Succeed(typed))
    BY <1>3, <1>5, <2>2, SetTypeKeeps, KeepsTransitive
  <2>4. Healthy(typed) /\ Running(typed) /\ Grown(built.env.store, typed.store)
    BY <2>2, <2>3, RunningStays DEF Keeps, Leads, Within, Stays, Grows, Succeed
  <2>5. Fits(typed.store, v, v)
    <3>1. Demanded(typed.store, v, v)
      BY <1>3, <1>5, <2>4, DemandedGrows
    <3> QED BY <3>1, NamesAssumption DEF Fits, Keys, Values
  <2> HIDE DEF typed
  <2>6. MadeVisible(typed, Succeed(mapped), v)
    BY <2>4, <2>5, MapVariableKeeps
  <2>7. MadeVisible(e, Succeed(mapped), v)
    BY <2>3, <2>6, VisibleLater DEF Succeed
  <2>8. Fits(mapped.store, v, v)
    BY <2>5, <2>6, FitsGrows DEF MadeVisible, Keeps, Leads, Within, Stays, Grows, Succeed
  <2> QED BY <2>1, <2>7, <2>8 DEF Succeed, r
<1> QED BY <1>2, <1>4, <1>5

\* A variable may be created or assigned under the name mapped.
Assignable(e, variable, mapped, constraints) ==
    /\ variable \in Variable \cup Futures
    /\ mapped \in Values
    /\ variable \notin Variable => mapped = variable
    /\ MayBind(e, mapped)
    /\ variable \in Refined => constraints = Constraints(variable)

\* The expression must imply the constraints, and the binder's refinement too.
Checked(s, mapped, constraints, expression) ==
    /\ <<"check", mapped>> \in DOMAIN s.constraintNameMapping
    /\ s.constraintNameMapping[<<"check", mapped>>].qualifiers = {expression}
    /\ s.constraintNameMapping[<<"check", mapped>>].targetQualifiers = constraints

LEMMA CheckedGrows ==
    ASSUME NEW s, NEW t, Grown(s, t), NEW mapped, NEW constraints, NEW expression,
           Checked(s, mapped, constraints, expression)
    PROVE  Checked(t, mapped, constraints, expression)
BY DEF Grown, Checked

\* Its binder was created, so the name has a type, and is not promised.
Settled(r, variable, mapped) ==
    r.ok => variable \in DOMAIN r.env.variableTypes /\ mapped \notin Promised(r.env.store)

LEMMA CreateVariableKeeps ==
    ASSUME NEW e, Healthy(e), Running(e), NEW variable, NEW mapped, NEW constraints,
           Assignable(e, variable, mapped, constraints), NEW type, NEW expression
    PROVE  LET r == createVariable(e, variable, mapped, type, constraints, expression)
           IN  MadeVisible(e, r, variable) /\ Settled(r, variable, mapped)
<1> DEFINE scope == getBlockBinders(e, e.currentBlockName)
           created == Build(e, CreateBinderWithUnknownType(e.store, mapped, type, scope))
           check == Build(created.env,
                          AddConstraint(created.env.store, <<"check", mapped>>, type, constraints,
                                        {expression}, scope))
           checked == IF constraints = {} THEN created
                      ELSE IF created.ok THEN check ELSE created
           assignment == Build(checked.env,
                               AddConstraintForAssignment(checked.env.store,
                                   <<"assignment", mapped>>, mapped, {expression}, scope))
           assigned == IF checked.ok THEN assignment ELSE checked
           typed == SetType(assigned.env, variable, type)
           r == createVariable(e, variable, mapped, type, constraints, expression)
<1>1. r = IF assigned.ok THEN Succeed(MapVariable(typed, variable, mapped)) ELSE assigned
  BY DEF createVariable, Then
<1> HIDE DEF r
<1>2. /\ Keeps(e, created)
      /\ created.ok => /\ mapped \in Bound(created.env.store)
                       /\ mapped \notin Promised(created.env.store)
  BY UnknownKeeps DEF Assignable
<1> HIDE DEF created
<1>3. /\ Keeps(e, checked)
      /\ checked.ok => /\ mapped \in Bound(checked.env.store)
                       /\ mapped \notin Promised(checked.env.store)
      /\ checked.ok /\ constraints # {} =>
            Checked(checked.env.store, mapped, constraints, expression)
  <2>1. CASE constraints = {} \/ ~created.ok
    BY <1>2, <2>1
  <2>2. CASE constraints # {} /\ created.ok
    <3>1. Healthy(created.env)
      BY <1>2 DEF Keeps, Leads
    <3>2. /\ ConstraintBuilt(created.env, check, <<"check", mapped>>, {expression})
          /\ check.ok => check.env.store.constraintNameMapping[<<"check", mapped>>].targetQualifiers
                            = constraints
      BY <3>1, ConstraintKeeps
    <3>3. checked = check
      BY <2>2
    <3> HIDE DEF check, checked
    <3>4. Keeps(created.env, check) /\ Keeps(e, check)
      BY <1>2, <2>2, <3>2, KeepsTransitive DEF ConstraintBuilt
    <3>5. check.ok => /\ mapped \in Bound(check.env.store)
                      /\ mapped \notin Promised(check.env.store)
      BY <1>2, <2>2, <3>4 DEF Keeps, Leads, Within, Stays, Grows, Grown, Settles
    <3> QED BY <3>2, <3>3, <3>4, <3>5 DEF ConstraintBuilt, Checked
  <2> QED BY <2>1, <2>2
<1> HIDE DEF checked
<1>4. CASE ~checked.ok
  <2>1. r = checked
    BY <1>1, <1>4
  <2> QED BY <1>3, <1>4, <2>1 DEF MadeVisible, Settled, r
<1>5. CASE checked.ok
  <2>1. Healthy(checked.env)
    BY <1>3 DEF Keeps, Leads
  <2>2. ConstraintBuilt(checked.env, assignment, <<"assignment", mapped>>, {expression})
    BY <2>1, AssignmentKeeps
  <2>3. assigned = assignment
    BY <1>5
  <2> HIDE DEF assignment, assigned
  <2>4. Keeps(checked.env, assignment) /\ Keeps(e, assignment)
    BY <1>3, <1>5, <2>2, KeepsTransitive DEF ConstraintBuilt
  <2>5. CASE ~assignment.ok
    <3>1. r = assignment
      BY <1>1, <2>3, <2>5
    <3> QED BY <2>4, <2>5, <3>1 DEF MadeVisible, Settled, r
  <2>6. CASE assignment.ok
    <3> DEFINE d == assignment.env
               mapping == MapVariable(typed, variable, mapped)
    <3>1. Healthy(d) /\ Stays(e, d) /\ Running(d) /\ Grown(checked.env.store, d.store)
      BY <2>4, RunningStays DEF Keeps, Leads, Within, Stays, Grows
    <3>2. mapped \in Bound(d.store) /\ mapped \notin Promised(d.store)
      BY <1>3, <1>5, <2>4, <2>6, <3>1 DEF Grown, Keeps, Settles
    <3>3. variable \in Refined \ Phis => Demanded(d.store, variable, mapped)
      <4>1. ASSUME variable \in Refined  PROVE constraints = Constraints(variable) /\ constraints # {}
        BY <4>1 DEF Assignable, Constraints
      <4>2. ASSUME variable \in Refined
            PROVE  Checked(d.store, mapped, Constraints(variable), expression)
        BY <1>3, <1>5, <3>1, <4>1, <4>2, CheckedGrows
      <4> QED BY <2>2, <2>6, <4>2 DEF ConstraintBuilt, Checked, Demanded
    <3>4. Fits(d.store, variable, mapped)
      <4>1. variable \in Futures => mapped = variable
        BY NamesAssumption DEF Assignable
      <4> QED BY <3>2, <3>3, <4>1 DEF Fits, Assignable, Keys
    <3>5. Keeps(d, Succeed(typed)) /\ Keeps(e, Succeed(typed))
      <4>1. Keeps(d, Succeed(typed))
        BY <2>3, <3>1, SetTypeKeeps DEF Assignable
      <4> HIDE DEF typed
      <4> QED BY <2>4, <2>6, <4>1, KeepsTransitive
    <3>6. Healthy(typed) /\ Running(typed) /\ Fits(typed.store, variable, mapped)
      <4> HIDE DEF d, typed
      <4> QED BY <3>1, <3>4, <3>5, RunningStays, FitsGrows DEF Keeps, Leads, Within, Stays, Grows, Succeed
    <3>7. r = Succeed(mapping)
      BY <1>1, <2>3, <2>6
    <3>8. variable \in DOMAIN typed.variableTypes
      BY <2>3, <3>1, SetTypeFields DEF Healthy
    <3> HIDE DEF d, typed
    <3>9. MadeVisible(typed, Succeed(mapping), variable)
      BY <3>6, MapVariableKeeps
    <3> HIDE DEF mapping
    <3>10. MadeVisible(e, Succeed(mapping), variable)
      BY <3>5, <3>9, VisibleLater DEF Succeed
    <3>11. Settled(Succeed(mapping), variable, mapped)
      BY <3>2, <3>5, <3>8, <3>9
         DEF Settled, MadeVisible, Keeps, Leads, Within, Stays, Grows, Settles, Succeed
    <3> QED BY <3>7, <3>10, <3>11 DEF r
  <2> QED BY <2>5, <2>6
<1> QED BY SMTT(30), <1>4, <1>5

LEMMA CreateImmutableKeeps ==
    ASSUME NEW e, Healthy(e), Running(e), NEW v, NEW constraints,
           Assignable(e, v, v, constraints), NEW type, NEW expression
    PROVE  LET r == CreateImmutableVariable(e, v, type, constraints, expression)
           IN  /\ Keeps(e, r)
               /\ IsVariableDefined(e, v) => ~r.ok
               /\ Settled(r, v, v)
<1>1. CASE IsVariableDefined(e, v)
  BY <1>1, KeepsReflexive DEF CreateImmutableVariable, Settled, Fail
<1>2. CASE ~IsVariableDefined(e, v)
  BY <1>2, CreateVariableKeeps DEF CreateImmutableVariable, MadeVisible
<1> QED BY <1>1, <1>2

\* What is noted of a variable, before anything is validated, are its constraints.
LEMMA NoteKeeps ==
    ASSUME NEW e, Healthy(e), NEW v, NEW outputs, NEW mutables,
           outputs \subseteq e.outputVariables \cup {v}, outputs \subseteq Outputs,
           mutables \subseteq e.mutableVariables \cup {v}, mutables \subseteq Mutables,
           NEW d, SameBut(e, d, {"mutableVariableConstraints", "outputVariables", "mutableVariables"}),
           d.mutableVariableConstraints = Put(e.mutableVariableConstraints, v, Constraints(v)),
           d.outputVariables = outputs, d.mutableVariables = mutables
    PROVE  Keeps(e, Succeed(d))
<1>1. /\ d.currentBlockName = e.currentBlockName
      /\ d.variableTypes = e.variableTypes
      /\ d.mutableVariableState = e.mutableVariableState
      /\ d.variablesMappingsPerBlock = e.variablesMappingsPerBlock
      /\ d.variablesValuesPerBlock = e.variablesValuesPerBlock
      /\ d.finishedBlocks = e.finishedBlocks
      /\ d.phiNodeObligations = e.phiNodeObligations
      /\ d.store = e.store
      /\ DOMAIN d = EnvironmentFields
  BY DEF SameBut, EnvironmentFields
<1>2. ConstraintsNoted(d)
  BY DEF Healthy, ConstraintsNoted, Put
<1>3. Healthy(d)
  BY <1>1, <1>2 DEF Healthy, Shape, MappingsFit, Mapping, ObligationsFit, BoundByOwner
<1>4. Grows(e, d)
  BY <1>1, GrownReflexive DEF Grows, Mapping, Healthy, Shape
<1> QED BY <1>1, <1>3, <1>4, SettlesReflexive DEF Keeps, Leads, Within, Stays, Succeed

LEMMA CreateOutputKeeps ==
    ASSUME NEW e, Healthy(e), Running(e), NEW v \in Variable, v \in Outputs, NEW type
    PROVE  Keeps(e, CreateMutableOutputVariable(e, v, type, Constraints(v)))
<1> DEFINE d == [e EXCEPT !.mutableVariableConstraints = Put(@, v, Constraints(v)),
                          !.outputVariables = @ \cup {v}]
           r == createIOVariable(d, v, type, Constraints(v))
<1>1. Keeps(e, Succeed(d))
  <2>1. /\ SameBut(e, d, {"mutableVariableConstraints", "outputVariables", "mutableVariables"})
        /\ d.mutableVariableConstraints = Put(e.mutableVariableConstraints, v, Constraints(v))
        /\ d.outputVariables = e.outputVariables \cup {v}
        /\ d.mutableVariables = e.mutableVariables
    BY DEF Healthy, Shape, SameBut, EnvironmentFields
  <2> HIDE DEF d
  <2> QED BY <2>1, NoteKeeps DEF Healthy, ConstraintsNoted
<1> HIDE DEF d
<1>2. Healthy(d) /\ Running(d)
  BY <1>1, RunningStays DEF Keeps, Leads, Within, Succeed
<1>3. Keeps(d, r)
  BY <1>2, CreateIOKeeps DEF MadeVisible
<1> HIDE DEF r
<1>4. Keeps(e, r)
  BY <1>1, <1>3, KeepsTransitive DEF Succeed
<1> QED BY <1>4 DEF CreateMutableOutputVariable, r, d

LEMMA CreateMutableKeeps ==
    ASSUME NEW e, Healthy(e), Running(e), NEW v \in Variable, v \in Mutables, NEW type,
           NEW expression
    PROVE  Keeps(e, CreateMutableVariable(e, v, type, Constraints(v), expression))
<1> DEFINE d == [e EXCEPT !.mutableVariableConstraints = Put(@, v, Constraints(v)),
                          !.mutableVariables = @ \cup {v}]
           r == createVariable(d, v, v, type, Constraints(v), expression)
<1>1. CASE IsVariableDefined(e, v)
  BY <1>1, KeepsReflexive DEF CreateMutableVariable, Fail
<1>2. CASE ~IsVariableDefined(e, v)
  <2>1. Keeps(e, Succeed(d))
    <3>1. /\ SameBut(e, d, {"mutableVariableConstraints", "outputVariables", "mutableVariables"})
          /\ d.mutableVariableConstraints = Put(e.mutableVariableConstraints, v, Constraints(v))
          /\ d.outputVariables = e.outputVariables
          /\ d.mutableVariables = e.mutableVariables \cup {v}
      BY DEF Healthy, Shape, SameBut, EnvironmentFields
    <3> HIDE DEF d
    <3> QED BY <3>1, NoteKeeps DEF Healthy, ConstraintsNoted
  <2> HIDE DEF d
  <2>2. Healthy(d) /\ Running(d)
    BY <2>1, RunningStays DEF Keeps, Leads, Within, Succeed
  <2>3. Assignable(d, v, v, Constraints(v))
    BY MayBindOwn DEF Assignable, Values, Keys
  <2>4. Keeps(d, r)
    BY <2>2, <2>3, CreateVariableKeeps DEF MadeVisible
  <2> HIDE DEF r
  <2>5. Keeps(e, r)
    BY <2>1, <2>4, KeepsTransitive DEF Succeed
  <2> QED BY <1>2, <2>5 DEF CreateMutableVariable, r, d
<1> QED BY <1>1, <1>2

LEMMA AssignKeeps ==
    ASSUME NEW e, Healthy(e), Running(e), NEW v \in Variable, NEW expression
    PROVE  /\ Keeps(e, AssignMutableVariable(e, v, expression))
           /\ AssignMutableVariable(e, v, expression).ok => v \in Outputs \cup Mutables
<1>1. CASE v \notin e.outputVariables \cup e.mutableVariables
  BY <1>1, KeepsReflexive DEF AssignMutableVariable, Fail
<1>2. CASE v \in e.outputVariables \cup e.mutableVariables
  <2> DEFINE d == CountVersion(e, v)
             mapped == getNextVariableName(e, v)
             constraints == e.mutableVariableConstraints[v]
             r == createVariable(d, v, mapped, e.variableTypes[v], constraints, expression)
  <2>1. Keeps(e, Succeed(d)) /\ mapped \in Versions
    BY CountVersionKeeps
  <2>2. constraints = Constraints(v) /\ v \in Outputs \cup Mutables
    BY <1>2 DEF Healthy, ConstraintsNoted
  <2>3. r = AssignMutableVariable(e, v, expression)
    BY <1>2 DEF AssignMutableVariable
  <2> HIDE DEF d, mapped, constraints
  <2>4. Healthy(d) /\ Running(d)
    BY <2>1, RunningStays DEF Keeps, Leads, Within, Succeed
  <2>5. Assignable(d, v, mapped, constraints)
    BY <2>1, <2>2, MayBindOwn DEF Assignable, Values
  <2>6. Keeps(d, r)
    BY <2>4, <2>5, CreateVariableKeeps DEF MadeVisible
  <2> HIDE DEF r
  <2>7. Keeps(e, r)
    BY <2>1, <2>6, KeepsTransitive DEF Succeed
  <2> QED BY <2>2, <2>3, <2>7
<1> QED BY <1>1, <1>2

LEMMA JumpKeeps ==
    ASSUME NEW e, Healthy(e), NEW target
    PROVE  Keeps(e, AddJumpInformation(e, target))
<1> DEFINE guard == TransitionGuard(e.currentBlockName, target)
           r == Build(e, CreateBinderWithConstraints(e.store, guard, "bool", {Over({})}))
<1>1. BinderBuilt(e, r, guard, {Over({})})
  BY ConstrainedKeeps, MayBindOwn
<1> HIDE DEF r
<1> QED BY <1>1 DEF AddJumpInformation, BinderBuilt, r

LEMMA BranchKeeps ==
    ASSUME NEW e, Healthy(e), NEW booleanVariable, NEW target
    PROVE  Keeps(e, AddBranchInformation(e, booleanVariable, target))
<1> DEFINE guard == TransitionGuard(e.currentBlockName, target)
           r == Build(e, CreateBinderWithConstraints(e.store, guard, "bool",
                                                     {Over({booleanVariable})}))
           result == AddBranchInformation(e, booleanVariable, target)
<1>1. result = Fail(e) \/ result = r
  BY DEF AddBranchInformation
<1> HIDE DEF result
<1>2. BinderBuilt(e, r, guard, {Over({booleanVariable})})
  BY ConstrainedKeeps, MayBindOwn
<1> HIDE DEF r
<1>3. CASE result = Fail(e)
  BY <1>3, KeepsReflexive DEF Fail, result
<1>4. CASE result = r
  BY <1>2, <1>4 DEF BinderBuilt, result
<1> QED BY <1>1, <1>3, <1>4

--------------------------------------------------------------------------------
\* The loops.  Each is given as an instance of LoopTheorems: what one iteration
\* does in a context k, and what holds when the elements in s are done.

\* An input variable comes into scope in the blocks processed before.
ShareInput(k, d, b) == Succeed(MapIn(d, b, k.v, k.v))

InputShared(k, s, r) ==
    /\ Keeps(k.start, r) /\ r.ok
    /\ \A b \in s : k.v \in DOMAIN Mapping(r.env, b)
    /\ \A b \in Block \ s : DOMAIN Mapping(r.env, b) = DOMAIN Mapping(k.start, b)

InputLoop == INSTANCE LoopTheorems WITH Iteration <- ShareInput, Invariant <- InputShared

LEMMA InputLoopIs ==
    ASSUME NEW S, NEW d, NEW v
    PROVE  ForEach(S, Succeed(d), LAMBDA f, b : Succeed(MapIn(f, b, v, v)))
            = InputLoop!Results([v |-> v, start |-> d], S, Succeed(d))[S]
BY DEF ForEach, FoldSet, MapThenFoldSet, InputLoop!Results, ShareInput

LEMMA BlocksSmallest ==
    ASSUME NEW S \in SUBSET Block
    PROVE  SomeSmallest(S)
BY BlockAssumption, FS_Subset, FiniteSmallest

LEMMA InputsShared ==
    ASSUME NEW k, NEW S \in SUBSET Block, Healthy(k.start), k.v \in Variable,
           Fits(k.start.store, k.v, k.v),
           \A b \in S : k.v \notin DOMAIN Mapping(k.start, b),
           NEW r, r = Succeed(k.start)
    PROVE  InputShared(k, S, InputLoop!Results(k, S, r)[S])
<1>1. InputShared(k, {}, r)
  BY KeepsReflexive DEF InputShared, Succeed
<1>2. ASSUME NEW s \in SUBSET S, NEW b \in s, NEW q, InputShared(k, s \ {b}, q)
      PROVE  InputShared(k, s, IF q.ok THEN ShareInput(k, q.env, b) ELSE q)
  <2>1. CASE ~q.ok
    BY <1>2, <2>1 DEF InputShared
  <2>2. CASE q.ok
    <3> DEFINE d == MapIn(q.env, b, k.v, k.v)
    <3>1. b \in Block /\ b \in S /\ Healthy(q.env)
      BY <1>2 DEF InputShared, Keeps, Leads
    <3>2. k.v \notin DOMAIN Mapping(q.env, b)
      BY <1>2, <3>1 DEF InputShared
    <3>3. Fits(q.env.store, k.v, k.v)
      BY <1>2, FitsGrows DEF InputShared, Keeps, Leads, Within, Stays, Grows
    <3>4. /\ Keeps(q.env, Succeed(d))
          /\ k.v \in DOMAIN Mapping(d, b)
          /\ \A c : c # b => Mapping(d, c) = Mapping(q.env, c)
      BY <3>1, <3>2, <3>3, MapInKeeps
    <3> HIDE DEF d
    <3>5. Keeps(k.start, Succeed(d))
      BY <1>2, <2>2, <3>4, KeepsTransitive DEF InputShared
    <3>6. InputShared(k, s, Succeed(d))
      BY <1>2, <3>4, <3>5 DEF InputShared, Succeed
    <3> QED BY <2>2, <3>6 DEF ShareInput, d
  <2> QED BY <2>1, <2>2
<1>3. InputLoop!Inductive(S)
  BY BlocksSmallest DEF SomeSmallest, InputLoop!Inductive
<1> QED BY <1>1, <1>2, <1>3, InputLoop!LoopInvariant

\* An input variable comes into scope in every block that has a mapping.
VisibleEverywhere(e, r, v) ==
    /\ Keeps(e, r)
    /\ r.ok => \A b \in DOMAIN e.variablesMappingsPerBlock \cup {e.currentBlockName} :
                  v \in DOMAIN Mapping(r.env, b)

LEMMA CreateInputKeeps ==
    ASSUME NEW e, Healthy(e), Running(e), NEW v \in Variable, NEW type
    PROVE  VisibleEverywhere(e, CreateImmutableInputVariable(e, v, type, Constraints(v)), v)
<1> DEFINE io == createIOVariable(e, v, type, Constraints(v))
           d == io.env
           S == {b \in DOMAIN d.variablesMappingsPerBlock : v \notin DOMAIN Mapping(d, b)}
           k == [v |-> v, start |-> d]
           q == InputLoop!Results(k, S, Succeed(d))[S]
           r == CreateImmutableInputVariable(e, v, type, Constraints(v))
<1>1. r = IF io.ok THEN q ELSE io
  BY InputLoopIs DEF CreateImmutableInputVariable, Then
<1>2. MadeVisible(e, io, v) /\ (io.ok => Fits(d.store, v, v))
  BY CreateIOKeeps
<1> HIDE DEF io, q, r
<1>3. CASE ~io.ok
  BY <1>1, <1>2, <1>3 DEF MadeVisible, VisibleEverywhere, r
<1>4. CASE io.ok
  <2>1. Healthy(d) /\ S \subseteq Block /\ k.start = d /\ k.v = v
    BY <1>2 DEF MadeVisible, Keeps, Leads, Healthy, MappingsFit
  <2>2. InputShared(k, S, q)
    <3> HIDE DEF k, S, d
    <3>1. \A b \in S : k.v \notin DOMAIN Mapping(k.start, b)
      BY <2>1 DEF S
    <3> QED BY <1>2, <1>4, <2>1, <3>1, InputsShared DEF q
  <2> HIDE DEF k
  <2>3. Keeps(d, q) /\ Keeps(e, q)
    BY <1>2, <1>4, <2>1, <2>2, KeepsTransitive DEF InputShared, MadeVisible
  <2>4. ASSUME NEW b \in DOMAIN e.variablesMappingsPerBlock \cup {e.currentBlockName}
        PROVE  v \in DOMAIN Mapping(q.env, b)
    <3>1. b \in DOMAIN d.variablesMappingsPerBlock /\ b \in Block
      BY <1>2, <1>4 DEF MadeVisible, Keeps, Leads, Within, Stays, Grows, Healthy, MappingsFit
    <3>2. v \in DOMAIN Mapping(d, b) => v \in DOMAIN Mapping(q.env, b)
      BY <2>3, <3>1 DEF Keeps, Leads, Within, Stays, Grows
    <3> QED BY <2>1, <2>2, <3>1, <3>2 DEF InputShared
  <2> QED BY <1>1, <1>4, <2>3, <2>4 DEF VisibleEverywhere, r
<1> QED BY <1>3, <1>4

--------------------------------------------------------------------------------
\* A value flows into n through a phi node.
PhiBuilt(s, n) ==
    \E p, b \in Block :
        /\ <<"phi", p, b, n>> \in DOMAIN s.constraintNameMapping
        /\ \E x \in s.constraintNameMapping[<<"phi", p, b, n>>].qualifiers : x[2] # {}

LEMMA FlowKeeps ==
    ASSUME NEW e, NEW d, Healthy(d), e.currentBlockName \in Block, NEW g, NEW mapped, NEW sources,
           NEW p \in Block,
           NEW r, r = flowFrom(g, e, mapped, sources, d, p)
    PROVE  Keeps(d, r) /\ (r.ok => PhiBuilt(r.env.store, mapped))
<1> DEFINE b == e.currentBlockName
           value == IF sources[p] \in DOMAIN Mapping(e, p) THEN Mapping(e, p)[sources[p]]
                    ELSE sources[p]
           scope == getBlockBinders(e, p) \cup {TransitionGuard(p, b), PhiGuard(mapped, p), sources[p]}
           guard == Build(d, CreateBinderWithConstraints(d.store, PhiGuard(mapped, p), "bool",
                        {Over(GuardNames(g, p) \cup {TransitionGuard(p, b)})}))
           flow == Build(guard.env, AddConstraintForAssignment(guard.env.store,
                        <<"phi", p, b, mapped>>, mapped, {Over({value})}, scope))
<1>1. r = IF guard.ok THEN flow ELSE guard
  BY DEF flowFrom, Then
<1>2. Keeps(d, guard)
  <2>1. BinderBuilt(d, guard, PhiGuard(mapped, p),
                    {Over(GuardNames(g, p) \cup {TransitionGuard(p, b)})})
    BY ConstrainedKeeps, MayBindOwn
  <2> QED BY <2>1 DEF BinderBuilt
<1> HIDE DEF guard, scope, value, b
<1>3. CASE ~guard.ok
  BY <1>1, <1>2, <1>3
<1>4. CASE guard.ok
  <2>1. ConstraintBuilt(guard.env, flow, <<"phi", p, b, mapped>>, {Over({value})})
    BY <1>2, AssignmentKeeps DEF Keeps, Leads
  <2> HIDE DEF flow
  <2>2. Keeps(d, flow)
    BY <1>2, <1>4, <2>1, KeepsTransitive DEF ConstraintBuilt
  <2>3. Over({value})[2] # {}
    BY DEF Over
  <2>4. flow.ok => PhiBuilt(flow.env.store, mapped)
    BY <2>1, <2>3 DEF ConstraintBuilt, PhiBuilt, b
  <2> QED BY <1>1, <1>4, <2>2, <2>4
<1> QED BY <1>3, <1>4

\* The sources of a phi node flow into it.
FlowIn(k, d, p) == flowFrom(k.succ, k.env, k.mapped, k.sources, d, p)

FlowsBuilt(k, s, r) ==
    /\ Keeps(k.env, r)
    /\ r.ok /\ s # {} => PhiBuilt(r.env.store, k.mapped)

FlowLoop == INSTANCE LoopTheorems WITH Iteration <- FlowIn, Invariant <- FlowsBuilt

LEMMA AllFlowsBuilt ==
    ASSUME NEW k, NEW S \in SUBSET Block, Healthy(k.env), k.env.currentBlockName \in Block,
           NEW r, Keeps(k.env, r)
    PROVE  FlowsBuilt(k, S, FlowLoop!Results(k, S, r)[S])
<1>1. FlowsBuilt(k, {}, r)
  BY DEF FlowsBuilt
<1>2. ASSUME NEW s \in SUBSET S, NEW p \in s, NEW q, FlowsBuilt(k, s \ {p}, q)
      PROVE  FlowsBuilt(k, s, IF q.ok THEN FlowIn(k, q.env, p) ELSE q)
  <2>1. CASE ~q.ok
    BY <1>2, <2>1 DEF FlowsBuilt
  <2>2. CASE q.ok
    <3> DEFINE f == FlowIn(k, q.env, p)
    <3>1. Healthy(q.env)
      BY <1>2 DEF FlowsBuilt, Keeps, Leads
    <3>2. Keeps(q.env, f) /\ (f.ok => PhiBuilt(f.env.store, k.mapped))
      BY <3>1, FlowKeeps DEF FlowIn
    <3> HIDE DEF f
    <3>3. Keeps(k.env, f)
      BY <1>2, <2>2, <3>2, KeepsTransitive DEF FlowsBuilt
    <3> QED BY <2>2, <3>2, <3>3 DEF FlowsBuilt, f
  <2> QED BY <2>1, <2>2
<1>3. FlowLoop!Inductive(S)
  BY BlocksSmallest DEF SomeSmallest, FlowLoop!Inductive
<1> QED BY <1>1, <1>2, <1>3, FlowLoop!LoopInvariant

\* A phi node that has sources, or has no refinement to answer for.
LEMMA PhiNodeKeeps ==
    ASSUME NEW e, Healthy(e), Running(e), NEW variable \in Variable, NEW mapped \in Values,
           MayBind(e, mapped), NEW sources, DOMAIN sources \subseteq Block,
           variable \in Refined \ Phis => DOMAIN sources # {}, NEW g, NEW type
    PROVE  MadeVisible(e, createPhiNodeWithoutCreatedBinders(g, e, variable, mapped, type, sources),
                       variable)
<1> DEFINE S == DOMAIN sources
           created == Build(e, CreateBinderWithUnknownType(e.store, mapped, type,
                                   getBlockBinders(e, e.currentBlockName)))
           k == [succ |-> g, env |-> e, mapped |-> mapped, sources |-> sources]
           flows == FlowLoop!Results(k, S, created)[S]
           r == createPhiNodeWithoutCreatedBinders(g, e, variable, mapped, type, sources)
<1>1. r = IF flows.ok THEN Succeed(MapVariable(flows.env, variable, mapped)) ELSE flows
  <2>1. ForEach(S, created, LAMBDA d, p : flowFrom(g, e, mapped, sources, d, p)) = flows
    <3> HIDE DEF created
    <3> QED BY DEF ForEach, FoldSet, MapThenFoldSet, FlowLoop!Results, FlowIn
  <2> HIDE DEF flows
  <2> QED BY <2>1 DEF createPhiNodeWithoutCreatedBinders, Then
<1> HIDE DEF r
<1>2. Keeps(e, created)
  BY UnknownKeeps
<1>3. k.env = e /\ k.mapped = mapped
  OBVIOUS
<1>4. Keeps(e, flows) /\ (flows.ok /\ S # {} => PhiBuilt(flows.env.store, mapped))
  <2> HIDE DEF k, created
  <2>1. FlowsBuilt(k, S, flows)
    BY <1>2, <1>3, AllFlowsBuilt DEF Running
  <2> QED BY <1>3, <2>1 DEF FlowsBuilt
<1> HIDE DEF flows
<1>5. CASE ~flows.ok
  BY <1>1, <1>4, <1>5 DEF MadeVisible, r
<1>6. CASE flows.ok
  <2>1. Healthy(flows.env) /\ Running(flows.env)
    BY <1>4, RunningStays DEF Keeps, Leads, Within
  <2>2. Fits(flows.env.store, variable, mapped)
    <3>1. PhiBuilt(flows.env.store, mapped) => Demanded(flows.env.store, variable, mapped)
      BY DEF PhiBuilt, Demanded
    <3> QED BY <1>4, <1>6, <3>1, NamesAssumption DEF Fits, Keys
  <2>3. MadeVisible(flows.env, Succeed(MapVariable(flows.env, variable, mapped)), variable)
    BY <2>1, <2>2, MapVariableKeeps
  <2>4. MadeVisible(e, Succeed(MapVariable(flows.env, variable, mapped)), variable)
    BY <1>4, <1>6, <2>3, VisibleLater
  <2> QED BY <1>1, <1>6, <2>4 DEF r
<1> QED BY <1>5, <1>6

\* The missing sources of a phi node are promised.
PromiseSource(k, d, p) == Build(d, CreateFutureBinder(d.store, k.sources[p], k.type))

\* The blocks in s wait for different names, that nothing else waits for.
FreshSources(e, sources, s) ==
    /\ \A p \in s : sources[p] \notin Promised(e.store)
    /\ \A p, q \in s : sources[p] = sources[q] => p = q

\* What the result r of promising the sources of the blocks in s has changed.
PromisesSources(e, sources, s, r) ==
    r.ok =>
        /\ Promised(r.env.store) \subseteq Promised(e.store) \cup {sources[p] : p \in s}
        /\ FreshSources(e, sources, s) /\ Live(e.store) => Live(r.env.store)

SourcesPromised(k, s, r) ==
    /\ Leads(k.env, r)
    /\ r.ok => \A p \in s : k.sources[p] \in Known(r.env.store)
    /\ PromisesSources(k.env, k.sources, s, r)

PromiseLoop == INSTANCE LoopTheorems WITH Iteration <- PromiseSource, Invariant <- SourcesPromised

LEMMA AllSourcesPromised ==
    ASSUME NEW k, NEW S \in SUBSET Block, Healthy(k.env), NEW r, r = Succeed(k.env)
    PROVE  SourcesPromised(k, S, PromiseLoop!Results(k, S, r)[S])
<1>1. SourcesPromised(k, {}, r)
  BY KeepsReflexive DEF SourcesPromised, PromisesSources, Keeps, Succeed
<1>2. ASSUME NEW s \in SUBSET S, NEW p \in s, NEW q, SourcesPromised(k, s \ {p}, q)
      PROVE  SourcesPromised(k, s, IF q.ok THEN PromiseSource(k, q.env, p) ELSE q)
  <2>1. CASE ~q.ok
    BY <1>2, <2>1 DEF SourcesPromised, PromisesSources
  <2>2. CASE q.ok
    <3> DEFINE f == PromiseSource(k, q.env, p)
               name == k.sources[p]
    <3>1. Healthy(q.env)
      BY <1>2 DEF SourcesPromised, Leads
    <3>2. /\ Leads(q.env, f)
          /\ f.ok => /\ name \in Known(f.env.store)
                     /\ Promised(f.env.store) = Promised(q.env.store) \cup {name}
                     /\ name \notin Promised(q.env.store) /\ Live(q.env.store) =>
                           Live(f.env.store)
      BY <3>1, FutureLeads DEF PromiseSource
    <3> HIDE DEF f
    <3>3. Leads(k.env, f)
      BY <1>2, <2>2, <3>2, LeadsTransitive DEF SourcesPromised
    <3>4. f.ok => Known(q.env.store) \subseteq Known(f.env.store)
      BY <3>2 DEF Leads
    <3>5. PromisesSources(k.env, k.sources, s, f)
      <4> SUFFICES ASSUME f.ok
                   PROVE  /\ Promised(f.env.store) \subseteq
                                Promised(k.env.store) \cup {k.sources[x] : x \in s}
                          /\ FreshSources(k.env, k.sources, s) /\ Live(k.env.store) =>
                                Live(f.env.store)
        BY DEF PromisesSources
      <4>1. /\ Promised(q.env.store) \subseteq
                  Promised(k.env.store) \cup {k.sources[x] : x \in s \ {p}}
            /\ FreshSources(k.env, k.sources, s \ {p}) /\ Live(k.env.store) => Live(q.env.store)
        BY <1>2, <2>2 DEF SourcesPromised, PromisesSources
      <4>2. ASSUME FreshSources(k.env, k.sources, s)
            PROVE  /\ FreshSources(k.env, k.sources, s \ {p})
                   /\ name \notin Promised(q.env.store)
        BY <4>1, <4>2 DEF FreshSources
      <4> QED BY <3>2, <4>1, <4>2
    <3> QED BY <1>2, <2>2, <3>2, <3>3, <3>4, <3>5 DEF SourcesPromised, f
  <2> QED BY <2>1, <2>2
<1>3. PromiseLoop!Inductive(S)
  BY BlocksSmallest DEF SomeSmallest, PromiseLoop!Inductive
<1> QED BY <1>1, <1>2, <1>3, PromiseLoop!LoopInvariant

LEMMA PromiseLoopIs ==
    ASSUME NEW S, NEW e, NEW sources, NEW type
    PROVE  ForEach(S, Succeed(e), LAMBDA d, p : Build(d, CreateFutureBinder(d.store, sources[p], type)))
            = PromiseLoop!Results([env |-> e, sources |-> sources, type |-> type], S, Succeed(e))[S]
BY DEF ForEach, FoldSet, MapThenFoldSet, PromiseLoop!Results, PromiseSource

\* After it all sources are names with an id, or variables of their blocks.
LEMMA PhiNodeInternalLeads ==
    ASSUME NEW e, Healthy(e), Running(e), NEW variable \in Variable, NEW mapped \in Values,
           MayBind(e, mapped), NEW sources, DOMAIN sources \subseteq Block,
           variable \in Refined \ Phis => DOMAIN sources # {}, NEW g, NEW type,
           NEW r, r = createPhiNodeInternal(g, e, variable, mapped, type, sources)
    PROVE  /\ Leads(e, r)
           /\ PromisesSources(e, sources,
                  {p \in DOMAIN sources : sources[p] \notin DOMAIN Mapping(e, p)}, r)
           /\ r.ok => \A p \in DOMAIN sources : sources[p] \notin DOMAIN Mapping(e, p) =>
                                                  sources[p] \in Known(r.env.store)
<1> DEFINE S == {p \in DOMAIN sources : sources[p] \notin DOMAIN Mapping(e, p)}
           k == [env |-> e, sources |-> sources, type |-> type]
           promised == PromiseLoop!Results(k, S, Succeed(e))[S]
           d == promised.env
           phi == createPhiNodeWithoutCreatedBinders(g, d, variable, mapped, type, sources)
<1>1. r = IF promised.ok THEN phi ELSE promised
  BY PromiseLoopIs DEF createPhiNodeInternal, Then
<1>2. k.env = e /\ k.sources = sources /\ S \subseteq Block
  OBVIOUS
<1>3. SourcesPromised(k, S, promised)
  <2> HIDE DEF k, S
  <2> QED BY <1>2, AllSourcesPromised
<1> HIDE DEF k, promised
<1>4. CASE ~promised.ok
  BY <1>1, <1>2, <1>3, <1>4 DEF SourcesPromised, PromisesSources
<1>5. CASE promised.ok
  <2>1. Healthy(d) /\ Running(d) /\ MayBind(d, mapped)
    BY <1>2, <1>3, RunningStays, MayBindStays DEF SourcesPromised, Leads, Within
  <2>2. Keeps(d, phi)
    <3> HIDE DEF d
    <3> QED BY <2>1, PhiNodeKeeps DEF MadeVisible
  <2> HIDE DEF phi
  <2>3. Leads(d, phi) /\ Leads(e, phi)
    BY <1>2, <1>3, <1>5, <2>2, LeadsTransitive DEF SourcesPromised, Keeps
  <2>4. phi.ok => Known(d.store) \subseteq Known(phi.env.store)
    BY <2>3 DEF Leads
  <2>5. PromisesSources(e, sources, S, phi)
    BY <1>2, <1>3, <1>5, <2>2 DEF SourcesPromised, PromisesSources, Keeps, Settles
  <2> QED BY <1>1, <1>2, <1>3, <1>5, <2>3, <2>4, <2>5 DEF SourcesPromised
<1> QED BY <1>4, <1>5

--------------------------------------------------------------------------------
\* Some block owes one name twice: it cannot end, because the second value of
\* the name is refused.
Doomed(e) ==
    \E b \in Block : \E i, j \in DOMAIN e.phiNodeObligations[b] :
        /\ i # j
        /\ e.phiNodeObligations[b][i].TargetFutureVariable =
              e.phiNodeObligations[b][j].TargetFutureVariable

Owes(e, b, v) ==
    \E i \in DOMAIN e.phiNodeObligations[b] :
        e.phiNodeObligations[b][i].TargetFutureVariable = FuturePhi(b, v)

\* Values that are promised are owed.
PromisesOwed(e) ==
    \A b \in Block, v \in Variable : FuturePhi(b, v) \in Promised(e.store) => Owes(e, b, v)

\* No id that is mentioned has been lost, or else no query will be written.
Sound(e) ==
    /\ Live(e.store) \/ Doomed(e)
    /\ PromisesOwed(e)

\* No id has been lost, in a run that has not failed.
SoundInv == outcome \in {"open", "emitted"} => Sound(env)

\* A result r of an operation on e does not make the difference.
StaysSound(e, r) == r.ok /\ Sound(e) => Sound(r.env)

\* What holds of the result r of an operation that may let blocks owe values.
Advances(e, r) ==
    /\ Healthy(r.env)
    /\ Stays(e, r.env)
    /\ r.ok => Owed(r.env) /\ Known(e.store) \subseteq Known(r.env.store)
    /\ StaysSound(e, r)

LEMMA LeadsOwed ==
    ASSUME NEW e, Owed(e), NEW r, Leads(e, r), r.ok
    PROVE  Owed(r.env) /\ Known(e.store) \subseteq Known(r.env.store)
BY DEF Leads, Within, Owed

LEMMA KeepsSound ==
    ASSUME NEW e, NEW r, Keeps(e, r)
    PROVE  StaysSound(e, r)
BY DEF Keeps, Leads, Within, Settles, Sound, Doomed, Owes, PromisesOwed, StaysSound

LEMMA KeepsAdvances ==
    ASSUME NEW e, Owed(e), NEW r, Keeps(e, r)
    PROVE  Advances(e, r)
BY LeadsOwed, KeepsSound DEF Keeps, Leads, Within, Advances

LEMMA AdvancesTransitive ==
    ASSUME NEW e, Healthy(e), NEW r, NEW q, Advances(e, r), r.ok, Advances(r.env, q)
    PROVE  Advances(e, q)
<1>1. Stays(e, q.env)
  <2>1. e.finishedBlocks \subseteq Block /\ Stays(e, r.env) /\ Stays(r.env, q.env)
    BY DEF Advances, Healthy
  <2> QED BY <2>1, StaysTransitive
<1> QED BY <1>1 DEF Advances, StaysSound

LEMMA OweFields ==
    ASSUME NEW e, Shape(e), NEW blocks, NEW v
    PROVE  LET d == owe(e, blocks, v)
           IN  /\ SameBut(e, d, {"phiNodeObligations"})
               /\ d.phiNodeObligations = [b \in Block |->
                     IF b \in blocks
                     THEN Append(e.phiNodeObligations[b],
                                 [VariableSource |-> v, TargetFutureVariable |-> FuturePhi(b, v)])
                     ELSE e.phiNodeObligations[b]]
BY DEF Shape, SameBut, owe, EnvironmentFields

LEMMA AppendFacts ==
    ASSUME NEW S, NEW s \in Seq(S), NEW x \in S
    PROVE  /\ Append(s, x) \in Seq(S)
           /\ \A i \in DOMAIN Append(s, x) :
                 (i \in DOMAIN s /\ Append(s, x)[i] = s[i]) \/ Append(s, x)[i] = x
           /\ \A i \in DOMAIN s : i \in DOMAIN Append(s, x) /\ Append(s, x)[i] = s[i]
           /\ \E i \in DOMAIN Append(s, x) : i \notin DOMAIN s /\ Append(s, x)[i] = x
<1>1. Len(s) + 1 \in DOMAIN Append(s, x) /\ Append(s, x)[Len(s) + 1] = x
  OBVIOUS
<1>2. Len(s) + 1 \notin DOMAIN s
  OBVIOUS
<1> QED BY <1>1, <1>2

\* The blocks owe one thing more, and whatever was owed before.
OwesMore(e, d, blocks, v) ==
    /\ \A b \in Block : \A i \in DOMAIN e.phiNodeObligations[b] :
          /\ i \in DOMAIN d.phiNodeObligations[b]
          /\ d.phiNodeObligations[b][i] = e.phiNodeObligations[b][i]
    /\ \A b \in blocks : \E i \in DOMAIN d.phiNodeObligations[b] :
          /\ i \notin DOMAIN e.phiNodeObligations[b]
          /\ d.phiNodeObligations[b][i].TargetFutureVariable = FuturePhi(b, v)

\* Blocks that are not finished may owe values.
LEMMA OweStays ==
    ASSUME NEW e, Healthy(e), NEW v \in Variable, NEW blocks \in SUBSET (Block \ e.finishedBlocks),
           NEW d, d = owe(e, blocks, v)
    PROVE  /\ Healthy(d)
           /\ Stays(e, d)
           /\ d.store = e.store
           /\ d.mutableVariableState = e.mutableVariableState
           /\ \A b \in Block : \A i \in DOMAIN d.phiNodeObligations[b] :
                 LET target == d.phiNodeObligations[b][i].TargetFutureVariable
                 IN  \/ /\ i \in DOMAIN e.phiNodeObligations[b]
                        /\ target = e.phiNodeObligations[b][i].TargetFutureVariable
                     \/ b \in blocks /\ target = FuturePhi(b, v)
           /\ OwesMore(e, d, blocks, v)
<1> DEFINE owed(b) == [VariableSource |-> v, TargetFutureVariable |-> FuturePhi(b, v)]
<1>1. /\ SameBut(e, d, {"phiNodeObligations"})
      /\ d.phiNodeObligations = [b \in Block |->
            IF b \in blocks THEN Append(e.phiNodeObligations[b], owed(b))
            ELSE e.phiNodeObligations[b]]
  BY OweFields DEF Healthy
<1>2. /\ d.currentBlockName = e.currentBlockName
      /\ d.variableTypes = e.variableTypes
      /\ d.mutableVariableState = e.mutableVariableState
      /\ d.variablesMappingsPerBlock = e.variablesMappingsPerBlock
      /\ d.variablesValuesPerBlock = e.variablesValuesPerBlock
      /\ d.finishedBlocks = e.finishedBlocks
      /\ d.outputVariables = e.outputVariables
      /\ d.mutableVariables = e.mutableVariables
      /\ d.mutableVariableConstraints = e.mutableVariableConstraints
      /\ d.store = e.store
      /\ DOMAIN d = EnvironmentFields
  BY <1>1 DEF SameBut, EnvironmentFields
<1>3. \A b \in Block : owed(b) \in Obligations /\ owed(b).TargetFutureVariable = FuturePhi(b, v)
  BY DEF Obligations, Futures
<1> HIDE DEF owed
<1>4. e.phiNodeObligations \in [Block -> Seq(Obligations)]
  BY DEF Healthy, ObligationsFit
<1>5. ASSUME NEW b \in Block
      PROVE  /\ d.phiNodeObligations[b] \in Seq(Obligations)
             /\ b \notin blocks => d.phiNodeObligations[b] = e.phiNodeObligations[b]
             /\ \A i \in DOMAIN d.phiNodeObligations[b] :
                   \/ /\ i \in DOMAIN e.phiNodeObligations[b]
                      /\ d.phiNodeObligations[b][i] = e.phiNodeObligations[b][i]
                   \/ b \in blocks /\ d.phiNodeObligations[b][i] = owed(b)
             /\ \A i \in DOMAIN e.phiNodeObligations[b] :
                   /\ i \in DOMAIN d.phiNodeObligations[b]
                   /\ d.phiNodeObligations[b][i] = e.phiNodeObligations[b][i]
             /\ b \in blocks => \E i \in DOMAIN d.phiNodeObligations[b] :
                   i \notin DOMAIN e.phiNodeObligations[b] /\ d.phiNodeObligations[b][i] = owed(b)
  <2> DEFINE s == e.phiNodeObligations[b]
  <2>1. s \in Seq(Obligations) /\ owed(b) \in Obligations
    BY <1>3, <1>4
  <2>2. CASE b \notin blocks
    BY <1>1, <2>1, <2>2
  <2>3. CASE b \in blocks
    <3>1. d.phiNodeObligations[b] = Append(s, owed(b))
      BY <1>1, <2>3
    <3> HIDE DEF s
    <3>2. /\ Append(s, owed(b)) \in Seq(Obligations)
          /\ \A i \in DOMAIN Append(s, owed(b)) :
                (i \in DOMAIN s /\ Append(s, owed(b))[i] = s[i]) \/ Append(s, owed(b))[i] = owed(b)
          /\ \A i \in DOMAIN s :
                i \in DOMAIN Append(s, owed(b)) /\ Append(s, owed(b))[i] = s[i]
          /\ \E i \in DOMAIN Append(s, owed(b)) :
                i \notin DOMAIN s /\ Append(s, owed(b))[i] = owed(b)
      BY <2>1, AppendFacts
    <3> QED BY <2>3, <3>1, <3>2 DEF s
  <2> QED BY <2>2, <2>3
<1>6. d.phiNodeObligations \in [Block -> Seq(Obligations)]
  <2>1. d.phiNodeObligations = [b \in Block |-> d.phiNodeObligations[b]]
    BY <1>1
  <2> QED BY <1>5, <2>1
<1>7. ObligationsFit(d)
  <2>1. \A b \in d.finishedBlocks : d.phiNodeObligations[b] = << >>
    BY <1>2, <1>5 DEF Healthy, ObligationsFit
  <2>2. ASSUME NEW b \in Block, NEW i \in DOMAIN d.phiNodeObligations[b]
        PROVE  \E w \in Variable : d.phiNodeObligations[b][i].TargetFutureVariable = FuturePhi(b, w)
    <3>1. CASE d.phiNodeObligations[b][i] = owed(b)
      BY <1>3, <3>1
    <3>2. CASE i \in DOMAIN e.phiNodeObligations[b]
               /\ d.phiNodeObligations[b][i] = e.phiNodeObligations[b][i]
      <4>1. \E w \in Variable : e.phiNodeObligations[b][i].TargetFutureVariable = FuturePhi(b, w)
        BY <3>2 DEF Healthy, ObligationsFit
      <4> QED BY <3>2, <4>1
    <3> QED BY <1>5, <3>1, <3>2
  <2> QED BY <1>6, <2>1, <2>2 DEF ObligationsFit
<1>8. Healthy(d)
  BY <1>2, <1>7 DEF Healthy, Shape, MappingsFit, Mapping, ConstraintsNoted, BoundByOwner
<1>9. Stays(e, d)
  BY <1>2, GrownReflexive DEF Stays, Grows, Mapping, Healthy, Shape
<1>10. OwesMore(e, d, blocks, v)
  BY <1>3, <1>5 DEF OwesMore
<1> QED BY <1>2, <1>3, <1>5, <1>8, <1>9, <1>10

LEMMA OwedTwice ==
    ASSUME NEW e, NEW d, NEW blocks \in SUBSET Block, NEW v, OwesMore(e, d, blocks, v)
    PROVE  /\ Doomed(e) => Doomed(d)
           /\ \A b \in Block, w \in Variable : Owes(e, b, w) => Owes(d, b, w)
           /\ \A b \in blocks : Owes(d, b, v)
           /\ \A b \in blocks : Owes(e, b, v) => Doomed(d)
<1>1. ASSUME Doomed(e)  PROVE Doomed(d)
  <2>1. PICK b \in Block : \E i, j \in DOMAIN e.phiNodeObligations[b] :
            /\ i # j
            /\ e.phiNodeObligations[b][i].TargetFutureVariable =
                  e.phiNodeObligations[b][j].TargetFutureVariable
    BY <1>1 DEF Doomed
  <2>2. PICK i \in DOMAIN e.phiNodeObligations[b], j \in DOMAIN e.phiNodeObligations[b] :
            /\ i # j
            /\ e.phiNodeObligations[b][i].TargetFutureVariable =
                  e.phiNodeObligations[b][j].TargetFutureVariable
    BY <2>1
  <2>3. /\ i \in DOMAIN d.phiNodeObligations[b] /\ j \in DOMAIN d.phiNodeObligations[b]
        /\ d.phiNodeObligations[b][i] = e.phiNodeObligations[b][i]
        /\ d.phiNodeObligations[b][j] = e.phiNodeObligations[b][j]
    BY DEF OwesMore
  <2> QED BY <2>2, <2>3 DEF Doomed
<1>2. ASSUME NEW b \in blocks, Owes(e, b, v)  PROVE Doomed(d)
  <2>1. b \in Block
    OBVIOUS
  <2>2. PICK i \in DOMAIN e.phiNodeObligations[b] :
            e.phiNodeObligations[b][i].TargetFutureVariable = FuturePhi(b, v)
    BY <1>2 DEF Owes
  <2>3. PICK j \in DOMAIN d.phiNodeObligations[b] :
            /\ j \notin DOMAIN e.phiNodeObligations[b]
            /\ d.phiNodeObligations[b][j].TargetFutureVariable = FuturePhi(b, v)
    BY DEF OwesMore
  <2>4. i \in DOMAIN d.phiNodeObligations[b] /\ i # j
        /\ d.phiNodeObligations[b][i] = e.phiNodeObligations[b][i]
    BY <2>1, <2>3 DEF OwesMore
  <2> QED BY <2>1, <2>2, <2>3, <2>4 DEF Doomed
<1>3. \A b \in Block, w \in Variable : Owes(e, b, w) => Owes(d, b, w)
  BY DEF Owes, OwesMore
<1>4. \A b \in blocks : Owes(d, b, v)
  BY DEF Owes, OwesMore
<1> QED BY <1>1, <1>2, <1>3, <1>4

\* A phi node for a mutable variable of the finished predecessor p: the others
\* owe it values.
AnticipatePhi(k, d, v) == anticipatePhi(k.succ, d, k.p, k.unfinished, v)

LEMMA AnticipatePhiAdvances ==
    ASSUME NEW d, Healthy(d), Running(d), Owed(d), NEW v \in Variable,
           NEW k, k.unfinished \subseteq Block \ d.finishedBlocks, k.p \in Block \ k.unfinished,
           v \in DOMAIN Mapping(d, k.p)
    PROVE  Advances(d, AnticipatePhi(k, d, v))
<1> DEFINE d1 == owe(d, k.unfinished, v)
           d2 == CountVersion(d1, v)
           mapped == getNextVariableName(d, v)
           sources == [b \in {k.p} \cup k.unfinished |-> IF b = k.p THEN v ELSE FuturePhi(b, v)]
           missing == {b \in DOMAIN sources : sources[b] \notin DOMAIN Mapping(d2, b)}
           r == createPhiNodeInternal(k.succ, d2, v, mapped, d.variableTypes[v], sources)
<1>1. /\ Healthy(d1)
      /\ Stays(d, d1)
      /\ d1.store = d.store
      /\ d1.mutableVariableState = d.mutableVariableState
      /\ \A b \in Block : \A i \in DOMAIN d1.phiNodeObligations[b] :
            LET target == d1.phiNodeObligations[b][i].TargetFutureVariable
            IN  \/ /\ i \in DOMAIN d.phiNodeObligations[b]
                   /\ target = d.phiNodeObligations[b][i].TargetFutureVariable
                \/ b \in k.unfinished /\ target = FuturePhi(b, v)
      /\ OwesMore(d, d1, k.unfinished, v)
  BY OweStays
<1> HIDE DEF d1
<1>2. Keeps(d1, Succeed(d2)) /\ getNextVariableName(d1, v) \in Versions /\ d2.store = d1.store
  BY <1>1, CountVersionKeeps
<1>3. mapped \in Versions
  BY <1>1, <1>2 DEF getNextVariableName
<1> HIDE DEF d2, mapped
<1>4. Healthy(d2) /\ Within(d1, d2) /\ Running(d2)
  BY <1>1, <1>2, RunningStays DEF Keeps, Leads, Within, Succeed
<1>5. /\ DOMAIN sources = {k.p} \cup k.unfinished
      /\ \A b \in k.unfinished : sources[b] = FuturePhi(b, v)
      /\ sources[k.p] = v
  OBVIOUS
<1> HIDE DEF sources
<1>6. /\ Leads(d2, r)
      /\ PromisesSources(d2, sources, missing, r)
      /\ r.ok => \A p \in DOMAIN sources : sources[p] \notin DOMAIN Mapping(d2, p) =>
                                                sources[p] \in Known(r.env.store)
  <2>1. mapped \in Values /\ MayBind(d2, mapped) /\ DOMAIN sources \subseteq Block /\ DOMAIN sources # {}
    BY <1>3, <1>5, MayBindOwn DEF Values
  <2> QED BY <1>4, <2>1, PhiNodeInternalLeads
<1> HIDE DEF r, missing
<1>7. Stays(d, r.env)
  <2>1. Stays(d, d1) /\ Stays(d1, d2) /\ Stays(d2, r.env) /\ d.finishedBlocks \subseteq Block
        /\ d1.finishedBlocks \subseteq Block
    BY <1>1, <1>4, <1>6 DEF Leads, Within, Healthy
  <2>2. Stays(d, d2)
    BY <2>1, StaysTransitive
  <2> QED BY <2>1, <2>2, StaysTransitive
<1>8. ASSUME r.ok  PROVE Owed(r.env) /\ Known(d.store) \subseteq Known(r.env.store)
  <2>1. Known(d.store) \subseteq Known(r.env.store) /\ d2.store = d.store
    BY <1>1, <1>2, <1>6, <1>8 DEF Leads
  <2>2. r.env.phiNodeObligations = d1.phiNodeObligations
    BY <1>4, <1>6 DEF Leads, Within
  <2>3. ASSUME NEW b \in k.unfinished  PROVE FuturePhi(b, v) \in Known(r.env.store)
    <3>1. CASE FuturePhi(b, v) \in DOMAIN Mapping(d2, b)
      <4>1. b \in Block /\ FuturePhi(b, v) \in Futures
        BY DEF Futures
      <4>2. FuturePhi(b, v) \in Bound(d2.store)
        BY <1>4, <3>1, <4>1 DEF Healthy, MappingsFit, Fits
      <4> QED BY <2>1, <1>6, <1>8, <4>2 DEF Known, Leads
    <3>2. CASE FuturePhi(b, v) \notin DOMAIN Mapping(d2, b)
      BY <1>5, <1>6, <1>8, <3>2
    <3> QED BY <3>1, <3>2
  <2>4. Owed(r.env)
    BY <1>1, <2>1, <2>2, <2>3 DEF Owed
  <2> QED BY <2>1, <2>4
<1>9. ASSUME r.ok, Sound(d)  PROVE Sound(r.env)
  <2>1. /\ d2.store = d.store
        /\ r.env.phiNodeObligations = d1.phiNodeObligations
    BY <1>1, <1>2, <1>4, <1>6 DEF Leads, Within
  <2>2. k.unfinished \in SUBSET Block
    OBVIOUS
  <2>3. missing \subseteq k.unfinished /\ \A b \in missing : sources[b] = FuturePhi(b, v)
    <3>1. v \in DOMAIN Mapping(d2, k.p)
      BY <1>1, <1>4 DEF Within, Stays, Grows
    <3> QED BY <1>5, <3>1 DEF missing
  <2>4. /\ Promised(r.env.store) \subseteq Promised(d.store) \cup {sources[b] : b \in missing}
        /\ FreshSources(d2, sources, missing) /\ Live(d.store) => Live(r.env.store)
    BY <1>6, <1>9, <2>1 DEF PromisesSources
  <2>5. /\ Doomed(d) => Doomed(d1)
        /\ \A b \in Block, w \in Variable : Owes(d, b, w) => Owes(d1, b, w)
        /\ \A b \in k.unfinished : Owes(d1, b, v)
        /\ \A b \in k.unfinished : Owes(d, b, v) => Doomed(d1)
    BY <1>1, <2>2, OwedTwice
  <2>6. /\ Doomed(r.env) <=> Doomed(d1)
        /\ \A b \in Block, w \in Variable : Owes(r.env, b, w) <=> Owes(d1, b, w)
    BY <2>1 DEF Doomed, Owes
  <2>7. PromisesOwed(r.env)
    <3> SUFFICES ASSUME NEW b \in Block, NEW w \in Variable, FuturePhi(b, w) \in Promised(r.env.store)
                 PROVE  Owes(d1, b, w)
      BY <2>6 DEF PromisesOwed
    <3>1. CASE FuturePhi(b, w) \in Promised(d.store)
      BY <1>9, <2>5, <3>1 DEF Sound, PromisesOwed
    <3>2. ASSUME NEW c \in missing, FuturePhi(b, w) = FuturePhi(c, v)  PROVE Owes(d1, b, w)
      <4>1. b = c /\ w = v
        BY <3>2 DEF FuturePhi
      <4> QED BY <2>3, <2>5, <4>1
    <3> QED BY <2>3, <2>4, <3>1, <3>2
  <2>8. Live(r.env.store) \/ Doomed(r.env)
    <3>1. CASE Doomed(d)
      BY <2>5, <2>6, <3>1
    <3>2. ASSUME NEW b \in missing, FuturePhi(b, v) \in Promised(d.store)  PROVE Doomed(r.env)
      <4>1. b \in k.unfinished /\ b \in Block
        BY <2>3
      <4> QED BY <1>9, <2>5, <2>6, <3>2, <4>1 DEF Sound, PromisesOwed
    <3>3. CASE Live(d.store) /\ \A b \in missing : FuturePhi(b, v) \notin Promised(d.store)
      <4>1. \A b, c \in missing : sources[b] = sources[c] => b = c
        BY <2>3 DEF FuturePhi
      <4>2. FreshSources(d2, sources, missing)
        BY <2>1, <2>3, <3>3, <4>1 DEF FreshSources
      <4> QED BY <2>4, <3>3, <4>2
    <3> QED BY <1>9, <3>1, <3>2, <3>3 DEF Sound
  <2> QED BY <2>7, <2>8 DEF Sound
<1> QED BY <1>6, <1>7, <1>8, <1>9
        DEF Advances, StaysSound, Leads, AnticipatePhi, anticipatePhi, r, d2, d1, mapped, sources

PhisAnticipated(k, s, r) == Advances(k.env, r)

AnticipateLoop == INSTANCE LoopTheorems WITH Iteration <- AnticipatePhi, Invariant <- PhisAnticipated

LEMMA AllPhisAnticipated ==
    ASSUME NEW k, NEW S \in SUBSET Variable, Healthy(k.env), Running(k.env), Owed(k.env),
           k.unfinished \subseteq Block \ k.env.finishedBlocks, k.p \in Block \ k.unfinished,
           S \subseteq DOMAIN Mapping(k.env, k.p), NEW r, r = Succeed(k.env)
    PROVE  Advances(k.env, AnticipateLoop!Results(k, S, r)[S])
<1>1. PhisAnticipated(k, {}, r)
  BY KeepsReflexive, KeepsAdvances DEF PhisAnticipated, Succeed
<1>2. ASSUME NEW s \in SUBSET S, NEW v \in s, NEW q, PhisAnticipated(k, s \ {v}, q)
      PROVE  PhisAnticipated(k, s, IF q.ok THEN AnticipatePhi(k, q.env, v) ELSE q)
  <2>1. CASE ~q.ok
    BY <1>2, <2>1 DEF PhisAnticipated
  <2>2. CASE q.ok
    <3> DEFINE f == AnticipatePhi(k, q.env, v)
    <3>1. /\ Healthy(q.env) /\ Running(q.env) /\ Owed(q.env)
          /\ k.unfinished \subseteq Block \ q.env.finishedBlocks
          /\ v \in DOMAIN Mapping(q.env, k.p)
      BY <1>2, <2>2, RunningStays DEF PhisAnticipated, Advances, Stays, Grows
    <3>2. Advances(q.env, f)
      BY <3>1, AnticipatePhiAdvances
    <3> HIDE DEF f
    <3>3. Advances(k.env, f)
      BY <1>2, <2>2, <3>2, AdvancesTransitive DEF PhisAnticipated
    <3> QED BY <2>2, <3>3 DEF PhisAnticipated, f
  <2> QED BY <2>1, <2>2
<1>3. AnticipateLoop!Inductive(S)
  BY VariableAssumption, FS_Subset, FiniteSmallest DEF SomeSmallest, AnticipateLoop!Inductive
<1>4. PhisAnticipated(k, S, AnticipateLoop!Results(k, S, r)[S])
  BY <1>1, <1>2, <1>3, AnticipateLoop!LoopInvariant
<1> QED BY <1>4 DEF PhisAnticipated

\* The other variables of the finished predecessor p come into scope.
ShareFinished(k, d, t) == share(d, k.p, t[1], t[2])

FinishedShared(k, s, r) == Keeps(k.env, r)

ShareLoop == INSTANCE LoopTheorems WITH Iteration <- ShareFinished, Invariant <- FinishedShared

LEMMA KeysFinite == IsFiniteSet(Keys)
<1>1. IsFiniteSet(Block \X Block) /\ IsFiniteSet(Block \X Variable)
  BY BlockAssumption, VariableAssumption, FS_Product
<1>2. IsFiniteSet(Transitions)
  <2> DEFINE f == [t \in Block \X Block |-> TransitionGuard(t[1], t[2])]
  <2>1. f \in [Block \X Block -> Transitions]
    BY DEF Transitions
  <2>2. ASSUME NEW n \in Transitions  PROVE \E t \in Block \X Block : f[t] = n
    <3>1. PICK p \in Block, b \in Block : n = TransitionGuard(p, b)
      BY DEF Transitions
    <3>2. f[<<p, b>>] = n
      BY <3>1
    <3> QED BY <3>2
  <2> HIDE DEF f
  <2>3. f \in Surjection(Block \X Block, Transitions)
    BY <2>1, <2>2 DEF Surjection
  <2> QED BY <1>1, <2>3, FS_Surjection
<1>3. IsFiniteSet(Futures)
  <2> DEFINE f == [t \in Block \X Variable |-> FuturePhi(t[1], t[2])]
  <2>1. f \in [Block \X Variable -> Futures]
    BY DEF Futures
  <2>2. ASSUME NEW n \in Futures  PROVE \E t \in Block \X Variable : f[t] = n
    <3>1. PICK p \in Block, v \in Variable : n = FuturePhi(p, v)
      BY DEF Futures
    <3>2. f[<<p, v>>] = n
      BY <3>1
    <3> QED BY <3>2
  <2> HIDE DEF f
  <2>3. f \in Surjection(Block \X Variable, Futures)
    BY <2>1, <2>2 DEF Surjection
  <2> QED BY <1>1, <2>3, FS_Surjection
<1>4. IsFiniteSet(Transitions \cup Futures)
  BY <1>2, <1>3, FS_Union
<1>5. IsFiniteSet(Variable \cup (Transitions \cup Futures))
  BY <1>4, VariableAssumption, FS_Union
<1>6. Keys = Variable \cup (Transitions \cup Futures)
  BY DEF Keys
<1> QED BY <1>5, <1>6

LEMMA AllFinishedShared ==
    ASSUME NEW k, Healthy(k.env), k.p \in Block,
           NEW S, S \subseteq (Block \ k.env.finishedBlocks) \X DOMAIN Mapping(k.env, k.p),
           NEW r, r = Succeed(k.env)
    PROVE  Keeps(k.env, ShareLoop!Results(k, S, r)[S])
<1>1. FinishedShared(k, {}, r)
  BY KeepsReflexive DEF FinishedShared, Succeed
<1>2. ASSUME NEW s \in SUBSET S, NEW t \in s, NEW q, FinishedShared(k, s \ {t}, q)
      PROVE  FinishedShared(k, s, IF q.ok THEN ShareFinished(k, q.env, t) ELSE q)
  <2>1. CASE ~q.ok
    BY <1>2, <2>1 DEF FinishedShared
  <2>2. CASE q.ok
    <3> DEFINE f == ShareFinished(k, q.env, t)
    <3>0. t[1] \in Block /\ t[1] \notin k.env.finishedBlocks /\ t[2] \in DOMAIN Mapping(k.env, k.p)
      <4>1. t \in (Block \ k.env.finishedBlocks) \X DOMAIN Mapping(k.env, k.p)
        OBVIOUS
      <4> QED BY <4>1
    <3>1. /\ Healthy(q.env)
          /\ t[1] \notin q.env.finishedBlocks
          /\ t[2] \in DOMAIN Mapping(q.env, k.p)
      BY <1>2, <3>0 DEF FinishedShared, Keeps, Leads, Within, Stays, Grows
    <3>2. Fits(q.env.store, t[2], Mapping(q.env, k.p)[t[2]])
      BY <3>1 DEF Healthy, MappingsFit
    <3>3. Keeps(q.env, f)
      BY <3>0, <3>1, <3>2, MapInKeeps DEF ShareFinished, share
    <3> HIDE DEF f
    <3>4. Keeps(k.env, f)
      BY <1>2, <2>2, <3>3, KeepsTransitive DEF FinishedShared
    <3> QED BY <2>2, <3>4 DEF FinishedShared, f
  <2> QED BY <2>1, <2>2
<1>3. ShareLoop!Inductive(S)
  <2>1. DOMAIN Mapping(k.env, k.p) \subseteq Keys
    BY DEF Healthy, MappingsFit, Fits
  <2>2. S \subseteq Block \X Keys
    BY <2>1
  <2>3. IsFiniteSet(S)
    BY <2>2, BlockAssumption, KeysFinite, FS_Product, FS_Subset
  <2> QED BY <2>3, FiniteSmallest DEF SomeSmallest, ShareLoop!Inductive
<1>4. FinishedShared(k, S, ShareLoop!Results(k, S, r)[S])
  BY <1>1, <1>2, <1>3, ShareLoop!LoopInvariant
<1> QED BY <1>4 DEF FinishedShared

\* Predecessors that are not finished advance.
LEMMA AnticipateAdvances ==
    ASSUME NEW e, Healthy(e), Running(e), Owed(e), NEW p \in Block,
           NEW unfinished \in SUBSET (Block \ e.finishedBlocks), p \notin unfinished, NEW g
    PROVE  Advances(e, anticipate(g, e, p, unfinished))
<1> DEFINE variables == DOMAIN Mapping(e, p)
           V == variables \cap e.mutableVariables
           k == [succ |-> g, env |-> e, p |-> p, unfinished |-> unfinished]
           phis == AnticipateLoop!Results(k, V, Succeed(e))[V]
           d == phis.env
           T == unfinished \X (variables \ (e.mutableVariables \cup e.outputVariables))
           h == [env |-> d, p |-> p]
           shared == ShareLoop!Results(h, T, Succeed(d))[T]
           r == anticipate(g, e, p, unfinished)
<1>1. r = IF phis.ok THEN shared ELSE phis
  BY DEF anticipate, Then, ForEach, FoldSet, MapThenFoldSet, AnticipateLoop!Results,
         ShareLoop!Results, AnticipatePhi, ShareFinished
<1>2. Advances(e, phis)
  <2>1. k.env = e /\ k.p = p /\ k.unfinished = unfinished
    OBVIOUS
  <2>2. V \subseteq Variable /\ V \subseteq DOMAIN Mapping(e, p)
    BY RolesAssumption DEF Healthy, ConstraintsNoted
  <2> HIDE DEF k, V
  <2> QED BY <2>1, <2>2, AllPhisAnticipated
<1> HIDE DEF r, phis
<1>3. CASE ~phis.ok
  BY <1>1, <1>2, <1>3 DEF r
<1>4. CASE phis.ok
  <2>1. h.env = d /\ h.p = p
    OBVIOUS
  <2>2. Healthy(d) /\ Owed(d) /\ d.finishedBlocks = e.finishedBlocks
    BY <1>2, <1>4 DEF Advances, Stays
  <2>3. variables \subseteq DOMAIN Mapping(d, p)
    BY <1>2 DEF Advances, Stays, Grows
  <2>4. T \subseteq (Block \ d.finishedBlocks) \X DOMAIN Mapping(d, p)
    BY <2>2, <2>3
  <2> HIDE DEF h, T, d
  <2>5. Keeps(d, shared)
    BY <2>1, <2>2, <2>4, AllFinishedShared
  <2> HIDE DEF shared
  <2>6. Advances(e, shared)
    BY <1>2, <1>4, <2>2, <2>5, KeepsAdvances, AdvancesTransitive DEF d
  <2> QED BY <1>1, <1>4, <2>6 DEF r
<1> QED BY <1>3, <1>4

\* Blocks without a mapping get an empty one.
LEMMA TouchKeeps ==
    ASSUME NEW e, Healthy(e), NEW blocks \in SUBSET Block, NEW d,
           SameBut(e, d, {"variablesMappingsPerBlock"}),
           DOMAIN d.variablesMappingsPerBlock = DOMAIN e.variablesMappingsPerBlock \cup blocks,
           \A b \in DOMAIN e.variablesMappingsPerBlock \cup blocks :
              d.variablesMappingsPerBlock[b] = Mapping(e, b)
    PROVE  Keeps(e, Succeed(d))
<1>2. /\ d.currentBlockName = e.currentBlockName
      /\ d.variableTypes = e.variableTypes
      /\ d.mutableVariableState = e.mutableVariableState
      /\ d.variablesValuesPerBlock = e.variablesValuesPerBlock
      /\ d.finishedBlocks = e.finishedBlocks
      /\ d.phiNodeObligations = e.phiNodeObligations
      /\ d.outputVariables = e.outputVariables
      /\ d.mutableVariables = e.mutableVariables
      /\ d.mutableVariableConstraints = e.mutableVariableConstraints
      /\ d.store = e.store
      /\ DOMAIN d = EnvironmentFields
  BY DEF SameBut, EnvironmentFields
<1>3. ASSUME NEW b  PROVE Mapping(d, b) = Mapping(e, b)
  <2>1. CASE b \in DOMAIN e.variablesMappingsPerBlock \cup blocks
    BY <2>1 DEF Mapping
  <2>2. CASE b \notin DOMAIN e.variablesMappingsPerBlock \cup blocks
    BY <2>2 DEF Mapping
  <2> QED BY <2>1, <2>2
<1>5. MappingsFit(d)
  BY <1>2, <1>3 DEF Healthy, MappingsFit
<1>6. Healthy(d)
  BY <1>2, <1>5 DEF Healthy, Shape, ConstraintsNoted, ObligationsFit, BoundByOwner
<1>7. Grows(e, d)
  BY <1>2, <1>3, GrownReflexive DEF Grows, Healthy, Shape
<1> QED BY <1>2, <1>6, <1>7, SettlesReflexive DEF Keeps, Leads, Within, Stays, Succeed

\* After it every predecessor has a mapping, and if there are any, one of them
\* is finished.
Prepared(e, r, previous) ==
    /\ Advances(e, r)
    /\ r.ok => /\ previous \subseteq DOMAIN r.env.variablesMappingsPerBlock
               /\ previous = {} \/ previous \cap e.finishedBlocks # {}

LEMMA CommonVariablesPrepared ==
    ASSUME NEW e, Healthy(e), Running(e), Owed(e), NEW previous \in SUBSET Block, NEW g
    PROVE  Prepared(e, getCommonVariables(g, e, previous), previous)
<1> DEFINE finished == previous \cap e.finishedBlocks
           unfinished == previous \ e.finishedBlocks
           touched == [e EXCEPT !.variablesMappingsPerBlock =
                           [b \in DOMAIN @ \cup previous |-> Mapping(e, b)]]
           p == CHOOSE p \in finished : TRUE
           valid == validateFinishedAndUnfinishedBlockStates(g, finished, unfinished)
           anticipated == anticipate(g, touched, p, unfinished)
           r == getCommonVariables(g, e, previous)
<1>1. r = IF unfinished = {} THEN Succeed(touched) ELSE IF ~valid THEN Fail(e) ELSE anticipated
  BY DEF getCommonVariables
<1> HIDE DEF r
<1>2. /\ Keeps(e, Succeed(touched))
      /\ previous \subseteq DOMAIN touched.variablesMappingsPerBlock
  <2>1. /\ SameBut(e, touched, {"variablesMappingsPerBlock"})
        /\ DOMAIN touched.variablesMappingsPerBlock = DOMAIN e.variablesMappingsPerBlock \cup previous
        /\ \A b \in DOMAIN e.variablesMappingsPerBlock \cup previous :
              touched.variablesMappingsPerBlock[b] = Mapping(e, b)
    BY DEF Healthy, Shape, SameBut, EnvironmentFields
  <2> HIDE DEF touched
  <2> QED BY <2>1, TouchKeeps
<1> HIDE DEF touched
<1>3. CASE unfinished = {}
  <2>1. r = Succeed(touched)
    BY <1>1, <1>3
  <2>2. Advances(e, Succeed(touched))
    BY <1>2, KeepsAdvances
  <2> QED BY <1>2, <1>3, <2>1, <2>2 DEF Prepared, Succeed, r
<1>4. CASE unfinished # {} /\ ~valid
  <2>1. r = Fail(e)
    BY <1>1, <1>4
  <2>2. Advances(e, Fail(e)) /\ Fail(e).ok = FALSE
    BY KeepsReflexive, KeepsAdvances DEF Fail
  <2> QED BY <2>1, <2>2 DEF Prepared, r
<1>5. CASE unfinished # {} /\ valid
  <2>1. finished # {}
    BY <1>5, FS_EmptySet DEF validateFinishedAndUnfinishedBlockStates
  <2>2. p \in finished /\ p \in Block /\ p \notin unfinished
    BY <2>1
  <2>3. Healthy(touched) /\ Running(touched) /\ touched.finishedBlocks = e.finishedBlocks
    BY <1>2, RunningStays DEF Keeps, Leads, Within, Stays, Succeed
  <2>4. Owed(touched)
    BY <1>2 DEF Keeps, Leads, Within, Owed, Succeed
  <2>5. Advances(touched, anticipated)
    <3>1. unfinished \in SUBSET (Block \ touched.finishedBlocks)
      BY <2>3
    <3> HIDE DEF unfinished, p
    <3> QED BY <2>2, <2>3, <2>4, <3>1, AnticipateAdvances
  <2>6. r = anticipated
    BY <1>1, <1>5
  <2> HIDE DEF anticipated
  <2>7. Advances(e, anticipated)
    <3>1. Advances(e, Succeed(touched)) /\ Succeed(touched).ok /\ Succeed(touched).env = touched
      BY <1>2, KeepsAdvances DEF Succeed
    <3> QED BY <2>5, <3>1, AdvancesTransitive
  <2>8. previous \subseteq DOMAIN anticipated.env.variablesMappingsPerBlock
    BY <1>2, <2>5 DEF Advances, Stays, Grows
  <2> QED BY <2>1, <2>6, <2>7, <2>8 DEF Prepared, r
<1> QED BY <1>3, <1>4, <1>5

\* A variable that all predecessors agree on comes into scope.
KeepVariable(k, d, v) == Succeed(MapVariable(d, v, Mapping(k.env, k.p)[v]))

VariablesKept(k, s, r) == Keeps(k.env, r) /\ r.ok

KeepLoop == INSTANCE LoopTheorems WITH Iteration <- KeepVariable, Invariant <- VariablesKept

LEMMA AllVariablesKept ==
    ASSUME NEW k, Healthy(k.env), Running(k.env), NEW S, S # {} => k.p \in Block,
           S \subseteq DOMAIN Mapping(k.env, k.p), NEW r, r = Succeed(k.env)
    PROVE  VariablesKept(k, S, KeepLoop!Results(k, S, r)[S])
<1>1. VariablesKept(k, {}, r)
  BY KeepsReflexive DEF VariablesKept, Succeed
<1>2. ASSUME NEW s \in SUBSET S, NEW v \in s, NEW q, VariablesKept(k, s \ {v}, q)
      PROVE  VariablesKept(k, s, IF q.ok THEN KeepVariable(k, q.env, v) ELSE q)
  <2>1. CASE ~q.ok
    BY <1>2, <2>1 DEF VariablesKept
  <2>2. CASE q.ok
    <3> DEFINE f == KeepVariable(k, q.env, v)
    <3>1. Healthy(q.env) /\ Running(q.env) /\ Grown(k.env.store, q.env.store)
      BY <1>2, RunningStays DEF VariablesKept, Keeps, Leads, Within, Stays, Grows
    <3>2. Fits(k.env.store, v, Mapping(k.env, k.p)[v])
      BY DEF Healthy, MappingsFit
    <3>3. Fits(q.env.store, v, Mapping(k.env, k.p)[v])
      BY <3>1, <3>2, FitsGrows
    <3>4. Keeps(q.env, f)
      BY <3>1, <3>3, MapVariableKeeps DEF KeepVariable, MadeVisible
    <3>0. f.ok
      BY DEF KeepVariable, Succeed
    <3> HIDE DEF f
    <3>5. Keeps(k.env, f)
      BY <1>2, <2>2, <3>4, KeepsTransitive DEF VariablesKept
    <3> QED BY <2>2, <3>0, <3>5 DEF VariablesKept, f
  <2> QED BY <2>1, <2>2
<1>3. KeepLoop!Inductive(S)
  <2>1. S \subseteq Keys
    <3>1. S # {} => DOMAIN Mapping(k.env, k.p) \subseteq Keys
      BY DEF Healthy, MappingsFit, Fits
    <3> QED BY <3>1
  <2> QED BY <2>1, KeysFinite, FS_Subset, FiniteSmallest DEF SomeSmallest, KeepLoop!Inductive
<1> QED BY <1>1, <1>2, <1>3, KeepLoop!LoopInvariant

\* A variable that they disagree on gets a phi node.
JoinVariable(k, d, v) ==
    createPhiNodeWithoutCreatedBinders(k.succ, CountVersion(d, v), v, getNextVariableName(d, v),
        d.variableTypes[v], [p \in k.previous |-> Mapping(d, p)[v]])

VariablesJoined(k, s, r) == Keeps(k.env, r)

JoinLoop == INSTANCE LoopTheorems WITH Iteration <- JoinVariable, Invariant <- VariablesJoined

LEMMA JoinVariableKeeps ==
    ASSUME NEW d, Healthy(d), Running(d), NEW v \in Variable, NEW k, k.previous \subseteq Block,
           k.previous # {}
    PROVE  Keeps(d, JoinVariable(k, d, v))
<1> DEFINE f == CountVersion(d, v)
           mapped == getNextVariableName(d, v)
           sources == [p \in k.previous |-> Mapping(d, p)[v]]
           r == createPhiNodeWithoutCreatedBinders(k.succ, f, v, mapped, d.variableTypes[v], sources)
<1>1. Keeps(d, Succeed(f)) /\ mapped \in Versions
  BY CountVersionKeeps
<1>2. DOMAIN sources = k.previous
  OBVIOUS
<1> HIDE DEF f, mapped, sources
<1>3. Healthy(f) /\ Running(f)
  BY <1>1, RunningStays DEF Keeps, Leads, Within, Succeed
<1>4. mapped \in Values /\ MayBind(f, mapped)
  BY <1>1, MayBindOwn DEF Values
<1>5. MadeVisible(f, r, v)
  BY <1>2, <1>3, <1>4, PhiNodeKeeps
<1> HIDE DEF r
<1>6. Keeps(d, r)
  BY <1>1, <1>5, KeepsTransitive DEF Succeed, MadeVisible
<1> QED BY <1>6 DEF JoinVariable, r, f, mapped, sources

LEMMA AllVariablesJoined ==
    ASSUME NEW k, Healthy(k.env), Running(k.env), k.previous \subseteq Block,
           NEW S \in SUBSET Variable, S # {} => k.previous # {},
           NEW e, Healthy(e), NEW r, Keeps(e, r), r.ok, r.env = k.env
    PROVE  Keeps(e, JoinLoop!Results(k, S, r)[S])
<1>1. VariablesJoined(k, {}, r)
  BY KeepsReflexive DEF VariablesJoined
<1>2. ASSUME NEW s \in SUBSET S, NEW v \in s, NEW q, VariablesJoined(k, s \ {v}, q)
      PROVE  VariablesJoined(k, s, IF q.ok THEN JoinVariable(k, q.env, v) ELSE q)
  <2>1. CASE ~q.ok
    BY <1>2, <2>1 DEF VariablesJoined
  <2>2. CASE q.ok
    <3> DEFINE f == JoinVariable(k, q.env, v)
    <3>1. Healthy(q.env) /\ Running(q.env)
      BY <1>2, RunningStays DEF VariablesJoined, Keeps, Leads, Within
    <3>2. Keeps(q.env, f)
      BY <3>1, JoinVariableKeeps
    <3> HIDE DEF f
    <3>3. Keeps(k.env, f)
      BY <1>2, <2>2, <3>2, KeepsTransitive DEF VariablesJoined
    <3> QED BY <2>2, <3>3 DEF VariablesJoined, f
  <2> QED BY <2>1, <2>2
<1>3. JoinLoop!Inductive(S)
  BY VariableAssumption, FS_Subset, FiniteSmallest DEF SomeSmallest, JoinLoop!Inductive
<1>4. VariablesJoined(k, S, JoinLoop!Results(k, S, r)[S])
  BY <1>1, <1>2, <1>3, JoinLoop!LoopInvariant
<1> QED BY <1>4, KeepsTransitive DEF VariablesJoined

LEMMA InheritKeeps ==
    ASSUME NEW e, Healthy(e), Running(e), NEW previous \in SUBSET Block, NEW g
    PROVE  Keeps(e, inheritVariables(g, e, previous))
<1> DEFINE agree(v) == \A p, q \in previous : Mapping(e, p)[v] = Mapping(e, q)[v]
           common == CommonVariables(e, previous)
           A == {v \in common : agree(v)}
           B == {v \in common : ~agree(v)}
           h == [env |-> e, p |-> CHOOSE p \in previous : TRUE]
           kept == KeepLoop!Results(h, A, Succeed(e))[A]
           k == [succ |-> g, env |-> kept.env, previous |-> previous]
           joined == JoinLoop!Results(k, B, kept)[B]
           r == inheritVariables(g, e, previous)
<1>1. r = joined
  BY SMTT(30) DEF inheritVariables, ForEach, FoldSet, MapThenFoldSet, KeepLoop!Results, JoinLoop!Results,
         KeepVariable, JoinVariable
<1> HIDE DEF r
<1>2. previous # {} => h.p \in previous
  OBVIOUS
<1>3. /\ A \subseteq common /\ B \subseteq common
      /\ previous = {} => A = {} /\ B = {}
  BY DEF CommonVariables
<1>4. A \subseteq DOMAIN Mapping(e, h.p)
  BY <1>2, <1>3 DEF CommonVariables
<1>5. B \subseteq Variable
  <2> SUFFICES ASSUME NEW v \in B, v \notin Variable  PROVE FALSE
    OBVIOUS
  <2>1. PICK p \in previous, q \in previous : Mapping(e, p)[v] # Mapping(e, q)[v]
    OBVIOUS
  <2>2. v \in DOMAIN Mapping(e, p) /\ v \in DOMAIN Mapping(e, q)
    BY DEF CommonVariables
  <2>3. Mapping(e, p)[v] = v /\ Mapping(e, q)[v] = v
    BY <2>2 DEF Healthy, MappingsFit, Fits
  <2> QED BY <2>1, <2>3
<1>6. h.env = e /\ k.env = kept.env /\ k.previous = previous
  OBVIOUS
<1> HIDE DEF k, h, A, B
<1>7. Keeps(e, kept) /\ kept.ok
  <2>1. A # {} => h.p \in Block
    BY <1>2, <1>3
  <2> QED BY <1>4, <1>6, <2>1, AllVariablesKept DEF VariablesKept
<1> HIDE DEF kept
<1>8. Healthy(k.env) /\ Running(k.env) /\ (B # {} => k.previous # {})
  BY <1>3, <1>6, <1>7, RunningStays DEF Keeps, Leads, Within
<1>9. Keeps(e, joined)
  BY <1>5, <1>6, <1>7, <1>8, AllVariablesJoined
<1> QED BY <1>1, <1>9 DEF r

--------------------------------------------------------------------------------
\* The current block binds what it owes.
DischargeOne(k, d, i) == discharge(d, k.obligations[i])

\* The obligations in s are different, and are met in d.
Met(obligations, s, d) ==
    /\ \A i \in s : LET target == obligations[i].TargetFutureVariable
                   IN  target \in DOMAIN d.variableTypes /\ target \notin Promised(d.store)
    /\ \A i, j \in s :
          obligations[i].TargetFutureVariable = obligations[j].TargetFutureVariable => i = j

Discharged(k, s, r) == Keeps(k.env, r) /\ (r.ok => Met(k.obligations, s, r.env))

DischargeLoop == INSTANCE LoopTheorems WITH Iteration <- DischargeOne, Invariant <- Discharged

LEMMA DischargeKeeps ==
    ASSUME NEW d, Healthy(d), Running(d), NEW o,
           \E v \in Variable : o.TargetFutureVariable = FuturePhi(d.currentBlockName, v)
    PROVE  LET r == discharge(d, o)
           IN  /\ Keeps(d, r)
               /\ Settled(r, o.TargetFutureVariable, o.TargetFutureVariable)
               /\ r.ok => o.TargetFutureVariable \notin DOMAIN d.variableTypes
<1> DEFINE target == o.TargetFutureVariable
<1>1. target \in Futures /\ MayBind(d, target)
  <2>1. PICK v \in Variable : target = FuturePhi(d.currentBlockName, v)
    OBVIOUS
  <2>2. target \in Futures
    BY <2>1 DEF Running, Futures
  <2> QED BY <2>1, <2>2, MayBindOwn
<1>2. Assignable(d, target, target, {})
  <2> HIDE DEF target
  <2>1. target \notin Variable
    BY <1>1, NamesAssumption
  <2> QED BY <1>1, <2>1, VariableAssumption DEF Assignable, Values, Keys
<1> QED BY <1>2, CreateImmutableKeeps DEF discharge, IsVariableDefined

LEMMA AllDischarged ==
    ASSUME NEW k, Healthy(k.env), Running(k.env),
           k.obligations = k.env.phiNodeObligations[k.env.currentBlockName],
           NEW S, S = DOMAIN k.obligations, NEW r, r = Succeed(k.env)
    PROVE  Discharged(k, S, DischargeLoop!Results(k, S, r)[S])
<1>1. Discharged(k, {}, r)
  BY KeepsReflexive DEF Discharged, Met, Succeed
<1>2. ASSUME NEW s \in SUBSET S, NEW i \in s, NEW q, Discharged(k, s \ {i}, q)
      PROVE  Discharged(k, s, IF q.ok THEN DischargeOne(k, q.env, i) ELSE q)
  <2>1. CASE ~q.ok
    BY <1>2, <2>1 DEF Discharged
  <2>2. CASE q.ok
    <3> DEFINE f == DischargeOne(k, q.env, i)
               target(j) == k.obligations[j].TargetFutureVariable
    <3>1. /\ Healthy(q.env) /\ Running(q.env)
          /\ q.env.currentBlockName = k.env.currentBlockName
      BY <1>2, RunningStays DEF Discharged, Keeps, Leads, Within, Stays
    <3>2. \E v \in Variable :
            k.obligations[i].TargetFutureVariable = FuturePhi(k.env.currentBlockName, v)
      <4>1. i \in DOMAIN k.obligations /\ k.env.currentBlockName \in Block
        BY DEF Running
      <4> QED BY <4>1 DEF Healthy, ObligationsFit
    <3>3. /\ Keeps(q.env, f)
          /\ f.ok => /\ target(i) \in DOMAIN f.env.variableTypes
                     /\ target(i) \notin Promised(f.env.store)
                     /\ target(i) \notin DOMAIN q.env.variableTypes
      BY <3>1, <3>2, DischargeKeeps DEF DischargeOne, Settled
    <3> HIDE DEF f
    <3>4. Keeps(k.env, f)
      BY <1>2, <2>2, <3>3, KeepsTransitive DEF Discharged
    <3>5. ASSUME f.ok  PROVE Met(k.obligations, s, f.env)
      <4>1. \A j \in s \ {i} :
                target(j) \in DOMAIN q.env.variableTypes /\ target(j) \notin Promised(q.env.store)
        BY SMTT(30), <1>2, <2>2 DEF Discharged, Met
      <4>2. \A j, l \in s \ {i} : target(j) = target(l) => j = l
        BY SMTT(30), <1>2, <2>2 DEF Discharged, Met
      <4>3. \A j \in s \ {i} : target(j) # target(i)
        BY SMTT(30), <3>3, <3>5, <4>1
      <4>4. \A j \in s :
                target(j) \in DOMAIN f.env.variableTypes /\ target(j) \notin Promised(f.env.store)
        BY <3>3, <3>5, <4>1 DEF Keeps, Leads, Within, Stays, Grows, Settles
      <4>5. \A j, l \in s : target(j) = target(l) => j = l
        BY <4>2, <4>3
      <4> QED BY <4>4, <4>5 DEF Met
    <3> QED BY <2>2, <3>4, <3>5 DEF Discharged, f
  <2> QED BY <2>1, <2>2
<1>3. DischargeLoop!Inductive(S)
  <2>1. k.obligations \in Seq(Obligations)
    BY DEF Healthy, ObligationsFit, Running
  <2>2. IsFiniteSet(S)
    <3>1. DOMAIN k.obligations = 1 .. Len(k.obligations) /\ Len(k.obligations) \in Nat
      BY <2>1
    <3> QED BY <3>1, FS_Interval
  <2> QED BY <2>2, FiniteSmallest DEF SomeSmallest, DischargeLoop!Inductive
<1> QED BY <1>1, <1>2, <1>3, DischargeLoop!LoopInvariant

\* What holds of the result r of leaving the current block.
Left(e, r) ==
    /\ Healthy(r.env)
    /\ Grows(e, r.env)
    /\ r.env.currentBlockName = e.currentBlockName
    /\ r.ok => /\ r.env.finishedBlocks = e.finishedBlocks \cup {e.currentBlockName}
               /\ Owed(r.env)
               /\ Known(e.store) \subseteq Known(r.env.store)
    /\ StaysSound(e, r)

\* The block is finished and owes nothing.
LEMMA FinishedLeft ==
    ASSUME NEW e, Healthy(e), Running(e), Owed(e), NEW obligations,
           obligations = e.phiNodeObligations[e.currentBlockName],
           Met(obligations, DOMAIN obligations, e), NEW d,
           d = [e EXCEPT !.phiNodeObligations[e.currentBlockName] = << >>,
                         !.finishedBlocks = @ \cup {e.currentBlockName}]
    PROVE  Left(e, Succeed(d))
<1> DEFINE b == e.currentBlockName
<1>1. /\ SameBut(e, d, {"phiNodeObligations", "finishedBlocks"})
      /\ d.phiNodeObligations = [e.phiNodeObligations EXCEPT ![b] = << >>]
      /\ d.finishedBlocks = e.finishedBlocks \cup {b}
  BY DEF Healthy, Shape, SameBut, EnvironmentFields
<1>2. /\ d.currentBlockName = e.currentBlockName
      /\ d.variableTypes = e.variableTypes
      /\ d.mutableVariableState = e.mutableVariableState
      /\ d.variablesMappingsPerBlock = e.variablesMappingsPerBlock
      /\ d.variablesValuesPerBlock = e.variablesValuesPerBlock
      /\ d.outputVariables = e.outputVariables
      /\ d.mutableVariables = e.mutableVariables
      /\ d.mutableVariableConstraints = e.mutableVariableConstraints
      /\ d.store = e.store
      /\ DOMAIN d = EnvironmentFields
  BY <1>1 DEF SameBut, EnvironmentFields
<1>3. b \in Block /\ e.phiNodeObligations \in [Block -> Seq(Obligations)]
  BY DEF Running, Healthy, ObligationsFit
<1>4. /\ d.phiNodeObligations \in [Block -> Seq(Obligations)]
      /\ d.phiNodeObligations[b] = << >>
      /\ \A c \in Block \ {b} : d.phiNodeObligations[c] = e.phiNodeObligations[c]
  <2>1. << >> \in Seq(Obligations)
    OBVIOUS
  <2> QED BY <1>1, <1>3, <2>1
<1>5. ObligationsFit(d)
  <2>1. \A c \in d.finishedBlocks : d.phiNodeObligations[c] = << >>
    BY <1>1, <1>4 DEF Healthy, ObligationsFit
  <2>2. ASSUME NEW c \in Block, NEW i \in DOMAIN d.phiNodeObligations[c]
        PROVE  \E v \in Variable : d.phiNodeObligations[c][i].TargetFutureVariable = FuturePhi(c, v)
    <3>1. c # b
      BY <1>4
    <3>2. d.phiNodeObligations[c] = e.phiNodeObligations[c]
      BY <1>4, <3>1
    <3> QED BY <3>2 DEF Healthy, ObligationsFit
  <2> QED BY <1>4, <2>1, <2>2 DEF ObligationsFit
<1>6. BoundByOwner(d)
  BY <1>1, <1>2 DEF Healthy, BoundByOwner
<1>7. Healthy(d)
  BY <1>1, <1>2, <1>3, <1>5, <1>6 DEF Healthy, Shape, MappingsFit, Mapping, ConstraintsNoted
<1>8. Grows(e, d)
  BY <1>1, <1>2, GrownReflexive DEF Grows, Mapping, Healthy, Shape
<1>9. Owed(d)
  <2> SUFFICES ASSUME NEW c \in Block, NEW i \in DOMAIN d.phiNodeObligations[c]
               PROVE  d.phiNodeObligations[c][i].TargetFutureVariable \in Known(d.store)
    BY DEF Owed
  <2>1. c # b
    BY <1>4
  <2>2. d.phiNodeObligations[c] = e.phiNodeObligations[c]
    BY <1>4, <2>1
  <2> QED BY <1>2, <2>2 DEF Owed
<1>10. ASSUME Sound(e)  PROVE Sound(d)
  <2>1. \A i \in DOMAIN obligations :
            obligations[i].TargetFutureVariable \notin Promised(e.store)
    BY DEF Met
  <2>2. PromisesOwed(d)
    <3> SUFFICES ASSUME NEW c \in Block, NEW v \in Variable, FuturePhi(c, v) \in Promised(d.store)
                 PROVE  Owes(d, c, v)
      BY DEF PromisesOwed
    <3>1. Owes(e, c, v)
      BY <1>2, <1>10 DEF Sound, PromisesOwed
    <3>2. c # b
      BY <1>2, <2>1, <3>1 DEF Owes
    <3> QED BY <1>4, <3>1, <3>2 DEF Owes
  <2>3. ASSUME Doomed(e)  PROVE Doomed(d)
    <3>1. PICK c \in Block : \E i, j \in DOMAIN e.phiNodeObligations[c] :
              /\ i # j
              /\ e.phiNodeObligations[c][i].TargetFutureVariable =
                    e.phiNodeObligations[c][j].TargetFutureVariable
      BY <2>3 DEF Doomed
    <3>2. c # b
      BY <3>1 DEF Met
    <3>3. d.phiNodeObligations[c] = e.phiNodeObligations[c]
      BY <1>4, <3>2
    <3> QED BY <3>1, <3>3 DEF Doomed
  <2> QED BY <1>2, <1>10, <2>2, <2>3 DEF Sound
<1> QED BY <1>1, <1>2, <1>7, <1>8, <1>9, <1>10 DEF Left, StaysSound, Succeed

LEMMA EndBlockLeaves ==
    ASSUME NEW e, Healthy(e), Running(e), Owed(e)
    PROVE  Left(e, endBlock(e))
<1> DEFINE b == e.currentBlockName
           obligations == e.phiNodeObligations[b]
           S == DOMAIN obligations
           k == [env |-> e, obligations |-> obligations]
           done == DischargeLoop!Results(k, S, Succeed(e))[S]
           d == done.env
           final == [d EXCEPT !.phiNodeObligations[b] = << >>, !.finishedBlocks = @ \cup {b}]
           r == endBlock(e)
<1>1. r = IF done.ok THEN Succeed(final) ELSE done
  <2>1. ForEach(S, Succeed(e), LAMBDA f, i : discharge(f, obligations[i])) = done
    BY DEF ForEach, FoldSet, MapThenFoldSet, DischargeLoop!Results, DischargeOne
  <2> HIDE DEF done
  <2> QED BY <2>1 DEF endBlock, Then
<1> HIDE DEF r
<1>2. k.env = e /\ k.obligations = obligations
  OBVIOUS
<1>3. Keeps(e, done) /\ (done.ok => Met(obligations, S, d))
  <2> HIDE DEF k
  <2>1. Discharged(k, S, done)
    BY <1>2, AllDischarged
  <2> QED BY <1>2, <2>1 DEF Discharged
<1> HIDE DEF done
<1>4. Healthy(d) /\ Running(d) /\ d.currentBlockName = b /\ d.finishedBlocks = e.finishedBlocks
  BY <1>3, RunningStays DEF Keeps, Leads, Within, Stays
<1>5. Grows(e, d) /\ e.finishedBlocks \subseteq Block
  BY <1>3 DEF Keeps, Leads, Within, Stays, Healthy
<1>6. CASE ~done.ok
  BY <1>1, <1>4, <1>5, <1>6 DEF Left, StaysSound, r
<1>7. CASE done.ok
  <2>1. Owed(d) /\ Known(e.store) \subseteq Known(d.store)
    BY <1>3, <1>7, KeepsAdvances DEF Advances
  <2>2. Left(d, Succeed(final))
    <3>1. obligations = d.phiNodeObligations[b] /\ Met(obligations, DOMAIN obligations, d)
      BY <1>3, <1>7 DEF Keeps, Leads, Within
    <3> HIDE DEF d, b, obligations
    <3> QED BY <1>4, <2>1, <3>1, FinishedLeft
  <2> HIDE DEF final, d
  <2>3. Grows(e, final)
    BY <1>5, <2>2, GrowsTransitive DEF Left, Succeed
  <2>4. r = Succeed(final) /\ Succeed(final).env = final
    BY <1>1, <1>7 DEF Succeed
  <2>5. StaysSound(e, Succeed(final))
    BY <1>3, <1>7, <2>2, KeepsSound DEF Left, StaysSound, d
  <2> QED BY <1>4, <2>1, <2>2, <2>3, <2>4, <2>5 DEF Left, r
<1> QED BY <1>6, <1>7

--------------------------------------------------------------------------------
\* A transition guard comes into scope.
ShareGuard(k, d, b) == Succeed(MapIn(d, b, k.name, k.name))

\* At first, when nothing is mentioned yet, transition guards may be promised.
Prepares(e, r) ==
    /\ Leads(e, r)
    /\ r.ok => /\ Mentioned(r.env.store) = Mentioned(e.store)
               /\ Promised(r.env.store) \subseteq Promised(e.store) \cup Transitions

LEMMA PreparesTransitive ==
    ASSUME NEW e, Healthy(e), NEW r, NEW q, Prepares(e, r), r.ok, Prepares(r.env, q)
    PROVE  Prepares(e, q)
BY LeadsTransitive DEF Prepares

LEMMA PreparesSound ==
    ASSUME NEW e, NEW r, Prepares(e, r), Mentioned(e.store) = {}
    PROVE  StaysSound(e, r)
<1> SUFFICES ASSUME r.ok, Sound(e)  PROVE Sound(r.env)
  BY DEF StaysSound
<1>1. Live(r.env.store) /\ r.env.phiNodeObligations = e.phiNodeObligations
  BY DEF Prepares, Leads, Within, Live
<1>2. \A b \in Block, v \in Variable : FuturePhi(b, v) \notin Transitions
  BY DEF Transitions, TransitionGuard, FuturePhi
<1>3. PromisesOwed(r.env)
  BY <1>1, <1>2 DEF Prepares, Sound, PromisesOwed, Owes
<1> QED BY <1>1, <1>3 DEF Sound

GuardShared(k, s, r) ==
    /\ Prepares(k.env, r)
    /\ r.ok => k.name \in Known(r.env.store) /\ s \subseteq DOMAIN r.env.variablesMappingsPerBlock

GuardLoop == INSTANCE LoopTheorems WITH Iteration <- ShareGuard, Invariant <- GuardShared

LEMMA GuardFits ==
    ASSUME NEW p \in Block, NEW b \in Block, NEW s, NEW n, n = TransitionGuard(p, b)
    PROVE  Fits(s, n, n)
<1>1. n \in Transitions /\ n \notin Variable
  BY NamesAssumption DEF Transitions
<1>2. n \notin Futures
  BY DEF Futures, TransitionGuard, FuturePhi
<1> QED BY <1>1, <1>2, VariableAssumption DEF Fits, Keys, Values

LEMMA AllGuardsShared ==
    ASSUME NEW k, Healthy(k.env), k.env.finishedBlocks = {}, NEW p \in Block, NEW b \in Block,
           k.name = TransitionGuard(p, b), NEW S \in SUBSET Block,
           NEW r, Prepares(k.env, r), r.ok => k.name \in Known(r.env.store)
    PROVE  GuardShared(k, S, GuardLoop!Results(k, S, r)[S])
<1>1. GuardShared(k, {}, r)
  BY DEF GuardShared
<1>2. ASSUME NEW s \in SUBSET S, NEW c \in s, NEW q, GuardShared(k, s \ {c}, q)
      PROVE  GuardShared(k, s, IF q.ok THEN ShareGuard(k, q.env, c) ELSE q)
  <2>1. CASE ~q.ok
    BY <1>2, <2>1 DEF GuardShared
  <2>2. CASE q.ok
    <3> DEFINE d == MapIn(q.env, c, k.name, k.name)
    <3>1. Healthy(q.env) /\ q.env.finishedBlocks = {} /\ c \in Block
      BY <1>2 DEF GuardShared, Prepares, Leads, Within, Stays
    <3>2. Fits(q.env.store, k.name, k.name)
      BY GuardFits
    <3>3. /\ Keeps(q.env, Succeed(d))
          /\ c \in DOMAIN d.variablesMappingsPerBlock
          /\ d.store = q.env.store
      BY <3>1, <3>2, MapInKeeps
    <3> HIDE DEF d
    <3>4. Prepares(k.env, Succeed(d))
      <4>1. Prepares(q.env, Succeed(d))
        BY <3>3 DEF Prepares, Keeps, Succeed
      <4> QED BY <1>2, <2>2, <4>1, PreparesTransitive DEF GuardShared
    <3>5. DOMAIN q.env.variablesMappingsPerBlock \subseteq DOMAIN d.variablesMappingsPerBlock
      BY <3>3 DEF Keeps, Leads, Within, Stays, Grows, Succeed
    <3>6. GuardShared(k, s, Succeed(d))
      BY <1>2, <2>2, <3>3, <3>4, <3>5 DEF GuardShared, Succeed
    <3> QED BY <2>2, <3>6 DEF ShareGuard, d
  <2> QED BY <2>1, <2>2
<1>3. GuardLoop!Inductive(S)
  BY BlocksSmallest DEF SomeSmallest, GuardLoop!Inductive
<1> QED BY <1>1, <1>2, <1>3, GuardLoop!LoopInvariant

\* What is known when the transition guard of the edge from p to b is promised.
Announced(g, e, p, b) ==
    /\ TransitionGuard(p, b) \in Known(e.store)
    /\ Reach(g, b) \subseteq DOMAIN e.variablesMappingsPerBlock

LEMMA AnnouncePrepares ==
    ASSUME NEW d, Healthy(d), d.finishedBlocks = {}, NEW g, NEW b \in Block, NEW i,
           g[b][i] \in Block
    PROVE  LET r == announceTransition(g, d, b, i)
           IN  Prepares(d, r) /\ (r.ok => Announced(g, r.env, b, g[b][i]))
<1> DEFINE target == g[b][i]
           name == TransitionGuard(b, target)
           promised == Build(d, CreateFutureBinder(d.store, name, "bool"))
           k == [env |-> d, name |-> name]
           S == Reach(g, target)
           shared == GuardLoop!Results(k, S, promised)[S]
           r == announceTransition(g, d, b, i)
<1>1. r = shared
  <2>1. ForEach(S, promised, LAMBDA f, s : Succeed(MapIn(f, s, name, name))) = shared
    <3> HIDE DEF promised, name
    <3> QED BY DEF ForEach, FoldSet, MapThenFoldSet, GuardLoop!Results, ShareGuard
  <2> HIDE DEF shared
  <2> QED BY <2>1 DEF announceTransition
<1> HIDE DEF r
<1>2. Prepares(d, promised) /\ (promised.ok => name \in Known(promised.env.store))
  <2>1. name \in Transitions
    BY DEF Transitions
  <2> HIDE DEF name
  <2>2. /\ Leads(d, promised)
        /\ promised.ok =>
              /\ name \in Known(promised.env.store)
              /\ Promised(promised.env.store) = Promised(d.store) \cup {name}
              /\ Mentioned(promised.env.store) = Mentioned(d.store)
    BY FutureLeads
  <2> HIDE DEF promised
  <2> QED BY <2>1, <2>2 DEF Prepares
<1>3. k.env = d /\ k.name = name /\ S \in SUBSET Block
  BY DEF Reach
<1> HIDE DEF promised, k, S
<1>4. GuardShared(k, S, shared)
  BY <1>2, <1>3, AllGuardsShared
<1> HIDE DEF shared
<1> QED BY <1>1, <1>3, <1>4 DEF GuardShared, Announced, r, S

\* Every edge is announced.
AnnounceOne(k, d, t) == announceTransition(k.succ, d, t[1], t[2])

TransitionsAnnounced(k, s, r) ==
    /\ Prepares(k.env, r)
    /\ r.ok => \A t \in s : Announced(k.succ, r.env, t[1], k.succ[t[1]][t[2]])

AnnounceLoop == INSTANCE LoopTheorems WITH Iteration <- AnnounceOne,
                                           Invariant <- TransitionsAnnounced

LEMMA AllTransitionsAnnounced ==
    ASSUME NEW k, Healthy(k.env), k.env.finishedBlocks = {},
           NEW S \in SUBSET (Block \X (1 .. 2)), \A t \in S : k.succ[t[1]][t[2]] \in Block,
           NEW r, r = Succeed(k.env)
    PROVE  TransitionsAnnounced(k, S, AnnounceLoop!Results(k, S, r)[S])
<1>1. TransitionsAnnounced(k, {}, r)
  BY KeepsReflexive DEF TransitionsAnnounced, Prepares, Keeps, Succeed
<1>2. ASSUME NEW s \in SUBSET S, NEW t \in s, NEW q, TransitionsAnnounced(k, s \ {t}, q)
      PROVE  TransitionsAnnounced(k, s, IF q.ok THEN AnnounceOne(k, q.env, t) ELSE q)
  <2>1. CASE ~q.ok
    BY <1>2, <2>1 DEF TransitionsAnnounced
  <2>2. CASE q.ok
    <3> DEFINE f == AnnounceOne(k, q.env, t)
    <3>1. Healthy(q.env) /\ q.env.finishedBlocks = {} /\ t[1] \in Block /\ t \in S
      BY <1>2 DEF TransitionsAnnounced, Prepares, Leads, Within, Stays
    <3>2. Prepares(q.env, f) /\ (f.ok => Announced(k.succ, f.env, t[1], k.succ[t[1]][t[2]]))
      BY <3>1, AnnouncePrepares DEF AnnounceOne
    <3> HIDE DEF f
    <3>3. Prepares(k.env, f)
      BY <1>2, <2>2, <3>2, PreparesTransitive DEF TransitionsAnnounced
    <3>4. ASSUME f.ok, NEW u \in s \ {t}
          PROVE  Announced(k.succ, f.env, u[1], k.succ[u[1]][u[2]])
      <4>1. Announced(k.succ, q.env, u[1], k.succ[u[1]][u[2]])
        BY <1>2, <2>2, <3>4 DEF TransitionsAnnounced
      <4> QED BY <3>2, <3>4, <4>1 DEF Announced, Prepares, Leads, Within, Stays, Grows
    <3>5. TransitionsAnnounced(k, s, f)
      BY <3>2, <3>3, <3>4 DEF TransitionsAnnounced
    <3> QED BY <2>2, <3>5 DEF f
  <2> QED BY <2>1, <2>2
<1>3. AnnounceLoop!Inductive(S)
  <2>1. IsFiniteSet(1 .. 2)
    <3>1. \A n \in Nat : IsFiniteSet(1 .. n)
      BY FS_Interval
    <3> QED BY <3>1, Zenon
  <2>2. IsFiniteSet(S)
    BY <2>1, BlockAssumption, FS_Product, FS_Subset
  <2> QED BY <2>2, FiniteSmallest DEF SomeSmallest, AnnounceLoop!Inductive
<1> QED BY <1>1, <1>2, <1>3, AnnounceLoop!LoopInvariant

\* What the first StartBlock sets up, before its block is current.
Initialized(g, e, r) ==
    /\ Prepares(e, r)
    /\ r.ok => \A t \in Edges(g) : Announced(g, r.env, t[1], t[2])

LEMMA AnnouncedLater ==
    ASSUME NEW g, NEW e, NEW r, Leads(e, r), r.ok, NEW p, NEW b, Announced(g, e, p, b)
    PROVE  Announced(g, r.env, p, b)
BY DEF Announced, Leads, Within, Stays, Grows

\* Every block gets its guard.
MakeGuard(k, d, b) ==
    Build(d, CreateBinderWithConstraints(d.store, BlockGuard(b), "bool",
                                         {Over(GuardNames(k.succ, b))}))

GuardsMade(k, s, r) == Initialized(k.succ, k.env, r)

MakeLoop == INSTANCE LoopTheorems WITH Iteration <- MakeGuard, Invariant <- GuardsMade

LEMMA AllGuardsMade ==
    ASSUME NEW k, Healthy(k.env), NEW S \in SUBSET Block, NEW r, Initialized(k.succ, k.env, r)
    PROVE  Initialized(k.succ, k.env, MakeLoop!Results(k, S, r)[S])
<1>1. GuardsMade(k, {}, r)
  BY DEF GuardsMade
<1>2. ASSUME NEW s \in SUBSET S, NEW b \in s, NEW q, GuardsMade(k, s \ {b}, q)
      PROVE  GuardsMade(k, s, IF q.ok THEN MakeGuard(k, q.env, b) ELSE q)
  <2>1. CASE ~q.ok
    BY <1>2, <2>1 DEF GuardsMade
  <2>2. CASE q.ok
    <3> DEFINE f == MakeGuard(k, q.env, b)
    <3>1. Healthy(q.env)
      BY <1>2 DEF GuardsMade, Initialized, Prepares, Leads
    <3>2. BinderBuilt(q.env, f, BlockGuard(b), {Over(GuardNames(k.succ, b))})
      BY <3>1, MayBindOwn, ConstrainedKeeps DEF MakeGuard
    <3> HIDE DEF f
    <3>3. Prepares(q.env, f) /\ Prepares(k.env, f)
      <4>1. Prepares(q.env, f)
        BY <3>2 DEF BinderBuilt, Keeps, Settles, Prepares
      <4> QED BY <1>2, <2>2, <4>1, PreparesTransitive DEF GuardsMade, Initialized
    <3>4. ASSUME f.ok, NEW t \in Edges(k.succ)  PROVE Announced(k.succ, f.env, t[1], t[2])
      BY <1>2, <2>2, <3>3, <3>4, AnnouncedLater DEF GuardsMade, Initialized, Prepares
    <3> QED BY <2>2, <3>3, <3>4 DEF GuardsMade, Initialized, f
  <2> QED BY <2>1, <2>2
<1>3. MakeLoop!Inductive(S)
  BY BlocksSmallest DEF SomeSmallest, MakeLoop!Inductive
<1>4. GuardsMade(k, S, MakeLoop!Results(k, S, r)[S])
  BY <1>1, <1>2, <1>3, MakeLoop!LoopInvariant
<1> QED BY <1>4 DEF GuardsMade

LEMMA BlockGuardsInitialized ==
    ASSUME NEW e, Healthy(e), e.finishedBlocks = {}, NEW g \in [Block -> Terminators]
    PROVE  Initialized(g, e, initializeBlockGuards(g, e))
<1> DEFINE blocks == Reach(g, Entry)
           transfers == {t \in blocks \X (1 .. 2) : t[2] \in DOMAIN g[t[1]]}
           k == [succ |-> g, env |-> e]
           announced == AnnounceLoop!Results(k, transfers, Succeed(e))[transfers]
           made == MakeLoop!Results(k, blocks, announced)[blocks]
           r == initializeBlockGuards(g, e)
<1>1. r = made
  <2>1. ForEach(transfers, Succeed(e), LAMBDA d, t : announceTransition(g, d, t[1], t[2])) = announced
    <3> HIDE DEF transfers
    <3> QED BY DEF ForEach, FoldSet, MapThenFoldSet, AnnounceLoop!Results, AnnounceOne
  <2> HIDE DEF announced
  <2>2. ForEach(blocks, announced,
                LAMBDA d, b : Build(d, CreateBinderWithConstraints(d.store, BlockGuard(b), "bool",
                                                                   {Over(GuardNames(g, b))})))
            = made
    <3> HIDE DEF blocks
    <3> QED BY DEF ForEach, FoldSet, MapThenFoldSet, MakeLoop!Results, MakeGuard
  <2> HIDE DEF made
  <2> QED BY <2>1, <2>2 DEF initializeBlockGuards
<1> HIDE DEF r
<1>2. k.env = e /\ k.succ = g /\ blocks \in SUBSET Block
  BY DEF Reach
<1>3. /\ transfers \in SUBSET (Block \X (1 .. 2))
      /\ \A t \in transfers : g[t[1]][t[2]] \in Block
  BY <1>2, SuccessorsOfTerminator
<1> HIDE DEF k, announced
<1>4. TransitionsAnnounced(k, transfers, announced)
  <2> HIDE DEF transfers
  <2> QED BY <1>2, <1>3, AllTransitionsAnnounced DEF announced
<1>5. Initialized(g, e, announced)
  <2>1. ASSUME announced.ok, NEW t \in Edges(g)  PROVE Announced(g, announced.env, t[1], t[2])
    <3>1. t[1] \in blocks /\ t[1] \in Block /\ t[2] \in Successors(g, t[1])
      BY DEF Edges
    <3>2. PICK i \in DOMAIN g[t[1]] : t[2] = g[t[1]][i]
      BY <3>1 DEF Successors
    <3>3. <<t[1], i>> \in transfers
      BY <3>1, <3>2, SuccessorsOfTerminator
    <3>4. Announced(g, announced.env, t[1], g[t[1]][i])
      <4> DEFINE u == <<t[1], i>>
      <4>1. u[1] = t[1] /\ u[2] = i /\ u \in transfers
        BY <3>3
      <4> HIDE DEF u, transfers
      <4> QED BY <1>2, <1>4, <2>1, <4>1 DEF TransitionsAnnounced
    <3> QED BY <3>2, <3>4
  <2> QED BY <1>2, <1>4, <2>1 DEF TransitionsAnnounced, Initialized
<1>6. Initialized(g, e, made)
  <2> HIDE DEF blocks
  <2> QED BY <1>2, <1>5, AllGuardsMade
<1> QED BY <1>1, <1>6 DEF r

--------------------------------------------------------------------------------
\* What holds of the result r of leaving the current block, or of setting up the
\* guards when there is none.
Departed(g, e, r) ==
    /\ Healthy(r.env)
    /\ Grows(e, r.env)
    /\ r.ok =>
          /\ r.env.currentBlockName = e.currentBlockName
          /\ r.env.finishedBlocks = (e.finishedBlocks \cup {e.currentBlockName}) \ {NoBlock}
          /\ Owed(r.env)
          /\ Known(e.store) \subseteq Known(r.env.store)
          /\ e.currentBlockName = NoBlock =>
                \A t \in Edges(g) : Announced(g, r.env, t[1], t[2])
    /\ StaysSound(e, r)

LEMMA Departs ==
    ASSUME NEW e, Healthy(e), Owed(e), e.currentBlockName \notin e.finishedBlocks,
           e.currentBlockName = NoBlock => e.finishedBlocks = {} /\ Mentioned(e.store) = {},
           NEW g \in [Block -> Terminators]
    PROVE  Departed(g, e, IF e.currentBlockName = NoBlock THEN initializeBlockGuards(g, e)
                          ELSE endBlock(e))
<1>1. CASE e.currentBlockName = NoBlock
  <2> DEFINE r == initializeBlockGuards(g, e)
  <2>1. Initialized(g, e, r)
    BY <1>1, BlockGuardsInitialized
  <2> HIDE DEF r
  <2>2. Leads(e, r) /\ StaysSound(e, r) /\ (r.ok => Owed(r.env))
    BY <1>1, <2>1, LeadsOwed, PreparesSound DEF Initialized, Prepares
  <2>3. Departed(g, e, r)
    BY <1>1, <2>1, <2>2 DEF Initialized, Departed, Leads, Within, Stays
  <2> QED BY <1>1, <2>3 DEF r
<1>2. CASE e.currentBlockName # NoBlock
  <2> DEFINE r == endBlock(e)
  <2>1. Left(e, r)
    BY <1>2, EndBlockLeaves DEF Running, Healthy
  <2> HIDE DEF r
  <2>2. NoBlock \notin e.finishedBlocks \cup {e.currentBlockName}
    BY <1>2, BlockAssumption DEF Healthy
  <2>3. Departed(g, e, r)
    BY <1>2, <2>1, <2>2 DEF Left, Departed
  <2> QED BY <1>2, <2>3 DEF r
<1> QED BY <1>1, <1>2

\* Block b becomes the current one.
LEMMA EnterHealthy ==
    ASSUME NEW e, Healthy(e), e.currentBlockName \in e.finishedBlocks \cup {NoBlock},
           NEW b \in Block, NEW d, d = [e EXCEPT !.currentBlockName = b]
    PROVE  /\ Healthy(d)
           /\ Grows(e, d)
           /\ d.currentBlockName = b
           /\ d.finishedBlocks = e.finishedBlocks
           /\ d.store = e.store
           /\ Owed(e) => Owed(d)
           /\ Sound(e) => Sound(d)
           /\ d.variablesMappingsPerBlock = e.variablesMappingsPerBlock
<1>1. SameBut(e, d, {"currentBlockName"}) /\ d.currentBlockName = b
  BY DEF Healthy, Shape, SameBut, EnvironmentFields
<1>2. /\ d.variableTypes = e.variableTypes
      /\ d.mutableVariableState = e.mutableVariableState
      /\ d.variablesMappingsPerBlock = e.variablesMappingsPerBlock
      /\ d.variablesValuesPerBlock = e.variablesValuesPerBlock
      /\ d.finishedBlocks = e.finishedBlocks
      /\ d.phiNodeObligations = e.phiNodeObligations
      /\ d.outputVariables = e.outputVariables
      /\ d.mutableVariables = e.mutableVariables
      /\ d.mutableVariableConstraints = e.mutableVariableConstraints
      /\ d.store = e.store
      /\ DOMAIN d = EnvironmentFields
  BY <1>1 DEF SameBut, EnvironmentFields
<1>3. BoundByOwner(d)
  BY <1>1, <1>2, BlockAssumption DEF Healthy, BoundByOwner
<1>4. Healthy(d)
  BY <1>1, <1>2, <1>3 DEF Healthy, Shape, MappingsFit, Mapping, ConstraintsNoted, ObligationsFit
<1>5. Grows(e, d)
  BY <1>2, GrownReflexive DEF Grows, Mapping, Healthy, Shape
<1>6. Sound(e) => Sound(d)
  BY <1>2 DEF Sound, Doomed, Owes, PromisesOwed
<1> QED BY <1>1, <1>2, <1>4, <1>5, <1>6 DEF Owed

\* What holds of the result r of starting block b.
Started(g, e, b, r) ==
    /\ Healthy(r.env)
    /\ Grows(e, r.env)
    /\ r.ok =>
          /\ r.env.currentBlockName = b
          /\ r.env.finishedBlocks = (e.finishedBlocks \cup {e.currentBlockName}) \ {NoBlock}
          /\ b \notin r.env.finishedBlocks
          /\ Owed(r.env)
          /\ Known(e.store) \subseteq Known(r.env.store)
          /\ e.currentBlockName = NoBlock =>
                \A t \in Edges(g) : Announced(g, r.env, t[1], t[2])
          /\ ReachablePredecessors(g, b) \subseteq DOMAIN r.env.variablesMappingsPerBlock
          /\ ReachablePredecessors(g, b) # {} =>
                ReachablePredecessors(g, b) \cap r.env.finishedBlocks # {}
    /\ StaysSound(e, r)

LEMMA StartBlockStarts ==
    ASSUME NEW e, Healthy(e), Owed(e), e.currentBlockName \notin e.finishedBlocks,
           e.currentBlockName = NoBlock => e.finishedBlocks = {} /\ Mentioned(e.store) = {},
           NEW g \in [Block -> Terminators], NEW b \in Block
    PROVE  Started(g, e, b, StartBlock(g, e, b))
<1> DEFINE previous == ReachablePredecessors(g, b)
           left == IF e.currentBlockName = NoBlock THEN initializeBlockGuards(g, e)
                   ELSE endBlock(e)
           entered == [left.env EXCEPT !.currentBlockName = b]
           common == getCommonVariables(g, entered, previous)
           inherited == inheritVariables(g, common.env, previous)
           r == StartBlock(g, e, b)
<1>1. r = IF ~left.ok THEN left
          ELSE IF b \in left.env.finishedBlocks THEN Fail(left.env)
          ELSE IF ~common.ok THEN common ELSE inherited
  <2> HIDE DEF left, common, inherited
  <2> QED BY DEF StartBlock, Then, Fail, left, common, inherited
<1> HIDE DEF r
<1>2. Departed(g, e, left)
  BY Departs
<1> HIDE DEF left
<1>3. CASE ~left.ok
  BY <1>1, <1>2, <1>3 DEF Departed, Started, StaysSound, r
<1>4. CASE left.ok /\ b \in left.env.finishedBlocks
  <2>1. r = Fail(left.env)
    BY <1>1, <1>4
  <2>2. r.env = left.env /\ r.ok = FALSE
    BY <2>1 DEF Fail
  <2> QED BY <1>2, <2>2 DEF Departed, Started, StaysSound, r
<1>5. CASE left.ok /\ b \notin left.env.finishedBlocks
  <2>1. /\ Healthy(entered)
        /\ Grows(left.env, entered)
        /\ entered.currentBlockName = b
        /\ entered.finishedBlocks = left.env.finishedBlocks
        /\ entered.store = left.env.store
        /\ Owed(entered)
        /\ Sound(left.env) => Sound(entered)
        /\ entered.variablesMappingsPerBlock = left.env.variablesMappingsPerBlock
    <3>1. left.env.currentBlockName \in left.env.finishedBlocks \cup {NoBlock}
      BY <1>2, <1>5 DEF Departed
    <3> QED BY <1>2, <1>5, <3>1, EnterHealthy DEF Departed
  <2> HIDE DEF entered
  <2>2. Running(entered) /\ previous \in SUBSET Block
    BY <1>5, <2>1 DEF Running, ReachablePredecessors, Reach
  <2>3. Prepared(entered, common, previous)
    <3> HIDE DEF previous
    <3> QED BY <2>1, <2>2, CommonVariablesPrepared
  <2> HIDE DEF common, previous
  <2>4. Grows(e, entered) /\ Stays(entered, common.env) /\ Grows(e, common.env)
    <3>1. e.finishedBlocks \subseteq Block /\ Grows(e, left.env) /\ Stays(entered, common.env)
      BY <1>2, <2>3 DEF Departed, Prepared, Advances, Healthy
    <3> QED BY <2>1, <3>1, GrowsTransitive DEF Stays
  <2>5. CASE ~common.ok
    <3>1. r = common
      BY <1>1, <1>5, <2>5
    <3> QED BY <2>3, <2>4, <2>5, <3>1 DEF Prepared, Advances, Started, StaysSound, r
  <2>6. CASE common.ok
    <3>1. Healthy(common.env) /\ Running(common.env) /\ Owed(common.env)
      BY <2>2, <2>3, <2>6, RunningStays DEF Prepared, Advances
    <3>2. Keeps(common.env, inherited)
      BY <2>2, <3>1, InheritKeeps
    <3> HIDE DEF inherited
    <3>3. r = inherited
      BY <1>1, <1>5, <2>6
    <3>4. Advances(entered, inherited)
      BY <2>1, <2>3, <2>6, <3>1, <3>2, KeepsAdvances, AdvancesTransitive DEF Prepared
    <3>5. Grows(e, inherited.env)
      <4>1. e.finishedBlocks \subseteq Block
        BY DEF Healthy
      <4> QED BY <2>4, <3>4, <4>1, GrowsTransitive DEF Advances, Stays
    <3>6. ASSUME inherited.ok
          PROVE  /\ inherited.env.currentBlockName = b
                 /\ inherited.env.finishedBlocks = left.env.finishedBlocks
                 /\ Owed(inherited.env)
                 /\ Known(e.store) \subseteq Known(inherited.env.store)
                 /\ previous \subseteq DOMAIN inherited.env.variablesMappingsPerBlock
                 /\ previous # {} => previous \cap inherited.env.finishedBlocks # {}
      <4>1. Known(e.store) \subseteq Known(entered.store)
        BY <1>2, <1>5, <2>1 DEF Departed
      <4>2. previous \subseteq DOMAIN inherited.env.variablesMappingsPerBlock
        BY <2>3, <2>6, <3>2 DEF Prepared, Keeps, Leads, Within, Stays, Grows
      <4> QED BY <2>1, <2>3, <2>6, <3>4, <3>6, <4>1, <4>2 DEF Advances, Stays, Prepared
    <3>7. ASSUME inherited.ok, e.currentBlockName = NoBlock, NEW t \in Edges(g)
          PROVE  Announced(g, inherited.env, t[1], t[2])
      <4>1. Announced(g, left.env, t[1], t[2])
        BY <1>2, <1>5, <3>7 DEF Departed
      <4>2. Announced(g, entered, t[1], t[2])
        BY <2>1, <4>1 DEF Announced
      <4> QED BY <3>4, <3>7, <4>2 DEF Announced, Advances, Stays, Grows
    <3>8. StaysSound(e, inherited)
      BY <1>2, <1>5, <2>1, <3>4 DEF Departed, Advances, StaysSound
    <3> QED BY <1>2, <1>5, <3>3, <3>4, <3>5, <3>6, <3>7, <3>8
            DEF Departed, Advances, Started, r, previous
  <2> QED BY <2>5, <2>6
<1> QED BY <1>3, <1>4, <1>5

--------------------------------------------------------------------------------
\* The inductive invariant holds at first.
LEMMA InitInv == Init => Inv
<1> SUFFICES ASSUME Init  PROVE Inv
  OBVIOUS
<1> DEFINE e == EmptyEnvironment
<1>1. /\ e.currentBlockName = NoBlock
      /\ e.variableTypes = << >>
      /\ e.mutableVariableState = [v \in Variable |-> 1]
      /\ e.variablesMappingsPerBlock = << >>
      /\ e.variablesValuesPerBlock = [b \in Block |-> {}]
      /\ e.finishedBlocks = {}
      /\ e.phiNodeObligations = [b \in Block |-> << >>]
      /\ e.outputVariables = {}
      /\ e.mutableVariables = {}
      /\ Bound(e.store) = {}
      /\ Shape(e)
  BY EmptyShape DEF EmptyEnvironment, EmptyStore, Bound
<1>2. env = e
  BY DEF Init
<1> HIDE DEF e
<1>3. MappingsFit(e) /\ ConstraintsNoted(e) /\ BoundByOwner(e)
  BY <1>1 DEF MappingsFit, ConstraintsNoted, BoundByOwner, Mapping
<1>4. ObligationsFit(e)
  <2>1. << >> \in Seq(Obligations) /\ DOMAIN << >> = {}
    OBVIOUS
  <2> QED BY <1>1, <2>1 DEF ObligationsFit
<1>5. Healthy(e)
  BY <1>1, <1>3, <1>4 DEF Healthy
<1>6. <<succ, used>> \in Programs
  <2>1. PICK p \in Programs : succ = p[1] /\ used = p[2]
    BY DEF Init
  <2>2. p = <<succ, used>>
    BY <2>1, ProgramsAssumption
  <2> QED BY <2>2
<1>7. EnvironmentInv
  BY <1>2, <1>5, <1>6 DEF Init, EnvironmentInv
<1>8. OpenInv
  BY <1>1, <1>2 DEF OpenInv, Current, Finished, e
<1>9. KnownInv /\ EmittedInv /\ MappedInv
  BY <1>1, <1>2 DEF Init, KnownInv, EmittedInv, MappedInv, Current
<1>10. InputsVisibleEverywhere
  BY RolesAssumption DEF Init, InputsVisibleEverywhere
<1> QED BY <1>7, <1>8, <1>9, <1>10 DEF Inv

LEMMA EmptyMentions == Mentioned(EmptyEnvironment.store) = {}
<1>1. /\ EmptyEnvironment.store.constraintNameMapping = << >>
      /\ EmptyEnvironment.store.wellFormednessConstraintsMapping = << >>
  BY DEF EmptyEnvironment, EmptyStore
<1> QED BY <1>1 DEF Mentioned, MentionedIn

LEMMA InitSound == Init => SoundInv
<1> SUFFICES ASSUME Init  PROVE Sound(EmptyEnvironment)
  BY DEF Init, SoundInv
<1>1. Promised(EmptyEnvironment.store) = {}
  BY DEF EmptyEnvironment, EmptyStore, Promised
<1> QED BY <1>1, EmptyMentions DEF Sound, Live, PromisesOwed

LEMMA ProgramFacts ==
    ASSUME Inv
    PROVE  /\ succ \in [Block -> Terminators]
           /\ succ \in [Block -> Seq(Block)]
           /\ used \subseteq Variable
<1>1. <<succ, used>> \in Programs
  BY DEF Inv, EnvironmentInv
<1>2. succ \in [Block -> Terminators] /\ used \subseteq Variable
  BY <1>1, ProgramsAssumption
<1> QED BY <1>2, TerminatorsAreSequences

LEMMA OpenFacts ==
    ASSUME Inv, outcome = "open", Current # NoBlock
    PROVE  Healthy(env) /\ Running(env) /\ Owed(env)
BY DEF Inv, EnvironmentInv, OpenInv, KnownInv, Healthy, Running, Current, Finished

\* An input written in the current block becomes visible in all blocks.
LEMMA InputsStayVisible ==
    ASSUME Inv, outcome = "open", Current \in Block, Grows(env, env'), succ' = succ,
           \A w \in Inputs :
              \/ writtenIn'[w] = writtenIn[w]
              \/ /\ writtenIn'[w] = writtenIn[w] \cup {Current}
                 /\ \A b \in DOMAIN env.variablesMappingsPerBlock \cup {Current} :
                       w \in DOMAIN Mapping(env', b)
    PROVE  InputsVisibleEverywhere'
<1> SUFFICES ASSUME NEW w \in Inputs, writtenIn'[w] \cap Reach(succ, Entry) # {},
                    NEW b \in Reach(succ, Entry)
             PROVE  w \in DOMAIN Mapping(env', b)
  BY DEF InputsVisibleEverywhere
<1>1. b \in Block
  BY DEF Reach
<1>2. CASE writtenIn[w] \cap Reach(succ, Entry) # {}
  BY <1>1, <1>2 DEF Inv, InputsVisibleEverywhere, Grows
<1>3. CASE writtenIn[w] \cap Reach(succ, Entry) = {}
  <2>1. /\ Current \in Reach(succ, Entry)
        /\ \A c \in DOMAIN env.variablesMappingsPerBlock \cup {Current} :
              w \in DOMAIN Mapping(env', c)
    BY <1>3
  <2>2. Current # NoBlock
    BY BlockAssumption
  <2>3. b \in DOMAIN env.variablesMappingsPerBlock \cup {Current}
    <3>1. CASE b # Entry
      BY <2>2, <3>1 DEF Inv, MappedInv
    <3>2. CASE b = Entry /\ Current # Entry
      BY <2>1, <2>2, <3>2 DEF Inv, MappedInv
    <3> QED BY <3>1, <3>2
  <2> QED BY <2>1, <2>3
<1> QED BY <1>2, <1>3

\* What every action does, but for the phi nodes that a client creates.
Preserved == Inv' /\ Grows(env, env') /\ (SoundInv => SoundInv')

\* A call within a block.
LEMMA CallInv ==
    ASSUME Inv, Current # NoBlock, NEW op, Call(op), Leads(env, op),
           writtenIn' \in [Variable -> SUBSET (Block \cup {NoBlock})],
           op.ok => \A w \in Inputs :
              \/ writtenIn'[w] = writtenIn[w]
              \/ /\ writtenIn'[w] = writtenIn[w] \cup {Current}
                 /\ \A b \in DOMAIN env.variablesMappingsPerBlock \cup {Current} :
                       w \in DOMAIN Mapping(op.env, b)
    PROVE  Inv' /\ Grows(env, env') /\ (StaysSound(env, op) => Preserved)
<1>1. /\ outcome = "open" /\ env' = op.env /\ succ' = succ /\ used' = used
      /\ outcome' = IF op.ok THEN "open" ELSE "error"
  BY DEF Call
<1>2. Healthy(env) /\ Running(env) /\ Owed(env)
  BY <1>1, OpenFacts
<1>3. Healthy(env') /\ Stays(env, env') /\ Grows(env, env')
  BY <1>1 DEF Leads, Within, Stays
<1>4. EnvironmentInv'
  BY <1>1, <1>3 DEF Inv, EnvironmentInv
<1>5. ASSUME ~op.ok  PROVE Inv'
  BY <1>1, <1>3, <1>4, <1>5
     DEF Inv, OpenInv, KnownInv, EmittedInv, MappedInv, InputsVisibleEverywhere
<1>6. ASSUME op.ok  PROVE Inv'
  <2>1. Current' = Current /\ Finished' = Finished /\ Current \in Block \ Finished
    BY <1>2, <1>3 DEF Stays, Current, Finished, Running
  <2>2. OpenInv' /\ EmittedInv'
    BY <1>1, <1>6, <2>1 DEF OpenInv, EmittedInv
  <2>3. KnownInv'
    <3>1. Owed(env') /\ Known(env.store) \subseteq Known(env'.store)
      BY <1>1, <1>2, <1>6, LeadsOwed
    <3>2. \A t \in Edges(succ) : TransitionGuard(t[1], t[2]) \in Known(env.store)
      BY <1>1 DEF Inv, KnownInv
    <3> QED BY <1>1, <3>1, <3>2 DEF KnownInv
  <2>4. MappedInv'
    BY <1>1, <1>3, <2>1 DEF Inv, MappedInv, Grows
  <2>5. InputsVisibleEverywhere'
    BY <1>1, <1>3, <1>6, <2>1, InputsStayVisible
  <2> QED BY <1>3, <1>4, <2>2, <2>3, <2>4, <2>5 DEF Inv
<1>7. StaysSound(env, op) /\ SoundInv => SoundInv'
  BY <1>1 DEF StaysSound, SoundInv
<1> QED BY <1>3, <1>5, <1>6, <1>7 DEF Preserved

\* A call that may write variable v; other inputs are not concerned.
LEMMA WriteInv ==
    ASSUME Inv, Current # NoBlock, NEW v \in Variable, NEW op, Write(v, op), Leads(env, op),
           op.ok /\ v \in Inputs =>
              \A b \in DOMAIN env.variablesMappingsPerBlock \cup {Current} :
                 v \in DOMAIN Mapping(op.env, b)
    PROVE  Inv' /\ Grows(env, env') /\ (StaysSound(env, op) => Preserved)
<1>1. /\ Call(op)
      /\ outcome' = IF op.ok THEN "open" ELSE "error"
      /\ writtenIn' = IF op.ok THEN [writtenIn EXCEPT ![v] = @ \cup {Current}] ELSE writtenIn
  BY DEF Write, Call
<1>2. writtenIn \in [Variable -> SUBSET (Block \cup {NoBlock})] /\ Current \in Block \cup {NoBlock}
  BY DEF Inv, EnvironmentInv, Healthy, Current
<1>3. writtenIn' \in [Variable -> SUBSET (Block \cup {NoBlock})]
  BY <1>1, <1>2
<1>4. Inputs \subseteq Variable
  BY RolesAssumption
<1>5. ASSUME op.ok, NEW w \in Inputs
      PROVE  \/ writtenIn'[w] = writtenIn[w]
             \/ /\ writtenIn'[w] = writtenIn[w] \cup {Current}
                /\ \A b \in DOMAIN env.variablesMappingsPerBlock \cup {Current} :
                      w \in DOMAIN Mapping(op.env, b)
  BY <1>1, <1>2, <1>4, <1>5
<1> QED BY <1>1, <1>3, <1>5, CallInv

\* One lemma for each action: it keeps the invariant, and takes nothing back.
LEMMA CreateVariableInv ==
    ASSUME Inv, Current # NoBlock, outcome = "open", NEW v \in Variable, CreateVariable(v)
    PROVE  Preserved
<1>1. Healthy(env) /\ Running(env)
  BY OpenFacts
<1>2. CASE v \in Inputs /\ Write(v, CreateImmutableInputVariable(env, v, TypeOf[v], Constraints(v)))
  <2> DEFINE op == CreateImmutableInputVariable(env, v, TypeOf[v], Constraints(v))
  <2>1. VisibleEverywhere(env, op, v)
    BY <1>1, CreateInputKeeps
  <2>2. Write(v, op)
    BY <1>2
  <2> HIDE DEF op
  <2>3. Leads(env, op) /\ StaysSound(env, op)
    BY <2>1, KeepsSound DEF VisibleEverywhere, Keeps
  <2>4. op.ok => \A b \in DOMAIN env.variablesMappingsPerBlock \cup {Current} :
                    v \in DOMAIN Mapping(op.env, b)
    BY <2>1 DEF VisibleEverywhere, Current
  <2> QED BY <2>2, <2>3, <2>4, WriteInv
<1>3. CASE v \in Outputs /\ Write(v, CreateMutableOutputVariable(env, v, TypeOf[v], Constraints(v)))
  <2> DEFINE op == CreateMutableOutputVariable(env, v, TypeOf[v], Constraints(v))
  <2>1. Keeps(env, op)
    BY <1>1, <1>3, CreateOutputKeeps
  <2>2. Write(v, op) /\ v \notin Inputs
    BY <1>3, RolesAssumption
  <2> HIDE DEF op
  <2> QED BY <2>1, <2>2, KeepsSound, WriteInv DEF Keeps
<1>4. ASSUME NEW x \in Expressions, v \in Mutables,
             Write(v, CreateMutableVariable(env, v, TypeOf[v], Constraints(v), x))
      PROVE  Preserved
  <2> DEFINE op == CreateMutableVariable(env, v, TypeOf[v], Constraints(v), x)
  <2>1. Keeps(env, op)
    BY <1>1, <1>4, CreateMutableKeeps
  <2>2. Write(v, op) /\ v \notin Inputs
    BY <1>4, RolesAssumption
  <2> HIDE DEF op
  <2> QED BY <2>1, <2>2, KeepsSound, WriteInv DEF Keeps
<1>5. ASSUME NEW x \in Expressions, v \in Immutables,
             Write(v, CreateImmutableVariable(env, v, TypeOf[v], Constraints(v), x))
      PROVE  Preserved
  <2> DEFINE op == CreateImmutableVariable(env, v, TypeOf[v], Constraints(v), x)
  <2>1. Keeps(env, op)
    <3>1. Assignable(env, v, v, Constraints(v))
      BY MayBindOwn DEF Assignable, Values, Keys
    <3> QED BY <1>1, <3>1, CreateImmutableKeeps
  <2>2. Write(v, op) /\ v \notin Inputs
    BY <1>5, RolesAssumption
  <2> HIDE DEF op
  <2> QED BY <2>1, <2>2, KeepsSound, WriteInv DEF Keeps
<1> QED BY <1>2, <1>3, <1>4, <1>5 DEF CreateVariable

LEMMA AssignInv ==
    ASSUME Inv, Current # NoBlock, outcome = "open", NEW v \in Variable, Assign(v)
    PROVE  Preserved
<1>1. PICK x \in Expressions : Write(v, AssignMutableVariable(env, v, x))
  BY DEF Assign
<1> DEFINE op == AssignMutableVariable(env, v, x)
<1>2. Keeps(env, op) /\ (op.ok => v \in Outputs \cup Mutables)
  BY OpenFacts, AssignKeeps
<1>3. Write(v, op)
  BY <1>1
<1> HIDE DEF op
<1>4. op.ok => v \notin Inputs
  BY <1>2, RolesAssumption
<1> QED BY <1>2, <1>3, <1>4, KeepsSound, WriteInv DEF Keeps

\* The sources that a client promises are no names of the environment.
LEMMA SourcesSound ==
    ASSUME NEW e, NEW r, Leads(e, r), NEW sources, NEW S, PromisesSources(e, sources, S, r),
           FreshSources(e, sources, S), \A p \in S : sources[p] \in Variable
    PROVE  StaysSound(e, r)
<1> SUFFICES ASSUME r.ok, Sound(e)  PROVE Sound(r.env)
  BY DEF StaysSound
<1>1. /\ Promised(r.env.store) \subseteq Promised(e.store) \cup Variable
      /\ Live(e.store) => Live(r.env.store)
  BY DEF PromisesSources
<1>2. r.env.phiNodeObligations = e.phiNodeObligations
  BY DEF Leads, Within
<1>3. \A b \in Block, v \in Variable : FuturePhi(b, v) \notin Variable
  BY NamesAssumption DEF Futures
<1>4. PromisesOwed(r.env)
  BY <1>1, <1>2, <1>3 DEF Sound, PromisesOwed, Owes
<1> QED BY <1>1, <1>2, <1>4 DEF Sound, Doomed

LEMMA PhiInv ==
    ASSUME Inv, Current # NoBlock, outcome = "open", NEW v \in Variable, NEW s \in Sources, Phi(v, s)
    PROVE  /\ Inv' /\ Grows(env, env')
           /\ s \in OrderlySources => Preserved
<1> DEFINE op == CreatePhiNode(succ, env, v, TypeOf[v], s)
           missing == {p \in DOMAIN s : s[p] \notin DOMAIN Mapping(env, p)}
<1>1. v \in Phis /\ v \notin Inputs /\ Write(v, op)
  BY RolesAssumption DEF Phi
<1>2. DOMAIN s \subseteq Block /\ \A p \in DOMAIN s : s[p] \in Variable
  BY ProgramFacts DEF Sources, ReachablePredecessors, Reach
<1>3. Leads(env, op) /\ PromisesSources(env, s, missing, op)
  <2>1. v \in Values /\ MayBind(env, v)
    BY MayBindOwn DEF Values, Keys
  <2> QED BY <1>1, <1>2, <2>1, OpenFacts, PhiNodeInternalLeads DEF CreatePhiNode
<1> HIDE DEF op
<1>4. ASSUME s \in OrderlySources  PROVE StaysSound(env, op)
  <2>1. FreshSources(env, s, missing)
    BY <1>4 DEF OrderlySources, FreshSources
  <2>2. \A p \in missing : s[p] \in Variable
    BY <1>2
  <2> HIDE DEF missing
  <2> QED BY <1>3, <2>1, <2>2, SourcesSound
<1> QED BY <1>1, <1>3, <1>4, WriteInv

LEMMA TerminatorInv ==
    ASSUME Inv, outcome = "open", Terminator
    PROVE  Preserved
<1>1. Current # NoBlock
  BY DEF Terminator
<1>2. PICK b \in Successors(succ, Current) : Jump(b) \/ \E v \in used : Branch(v, b)
  BY DEF Terminator
<1>3. ASSUME NEW op, Call(op), Keeps(env, op), writtenIn' = writtenIn
      PROVE  Preserved
  <2>1. writtenIn' \in [Variable -> SUBSET (Block \cup {NoBlock})]
    BY <1>3 DEF Inv, EnvironmentInv
  <2> QED BY <1>1, <1>3, <2>1, KeepsSound, CallInv DEF Keeps
<1>4. CASE Jump(b)
  <2> DEFINE op == AddJumpInformation(env, b)
  <2>1. Keeps(env, op) /\ Call(op) /\ writtenIn' = writtenIn
    BY <1>1, <1>4, OpenFacts, JumpKeeps DEF Jump
  <2> HIDE DEF op
  <2> QED BY <1>3, <2>1
<1>5. ASSUME NEW v \in used, Branch(v, b)  PROVE Preserved
  <2> DEFINE op == AddBranchInformation(env, v, b)
  <2>1. Keeps(env, op) /\ Call(op) /\ writtenIn' = writtenIn
    BY <1>1, <1>5, OpenFacts, BranchKeeps DEF Branch
  <2> HIDE DEF op
  <2> QED BY <1>3, <2>1
<1> QED BY <1>2, <1>4, <1>5

LEMMA OverflowInv ==
    ASSUME Inv, Overflow
    PROVE  Preserved
<1>1. outcome' = "overflow" /\ succ' = succ /\ used' = used /\ env' = env /\ writtenIn' = writtenIn
  BY DEF Overflow
<1>2. Grows(env, env')
  BY <1>1, GrowsReflexive DEF Inv, EnvironmentInv, Healthy
<1> QED
  BY <1>1, <1>2 DEF Inv, EnvironmentInv, OpenInv, KnownInv, EmittedInv, MappedInv,
                    InputsVisibleEverywhere, SoundInv, Preserved

LEMMA FinishInv ==
    ASSUME Inv, Finish
    PROVE  Preserved
<1> DEFINE left == endBlock(env)
           r == ToStringOrFailure(env)
<1>1. /\ Current # NoBlock /\ outcome = "open" /\ succ' = succ /\ used' = used
      /\ writtenIn' = writtenIn /\ env' = r.env
      /\ outcome' = IF r.ok THEN "emitted" ELSE "error"
  BY DEF Finish
<1>2. Left(env, left)
  BY <1>1, OpenFacts, EndBlockLeaves
<1>3. r.env = left.env /\ (r.ok => left.ok /\ Promised(left.env.store) = {})
  <2> HIDE DEF left
  <2> QED BY DEF ToStringOrFailure, Then, Succeed, Fail, validateNoUninstantiatedFutureBinders, left
<1> HIDE DEF r, left
<1>4. Healthy(env') /\ Grows(env, env') /\ Current' = Current
  BY <1>1, <1>2, <1>3 DEF Left, Current
<1>5. EnvironmentInv'
  BY <1>1, <1>4 DEF Inv, EnvironmentInv
<1>6. OpenInv' /\ MappedInv' /\ InputsVisibleEverywhere'
  BY <1>1 DEF OpenInv, MappedInv, InputsVisibleEverywhere
<1>7. KnownInv' /\ EmittedInv'
  <2>1. CASE ~r.ok
    BY <1>1, <2>1 DEF KnownInv, EmittedInv
  <2>2. CASE r.ok
    <3>1. /\ Owed(env') /\ Known(env.store) \subseteq Known(env'.store)
          /\ Current \in env'.finishedBlocks /\ Promised(env'.store) = {}
      BY <1>1, <1>2, <1>3, <2>2 DEF Left, Current
    <3>2. \A t \in Edges(succ) : TransitionGuard(t[1], t[2]) \in Known(env.store)
      BY <1>1 DEF Inv, KnownInv
    <3> QED BY <1>1, <1>4, <3>1, <3>2 DEF KnownInv, EmittedInv, Finished
  <2> QED BY <2>1, <2>2
<1>8. SoundInv => SoundInv'
  BY <1>1, <1>2, <1>3 DEF Left, StaysSound, SoundInv
<1> QED BY <1>4, <1>5, <1>6, <1>7, <1>8 DEF Inv, Preserved

\* A block that is started, other than the entry, has a finished predecessor.
LEMMA EntryMapped ==
    ASSUME Inv, outcome = "open", NEW b \in Reach(succ, Entry) \ {Entry}, NEW e,
           Started(succ, env, b, [ok |-> TRUE, env |-> e])
    PROVE  Entry \in DOMAIN e.variablesMappingsPerBlock
<1> DEFINE previous == ReachablePredecessors(succ, b)
<1>1. /\ e.finishedBlocks = (env.finishedBlocks \cup {env.currentBlockName}) \ {NoBlock}
      /\ previous \subseteq DOMAIN e.variablesMappingsPerBlock
      /\ previous # {} => previous \cap e.finishedBlocks # {}
      /\ Grows(env, e)
  BY DEF Started
<1>2. previous # {}
  BY ProgramFacts, EntryAssumption, LastEdge DEF ReachablePredecessors
<1>3. PICK p \in previous : p \in e.finishedBlocks
  BY <1>1, <1>2
<1>4. p \in Reach(succ, Entry) /\ p \in Finished \cup {Current} /\ p # NoBlock
  BY <1>1, <1>3, BlockAssumption DEF ReachablePredecessors, Reach, Finished, Current
<1>5. CASE p = Entry
  BY <1>1, <1>5
<1>6. CASE p # Entry
  <2>1. Current # NoBlock
    BY <1>3, <1>4 DEF Inv, OpenInv, EmptyEnvironment, Current, Finished
  <2>2. Entry \in DOMAIN env.variablesMappingsPerBlock
    BY <1>4, <1>6, <2>1 DEF Inv, MappedInv
  <2> QED BY <1>1, <2>2 DEF Grows
<1> QED BY <1>5, <1>6

LEMMA StartStarts ==
    ASSUME Inv, outcome = "open", NEW b \in Block
    PROVE  /\ Started(succ, env, b, StartBlock(succ, env, b))
           /\ Healthy(env) /\ Owed(env) /\ Current \notin Finished
           /\ Current = NoBlock => Finished = {} /\ Mentioned(env.store) = {}
<1> DEFINE r == StartBlock(succ, env, b)
<1>1. Healthy(env) /\ Current \notin Finished
  BY DEF Inv, EnvironmentInv, OpenInv
<1>2. Current = NoBlock => Finished = {} /\ Owed(env) /\ Mentioned(env.store) = {}
  <2>1. ASSUME env = EmptyEnvironment
        PROVE  Finished = {} /\ Owed(env) /\ Mentioned(env.store) = {}
    <3>1. EmptyEnvironment.phiNodeObligations = [c \in Block |-> << >>]
      BY DEF EmptyEnvironment
    <3>2. \A c \in Block : DOMAIN env.phiNodeObligations[c] = {}
      BY <2>1, <3>1
    <3>3. Mentioned(env.store) = {}
      BY <2>1, EmptyMentions
    <3> QED BY <2>1, <3>2, <3>3 DEF EmptyEnvironment, Finished, Owed
  <2> QED BY <2>1 DEF Inv, OpenInv
<1>3. Owed(env)
  BY <1>2, OpenFacts
<1>4. Started(succ, env, b, r)
  <2> HIDE DEF r
  <2> QED BY <1>1, <1>2, <1>3, ProgramFacts, StartBlockStarts DEF r, Current, Finished
<1> QED BY <1>1, <1>2, <1>3, <1>4 DEF r

LEMMA EnterInv ==
    ASSUME Inv, NEW b \in Block, Enter(b)
    PROVE  Preserved
<1> DEFINE r == StartBlock(succ, env, b)
<1>1. /\ outcome = "open" /\ succ' = succ /\ used' = used /\ writtenIn' = writtenIn
      /\ env' = r.env /\ outcome' = IF r.ok THEN "open" ELSE "error"
  BY DEF Enter, Call
<1>2. Started(succ, env, b, r) /\ (Current = NoBlock => Finished = {})
  BY <1>1, StartStarts DEF r
<1> HIDE DEF r
<1>3. Healthy(env') /\ Grows(env, env')
  BY <1>1, <1>2 DEF Started
<1>4. EnvironmentInv'
  BY <1>1, <1>3 DEF Inv, EnvironmentInv
<1>5. ASSUME ~r.ok  PROVE Inv'
  BY <1>1, <1>3, <1>4, <1>5
     DEF Inv, OpenInv, KnownInv, EmittedInv, MappedInv, InputsVisibleEverywhere
<1>6. ASSUME r.ok  PROVE Inv'
  <2>1. /\ env'.currentBlockName = b
        /\ env'.finishedBlocks = (env.finishedBlocks \cup {env.currentBlockName}) \ {NoBlock}
        /\ b \notin env'.finishedBlocks
        /\ Owed(env')
        /\ Known(env.store) \subseteq Known(env'.store)
        /\ env.currentBlockName = NoBlock =>
              \A t \in Edges(succ) : Announced(succ, env', t[1], t[2])
    BY <1>1, <1>2, <1>6 DEF Started
  <2>2. OpenInv' /\ EmittedInv'
    BY <1>1, <1>6, <2>1, BlockAssumption DEF OpenInv, EmittedInv, Current, Finished
  <2>3. KnownInv'
    <3>1. CASE Current = NoBlock
      BY <1>1, <2>1, <3>1 DEF KnownInv, Announced, Current
    <3>2. CASE Current # NoBlock
      BY <1>1, <2>1, <3>2 DEF Inv, KnownInv
    <3> QED BY <3>1, <3>2
  <2>4. ASSUME NEW c \in Reach(succ, Entry) \ {Entry}
        PROVE  c \in DOMAIN env'.variablesMappingsPerBlock
    <3>1. CASE Current = NoBlock
      <4>1. PICK p \in Reach(succ, Entry) : c \in Successors(succ, p)
        BY ProgramFacts, EntryAssumption, LastEdge
      <4>2. p \in Block /\ c \in Block
        BY DEF Reach
      <4>3. <<p, c>> \in Edges(succ)
        BY <4>1, <4>2 DEF Edges
      <4>4. Announced(succ, env', p, c)
        BY <2>1, <3>1, <4>3 DEF Current
      <4>5. c \in Reach(succ, c)
        BY <4>2, ProgramFacts, ReachStep
      <4> QED BY <4>4, <4>5 DEF Announced
    <3>2. CASE Current # NoBlock
      BY <1>1, <1>3, <3>2 DEF Inv, MappedInv, Grows
    <3> QED BY <3>1, <3>2
  <2>5. ASSUME (Finished \cup {Current})' \cap (Reach(succ, Entry) \ {Entry}) # {}
        PROVE  Entry \in DOMAIN env'.variablesMappingsPerBlock
    <3>1. CASE b \in Reach(succ, Entry) \ {Entry}
      <4>1. Started(succ, env, b, [ok |-> TRUE, env |-> env'])
        BY <1>1, <1>2, <1>6 DEF Started, StaysSound
      <4> QED BY <1>1, <3>1, <4>1, EntryMapped
    <3>2. CASE b \notin Reach(succ, Entry) \ {Entry}
      <4>1. (Finished \cup {Current}) \cap (Reach(succ, Entry) \ {Entry}) # {} /\ Current # NoBlock
        <5>1. PICK c \in (Finished \cup {Current})' : c \in Reach(succ, Entry) \ {Entry}
          BY <2>5
        <5>2. c \in Finished \cup {Current} /\ c # NoBlock
          BY <2>1, <3>2, <5>1, BlockAssumption DEF Finished, Current, Reach
        <5> QED BY <1>2, <5>1, <5>2
      <4> QED BY <1>1, <1>3, <4>1 DEF Inv, MappedInv, Grows
    <3> QED BY <3>1, <3>2
  <2>6. MappedInv'
    BY <1>1, <2>4, <2>5 DEF MappedInv
  <2>7. InputsVisibleEverywhere'
    <3> SUFFICES ASSUME NEW w \in Inputs, writtenIn[w] \cap Reach(succ, Entry) # {},
                        NEW c \in Reach(succ, Entry)
                 PROVE  w \in DOMAIN Mapping(env', c)
      BY <1>1 DEF InputsVisibleEverywhere
    <3>1. w \in DOMAIN Mapping(env, c) /\ c \in Block
      BY <1>1 DEF Inv, InputsVisibleEverywhere, Reach
    <3> QED BY <1>3, <3>1 DEF Grows
  <2> QED BY <1>3, <1>4, <2>2, <2>3, <2>6, <2>7 DEF Inv
<1>7. SoundInv => SoundInv'
  BY <1>1, <1>2 DEF Started, StaysSound, SoundInv
<1> QED BY <1>3, <1>5, <1>6, <1>7 DEF Preserved

LEMMA OtherCallInv ==
    ASSUME Inv, OtherCall
    PROVE  Preserved
<1>1. ASSUME NEW b \in Block, Enter(b)  PROVE Preserved
  BY <1>1, EnterInv
<1>2. CASE Statement
  <2>1. PICK v \in used : CreateVariable(v) \/ Assign(v)
    BY <1>2 DEF Statement
  <2>2. v \in Variable /\ Current # NoBlock
    BY <1>2, ProgramFacts DEF Statement, Open
  <2>3. outcome = "open"
    BY <2>1 DEF CreateVariable, Assign, Write, Call
  <2> QED BY <2>1, <2>2, <2>3, CreateVariableInv, AssignInv
<1>3. CASE Terminator
  <2>1. outcome = "open"
    BY <1>3 DEF Terminator, Jump, Branch, Call
  <2> QED BY <1>3, <2>1, TerminatorInv
<1> QED BY <1>1, <1>2, <1>3, OverflowInv, FinishInv DEF OtherCall

LEMMA StutterInv ==
    ASSUME Inv, UNCHANGED vars
    PROVE  Preserved
<1>1. Grows(env, env')
  BY GrowsReflexive DEF Inv, EnvironmentInv, Healthy, vars
<1> QED
  BY <1>1 DEF vars, Inv, EnvironmentInv, OpenInv, KnownInv, EmittedInv, MappedInv,
              InputsVisibleEverywhere, Current, Finished, Preserved, SoundInv

LEMMA NextInv == Inv /\ [Next]_vars => Inv' /\ Grows(env, env')
<1> SUFFICES ASSUME Inv, [Next]_vars  PROVE Inv' /\ Grows(env, env')
  OBVIOUS
<1>1. ASSUME Open, NEW v \in used, NEW s \in Sources, Phi(v, s)  PROVE Inv' /\ Grows(env, env')
  <2>1. v \in Variable /\ Current # NoBlock /\ outcome = "open"
    BY <1>1, ProgramFacts DEF Open, Phi, Write, Call
  <2> QED BY <1>1, <2>1, PhiInv
<1> QED BY <1>1, OtherCallInv, StutterInv DEF Next, Preserved

\* An orderly client keeps more.
LEMMA OrderlyNextInv == Inv /\ SoundInv /\ [OrderlyNext]_vars => Inv' /\ SoundInv'
<1> SUFFICES ASSUME Inv, SoundInv, [OrderlyNext]_vars  PROVE Preserved
  BY DEF Preserved
<1>1. ASSUME Open, NEW v \in used, NEW s \in OrderlySources, Phi(v, s)  PROVE Preserved
  <2>1. v \in Variable /\ Current # NoBlock /\ outcome = "open" /\ s \in Sources
    BY <1>1, ProgramFacts DEF Open, Phi, Write, Call, OrderlySources
  <2> QED BY <1>1, <2>1, PhiInv
<1> QED BY <1>1, OtherCallInv, StutterInv DEF OrderlyNext

--------------------------------------------------------------------------------
\* The inductive invariant holds of every run of any client.
THEOREM InvariantHolds == Spec => []Inv
BY InitInv, NextInv, PTL DEF Spec

\* Every field stays within its type, and a block never maps a variable to a
\* name that is not among its values.
THEOREM TypeCorrect == Spec => []TypeOK
<1>1. Inv => TypeOK
  BY DEF Inv, EnvironmentInv, Healthy, MappingsFit, Fits, ConstraintsNoted, TypeOK, Current, Finished
<1> QED BY <1>1, InvariantHolds, PTL

\* What a finished block maps its variables to is final.
THEOREM FinishedStayFrozen == Spec => FinishedBlocksFrozen
<1>1. Inv /\ [Next]_vars =>
        [\A b \in Finished : \A v \in DOMAIN Mapping(env, b) :
            /\ v \in DOMAIN Mapping(env', b)
            /\ Mapping(env', b)[v] = Mapping(env, b)[v]]_vars
  <2> SUFFICES ASSUME Inv, [Next]_vars, NEW b \in Finished, NEW v \in DOMAIN Mapping(env, b)
               PROVE  /\ v \in DOMAIN Mapping(env', b)
                      /\ Mapping(env', b)[v] = Mapping(env, b)[v]
    OBVIOUS
  <2>1. Grows(env, env') /\ b \in Block
    BY NextInv DEF Inv, EnvironmentInv, Healthy, Finished
  <2> QED BY <2>1 DEF Grows, Finished
<1> QED BY <1>1, InvariantHolds, PTL DEF Spec, FinishedBlocksFrozen

\* An input is visible in every block, whichever block created it.
THEOREM InputsAreVisible == Spec => []InputsVisibleEverywhere
<1>1. Inv => InputsVisibleEverywhere
  BY DEF Inv
<1> QED BY <1>1, InvariantHolds, PTL

\* Whatever value a refined variable ever has answers for its refinement.
THEOREM RefinementsAreChecked == Spec => []RefinementsChecked
<1>1. Inv => RefinementsChecked
  <2> SUFFICES ASSUME Inv, NEW b \in Block, NEW v \in Refined \ Phis, v \in DOMAIN Mapping(env, b)
               PROVE  LET n == Mapping(env, b)[v]
                          constraints == env.store.constraintNameMapping
                      IN  \/ env.store.binderNameMapping[n].qualifiers = Constraints(v)
                          \/ /\ <<"check", n>> \in DOMAIN constraints
                             /\ constraints[<<"check", n>>].targetQualifiers = Constraints(v)
                             /\ constraints[<<"check", n>>].qualifiers =
                                   constraints[<<"assignment", n>>].qualifiers
                          \/ n \in {f[2] : f \in Flows}
    BY DEF RefinementsChecked
  <2> DEFINE n == Mapping(env, b)[v]
             constraints == env.store.constraintNameMapping
  <2>1. Demanded(env.store, v, n)
    BY DEF Inv, EnvironmentInv, Healthy, MappingsFit, Fits
  <2> HIDE DEF n
  <2>2. ASSUME NEW p \in Block, NEW c \in Block, <<"phi", p, c, n>> \in DOMAIN constraints,
               NEW x \in constraints[<<"phi", p, c, n>>].qualifiers, x[2] # {}
        PROVE  \E f \in Flows : f[2] = n
    <3>1. PICK m \in x[2] : TRUE
      BY <2>2
    <3>2. <<m, n>> \in Flows
      BY <2>2, <3>1 DEF Flows
    <3> QED BY <3>2
  <2>3. \/ env.store.binderNameMapping[n].qualifiers = Constraints(v)
        \/ /\ <<"check", n>> \in DOMAIN constraints
           /\ constraints[<<"check", n>>].targetQualifiers = Constraints(v)
           /\ constraints[<<"check", n>>].qualifiers = constraints[<<"assignment", n>>].qualifiers
        \/ \E f \in Flows : f[2] = n
    BY <2>1, <2>2 DEF Demanded
  <2> QED BY <2>3 DEF n
<1> QED BY <1>1, InvariantHolds, PTL

LEMMA EmittedComplete == Inv => NothingSkipped
<1> SUFFICES ASSUME Inv, outcome = "emitted"
             PROVE  /\ \A e \in Edges(succ) : TransitionGuard(e[1], e[2]) \in Bound(env.store)
                    /\ \A b \in Reach(succ, Entry) : succ[b] # << >> => b \in Finished
                    /\ \A b \in Block : env.phiNodeObligations[b] = << >>
  BY DEF NothingSkipped
<1>1. /\ Current \in Finished /\ Finished \subseteq Block /\ Current # NoBlock
      /\ Known(env.store) = Bound(env.store)
  BY BlockAssumption DEF Inv, EnvironmentInv, EmittedInv, Healthy, Known, Current, Finished
<1>2. Owed(env) /\ \A e \in Edges(succ) : TransitionGuard(e[1], e[2]) \in Bound(env.store)
  BY <1>1 DEF Inv, KnownInv
<1>3. \A n \in Bound(env.store) : \A c \in Block :
          \/ \E b \in Block : n = TransitionGuard(c, b)
          \/ \E v \in Variable : n = FuturePhi(c, v)
          => c \in Finished
  BY <1>1 DEF Inv, EnvironmentInv, Healthy, BoundByOwner, Current, Finished
<1>4. ASSUME NEW b \in Reach(succ, Entry), succ[b] # << >>  PROVE b \in Finished
  <2>1. b \in Block /\ succ[b] \in Seq(Block)
    BY ProgramFacts DEF Reach
  <2>2. 1 \in DOMAIN succ[b] /\ succ[b][1] \in Block
    BY <1>4, <2>1
  <2>3. <<b, succ[b][1]>> \in Edges(succ)
    BY <2>1, <2>2 DEF Edges, Successors
  <2>4. TransitionGuard(b, succ[b][1]) \in Bound(env.store)
    BY <1>2, <2>3
  <2> QED BY <1>3, <2>1, <2>2, <2>4
<1>5. ASSUME NEW b \in Block  PROVE env.phiNodeObligations[b] = << >>
  <2> DEFINE owed == env.phiNodeObligations[b]
  <2>1. owed \in Seq(Obligations) /\ (b \in Finished => owed = << >>)
    BY DEF Inv, EnvironmentInv, Healthy, ObligationsFit, Finished
  <2>2. CASE 1 \in DOMAIN owed
    <3>1. \E v \in Variable : owed[1].TargetFutureVariable = FuturePhi(b, v)
      BY <2>2 DEF Inv, EnvironmentInv, Healthy, ObligationsFit
    <3>2. owed[1].TargetFutureVariable \in Bound(env.store)
      BY <1>1, <1>2, <2>2 DEF Owed
    <3> QED BY <1>3, <2>1, <3>1, <3>2
  <2>3. CASE 1 \notin DOMAIN owed
    <3> HIDE DEF owed
    <3>1. owed = << >>
      BY <2>1, <2>3
    <3> QED BY <3>1 DEF owed
  <2> QED BY <2>2, <2>3
<1> QED BY <1>2, <1>4, <1>5

\* A query is written only when every block that can be left was processed and
\* no phi node is owed a value.
THEOREM NothingIsSkipped == Spec => []NothingSkipped
BY EmittedComplete, InvariantHolds, PTL

\* With a client that never names, in a phi node, a variable that has been
\* promised already, every id that an environment mentions is declared in the
\* query that is written.
THEOREM QueryIsClosed == OrderlySpec => []QueryClosed
<1>1. OrderlySpec => [](Inv /\ SoundInv)
  BY InitInv, InitSound, OrderlyNextInv, PTL DEF OrderlySpec
<1>2. Inv /\ SoundInv => QueryClosed
  <2> SUFFICES ASSUME Inv, SoundInv, outcome = "emitted"
               PROVE  Mentioned(env.store) \subseteq
                        {env.store.binderNameMapping[n].id : n \in Bound(env.store)}
    BY DEF QueryClosed, Mentioned, MentionedIn
  <2>1. Promised(env.store) = {}
    BY DEF Inv, EmittedInv
  <2>2. Sound(env)
    BY DEF SoundInv
  <2>3. ~Doomed(env)
    <3>1. \A b \in Block : env.phiNodeObligations[b] = << >>
      BY EmittedComplete DEF NothingSkipped
    <3> QED BY <3>1 DEF Doomed
  <2> QED BY <2>1, <2>2, <2>3 DEF Sound, Live, Ids
<1> QED BY <1>1, <1>2, PTL

--------------------------------------------------------------------------------
\* What flows where in the query of store s: Flows and FlowsTo of any store.
FlowsIn(s) ==
    LET constraints == s.constraintNameMapping
        flowing == {c \in DOMAIN constraints :
                      c[1] = "phi" \/ (c[1] = "assignment" /\ c[2] \in Futures)}
        target(c) == IF c[1] = "phi" THEN c[4] ELSE c[2]
        mentioned(c) == UNION {expression[2] : expression \in constraints[c].qualifiers}
    IN  UNION {mentioned(c) \X {target(c)} : c \in flowing}

Joined(flows, m) == {f[1] : f \in flows} \cup {f[2] : f \in flows} \cup {m}

FlowsBetween(flows, m, n) ==
    \A S \in SUBSET Joined(flows, m) :
        m \in S /\ (\A f \in flows : f[1] \in S => f[2] \in S) => n \in S

LEMMA FlowsAre == /\ Flows = FlowsIn(env.store)
                  /\ \A m, n : FlowsTo(m, n) <=> FlowsBetween(FlowsIn(env.store), m, n)
BY DEF Flows, FlowsIn, FlowsTo, FlowsBetween, Joined

LEMMA FlowSelf == ASSUME NEW flows, NEW m  PROVE FlowsBetween(flows, m, m)
BY DEF FlowsBetween

LEMMA FlowStep == ASSUME NEW flows, NEW m, NEW n, <<m, n>> \in flows  PROVE FlowsBetween(flows, m, n)
BY DEF FlowsBetween

LEMMA FlowTransitive ==
    ASSUME NEW flows, NEW m, NEW n, NEW o, FlowsBetween(flows, m, n), FlowsBetween(flows, n, o)
    PROVE  FlowsBetween(flows, m, o)
<1> SUFFICES ASSUME NEW S \in SUBSET Joined(flows, m), m \in S,
                    \A f \in flows : f[1] \in S => f[2] \in S
             PROVE  o \in S
  BY DEF FlowsBetween
<1>1. n \in S
  BY DEF FlowsBetween
<1> DEFINE T == S \cap Joined(flows, n)
<1>2. T \in SUBSET Joined(flows, n) /\ n \in T
  BY <1>1 DEF Joined
<1>3. \A f \in flows : f[1] \in T => f[2] \in T
  BY DEF Joined
<1>4. o \in T
  <2> HIDE DEF T
  <2> QED BY <1>2, <1>3 DEF FlowsBetween
<1> QED BY <1>4

LEMMA FlowGrows ==
    ASSUME NEW flows, NEW more, flows \subseteq more, NEW m, NEW n, FlowsBetween(flows, m, n)
    PROVE  FlowsBetween(more, m, n)
<1> SUFFICES ASSUME NEW S \in SUBSET Joined(more, m), m \in S,
                    \A f \in more : f[1] \in S => f[2] \in S
             PROVE  n \in S
  BY DEF FlowsBetween
<1> DEFINE T == S \cap Joined(flows, m)
<1>1. T \in SUBSET Joined(flows, m) /\ m \in T
  BY DEF Joined
<1>2. \A f \in flows : f[1] \in T => f[2] \in T
  BY DEF Joined
<1>3. n \in T
  <2> HIDE DEF T
  <2> QED BY <1>1, <1>2 DEF FlowsBetween
<1> QED BY <1>3

LEMMA FlowsGrow == ASSUME NEW s, NEW t, Grown(s, t)  PROVE FlowsIn(s) \subseteq FlowsIn(t)
BY DEF FlowsIn, Grown

\* The constraints that make one name flow into another.
LEMMA PhiFlows ==
    ASSUME NEW s, NEW p, NEW b, NEW m, NEW n,
           <<"phi", p, b, n>> \in DOMAIN s.constraintNameMapping,
           s.constraintNameMapping[<<"phi", p, b, n>>].qualifiers = {Over({m})}
    PROVE  <<m, n>> \in FlowsIn(s)
<1> DEFINE c == <<"phi", p, b, n>>
<1>1. c[1] = "phi" /\ c[4] = n
  OBVIOUS
<1>2. \E x \in s.constraintNameMapping[c].qualifiers : m \in x[2]
  BY DEF Over
<1>3. c \in DOMAIN s.constraintNameMapping
  OBVIOUS
<1> HIDE DEF c
<1> QED BY <1>1, <1>2, <1>3 DEF FlowsIn

LEMMA AssignmentFlows ==
    ASSUME NEW s, NEW m, NEW n \in Futures,
           <<"assignment", n>> \in DOMAIN s.constraintNameMapping,
           s.constraintNameMapping[<<"assignment", n>>].qualifiers = {Over({m})}
    PROVE  <<m, n>> \in FlowsIn(s)
<1> DEFINE c == <<"assignment", n>>
<1>1. c[1] = "assignment" /\ c[2] = n /\ c[1] # "phi"
  OBVIOUS
<1>2. \E x \in s.constraintNameMapping[c].qualifiers : m \in x[2]
  BY DEF Over
<1>3. c \in DOMAIN s.constraintNameMapping
  OBVIOUS
<1> HIDE DEF c
<1> QED BY <1>1, <1>2, <1>3 DEF FlowsIn

--------------------------------------------------------------------------------
Avoiding(g, S) == [c \in Block |-> IF c \in S THEN << >> ELSE g[c]]

LEMMA AvoidsIs ==
    ASSUME NEW g \in [Block -> Seq(Block)], NEW S
    PROVE  /\ Avoiding(g, S) \in [Block -> Seq(Block)]
           /\ \A c \in Block : Successors(Avoiding(g, S), c) = IF c \in S THEN {} ELSE Successors(g, c)
           /\ \A b : Avoids(g, S, b) <=> Entry \notin S /\ b \notin S /\ b \in Reach(Avoiding(g, S), Entry)
<1> DEFINE h == Avoiding(g, S)
<1>1. h \in [Block -> Seq(Block)] /\ \A c \in Block : h[c] = IF c \in S THEN << >> ELSE g[c]
  <2>1. << >> \in Seq(Block)
    OBVIOUS
  <2> QED BY <2>1 DEF Avoiding
<1>2. \A b : Avoids(g, S, b) <=> Entry \notin S /\ b \notin S /\ b \in Reach(h, Entry)
  BY DEF Avoids, Avoiding
<1> HIDE DEF h
<1>3. ASSUME NEW c \in Block, c \in S  PROVE Successors(h, c) = {}
  <2>1. h[c] = << >>
    BY <1>1, <1>3
  <2> QED BY <2>1 DEF Successors
<1>4. ASSUME NEW c \in Block, c \notin S  PROVE Successors(h, c) = Successors(g, c)
  <2>1. h[c] = g[c]
    BY <1>1, <1>4
  <2> QED BY <2>1 DEF Successors
<1> QED BY <1>1, <1>2, <1>3, <1>4 DEF h

\* A way to p that avoids S goes on to a successor of p.
LEMMA AvoidsStep ==
    ASSUME NEW g \in [Block -> Seq(Block)], NEW S, NEW p, Avoids(g, S, p),
           NEW b \in Successors(g, p), b \notin S
    PROVE  Avoids(g, S, b)
<1> DEFINE h == Avoiding(g, S)
<1>1. /\ h \in [Block -> Seq(Block)]
      /\ Entry \notin S /\ p \notin S /\ p \in Reach(h, Entry)
      /\ \A c \in Block : Successors(h, c) = IF c \in S THEN {} ELSE Successors(g, c)
  BY AvoidsIs
<1> HIDE DEF h
<1>2. p \in Block /\ Successors(h, p) \subseteq Reach(h, Entry)
  BY <1>1, ReachStep, EntryAssumption
<1>3. b \in Reach(h, Entry)
  BY <1>1, <1>2
<1> QED BY <1>1, <1>3, AvoidsIs DEF h

LEMMA AvoidsEntry ==
    ASSUME NEW g \in [Block -> Seq(Block)], NEW S, Entry \notin S
    PROVE  Avoids(g, S, Entry)
BY AvoidsIs, ReachStep, EntryAssumption

\* It came through a predecessor, unless it ends in the entry.
LEMMA AvoidsLast ==
    ASSUME NEW g \in [Block -> Seq(Block)], NEW S, NEW b, Avoids(g, S, b), b # Entry
    PROVE  \E p \in ReachablePredecessors(g, b) : p # b /\ Avoids(g, S, p)
<1> DEFINE h == Avoiding(g, S)
<1>1. /\ h \in [Block -> Seq(Block)]
      /\ Entry \notin S /\ b \notin S /\ b \in Reach(h, Entry)
      /\ \A c \in Block : Successors(h, c) = IF c \in S THEN {} ELSE Successors(g, c)
      /\ \A c : Avoids(g, S, c) <=> Entry \notin S /\ c \notin S /\ c \in Reach(h, Entry)
  BY AvoidsIs
<1> HIDE DEF h
<1>2. PICK p \in Reach(h, Entry) : p # b /\ b \in Successors(h, p)
  BY <1>1, LastEdge, EntryAssumption
<1>3. p \in Block /\ p \notin S /\ b \in Successors(g, p)
  BY <1>1, <1>2, ReachStep, EntryAssumption
<1>4. Reach(h, Entry) \subseteq Reach(g, Entry)
  <2>1. Reach(g, Entry) \in SUBSET Block /\ Entry \in Reach(g, Entry) /\ Closed(g, Reach(g, Entry))
    BY ReachStep, EntryAssumption DEF Closed
  <2>2. Closed(h, Reach(g, Entry))
    BY <1>1, <2>1 DEF Closed
  <2> QED BY <2>1, <2>2, ReachLeast
<1> QED BY <1>1, <1>2, <1>3, <1>4 DEF ReachablePredecessors

\* What avoids more avoids less.
LEMMA AvoidsLess ==
    ASSUME NEW g \in [Block -> Seq(Block)], NEW S, NEW T, T \cap Block \subseteq S, NEW b \in Block,
           Avoids(g, S, b)
    PROVE  Avoids(g, T, b)
<1> DEFINE h == Avoiding(g, S)
           k == Avoiding(g, T)
<1>1. /\ h \in [Block -> Seq(Block)] /\ k \in [Block -> Seq(Block)]
      /\ Entry \notin S /\ b \notin S /\ b \in Reach(h, Entry)
      /\ \A c \in Block : Successors(h, c) = IF c \in S THEN {} ELSE Successors(g, c)
      /\ \A c \in Block : Successors(k, c) = IF c \in T THEN {} ELSE Successors(g, c)
  BY AvoidsIs
<1> HIDE DEF h, k
<1>2. Reach(k, Entry) \in SUBSET Block /\ Entry \in Reach(k, Entry) /\ Closed(k, Reach(k, Entry))
  BY <1>1, ReachStep, EntryAssumption DEF Closed
<1>3. Closed(h, Reach(k, Entry))
  BY <1>1, <1>2 DEF Closed
<1>4. b \in Reach(k, Entry)
  BY <1>1, <1>2, <1>3, ReachLeast
<1> QED BY <1>1, <1>4, AvoidsIs, EntryAssumption DEF k

\* A way to b that avoids S passes the blocks that dominate b.
LEMMA DominatorAvoids ==
    ASSUME NEW g \in [Block -> Seq(Block)], NEW S, NEW p \in Block, NEW b \in Block,
           Dominates(g, p, b), Avoids(g, S, b)
    PROVE  Avoids(g, S, p)
<1> DEFINE h == Avoiding(g, S)
           k == Avoiding(g, {p})
<1>1. /\ h \in [Block -> Seq(Block)] /\ k \in [Block -> Seq(Block)]
      /\ Entry \notin S /\ b \notin S /\ b \in Reach(h, Entry)
      /\ \A c \in Block : Successors(h, c) = IF c \in S THEN {} ELSE Successors(g, c)
      /\ \A c \in Block : Successors(k, c) = IF c \in {p} THEN {} ELSE Successors(g, c)
      /\ \A c : Avoids(g, S, c) <=> Entry \notin S /\ c \notin S /\ c \in Reach(h, Entry)
      /\ Entry = p \/ b = p \/ b \notin Reach(k, Entry)
  BY AvoidsIs DEF Dominates
<1> HIDE DEF h, k
<1> SUFFICES ASSUME ~Avoids(g, S, p)  PROVE FALSE
  OBVIOUS
<1>2. p # Entry /\ p # b
  BY <1>1, AvoidsEntry
<1>3. p \in S \/ p \notin Reach(h, Entry)
  BY <1>1
<1>4. Reach(k, Entry) \in SUBSET Block /\ Entry \in Reach(k, Entry) /\ Closed(k, Reach(k, Entry))
  BY <1>1, ReachStep, EntryAssumption DEF Closed
<1> DEFINE R == (Reach(k, Entry) \cap Reach(h, Entry))
<1>5. R \in SUBSET Block /\ Entry \in R
  BY <1>1, <1>4, ReachStep, EntryAssumption
<1>6. Closed(h, R)
  <2> SUFFICES ASSUME NEW c \in R, NEW d \in Successors(h, c)  PROVE d \in R
    BY DEF Closed
  <2>1. d \in Reach(h, Entry) /\ c \in Block
    BY <1>1, <1>5, ReachStep, EntryAssumption
  <2>2. c # p
    BY <1>1, <1>3
  <2> QED BY <1>1, <1>4, <2>1, <2>2 DEF Closed
<1>7. b \in R
  <2> HIDE DEF R
  <2> QED BY <1>1, <1>5, <1>6, ReachLeast
<1> QED BY <1>1, <1>2, <1>7

--------------------------------------------------------------------------------
\* Block p owes the value of v to a phi node.
Due(e, p, v) ==
    \E i \in DOMAIN e.phiNodeObligations[p] :
        e.phiNodeObligations[p][i] = [VariableSource |-> v, TargetFutureVariable |-> FuturePhi(p, v)]

\* From e to d only the mappings of the variables in T, pairs of a block and a
\* variable, may have changed; what is in the query, and what is due, stays.
Alters(e, d, T) ==
    /\ Shape(d)
    /\ d.currentBlockName = e.currentBlockName
    /\ d.finishedBlocks = e.finishedBlocks
    /\ Grown(e.store, d.store)
    /\ \A p \in Block, v \in Variable : Due(e, p, v) => Due(d, p, v)
    /\ \A c \in Block : \A x : <<c, x>> \notin T =>
          /\ x \in DOMAIN Mapping(d, c) <=> x \in DOMAIN Mapping(e, c)
          /\ x \in DOMAIN Mapping(e, c) => Mapping(d, c)[x] = Mapping(e, c)[x]

SameRoles(e, d) ==
    d.outputVariables = e.outputVariables /\ d.mutableVariables = e.mutableVariables

Kept(e, d, T) == Alters(e, d, T) /\ SameRoles(e, d)

LEMMA KeptSame ==
    ASSUME NEW e, Shape(e)
    PROVE  Kept(e, e, {})
BY GrownReflexive DEF Kept, Alters, SameRoles, Shape

LEMMA AltersMore ==
    ASSUME NEW e, NEW d, NEW S, NEW T, S \subseteq T, Alters(e, d, S)
    PROVE  Alters(e, d, T)
<1>1. \A x, c : <<c, x>> \notin T => <<c, x>> \notin S
  OBVIOUS
<1> QED BY <1>1 DEF Alters

LEMMA AltersTransitive ==
    ASSUME NEW d, NEW e, NEW f, NEW T, Alters(d, e, T), Alters(e, f, T)
    PROVE  Alters(d, f, T)
<1>1. Grown(d.store, f.store)
  BY GrownTransitive DEF Alters
<1>2. \A p \in Block, v \in Variable : Due(d, p, v) => Due(f, p, v)
  BY DEF Alters
<1>3. \A c \in Block : \A x : <<c, x>> \notin T =>
          /\ x \in DOMAIN Mapping(f, c) <=> x \in DOMAIN Mapping(d, c)
          /\ x \in DOMAIN Mapping(d, c) => Mapping(f, c)[x] = Mapping(d, c)[x]
  BY DEF Alters
<1> QED BY <1>1, <1>2, <1>3 DEF Alters

LEMMA KeptMore ==
    ASSUME NEW e, NEW d, NEW S, NEW T, S \subseteq T, Kept(e, d, S)
    PROVE  Kept(e, d, T)
BY AltersMore DEF Kept

LEMMA KeptTransitive ==
    ASSUME NEW d, NEW e, NEW f, NEW T, Kept(d, e, T), Kept(e, f, T)
    PROVE  Kept(d, f, T)
BY AltersTransitive DEF Kept, SameRoles

\* A step that touches neither the mappings nor the current block.
LEMMA FieldsKept ==
    ASSUME NEW e, Shape(e), NEW d,
           SameBut(e, d, {"store", "variableTypes", "mutableVariableState",
                          "mutableVariableConstraints", "outputVariables", "mutableVariables"}),
           Grown(e.store, d.store)
    PROVE  Alters(e, d, {})
<1>1. /\ d.currentBlockName = e.currentBlockName
      /\ d.variablesMappingsPerBlock = e.variablesMappingsPerBlock
      /\ d.finishedBlocks = e.finishedBlocks
      /\ d.phiNodeObligations = e.phiNodeObligations
      /\ DOMAIN d = EnvironmentFields
  BY DEF SameBut, EnvironmentFields
<1>2. Shape(d)
  BY <1>1 DEF Shape, Grown
<1> QED BY <1>1, <1>2 DEF Alters, Due, Mapping

LEMMA BuildKept ==
    ASSUME NEW e, Shape(e), NEW result, Grown(e.store, result.store)
    PROVE  /\ Kept(e, Build(e, result).env, {})
           /\ Build(e, result).ok = result.ok
           /\ Build(e, result).env.store = result.store
<1> DEFINE d == Build(e, result).env
<1>1. /\ SameBut(e, d, {"store"})
      /\ d.store = result.store
      /\ Build(e, result).ok = result.ok
  BY BuildFields
<1> HIDE DEF d
<1>2. SameBut(e, d, {"store", "variableTypes", "mutableVariableState",
                     "mutableVariableConstraints", "outputVariables", "mutableVariables"})
  BY <1>1 DEF SameBut
<1>3. SameRoles(e, d)
  BY <1>1 DEF SameRoles, SameBut, EnvironmentFields
<1> QED BY <1>1, <1>2, <1>3, FieldsKept DEF Kept, d

LEMMA SetTypeKept ==
    ASSUME NEW e, Shape(e), NEW variable, NEW type
    PROVE  Kept(e, SetType(e, variable, type), {}) /\ SetType(e, variable, type).store = e.store
<1> DEFINE d == SetType(e, variable, type)
<1>1. SameBut(e, d, {"variableTypes"})
  BY SetTypeFields
<1> HIDE DEF d
<1>2. SameRoles(e, d) /\ d.store = e.store
  BY <1>1 DEF SameRoles, SameBut, EnvironmentFields
<1>3. Alters(e, d, {})
  <2>1. SameBut(e, d, {"store", "variableTypes", "mutableVariableState",
                       "mutableVariableConstraints", "outputVariables", "mutableVariables"})
    BY <1>1 DEF SameBut
  <2> QED BY <1>2, <2>1, FieldsKept, GrownReflexive DEF Shape
<1> QED BY <1>2, <1>3 DEF Kept, d

LEMMA CountVersionKept ==
    ASSUME NEW e, Shape(e), NEW v
    PROVE  Kept(e, CountVersion(e, v), {}) /\ CountVersion(e, v).store = e.store
<1> DEFINE d == CountVersion(e, v)
<1>1. SameBut(e, d, {"mutableVariableState"})
  BY CountVersionFields
<1> HIDE DEF d
<1>2. SameRoles(e, d) /\ d.store = e.store
  BY <1>1 DEF SameRoles, SameBut, EnvironmentFields
<1>3. Alters(e, d, {})
  <2>1. SameBut(e, d, {"store", "variableTypes", "mutableVariableState",
                       "mutableVariableConstraints", "outputVariables", "mutableVariables"})
    BY <1>1 DEF SameBut
  <2> QED BY <1>2, <2>1, FieldsKept, GrownReflexive DEF Shape
<1> QED BY <1>2, <1>3 DEF Kept, d

LEMMA MapInKept ==
    ASSUME NEW e, Shape(e), NEW b, NEW x, NEW n
    PROVE  LET d == MapIn(e, b, x, n)
           IN  /\ Kept(e, d, {<<b, x>>})
               /\ d.store = e.store
               /\ x \in DOMAIN Mapping(d, b)
               /\ Mapping(d, b)[x] = n
<1> DEFINE d == MapIn(e, b, x, n)
<1>1. /\ SameBut(e, d, {"variablesMappingsPerBlock", "variablesValuesPerBlock"})
      /\ Mapping(d, b) = Put(Mapping(e, b), x, n)
      /\ \A c : c # b => Mapping(d, c) = Mapping(e, c)
  <2>1. MappedIn(e, d, b, x, n)
    BY MapInFields
  <2> HIDE DEF d
  <2> QED BY <2>1 DEF MappedIn
<1> HIDE DEF d
<1>2. /\ DOMAIN Mapping(d, b) = DOMAIN Mapping(e, b) \cup {x}
      /\ Mapping(d, b)[x] = n
      /\ \A y \in DOMAIN Mapping(e, b) : y # x => Mapping(d, b)[y] = Mapping(e, b)[y]
  <2> DEFINE m == Mapping(e, b)
  <2> HIDE DEF m
  <2>1. /\ DOMAIN Put(m, x, n) = DOMAIN m \cup {x}
        /\ Put(m, x, n)[x] = n
        /\ \A y \in DOMAIN m : y # x => Put(m, x, n)[y] = m[y]
    BY DEF Put
  <2> QED BY <1>1, <2>1 DEF m
<1>3. /\ d.currentBlockName = e.currentBlockName
      /\ d.finishedBlocks = e.finishedBlocks
      /\ d.phiNodeObligations = e.phiNodeObligations
      /\ d.store = e.store
      /\ DOMAIN d = EnvironmentFields
      /\ SameRoles(e, d)
  BY <1>1 DEF SameBut, EnvironmentFields, SameRoles
<1>4. Shape(d) /\ Grown(e.store, d.store)
  BY <1>3, GrownReflexive DEF Shape
<1>5. ASSUME NEW c \in Block, NEW y, <<c, y>> \notin {<<b, x>>}
      PROVE  /\ y \in DOMAIN Mapping(d, c) <=> y \in DOMAIN Mapping(e, c)
             /\ y \in DOMAIN Mapping(e, c) => Mapping(d, c)[y] = Mapping(e, c)[y]
  <2>1. CASE c # b
    BY <1>1, <2>1
  <2>2. CASE c = b
    BY <1>2, <1>5, <2>2
  <2> QED BY <2>1, <2>2
<1>6. Alters(e, d, {<<b, x>>})
  BY <1>3, <1>4, <1>5 DEF Alters, Due
<1> QED BY <1>2, <1>3, <1>6 DEF Kept, d

\* The blocks have one thing more due.
LEMMA OweKept ==
    ASSUME NEW e, Healthy(e), NEW blocks \in SUBSET Block, NEW v
    PROVE  LET d == owe(e, blocks, v)
           IN  /\ Kept(e, d, {})
               /\ d.store = e.store
               /\ \A b \in blocks : Due(d, b, v)
<1> DEFINE d == owe(e, blocks, v)
           owed(b) == [VariableSource |-> v, TargetFutureVariable |-> FuturePhi(b, v)]
<1>1. /\ SameBut(e, d, {"phiNodeObligations"})
      /\ d.phiNodeObligations = [b \in Block |->
            IF b \in blocks THEN Append(e.phiNodeObligations[b], owed(b))
            ELSE e.phiNodeObligations[b]]
  BY OweFields DEF Healthy
<1> HIDE DEF d
<1>2. /\ d.currentBlockName = e.currentBlockName
      /\ d.variablesMappingsPerBlock = e.variablesMappingsPerBlock
      /\ d.finishedBlocks = e.finishedBlocks
      /\ d.store = e.store
      /\ DOMAIN d = EnvironmentFields
      /\ SameRoles(e, d)
  BY <1>1 DEF SameBut, EnvironmentFields, SameRoles
<1>3. Shape(d) /\ Grown(e.store, d.store)
  BY <1>2, GrownReflexive DEF Shape, Healthy
<1>4. ASSUME NEW b \in blocks
      PROVE  /\ \A i \in DOMAIN e.phiNodeObligations[b] :
                   /\ i \in DOMAIN d.phiNodeObligations[b]
                   /\ d.phiNodeObligations[b][i] = e.phiNodeObligations[b][i]
             /\ \E i \in DOMAIN d.phiNodeObligations[b] : d.phiNodeObligations[b][i] = owed(b)
  <2> DEFINE s == e.phiNodeObligations[b]
  <2>1. s \in Seq(Obligations)
    BY DEF Healthy, ObligationsFit
  <2>2. s \in Seq(Obligations \cup {owed(b)})
    BY <2>1
  <2>3. d.phiNodeObligations[b] = Append(s, owed(b))
    BY <1>1
  <2> HIDE DEF s, owed
  <2>4. /\ \A i \in DOMAIN s : i \in DOMAIN Append(s, owed(b)) /\ Append(s, owed(b))[i] = s[i]
        /\ \E i \in DOMAIN Append(s, owed(b)) : i \notin DOMAIN s /\ Append(s, owed(b))[i] = owed(b)
    <3> DEFINE O == Obligations \cup {owed(b)}
    <3>1. s \in Seq(O) /\ owed(b) \in O
      BY <2>2
    <3> HIDE DEF O
    <3> QED BY <3>1, AppendFacts
  <2> QED BY <2>3, <2>4 DEF s
<1>5. ASSUME NEW b \in Block \ blocks  PROVE d.phiNodeObligations[b] = e.phiNodeObligations[b]
  BY <1>1
<1> HIDE DEF owed
<1>6. \A p \in Block, w \in Variable : Due(e, p, w) => Due(d, p, w)
  <2> SUFFICES ASSUME NEW p \in Block, NEW w \in Variable, Due(e, p, w)  PROVE Due(d, p, w)
    OBVIOUS
  <2>1. CASE p \in blocks
    BY <1>4, <2>1 DEF Due
  <2>2. CASE p \notin blocks
    BY <1>5, <2>2 DEF Due
  <2> QED BY <2>1, <2>2
<1>7. Alters(e, d, {})
  BY <1>2, <1>3, <1>6 DEF Alters, Mapping
<1>8. \A b \in blocks : Due(d, b, v)
  BY <1>4 DEF Due, owed
<1> QED BY <1>2, <1>7, <1>8 DEF Kept, d

--------------------------------------------------------------------------------
\* A binder gets a name that no binder had.
FreshBinder(s, r, name) ==
    /\ Grown(s, r.store)
    /\ r.ok => name \notin Bound(s) /\ name \in Bound(r.store)

LEMMA ConstrainedBinderFresh ==
    ASSUME NEW s, DOMAIN s = StoreFields, NEW name, NEW type, NEW qualifiers
    PROVE  FreshBinder(s, CreateBinderWithConstraints(s, name, type, qualifiers), name)
<1> DEFINE r == CreateBinderWithConstraints(s, name, type, qualifiers)
<1>1. BinderMade(s, r, name, qualifiers)
  BY ConstrainedBinderCreated
<1>2. r.ok => validateBinder(s, name, type).ok
  BY DEF CreateBinderWithConstraints, Error
<1>3. r.ok => name \notin Bound(s)
  BY <1>2, BinderValidated
<1> QED BY <1>1, <1>3 DEF BinderMade, FreshBinder

LEMMA UnknownBinderFresh ==
    ASSUME NEW s, DOMAIN s = StoreFields, NEW name, NEW type, NEW names
    PROVE  FreshBinder(s, CreateBinderWithUnknownType(s, name, type, names), name)
<1> DEFINE r == CreateBinderWithUnknownType(s, name, type, names)
<1>1. Grown(s, r.store) /\ (r.ok => name \in Bound(r.store))
  BY UnknownBinderCreated
<1>2. r.ok => validateBinder(s, name, type).ok
  BY DEF CreateBinderWithUnknownType, Error
<1>3. r.ok => name \notin Bound(s)
  BY <1>2, BinderValidated
<1> QED BY <1>1, <1>3 DEF FreshBinder

\* The result r of a step that may only add to the store.
Adds(e, r) == Kept(e, r.env, {})

LEMMA ConstrainedAdds ==
    ASSUME NEW e, Shape(e), NEW name, NEW type, NEW qualifiers
    PROVE  LET r == Build(e, CreateBinderWithConstraints(e.store, name, type, qualifiers))
           IN  Adds(e, r) /\ (r.ok => name \notin Bound(e.store) /\ name \in Bound(r.env.store))
<1> DEFINE result == CreateBinderWithConstraints(e.store, name, type, qualifiers)
<1>1. FreshBinder(e.store, result, name)
  BY ConstrainedBinderFresh DEF Shape
<1> HIDE DEF result
<1> QED BY <1>1, BuildKept DEF FreshBinder, Adds, result

LEMMA UnknownAdds ==
    ASSUME NEW e, Shape(e), NEW name, NEW type, NEW names
    PROVE  LET r == Build(e, CreateBinderWithUnknownType(e.store, name, type, names))
           IN  Adds(e, r) /\ (r.ok => name \notin Bound(e.store) /\ name \in Bound(r.env.store))
<1> DEFINE result == CreateBinderWithUnknownType(e.store, name, type, names)
<1>1. FreshBinder(e.store, result, name)
  BY UnknownBinderFresh DEF Shape
<1> HIDE DEF result
<1> QED BY <1>1, BuildKept DEF FreshBinder, Adds, result

LEMMA FutureAdds ==
    ASSUME NEW e, Shape(e), NEW name, NEW type
    PROVE  Adds(e, Build(e, CreateFutureBinder(e.store, name, type)))
<1> DEFINE result == CreateFutureBinder(e.store, name, type)
<1>1. Grown(e.store, result.store)
  BY FutureBinderCreated DEF Shape
<1> HIDE DEF result
<1> QED BY <1>1, BuildKept DEF Adds, result

LEMMA ConstraintAdds ==
    ASSUME NEW e, Shape(e), NEW constraintName, NEW type, NEW constraints, NEW expression, NEW names
    PROVE  Adds(e, Build(e, AddConstraint(e.store, constraintName, type, constraints, expression, names)))
<1> DEFINE result == AddConstraint(e.store, constraintName, type, constraints, expression, names)
<1>1. Grown(e.store, result.store)
  BY ConstraintAdded DEF Shape
<1> HIDE DEF result
<1> QED BY <1>1, BuildKept DEF Adds, result

\* The constraint says what is assigned.
Stated(s, constraintName, expression) ==
    /\ constraintName \in DOMAIN s.constraintNameMapping
    /\ s.constraintNameMapping[constraintName].qualifiers = {expression}

LEMMA StatedGrows ==
    ASSUME NEW s, NEW t, Grown(s, t), NEW c, NEW x, Stated(s, c, x)
    PROVE  Stated(t, c, x)
BY DEF Grown, Stated

LEMMA AssignmentAdds ==
    ASSUME NEW e, Shape(e), NEW constraintName, NEW target, NEW expression, NEW names
    PROVE  LET r == Build(e, AddConstraintForAssignment(e.store, constraintName, target,
                                                        {expression}, names))
           IN  Adds(e, r) /\ (r.ok => Stated(r.env.store, constraintName, expression))
<1> DEFINE x == {expression}
           result == AddConstraintForAssignment(e.store, constraintName, target, x, names)
<1>0. DOMAIN e.store = StoreFields
  BY DEF Shape
<1>1. Grown(e.store, result.store) /\ (result.ok => Stated(result.store, constraintName, expression))
  <2>1. /\ Grown(e.store, result.store)
        /\ result.ok =>
              /\ constraintName \in DOMAIN result.store.constraintNameMapping
              /\ result.store.constraintNameMapping[constraintName].qualifiers = x
    <3> HIDE DEF x
    <3> QED BY <1>0, AssignmentConstraintAdded
  <2> QED BY <2>1 DEF Stated
<1> HIDE DEF result
<1> QED BY <1>1, BuildKept DEF Adds, result

--------------------------------------------------------------------------------
\* The result r of giving variable v of the current block the new name n, for
\* a binder made for it.
Named(e, r, v, n) ==
    r.ok =>
        /\ Kept(e, r.env, {<<e.currentBlockName, v>>})
        /\ n \notin Bound(e.store) /\ n \in Bound(r.env.store)
        /\ v \in DOMAIN Mapping(r.env, e.currentBlockName)
        /\ Mapping(r.env, e.currentBlockName)[v] = n

LEMMA NameGiven ==
    ASSUME NEW e, NEW d, Kept(e, d, {}), NEW v, NEW n, n \notin Bound(e.store), n \in Bound(d.store),
           NEW r, r = Succeed(MapVariable(d, v, n))
    PROVE  Named(e, r, v, n) /\ r.env.store = d.store
<1> DEFINE b == e.currentBlockName
           f == MapIn(d, b, v, n)
<1>1. r.env = f
  BY DEF Kept, Alters, MapVariable, Succeed
<1>2. /\ Kept(d, f, {<<b, v>>})
      /\ f.store = d.store
      /\ v \in DOMAIN Mapping(f, b)
      /\ Mapping(f, b)[v] = n
  BY MapInKept DEF Kept, Alters
<1> HIDE DEF f
<1>3. Kept(e, f, {<<b, v>>})
  <2>1. Kept(e, d, {<<b, v>>})
    BY KeptMore
  <2> QED BY <1>2, <2>1, KeptTransitive
<1> QED BY <1>1, <1>2, <1>3 DEF Named

LEMMA NamedLater ==
    ASSUME NEW e, NEW d, Kept(e, d, {}), NEW r, NEW v, NEW n, Named(d, r, v, n)
    PROVE  Named(e, r, v, n)
<1> SUFFICES ASSUME r.ok  PROVE Named(e, r, v, n)
  BY DEF Named
<1> DEFINE b == e.currentBlockName
<1>1. d.currentBlockName = b /\ Grown(e.store, d.store)
  BY DEF Kept, Alters
<1>2. Kept(e, r.env, {<<b, v>>})
  <2>1. Kept(e, d, {<<b, v>>})
    BY KeptMore
  <2>2. Kept(d, r.env, {<<b, v>>})
    BY <1>1 DEF Named
  <2> QED BY <2>1, <2>2, KeptTransitive
<1> QED BY <1>1, <1>2 DEF Named, Grown

LEMMA CreateIONames ==
    ASSUME NEW e, Shape(e), NEW v, NEW type, NEW constraints
    PROVE  Named(e, createIOVariable(e, v, type, constraints), v, v)
<1> DEFINE r == createIOVariable(e, v, type, constraints)
           built == Build(e, CreateBinderWithConstraints(e.store, v, type, constraints))
           typed == SetType(built.env, v, type)
<1>1. r.ok => built.ok /\ r = Succeed(MapVariable(typed, v, v))
  BY DEF createIOVariable, Then, Fail
<1>2. Kept(e, built.env, {}) /\ (built.ok => v \notin Bound(e.store) /\ v \in Bound(built.env.store))
  BY ConstrainedAdds DEF Adds
<1> HIDE DEF r, built
<1>3. Kept(built.env, typed, {}) /\ typed.store = built.env.store
  BY <1>2, SetTypeKept DEF Kept, Alters
<1> HIDE DEF typed
<1>4. Kept(e, typed, {})
  BY <1>2, <1>3, KeptTransitive
<1>5. CASE r.ok
  <2>1. v \notin Bound(e.store) /\ v \in Bound(typed.store) /\ r = Succeed(MapVariable(typed, v, v))
    BY <1>1, <1>2, <1>3, <1>5
  <2> QED BY <1>4, <2>1, NameGiven DEF r
<1>6. CASE ~r.ok
  BY <1>6 DEF Named, r
<1> QED BY <1>5, <1>6

LEMMA CreateVariableNames ==
    ASSUME NEW e, Shape(e), NEW variable, NEW mapped, NEW type, NEW constraints, NEW expression
    PROVE  LET r == createVariable(e, variable, mapped, type, constraints, expression)
           IN  /\ Named(e, r, variable, mapped)
               /\ r.ok => Stated(r.env.store, <<"assignment", mapped>>, expression)
<1> DEFINE scope == getBlockBinders(e, e.currentBlockName)
           created == Build(e, CreateBinderWithUnknownType(e.store, mapped, type, scope))
           check == Build(created.env,
                          AddConstraint(created.env.store, <<"check", mapped>>, type, constraints,
                                        {expression}, scope))
           checked == IF constraints = {} THEN created
                      ELSE IF created.ok THEN check ELSE created
           assignment == Build(checked.env,
                               AddConstraintForAssignment(checked.env.store,
                                   <<"assignment", mapped>>, mapped, {expression}, scope))
           typed == SetType(assignment.env, variable, type)
           r == createVariable(e, variable, mapped, type, constraints, expression)
<1>1. r.ok => checked.ok /\ assignment.ok /\ r = Succeed(MapVariable(typed, variable, mapped))
  BY DEF createVariable, Then
<1> HIDE DEF r
<1>2. /\ Kept(e, created.env, {})
      /\ created.ok => mapped \notin Bound(e.store) /\ mapped \in Bound(created.env.store)
  BY UnknownAdds DEF Adds
<1>3. Kept(created.env, check.env, {})
  <2>1. Shape(created.env)
    BY <1>2 DEF Kept, Alters
  <2> HIDE DEF created
  <2> QED BY <2>1, ConstraintAdds DEF Adds
<1> HIDE DEF created, check
<1>4. Kept(e, check.env, {}) /\ Grown(created.env.store, check.env.store)
  BY <1>2, <1>3, KeptTransitive DEF Kept, Alters
<1>5. /\ Kept(e, checked.env, {})
      /\ checked.ok => mapped \notin Bound(e.store) /\ mapped \in Bound(checked.env.store)
  BY <1>2, <1>4 DEF Grown
<1> HIDE DEF checked
<1>6. /\ Kept(checked.env, assignment.env, {})
      /\ assignment.ok => Stated(assignment.env.store, <<"assignment", mapped>>, expression)
  <2>1. Shape(checked.env)
    BY <1>5 DEF Kept, Alters
  <2> QED BY <2>1, AssignmentAdds DEF Adds
<1> HIDE DEF assignment
<1>7. Kept(assignment.env, typed, {}) /\ typed.store = assignment.env.store
  BY <1>6, SetTypeKept DEF Kept, Alters
<1> HIDE DEF typed
<1>8. Kept(e, typed, {}) /\ Grown(checked.env.store, assignment.env.store)
  BY <1>5, <1>6, <1>7, KeptTransitive DEF Kept, Alters
<1>9. CASE r.ok
  <2>1. /\ mapped \notin Bound(e.store) /\ mapped \in Bound(typed.store)
        /\ r = Succeed(MapVariable(typed, variable, mapped))
    BY <1>1, <1>5, <1>7, <1>8, <1>9 DEF Grown
  <2>2. Named(e, r, variable, mapped) /\ r.env.store = typed.store
    BY <1>8, <2>1, NameGiven
  <2> QED BY <1>1, <1>6, <1>7, <1>9, <2>2 DEF r
<1>10. CASE ~r.ok
  BY <1>10 DEF Named, r
<1> QED BY SMTT(30), <1>9, <1>10

--------------------------------------------------------------------------------
\* The name that a source of a phi node stands for in block p.
Source(e, p, name) == IF name \in DOMAIN Mapping(e, p) THEN Mapping(e, p)[name] ELSE name

LEMMA FlowNames ==
    ASSUME NEW e, NEW d, Shape(d), NEW g, NEW mapped, NEW sources, NEW p,
           NEW r, r = flowFrom(g, e, mapped, sources, d, p)
    PROVE  /\ Kept(d, r.env, {})
           /\ r.ok => <<Source(e, p, sources[p]), mapped>> \in FlowsIn(r.env.store)
<1> DEFINE b == e.currentBlockName
           value == IF sources[p] \in DOMAIN Mapping(e, p) THEN Mapping(e, p)[sources[p]]
                    ELSE sources[p]
           scope == getBlockBinders(e, p) \cup {TransitionGuard(p, b), PhiGuard(mapped, p), sources[p]}
           guard == Build(d, CreateBinderWithConstraints(d.store, PhiGuard(mapped, p), "bool",
                        {Over(GuardNames(g, p) \cup {TransitionGuard(p, b)})}))
           flow == Build(guard.env, AddConstraintForAssignment(guard.env.store,
                        <<"phi", p, b, mapped>>, mapped, {Over({value})}, scope))
<1>1. r = IF guard.ok THEN flow ELSE guard
  BY DEF flowFrom, Then
<1>2. Kept(d, guard.env, {})
  BY ConstrainedAdds DEF Adds
<1>3. value = Source(e, p, sources[p])
  BY DEF Source
<1> HIDE DEF guard, value
<1>4. /\ Kept(guard.env, flow.env, {})
      /\ flow.ok => Stated(flow.env.store, <<"phi", p, b, mapped>>, Over({value}))
  <2>1. Shape(guard.env)
    BY <1>2 DEF Kept, Alters
  <2> QED BY <2>1, AssignmentAdds DEF Adds
<1> HIDE DEF flow
<1>5. Kept(d, flow.env, {})
  BY <1>2, <1>4, KeptTransitive
<1>6. flow.ok => <<value, mapped>> \in FlowsIn(flow.env.store)
  BY <1>4, PhiFlows DEF Stated
<1> QED BY <1>1, <1>2, <1>3, <1>5, <1>6

\* The sources of the blocks in s flow into the phi node.
SourcesFlow(e, d, mapped, sources, s) ==
    \A p \in s : <<Source(e, p, sources[p]), mapped>> \in FlowsIn(d.store)

LEMMA SourcesFlowGrow ==
    ASSUME NEW e, NEW d, NEW f, Grown(d.store, f.store), NEW mapped, NEW sources, NEW s,
           SourcesFlow(e, d, mapped, sources, s)
    PROVE  SourcesFlow(e, f, mapped, sources, s)
BY FlowsGrow DEF SourcesFlow

FlowsNamed(k, s, r) ==
    r.ok =>
        /\ Kept(k.env, r.env, {})
        /\ k.mapped \notin Bound(k.env.store) /\ k.mapped \in Bound(r.env.store)
        /\ SourcesFlow(k.env, r.env, k.mapped, k.sources, s)

NamedFlowLoop == INSTANCE LoopTheorems WITH Iteration <- FlowIn, Invariant <- FlowsNamed

LEMMA AllFlowsNamed ==
    ASSUME NEW k, NEW S \in SUBSET Block, NEW r, FlowsNamed(k, {}, r)
    PROVE  FlowsNamed(k, S, NamedFlowLoop!Results(k, S, r)[S])
<1>2. ASSUME NEW s \in SUBSET S, NEW p \in s, NEW q, FlowsNamed(k, s \ {p}, q)
      PROVE  FlowsNamed(k, s, IF q.ok THEN FlowIn(k, q.env, p) ELSE q)
  <2>1. CASE ~q.ok
    BY <2>1 DEF FlowsNamed
  <2>2. CASE q.ok
    <3> DEFINE f == FlowIn(k, q.env, p)
    <3>1. /\ Kept(k.env, q.env, {})
          /\ k.mapped \notin Bound(k.env.store) /\ k.mapped \in Bound(q.env.store)
          /\ SourcesFlow(k.env, q.env, k.mapped, k.sources, s \ {p})
      BY <1>2, <2>2 DEF FlowsNamed
    <3>2. /\ Kept(q.env, f.env, {})
          /\ f.ok => <<Source(k.env, p, k.sources[p]), k.mapped>> \in FlowsIn(f.env.store)
      <4>1. Shape(q.env)
        BY <3>1 DEF Kept, Alters
      <4> QED BY <4>1, FlowNames DEF FlowIn
    <3> HIDE DEF f
    <3>3. Kept(k.env, f.env, {})
      BY <3>1, <3>2, KeptTransitive
    <3>4. SourcesFlow(k.env, f.env, k.mapped, k.sources, s \ {p}) /\ k.mapped \in Bound(f.env.store)
      BY <3>1, <3>2, SourcesFlowGrow DEF Kept, Alters, Grown
    <3>5. FlowsNamed(k, s, f)
      BY <3>1, <3>2, <3>3, <3>4 DEF FlowsNamed, SourcesFlow
    <3> QED BY <2>2, <3>5 DEF f
  <2> QED BY <2>1, <2>2
<1>3. NamedFlowLoop!Inductive(S)
  BY BlocksSmallest DEF SomeSmallest, NamedFlowLoop!Inductive
<1> QED BY <1>2, <1>3, NamedFlowLoop!LoopInvariant

\* A phi node: all its sources flow into the new name.
LEMMA PhiNodeNames ==
    ASSUME NEW e, Shape(e), NEW variable, NEW mapped, NEW sources, DOMAIN sources \subseteq Block,
           NEW g, NEW type,
           NEW r, r = createPhiNodeWithoutCreatedBinders(g, e, variable, mapped, type, sources)
    PROVE  /\ Named(e, r, variable, mapped)
           /\ r.ok => SourcesFlow(e, r.env, mapped, sources, DOMAIN sources)
<1> DEFINE S == DOMAIN sources
           created == Build(e, CreateBinderWithUnknownType(e.store, mapped, type,
                                   getBlockBinders(e, e.currentBlockName)))
           k == [succ |-> g, env |-> e, mapped |-> mapped, sources |-> sources]
           flows == NamedFlowLoop!Results(k, S, created)[S]
           d == flows.env
<1>1. r = IF flows.ok THEN Succeed(MapVariable(d, variable, mapped)) ELSE flows
  <2>1. ForEach(S, created, LAMBDA f, p : flowFrom(g, e, mapped, sources, f, p)) = flows
    <3> HIDE DEF created
    <3> QED BY DEF ForEach, FoldSet, MapThenFoldSet, NamedFlowLoop!Results, FlowIn
  <2> HIDE DEF flows
  <2> QED BY <2>1 DEF createPhiNodeWithoutCreatedBinders, Then
<1>2. k.env = e /\ k.mapped = mapped /\ k.sources = sources
  OBVIOUS
<1>3. FlowsNamed(k, {}, created)
  <2>1. /\ Kept(e, created.env, {})
        /\ created.ok => mapped \notin Bound(e.store) /\ mapped \in Bound(created.env.store)
    BY UnknownAdds DEF Adds
  <2> HIDE DEF k, created
  <2> QED BY <1>2, <2>1 DEF FlowsNamed, SourcesFlow
<1> HIDE DEF k, created
<1>4. FlowsNamed(k, S, flows)
  BY <1>3, AllFlowsNamed
<1> HIDE DEF flows
<1>5. CASE flows.ok
  <2>1. /\ Kept(e, d, {}) /\ mapped \notin Bound(e.store) /\ mapped \in Bound(d.store)
        /\ SourcesFlow(e, d, mapped, sources, S)
    BY <1>2, <1>4, <1>5 DEF FlowsNamed
  <2>2. Named(e, r, variable, mapped) /\ r.env.store = d.store
    BY <1>1, <1>5, <2>1, NameGiven
  <2> QED BY <2>1, <2>2 DEF SourcesFlow
<1>6. CASE ~flows.ok
  BY <1>1, <1>6 DEF Named
<1> QED BY <1>5, <1>6

PromisesNamed(k, s, r) == r.ok => Kept(k.env, r.env, {})

NamedPromiseLoop == INSTANCE LoopTheorems WITH Iteration <- PromiseSource, Invariant <- PromisesNamed

LEMMA AllPromisesNamed ==
    ASSUME NEW k, NEW S \in SUBSET Block, NEW r, PromisesNamed(k, {}, r)
    PROVE  PromisesNamed(k, S, NamedPromiseLoop!Results(k, S, r)[S])
<1>2. ASSUME NEW s \in SUBSET S, NEW p \in s, NEW q, PromisesNamed(k, s \ {p}, q)
      PROVE  PromisesNamed(k, s, IF q.ok THEN PromiseSource(k, q.env, p) ELSE q)
  <2>1. CASE ~q.ok
    BY <2>1 DEF PromisesNamed
  <2>2. CASE q.ok
    <3> DEFINE f == PromiseSource(k, q.env, p)
    <3>1. Kept(k.env, q.env, {})
      BY <1>2, <2>2 DEF PromisesNamed
    <3>2. Kept(q.env, f.env, {})
      BY <3>1, FutureAdds DEF PromiseSource, Adds, Kept, Alters
    <3> HIDE DEF f
    <3>3. Kept(k.env, f.env, {})
      BY <3>1, <3>2, KeptTransitive
    <3> QED BY <2>2, <3>3 DEF PromisesNamed, f
  <2> QED BY <2>1, <2>2
<1>3. NamedPromiseLoop!Inductive(S)
  BY BlocksSmallest DEF SomeSmallest, NamedPromiseLoop!Inductive
<1> QED BY <1>2, <1>3, NamedPromiseLoop!LoopInvariant

\* A phi node that may wait for some of its sources.
LEMMA PhiNodeInternalNames ==
    ASSUME NEW e, Shape(e), NEW variable, NEW mapped, NEW sources, DOMAIN sources \subseteq Block,
           NEW g, NEW type,
           NEW r, r = createPhiNodeInternal(g, e, variable, mapped, type, sources)
    PROVE  /\ Named(e, r, variable, mapped)
           /\ r.ok => SourcesFlow(e, r.env, mapped, sources, DOMAIN sources)
<1> DEFINE S == {p \in DOMAIN sources : sources[p] \notin DOMAIN Mapping(e, p)}
           k == [env |-> e, sources |-> sources, type |-> type]
           promised == NamedPromiseLoop!Results(k, S, Succeed(e))[S]
           d == promised.env
           phi == createPhiNodeWithoutCreatedBinders(g, d, variable, mapped, type, sources)
<1>1. r = IF promised.ok THEN phi ELSE promised
  <2>1. ForEach(S, Succeed(e), LAMBDA f, p : Build(f, CreateFutureBinder(f.store, sources[p], type)))
          = promised
    BY DEF ForEach, FoldSet, MapThenFoldSet, NamedPromiseLoop!Results, PromiseSource
  <2> HIDE DEF promised
  <2> QED BY <2>1 DEF createPhiNodeInternal, Then
<1>2. PromisesNamed(k, S, promised)
  <2>1. k.env = e /\ S \in SUBSET Block
    OBVIOUS
  <2>2. PromisesNamed(k, {}, Succeed(e))
    BY <2>1, KeptSame DEF PromisesNamed, Succeed
  <2> HIDE DEF k, S
  <2> QED BY <2>1, <2>2, AllPromisesNamed
<1>3. promised.ok => Kept(e, d, {})
  <2> HIDE DEF promised
  <2> QED BY <1>2 DEF PromisesNamed
<1> HIDE DEF promised
<1>4. CASE promised.ok
  <2>1. Kept(e, d, {}) /\ Shape(d) /\ r = phi
    BY <1>1, <1>3, <1>4 DEF Kept, Alters
  <2>2. Named(d, r, variable, mapped) /\ (r.ok => SourcesFlow(d, r.env, mapped, sources, DOMAIN sources))
    BY <2>1, PhiNodeNames
  <2>3. \A p \in DOMAIN sources : Source(d, p, sources[p]) = Source(e, p, sources[p])
    BY <2>1 DEF Kept, Alters, Source
  <2> QED BY <2>1, <2>2, <2>3, NamedLater DEF SourcesFlow
<1>5. CASE ~promised.ok
  BY <1>1, <1>5 DEF Named
<1> QED BY <1>4, <1>5

--------------------------------------------------------------------------------
\* The blocks in C have the variables that they had, under the same names.
SameNames(e, d, C) ==
    \A c \in C, x \in Variable :
        /\ x \in DOMAIN Mapping(d, c) <=> x \in DOMAIN Mapping(e, c)
        /\ x \in DOMAIN Mapping(e, c) => Mapping(d, c)[x] = Mapping(e, c)[x]

\* What the current block owes for a variable it has is assigned.
DischargesNamed(k, s, r) ==
    r.ok =>
        /\ Kept(k.env, r.env, {k.env.currentBlockName} \X Futures)
        /\ \A i \in s :
              LET o == k.obligations[i]
                  values == Mapping(k.env, k.env.currentBlockName)
              IN  o.VariableSource \in DOMAIN values =>
                    Stated(r.env.store, <<"assignment", o.TargetFutureVariable>>,
                           Over({values[o.VariableSource]}))

NamedDischargeLoop == INSTANCE LoopTheorems WITH Iteration <- DischargeOne,
                                                 Invariant <- DischargesNamed

LEMMA DischargeNames ==
    ASSUME NEW d, Shape(d), NEW o, NEW r, r = discharge(d, o)
    PROVE  /\ Named(d, r, o.TargetFutureVariable, o.TargetFutureVariable)
           /\ r.ok => Stated(r.env.store, <<"assignment", o.TargetFutureVariable>>,
                             Over({Mapping(d, d.currentBlockName)[o.VariableSource]}))
<1> DEFINE target == o.TargetFutureVariable
           expression == Over({Mapping(d, d.currentBlockName)[o.VariableSource]})
           type == d.variableTypes[o.VariableSource]
           created == createVariable(d, target, target, type, {}, expression)
<1>1. r = IF IsVariableDefined(d, target) THEN Fail(d) ELSE created
  BY DEF discharge, CreateImmutableVariable, GetVariableName
<1>2. /\ Named(d, created, target, target)
      /\ created.ok => Stated(created.env.store, <<"assignment", target>>, expression)
  <2> HIDE DEF target, expression, type
  <2> QED BY CreateVariableNames
<1> HIDE DEF created, target, expression
<1>3. Named(d, r, target, target) /\ (r.ok => Stated(r.env.store, <<"assignment", target>>, expression))
  BY <1>1, <1>2 DEF Fail, Named
<1> QED BY <1>3 DEF target, expression

LEMMA AllDischargesNamed ==
    ASSUME NEW k, Shape(k.env), k.env.currentBlockName \in Block, k.obligations \in Seq(Obligations),
           NEW S, S = DOMAIN k.obligations, NEW r, r = Succeed(k.env)
    PROVE  DischargesNamed(k, S, NamedDischargeLoop!Results(k, S, r)[S])
<1> DEFINE b == k.env.currentBlockName
           T == {b} \X Futures
           values == Mapping(k.env, b)
<1>1. DischargesNamed(k, {}, r)
  <2>1. Kept(k.env, k.env, T)
    BY KeptSame, KeptMore
  <2> QED BY <2>1 DEF DischargesNamed, Succeed
<1>2. ASSUME NEW s \in SUBSET S, NEW i \in s, NEW q, DischargesNamed(k, s \ {i}, q)
      PROVE  DischargesNamed(k, s, IF q.ok THEN DischargeOne(k, q.env, i) ELSE q)
  <2>1. CASE ~q.ok
    BY <2>1 DEF DischargesNamed
  <2>2. CASE q.ok
    <3> DEFINE f == DischargeOne(k, q.env, i)
               o(j) == k.obligations[j]
               Done(t, j) == o(j).VariableSource \in DOMAIN values =>
                    Stated(t, <<"assignment", o(j).TargetFutureVariable>>,
                           Over({values[o(j).VariableSource]}))
    <3>1. /\ Kept(k.env, q.env, T)
          /\ \A j \in s \ {i} : Done(q.env.store, j)
      BY <1>2, <2>2 DEF DischargesNamed
    <3>2. o(i) \in Obligations /\ o(i).VariableSource \in Variable /\ o(i).TargetFutureVariable \in Futures
      <4>1. i \in DOMAIN k.obligations
        OBVIOUS
      <4>2. k.obligations[i] \in Obligations
        BY <4>1
      <4> QED BY <4>2 DEF Obligations
    <3>3. Shape(q.env) /\ q.env.currentBlockName = b
      BY <3>1 DEF Kept, Alters
    <3>4. /\ Named(q.env, f, o(i).TargetFutureVariable, o(i).TargetFutureVariable)
          /\ f.ok => Stated(f.env.store, <<"assignment", o(i).TargetFutureVariable>>,
                            Over({Mapping(q.env, b)[o(i).VariableSource]}))
      <4>1. f = discharge(q.env, o(i))
        BY DEF DischargeOne
      <4> HIDE DEF f, o
      <4> QED BY <3>3, <4>1, DischargeNames
    <3>5. o(i).VariableSource \in DOMAIN values =>
              Mapping(q.env, b)[o(i).VariableSource] = values[o(i).VariableSource]
      <4>1. <<b, o(i).VariableSource>> \notin T
        BY <3>2, NamesAssumption
      <4> HIDE DEF T
      <4> QED BY <3>1, <4>1 DEF Kept, Alters
    <3> HIDE DEF f, o, T, values
    <3>6. ASSUME f.ok  PROVE Kept(k.env, f.env, T)
      <4>1. Kept(q.env, f.env, {<<b, o(i).TargetFutureVariable>>})
        BY <3>3, <3>4, <3>6 DEF Named
      <4>2. {<<b, o(i).TargetFutureVariable>>} \subseteq T
        BY <3>2 DEF T
      <4>3. Kept(q.env, f.env, T)
        BY <4>1, <4>2, KeptMore
      <4> QED BY <3>1, <4>3, KeptTransitive
    <3>7. ASSUME f.ok, NEW j \in s  PROVE Done(f.env.store, j)
      <4>1. CASE j = i
        BY <3>4, <3>5, <3>7, <4>1
      <4>2. CASE j # i
        <5>1. Grown(q.env.store, f.env.store)
          BY <3>4, <3>7 DEF Named, Kept, Alters
        <5>2. Done(q.env.store, j)
          BY <3>1, <4>2
        <5> QED BY <5>1, <5>2, StatedGrows
      <4> QED BY <4>1, <4>2
    <3>8. DischargesNamed(k, s, f)
      BY <3>6, <3>7 DEF DischargesNamed, T, o, values
    <3> QED BY <2>2, <3>8 DEF f
  <2> QED BY <2>1, <2>2
<1>3. NamedDischargeLoop!Inductive(S)
  <2>1. IsFiniteSet(S)
    <3>1. DOMAIN k.obligations = 1 .. Len(k.obligations) /\ Len(k.obligations) \in Nat
      OBVIOUS
    <3> QED BY <3>1, FS_Interval
  <2> QED BY <2>1, FiniteSmallest DEF SomeSmallest, NamedDischargeLoop!Inductive
<1> QED BY <1>1, <1>2, <1>3, NamedDischargeLoop!LoopInvariant

\* From e to d no flow is lost; what is due stays due, and the current block
\* of e may have assigned what it owed.
Carried(e, d) ==
    /\ SameRoles(e, d)
    /\ Grown(e.store, d.store)
    /\ \A p \in Block \ {e.currentBlockName}, v \in Variable : Due(e, p, v) => Due(d, p, v)
    /\ \A v \in Variable \cap DOMAIN Mapping(e, e.currentBlockName) :
          Due(e, e.currentBlockName, v) =>
              <<Mapping(e, e.currentBlockName)[v], FuturePhi(e.currentBlockName, v)>>
                  \in FlowsIn(d.store)

\* The current block has ended in d.
Ended(e, d) == Shape(d) /\ SameNames(e, d, Block) /\ Carried(e, d)

LEMMA EndBlockNames ==
    ASSUME NEW e, Healthy(e), Running(e), Owed(e), NEW r, r = endBlock(e), r.ok
    PROVE  Ended(e, r.env)
<1> DEFINE b == e.currentBlockName
           obligations == e.phiNodeObligations[b]
           S == DOMAIN obligations
           k == [env |-> e, obligations |-> obligations]
           done == NamedDischargeLoop!Results(k, S, Succeed(e))[S]
           d == done.env
           final == [d EXCEPT !.phiNodeObligations[b] = << >>, !.finishedBlocks = @ \cup {b}]
           T == {b} \X Futures
<1>1. done.ok /\ r.env = final
  <2>1. ForEach(S, Succeed(e), LAMBDA f, i : discharge(f, obligations[i])) = done
    BY DEF ForEach, FoldSet, MapThenFoldSet, NamedDischargeLoop!Results, DischargeOne
  <2> HIDE DEF done
  <2> QED BY <2>1 DEF endBlock, Then, Succeed
<1>2. k.env = e /\ k.obligations = obligations
  OBVIOUS
<1>3. b \in Block /\ obligations \in Seq(Obligations)
  BY SMTT(30) DEF Running, Healthy, ObligationsFit
<1>4. /\ Kept(e, d, T)
      /\ \A i \in S :
            obligations[i].VariableSource \in DOMAIN Mapping(e, b) =>
                Stated(d.store, <<"assignment", obligations[i].TargetFutureVariable>>,
                       Over({Mapping(e, b)[obligations[i].VariableSource]}))
  <2> HIDE DEF k
  <2>1. DischargesNamed(k, S, done)
    BY <1>2, <1>3, AllDischargesNamed DEF Healthy
  <2> QED BY <1>1, <1>2, <2>1 DEF DischargesNamed
<1> HIDE DEF done
<1>5. Shape(d)
  BY <1>4 DEF Kept, Alters
<1> HIDE DEF d, b
<1>6. /\ SameBut(d, final, {"phiNodeObligations", "finishedBlocks"})
      /\ \A p \in Block : p # b => final.phiNodeObligations[p] = d.phiNodeObligations[p]
  <2>1. /\ SameBut(d, final, {"phiNodeObligations", "finishedBlocks"})
        /\ final.phiNodeObligations = [d.phiNodeObligations EXCEPT ![b] = << >>]
    BY <1>5 DEF Shape, SameBut, EnvironmentFields
  <2>2. final.phiNodeObligations \in [Block -> Seq(Obligations)]
    BY <1>1, EndBlockLeaves DEF Left, Healthy, ObligationsFit
  <2> HIDE DEF final
  <2>3. DOMAIN d.phiNodeObligations = Block
    BY <2>1, <2>2
  <2> QED BY <2>1, <2>3
<1> HIDE DEF final
<1>7. /\ final.variablesMappingsPerBlock = d.variablesMappingsPerBlock
      /\ final.store = d.store
      /\ SameRoles(d, final)
      /\ DOMAIN final = EnvironmentFields
  BY <1>6 DEF SameBut, EnvironmentFields, SameRoles
<1>8. Shape(final) /\ SameRoles(e, final) /\ Grown(e.store, final.store)
  BY <1>4, <1>5, <1>7 DEF Kept, Alters, SameRoles, Shape
<1>9. SameNames(e, final, Block)
  <2>1. \A c \in Block, x \in Variable : <<c, x>> \notin T
    BY NamesAssumption
  <2> HIDE DEF T
  <2> QED BY <1>4, <1>7, <2>1 DEF Kept, Alters, SameNames, Mapping
<1>10. ASSUME NEW p \in Block \ {b}, NEW v \in Variable, Due(e, p, v)  PROVE Due(final, p, v)
  <2>1. Due(d, p, v)
    BY <1>4, <1>10 DEF Kept, Alters
  <2> QED BY <1>6, <2>1 DEF Due
<1>11. ASSUME NEW v \in Variable \cap DOMAIN Mapping(e, b), Due(e, b, v)
       PROVE  <<Mapping(e, b)[v], FuturePhi(b, v)>> \in FlowsIn(final.store)
  <2>1. PICK i \in S :
            obligations[i] = [VariableSource |-> v, TargetFutureVariable |-> FuturePhi(b, v)]
    BY <1>11 DEF Due
  <2>2. FuturePhi(b, v) \in Futures
    BY <1>3 DEF Futures
  <2>3. Stated(d.store, <<"assignment", FuturePhi(b, v)>>, Over({Mapping(e, b)[v]}))
    BY <1>4, <2>1
  <2> QED BY <1>7, <2>2, <2>3, AssignmentFlows DEF Stated
<1> QED BY SMTT(30), <1>1, <1>8, <1>9, <1>10, <1>11 DEF Ended, Carried, b

--------------------------------------------------------------------------------
\* Before the first block only transition guards are mapped.
GuardsNamed(k, s, r) == r.ok => Kept(k.env, r.env, Block \X Transitions)

NamedGuardLoop == INSTANCE LoopTheorems WITH Iteration <- ShareGuard, Invariant <- GuardsNamed
NamedAnnounceLoop == INSTANCE LoopTheorems WITH Iteration <- AnnounceOne, Invariant <- GuardsNamed
NamedMakeLoop == INSTANCE LoopTheorems WITH Iteration <- MakeGuard, Invariant <- GuardsNamed

LEMMA GuardsNamedLater ==
    ASSUME NEW k, NEW s, NEW t, NEW q, GuardsNamed(k, s, q), NEW f,
           q.ok => (Shape(q.env) => (f.ok => Kept(q.env, f.env, Block \X Transitions)))
    PROVE  GuardsNamed(k, t, IF q.ok THEN f ELSE q)
<1>1. CASE ~q.ok
  BY <1>1 DEF GuardsNamed
<1>2. CASE q.ok /\ ~f.ok
  BY <1>2 DEF GuardsNamed
<1>3. CASE q.ok /\ f.ok
  <2>1. Kept(k.env, q.env, Block \X Transitions)
    BY <1>3 DEF GuardsNamed
  <2>2. Kept(q.env, f.env, Block \X Transitions)
    BY <1>3, <2>1 DEF Kept, Alters
  <2>3. Kept(k.env, f.env, Block \X Transitions)
    BY <2>1, <2>2, KeptTransitive
  <2> QED BY <1>3, <2>3 DEF GuardsNamed
<1> QED BY <1>1, <1>2, <1>3

LEMMA AnnounceNames ==
    ASSUME NEW d, Shape(d), NEW g, NEW b \in Block, NEW i, g[b][i] \in Block,
           NEW r, r = announceTransition(g, d, b, i), r.ok
    PROVE  Kept(d, r.env, Block \X Transitions)
<1> DEFINE target == g[b][i]
           name == TransitionGuard(b, target)
           promised == Build(d, CreateFutureBinder(d.store, name, "bool"))
           k == [env |-> d, name |-> name]
           S == Reach(g, target)
           shared == NamedGuardLoop!Results(k, S, promised)[S]
<1>1. r = shared
  <2>1. ForEach(S, promised, LAMBDA f, s : Succeed(MapIn(f, s, name, name))) = shared
    <3> HIDE DEF promised, name
    <3> QED BY DEF ForEach, FoldSet, MapThenFoldSet, NamedGuardLoop!Results, ShareGuard
  <2> HIDE DEF shared
  <2> QED BY <2>1 DEF announceTransition
<1>2. k.env = d /\ k.name = name /\ name \in Transitions /\ S \in SUBSET Block
  BY DEF Transitions, Reach
<1>3. GuardsNamed(k, {}, promised)
  <2>1. Kept(d, promised.env, {})
    BY FutureAdds DEF Adds
  <2> HIDE DEF promised, k
  <2>2. Kept(d, promised.env, Block \X Transitions)
    BY <2>1, KeptMore
  <2> QED BY <1>2, <2>2 DEF GuardsNamed
<1> HIDE DEF k, S, promised, name
<1>4. ASSUME NEW s \in SUBSET S, NEW c \in s, NEW q, GuardsNamed(k, s \ {c}, q)
      PROVE  GuardsNamed(k, s, IF q.ok THEN ShareGuard(k, q.env, c) ELSE q)
  <2>1. ASSUME Shape(q.env)  PROVE Kept(q.env, ShareGuard(k, q.env, c).env, Block \X Transitions)
    <3>1. Kept(q.env, MapIn(q.env, c, k.name, k.name), {<<c, k.name>>})
      BY <2>1, MapInKept
    <3>2. {<<c, k.name>>} \subseteq Block \X Transitions
      BY <1>2
    <3> QED BY <3>1, <3>2, KeptMore DEF ShareGuard, Succeed
  <2> QED BY <1>4, <2>1, GuardsNamedLater
<1>5. NamedGuardLoop!Inductive(S)
  BY <1>2, BlocksSmallest DEF SomeSmallest, NamedGuardLoop!Inductive
<1>6. GuardsNamed(k, S, shared)
  BY <1>3, <1>4, <1>5, NamedGuardLoop!LoopInvariant
<1> QED BY <1>1, <1>2, <1>6 DEF GuardsNamed

LEMMA InitializeNames ==
    ASSUME NEW e, Shape(e), NEW g \in [Block -> Terminators],
           NEW r, r = initializeBlockGuards(g, e), r.ok
    PROVE  Kept(e, r.env, Block \X Transitions)
<1> DEFINE blocks == Reach(g, Entry)
           transfers == {t \in blocks \X (1 .. 2) : t[2] \in DOMAIN g[t[1]]}
           k == [succ |-> g, env |-> e]
           announced == NamedAnnounceLoop!Results(k, transfers, Succeed(e))[transfers]
           made == NamedMakeLoop!Results(k, blocks, announced)[blocks]
<1>1. r = made
  <2>1. ForEach(transfers, Succeed(e), LAMBDA d, t : announceTransition(g, d, t[1], t[2])) = announced
    BY DEF ForEach, FoldSet, MapThenFoldSet, NamedAnnounceLoop!Results, AnnounceOne
  <2>2. ASSUME NEW a
        PROVE  ForEach(blocks, a, LAMBDA d, b : Build(d, CreateBinderWithConstraints(d.store,
                          BlockGuard(b), "bool", {Over(GuardNames(g, b))})))
                 = NamedMakeLoop!Results(k, blocks, a)[blocks]
    BY DEF ForEach, FoldSet, MapThenFoldSet, NamedMakeLoop!Results, MakeGuard
  <2> HIDE DEF announced, k
  <2> QED BY <2>1, <2>2 DEF initializeBlockGuards
<1>2. k.env = e /\ k.succ = g /\ blocks \in SUBSET Block
  BY DEF Reach
<1>3. \A t \in transfers : t[1] \in Block /\ g[t[1]][t[2]] \in Block
  BY <1>2, SuccessorsOfTerminator
<1>4. NamedAnnounceLoop!Inductive(transfers)
  <2>1. IsFiniteSet(1 .. 2)
    <3>1. \A n \in Nat : IsFiniteSet(1 .. n)
      BY FS_Interval
    <3> QED BY <3>1, Zenon
  <2>2. transfers \subseteq Block \X (1 .. 2)
    BY <1>2
  <2>3. IsFiniteSet(transfers)
    BY <2>1, <2>2, BlockAssumption, FS_Product, FS_Subset
  <2> HIDE DEF transfers
  <2> QED BY <2>3, FiniteSmallest DEF SomeSmallest, NamedAnnounceLoop!Inductive
<1> HIDE DEF k, blocks, transfers
<1>5. GuardsNamed(k, {}, Succeed(e))
  <2>1. Kept(e, e, Block \X Transitions)
    BY KeptSame, KeptMore
  <2> QED BY <1>2, <2>1 DEF GuardsNamed, Succeed
<1>6. ASSUME NEW s \in SUBSET transfers, NEW t \in s, NEW q, GuardsNamed(k, s \ {t}, q)
      PROVE  GuardsNamed(k, s, IF q.ok THEN AnnounceOne(k, q.env, t) ELSE q)
  <2>1. ASSUME Shape(q.env), AnnounceOne(k, q.env, t).ok
        PROVE  Kept(q.env, AnnounceOne(k, q.env, t).env, Block \X Transitions)
    BY <1>2, <1>3, <2>1, AnnounceNames DEF AnnounceOne
  <2> QED BY <1>6, <2>1, GuardsNamedLater
<1>7. GuardsNamed(k, transfers, announced)
  BY <1>4, <1>5, <1>6, NamedAnnounceLoop!LoopInvariant
<1> HIDE DEF announced
<1>8. GuardsNamed(k, {}, announced)
  BY <1>7 DEF GuardsNamed
<1>9. ASSUME NEW s \in SUBSET blocks, NEW b \in s, NEW q, GuardsNamed(k, s \ {b}, q)
      PROVE  GuardsNamed(k, s, IF q.ok THEN MakeGuard(k, q.env, b) ELSE q)
  <2>1. ASSUME Shape(q.env)
        PROVE  Kept(q.env, MakeGuard(k, q.env, b).env, Block \X Transitions)
    <3>1. Kept(q.env, MakeGuard(k, q.env, b).env, {})
      BY <2>1, ConstrainedAdds DEF MakeGuard, Adds
    <3> QED BY <3>1, KeptMore
  <2> QED BY <1>9, <2>1, GuardsNamedLater
<1>10. NamedMakeLoop!Inductive(blocks)
  BY <1>2, BlocksSmallest DEF SomeSmallest, NamedMakeLoop!Inductive
<1>11. GuardsNamed(k, blocks, made)
  BY <1>8, <1>9, <1>10, NamedMakeLoop!LoopInvariant
<1> QED BY <1>1, <1>2, <1>11 DEF GuardsNamed

--------------------------------------------------------------------------------
\* Block p's variable v, and what the other blocks owe for it, flow into the
\* name n, which the current block has for it.
Anticipates(e, d, p, blocks, v) ==
    LET values == Mapping(d, e.currentBlockName)
    IN  /\ v \in DOMAIN values
        /\ values[v] \in Versions
        /\ <<Mapping(e, p)[v], values[v]>> \in FlowsIn(d.store)
        /\ \A u \in blocks : <<FuturePhi(u, v), values[v]>> \in FlowsIn(d.store) /\ Due(d, u, v)

LEMMA AnticipatePhiNames ==
    ASSUME NEW d, Healthy(d), NEW v \in Variable,
           NEW k, k.unfinished \subseteq Block \ d.finishedBlocks, k.p \in Block \ k.unfinished,
           v \in DOMAIN Mapping(d, k.p), NEW r, r = AnticipatePhi(k, d, v), r.ok
    PROVE  /\ Kept(d, r.env, {<<d.currentBlockName, v>>})
           /\ Anticipates(d, r.env, k.p, k.unfinished, v)
<1> DEFINE d1 == owe(d, k.unfinished, v)
           d2 == CountVersion(d1, v)
           n == getNextVariableName(d, v)
           sources == [b \in {k.p} \cup k.unfinished |-> IF b = k.p THEN v ELSE FuturePhi(b, v)]
           b == d.currentBlockName
<1>1. r = createPhiNodeInternal(k.succ, d2, v, n, d.variableTypes[v], sources)
  BY DEF AnticipatePhi, anticipatePhi
<1>2. n \in Versions
  BY CountVersionKeeps
<1>3. /\ DOMAIN sources = {k.p} \cup k.unfinished
      /\ \A u \in k.unfinished : sources[u] = FuturePhi(u, v)
      /\ sources[k.p] = v
  OBVIOUS
<1> HIDE DEF sources, n
<1>4. Healthy(d1) /\ Kept(d, d1, {}) /\ \A u \in k.unfinished : Due(d1, u, v)
  <2>1. k.unfinished \in SUBSET (Block \ d.finishedBlocks) /\ k.unfinished \in SUBSET Block
    OBVIOUS
  <2>2. Healthy(d1)
    BY <2>1, OweStays
  <2>3. Kept(d, d1, {}) /\ \A u \in k.unfinished : Due(d1, u, v)
    BY <2>1, OweKept
  <2> QED BY <2>2, <2>3
<1> HIDE DEF d1
<1>5. Healthy(d2) /\ Kept(d1, d2, {})
  BY <1>4, CountVersionKeeps, CountVersionKept DEF Keeps, Leads, Succeed, Healthy
<1> HIDE DEF d2
<1>6. Kept(d, d2, {}) /\ d2.currentBlockName = b
  BY <1>4, <1>5, KeptTransitive DEF Kept, Alters
<1>7. Shape(d2) /\ DOMAIN sources \subseteq Block
  BY <1>3, <1>5 DEF Healthy
<1>8. /\ Named(d2, r, v, n)
      /\ SourcesFlow(d2, r.env, n, sources, DOMAIN sources)
  BY <1>1, <1>7, PhiNodeInternalNames
<1>9. /\ Kept(d2, r.env, {<<b, v>>})
      /\ v \in DOMAIN Mapping(r.env, b)
      /\ Mapping(r.env, b)[v] = n
  BY <1>6, <1>8 DEF Named
<1>10. Kept(d, r.env, {<<b, v>>})
  <2>1. Kept(d, d2, {<<b, v>>})
    BY <1>6, KeptMore
  <2> QED BY <1>9, <2>1, KeptTransitive
<1>11. <<Mapping(d, k.p)[v], n>> \in FlowsIn(r.env.store)
  <2>1. v \in DOMAIN Mapping(d2, k.p) /\ Mapping(d2, k.p)[v] = Mapping(d, k.p)[v]
    BY <1>6 DEF Kept, Alters
  <2> QED BY <1>3, <1>8, <2>1 DEF SourcesFlow, Source
<1>12. ASSUME NEW u \in k.unfinished
       PROVE  <<FuturePhi(u, v), n>> \in FlowsIn(r.env.store) /\ Due(r.env, u, v)
  <2>1. u \in Block /\ FuturePhi(u, v) \notin Variable
    BY NamesAssumption DEF Futures
  <2>2. Source(d2, u, FuturePhi(u, v)) = FuturePhi(u, v)
    BY <1>5, <2>1 DEF Healthy, MappingsFit, Fits, Source
  <2>3. Due(r.env, u, v)
    <3>1. Due(d2, u, v)
      BY <1>4, <1>5, <2>1 DEF Kept, Alters
    <3> QED BY <1>9, <2>1, <3>1 DEF Kept, Alters
  <2> QED BY <1>3, <1>8, <2>2, <2>3 DEF SourcesFlow
<1> QED BY <1>2, <1>9, <1>10, <1>11, <1>12 DEF Anticipates

PhisNamed(k, s, r) ==
    /\ Advances(k.env, r)
    /\ r.ok => /\ Kept(k.env, r.env, {k.env.currentBlockName} \X s)
               /\ \A v \in s : Anticipates(k.env, r.env, k.p, k.unfinished, v)

NamedAnticipateLoop == INSTANCE LoopTheorems WITH Iteration <- AnticipatePhi, Invariant <- PhisNamed

LEMMA AnticipatesLater ==
    ASSUME NEW e, NEW d, NEW f, NEW T, Kept(d, f, T), NEW p, NEW blocks \in SUBSET Block,
           NEW v \in Variable, e.currentBlockName \in Block, <<e.currentBlockName, v>> \notin T,
           Anticipates(e, d, p, blocks, v)
    PROVE  Anticipates(e, f, p, blocks, v)
<1>1. FlowsIn(d.store) \subseteq FlowsIn(f.store)
  BY FlowsGrow DEF Kept, Alters
<1>2. /\ v \in DOMAIN Mapping(d, e.currentBlockName) => v \in DOMAIN Mapping(f, e.currentBlockName)
      /\ v \in DOMAIN Mapping(d, e.currentBlockName) =>
            Mapping(f, e.currentBlockName)[v] = Mapping(d, e.currentBlockName)[v]
      /\ \A u \in blocks : Due(d, u, v) => Due(f, u, v)
  BY DEF Kept, Alters
<1> QED BY <1>1, <1>2 DEF Anticipates

LEMMA AllPhisNamed ==
    ASSUME NEW k, NEW S \in SUBSET Variable, Healthy(k.env), Running(k.env), Owed(k.env),
           k.unfinished \subseteq Block \ k.env.finishedBlocks, k.p \in Block \ k.unfinished,
           k.p # k.env.currentBlockName,
           S \subseteq DOMAIN Mapping(k.env, k.p), NEW r, r = Succeed(k.env)
    PROVE  PhisNamed(k, S, NamedAnticipateLoop!Results(k, S, r)[S])
<1> DEFINE b == k.env.currentBlockName
<1>1. PhisNamed(k, {}, r)
  <2>1. Advances(k.env, r)
    BY KeepsReflexive, KeepsAdvances DEF Succeed
  <2>2. Kept(k.env, r.env, {})
    BY KeptSame DEF Succeed, Healthy
  <2>3. Kept(k.env, r.env, {b} \X {})
    BY <2>2, KeptMore
  <2> QED BY <2>1, <2>3 DEF PhisNamed
<1>2. ASSUME NEW s \in SUBSET S, NEW v \in s, NEW q, PhisNamed(k, s \ {v}, q)
      PROVE  PhisNamed(k, s, IF q.ok THEN AnticipatePhi(k, q.env, v) ELSE q)
  <2>1. CASE ~q.ok
    BY <1>2, <2>1 DEF PhisNamed
  <2>2. CASE q.ok
    <3> DEFINE f == AnticipatePhi(k, q.env, v)
               T == {b} \X s
    <3>1. /\ Healthy(q.env) /\ Running(q.env) /\ Owed(q.env)
          /\ k.unfinished \subseteq Block \ q.env.finishedBlocks
          /\ v \in DOMAIN Mapping(q.env, k.p)
          /\ q.env.currentBlockName = b
          /\ v \in Variable /\ b \in Block
      BY <1>2, <2>2, RunningStays DEF PhisNamed, Advances, Stays, Grows, Running
    <3>2. Advances(q.env, f)
      BY <3>1, AnticipatePhiAdvances
    <3>3. Kept(k.env, q.env, {b} \X (s \ {v}))
      BY <1>2, <2>2 DEF PhisNamed
    <3>4. ASSUME f.ok
          PROVE  Kept(q.env, f.env, {<<b, v>>}) /\ Anticipates(q.env, f.env, k.p, k.unfinished, v)
      BY <3>1, <3>4, AnticipatePhiNames
    <3> HIDE DEF f
    <3>5. Advances(k.env, f)
      BY <1>2, <2>2, <3>2, AdvancesTransitive DEF PhisNamed
    <3>6. ASSUME f.ok  PROVE Kept(k.env, f.env, T)
      <4>1. {b} \X (s \ {v}) \subseteq T /\ {<<b, v>>} \subseteq T
        OBVIOUS
      <4> HIDE DEF T, b
      <4>2. Kept(k.env, q.env, T) /\ Kept(q.env, f.env, T)
        BY <3>3, <3>4, <3>6, <4>1, KeptMore
      <4> QED BY <4>2, KeptTransitive
    <3>7. ASSUME f.ok, NEW w \in s  PROVE Anticipates(k.env, f.env, k.p, k.unfinished, w)
      <4>1. CASE w = v
        <5>1. <<k.p, v>> \notin {b} \X (s \ {v})
          OBVIOUS
        <5>2. Mapping(q.env, k.p)[v] = Mapping(k.env, k.p)[v]
          BY <3>3, <5>1 DEF Kept, Alters
        <5> QED BY <3>1, <3>4, <3>7, <4>1, <5>2 DEF Anticipates
      <4>2. CASE w # v
        <5>1. Anticipates(k.env, q.env, k.p, k.unfinished, w)
          BY <1>2, <2>2, <4>2 DEF PhisNamed
        <5>2. <<b, w>> \notin {<<b, v>>} /\ w \in Variable /\ k.unfinished \in SUBSET Block
          BY <4>2
        <5> HIDE DEF b
        <5>3. Kept(q.env, f.env, {<<b, v>>}) /\ b \in Block
          BY <3>1, <3>4, <3>7
        <5> QED BY <5>1, <5>2, <5>3, AnticipatesLater DEF b
      <4> QED BY <4>1, <4>2
    <3>8. PhisNamed(k, s, f)
      BY <3>5, <3>6, <3>7 DEF PhisNamed
    <3> QED BY <2>2, <3>8 DEF f
  <2> QED BY <2>1, <2>2
<1>3. NamedAnticipateLoop!Inductive(S)
  BY VariableAssumption, FS_Subset, FiniteSmallest DEF SomeSmallest, NamedAnticipateLoop!Inductive
<1> QED BY <1>1, <1>2, <1>3, NamedAnticipateLoop!LoopInvariant

\* The blocks and variables in s are shared.
SharedNamed(k, s, r) ==
    /\ r.ok
    /\ Kept(k.env, r.env, s)
    /\ \A t \in s : /\ t[2] \in DOMAIN Mapping(r.env, t[1])
                    /\ Mapping(r.env, t[1])[t[2]] = Mapping(k.env, k.p)[t[2]]

NamedShareLoop == INSTANCE LoopTheorems WITH Iteration <- ShareFinished, Invariant <- SharedNamed

LEMMA AllSharedNamed ==
    ASSUME NEW k, Shape(k.env), k.p \in Block,
           NEW S, S \subseteq (Block \ {k.p}) \X DOMAIN Mapping(k.env, k.p),
           DOMAIN Mapping(k.env, k.p) \subseteq Keys,
           NEW r, r = Succeed(k.env)
    PROVE  SharedNamed(k, S, NamedShareLoop!Results(k, S, r)[S])
<1>1. SharedNamed(k, {}, r)
  BY KeptSame DEF SharedNamed, Succeed
<1>2. ASSUME NEW s \in SUBSET S, NEW t \in s, NEW q, SharedNamed(k, s \ {t}, q)
      PROVE  SharedNamed(k, s, IF q.ok THEN ShareFinished(k, q.env, t) ELSE q)
  <2> DEFINE f == ShareFinished(k, q.env, t)
             n == Mapping(q.env, k.p)[t[2]]
  <2>1. /\ q.ok
        /\ Kept(k.env, q.env, s \ {t})
        /\ \A u \in s \ {t} : /\ u[2] \in DOMAIN Mapping(q.env, u[1])
                              /\ Mapping(q.env, u[1])[u[2]] = Mapping(k.env, k.p)[u[2]]
    BY <1>2 DEF SharedNamed
  <2>2. /\ t[1] \in Block /\ t[1] # k.p /\ t[2] \in DOMAIN Mapping(k.env, k.p) /\ t = <<t[1], t[2]>>
        /\ \A u \in s : u[1] \in Block /\ u[1] # k.p /\ u = <<u[1], u[2]>>
    <3>1. \A u \in s : u \in (Block \ {k.p}) \X DOMAIN Mapping(k.env, k.p)
      OBVIOUS
    <3> QED BY <3>1
  <2>3. <<k.p, t[2]>> \notin s \ {t}
    BY <2>2
  <2>4. n = Mapping(k.env, k.p)[t[2]]
    BY <2>1, <2>2, <2>3 DEF Kept, Alters
  <2>5. /\ f.ok
        /\ Kept(q.env, f.env, {<<t[1], t[2]>>})
        /\ t[2] \in DOMAIN Mapping(f.env, t[1])
        /\ Mapping(f.env, t[1])[t[2]] = n
    <3>1. f = Succeed(MapIn(q.env, t[1], t[2], n))
      BY DEF ShareFinished, share
    <3>2. Shape(q.env)
      BY <2>1 DEF Kept, Alters
    <3> HIDE DEF f, n
    <3> QED BY <3>1, <3>2, MapInKept DEF Succeed
  <2> HIDE DEF f, n
  <2>6. Kept(k.env, f.env, s)
    <3>1. s \ {t} \subseteq s /\ {<<t[1], t[2]>>} \subseteq s
      BY <2>2
    <3>2. Kept(k.env, q.env, s) /\ Kept(q.env, f.env, s)
      BY <2>1, <2>5, <3>1, KeptMore
    <3> QED BY <3>2, KeptTransitive
  <2>7. ASSUME NEW u \in s
        PROVE  /\ u[2] \in DOMAIN Mapping(f.env, u[1])
               /\ Mapping(f.env, u[1])[u[2]] = Mapping(k.env, k.p)[u[2]]
    <3>1. CASE u = t
      BY <2>4, <2>5, <3>1
    <3>2. CASE u # t
      <4>1. <<u[1], u[2]>> \notin {<<t[1], t[2]>>} /\ u[1] \in Block
        BY <2>2, <3>2
      <4>2. /\ u[2] \in DOMAIN Mapping(q.env, u[1])
            /\ Mapping(q.env, u[1])[u[2]] = Mapping(k.env, k.p)[u[2]]
        BY <2>1, <3>2
      <4> QED BY <2>5, <4>1, <4>2 DEF Kept, Alters
    <3> QED BY <3>1, <3>2
  <2>8. SharedNamed(k, s, f)
    BY <2>5, <2>6, <2>7 DEF SharedNamed
  <2> QED BY <2>1, <2>8 DEF f
<1>3. NamedShareLoop!Inductive(S)
  <2>1. S \subseteq Block \X Keys
    OBVIOUS
  <2>2. IsFiniteSet(S)
    BY <2>1, BlockAssumption, KeysFinite, FS_Product, FS_Subset
  <2> QED BY <2>2, FiniteSmallest DEF SomeSmallest, NamedShareLoop!Inductive
<1> QED BY <1>1, <1>2, <1>3, NamedShareLoop!LoopInvariant

--------------------------------------------------------------------------------
\* The blocks that are not finished share the variables of block p but those
\* that may change; for the mutable ones the current block has a phi node.
Anticipated(e, d, p, blocks) ==
    LET variables == DOMAIN Mapping(e, p)
        immutable == variables \ (e.mutableVariables \cup e.outputVariables)
    IN  /\ Kept(e, d, ({e.currentBlockName} \X (variables \cap e.mutableVariables))
                         \cup (blocks \X immutable))
        /\ \A v \in variables \cap e.mutableVariables : Anticipates(e, d, p, blocks, v)
        /\ \A u \in blocks, x \in immutable :
              x \in DOMAIN Mapping(d, u) /\ Mapping(d, u)[x] = Mapping(e, p)[x]

LEMMA AnticipateNames ==
    ASSUME NEW e, Healthy(e), Running(e), Owed(e), NEW p \in e.finishedBlocks,
           NEW unfinished \in SUBSET (Block \ e.finishedBlocks), NEW g,
           NEW r, r = anticipate(g, e, p, unfinished), r.ok
    PROVE  Anticipated(e, r.env, p, unfinished)
<1> DEFINE b == e.currentBlockName
           variables == DOMAIN Mapping(e, p)
           V == variables \cap e.mutableVariables
           immutable == variables \ (e.mutableVariables \cup e.outputVariables)
           k == [succ |-> g, env |-> e, p |-> p, unfinished |-> unfinished]
           phis == NamedAnticipateLoop!Results(k, V, Succeed(e))[V]
           d == phis.env
           S == unfinished \X immutable
           h == [env |-> d, p |-> p]
           shared == NamedShareLoop!Results(h, S, Succeed(d))[S]
           T == ({b} \X V) \cup S
<1>1. phis.ok /\ r = shared
  <2>1. ForEach(V, Succeed(e), LAMBDA f, v : anticipatePhi(g, f, p, unfinished, v)) = phis
    BY DEF ForEach, FoldSet, MapThenFoldSet, NamedAnticipateLoop!Results, AnticipatePhi
  <2> HIDE DEF phis
  <2>2. ForEach(S, Succeed(d), LAMBDA f, t : share(f, p, t[1], t[2])) = shared
    BY DEF ForEach, FoldSet, MapThenFoldSet, NamedShareLoop!Results, ShareFinished
  <2> HIDE DEF shared
  <2> QED BY <2>1, <2>2 DEF anticipate, Then
<1>2. p \in Block /\ p \notin unfinished /\ p # b /\ b \in Block
  BY DEF Healthy, Running
<1>3. PhisNamed(k, V, phis)
  <2>1. k.env = e /\ k.p = p /\ k.unfinished = unfinished
    OBVIOUS
  <2>2. V \subseteq Variable /\ V \subseteq DOMAIN Mapping(e, p)
    BY RolesAssumption DEF Healthy, ConstraintsNoted
  <2> HIDE DEF k, V
  <2> QED BY <1>2, <2>1, <2>2, AllPhisNamed
<1> HIDE DEF phis
<1>4. /\ Healthy(d)
      /\ Kept(e, d, {b} \X V)
      /\ \A v \in V : Anticipates(e, d, p, unfinished, v)
  BY <1>1, <1>3 DEF PhisNamed, Advances
<1> HIDE DEF d
<1>5. ASSUME NEW x  PROVE /\ x \in DOMAIN Mapping(d, p) <=> x \in variables
                          /\ x \in variables => Mapping(d, p)[x] = Mapping(e, p)[x]
  <2>1. <<p, x>> \notin {b} \X V
    BY <1>2
  <2> HIDE DEF V, b
  <2> QED BY <1>2, <1>4, <2>1 DEF Kept, Alters
<1>6. SharedNamed(h, S, shared)
  <2>1. h.env = d /\ h.p = p
    OBVIOUS
  <2>2. S \subseteq (Block \ {p}) \X DOMAIN Mapping(d, p)
    BY <1>2, <1>5
  <2>3. DOMAIN Mapping(d, p) \subseteq Keys /\ Shape(d)
    BY <1>2, <1>4 DEF Healthy, MappingsFit, Fits
  <2> HIDE DEF h, S
  <2> QED BY <1>2, <2>1, <2>2, <2>3, AllSharedNamed
<1> HIDE DEF shared
<1>7. /\ Kept(d, r.env, S)
      /\ \A t \in S : /\ t[2] \in DOMAIN Mapping(r.env, t[1])
                      /\ Mapping(r.env, t[1])[t[2]] = Mapping(d, p)[t[2]]
  BY <1>1, <1>6 DEF SharedNamed
<1>8. Kept(e, r.env, T)
  <2>1. {b} \X V \subseteq T /\ S \subseteq T
    OBVIOUS
  <2> HIDE DEF T, V, S
  <2>2. Kept(e, d, T) /\ Kept(d, r.env, T)
    BY <1>4, <1>7, <2>1, KeptMore
  <2> QED BY <2>2, KeptTransitive
<1>9. ASSUME NEW v \in V  PROVE Anticipates(e, r.env, p, unfinished, v)
  <2>1. <<b, v>> \notin S /\ v \in Variable /\ unfinished \in SUBSET Block
    BY RolesAssumption DEF Healthy, ConstraintsNoted
  <2>2. Anticipates(e, d, p, unfinished, v)
    BY <1>4
  <2> HIDE DEF S, V
  <2> QED BY <1>2, <1>7, <2>1, <2>2, AnticipatesLater
<1>10. ASSUME NEW u \in unfinished, NEW x \in immutable
       PROVE  x \in DOMAIN Mapping(r.env, u) /\ Mapping(r.env, u)[x] = Mapping(e, p)[x]
  <2>1. <<u, x>> \in S /\ <<u, x>>[1] = u /\ <<u, x>>[2] = x
    OBVIOUS
  <2> HIDE DEF S
  <2> QED BY <1>5, <1>7, <2>1
<1> QED BY <1>8, <1>9, <1>10 DEF Anticipated

\* What getCommonVariables leaves behind.
CommonNamed(g, e, d, previous) ==
    LET finished == previous \cap e.finishedBlocks
        unfinished == previous \ e.finishedBlocks
    IN  /\ unfinished = {} => Kept(e, d, {})
        /\ unfinished # {} =>
              \E p \in Block : /\ finished = {p}
                               /\ \A u \in unfinished : Dominates(g, p, u)
                               /\ Anticipated(e, d, p, unfinished)

LEMMA CommonVariablesNames ==
    ASSUME NEW e, Healthy(e), Running(e), Owed(e), NEW previous \in SUBSET Block, NEW g,
           NEW r, r = getCommonVariables(g, e, previous), r.ok
    PROVE  CommonNamed(g, e, r.env, previous)
<1> DEFINE finished == previous \cap e.finishedBlocks
           unfinished == previous \ e.finishedBlocks
           touched == [e EXCEPT !.variablesMappingsPerBlock =
                           [b \in DOMAIN @ \cup previous |-> Mapping(e, b)]]
           p == CHOOSE p \in finished : TRUE
           valid == validateFinishedAndUnfinishedBlockStates(g, finished, unfinished)
           anticipated == anticipate(g, touched, p, unfinished)
<1>1. r = IF unfinished = {} THEN Succeed(touched) ELSE IF ~valid THEN Fail(e) ELSE anticipated
  BY DEF getCommonVariables
<1>2. /\ Keeps(e, Succeed(touched))
      /\ Kept(e, touched, {})
      /\ \A b : Mapping(touched, b) = Mapping(e, b)
  <2>1. /\ SameBut(e, touched, {"variablesMappingsPerBlock"})
        /\ DOMAIN touched.variablesMappingsPerBlock = DOMAIN e.variablesMappingsPerBlock \cup previous
        /\ \A b \in DOMAIN e.variablesMappingsPerBlock \cup previous :
              touched.variablesMappingsPerBlock[b] = Mapping(e, b)
    BY DEF Healthy, Shape, SameBut, EnvironmentFields
  <2> HIDE DEF touched
  <2>2. Keeps(e, Succeed(touched))
    BY <2>1, TouchKeeps
  <2>3. ASSUME NEW b  PROVE Mapping(touched, b) = Mapping(e, b)
    <3>1. CASE b \in DOMAIN e.variablesMappingsPerBlock \cup previous
      BY <2>1, <3>1 DEF Mapping
    <3>2. CASE b \notin DOMAIN e.variablesMappingsPerBlock \cup previous
      BY <2>1, <3>2 DEF Mapping
    <3> QED BY <3>1, <3>2
  <2>4. /\ touched.phiNodeObligations = e.phiNodeObligations
        /\ touched.outputVariables = e.outputVariables
        /\ touched.mutableVariables = e.mutableVariables
    BY <2>1 DEF SameBut, EnvironmentFields
  <2>5. Kept(e, touched, {})
    BY <2>2, <2>3, <2>4
       DEF Keeps, Leads, Within, Stays, Grows, Succeed, Healthy, Kept, Alters, SameRoles, Due
  <2> QED BY <2>2, <2>3, <2>5
<1> HIDE DEF touched
<1>3. CASE unfinished = {}
  <2>1. r = Succeed(touched)
    BY <1>1, <1>3
  <2> QED BY <1>2, <1>3, <2>1 DEF CommonNamed, Succeed
<1>4. CASE unfinished # {} /\ ~valid
  BY <1>1, <1>4 DEF Fail
<1>5. CASE unfinished # {} /\ valid
  <2>1. IsFiniteSet(finished) /\ Cardinality(finished) = 1
        /\ \A q \in finished, u \in unfinished : Dominates(g, q, u)
    BY <1>5, BlockAssumption, FS_Subset
       DEF validateFinishedAndUnfinishedBlockStates, StrictlyDominates
  <2>2. \E q : finished = {q}
    <3> HIDE DEF finished
    <3> QED BY <2>1, FS_Singleton
  <2>3. finished = {p} /\ p \in Block
    BY <2>2
  <2>4. Healthy(touched) /\ Running(touched) /\ touched.finishedBlocks = e.finishedBlocks
        /\ touched.currentBlockName = e.currentBlockName
    BY <1>2, RunningStays DEF Keeps, Leads, Within, Stays, Succeed
  <2>5. Owed(touched)
    BY <1>2 DEF Keeps, Leads, Within, Owed, Succeed
  <2>6. r = anticipated
    BY <1>1, <1>5
  <2>7. Anticipated(touched, r.env, p, unfinished)
    <3>1. unfinished \in SUBSET (Block \ touched.finishedBlocks) /\ p \in touched.finishedBlocks
      BY <2>3, <2>4
    <3> HIDE DEF unfinished, p
    <3> QED BY <2>4, <2>5, <2>6, <3>1, AnticipateNames
  <2>8. Anticipated(e, r.env, p, unfinished)
    <3> DEFINE T == ({e.currentBlockName} \X (DOMAIN Mapping(e, p) \cap e.mutableVariables))
                      \cup (unfinished \X (DOMAIN Mapping(e, p)
                                             \ (e.mutableVariables \cup e.outputVariables)))
    <3>1. SameRoles(e, touched)
      BY <1>2 DEF Kept
    <3> HIDE DEF p, unfinished
    <3>2. Kept(touched, r.env, T)
      BY <1>2, <2>4, <2>7, <3>1 DEF Anticipated, SameRoles
    <3>3. Kept(e, r.env, T)
      <4>1. {} \subseteq T
        OBVIOUS
      <4> HIDE DEF T
      <4>2. Kept(e, touched, T)
        BY <1>2, <4>1, KeptMore
      <4> QED BY <3>2, <4>2, KeptTransitive
    <3> QED BY <1>2, <2>4, <2>7, <3>1, <3>3 DEF Anticipated, SameRoles, Anticipates
  <2> QED BY <1>5, <2>1, <2>3, <2>8 DEF CommonNamed
<1> QED BY <1>3, <1>4, <1>5

--------------------------------------------------------------------------------
KeptNamed(k, s, r) ==
    /\ r.ok
    /\ Kept(k.env, r.env, {k.env.currentBlockName} \X s)
    /\ \A x \in s : LET values == Mapping(r.env, k.env.currentBlockName)
                    IN  x \in DOMAIN values /\ values[x] = Mapping(k.env, k.p)[x]

NamedKeepLoop == INSTANCE LoopTheorems WITH Iteration <- KeepVariable, Invariant <- KeptNamed

LEMMA AllKeptNamed ==
    ASSUME NEW k, Shape(k.env), k.env.currentBlockName \in Block, NEW S \in SUBSET Keys,
           NEW r, r = Succeed(k.env)
    PROVE  KeptNamed(k, S, NamedKeepLoop!Results(k, S, r)[S])
<1> DEFINE b == k.env.currentBlockName
<1>1. KeptNamed(k, {}, r)
  <2>1. Kept(k.env, k.env, {}) /\ {} \subseteq {b} \X {}
    BY KeptSame
  <2>2. Kept(k.env, k.env, {b} \X {})
    BY <2>1, KeptMore
  <2> QED BY <2>2 DEF KeptNamed, Succeed
<1>2. ASSUME NEW s \in SUBSET S, NEW x \in s, NEW q, KeptNamed(k, s \ {x}, q)
      PROVE  KeptNamed(k, s, IF q.ok THEN KeepVariable(k, q.env, x) ELSE q)
  <2> DEFINE f == KeepVariable(k, q.env, x)
             n == Mapping(k.env, k.p)[x]
             T == {b} \X s
  <2>1. /\ q.ok
        /\ Kept(k.env, q.env, {b} \X (s \ {x}))
        /\ \A y \in s \ {x} : /\ y \in DOMAIN Mapping(q.env, b)
                              /\ Mapping(q.env, b)[y] = Mapping(k.env, k.p)[y]
    BY <1>2 DEF KeptNamed
  <2>2. Shape(q.env) /\ q.env.currentBlockName = b
    BY <2>1 DEF Kept, Alters
  <2> HIDE DEF b, n
  <2>3. /\ f.ok
        /\ Kept(q.env, f.env, {<<b, x>>})
        /\ x \in DOMAIN Mapping(f.env, b)
        /\ Mapping(f.env, b)[x] = n
    <3> DEFINE d == MapIn(q.env, b, x, n)
    <3>1. f.ok /\ f.env = d
      BY <2>2 DEF KeepVariable, MapVariable, Succeed, n
    <3>2. /\ Kept(q.env, d, {<<b, x>>})
          /\ x \in DOMAIN Mapping(d, b)
          /\ Mapping(d, b)[x] = n
      BY <2>2, MapInKept
    <3> HIDE DEF f, d
    <3> QED BY <3>1, <3>2
  <2> HIDE DEF f
  <2>4. Kept(k.env, f.env, T)
    <3>1. {b} \X (s \ {x}) \subseteq T /\ {<<b, x>>} \subseteq T
      OBVIOUS
    <3> HIDE DEF T
    <3>2. Kept(k.env, q.env, T)
      BY <2>1, <3>1, KeptMore
    <3>3. Kept(q.env, f.env, T)
      BY <2>3, <3>1, KeptMore
    <3> QED BY <3>2, <3>3, KeptTransitive
  <2>5. ASSUME NEW y \in s
        PROVE  y \in DOMAIN Mapping(f.env, b) /\ Mapping(f.env, b)[y] = Mapping(k.env, k.p)[y]
    <3>1. CASE y = x
      BY <2>3, <3>1 DEF n
    <3>2. CASE y # x
      <4>1. <<b, y>> \notin {<<b, x>>} /\ b \in Block
        BY <3>2 DEF b
      <4>2. y \in DOMAIN Mapping(q.env, b) /\ Mapping(q.env, b)[y] = Mapping(k.env, k.p)[y]
        BY <2>1, <3>2
      <4> QED BY <2>3, <4>1, <4>2 DEF Kept, Alters
    <3> QED BY <3>1, <3>2
  <2>6. KeptNamed(k, s, f)
    BY <2>3, <2>4, <2>5 DEF KeptNamed, b
  <2> QED BY <2>1, <2>6 DEF f
<1>3. NamedKeepLoop!Inductive(S)
  BY KeysFinite, FS_Subset, FiniteSmallest DEF SomeSmallest, NamedKeepLoop!Inductive
<1> QED BY <1>1, <1>2, <1>3, NamedKeepLoop!LoopInvariant

LEMMA VersionsNoKeys == Versions \cap Keys = {}
<1>1. Versions \cap Transitions = {} /\ Versions \cap Futures = {}
  BY DEF Versions, Transitions, Futures, TransitionGuard, FuturePhi
<1> QED BY <1>1, NamesAssumption DEF Keys

\* The name that the current block of d has for v is a version, into which the
\* names flow that v had in the blocks before.
JoinedIn(e, d, blocks, v) ==
    LET values == Mapping(d, e.currentBlockName)
    IN  /\ v \in DOMAIN values
        /\ values[v] \in Versions
        /\ \A p \in blocks : <<Mapping(e, p)[v], values[v]>> \in FlowsIn(d.store)

LEMMA JoinVariableNames ==
    ASSUME NEW d, Healthy(d), NEW v \in Variable, NEW k, k.previous \subseteq Block,
           \A p \in k.previous : Mapping(d, p)[v] \in {v} \cup Versions,
           NEW r, r = JoinVariable(k, d, v), r.ok
    PROVE  /\ Kept(d, r.env, {<<d.currentBlockName, v>>})
           /\ JoinedIn(d, r.env, k.previous, v)
<1> DEFINE f == CountVersion(d, v)
           n == getNextVariableName(d, v)
           sources == [p \in k.previous |-> Mapping(d, p)[v]]
           b == d.currentBlockName
<1>1. r = createPhiNodeWithoutCreatedBinders(k.succ, f, v, n, d.variableTypes[v], sources)
  BY DEF JoinVariable
<1>2. /\ n \in Versions
      /\ \A p : Mapping(f, p) = Mapping(d, p)
      /\ Kept(d, f, {})
  BY CountVersionKeeps, CountVersionKept DEF Healthy
<1>3. DOMAIN sources = k.previous /\ \A p \in k.previous : sources[p] = Mapping(d, p)[v]
  OBVIOUS
<1> HIDE DEF f, n, sources
<1>4. Shape(f) /\ DOMAIN sources \subseteq Block /\ f.currentBlockName = b
  BY <1>2, <1>3 DEF Kept, Alters
<1>5. Named(f, r, v, n) /\ SourcesFlow(f, r.env, n, sources, k.previous)
  BY <1>1, <1>3, <1>4, PhiNodeNames
<1>6. /\ Kept(f, r.env, {<<b, v>>})
      /\ v \in DOMAIN Mapping(r.env, b)
      /\ Mapping(r.env, b)[v] = n
  BY <1>4, <1>5 DEF Named
<1>7. Kept(d, r.env, {<<b, v>>})
  <2>1. Kept(d, f, {<<b, v>>})
    BY <1>2, KeptMore
  <2> QED BY <1>6, <2>1, KeptTransitive
<1>8. ASSUME NEW p \in k.previous  PROVE <<Mapping(d, p)[v], n>> \in FlowsIn(r.env.store)
  <2> DEFINE m == Mapping(d, p)[v]
  <2>1. m \in {v} \cup Versions
    OBVIOUS
  <2>2. DOMAIN Mapping(d, p) \subseteq Keys
    BY DEF Healthy, MappingsFit, Fits
  <2>3. Source(f, p, m) = m
    <3>1. m \in DOMAIN Mapping(f, p) => m = v
      BY <1>2, <2>1, <2>2, VersionsNoKeys
    <3> QED BY <1>2, <3>1 DEF Source
  <2> QED BY <1>3, <1>5, <2>3 DEF SourcesFlow
<1> QED BY <1>2, <1>6, <1>7, <1>8 DEF JoinedIn

JoinedNamed(k, s, r) ==
    /\ Keeps(k.env, r)
    /\ r.ok => /\ Kept(k.env, r.env, {k.env.currentBlockName} \X s)
               /\ \A v \in s : JoinedIn(k.env, r.env, k.previous, v)

NamedJoinLoop == INSTANCE LoopTheorems WITH Iteration <- JoinVariable, Invariant <- JoinedNamed

LEMMA AllJoinedNamed ==
    ASSUME NEW k, Healthy(k.env), Running(k.env), k.previous \subseteq Block,
           NEW S \in SUBSET Variable, S # {} => k.previous # {},
           \A v \in S, p \in k.previous : /\ v \in DOMAIN Mapping(k.env, p)
                                          /\ Mapping(k.env, p)[v] \in {v} \cup Versions,
           NEW r, r.env = k.env
    PROVE  JoinedNamed(k, S, NamedJoinLoop!Results(k, S, r)[S])
<1> DEFINE b == k.env.currentBlockName
<1>1. JoinedNamed(k, {}, r)
  <2>1. Kept(k.env, k.env, {}) /\ {} \subseteq {b} \X {}
    BY KeptSame DEF Healthy
  <2>2. Kept(k.env, k.env, {b} \X {})
    BY <2>1, KeptMore
  <2> QED BY <2>2, KeepsReflexive DEF JoinedNamed
<1>2. ASSUME NEW s \in SUBSET S, NEW v \in s, NEW q, JoinedNamed(k, s \ {v}, q)
      PROVE  JoinedNamed(k, s, IF q.ok THEN JoinVariable(k, q.env, v) ELSE q)
  <2>1. CASE ~q.ok
    BY <1>2, <2>1 DEF JoinedNamed
  <2>2. CASE q.ok
    <3> DEFINE f == JoinVariable(k, q.env, v)
               T == {b} \X s
    <3>1. /\ Healthy(q.env) /\ Running(q.env)
          /\ q.env.currentBlockName = b
          /\ v \in Variable /\ b \in Block
      BY <1>2, <2>2, RunningStays DEF JoinedNamed, Keeps, Leads, Within, Stays, Running
    <3>2. Keeps(q.env, f)
      BY <3>1, JoinVariableKeeps
    <3>3. Kept(k.env, q.env, {b} \X (s \ {v}))
      BY <1>2, <2>2 DEF JoinedNamed
    <3>4. ASSUME NEW p \in k.previous  PROVE Mapping(q.env, p)[v] = Mapping(k.env, p)[v]
      <4>1. <<p, v>> \notin {b} \X (s \ {v}) /\ p \in Block
        OBVIOUS
      <4>2. v \in DOMAIN Mapping(k.env, p) => Mapping(q.env, p)[v] = Mapping(k.env, p)[v]
        BY <3>3, <4>1 DEF Kept, Alters
      <4> QED BY <4>2
    <3>5. ASSUME f.ok
          PROVE  Kept(q.env, f.env, {<<b, v>>}) /\ JoinedIn(q.env, f.env, k.previous, v)
      <4>1. \A p \in k.previous : Mapping(q.env, p)[v] \in {v} \cup Versions
        BY <3>4
      <4> QED BY <3>1, <3>5, <4>1, JoinVariableNames
    <3> HIDE DEF f
    <3>6. Keeps(k.env, f)
      BY <1>2, <2>2, <3>2, KeepsTransitive DEF JoinedNamed
    <3>7. ASSUME f.ok  PROVE Kept(k.env, f.env, T)
      <4>1. {b} \X (s \ {v}) \subseteq T /\ {<<b, v>>} \subseteq T
        OBVIOUS
      <4> HIDE DEF T, b
      <4>2. Kept(k.env, q.env, T) /\ Kept(q.env, f.env, T)
        BY <3>3, <3>5, <3>7, <4>1, KeptMore
      <4> QED BY <4>2, KeptTransitive
    <3>8. ASSUME f.ok, NEW w \in s  PROVE JoinedIn(k.env, f.env, k.previous, w)
      <4>1. CASE w = v
        BY <3>1, <3>4, <3>5, <3>8, <4>1 DEF JoinedIn
      <4>2. CASE w # v
        <5>1. JoinedIn(k.env, q.env, k.previous, w)
          BY <1>2, <2>2, <4>2 DEF JoinedNamed
        <5>2. <<b, w>> \notin {<<b, v>>}
          BY <4>2
        <5> HIDE DEF b
        <5>3. FlowsIn(q.env.store) \subseteq FlowsIn(f.env.store)
          BY <3>5, <3>8, FlowsGrow DEF Kept, Alters
        <5>4. /\ w \in DOMAIN Mapping(q.env, b) => w \in DOMAIN Mapping(f.env, b)
              /\ w \in DOMAIN Mapping(q.env, b) => Mapping(f.env, b)[w] = Mapping(q.env, b)[w]
          BY <3>1, <3>5, <3>8, <5>2 DEF Kept, Alters
        <5> QED BY <5>1, <5>3, <5>4 DEF JoinedIn, b
      <4> QED BY <4>1, <4>2
    <3>9. JoinedNamed(k, s, f)
      BY <3>6, <3>7, <3>8 DEF JoinedNamed
    <3> QED BY <2>2, <3>9 DEF f
  <2> QED BY <2>1, <2>2
<1>3. NamedJoinLoop!Inductive(S)
  BY VariableAssumption, FS_Subset, FiniteSmallest DEF SomeSmallest, NamedJoinLoop!Inductive
<1> QED BY <1>1, <1>2, <1>3, NamedJoinLoop!LoopInvariant

--------------------------------------------------------------------------------
\* The current block gets the variables that all blocks before it have: under
\* their name if it is the same in all of them, and under a version otherwise.
Inherited(e, d, previous) ==
    LET b == e.currentBlockName
        common == CommonVariables(e, previous)
    IN  /\ Kept(e, d, {b} \X common)
        /\ \A x \in common :
              LET n == Mapping(d, b)[x]
              IN  /\ x \in DOMAIN Mapping(d, b)
                  /\ \A p \in previous : FlowsBetween(FlowsIn(d.store), Mapping(e, p)[x], n)
                  /\ \/ \A p \in previous : Mapping(e, p)[x] = n
                     \/ /\ n \in Versions
                        /\ x \in Variable
                        /\ \E p, q \in previous : Mapping(e, p)[x] # Mapping(e, q)[x]

LEMMA InheritNames ==
    ASSUME NEW e, Healthy(e), Running(e), NEW previous \in SUBSET Block, NEW g,
           \A p \in previous, v \in Variable :
              v \in DOMAIN Mapping(e, p) => Mapping(e, p)[v] \in {v} \cup Versions,
           NEW r, r = inheritVariables(g, e, previous), r.ok
    PROVE  Inherited(e, r.env, previous)
<1> DEFINE b == e.currentBlockName
           agree(v) == \A p, q \in previous : Mapping(e, p)[v] = Mapping(e, q)[v]
           common == CommonVariables(e, previous)
           A == {v \in common : agree(v)}
           B == {v \in common : ~agree(v)}
           h == [env |-> e, p |-> CHOOSE p \in previous : TRUE]
           kept == NamedKeepLoop!Results(h, A, Succeed(e))[A]
           f == kept.env
           k == [succ |-> g, env |-> f, previous |-> previous]
           joined == NamedJoinLoop!Results(k, B, kept)[B]
           d == r.env
           T == {b} \X common
<1>1. r = joined
  <2>1. inheritVariables(g, e, previous) = joined
    BY SMTT(30) DEF inheritVariables, ForEach, FoldSet, MapThenFoldSet, NamedKeepLoop!Results,
           NamedJoinLoop!Results, KeepVariable, JoinVariable
  <2> HIDE DEF joined
  <2> QED BY SMTT(30), <2>1
<1>2. previous # {} => h.p \in previous
  OBVIOUS
<1>3. /\ A \subseteq common /\ B \subseteq common /\ common = A \cup B /\ A \cap B = {}
      /\ previous = {} => A = {} /\ B = {}
      /\ \A x \in common, p \in previous : x \in DOMAIN Mapping(e, p)
  BY DEF CommonVariables
<1>4. A \subseteq DOMAIN Mapping(e, h.p) /\ A \subseteq Keys
  <2>1. \A p \in previous : DOMAIN Mapping(e, p) \subseteq Keys
    BY DEF Healthy, MappingsFit, Fits
  <2> QED BY <1>2, <1>3, <2>1
<1>5. B \subseteq Variable
  <2> SUFFICES ASSUME NEW v \in B, v \notin Variable  PROVE FALSE
    OBVIOUS
  <2>1. PICK p \in previous, q \in previous : Mapping(e, p)[v] # Mapping(e, q)[v]
    OBVIOUS
  <2>2. v \in DOMAIN Mapping(e, p) /\ v \in DOMAIN Mapping(e, q)
    BY DEF CommonVariables
  <2>3. Mapping(e, p)[v] = v /\ Mapping(e, q)[v] = v
    BY <2>2 DEF Healthy, MappingsFit, Fits
  <2> QED BY <2>1, <2>3
<1>6. /\ \A x \in A, p \in previous : Mapping(e, h.p)[x] = Mapping(e, p)[x]
      /\ \A x \in B : \E p, q \in previous : Mapping(e, p)[x] # Mapping(e, q)[x]
  BY <1>2
<1>7. h.env = e /\ k.env = f /\ k.previous = previous /\ b \in Block
  BY DEF Running
<1> HIDE DEF k, h, A, B, common
<1>8. /\ Keeps(e, kept)
      /\ Kept(e, f, {b} \X A)
      /\ \A x \in A : x \in DOMAIN Mapping(f, b) /\ Mapping(f, b)[x] = Mapping(e, h.p)[x]
  <2>1. KeptNamed(h, A, kept)
    BY <1>4, <1>7, AllKeptNamed DEF Healthy
  <2>2. Keeps(e, kept)
    <3>1. A # {} => h.p \in Block
      BY <1>2, <1>3
    <3>2. VariablesKept(h, A, KeepLoop!Results(h, A, Succeed(e))[A])
      BY <1>4, <1>7, <3>1, AllVariablesKept
    <3>3. KeepLoop!Results(h, A, Succeed(e)) = NamedKeepLoop!Results(h, A, Succeed(e))
      BY DEF KeepLoop!Results, NamedKeepLoop!Results
    <3> QED BY <1>7, <3>2, <3>3 DEF VariablesKept
  <2> HIDE DEF kept
  <2> QED BY <1>7, <2>1, <2>2 DEF KeptNamed
<1> HIDE DEF kept
<1>9. Healthy(f) /\ Running(f) /\ f.currentBlockName = b
  BY <1>8, RunningStays DEF Keeps, Leads, Within, Stays
<1>10. ASSUME NEW x \in B, NEW p \in previous
       PROVE  /\ x \in DOMAIN Mapping(f, p)
              /\ Mapping(f, p)[x] = Mapping(e, p)[x]
              /\ Mapping(f, p)[x] \in {x} \cup Versions
  <2>1. <<p, x>> \notin {b} \X A /\ p \in Block /\ x \in DOMAIN Mapping(e, p) /\ x \in Variable
    BY <1>3, <1>5
  <2>2. x \in DOMAIN Mapping(f, p) /\ Mapping(f, p)[x] = Mapping(e, p)[x]
    BY <1>8, <2>1 DEF Kept, Alters
  <2> QED BY <2>1, <2>2
<1> HIDE DEF f
<1>11. /\ Kept(f, d, {b} \X B)
       /\ \A x \in B : JoinedIn(f, d, previous, x)
  <2>1. JoinedNamed(k, B, joined)
    <3>1. B # {} => k.previous # {}
      BY <1>3, <1>7
    <3>2. kept.env = k.env
      BY <1>7 DEF f
    <3> QED BY <1>5, <1>7, <1>9, <1>10, <3>1, <3>2, AllJoinedNamed
  <2> HIDE DEF joined
  <2> QED BY <1>1, <1>7, <1>9, <2>1 DEF JoinedNamed
<1> HIDE DEF joined, d, b
<1>12. Kept(e, d, T)
  <2>1. {b} \X A \subseteq T /\ {b} \X B \subseteq T
    BY <1>3
  <2> HIDE DEF T
  <2>2. Kept(e, f, T) 
    BY <1>8, <2>1, KeptMore
  <2>3. Kept(f, d, T)
    BY <1>11, <2>1, KeptMore
  <2> QED BY <2>2, <2>3, KeptTransitive
<1>13. ASSUME NEW x \in A
       PROVE  /\ x \in DOMAIN Mapping(d, b)
              /\ \A p \in previous : Mapping(e, p)[x] = Mapping(d, b)[x]
  <2>1. <<b, x>> \notin {b} \X B
    BY <1>3
  <2>2. x \in DOMAIN Mapping(d, b) /\ Mapping(d, b)[x] = Mapping(f, b)[x]
    BY <1>7, <1>8, <1>11, <2>1 DEF Kept, Alters
  <2> QED BY <1>6, <1>8, <2>2
<1>14. ASSUME NEW x \in common
       PROVE  LET n == Mapping(d, b)[x]
              IN  /\ x \in DOMAIN Mapping(d, b)
                  /\ \A p \in previous : FlowsBetween(FlowsIn(d.store), Mapping(e, p)[x], n)
                  /\ \/ \A p \in previous : Mapping(e, p)[x] = n
                     \/ /\ n \in Versions
                        /\ x \in Variable
                        /\ \E p, q \in previous : Mapping(e, p)[x] # Mapping(e, q)[x]
  <2>1. CASE x \in A
    BY <1>13, <2>1, FlowSelf
  <2>2. CASE x \in B
    <3>1. JoinedIn(f, d, previous, x)
      BY <1>11, <2>2
    <3>2. /\ x \in DOMAIN Mapping(d, b)
          /\ Mapping(d, b)[x] \in Versions
          /\ \A p \in previous : <<Mapping(f, p)[x], Mapping(d, b)[x]>> \in FlowsIn(d.store)
      BY <1>9, <3>1 DEF JoinedIn
    <3>3. \A p \in previous : <<Mapping(e, p)[x], Mapping(d, b)[x]>> \in FlowsIn(d.store)
      BY <1>10, <2>2, <3>2
    <3>4. \E p, q \in previous : Mapping(e, p)[x] # Mapping(e, q)[x]
      BY <1>6, <2>2
    <3> QED BY <1>5, <2>2, <3>2, <3>3, <3>4, FlowStep
  <2> QED BY <1>3, <2>1, <2>2
<1> QED BY <1>12, <1>14 DEF Inherited, b, d, common

--------------------------------------------------------------------------------
LEMMA CarriedLater ==
    ASSUME NEW e, NEW d, NEW f, NEW T, Carried(e, d), Kept(d, f, T)
    PROVE  Carried(e, f)
<1>1. SameRoles(e, f)
  BY DEF Carried, Kept, SameRoles
<1>2. Grown(e.store, f.store)
  BY GrownTransitive DEF Carried, Kept, Alters
<1>3. FlowsIn(d.store) \subseteq FlowsIn(f.store)
  BY FlowsGrow DEF Kept, Alters
<1>4. \A p \in Block \ {e.currentBlockName}, v \in Variable : Due(e, p, v) => Due(f, p, v)
  BY DEF Carried, Kept, Alters
<1> QED BY <1>1, <1>2, <1>3, <1>4 DEF Carried

Begun(e) == e.finishedBlocks \cup {e.currentBlockName}

Changing(e) == e.outputVariables \cup e.mutableVariables

\* A variable has its own name or, if it may change, a version; and where
\* nothing has happened yet, no such variable is mapped.
Names(e) ==
    /\ e.outputVariables \cap e.mutableVariables = {}
    /\ Changing(e) \subseteq Bound(e.store)
    /\ \A c \in Block, v \in Variable :
          v \in DOMAIN Mapping(e, c) =>
              /\ v \in Bound(e.store)
              /\ Mapping(e, c)[v] = v \/ (v \in Changing(e) /\ Mapping(e, c)[v] \in Versions)
              /\ c \notin Begun(e) => v \notin Changing(e)

\* All blocks of a set that is not empty have v.
AllHave(e, blocks, v) == blocks # {} /\ \A p \in blocks : v \in DOMAIN Mapping(e, p)

\* How f, when block b is about to inherit, compares with e, before the start
\* of the block.
Ready(g, e, f, b, finished, unfinished) ==
    /\ unfinished # {} =>
          \E p \in Block : finished = {p} /\ \A u \in unfinished : Dominates(g, p, u)
    /\ \A c \in Block, v \in Variable :
          /\ v \in DOMAIN Mapping(f, c) <=>
                \/ v \in DOMAIN Mapping(e, c)
                \/ c \in unfinished /\ AllHave(e, finished, v) /\ v \notin Changing(e)
                \/ c = b /\ unfinished # {} /\ AllHave(e, finished, v) /\ v \in e.mutableVariables
          /\ v \in DOMAIN Mapping(e, c) =>
                \/ Mapping(f, c)[v] = Mapping(e, c)[v]
                \/ c = b /\ unfinished # {} /\ AllHave(e, finished, v) /\ v \in e.mutableVariables
          /\ c \in unfinished /\ AllHave(e, finished, v) /\ v \notin Changing(e) =>
                Mapping(f, c)[v] = v
    /\ \A v \in e.mutableVariables \cap Variable :
          unfinished # {} /\ AllHave(e, finished, v) =>
              LET n == Mapping(f, b)[v]
              IN  /\ n \in Versions
                  /\ \A p \in finished : <<Mapping(e, p)[v], n>> \in FlowsIn(f.store)
                  /\ \A u \in unfinished :
                        <<FuturePhi(u, v), n>> \in FlowsIn(f.store) /\ Due(f, u, v)

LEMMA CommonReady ==
    ASSUME NEW e, Names(e), NEW h, SameNames(e, h, Block), SameRoles(e, h),
           NEW b \in Block, h.currentBlockName = b, b \notin h.finishedBlocks,
           NEW previous \in SUBSET Block, NEW g, NEW f, CommonNamed(g, h, f, previous)
    PROVE  Ready(g, e, f, b, previous \cap h.finishedBlocks, previous \ h.finishedBlocks)
<1> DEFINE finished == previous \cap h.finishedBlocks
           unfinished == previous \ h.finishedBlocks
<1>0. /\ h.mutableVariables = e.mutableVariables
      /\ h.mutableVariables \cup h.outputVariables = Changing(e)
      /\ e.mutableVariables \subseteq Changing(e)
  BY DEF SameRoles, Changing
<1>1. CASE unfinished = {}
  <2>1. Kept(h, f, {})
    BY <1>1 DEF CommonNamed
  <2>2. ASSUME NEW c \in Block, NEW v \in Variable
        PROVE  /\ v \in DOMAIN Mapping(f, c) <=> v \in DOMAIN Mapping(e, c)
               /\ v \in DOMAIN Mapping(e, c) => Mapping(f, c)[v] = Mapping(e, c)[v]
    BY <2>1 DEF Kept, Alters, SameNames
  <2> HIDE DEF finished, unfinished
  <2>3. Ready(g, e, f, b, finished, unfinished)
    BY <1>1, <2>2 DEF Ready
  <2> QED BY <2>3 DEF finished, unfinished
<1>2. CASE unfinished # {}
  <2>1. PICK p \in Block : /\ finished = {p}
                           /\ \A u \in unfinished : Dominates(g, p, u)
                           /\ Anticipated(h, f, p, unfinished)
    BY <1>2 DEF CommonNamed
  <2>2. p \notin unfinished /\ p # b /\ unfinished \subseteq Block
    BY <2>1
  <2> HIDE DEF finished, unfinished
  <2>3. \A v : AllHave(e, finished, v) <=> v \in DOMAIN Mapping(e, p)
    BY <2>1 DEF AllHave
  <2> DEFINE V == DOMAIN Mapping(h, p) \cap h.mutableVariables
             I == DOMAIN Mapping(h, p) \ (h.mutableVariables \cup h.outputVariables)
             T == ({b} \X V) \cup (unfinished \X I)
  <2>4. /\ Kept(h, f, T)
        /\ \A v \in V : Anticipates(h, f, p, unfinished, v)
        /\ \A u \in unfinished, x \in I :
              x \in DOMAIN Mapping(f, u) /\ Mapping(f, u)[x] = Mapping(h, p)[x]
    BY <2>1 DEF Anticipated
  <2>5. ASSUME NEW v \in Variable
        PROVE  /\ v \in V <=> AllHave(e, finished, v) /\ v \in e.mutableVariables
               /\ v \in I <=> AllHave(e, finished, v) /\ v \notin Changing(e)
               /\ v \in DOMAIN Mapping(e, p) => Mapping(h, p)[v] = Mapping(e, p)[v]
    BY <1>0, <2>3 DEF SameNames
  <2>6. ASSUME NEW c \in Block, NEW v \in Variable
        PROVE  <<c, v>> \in T <=> \/ c = b /\ v \in V
                                  \/ c \in unfinished /\ v \in I
    OBVIOUS
  <2> HIDE DEF V, I, T
  <2>7. ASSUME NEW c \in Block, NEW v \in Variable,
               ~(c = b /\ v \in V), ~(c \in unfinished /\ v \in I)
        PROVE  /\ v \in DOMAIN Mapping(f, c) <=> v \in DOMAIN Mapping(e, c)
               /\ v \in DOMAIN Mapping(e, c) => Mapping(f, c)[v] = Mapping(e, c)[v]
    <3>1. <<c, v>> \notin T
      BY <2>6, <2>7
    <3> QED BY <2>4, <3>1 DEF Kept, Alters, SameNames
  <2>8. ASSUME NEW v \in Variable, v \in V
        PROVE  LET n == Mapping(f, b)[v]
               IN  /\ v \in DOMAIN Mapping(f, b)
                   /\ n \in Versions
                   /\ <<Mapping(e, p)[v], n>> \in FlowsIn(f.store)
                   /\ \A u \in unfinished :
                         <<FuturePhi(u, v), n>> \in FlowsIn(f.store) /\ Due(f, u, v)
    <3>1. v \in DOMAIN Mapping(e, p) /\ Mapping(h, p)[v] = Mapping(e, p)[v]
      BY <2>3, <2>5, <2>8
    <3> QED BY <2>4, <2>8, <3>1 DEF Anticipates
  <2>9. ASSUME NEW u \in unfinished, NEW v \in Variable, v \in I
        PROVE  v \in DOMAIN Mapping(f, u) /\ Mapping(f, u)[v] = v
    <3>1. v \in DOMAIN Mapping(e, p) /\ v \notin Changing(e) /\ Mapping(h, p)[v] = Mapping(e, p)[v]
      BY <2>3, <2>5, <2>9
    <3>2. Mapping(e, p)[v] = v
      BY <3>1 DEF Names
    <3> QED BY <2>4, <2>9, <3>1, <3>2
  <2>10. ASSUME NEW c \in Block, NEW v \in Variable
         PROVE  /\ v \in DOMAIN Mapping(f, c) <=>
                      \/ v \in DOMAIN Mapping(e, c)
                      \/ c \in unfinished /\ AllHave(e, finished, v) /\ v \notin Changing(e)
                      \/ c = b /\ AllHave(e, finished, v) /\ v \in e.mutableVariables
                /\ v \in DOMAIN Mapping(e, c) =>
                      \/ Mapping(f, c)[v] = Mapping(e, c)[v]
                      \/ c = b /\ AllHave(e, finished, v) /\ v \in e.mutableVariables
                /\ c \in unfinished /\ AllHave(e, finished, v) /\ v \notin Changing(e) =>
                      Mapping(f, c)[v] = v
    <3>1. CASE ~(c = b /\ v \in V) /\ ~(c \in unfinished /\ v \in I)
      BY <2>5, <2>7, <3>1
    <3>2. CASE c = b /\ v \in V
      BY <1>0, <2>5, <2>8, <3>2
    <3>3. CASE c \in unfinished /\ v \in I
      <4>1. v \in DOMAIN Mapping(e, c) => Mapping(e, c)[v] = v
        BY <2>5, <3>3 DEF Names
      <4> QED BY <1>0, <2>5, <2>9, <3>3, <4>1
    <3> QED BY <3>1, <3>2, <3>3
  <2>11. ASSUME NEW v \in e.mutableVariables \cap Variable, AllHave(e, finished, v)
         PROVE  LET n == Mapping(f, b)[v]
                IN  /\ n \in Versions
                    /\ \A q \in finished : <<Mapping(e, q)[v], n>> \in FlowsIn(f.store)
                    /\ \A u \in unfinished :
                          <<FuturePhi(u, v), n>> \in FlowsIn(f.store) /\ Due(f, u, v)
    <3>1. v \in V
      BY <2>5, <2>11
    <3> QED BY <2>1, <2>8, <3>1
  <2>12. Ready(g, e, f, b, finished, unfinished)
    BY <1>2, <2>1, <2>10, <2>11 DEF Ready
  <2> QED BY <2>12 DEF finished, unfinished
<1> QED BY <1>1, <1>2

--------------------------------------------------------------------------------
\* The started block inherits v: outputs are dropped when a block is waited for.
Inherits(e, finished, unfinished, v) ==
    AllHave(e, finished, v) /\ (v \in e.outputVariables => unfinished = {})

\* What starting block b makes of e, when of the blocks before b those in
\* finished are finished and those in unfinished are not.
Entered(g, e, d, b, finished, unfinished) ==
    /\ Carried(e, d)
    /\ unfinished # {} =>
          \E p \in Block : finished = {p} /\ \A u \in unfinished : Dominates(g, p, u)
    /\ \A c \in Block \ {b}, v \in Variable :
          LET shared == c \in unfinished /\ AllHave(e, finished, v) /\ v \notin Changing(e)
          IN  /\ v \in DOMAIN Mapping(d, c) <=> v \in DOMAIN Mapping(e, c) \/ shared
              /\ v \in DOMAIN Mapping(e, c) => Mapping(d, c)[v] = Mapping(e, c)[v]
              /\ shared => Mapping(d, c)[v] = v
    /\ \A v \in Variable :
          LET n == Mapping(d, b)[v]
          IN  /\ v \in DOMAIN Mapping(d, b) <=>
                    v \in DOMAIN Mapping(e, b) \/ Inherits(e, finished, unfinished, v)
              /\ v \in DOMAIN Mapping(d, b) => n = v \/ (v \in Changing(e) /\ n \in Versions)
              /\ Inherits(e, finished, unfinished, v) =>
                    /\ \A p \in finished : FlowsBetween(FlowsIn(d.store), Mapping(e, p)[v], n)
                    /\ v \in e.mutableVariables =>
                          \A u \in unfinished :
                              Due(d, u, v) /\ FlowsBetween(FlowsIn(d.store), FuturePhi(u, v), n)

LEMMA ReadyEntered ==
    ASSUME NEW e, Names(e), NEW f, Carried(e, f), NEW d, NEW b \in Block, f.currentBlockName = b,
           NEW finished \in SUBSET Block, NEW unfinished \in SUBSET Block,
           finished \cap unfinished = {}, b \notin finished,
           unfinished # {} => finished # {},
           \A c \in unfinished \cup {b} : c \notin Begun(e),
           NEW g, Ready(g, e, f, b, finished, unfinished), Inherited(f, d, finished \cup unfinished)
    PROVE  Entered(g, e, d, b, finished, unfinished)
<1> DEFINE previous == finished \cup unfinished
           common == CommonVariables(f, previous)
           T == {b} \X common
           phi(v) == unfinished # {} /\ AllHave(e, finished, v) /\ v \in e.mutableVariables
           shared(c, v) == c \in unfinished /\ AllHave(e, finished, v) /\ v \notin Changing(e)
           inherits(v) == Inherits(e, finished, unfinished, v)
           flows == FlowsIn(d.store)
<1>1. /\ Kept(f, d, T)
      /\ \A x \in common :
            LET n == Mapping(d, b)[x]
            IN  /\ x \in DOMAIN Mapping(d, b)
                /\ \A p \in previous : FlowsBetween(flows, Mapping(f, p)[x], n)
                /\ \/ \A p \in previous : Mapping(f, p)[x] = n
                   \/ /\ n \in Versions
                      /\ x \in Variable
                      /\ \E p, q \in previous : Mapping(f, p)[x] # Mapping(f, q)[x]
  BY DEF Inherited
<1>2. ASSUME NEW c \in Block, NEW v \in Variable
      PROVE  /\ v \in DOMAIN Mapping(f, c) <=>
                   v \in DOMAIN Mapping(e, c) \/ shared(c, v) \/ (c = b /\ phi(v))
             /\ v \in DOMAIN Mapping(e, c) /\ ~(c = b /\ phi(v)) =>
                   Mapping(f, c)[v] = Mapping(e, c)[v]
             /\ shared(c, v) => Mapping(f, c)[v] = v
  BY DEF Ready
<1>3. ASSUME NEW v \in Variable, phi(v)
      PROVE  LET m == Mapping(f, b)[v]
             IN  /\ v \in DOMAIN Mapping(f, b)
                 /\ m \in Versions
                 /\ \A p \in finished : FlowsBetween(flows, Mapping(e, p)[v], m)
                 /\ \A u \in unfinished : FlowsBetween(flows, FuturePhi(u, v), m) /\ Due(d, u, v)
  <2>1. LET m == Mapping(f, b)[v]
        IN  /\ m \in Versions
            /\ \A p \in finished : <<Mapping(e, p)[v], m>> \in FlowsIn(f.store)
            /\ \A u \in unfinished : <<FuturePhi(u, v), m>> \in FlowsIn(f.store) /\ Due(f, u, v)
    BY <1>3 DEF Ready
  <2>2. v \in DOMAIN Mapping(f, b)
    BY <1>2, <1>3
  <2>3. FlowsIn(f.store) \subseteq flows
    BY <1>1, FlowsGrow DEF Kept, Alters
  <2>4. \A u \in unfinished : Due(f, u, v) => Due(d, u, v)
    BY <1>1 DEF Kept, Alters
  <2> HIDE DEF flows
  <2> QED BY <2>1, <2>2, <2>3, <2>4, FlowStep
<1>4. \A x : x \in common <=> previous # {} /\ \A p \in previous : x \in DOMAIN Mapping(f, p)
  BY DEF CommonVariables
<1>5. \A v \in Variable, c \in unfinished \cup {b} : v \in Changing(e) => v \notin DOMAIN Mapping(e, c)
  BY DEF Names
<1>6. ASSUME NEW v \in Variable, NEW p \in finished
      PROVE  /\ v \in DOMAIN Mapping(f, p) <=> v \in DOMAIN Mapping(e, p)
             /\ v \in DOMAIN Mapping(e, p) => Mapping(f, p)[v] = Mapping(e, p)[v]
  BY <1>2
<1>7. e.mutableVariables \subseteq Changing(e) /\ e.outputVariables \subseteq Changing(e)
      /\ Changing(e) = e.outputVariables \cup e.mutableVariables
      /\ e.outputVariables \cap e.mutableVariables = {}
  BY DEF Changing, Names
<1> HIDE DEF common, flows
<1>8. ASSUME NEW v \in Variable
      PROVE  /\ v \in common => AllHave(e, finished, v)
             /\ v \in common /\ v \in Changing(e) => unfinished \subseteq {b}
             /\ v \in common => inherits(v)
             /\ inherits(v) => v \in common \/ phi(v)
             /\ inherits(v) /\ v \notin Changing(e) => v \in common
  <2>1. v \in common => AllHave(e, finished, v)
    BY <1>4, <1>6 DEF AllHave
  <2>2. ASSUME v \in common, v \in Changing(e), NEW u \in unfinished
        PROVE  u = b /\ phi(v)
    <3>1. v \in DOMAIN Mapping(f, u) /\ u \in Block /\ v \notin DOMAIN Mapping(e, u)
      BY <1>4, <1>5, <2>2
    <3> QED BY <1>2, <2>2, <3>1
  <2>3. v \in common => inherits(v)
    BY <1>7, <2>1, <2>2 DEF Inherits
  <2>4. ASSUME AllHave(e, finished, v), v \notin Changing(e)  PROVE v \in common
    <3>1. \A p \in finished : v \in DOMAIN Mapping(f, p)
      BY <1>6, <2>4 DEF AllHave
    <3>2. \A u \in unfinished : v \in DOMAIN Mapping(f, u)
      BY <1>2, <2>4
    <3> QED BY <1>4, <2>4, <3>1, <3>2 DEF AllHave
  <2>5. ASSUME AllHave(e, finished, v), unfinished = {}  PROVE v \in common
    BY <1>4, <1>6, <2>5 DEF AllHave
  <2> QED BY <1>7, <2>1, <2>2, <2>3, <2>4, <2>5 DEF Inherits
<1>9. ASSUME NEW v \in Variable, v \notin common
      PROVE  /\ v \in DOMAIN Mapping(d, b) <=> v \in DOMAIN Mapping(f, b)
             /\ v \in DOMAIN Mapping(f, b) => Mapping(d, b)[v] = Mapping(f, b)[v]
  <2>1. <<b, v>> \notin T
    BY <1>9
  <2> QED BY <1>1, <2>1 DEF Kept, Alters
<1>10. ASSUME NEW c \in Block \ {b}, NEW v \in Variable
       PROVE  /\ v \in DOMAIN Mapping(d, c) <=> v \in DOMAIN Mapping(e, c) \/ shared(c, v)
              /\ v \in DOMAIN Mapping(e, c) => Mapping(d, c)[v] = Mapping(e, c)[v]
              /\ shared(c, v) => Mapping(d, c)[v] = v
  <2>1. <<c, v>> \notin T
    OBVIOUS
  <2>2. /\ v \in DOMAIN Mapping(d, c) <=> v \in DOMAIN Mapping(f, c)
        /\ v \in DOMAIN Mapping(f, c) => Mapping(d, c)[v] = Mapping(f, c)[v]
    BY <1>1, <2>1 DEF Kept, Alters
  <2> HIDE DEF shared, phi
  <2> QED BY <1>2, <2>2
<1>11. ASSUME NEW v \in Variable
       PROVE  v \in DOMAIN Mapping(d, b) <=> v \in DOMAIN Mapping(e, b) \/ inherits(v)
  <2>1. CASE v \in common
    BY <1>1, <1>8, <2>1
  <2>2. CASE v \notin common
    <3>1. shared(b, v) => inherits(v)
      BY <1>7 DEF Inherits
    <3>2. phi(v) => inherits(v)
      BY <1>7 DEF Inherits
    <3> HIDE DEF shared, phi, inherits
    <3> QED BY <1>2, <1>8, <1>9, <2>2, <3>1, <3>2
  <2> QED BY <2>1, <2>2
<1>12. ASSUME NEW v \in Variable, v \in common, v \notin Changing(e)
       PROVE  Mapping(d, b)[v] = v
  <2>1. ASSUME NEW p \in previous  PROVE Mapping(f, p)[v] = v
    <3>1. CASE p \in finished
      <4>1. v \in DOMAIN Mapping(e, p) /\ Mapping(f, p)[v] = Mapping(e, p)[v]
        BY <1>4, <1>6, <1>12, <3>1
      <4> QED BY <1>12, <3>1, <4>1 DEF Names
    <3>2. CASE p \in unfinished
      BY <1>2, <1>8, <1>12, <3>2
    <3> QED BY <3>1, <3>2
  <2> HIDE DEF previous
  <2> QED BY <1>1, <1>4, <1>12, <2>1
<1>13. ASSUME NEW v \in Variable, v \in DOMAIN Mapping(d, b)
       PROVE  LET n == Mapping(d, b)[v] IN n = v \/ (v \in Changing(e) /\ n \in Versions)
  <2>1. CASE v \in common /\ v \notin Changing(e)
    BY <1>12, <2>1
  <2>2. CASE v \in common /\ v \in Changing(e)
    <3>1. PICK p \in finished : v \in DOMAIN Mapping(e, p)
      BY <1>8, <2>2 DEF AllHave
    <3>2. Mapping(f, p)[v] = Mapping(e, p)[v] /\ p \in Block
      BY <1>6, <3>1
    <3>3. Mapping(e, p)[v] = v \/ Mapping(e, p)[v] \in Versions
      BY <3>1, <3>2 DEF Names
    <3> QED BY <1>1, <2>2, <3>2, <3>3
  <2>3. CASE v \notin common /\ phi(v)
    BY <1>3, <1>7, <1>9, <2>3
  <2>4. CASE v \notin common /\ ~phi(v)
    <3>1. v \in DOMAIN Mapping(e, b)
      BY <1>8, <1>11, <1>13, <2>4
    <3>2. Mapping(d, b)[v] = Mapping(e, b)[v]
      BY <1>2, <1>9, <2>4, <3>1
    <3> QED BY <3>1, <3>2 DEF Names
  <2> QED BY <2>1, <2>2, <2>3, <2>4
<1>14. ASSUME NEW v \in Variable, inherits(v), NEW p \in finished
       PROVE  FlowsBetween(flows, Mapping(e, p)[v], Mapping(d, b)[v])
  <2>1. v \in DOMAIN Mapping(e, p) /\ Mapping(f, p)[v] = Mapping(e, p)[v]
    BY <1>6, <1>14 DEF Inherits, AllHave
  <2>2. CASE v \in common
    BY <1>1, <2>1, <2>2
  <2>3. CASE v \notin common
    BY <1>3, <1>8, <1>9, <1>14, <2>3
  <2> QED BY <2>2, <2>3
<1>15. ASSUME NEW v \in Variable, inherits(v), v \in e.mutableVariables, NEW u \in unfinished
       PROVE  Due(d, u, v) /\ FlowsBetween(flows, FuturePhi(u, v), Mapping(d, b)[v])
  <2>1. phi(v)
    BY <1>15 DEF Inherits
  <2>2. Due(d, u, v) /\ FlowsBetween(flows, FuturePhi(u, v), Mapping(f, b)[v])
    BY <1>3, <2>1
  <2>3. CASE v \in common
    <3>1. u = b
      BY <1>7, <1>8, <1>15, <2>3
    <3>2. FlowsBetween(flows, Mapping(f, b)[v], Mapping(d, b)[v])
      BY <1>1, <2>3, <3>1
    <3> QED BY <2>2, <3>2, FlowTransitive
  <2>4. CASE v \notin common
    BY <1>3, <1>9, <2>1, <2>2, <2>4
  <2> QED BY <2>3, <2>4
<1>16. /\ Carried(e, d)
       /\ unfinished # {} =>
             \E p \in Block : finished = {p} /\ \A u \in unfinished : Dominates(g, p, u)
  BY <1>1, CarriedLater DEF Ready
<1> HIDE DEF inherits, shared
<1>17. \A c \in Block \ {b}, v \in Variable :
             /\ v \in DOMAIN Mapping(d, c) <=> v \in DOMAIN Mapping(e, c) \/ shared(c, v)
             /\ v \in DOMAIN Mapping(e, c) => Mapping(d, c)[v] = Mapping(e, c)[v]
             /\ shared(c, v) => Mapping(d, c)[v] = v
  BY <1>10
<1> QED BY <1>11, <1>13, <1>14, <1>15, <1>16, <1>17 DEF Entered, inherits, shared, flows

--------------------------------------------------------------------------------
\* Leaving the current block, or setting up the guards when there is none.
LEMMA DepartNames ==
    ASSUME NEW e, Healthy(e), Owed(e), e.currentBlockName \notin e.finishedBlocks,
           NEW g \in [Block -> Terminators],
           NEW r, r = IF e.currentBlockName = NoBlock THEN initializeBlockGuards(g, e) ELSE endBlock(e),
           r.ok
    PROVE  Ended(e, r.env)
<1>1. CASE e.currentBlockName # NoBlock
  BY <1>1, EndBlockNames DEF Healthy, Running
<1>2. CASE e.currentBlockName = NoBlock
  <2> DEFINE T == Block \X Transitions
  <2>1. Kept(e, r.env, T)
    BY <1>2, InitializeNames DEF Healthy
  <2>2. \A c \in Block, x \in Variable : <<c, x>> \notin T
    BY NamesAssumption
  <2>3. Mapping(e, NoBlock) = << >>
    BY BlockAssumption DEF Healthy, MappingsFit, Mapping
  <2> HIDE DEF T
  <2>4. SameNames(e, r.env, Block) /\ Shape(r.env)
    BY <2>1, <2>2 DEF Kept, Alters, SameNames
  <2>5. Carried(e, r.env)
    BY <1>2, <2>1, <2>3 DEF Kept, Alters, Carried
  <2> QED BY <2>4, <2>5 DEF Ended
<1> QED BY <1>1, <1>2

LEMMA EnterNames ==
    ASSUME NEW e, NEW f, Healthy(f), Ended(e, f), NEW b \in Block, NEW d, d = [f EXCEPT !.currentBlockName = b]
    PROVE  Ended(e, d)
<1>1. SameBut(f, d, {"currentBlockName"})
  BY DEF Healthy, Shape, SameBut, EnvironmentFields
<1>2. /\ d.variablesMappingsPerBlock = f.variablesMappingsPerBlock
      /\ d.finishedBlocks = f.finishedBlocks
      /\ d.phiNodeObligations = f.phiNodeObligations
      /\ d.store = f.store
      /\ d.outputVariables = f.outputVariables
      /\ d.mutableVariables = f.mutableVariables
      /\ DOMAIN d = EnvironmentFields
  BY <1>1 DEF SameBut, EnvironmentFields
<1>3. Shape(d)
  BY <1>2 DEF Healthy, Shape
<1>4. SameNames(e, d, Block)
  BY <1>2 DEF Ended, SameNames, Mapping
<1>5. Carried(e, d)
  BY <1>2 DEF Ended, Carried, SameRoles, Due
<1> QED BY <1>3, <1>4, <1>5 DEF Ended

LEMMA StartBlockNames ==
    ASSUME NEW e, Healthy(e), Owed(e), e.currentBlockName \notin e.finishedBlocks,
           e.currentBlockName = NoBlock => e.finishedBlocks = {} /\ Mentioned(e.store) = {},
           Names(e), NEW g \in [Block -> Terminators], NEW b \in Block,
           NEW d, d = StartBlock(g, e, b).env, StartBlock(g, e, b).ok
    PROVE  Entered(g, e, d, b, ReachablePredecessors(g, b) \cap d.finishedBlocks,
                               ReachablePredecessors(g, b) \ d.finishedBlocks)
<1> DEFINE previous == ReachablePredecessors(g, b)
           left == IF e.currentBlockName = NoBlock THEN initializeBlockGuards(g, e)
                   ELSE endBlock(e)
           entered == [left.env EXCEPT !.currentBlockName = b]
           common == getCommonVariables(g, entered, previous)
           inherited == inheritVariables(g, common.env, previous)
           r == StartBlock(g, e, b)
           F == entered.finishedBlocks
           f == common.env
<1>1. /\ left.ok /\ b \notin left.env.finishedBlocks /\ common.ok /\ inherited.ok
      /\ r = inherited
  <2>1. r = IF ~left.ok THEN left
            ELSE IF b \in left.env.finishedBlocks THEN Fail(left.env)
            ELSE IF ~common.ok THEN common ELSE inherited
    <3> HIDE DEF left, common, inherited
    <3> QED BY DEF StartBlock, Then, Fail, left, common, inherited
  <2> HIDE DEF left, common, inherited
  <2> QED BY <2>1 DEF Fail, r
<1> HIDE DEF r
<1>2. Departed(g, e, left)
  BY Departs
<1>3. Ended(e, left.env)
  <2> HIDE DEF left
  <2>1. left = IF e.currentBlockName = NoBlock THEN initializeBlockGuards(g, e) ELSE endBlock(e)
    BY DEF left
  <2> QED BY <1>1, <2>1, DepartNames
<1> HIDE DEF left
<1>4. /\ Healthy(entered) /\ Owed(entered)
      /\ entered.currentBlockName = b
      /\ F = left.env.finishedBlocks
  <2>1. left.env.currentBlockName \in left.env.finishedBlocks \cup {NoBlock}
    BY <1>1, <1>2 DEF Departed
  <2> QED BY <1>1, <1>2, <2>1, EnterHealthy DEF Departed
<1>5. Ended(e, entered)
  <2>1. Healthy(left.env)
    BY <1>2 DEF Departed
  <2> QED BY <1>3, <2>1, EnterNames
<1> HIDE DEF entered
<1>6. F = (e.finishedBlocks \cup {e.currentBlockName}) \ {NoBlock}
  BY <1>1, <1>2, <1>4 DEF Departed
<1>7. Running(entered) /\ previous \in SUBSET Block
  BY <1>1, <1>4 DEF Running, ReachablePredecessors, Reach
<1> HIDE DEF previous
<1>8. Prepared(entered, common, previous)
  BY <1>4, <1>7, CommonVariablesPrepared
<1>9. CommonNamed(g, entered, f, previous)
  <2> DEFINE q == common
  <2>1. q = getCommonVariables(g, entered, previous) /\ q.ok
    BY <1>1
  <2> HIDE DEF q
  <2>2. CommonNamed(g, entered, q.env, previous)
    BY <1>4, <1>7, <2>1, CommonVariablesNames
  <2> QED BY <2>2 DEF q
<1> HIDE DEF common
<1>10. Healthy(f) /\ Running(f) /\ Owed(f) /\ f.currentBlockName = b /\ f.finishedBlocks = F
  BY <1>1, <1>4, <1>7, <1>8, RunningStays DEF Prepared, Advances, Stays
<1> HIDE DEF f, F
<1> DEFINE finished == previous \cap F
           unfinished == previous \ F
<1>11. Ready(g, e, f, b, finished, unfinished)
  BY <1>1, <1>4, <1>5, <1>7, <1>9, CommonReady DEF Ended, Carried, F
<1>12. Carried(e, f)
  <2>1. \E T : Kept(entered, f, T)
    BY <1>9 DEF CommonNamed, Anticipated
  <2>2. Carried(e, entered)
    BY <1>5 DEF Ended
  <2> QED BY <2>1, <2>2, CarriedLater
<1>13. \A c \in unfinished \cup {b} : c \notin Begun(e)
  <2>1. b \notin F
    BY <1>1, <1>4 DEF F
  <2> QED BY <1>6, <1>7, <2>1, BlockAssumption DEF Begun
<1>14. ASSUME NEW p \in previous, NEW v \in Variable, v \in DOMAIN Mapping(f, p)
       PROVE  Mapping(f, p)[v] \in {v} \cup Versions
  <2>1. p \in Block /\ p \in finished \cup unfinished /\ e.mutableVariables \subseteq Changing(e)
    BY <1>7 DEF Changing
  <2>2. v \in DOMAIN Mapping(e, p) => Mapping(e, p)[v] \in {v} \cup Versions
    BY <2>1 DEF Names
  <2> HIDE DEF finished, unfinished
  <2>3. CASE unfinished # {} /\ AllHave(e, finished, v) /\ v \in e.mutableVariables /\ p = b
    BY <1>11, <2>3 DEF Ready
  <2>4. CASE ~(unfinished # {} /\ AllHave(e, finished, v) /\ v \in e.mutableVariables /\ p = b)
    BY <1>11, <1>14, <2>1, <2>2, <2>4 DEF Ready
  <2> QED BY <2>3, <2>4
<1>15. Inherited(f, d, previous)
  <2> DEFINE q == inherited
  <2>1. q = inheritVariables(g, f, previous) /\ q.ok
    BY <1>1 DEF f
  <2> HIDE DEF q
  <2>2. Inherited(f, q.env, previous)
    BY <1>7, <1>10, <1>14, <2>1, InheritNames
  <2> QED BY <1>1, <2>2 DEF q, r
<1>16. d.finishedBlocks = F
  BY <1>10, <1>15 DEF Inherited, Kept, Alters
<1>17. unfinished # {} => finished # {}
  BY <1>11 DEF Ready
<1>18. finished \in SUBSET Block /\ unfinished \in SUBSET Block /\ finished \cap unfinished = {}
       /\ b \notin finished /\ finished \cup unfinished = previous
  BY <1>1, <1>4, <1>7 DEF F
<1> HIDE DEF finished, unfinished
<1>19. Entered(g, e, d, b, finished, unfinished)
  BY <1>10, <1>11, <1>12, <1>13, <1>15, <1>17, <1>18, ReadyEntered
<1> QED BY <1>16, <1>19 DEF finished, unfinished, previous

--------------------------------------------------------------------------------
\* The blocks in which an operation on v in the current block changes v.
Touched(e, v) == IF v \in Inputs THEN Block \X {v} ELSE {<<e.currentBlockName, v>>}

\* A new variable is created.
Creates(e, d, v) ==
    /\ v \notin Bound(e.store) /\ v \in Bound(d.store)
    /\ \A c \in Block : v \in DOMAIN Mapping(d, c) => Mapping(d, c)[v] = v \/ v \in DOMAIN Mapping(e, c)
    /\ \/ SameRoles(e, d)
       \/ /\ v \notin Inputs
          /\ d.outputVariables = e.outputVariables \cup {v}
          /\ d.mutableVariables = e.mutableVariables
       \/ /\ v \notin Inputs
          /\ d.outputVariables = e.outputVariables
          /\ d.mutableVariables = e.mutableVariables \cup {v}

\* A variable that may change gets a version.
Assigns(e, d, v) ==
    /\ v \in Changing(e) \ Inputs
    /\ SameRoles(e, d)
    /\ Mapping(d, e.currentBlockName)[v] \in Versions

\* What a statement that writes v makes of e.
Wrote(e, d, v) ==
    /\ Alters(e, d, Touched(e, v))
    /\ v \in DOMAIN Mapping(d, e.currentBlockName)
    /\ Creates(e, d, v) \/ Assigns(e, d, v)

\* A variable that is no input, from a state f that only differs in roles.
LEMMA NamedWrites ==
    ASSUME NEW e, NEW f, Alters(e, f, {}), f.store = e.store, NEW v \in Variable, v \notin Inputs,
           \/ SameRoles(e, f)
           \/ f.outputVariables = e.outputVariables \cup {v} /\ f.mutableVariables = e.mutableVariables
           \/ f.outputVariables = e.outputVariables /\ f.mutableVariables = e.mutableVariables \cup {v},
           NEW r, r.ok, Named(f, r, v, v)
    PROVE  Wrote(e, r.env, v)
<1> DEFINE b == e.currentBlockName
           T == {<<b, v>>}
           d == r.env
<1>1. f.currentBlockName = b /\ Touched(e, v) = T
  BY DEF Alters, Touched
<1>2. /\ Kept(f, d, T)
      /\ v \notin Bound(e.store) /\ v \in Bound(d.store)
      /\ v \in DOMAIN Mapping(d, b)
      /\ Mapping(d, b)[v] = v
  BY <1>1 DEF Named
<1>3. Alters(e, d, T)
  <2>1. Alters(e, f, T) /\ Alters(f, d, T)
    BY <1>2, AltersMore DEF Kept
  <2> QED BY <2>1, AltersTransitive
<1>4. ASSUME NEW c \in Block, v \in DOMAIN Mapping(d, c)
      PROVE  Mapping(d, c)[v] = v \/ v \in DOMAIN Mapping(e, c)
  <2>1. CASE c = b
    BY <1>2, <2>1
  <2>2. CASE c # b
    <3>1. <<c, v>> \notin T
      BY <2>2
    <3> QED BY <1>3, <1>4, <3>1 DEF Alters
  <2> QED BY <2>1, <2>2
<1>5. d.outputVariables = f.outputVariables /\ d.mutableVariables = f.mutableVariables
  BY <1>2 DEF Kept, SameRoles
<1>6. Creates(e, d, v)
  BY <1>2, <1>4, <1>5 DEF Creates, SameRoles
<1> QED BY <1>1, <1>2, <1>3, <1>6 DEF Wrote

\* An input comes into scope under its own name in the blocks of the loop.
InputNamed(k, s, r) ==
    /\ r.ok
    /\ Kept(k.start, r.env, Block \X {k.v})
    /\ \A c \in Block : k.v \in DOMAIN Mapping(k.start, c) => k.v \in DOMAIN Mapping(r.env, c)
    /\ \A c \in Block : k.v \in DOMAIN Mapping(r.env, c) =>
          \/ Mapping(r.env, c)[k.v] = k.v
          \/ /\ k.v \in DOMAIN Mapping(k.start, c)
             /\ Mapping(r.env, c)[k.v] = Mapping(k.start, c)[k.v]

NamedInputLoop == INSTANCE LoopTheorems WITH Iteration <- ShareInput, Invariant <- InputNamed

LEMMA AllInputsNamed ==
    ASSUME NEW k, NEW S \in SUBSET Block, Shape(k.start), NEW r, r = Succeed(k.start)
    PROVE  InputNamed(k, S, NamedInputLoop!Results(k, S, r)[S])
<1> DEFINE T == Block \X {k.v}
<1>1. InputNamed(k, {}, r)
  <2>1. Kept(k.start, k.start, {})
    BY KeptSame
  <2>2. Kept(k.start, k.start, T)
    BY <2>1, KeptMore
  <2> QED BY <2>2 DEF InputNamed, Succeed
<1>2. ASSUME NEW s \in SUBSET S, NEW b \in s, NEW q, InputNamed(k, s \ {b}, q)
      PROVE  InputNamed(k, s, IF q.ok THEN ShareInput(k, q.env, b) ELSE q)
  <2> DEFINE d == MapIn(q.env, b, k.v, k.v)
             v == k.v
             P == {<<b, v>>}
  <2>1. Kept(k.start, q.env, T) /\ Shape(q.env) /\ b \in Block /\ q.ok
    BY <1>2 DEF InputNamed, Kept, Alters
  <2>2. /\ Kept(q.env, d, P)
        /\ v \in DOMAIN Mapping(d, b)
        /\ Mapping(d, b)[v] = v
    BY <2>1, MapInKept
  <2> HIDE DEF d
  <2>3. Kept(k.start, d, T)
    <3>1. P \subseteq T
      BY <2>1
    <3>2. Kept(q.env, d, T)
      BY <2>2, <3>1, KeptMore
    <3> QED BY <2>1, <3>2, KeptTransitive
  <2>4. ASSUME NEW c \in Block, c # b
        PROVE  /\ v \in DOMAIN Mapping(d, c) <=> v \in DOMAIN Mapping(q.env, c)
               /\ v \in DOMAIN Mapping(q.env, c) => Mapping(d, c)[v] = Mapping(q.env, c)[v]
    <3>1. <<c, v>> \notin P
      BY <2>4
    <3> QED BY <2>2, <3>1 DEF Kept, Alters
  <2>5. InputNamed(k, s, Succeed(d))
    <3>1. \A c \in Block : v \in DOMAIN Mapping(k.start, c) => v \in DOMAIN Mapping(d, c)
      BY <1>2, <2>2, <2>4 DEF InputNamed
    <3>2. ASSUME NEW c \in Block, v \in DOMAIN Mapping(d, c)
          PROVE  \/ Mapping(d, c)[v] = v
                 \/ /\ v \in DOMAIN Mapping(k.start, c)
                    /\ Mapping(d, c)[v] = Mapping(k.start, c)[v]
      BY <1>2, <2>2, <2>4, <3>2 DEF InputNamed
    <3> QED BY <2>3, <3>1, <3>2 DEF InputNamed, Succeed
  <2> QED BY <2>1, <2>5 DEF ShareInput, d
<1>3. NamedInputLoop!Inductive(S)
  BY BlocksSmallest DEF SomeSmallest, NamedInputLoop!Inductive
<1> QED BY <1>1, <1>2, <1>3, NamedInputLoop!LoopInvariant

LEMMA CreateInputWrites ==
    ASSUME NEW e, Healthy(e), Running(e), NEW v \in Inputs, NEW type,
           NEW r, r = CreateImmutableInputVariable(e, v, type, Constraints(v)), r.ok
    PROVE  Wrote(e, r.env, v)
<1> DEFINE io == createIOVariable(e, v, type, Constraints(v))
           f == io.env
           S == {b \in DOMAIN f.variablesMappingsPerBlock : v \notin DOMAIN Mapping(f, b)}
           k == [v |-> v, start |-> f]
           q == NamedInputLoop!Results(k, S, Succeed(f))[S]
           b == e.currentBlockName
           T == Block \X {v}
           d == r.env
<1>1. io.ok /\ r = q
  <2>1. ForEach(S, Succeed(f), LAMBDA h, c : Succeed(MapIn(h, c, v, v))) = q
    BY DEF ForEach, FoldSet, MapThenFoldSet, NamedInputLoop!Results, ShareInput
  <2>2. r = IF io.ok THEN q ELSE io
    <3> HIDE DEF q
    <3> QED BY <2>1 DEF CreateImmutableInputVariable, Then
  <2> HIDE DEF q, io
  <2> QED BY <2>2
<1>2. v \in Variable /\ b \in Block
  BY RolesAssumption DEF Running
<1>3. Named(e, io, v, v)
  BY CreateIONames DEF Healthy
<1>4. Keeps(e, io)
  BY <1>2, CreateIOKeeps DEF MadeVisible
<1> HIDE DEF io, q
<1>5. S \in SUBSET Block
  BY <1>4 DEF Keeps, Leads, Healthy, MappingsFit
<1>6. /\ Kept(e, f, {<<b, v>>})
      /\ v \notin Bound(e.store) /\ v \in Bound(f.store)
      /\ v \in DOMAIN Mapping(f, b)
      /\ Mapping(f, b)[v] = v
  BY <1>1, <1>3 DEF Named
<1>7. InputNamed(k, S, q)
  <2>1. Shape(k.start)
    BY <1>6 DEF Kept, Alters
  <2> HIDE DEF k, S
  <2>2. Succeed(f) = Succeed(k.start)
    BY DEF k
  <2> QED BY <1>5, <2>1, <2>2, AllInputsNamed DEF q
<1>8. /\ Kept(f, d, T)
      /\ \A c \in Block : v \in DOMAIN Mapping(f, c) => v \in DOMAIN Mapping(d, c)
      /\ \A c \in Block : v \in DOMAIN Mapping(d, c) =>
            Mapping(d, c)[v] = v \/ (v \in DOMAIN Mapping(f, c) /\ Mapping(d, c)[v] = Mapping(f, c)[v])
  BY <1>1, <1>7 DEF InputNamed
<1> HIDE DEF f
<1>9. Kept(e, d, T)
  <2>1. {<<b, v>>} \subseteq T
    BY <1>2
  <2>2. Kept(e, f, T)
    BY <1>6, <2>1, KeptMore
  <2> QED BY <1>8, <2>2, KeptTransitive
<1>10. ASSUME NEW c \in Block, v \in DOMAIN Mapping(d, c)
       PROVE  Mapping(d, c)[v] = v \/ v \in DOMAIN Mapping(e, c)
  <2>1. CASE c = b
    BY <1>6, <1>8, <1>10, <2>1
  <2>2. CASE c # b
    <3>1. <<c, v>> \notin {<<b, v>>}
      BY <2>2
    <3>2. v \in DOMAIN Mapping(f, c) => v \in DOMAIN Mapping(e, c)
      BY <1>6, <3>1 DEF Kept, Alters
    <3> QED BY <1>8, <1>10, <3>2
  <2> QED BY <2>1, <2>2
<1>11. v \in Bound(d.store)
  BY <1>6, <1>8 DEF Kept, Alters, Grown
<1>12. Creates(e, d, v)
  BY <1>6, <1>9, <1>10, <1>11 DEF Kept, Creates
<1> QED BY <1>2, <1>6, <1>8, <1>9, <1>12 DEF Kept, Wrote, Touched

\* The constraints and the role of v are noted.
LEMMA RoleNoted ==
    ASSUME NEW e, Shape(e), NEW F \in {"outputVariables", "mutableVariables"}, NEW d,
           SameBut(e, d, {"mutableVariableConstraints", F})
    PROVE  Alters(e, d, {}) /\ d.store = e.store
<1>1. SameBut(e, d, {"store", "variableTypes", "mutableVariableState",
                     "mutableVariableConstraints", "outputVariables", "mutableVariables"})
  BY DEF SameBut
<1>2. d.store = e.store
  BY DEF SameBut, EnvironmentFields
<1> QED BY <1>1, <1>2, FieldsKept, GrownReflexive DEF Shape

LEMMA CreateOutputWrites ==
    ASSUME NEW e, Shape(e), NEW v \in Outputs, NEW type, NEW constraints,
           NEW r, r = CreateMutableOutputVariable(e, v, type, constraints), r.ok
    PROVE  Wrote(e, r.env, v)
<1> DEFINE f == [e EXCEPT !.mutableVariableConstraints = Put(@, v, constraints),
                          !.outputVariables = @ \cup {v}]
<1>1. /\ SameBut(e, f, {"mutableVariableConstraints", "outputVariables"})
      /\ f.outputVariables = e.outputVariables \cup {v}
      /\ f.mutableVariables = e.mutableVariables
  BY DEF Shape, SameBut, EnvironmentFields
<1>2. r = createIOVariable(f, v, type, constraints)
  BY DEF CreateMutableOutputVariable
<1> HIDE DEF f
<1>3. Alters(e, f, {}) /\ f.store = e.store
  BY <1>1, RoleNoted
<1>4. Named(f, r, v, v)
  BY <1>2, <1>3, CreateIONames DEF Alters
<1>5. v \in Variable /\ v \notin Inputs
  BY RolesAssumption
<1> QED BY <1>1, <1>3, <1>4, <1>5, NamedWrites

LEMMA CreateMutableWrites ==
    ASSUME NEW e, Shape(e), NEW v \in Mutables, NEW type, NEW constraints, NEW expression,
           NEW r, r = CreateMutableVariable(e, v, type, constraints, expression), r.ok
    PROVE  Wrote(e, r.env, v)
<1> DEFINE f == [e EXCEPT !.mutableVariableConstraints = Put(@, v, constraints),
                          !.mutableVariables = @ \cup {v}]
<1>1. /\ SameBut(e, f, {"mutableVariableConstraints", "mutableVariables"})
      /\ f.outputVariables = e.outputVariables
      /\ f.mutableVariables = e.mutableVariables \cup {v}
  BY DEF Shape, SameBut, EnvironmentFields
<1>2. r = createVariable(f, v, v, type, constraints, expression)
  BY DEF CreateMutableVariable, Fail
<1> HIDE DEF f
<1>3. Alters(e, f, {}) /\ f.store = e.store
  BY <1>1, RoleNoted
<1>4. Named(f, r, v, v)
  BY <1>2, <1>3, CreateVariableNames DEF Alters
<1>5. v \in Variable /\ v \notin Inputs
  BY RolesAssumption
<1> QED BY <1>1, <1>3, <1>4, <1>5, NamedWrites

LEMMA CreateImmutableWrites ==
    ASSUME NEW e, Shape(e), NEW v \in Immutables, NEW type, NEW constraints, NEW expression,
           NEW r, r = CreateImmutableVariable(e, v, type, constraints, expression), r.ok
    PROVE  Wrote(e, r.env, v)
<1>1. r = createVariable(e, v, v, type, constraints, expression)
  BY DEF CreateImmutableVariable, Fail
<1>2. Named(e, r, v, v)
  BY <1>1, CreateVariableNames
<1>3. v \in Variable /\ v \notin Inputs /\ Alters(e, e, {}) /\ SameRoles(e, e)
  BY RolesAssumption, KeptSame DEF Kept
<1> QED BY <1>2, <1>3, NamedWrites

LEMMA CreatePhiWrites ==
    ASSUME NEW e, Shape(e), NEW v \in Phis, NEW type, NEW sources, DOMAIN sources \subseteq Block,
           NEW g, NEW r, r = CreatePhiNode(g, e, v, type, sources), r.ok
    PROVE  Wrote(e, r.env, v)
<1>1. Named(e, r, v, v)
  BY PhiNodeInternalNames DEF CreatePhiNode
<1>2. v \in Variable /\ v \notin Inputs /\ Alters(e, e, {}) /\ SameRoles(e, e)
  BY RolesAssumption, KeptSame DEF Kept
<1> QED BY <1>1, <1>2, NamedWrites

LEMMA AssignWrites ==
    ASSUME NEW e, Healthy(e), NEW v \in Variable, NEW expression,
           NEW r, r = AssignMutableVariable(e, v, expression), r.ok
    PROVE  Wrote(e, r.env, v)
<1> DEFINE f == CountVersion(e, v)
           n == getNextVariableName(e, v)
           b == e.currentBlockName
           T == {<<b, v>>}
           d == r.env
<1>1. /\ v \in Changing(e)
      /\ r = createVariable(f, v, n, e.variableTypes[v], e.mutableVariableConstraints[v], expression)
  BY DEF AssignMutableVariable, Fail, Changing
<1>2. n \in Versions
  BY CountVersionKeeps DEF Healthy
<1>3. Kept(e, f, {})
  BY CountVersionKept DEF Healthy
<1> HIDE DEF f, n
<1>4. Shape(f) /\ f.currentBlockName = b
  BY <1>3 DEF Kept, Alters
<1>5. Named(f, r, v, n)
  BY <1>1, <1>4, CreateVariableNames
<1>6. /\ Kept(f, d, T)
      /\ v \in DOMAIN Mapping(d, b)
      /\ Mapping(d, b)[v] = n
  BY <1>4, <1>5 DEF Named
<1>7. Kept(e, d, T)
  <2>1. Kept(e, f, T)
    BY <1>3, KeptMore
  <2> QED BY <1>6, <2>1, KeptTransitive
<1>8. v \notin Inputs
  BY <1>1, RolesAssumption DEF Healthy, ConstraintsNoted, Changing
<1>9. Assigns(e, d, v)
  BY <1>1, <1>2, <1>6, <1>7, <1>8 DEF Assigns, Kept
<1> QED BY <1>6, <1>7, <1>8, <1>9 DEF Wrote, Touched, Kept

--------------------------------------------------------------------------------
\* In e, with w the blocks that wrote each variable: a variable in scope in a
\* block is written on every way to it; one that is not in scope in a block
\* that was begun is avoided by a way through finished blocks.
ScopeKnown(g, e, w) ==
    /\ Begun(e) \cap Reach(g, Entry) # {} => Entry \in Begun(e)
    /\ \A v \in Variable \ (Inputs \cup e.outputVariables), c \in Reach(g, Entry) :
          /\ v \in DOMAIN Mapping(e, c) => ~Avoids(g, w[v], c)
          /\ v \notin DOMAIN Mapping(e, c) /\ c \in Begun(e) =>
                Avoids(g, w[v] \cup (Block \ (e.finishedBlocks \cup {c})), c)

\* What block p, which is not finished, does for the name n that v has at the
\* start of a block after p: it keeps the name, or it owes the value.
Pending(g, e, w, p, v, n) ==
    \/ v \in DOMAIN Mapping(e, p) /\ n = v /\ v \notin Changing(e)
    \/ /\ v \in e.mutableVariables
       /\ Due(e, p, v)
       /\ FlowsBetween(FlowsIn(e.store), FuturePhi(p, v), n)
       /\ ~Avoids(g, w[v], p)

Flown(e, p, v, n) ==
    v \in DOMAIN Mapping(e, p) /\ FlowsBetween(FlowsIn(e.store), Mapping(e, p)[v], n)

\* The values that variables had at the entries a of blocks come from where
\* the edges come from.
FlowsKnown(g, e, w, a) ==
    \A b \in DOMAIN a : \A p \in ReachablePredecessors(g, b) :
        \A v \in (Variable \ Inputs) \cap DOMAIN a[b] :
            IF p \in e.finishedBlocks THEN Flown(e, p, v, a[b][v])
            ELSE Pending(g, e, w, p, v, a[b][v])

LEMMA FlownLater ==
    ASSUME NEW e, NEW d, Grown(e.store, d.store), NEW p, NEW v, NEW n, Flown(e, p, v, n),
           v \in DOMAIN Mapping(d, p), Mapping(d, p)[v] = Mapping(e, p)[v]
    PROVE  Flown(d, p, v, n)
BY FlowsGrow, FlowGrows DEF Flown

--------------------------------------------------------------------------------
\* A statement that adds to the store only.
LEMMA AddsKnown ==
    ASSUME NEW e, NEW d, Kept(e, d, {}), NEW g, NEW w, NEW a
    PROVE  /\ Begun(d) = Begun(e)
           /\ Names(e) => Names(d)
           /\ ScopeKnown(g, e, w) => ScopeKnown(g, d, w)
           /\ FlowsKnown(g, e, w, a) => FlowsKnown(g, d, w, a)
<1>1. /\ d.finishedBlocks = e.finishedBlocks /\ Begun(d) = Begun(e)
      /\ Changing(d) = Changing(e)
      /\ d.outputVariables = e.outputVariables /\ d.mutableVariables = e.mutableVariables
      /\ Grown(e.store, d.store)
      /\ Bound(e.store) \subseteq Bound(d.store)
  BY DEF Kept, Alters, SameRoles, Begun, Changing, Grown
<1>2. \A c \in Block : \A x : /\ x \in DOMAIN Mapping(d, c) <=> x \in DOMAIN Mapping(e, c)
                              /\ x \in DOMAIN Mapping(e, c) => Mapping(d, c)[x] = Mapping(e, c)[x]
  BY DEF Kept, Alters
<1>3. \A p \in Block, v \in Variable : Due(e, p, v) => Due(d, p, v)
  BY DEF Kept, Alters
<1>4. Names(e) => Names(d)
  BY <1>1, <1>2 DEF Names
<1>5. ScopeKnown(g, e, w) => ScopeKnown(g, d, w)
  BY <1>1, <1>2 DEF ScopeKnown, Reach
<1>6. ASSUME FlowsKnown(g, e, w, a), NEW b \in DOMAIN a, NEW p \in ReachablePredecessors(g, b),
             NEW v \in (Variable \ Inputs) \cap DOMAIN a[b]
      PROVE  IF p \in d.finishedBlocks THEN Flown(d, p, v, a[b][v])
             ELSE Pending(g, d, w, p, v, a[b][v])
  <2>1. p \in Block
    BY DEF ReachablePredecessors, Reach
  <2>2. CASE p \in e.finishedBlocks
    <3>1. Flown(e, p, v, a[b][v])
      BY <1>6, <2>2 DEF FlowsKnown
    <3>2. v \in DOMAIN Mapping(d, p) /\ Mapping(d, p)[v] = Mapping(e, p)[v]
      BY <1>2, <2>1, <3>1 DEF Flown
    <3> QED BY <1>1, <2>2, <3>1, <3>2, FlownLater
  <2>3. CASE p \notin e.finishedBlocks
    <3>1. Pending(g, e, w, p, v, a[b][v])
      BY <1>6, <2>3 DEF FlowsKnown
    <3>2. FlowsIn(e.store) \subseteq FlowsIn(d.store)
      BY <1>1, FlowsGrow
    <3>3. Pending(g, d, w, p, v, a[b][v])
      BY <1>1, <1>2, <1>3, <2>1, <3>1, <3>2, FlowGrows DEF Pending
    <3> QED BY <1>1, <2>3, <3>3
  <2> QED BY <2>2, <2>3
<1> QED BY <1>1, <1>4, <1>5, <1>6 DEF FlowsKnown

\* A statement that writes v.
LEMMA WroteFacts ==
    ASSUME NEW e, NEW d, NEW v \in Variable, Wrote(e, d, v), Names(e), e.currentBlockName \in Block
    PROVE  /\ d.currentBlockName = e.currentBlockName /\ d.finishedBlocks = e.finishedBlocks
           /\ Begun(d) = Begun(e)
           /\ Grown(e.store, d.store)
           /\ e.outputVariables \subseteq d.outputVariables
           /\ e.mutableVariables \subseteq d.mutableVariables
           /\ \A p \in Block, x \in Variable : Due(e, p, x) => Due(d, p, x)
           /\ \A c \in Block, x \in Variable : x # v =>
                 /\ x \in DOMAIN Mapping(d, c) <=> x \in DOMAIN Mapping(e, c)
                 /\ x \in DOMAIN Mapping(e, c) => Mapping(d, c)[x] = Mapping(e, c)[x]
           /\ v \notin Inputs => \A c \in Block : c # e.currentBlockName =>
                 /\ v \in DOMAIN Mapping(d, c) <=> v \in DOMAIN Mapping(e, c)
                 /\ v \in DOMAIN Mapping(e, c) => Mapping(d, c)[v] = Mapping(e, c)[v]
           /\ \A x : x # v => (x \in Changing(d) <=> x \in Changing(e))
           /\ v \in DOMAIN Mapping(d, e.currentBlockName)
<1> DEFINE b == e.currentBlockName
           T == Touched(e, v)
<1>1. Alters(e, d, T) /\ (Creates(e, d, v) \/ Assigns(e, d, v)) /\ v \in DOMAIN Mapping(d, b)
  BY DEF Wrote
<1>2. /\ \A c \in Block, x \in Variable : x # v => <<c, x>> \notin T
      /\ v \notin Inputs => \A c \in Block : c # b => <<c, v>> \notin T
  BY DEF Touched
<1> HIDE DEF T
<1>3. /\ e.outputVariables \subseteq d.outputVariables
      /\ e.mutableVariables \subseteq d.mutableVariables
      /\ \A x : x # v => (x \in Changing(d) <=> x \in Changing(e))
  BY <1>1 DEF Creates, Assigns, SameRoles, Changing
<1>4. /\ \A c \in Block, x \in Variable : x # v =>
            /\ x \in DOMAIN Mapping(d, c) <=> x \in DOMAIN Mapping(e, c)
            /\ x \in DOMAIN Mapping(e, c) => Mapping(d, c)[x] = Mapping(e, c)[x]
      /\ v \notin Inputs => \A c \in Block : c # e.currentBlockName =>
            /\ v \in DOMAIN Mapping(d, c) <=> v \in DOMAIN Mapping(e, c)
            /\ v \in DOMAIN Mapping(e, c) => Mapping(d, c)[v] = Mapping(e, c)[v]
  BY <1>1, <1>2 DEF Alters
<1> QED BY <1>1, <1>3, <1>4 DEF Alters, Begun

LEMMA WroteNames ==
    ASSUME NEW e, NEW d, NEW v \in Variable, Wrote(e, d, v), Names(e), e.currentBlockName \in Block
    PROVE  Names(d)
<1> DEFINE b == e.currentBlockName
<1>1. /\ Begun(d) = Begun(e) /\ b \in Begun(e)
      /\ Bound(e.store) \subseteq Bound(d.store)
      /\ \A c \in Block, x \in Variable : x # v =>
            /\ x \in DOMAIN Mapping(d, c) <=> x \in DOMAIN Mapping(e, c)
            /\ x \in DOMAIN Mapping(e, c) => Mapping(d, c)[x] = Mapping(e, c)[x]
      /\ v \notin Inputs => \A c \in Block : c # b =>
            /\ v \in DOMAIN Mapping(d, c) <=> v \in DOMAIN Mapping(e, c)
            /\ v \in DOMAIN Mapping(e, c) => Mapping(d, c)[v] = Mapping(e, c)[v]
      /\ \A x : x # v => (x \in Changing(d) <=> x \in Changing(e))
      /\ v \in DOMAIN Mapping(d, b)
  BY WroteFacts DEF Begun, Grown
<1>2. CASE Creates(e, d, v)
  <2>1. /\ v \notin Bound(e.store) /\ v \in Bound(d.store)
        /\ \A c \in Block : v \notin DOMAIN Mapping(e, c)
        /\ \A c \in Block : v \in DOMAIN Mapping(d, c) => Mapping(d, c)[v] = v
        /\ v \notin Changing(e)
    BY <1>2 DEF Creates, Names
  <2>2. /\ d.outputVariables \cap d.mutableVariables = {}
        /\ Changing(d) \subseteq Changing(e) \cup {v}
        /\ v \in Inputs => v \notin Changing(d)
    BY <1>2, <2>1 DEF Creates, SameRoles, Names, Changing
  <2>3. ASSUME NEW c \in Block, v \in DOMAIN Mapping(d, c), c \notin Begun(d)  PROVE v \notin Changing(d)
    BY <1>1, <2>1, <2>2, <2>3
  <2>4. Changing(d) \subseteq Bound(d.store)
    BY <1>1, <2>1, <2>2 DEF Names
  <2> QED BY <1>1, <2>1, <2>2, <2>3, <2>4 DEF Names
<1>3. CASE Assigns(e, d, v)
  <2>1. /\ v \in Changing(e) /\ v \notin Inputs /\ v \in Bound(d.store)
        /\ Mapping(d, b)[v] \in Versions
        /\ Changing(d) = Changing(e)
        /\ d.outputVariables \cap d.mutableVariables = {}
    BY <1>1, <1>3 DEF Assigns, SameRoles, Names, Changing
  <2>2. ASSUME NEW c \in Block, v \in DOMAIN Mapping(d, c)
        PROVE  /\ Mapping(d, c)[v] = v \/ Mapping(d, c)[v] \in Versions
               /\ c \in Begun(d)
    <3>1. CASE c = b
      BY <1>1, <2>1, <3>1
    <3>2. CASE c # b
      BY <1>1, <2>1, <2>2, <3>2 DEF Names
    <3> QED BY <3>1, <3>2
  <2> QED BY <1>1, <2>1, <2>2 DEF Names
<1> QED BY <1>2, <1>3 DEF Wrote

LEMMA WroteScope ==
    ASSUME NEW e, NEW d, NEW v \in Variable, Wrote(e, d, v), Names(e), Running(e),
           NEW g \in [Block -> Seq(Block)], NEW w, ScopeKnown(g, e, w), NEW z,
           z[v] = w[v] \cup {e.currentBlockName}, \A x \in Variable : x # v => z[x] = w[x]
    PROVE  ScopeKnown(g, d, z)
<1> DEFINE b == e.currentBlockName
           F == e.finishedBlocks
<1>1. /\ Begun(d) = Begun(e) /\ d.finishedBlocks = F
      /\ e.outputVariables \subseteq d.outputVariables
      /\ \A c \in Block, x \in Variable : x # v =>
            (x \in DOMAIN Mapping(d, c) <=> x \in DOMAIN Mapping(e, c))
      /\ v \notin Inputs => \A c \in Block : c # b =>
            (v \in DOMAIN Mapping(d, c) <=> v \in DOMAIN Mapping(e, c))
      /\ v \in DOMAIN Mapping(d, b)
  BY WroteFacts DEF Running
<1>2. b \in Block /\ b \notin F /\ Begun(e) = F \cup {b}
  BY DEF Running, Begun
<1>3. ASSUME NEW x \in Variable \ (Inputs \cup d.outputVariables), NEW c \in Reach(g, Entry)
      PROVE  /\ x \in DOMAIN Mapping(d, c) => ~Avoids(g, z[x], c)
             /\ x \notin DOMAIN Mapping(d, c) /\ c \in Begun(d) =>
                   Avoids(g, z[x] \cup (Block \ (F \cup {c})), c)
  <2>1. /\ c \in Block
        /\ x \in DOMAIN Mapping(e, c) => ~Avoids(g, w[x], c)
        /\ x \notin DOMAIN Mapping(e, c) /\ c \in Begun(e) => Avoids(g, w[x] \cup (Block \ (F \cup {c})), c)
    BY <1>1 DEF ScopeKnown, Reach
  <2>2. CASE x # v
    BY <1>1, <2>1, <2>2
  <2>3. CASE x = v /\ c = b
    BY <1>1, <1>2, <2>3 DEF Avoids
  <2>4. CASE x = v /\ c # b
    <3>1. x \in DOMAIN Mapping(d, c) <=> x \in DOMAIN Mapping(e, c)
      BY <1>1, <2>1, <2>4
    <3>2. w[x] \subseteq z[x]
      BY <2>4
    <3>3. ~Avoids(g, w[x], c) => ~Avoids(g, z[x], c)
      BY <2>1, <3>2, AvoidsLess
    <3>4. z[x] \cup (Block \ (F \cup {c})) = w[x] \cup (Block \ (F \cup {c}))
      BY <1>2, <2>4
    <3> QED BY <1>1, <2>1, <3>1, <3>3, <3>4
  <2> QED BY <2>2, <2>3, <2>4
<1>4. Begun(d) \cap Reach(g, Entry) # {} => Entry \in Begun(d)
  BY <1>1 DEF ScopeKnown
<1> QED BY <1>1, <1>3, <1>4 DEF ScopeKnown

LEMMA WroteFlows ==
    ASSUME NEW e, NEW d, NEW v \in Variable, Wrote(e, d, v), Names(e), Running(e),
           NEW g \in [Block -> Seq(Block)], NEW a, NEW w, FlowsKnown(g, e, w, a), NEW z,
           z[v] = w[v] \cup {e.currentBlockName}, \A x \in Variable : x # v => z[x] = w[x]
    PROVE  FlowsKnown(g, d, z, a)
<1> DEFINE b == e.currentBlockName
<1>1. /\ d.finishedBlocks = e.finishedBlocks
      /\ Grown(e.store, d.store)
      /\ e.mutableVariables \subseteq d.mutableVariables
      /\ \A p \in Block, x \in Variable : Due(e, p, x) => Due(d, p, x)
      /\ \A c \in Block, x \in Variable : x # v =>
            /\ x \in DOMAIN Mapping(d, c) <=> x \in DOMAIN Mapping(e, c)
            /\ x \in DOMAIN Mapping(e, c) => Mapping(d, c)[x] = Mapping(e, c)[x]
      /\ v \notin Inputs => \A c \in Block : c # b =>
            /\ v \in DOMAIN Mapping(d, c) <=> v \in DOMAIN Mapping(e, c)
            /\ v \in DOMAIN Mapping(e, c) => Mapping(d, c)[v] = Mapping(e, c)[v]
      /\ \A x : x # v => (x \in Changing(d) <=> x \in Changing(e))
  BY WroteFacts DEF Running
<1>2. b \in Block /\ b \notin e.finishedBlocks
  BY DEF Running
<1>3. ASSUME NEW c \in DOMAIN a, NEW p \in ReachablePredecessors(g, c),
             NEW x \in (Variable \ Inputs) \cap DOMAIN a[c]
      PROVE  IF p \in d.finishedBlocks THEN Flown(d, p, x, a[c][x])
             ELSE Pending(g, d, z, p, x, a[c][x])
  <2>1. p \in Block
    BY DEF ReachablePredecessors, Reach
  <2>2. CASE p \in e.finishedBlocks
    <3>1. Flown(e, p, x, a[c][x])
      BY <2>2 DEF FlowsKnown
    <3>2. x \in DOMAIN Mapping(d, p) /\ Mapping(d, p)[x] = Mapping(e, p)[x]
      BY <1>1, <1>2, <2>1, <2>2, <3>1 DEF Flown
    <3> QED BY <1>1, <2>2, <3>1, <3>2, FlownLater
  <2>3. CASE p \notin e.finishedBlocks
    <3> DEFINE n == a[c][x]
    <3>1. Pending(g, e, w, p, x, n)
      BY <2>3 DEF FlowsKnown
    <3> HIDE DEF n
    <3>2. CASE x \in DOMAIN Mapping(e, p) /\ n = x /\ x \notin Changing(e)
      <4>1. x # v
        BY <2>1, <3>2 DEF Wrote, Creates, Assigns, Names
      <4> QED BY <1>1, <2>1, <2>3, <3>2, <4>1 DEF Pending, n
    <3>3. CASE /\ x \in e.mutableVariables
               /\ Due(e, p, x)
               /\ FlowsBetween(FlowsIn(e.store), FuturePhi(p, x), n)
               /\ ~Avoids(g, w[x], p)
      <4>1. w[x] \subseteq z[x]
        BY DEF Running
      <4>2. ~Avoids(g, z[x], p)
        BY <2>1, <3>3, <4>1, AvoidsLess
      <4>3. FlowsBetween(FlowsIn(d.store), FuturePhi(p, x), n)
        BY <1>1, <3>3, FlowsGrow, FlowGrows
      <4> QED BY <1>1, <2>1, <2>3, <3>3, <4>2, <4>3 DEF Pending, n
    <3> QED BY <3>1, <3>2, <3>3 DEF Pending
  <2> QED BY <2>2, <2>3
<1> QED BY <1>3 DEF FlowsKnown

--------------------------------------------------------------------------------
\* Once the current block is left, what flows from it has been settled.
LEMMA LeftFlows ==
    ASSUME NEW e, Names(e), NEW g \in [Block -> Seq(Block)], NEW w, ScopeKnown(g, e, w),
           NEW a, FlowsKnown(g, e, w, a), NEW d, Carried(e, d),
           d.finishedBlocks = Begun(e) \ {NoBlock},
           \A c \in Block, v \in Variable : v \in DOMAIN Mapping(e, c) =>
              /\ v \in DOMAIN Mapping(d, c)
              /\ c \in Begun(e) => Mapping(d, c)[v] = Mapping(e, c)[v]
    PROVE  FlowsKnown(g, d, w, a)
<1> DEFINE cur == e.currentBlockName
<1>1. /\ Grown(e.store, d.store)
      /\ Changing(d) = Changing(e) /\ d.mutableVariables = e.mutableVariables
      /\ FlowsIn(e.store) \subseteq FlowsIn(d.store)
  BY FlowsGrow DEF Carried, SameRoles, Changing
<1> SUFFICES ASSUME NEW b \in DOMAIN a, NEW p \in ReachablePredecessors(g, b),
                    NEW v \in (Variable \ Inputs) \cap DOMAIN a[b]
             PROVE  IF p \in d.finishedBlocks THEN Flown(d, p, v, a[b][v])
                    ELSE Pending(g, d, w, p, v, a[b][v])
  BY DEF FlowsKnown
<1> DEFINE n == a[b][v]
<1>2. p \in Block /\ p \in Reach(g, Entry) /\ p # NoBlock
  BY BlockAssumption DEF ReachablePredecessors, Reach
<1>3. p \in d.finishedBlocks <=> p \in e.finishedBlocks \/ p = cur
  BY <1>2 DEF Begun
<1>4. IF p \in e.finishedBlocks THEN Flown(e, p, v, n) ELSE Pending(g, e, w, p, v, n)
  BY DEF FlowsKnown
<1> HIDE DEF n
<1>5. CASE p \in e.finishedBlocks
  <2>1. v \in DOMAIN Mapping(d, p) /\ Mapping(d, p)[v] = Mapping(e, p)[v]
    BY <1>2, <1>4, <1>5 DEF Flown, Begun
  <2> QED BY <1>1, <1>3, <1>4, <1>5, <2>1, FlownLater DEF n
<1>6. CASE p \notin e.finishedBlocks /\ p = cur
  <2>1. ASSUME v \in DOMAIN Mapping(e, p), FlowsBetween(FlowsIn(d.store), Mapping(e, p)[v], n)
        PROVE  Flown(d, p, v, n)
    BY <1>2, <1>6, <2>1 DEF Flown, Begun
  <2>2. CASE v \in DOMAIN Mapping(e, p) /\ n = v /\ v \notin Changing(e)
    <3>1. Mapping(e, p)[v] = n
      BY <1>2, <2>2 DEF Names
    <3> QED BY <1>3, <1>6, <2>1, <2>2, <3>1, FlowSelf DEF n
  <2>3. CASE /\ v \in e.mutableVariables
             /\ Due(e, p, v)
             /\ FlowsBetween(FlowsIn(e.store), FuturePhi(p, v), n)
             /\ ~Avoids(g, w[v], p)
    <3>1. v \notin e.outputVariables /\ p \in Begun(e)
      BY <1>6, <2>3 DEF Names, Begun
    <3>2. v \in DOMAIN Mapping(e, p)
      <4>1. SUFFICES ASSUME v \notin DOMAIN Mapping(e, p)  PROVE FALSE
        OBVIOUS
      <4>2. Avoids(g, w[v] \cup (Block \ (e.finishedBlocks \cup {p})), p)
        BY <1>2, <3>1, <4>1 DEF ScopeKnown
      <4>3. Avoids(g, w[v], p)
        BY <1>2, <4>2, AvoidsLess
      <4> QED BY <2>3, <4>3
    <3>3. <<Mapping(e, p)[v], FuturePhi(p, v)>> \in FlowsIn(d.store)
      BY <1>6, <2>3, <3>2 DEF Carried
    <3>4. FlowsBetween(FlowsIn(d.store), Mapping(e, p)[v], FuturePhi(p, v))
      BY <3>3, FlowStep
    <3>5. FlowsBetween(FlowsIn(d.store), FuturePhi(p, v), n)
      BY <1>1, <2>3, FlowGrows
    <3>6. FlowsBetween(FlowsIn(d.store), Mapping(e, p)[v], n)
      BY <3>4, <3>5, FlowTransitive
    <3> QED BY <1>3, <1>6, <2>1, <3>2, <3>6 DEF n
  <2> QED BY <1>4, <1>6, <2>2, <2>3 DEF Pending
<1>7. CASE p \notin e.finishedBlocks /\ p # cur
  <2>1. Pending(g, d, w, p, v, n)
    <3>1. CASE v \in DOMAIN Mapping(e, p) /\ n = v /\ v \notin Changing(e)
      BY <1>1, <1>2, <3>1 DEF Pending
    <3>2. CASE /\ v \in e.mutableVariables
               /\ Due(e, p, v)
               /\ FlowsBetween(FlowsIn(e.store), FuturePhi(p, v), n)
               /\ ~Avoids(g, w[v], p)
      <4>1. Due(d, p, v)
        BY <1>2, <1>7, <3>2 DEF Carried
      <4>2. FlowsBetween(FlowsIn(d.store), FuturePhi(p, v), n)
        BY <1>1, <3>2, FlowGrows
      <4> QED BY <1>1, <3>2, <4>1, <4>2 DEF Pending
    <3> QED BY <1>4, <1>7, <3>1, <3>2 DEF Pending
  <2> QED BY <1>3, <1>7, <2>1 DEF n
<1> QED BY <1>5, <1>6, <1>7

--------------------------------------------------------------------------------
\* From e, block b was started, which gave d.
Enters(g, e, d, b) ==
    LET previous == ReachablePredecessors(g, b)
        F == d.finishedBlocks
    IN  /\ Names(e)
        /\ d.currentBlockName = b
        /\ F = Begun(e) \ {NoBlock}
        /\ e.finishedBlocks \subseteq F
        /\ b \notin F
        /\ previous # {} => previous \cap F # {}
        /\ Entered(g, e, d, b, previous \cap F, previous \ F)

LEMMA EntersStay ==
    ASSUME NEW g \in [Block -> Seq(Block)], NEW e, NEW b \in Block, NEW d, Enters(g, e, d, b)
    PROVE  /\ Begun(d) = d.finishedBlocks \cup {b}
           /\ \A c \in Block : c \in Begun(e) <=> c \in d.finishedBlocks
           /\ Changing(d) = Changing(e)
           /\ d.outputVariables = e.outputVariables /\ d.mutableVariables = e.mutableVariables
           /\ Bound(e.store) \subseteq Bound(d.store)
<1>1. \A c \in Block : c \in Begun(e) <=> c \in d.finishedBlocks
  BY BlockAssumption DEF Enters
<1>2. Begun(d) = d.finishedBlocks \cup {b}
  BY DEF Enters, Begun
<1>3. /\ d.outputVariables = e.outputVariables /\ d.mutableVariables = e.mutableVariables
      /\ Changing(d) = Changing(e)
      /\ Bound(e.store) \subseteq Bound(d.store)
  BY DEF Enters, Entered, Carried, SameRoles, Changing, Grown
<1> QED BY <1>1, <1>2, <1>3

LEMMA EntersFacts ==
    ASSUME NEW g \in [Block -> Seq(Block)], NEW e, NEW b \in Block, NEW d, Enters(g, e, d, b)
    PROVE  /\ b \notin Begun(e)
           /\ Begun(d) = d.finishedBlocks \cup {b}
           /\ \A c \in Block : c \in Begun(e) <=> c \in d.finishedBlocks
           /\ d.outputVariables = e.outputVariables /\ d.mutableVariables = e.mutableVariables
           /\ Changing(d) = Changing(e)
           /\ Bound(e.store) \subseteq Bound(d.store)
           /\ \A c \in Block, v \in Variable : v \in DOMAIN Mapping(e, c) =>
                 /\ v \in DOMAIN Mapping(d, c)
                 /\ c # b => Mapping(d, c)[v] = Mapping(e, c)[v]
<1>1. b \notin Begun(e)
  BY BlockAssumption DEF Enters
<1>2. /\ Begun(d) = d.finishedBlocks \cup {b}
      /\ \A c \in Block : c \in Begun(e) <=> c \in d.finishedBlocks
      /\ Changing(d) = Changing(e)
      /\ d.outputVariables = e.outputVariables /\ d.mutableVariables = e.mutableVariables
      /\ Bound(e.store) \subseteq Bound(d.store)
  BY EntersStay
<1>3. ASSUME NEW c \in Block, NEW v \in Variable, v \in DOMAIN Mapping(e, c)
      PROVE  /\ v \in DOMAIN Mapping(d, c)
             /\ c # b => Mapping(d, c)[v] = Mapping(e, c)[v]
  BY <1>3 DEF Enters, Entered
<1> QED BY <1>1, <1>2, <1>3

LEMMA EntersNames ==
    ASSUME NEW g \in [Block -> Seq(Block)], NEW e, NEW b \in Block, NEW d, Enters(g, e, d, b)
    PROVE  Names(d)
<1> DEFINE finished == ReachablePredecessors(g, b) \cap d.finishedBlocks
           unfinished == ReachablePredecessors(g, b) \ d.finishedBlocks
<1>1. /\ Begun(d) = d.finishedBlocks \cup {b}
      /\ \A c \in Block : c \in Begun(e) <=> c \in d.finishedBlocks
      /\ Changing(d) = Changing(e)
      /\ d.outputVariables = e.outputVariables /\ d.mutableVariables = e.mutableVariables
      /\ Bound(e.store) \subseteq Bound(d.store)
  BY EntersStay
<1>2. Entered(g, e, d, b, finished, unfinished) /\ Names(e)
  BY DEF Enters
<1>3. finished \subseteq Block
  BY DEF ReachablePredecessors, Reach
<1> HIDE DEF finished, unfinished
<1>4. \A v \in Variable : AllHave(e, finished, v) => v \in Bound(d.store)
  BY <1>1, <1>2, <1>3 DEF AllHave, Names
<1>5. ASSUME NEW c \in Block, NEW v \in Variable, v \in DOMAIN Mapping(d, c)
      PROVE  /\ v \in Bound(d.store)
             /\ Mapping(d, c)[v] = v \/ (v \in Changing(d) /\ Mapping(d, c)[v] \in Versions)
             /\ c \notin Begun(d) => v \notin Changing(d)
  <2>1. CASE c = b
    <3>1. v \in DOMAIN Mapping(e, b) \/ AllHave(e, finished, v)
      BY <1>2, <1>5, <2>1 DEF Entered, Inherits
    <3>2. v \in Bound(d.store)
      BY <1>1, <1>2, <1>4, <3>1 DEF Names
    <3> QED BY <1>1, <1>2, <1>5, <2>1, <3>2 DEF Entered
  <2>2. CASE c # b /\ v \in DOMAIN Mapping(e, c)
    <3>1. Mapping(d, c)[v] = Mapping(e, c)[v]
      BY <1>2, <2>2 DEF Entered
    <3> QED BY <1>1, <1>2, <2>2, <3>1 DEF Names
  <2>3. CASE c # b /\ v \notin DOMAIN Mapping(e, c)
    <3>1. AllHave(e, finished, v) /\ v \notin Changing(e) /\ Mapping(d, c)[v] = v
      BY <1>2, <1>5, <2>3 DEF Entered
    <3> QED BY <1>1, <1>4, <3>1
  <2> QED BY <2>1, <2>2, <2>3
<1>6. /\ d.outputVariables \cap d.mutableVariables = {}
      /\ Changing(d) \subseteq Bound(d.store)
  BY <1>1, <1>2 DEF Names
<1> QED BY <1>5, <1>6 DEF Names

\* A predecessor that is not finished is dominated by the only finished one.
LEMMA EntersDominated ==
    ASSUME NEW g \in [Block -> Seq(Block)], NEW e, NEW b \in Block, NEW d, Enters(g, e, d, b),
           NEW w, ScopeKnown(g, e, w), NEW u \in ReachablePredecessors(g, b) \ d.finishedBlocks,
           NEW v \in Variable \ (Inputs \cup e.outputVariables),
           AllHave(e, ReachablePredecessors(g, b) \cap d.finishedBlocks, v)
    PROVE  ~Avoids(g, w[v], u)
<1> DEFINE finished == ReachablePredecessors(g, b) \cap d.finishedBlocks
           unfinished == ReachablePredecessors(g, b) \ d.finishedBlocks
<1>1. finished \subseteq Reach(g, Entry) /\ u \in Block
  BY DEF ReachablePredecessors, Reach
<1>2. Entered(g, e, d, b, finished, unfinished) /\ u \in unfinished
  BY DEF Enters
<1> HIDE DEF finished, unfinished
<1>3. PICK p \in Block : finished = {p} /\ Dominates(g, p, u)
  BY <1>2 DEF Entered
<1>4. v \in DOMAIN Mapping(e, p) /\ p \in Reach(g, Entry)
  BY <1>1, <1>3 DEF AllHave, finished
<1>5. ~Avoids(g, w[v], p)
  BY <1>4 DEF ScopeKnown
<1> QED BY <1>1, <1>3, <1>5, DominatorAvoids

\* What every finished predecessor has is written on every way to the block.
LEMMA EntersReached ==
    ASSUME NEW g \in [Block -> Seq(Block)], NEW e, NEW b \in Block, NEW d, Enters(g, e, d, b),
           NEW w, ScopeKnown(g, e, w), NEW v \in Variable \ (Inputs \cup e.outputVariables),
           AllHave(e, ReachablePredecessors(g, b) \cap d.finishedBlocks, v)
    PROVE  ~Avoids(g, w[v], b)
<1> DEFINE finished == ReachablePredecessors(g, b) \cap d.finishedBlocks
<1>1. PICK q \in finished : q \in d.finishedBlocks /\ q \in Reach(g, Entry)
  BY DEF AllHave, ReachablePredecessors
<1>2. q \in Begun(e) /\ b \notin Begun(e)
  BY <1>1, EntersFacts DEF Reach
<1>3. b # Entry
  BY <1>1, <1>2 DEF ScopeKnown
<1> SUFFICES ASSUME Avoids(g, w[v], b)  PROVE FALSE
  OBVIOUS
<1>4. PICK p \in ReachablePredecessors(g, b) : Avoids(g, w[v], p)
  BY <1>3, AvoidsLast
<1>5. CASE p \in d.finishedBlocks
  <2>1. v \in DOMAIN Mapping(e, p) /\ p \in Reach(g, Entry)
    BY <1>5 DEF AllHave, ReachablePredecessors
  <2> QED BY <1>4, <2>1 DEF ScopeKnown
<1>6. CASE p \notin d.finishedBlocks
  BY <1>4, <1>6, EntersDominated
<1> QED BY <1>5, <1>6

\* A way to a finished predecessor without v leads to the block.
LEMMA EntersAvoided ==
    ASSUME NEW g \in [Block -> Seq(Block)], NEW e, NEW b \in Block, NEW d, Enters(g, e, d, b),
           NEW w, ScopeKnown(g, e, w), NEW v \in Variable \ (Inputs \cup e.outputVariables),
           w[v] \subseteq Begun(e),
           NEW p \in ReachablePredecessors(g, b) \cap d.finishedBlocks, v \notin DOMAIN Mapping(e, p)
    PROVE  Avoids(g, w[v] \cup (Block \ (d.finishedBlocks \cup {b})), b)
<1> DEFINE F == d.finishedBlocks
           S == w[v] \cup (Block \ (F \cup {b}))
<1>1. p \in Block /\ p \in Reach(g, Entry) /\ b \in Successors(g, p)
  BY DEF ReachablePredecessors, Reach
<1>2. p \in Begun(e) /\ b \notin Begun(e)
  BY <1>1, EntersFacts
<1>3. Avoids(g, w[v] \cup (Block \ (e.finishedBlocks \cup {p})), p)
  BY <1>1, <1>2 DEF ScopeKnown
<1>4. Avoids(g, S, p)
  <2>1. S \subseteq w[v] \cup (Block \ (e.finishedBlocks \cup {p}))
    BY DEF Enters
  <2> HIDE DEF S
  <2> QED BY <1>1, <1>3, <2>1, AvoidsLess
<1>5. b \notin S
  BY <1>2
<1> HIDE DEF S
<1> QED BY <1>1, <1>4, <1>5, AvoidsStep DEF S

LEMMA EntersScope ==
    ASSUME NEW g \in [Block -> Seq(Block)], NEW e, NEW b \in Block, NEW d, Enters(g, e, d, b),
           NEW w, ScopeKnown(g, e, w), \A v \in Variable : w[v] \subseteq Begun(e)
    PROVE  ScopeKnown(g, d, w)
<1> DEFINE previous == ReachablePredecessors(g, b)
           F == d.finishedBlocks
           finished == previous \cap F
           unfinished == previous \ F
<1>1. /\ Begun(d) = F \cup {b}
      /\ b \notin Begun(e)
      /\ \A c \in Block : c \in Begun(e) <=> c \in F
      /\ d.outputVariables = e.outputVariables
      /\ e.finishedBlocks \subseteq F
      /\ previous # {} => finished # {}
      /\ Entered(g, e, d, b, finished, unfinished)
  <2>1. /\ e.finishedBlocks \subseteq F
        /\ previous # {} => finished # {}
        /\ Entered(g, e, d, b, finished, unfinished)
    BY DEF Enters
  <2> HIDE DEF finished, unfinished
  <2> QED BY <2>1, EntersFacts
<1>2. b \in Reach(g, Entry) \ {Entry} => previous # {}
  BY EntryAssumption, LastEdge DEF ReachablePredecessors
<1>3. F \cap Reach(g, Entry) # {} => Entry \in F
  BY <1>1, EntryAssumption DEF ScopeKnown, Reach
<1>4. Begun(d) \cap Reach(g, Entry) # {} => Entry \in Begun(d)
  BY <1>1, <1>2, <1>3 DEF ReachablePredecessors
<1>5. ASSUME NEW v \in Variable \ (Inputs \cup d.outputVariables), NEW c \in Reach(g, Entry),
             v \in DOMAIN Mapping(d, c)
      PROVE  ~Avoids(g, w[v], c)
  <2>1. c \in Block
    BY DEF Reach
  <2>2. CASE v \in DOMAIN Mapping(e, c)
    BY <1>1, <2>2 DEF ScopeKnown
  <2>3. CASE v \notin DOMAIN Mapping(e, c) /\ c # b
    <3>1. c \in unfinished /\ AllHave(e, finished, v)
      BY <1>1, <1>5, <2>1, <2>3 DEF Entered
    <3> QED BY <1>1, <3>1, EntersDominated
  <2>4. CASE v \notin DOMAIN Mapping(e, c) /\ c = b
    <3>1. AllHave(e, finished, v)
      BY <1>1, <1>5, <2>4 DEF Entered, Inherits
    <3> QED BY <1>1, <2>4, <3>1, EntersReached
  <2> QED BY <2>2, <2>3, <2>4
<1>6. ASSUME NEW v \in Variable \ (Inputs \cup d.outputVariables), NEW c \in Reach(g, Entry),
             v \notin DOMAIN Mapping(d, c), c \in Begun(d)
      PROVE  Avoids(g, w[v] \cup (Block \ (F \cup {c})), c)
  <2>1. c \in Block /\ v \notin DOMAIN Mapping(e, c)
    BY <1>6, EntersFacts DEF Reach
  <2>2. CASE c # b
    <3>1. c \in Begun(e)
      BY <1>1, <1>6, <2>1, <2>2
    <3>2. Avoids(g, w[v] \cup (Block \ (e.finishedBlocks \cup {c})), c)
      BY <1>1, <2>1, <3>1 DEF ScopeKnown
    <3>3. w[v] \cup (Block \ (F \cup {c})) \subseteq w[v] \cup (Block \ (e.finishedBlocks \cup {c}))
      BY <1>1
    <3> QED BY <2>1, <3>2, <3>3, AvoidsLess
  <2>3. CASE c = b /\ finished = {}
    <3>1. c = Entry
      BY <1>1, <1>2, <2>3
    <3>2. Entry \notin w[v] \cup (Block \ (F \cup {c}))
      BY <1>1, <2>3, <3>1
    <3> QED BY <3>1, <3>2, AvoidsEntry
  <2>4. CASE c = b /\ finished # {}
    <3>1. ~AllHave(e, finished, v)
      BY <1>1, <1>6, <2>4 DEF Entered, Inherits
    <3>2. PICK p \in finished : v \notin DOMAIN Mapping(e, p)
      BY <2>4, <3>1 DEF AllHave
    <3> QED BY <1>1, <2>4, <3>2, EntersAvoided
  <2> QED BY <2>2, <2>3, <2>4
<1> QED BY <1>4, <1>5, <1>6 DEF ScopeKnown

LEMMA EntersFlows ==
    ASSUME NEW g \in [Block -> Seq(Block)], NEW e, NEW b \in Block, NEW d, Enters(g, e, d, b),
           NEW w, ScopeKnown(g, e, w), \A v \in Variable : w[v] \subseteq Begun(e),
           NEW a, FlowsKnown(g, e, w, a), b \notin DOMAIN a
    PROVE  FlowsKnown(g, d, w, Put(a, b, Mapping(d, b)))
<1> DEFINE previous == ReachablePredecessors(g, b)
           F == d.finishedBlocks
           finished == previous \cap F
           unfinished == previous \ F
           z == Put(a, b, Mapping(d, b))
<1>1. /\ b \notin Begun(e) /\ b \notin F
      /\ \A c \in Block : c \in Begun(e) <=> c \in F
      /\ d.outputVariables = e.outputVariables /\ d.mutableVariables = e.mutableVariables
      /\ Changing(d) = Changing(e)
      /\ previous # {} => finished # {}
      /\ Entered(g, e, d, b, finished, unfinished)
      /\ Names(e)
  <2>1. /\ b \notin F
        /\ previous # {} => finished # {}
        /\ Entered(g, e, d, b, finished, unfinished)
        /\ Names(e)
    BY DEF Enters
  <2> HIDE DEF finished, unfinished
  <2> QED BY <2>1, EntersFacts
<1>2. FlowsKnown(g, d, w, a)
  <2>1. \A c \in Block, v \in Variable : v \in DOMAIN Mapping(e, c) =>
              /\ v \in DOMAIN Mapping(d, c)
              /\ c \in Begun(e) => Mapping(d, c)[v] = Mapping(e, c)[v]
    BY <1>1, EntersFacts
  <2>2. Carried(e, d) /\ F = Begun(e) \ {NoBlock}
    BY <1>1 DEF Entered, Enters
  <2> QED BY <1>1, <2>1, <2>2, LeftFlows
<1>3. /\ DOMAIN z = DOMAIN a \cup {b}
      /\ z[b] = Mapping(d, b)
      /\ \A c \in DOMAIN a : z[c] = a[c]
  BY DEF Put
<1> HIDE DEF z
<1>4. ASSUME NEW p \in previous, NEW v \in (Variable \ Inputs) \cap DOMAIN Mapping(d, b)
      PROVE  Inherits(e, finished, unfinished, v)
  <2>1. SUFFICES ASSUME ~Inherits(e, finished, unfinished, v)  PROVE FALSE
    OBVIOUS
  <2>2. v \in DOMAIN Mapping(e, b)
    BY <1>1, <2>1 DEF Entered
  <2>3. v \notin Changing(e) /\ v \notin e.outputVariables
    BY <1>1, <2>2 DEF Names, Changing
  <2>4. PICK q \in finished : v \notin DOMAIN Mapping(e, q)
    BY <1>1, <2>1, <2>3 DEF Inherits, AllHave
  <2>5. Avoids(g, w[v] \cup (Block \ (F \cup {b})), b)
    BY <2>3, <2>4, EntersAvoided
  <2>6. Avoids(g, w[v], b)
    BY <2>5, AvoidsLess
  <2>7. b \in Reach(g, Entry)
    <3>1. p \in Reach(g, Entry) /\ b \in Successors(g, p)
      BY DEF ReachablePredecessors
    <3> QED BY <3>1, ReachStep, EntryAssumption
  <2> QED BY <2>2, <2>3, <2>6, <2>7 DEF ScopeKnown
<1>5. ASSUME NEW p \in previous, NEW v \in (Variable \ Inputs) \cap DOMAIN Mapping(d, b)
      PROVE  LET n == Mapping(d, b)[v]
             IN  IF p \in F THEN Flown(d, p, v, n) ELSE Pending(g, d, w, p, v, n)
  <2> DEFINE n == Mapping(d, b)[v]
  <2>1. Inherits(e, finished, unfinished, v)
    BY <1>4
  <2>2. p \in Block
    BY DEF ReachablePredecessors, Reach
  <2>3. CASE p \in F
    <3>1. FlowsBetween(FlowsIn(d.store), Mapping(e, p)[v], n)
      BY <1>1, <2>1, <2>3 DEF Entered
    <3>2. v \in DOMAIN Mapping(e, p) /\ p # b
      BY <1>1, <2>1, <2>3 DEF Inherits, AllHave
    <3>3. v \in DOMAIN Mapping(d, p) /\ Mapping(d, p)[v] = Mapping(e, p)[v]
      BY <1>1, <2>2, <3>2 DEF Entered
    <3> QED BY <2>3, <3>1, <3>3 DEF Flown
  <2>4. CASE p \notin F
    <3>1. v \notin e.outputVariables /\ AllHave(e, finished, v) /\ p \in unfinished
      BY <2>1, <2>4 DEF Inherits
    <3>2. CASE v \in e.mutableVariables
      <4>1. Due(d, p, v) /\ FlowsBetween(FlowsIn(d.store), FuturePhi(p, v), n)
        BY <1>1, <2>1, <3>1, <3>2 DEF Entered
      <4>2. ~Avoids(g, w[v], p)
        BY <3>1, EntersDominated
      <4> QED BY <1>1, <2>4, <3>2, <4>1, <4>2 DEF Pending
    <3>3. CASE v \notin e.mutableVariables
      <4>1. v \notin Changing(e)
        BY <3>1, <3>3 DEF Changing
      <4>2. n = v
        BY <1>1, <4>1 DEF Entered
      <4>3. v \in DOMAIN Mapping(d, p)
        BY <1>1, <2>2, <3>1, <4>1 DEF Entered
      <4> QED BY <1>1, <2>4, <4>1, <4>2, <4>3 DEF Pending
    <3> QED BY <3>2, <3>3
  <2> QED BY <2>3, <2>4
<1>6. ASSUME NEW c \in DOMAIN z, NEW p \in ReachablePredecessors(g, c),
             NEW v \in (Variable \ Inputs) \cap DOMAIN z[c]
      PROVE  IF p \in F THEN Flown(d, p, v, z[c][v]) ELSE Pending(g, d, w, p, v, z[c][v])
  <2>1. CASE c = b
    BY <1>3, <1>5, <1>6, <2>1
  <2>2. CASE c # b
    <3>1. c \in DOMAIN a /\ z[c] = a[c]
      BY <1>3, <2>2
    <3> QED BY <1>2, <1>6, <3>1 DEF FlowsKnown
  <2> QED BY <2>1, <2>2
<1>7. FlowsKnown(g, d, w, z)
  BY <1>6 DEF FlowsKnown
<1> QED BY <1>7 DEF z

--------------------------------------------------------------------------------
\* The invariant of the names, the scopes and the flows, until a call fails.
\* ScopeIsDefiniteAssignment speaks of the current block and EveryPathFlows of a
\* written query; between calls, ScopeKnown has the scope of every begun block,
\* for one may become current much later, and FlowsKnown has for an unfinished
\* source of an edge what it keeps or owes, since it may be finished last.
NamesInv ==
    outcome = "open" =>
        /\ Names(env)
        /\ \A v \in Variable : writtenIn[v] \subseteq Begun(env) \ {NoBlock}

ScopeInv == outcome = "open" => ScopeKnown(succ, env, writtenIn)

PathsInv ==
    /\ outcome = "open" => DOMAIN atEntry = Begun(env) \ {NoBlock}
    /\ outcome = "emitted" => Finished \subseteq DOMAIN atEntry
    /\ outcome \in {"open", "emitted"} => FlowsKnown(succ, env, writtenIn, atEntry)

PathInv == NamesInv /\ ScopeInv /\ PathsInv

LEMMA PathInvIs ==
    outcome = "open" =>
        (PathInv <=> /\ Names(env)
                     /\ \A v \in Variable : writtenIn[v] \subseteq Begun(env) \ {NoBlock}
                     /\ ScopeKnown(succ, env, writtenIn)
                     /\ DOMAIN atEntry = Begun(env) \ {NoBlock}
                     /\ FlowsKnown(succ, env, writtenIn, atEntry))
BY DEF PathInv, NamesInv, ScopeInv, PathsInv

LEMMA InitPathInv == Init => PathInv
<1> SUFFICES ASSUME Init  PROVE PathInv
  OBVIOUS
<1> DEFINE e == EmptyEnvironment
<1>1. /\ e.currentBlockName = NoBlock
      /\ e.variablesMappingsPerBlock = << >>
      /\ e.finishedBlocks = {}
      /\ e.outputVariables = {}
      /\ e.mutableVariables = {}
  BY DEF EmptyEnvironment
<1>2. /\ env = e /\ outcome = "open" /\ DOMAIN atEntry = {}
      /\ \A v \in Variable : writtenIn[v] = {}
  BY DEF Init
<1> HIDE DEF e
<1>3. Begun(env) = {NoBlock} /\ \A c : DOMAIN Mapping(env, c) = {}
  BY <1>1, <1>2 DEF Begun, Mapping
<1>4. Names(env)
  BY <1>1, <1>2, <1>3 DEF Names, Changing
<1>5. ScopeKnown(succ, env, writtenIn)
  BY <1>3, BlockAssumption DEF ScopeKnown, Reach
<1>6. FlowsKnown(succ, env, writtenIn, atEntry)
  BY <1>2 DEF FlowsKnown
<1> QED BY <1>2, <1>3, <1>4, <1>5, <1>6, PathInvIs

\* A call that fails is the last one.
LEMMA FailedPathInv ==
    ASSUME outcome' \notin {"open", "emitted"}
    PROVE  PathInv'
BY DEF PathInv, NamesInv, ScopeInv, PathsInv

LEMMA WritePathInv ==
    ASSUME Inv, PathInv, Current # NoBlock, NEW v \in Variable, NEW op, Write(v, op),
           op.ok => Wrote(env, op.env, v)
    PROVE  PathInv'
<1>1. /\ outcome = "open" /\ env' = op.env /\ succ' = succ /\ atEntry' = atEntry
      /\ outcome' = IF op.ok THEN "open" ELSE "error"
      /\ op.ok => writtenIn' = [writtenIn EXCEPT ![v] = @ \cup {Current}]
  BY DEF Write, Call
<1>2. CASE ~op.ok
  BY <1>1, <1>2, FailedPathInv
<1>3. CASE op.ok
  <2>1. Running(env) /\ Current \in Block /\ Wrote(env, env', v)
    BY <1>1, <1>3, OpenFacts DEF Running, Current
  <2>2. /\ Names(env) /\ ScopeKnown(succ, env, writtenIn)
        /\ FlowsKnown(succ, env, writtenIn, atEntry)
        /\ DOMAIN atEntry = Begun(env) \ {NoBlock}
        /\ \A x \in Variable : writtenIn[x] \subseteq Begun(env) \ {NoBlock}
    BY <1>1, PathInvIs
  <2>3. /\ writtenIn'[v] = writtenIn[v] \cup {env.currentBlockName}
        /\ \A x \in Variable : x # v => writtenIn'[x] = writtenIn[x]
    BY <1>1, <1>3 DEF Inv, EnvironmentInv, Current
  <2>4. Begun(env') = Begun(env) /\ env.currentBlockName \in Begun(env)
    BY <2>1, <2>2, WroteFacts DEF Begun, Current
  <2>5. \A x \in Variable : writtenIn'[x] \subseteq Begun(env') \ {NoBlock}
    BY <2>1, <2>2, <2>3, <2>4, BlockAssumption DEF Current
  <2>6. Names(env')
    BY <2>1, <2>2, WroteNames DEF Current
  <2>7. succ \in [Block -> Seq(Block)]
    BY ProgramFacts
  <2>8. ScopeKnown(succ, env', writtenIn')
    BY <2>1, <2>2, <2>3, <2>7, WroteScope
  <2>9. FlowsKnown(succ, env', writtenIn', atEntry)
    BY <2>1, <2>2, <2>3, <2>7, WroteFlows
  <2> QED BY <1>1, <1>3, <2>2, <2>4, <2>5, <2>6, <2>8, <2>9 DEF PathInv, NamesInv, ScopeInv, PathsInv
<1> QED BY <1>2, <1>3

LEMMA StatementPathInv ==
    ASSUME Inv, PathInv, Open, outcome = "open", NEW v \in used,
           \/ CreateVariable(v) \/ Assign(v) \/ \E s \in Sources : Phi(v, s)
    PROVE  PathInv'
<1>1. /\ Current # NoBlock /\ v \in Variable
      /\ Healthy(env) /\ Running(env) /\ Shape(env)
  BY ProgramFacts, OpenFacts DEF Open, Healthy
<1>2. CASE v \in Inputs /\ Write(v, CreateImmutableInputVariable(env, v, TypeOf[v], Constraints(v)))
  BY <1>1, <1>2, CreateInputWrites, WritePathInv
<1>3. CASE v \in Outputs /\ Write(v, CreateMutableOutputVariable(env, v, TypeOf[v], Constraints(v)))
  BY <1>1, <1>3, CreateOutputWrites, WritePathInv
<1>4. ASSUME NEW x \in Expressions, v \in Mutables,
             Write(v, CreateMutableVariable(env, v, TypeOf[v], Constraints(v), x))
      PROVE  PathInv'
  BY <1>1, <1>4, CreateMutableWrites, WritePathInv
<1>5. ASSUME NEW x \in Expressions, v \in Immutables,
             Write(v, CreateImmutableVariable(env, v, TypeOf[v], Constraints(v), x))
      PROVE  PathInv'
  BY <1>1, <1>5, CreateImmutableWrites, WritePathInv
<1>6. ASSUME NEW x \in Expressions, Write(v, AssignMutableVariable(env, v, x))  PROVE PathInv'
  BY <1>1, <1>6, AssignWrites, WritePathInv
<1>7. ASSUME NEW s \in Sources, v \in Phis, Write(v, CreatePhiNode(succ, env, v, TypeOf[v], s))
      PROVE  PathInv'
  <2>1. DOMAIN s \subseteq Block
    BY DEF Sources, ReachablePredecessors, Reach
  <2> QED BY <1>1, <1>7, <2>1, CreatePhiWrites, WritePathInv
<1> QED BY <1>2, <1>3, <1>4, <1>5, <1>6, <1>7 DEF CreateVariable, Assign, Phi

LEMMA TerminatorPathInv ==
    ASSUME Inv, PathInv, Terminator
    PROVE  PathInv'
<1>1. PICK b \in Successors(succ, Current) : Jump(b) \/ \E v \in used : Branch(v, b)
  BY DEF Terminator
<1>2. ASSUME NEW op, Call(op), UNCHANGED <<atEntry, writtenIn>>, op.ok => Kept(env, op.env, {})
      PROVE  PathInv'
  <2>1. /\ outcome = "open" /\ env' = op.env /\ succ' = succ /\ atEntry' = atEntry
        /\ writtenIn' = writtenIn
        /\ outcome' = IF op.ok THEN "open" ELSE "error"
    BY <1>2 DEF Call
  <2>2. CASE ~op.ok
    BY <2>1, <2>2, FailedPathInv
  <2>3. CASE op.ok
    <3>1. Kept(env, env', {})
      BY <1>2, <2>1, <2>3
    <3> QED BY <2>1, <2>3, <3>1, AddsKnown DEF PathInv, NamesInv, ScopeInv, PathsInv
  <2> QED BY <2>2, <2>3
<1>3. Shape(env)
  BY DEF Inv, EnvironmentInv, Healthy
<1>4. CASE Jump(b)
  <2> DEFINE op == AddJumpInformation(env, b)
  <2>1. Kept(env, op.env, {})
    BY <1>3, ConstrainedAdds DEF AddJumpInformation, Adds
  <2>2. Call(op) /\ UNCHANGED <<atEntry, writtenIn>>
    BY <1>4 DEF Jump
  <2> HIDE DEF op
  <2> QED BY <1>2, <2>1, <2>2
<1>5. ASSUME NEW v \in used, Branch(v, b)  PROVE PathInv'
  <2> DEFINE op == AddBranchInformation(env, v, b)
  <2>1. op.ok => Kept(env, op.env, {})
    <3>1. op.ok => op = Build(env, CreateBinderWithConstraints(env.store,
                                TransitionGuard(env.currentBlockName, b), "bool", {Over({v})}))
      BY DEF AddBranchInformation, Fail
    <3> QED BY <1>3, <3>1, ConstrainedAdds DEF Adds
  <2>2. Call(op) /\ UNCHANGED <<atEntry, writtenIn>>
    BY <1>5 DEF Branch
  <2> HIDE DEF op
  <2> QED BY <1>2, <2>1, <2>2
<1> QED BY <1>1, <1>4, <1>5

LEMMA EnterPathInv ==
    ASSUME Inv, PathInv, NEW b \in Block, Enter(b)
    PROVE  PathInv'
<1> DEFINE r == StartBlock(succ, env, b)
           previous == ReachablePredecessors(succ, b)
           F == env'.finishedBlocks
<1>1. /\ outcome = "open" /\ succ' = succ /\ writtenIn' = writtenIn
      /\ env' = r.env /\ outcome' = IF r.ok THEN "open" ELSE "error"
      /\ r.ok => atEntry' = Put(atEntry, b, Mapping(env', b))
  BY DEF Enter, Call
<1>2. CASE ~r.ok
  <2> HIDE DEF r
  <2> QED BY <1>1, <1>2, FailedPathInv
<1>3. CASE r.ok
  <2>1. /\ Names(env) /\ ScopeKnown(succ, env, writtenIn)
        /\ FlowsKnown(succ, env, writtenIn, atEntry)
        /\ DOMAIN atEntry = Begun(env) \ {NoBlock}
        /\ \A x \in Variable : writtenIn[x] \subseteq Begun(env) \ {NoBlock}
    BY <1>1, PathInvIs
  <2>2. /\ Started(succ, env, b, r)
        /\ Healthy(env) /\ Owed(env)
        /\ env.currentBlockName \notin env.finishedBlocks
        /\ env.currentBlockName = NoBlock => env.finishedBlocks = {} /\ Mentioned(env.store) = {}
    BY <1>1, StartStarts DEF Current, Finished
  <2>3. succ \in [Block -> Terminators] /\ succ \in [Block -> Seq(Block)]
    BY ProgramFacts
  <2>4. Entered(succ, env, env', b, previous \cap F, previous \ F)
    BY <1>1, <1>3, <2>1, <2>2, <2>3, StartBlockNames
  <2> HIDE DEF r
  <2>5. /\ env'.currentBlockName = b
        /\ F = Begun(env) \ {NoBlock}
        /\ b \notin F
        /\ previous # {} => previous \cap F # {}
    BY <1>1, <1>3, <2>2 DEF Started, Begun
  <2>6. env.finishedBlocks \subseteq F
    BY <2>2, <2>5, BlockAssumption DEF Healthy, Begun
  <2>7. Enters(succ, env, env', b)
    BY <2>1, <2>4, <2>5, <2>6 DEF Enters
  <2>8. Names(env')
    BY <2>3, <2>7, EntersNames
  <2>9. ScopeKnown(succ, env', writtenIn)
    BY <2>1, <2>3, <2>7, EntersScope
  <2>10. b \notin Begun(env) /\ Begun(env') = F \cup {b}
    BY <2>3, <2>7, EntersFacts
  <2>11. FlowsKnown(succ, env', writtenIn, Put(atEntry, b, Mapping(env', b)))
    BY <2>1, <2>3, <2>7, <2>10, EntersFlows
  <2>12. DOMAIN atEntry' = Begun(env') \ {NoBlock}
    <3>1. DOMAIN atEntry' = DOMAIN atEntry \cup {b}
      BY <1>1, <1>3 DEF Put
    <3> QED BY <2>1, <2>5, <2>10, <3>1, BlockAssumption
  <2>13. \A x \in Variable : writtenIn[x] \subseteq Begun(env') \ {NoBlock}
    BY <2>1, <2>5, <2>10
  <2> QED BY <1>1, <1>3, <2>8, <2>9, <2>11, <2>12, <2>13 DEF PathInv, NamesInv, ScopeInv, PathsInv
<1> QED BY <1>2, <1>3

LEMMA FinishPathInv ==
    ASSUME Inv, PathInv, Finish
    PROVE  PathInv'
<1> DEFINE left == endBlock(env)
           r == ToStringOrFailure(env)
<1>1. /\ Current # NoBlock /\ outcome = "open" /\ succ' = succ
      /\ writtenIn' = writtenIn /\ atEntry' = atEntry /\ env' = r.env
      /\ outcome' = IF r.ok THEN "emitted" ELSE "error"
  BY DEF Finish
<1>2. r.env = left.env /\ (r.ok => left.ok)
  <2> HIDE DEF left
  <2> QED BY DEF ToStringOrFailure, Then, Succeed, Fail, left
<1> HIDE DEF r
<1>3. CASE ~r.ok
  BY <1>1, <1>3, FailedPathInv
<1>4. CASE r.ok
  <2>1. /\ Names(env) /\ ScopeKnown(succ, env, writtenIn)
        /\ FlowsKnown(succ, env, writtenIn, atEntry)
        /\ DOMAIN atEntry = Begun(env) \ {NoBlock}
    BY <1>1, PathInvIs
  <2>2. Healthy(env) /\ Running(env) /\ Owed(env)
    BY <1>1, OpenFacts
  <2>3. Left(env, left)
    BY <2>2, EndBlockLeaves
  <2>4. Ended(env, env')
    BY <1>1, <1>2, <1>4, <2>2, EndBlockNames
  <2> HIDE DEF left
  <2>5. env'.finishedBlocks = Begun(env) \ {NoBlock}
    BY <1>1, <1>2, <1>4, <2>2, <2>3, BlockAssumption DEF Left, Begun, Running, Healthy
  <2>6. FlowsKnown(succ, env', writtenIn, atEntry)
    BY <2>1, <2>4, <2>5, ProgramFacts, LeftFlows DEF Ended, SameNames
  <2> QED BY <1>1, <1>4, <2>1, <2>5, <2>6 DEF PathInv, NamesInv, ScopeInv, PathsInv, Finished
<1> QED BY <1>3, <1>4

LEMMA NextPathInv == Inv /\ PathInv /\ [Next]_vars => PathInv'
<1> SUFFICES ASSUME Inv, PathInv, [Next]_vars  PROVE PathInv'
  OBVIOUS
<1>1. ASSUME NEW b \in Block, Enter(b)  PROVE PathInv'
  BY <1>1, EnterPathInv
<1>2. CASE Overflow
  BY <1>2, FailedPathInv DEF Overflow
<1>3. ASSUME Open, NEW v \in used, CreateVariable(v) \/ Assign(v) \/ \E s \in Sources : Phi(v, s)
      PROVE  PathInv'
  <2>1. outcome = "open"
    BY <1>3 DEF CreateVariable, Assign, Phi, Write, Call
  <2> QED BY <1>3, <2>1, StatementPathInv
<1>4. CASE Statement
  BY <1>3, <1>4 DEF Statement
<1>5. CASE UNCHANGED vars
  BY <1>5 DEF vars, PathInv, NamesInv, ScopeInv, PathsInv, Finished
<1> QED BY <1>1, <1>2, <1>3, <1>4, <1>5, TerminatorPathInv, FinishPathInv DEF Next, OtherCall

\* Names, scopes and flows are as PathInv says until a call fails.
THEOREM PathsHold == Spec => [](Inv /\ PathInv)
BY InitInv, InitPathInv, NextInv, NextPathInv, PTL DEF Spec

\* A variable that is neither input nor output is in scope in the current block
\* exactly when every path to that block writes it.
THEOREM ScopeIsExact == Spec => []ScopeIsDefiniteAssignment
<1>1. Inv /\ PathInv => ScopeIsDefiniteAssignment
  <2> SUFFICES ASSUME Inv, PathInv, outcome = "open", Current \in Reach(succ, Entry),
                      NEW v \in Variable \ (Inputs \cup Outputs)
               PROVE  v \in DOMAIN Mapping(env, Current) <=> ~Avoids(succ, writtenIn[v], Current)
    BY DEF ScopeIsDefiniteAssignment
  <2>1. ScopeKnown(succ, env, writtenIn) /\ v \notin env.outputVariables /\ Current \in Begun(env)
    BY PathInvIs DEF Inv, EnvironmentInv, Healthy, ConstraintsNoted, Begun, Current
  <2>2. v \in DOMAIN Mapping(env, Current) => ~Avoids(succ, writtenIn[v], Current)
    BY <2>1 DEF ScopeKnown
  <2>3. ASSUME v \notin DOMAIN Mapping(env, Current)  PROVE Avoids(succ, writtenIn[v], Current)
    <3>1. Avoids(succ, writtenIn[v] \cup (Block \ (env.finishedBlocks \cup {Current})), Current)
      BY <2>1, <2>3 DEF ScopeKnown
    <3>2. Current \in Block /\ succ \in [Block -> Seq(Block)]
      BY ProgramFacts DEF Reach
    <3> QED BY <3>1, <3>2, AvoidsLess
  <2> QED BY <2>2, <2>3
<1> QED BY <1>1, PathsHold, PTL

\* In a written query each value flows along every edge between processed blocks,
\* from the name at the end of the source to the name at the start of the target.
THEOREM EveryPathDoesFlow == Spec => []EveryPathFlows
<1>1. Inv /\ PathInv => EveryPathFlows
  <2> SUFFICES ASSUME PathInv, outcome = "emitted", NEW e \in Edges(succ),
                      e[1] \in Finished, e[2] \in Finished,
                      NEW v \in (Variable \ Inputs) \cap DOMAIN atEntry[e[2]]
               PROVE  /\ v \in DOMAIN Mapping(env, e[1])
                      /\ FlowsTo(Mapping(env, e[1])[v], atEntry[e[2]][v])
    BY DEF EveryPathFlows
  <2>1. e[1] \in ReachablePredecessors(succ, e[2]) /\ e[2] \in DOMAIN atEntry
    BY DEF Edges, ReachablePredecessors, PathInv, PathsInv
  <2>2. Flown(env, e[1], v, atEntry[e[2]][v])
    BY <2>1 DEF PathInv, PathsInv, FlowsKnown, Finished
  <2> QED BY <2>2, FlowsAre DEF Flown
<1> QED BY <1>1, PathsHold, PTL
================================================================================
