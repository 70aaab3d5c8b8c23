----------------------- MODULE FixpointConstraintBuilder -----------------------
(***************************************************************************)
(* FixpointConstraintBuilder as its clients see it: an object that builds  *)
(* the query for the Horn clause solver call by call.  A call that returns *)
(* an error is the last one: every caller passes the error up and the      *)
(* compiler stops.  ToStringOrFailure, which writes the query, is the last *)
(* call of a run that succeeds.                                            *)
(*                                                                         *)
(* Spec allows every sequence of calls.  OrderlySpec is the object with a  *)
(* client that promises a name once, and before it binds it.               *)
(***************************************************************************)
EXTENDS ConstraintStore, FiniteSets

CONSTANTS
    Name,           \* names of binders
    ConstraintName, \* names of constraints
    Type,           \* fixpoint types, "int" and "bool"
    Formula,        \* predicates, as the client writes them
    MaxPromises     \* bound of the model on the ids given out

ASSUME MaxPromisesAssumption == MaxPromises \in Nat
ASSUME KvarAssumption == \A g \in Formula : g \notin {"$k"} \X Nat

VARIABLES
    store,          \* the private fields of the object
    outcome         \* "open", or how the run ended: "error" or "emitted"

vars == <<store, outcome>>

Init == store = EmptyStore /\ outcome = "open"

\* The call made is op, which gives its result and the new state of the object.
Call(op) ==
    /\ outcome = "open"
    /\ store' = op.store
    /\ outcome' = IF op.ok THEN "open" ELSE "error"

UnknownType(n, t, env) == Call(CreateBinderWithUnknownType(store, n, t, env))

WithConstraints(n, t, f) == Call(CreateBinderWithConstraints(store, n, t, {f}))

\* The bound keeps repeated promises of one name from going on for ever.
FutureBinder(n, t) ==
    /\ store.freshBinderId <= MaxPromises
    /\ Call(CreateFutureBinder(store, n, t))

Check(c, t, f, expr, env) == Call(AddConstraint(store, c, t, {f}, {expr}, env))

Assign(c, target, expr, env) ==
    Call(AddConstraintForAssignment(store, c, target, {expr}, env))

ToStringOrFailure ==
    /\ outcome = "open"
    /\ outcome' = IF validateNoUninstantiatedFutureBinders(store) THEN "emitted" ELSE "error"
    /\ UNCHANGED store

BindOrConstrain ==
    \/ \E n \in Name, t \in Type, env \in SUBSET Name : UnknownType(n, t, env)
    \/ \E n \in Name, t \in Type, f \in Formula : WithConstraints(n, t, f)
    \/ \E c \in ConstraintName, f, expr \in Formula, t \in Type, env \in SUBSET Name :
          Check(c, t, f, expr, env)
    \/ \E c \in ConstraintName, target \in Name, expr \in Formula, env \in SUBSET Name :
          Assign(c, target, expr, env)
    \/ ToStringOrFailure

Next ==
    \/ BindOrConstrain
    \/ \E n \in Name, t \in Type : FutureBinder(n, t)

Spec == Init /\ [][Next]_vars

OrderlyNext ==
    \/ BindOrConstrain
    \/ \E n \in Name \ (Bound(store) \cup Promised(store)), t \in Type : FutureBinder(n, t)

OrderlySpec == Init /\ [][OrderlyNext]_vars

--------------------------------------------------------------------------------
Id == Nat \ {0}

Predicate == Formula \cup ({"$k"} \X Id)

Binder == [id : Id, type : Type, qualifiers : SUBSET Predicate]

FutureBinderRecord == [id : Id, type : Type]

WellFormednessConstraint == [id : Id, type : Type, env : SUBSET Id]

Constraint ==
    [id : Id, type : Type, qualifiers : SUBSET Formula,
     targetQualifiers : SUBSET Predicate, env : SUBSET Id]

\* Every field of the object stays within its type.
TypeOK ==
    /\ DOMAIN store = DOMAIN EmptyStore
    /\ store.freshBinderId \in Id
    /\ store.freshRefinementId \in Id
    /\ store.freshConstraintId \in Id
    /\ Bound(store) \subseteq Name
    /\ store.binderNameMapping \in [Bound(store) -> Binder]
    /\ Promised(store) \subseteq Name
    /\ store.futureBindersMapping \in [Promised(store) -> FutureBinderRecord]
    /\ DOMAIN store.wellFormednessConstraintsMapping \subseteq Name
    /\ store.wellFormednessConstraintsMapping \in
          [DOMAIN store.wellFormednessConstraintsMapping -> WellFormednessConstraint]
    /\ DOMAIN store.constraintNameMapping \subseteq ConstraintName
    /\ store.constraintNameMapping \in [DOMAIN store.constraintNameMapping -> Constraint]
    /\ outcome \in {"open", "error", "emitted"}

WfNames == DOMAIN store.wellFormednessConstraintsMapping
BinderId(n) == store.binderNameMapping[n].id
FutureId(n) == store.futureBindersMapping[n].id
WfId(n) == store.wellFormednessConstraintsMapping[n].id
WfType(n) == store.wellFormednessConstraintsMapping[n].type
ConstraintId(c) == store.constraintNameMapping[c].id

LiveIds == {BinderId(n) : n \in Bound(store)} \cup {FutureId(n) : n \in Promised(store)}

\* The ids in the environments of all constraints written so far.
Environments ==
    {store.wellFormednessConstraintsMapping[n].env : n \in WfNames}
        \cup {store.constraintNameMapping[c].env : c \in DOMAIN store.constraintNameMapping}

\* Two names never share an id, whether bound or promised: the solver knows
\* variables, and the checker addresses of variables, by their ids alone.
BinderIdsDistinct ==
    /\ \A m, n \in Bound(store) : BinderId(m) = BinderId(n) => m = n
    /\ \A m, n \in Promised(store) : FutureId(m) = FutureId(n) => m = n
    /\ \A m \in Bound(store), n \in Promised(store) : BinderId(m) # FutureId(n)

\* Every unknown predicate that a refinement or a constraint uses has exactly
\* one well-formedness constraint, of the same type.
KvarsWellFormed ==
    /\ \A m, n \in WfNames : WfId(m) = WfId(n) => m = n
    /\ \A n \in Bound(store) : \A q \in store.binderNameMapping[n].qualifiers \ Formula :
          /\ n \in WfNames
          /\ q = Kvar(WfId(n))
          /\ WfType(n) = store.binderNameMapping[n].type
    /\ \A c \in DOMAIN store.constraintNameMapping :
          \A q \in store.constraintNameMapping[c].targetQualifiers \ Formula :
              \E n \in WfNames :
                  /\ q = Kvar(WfId(n))
                  /\ WfType(n) = store.constraintNameMapping[c].type

\* The unknown refinement of a binder ranges over other binders, never over
\* the binder itself, even when its id was promised before.
WellFoundedEnvironments ==
    \A n \in WfNames : BinderId(n) \notin store.wellFormednessConstraintsMapping[n].env

\* What has been written into the query is never changed or dropped: a later
\* call cannot weaken the refinement of a binder or lose an obligation.
NothingRewritten ==
    [][/\ \A n \in Bound(store) :
            n \in Bound(store)' /\ store'.binderNameMapping[n] = store.binderNameMapping[n]
       /\ \A c \in DOMAIN store.constraintNameMapping :
            /\ c \in DOMAIN store'.constraintNameMapping
            /\ store'.constraintNameMapping[c] = store.constraintNameMapping[c]]_vars

\* A name that is bound and promised at the same time can no longer be
\* settled: no sequence of calls leads to a query.
Unsettled == Bound(store) \cap Promised(store) # {}
UnsettledForEver == [][Unsettled => Unsettled' /\ outcome' # "emitted"]_vars

\* Everything an environment mentions is bound, or promised still.  Only a
\* client that promises a name twice can lose an id.
EnvironmentsLive == outcome # "error" => UNION Environments \subseteq LiveIds

\* In the query that is written, every id of an environment is declared.
QueryClosed ==
    outcome = "emitted" => UNION Environments \subseteq {BinderId(n) : n \in Bound(store)}

--------------------------------------------------------------------------------
\* The counters are ahead of every id given out, and an unknown predicate is
\* declared only together with its binder.
CountersAhead ==
    /\ \A n \in Bound(store) : BinderId(n) < store.freshBinderId
    /\ \A n \in Promised(store) : FutureId(n) < store.freshBinderId
    /\ \A n \in WfNames : WfId(n) < store.freshRefinementId
    /\ WfNames \subseteq Bound(store)

IInv ==
    /\ TypeOK
    /\ BinderIdsDistinct
    /\ KvarsWellFormed
    /\ WellFoundedEnvironments
    /\ CountersAhead

\* For an orderly client: until an error no name is both bound and promised,
\* and no id that an environment mentions is lost.
OrderlyInv == IInv /\ (outcome # "error" => ~Unsettled) /\ EnvironmentsLive
              /\ (outcome = "emitted" => Promised(store) = {})

--------------------------------------------------------------------------------
\* What the object promises an orderly client, see BinderRegistry.
Registry == INSTANCE BinderRegistry WITH
    id <- [n \in Name |-> IF n \in Bound(store) THEN BinderId(n)
                          ELSE IF n \in Promised(store) THEN FutureId(n) ELSE 0],
    bound <- Bound(store),
    mentioned <- UNION Environments,
    outcome <- outcome

ImplementsRegistry == Registry!Spec
================================================================================
