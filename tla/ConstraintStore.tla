---------------------------- MODULE ConstraintStore ----------------------------
(***************************************************************************)
(* The operations of FixpointConstraintBuilder as functions of the state   *)
(* of the object.  An operation takes a store and returns a record with    *)
(* the field ok, false when the code returns ResultType::Error, and the    *)
(* field store, the state the call leaves behind, whether it succeeded or  *)
(* not.                                                                    *)
(*                                                                         *)
(* A binder is a variable of the query for the Horn clause solver, and its *)
(* refinement is a set of predicates.  The refinement of a binder of       *)
(* unknown type is one fresh unknown predicate $k, for which the solver    *)
(* gets a well-formedness constraint.  A future binder is an id given out  *)
(* for a name that will be bound later.  The environment of a constraint   *)
(* is kept, as in the code, as ids and not as names; as sets, because the  *)
(* code sorts them and the solver ignores repetitions.                     *)
(*                                                                         *)
(* The order in which names were added serves only the layout of the       *)
(* output and is left out.                                                 *)
(***************************************************************************)
EXTENDS Naturals, Functions

\* map[key] = value, for a std::map.
Put(map, key, value) ==
    [k \in DOMAIN map \cup {key} |-> IF k = key THEN value ELSE map[k]]

\* Mutant: the counters start at 0.
EmptyStoreAtZero ==
    [freshBinderId                    |-> 0,
     freshRefinementId                |-> 0,
     freshConstraintId                |-> 0,
     binderNameMapping                |-> << >>,
     futureBindersMapping             |-> << >>,
     wellFormednessConstraintsMapping |-> << >>,
     constraintNameMapping            |-> << >>]

\* A new object: no names, and every Counter at 1.
EmptyStore ==
    [freshBinderId                    |-> 1,
     freshRefinementId                |-> 1,
     freshConstraintId                |-> 1,
     binderNameMapping                |-> << >>,
     futureBindersMapping             |-> << >>,
     wellFormednessConstraintsMapping |-> << >>,
     constraintNameMapping            |-> << >>]

Success(s) == [ok |-> TRUE, store |-> s]

Error(s) == [ok |-> FALSE, store |-> s]

\* The unknown predicate of a refinement id.
Kvar(id) == <<"$k", id>>

Bound(s) == DOMAIN s.binderNameMapping

Promised(s) == DOMAIN s.futureBindersMapping

DoesBinderExist(s, name) == name \in Bound(s)

\* The id is also the address the checker gives to the variable.
GetBinderAddress(s, name) == s.binderNameMapping[name].id

--------------------------------------------------------------------------------
\* Every name is looked up among the binders first, then the future binders.
EnvironmentFound(s, names) == names \subseteq Bound(s) \cup Promised(s)

getEnvironmentBinderIds(s, names) ==
    {IF n \in Bound(s) THEN s.binderNameMapping[n].id ELSE s.futureBindersMapping[n].id :
        n \in names}

isFutureBinderTypeValidIfExists(s, name, type) ==
    name \in Promised(s) => s.futureBindersMapping[name].type = type

\* Mutants: the promise is not erased, a bound name is not refused, a promised
\* name gets a fresh id.
validateBinderKeepingPromise(s, uniqueName, type) ==
    IF uniqueName \in Bound(s) \/ ~isFutureBinderTypeValidIfExists(s, uniqueName, type)
    THEN [ok |-> FALSE, id |-> 0, store |-> s]
    ELSE IF uniqueName \in Promised(s)
    THEN [ok |-> TRUE, id |-> s.futureBindersMapping[uniqueName].id, store |-> s]
    ELSE [ok |-> TRUE, id |-> s.freshBinderId, store |-> [s EXCEPT !.freshBinderId = @ + 1]]

validateBinderRebinding(s, uniqueName, type) ==
    [ok |-> TRUE, id |-> s.freshBinderId, store |-> [s EXCEPT !.freshBinderId = @ + 1]]

validateBinderAfresh(s, uniqueName, type) ==
    IF uniqueName \in Bound(s) \/ ~isFutureBinderTypeValidIfExists(s, uniqueName, type)
    THEN [ok |-> FALSE, id |-> 0, store |-> s]
    ELSE [ok |-> TRUE, id |-> s.freshBinderId,
          store |-> [s EXCEPT
            !.freshBinderId = @ + 1,
            !.futureBindersMapping = Restrict(@, DOMAIN @ \ {uniqueName})]]

\* A new binder takes over the id promised for its name, or gets a fresh one.
validateBinder(s, uniqueName, type) ==
    IF \/ uniqueName \in Bound(s)
       \/ ~isFutureBinderTypeValidIfExists(s, uniqueName, type)
    THEN [ok |-> FALSE, id |-> 0, store |-> s]
    ELSE IF uniqueName \in Promised(s)
    THEN [ok    |-> TRUE,
          id    |-> s.futureBindersMapping[uniqueName].id,
          store |-> [s EXCEPT
            !.futureBindersMapping = Restrict(@, DOMAIN @ \ {uniqueName})]]
    ELSE [ok    |-> TRUE,
          id    |-> s.freshBinderId,
          store |-> [s EXCEPT !.freshBinderId = @ + 1]]

--------------------------------------------------------------------------------
\* Create a binder whose refinement the solver is to find, over the names in
\* binderNames.  Its own name has left the future binders, and has not joined
\* the binders, when the environment is looked up.
CreateBinderWithUnknownType(s, name, type, binderNames) ==
    LET valid    == validateBinder(s, name, type)
        v        == valid.store
        refineId == v.freshRefinementId
    IN  IF name \in DOMAIN s.wellFormednessConstraintsMapping THEN Error(s)
        ELSE IF ~valid.ok THEN Error(s)
        ELSE IF ~EnvironmentFound(v, binderNames) THEN Error(v)
        ELSE Success([v EXCEPT
            !.freshRefinementId = @ + 1,
            !.wellFormednessConstraintsMapping =
                Put(@, name, [id   |-> refineId,
                              type |-> type,
                              env  |-> getEnvironmentBinderIds(v, binderNames)]),
            !.binderNameMapping =
                Put(@, name, [id         |-> valid.id,
                              type       |-> type,
                              qualifiers |-> {Kvar(refineId)}])])

\* Create a binder with a given refinement.
CreateBinderWithConstraints(s, name, type, qualifiers) ==
    LET valid == validateBinder(s, name, type)
    IN  IF ~valid.ok THEN Error(s)
        ELSE Success([valid.store EXCEPT
            !.binderNameMapping =
                Put(@, name, [id |-> valid.id, type |-> type, qualifiers |-> qualifiers])])

\* Mutant: the counter does not move on.
CreateFutureBinderSameId(s, name, type) ==
    IF ~isFutureBinderTypeValidIfExists(s, name, type) THEN Error(s)
    ELSE Success([s EXCEPT
        !.futureBindersMapping = Put(@, name, [id |-> s.freshBinderId, type |-> type])])

\* Give out an id for a name that will be bound later.  Nothing looks whether
\* the name has a binder, and a second promise replaces the first.
CreateFutureBinder(s, name, type) ==
    IF ~isFutureBinderTypeValidIfExists(s, name, type) THEN Error(s)
    ELSE Success([s EXCEPT
        !.freshBinderId = @ + 1,
        !.futureBindersMapping = Put(@, name, [id |-> s.freshBinderId, type |-> type])])

\* In the environment, assignedExpression implies all of constraints.  The
\* constraint id is drawn before the environment is looked up.
AddConstraint(s, constraintName, type, constraints, assignedExpression, environmentBinders) ==
    LET t == [s EXCEPT !.freshConstraintId = @ + 1]
    IN  IF constraintName \in DOMAIN s.constraintNameMapping THEN Error(s)
        ELSE IF ~EnvironmentFound(s, environmentBinders) THEN Error(t)
        ELSE Success([t EXCEPT
            !.constraintNameMapping =
                Put(@, constraintName,
                    [id               |-> s.freshConstraintId,
                     type             |-> type,
                     qualifiers       |-> assignedExpression,
                     targetQualifiers |-> constraints,
                     env              |-> getEnvironmentBinderIds(s, environmentBinders)])])

\* Mutant: the type of the target is taken to be "int".
AddConstraintForIntAssignment(s, constraintName, target, assignedExpression, environmentBinders) ==
    IF target \notin Bound(s) THEN Error(s)
    ELSE AddConstraint(s, constraintName, "int", s.binderNameMapping[target].qualifiers,
                       assignedExpression, environmentBinders)

\* The same, with the refinement of a binder as the constraints.
AddConstraintForAssignment(s, constraintName, target, assignedExpression, environmentBinders) ==
    IF target \notin Bound(s) THEN Error(s)
    ELSE AddConstraint(s, constraintName,
                       s.binderNameMapping[target].type,
                       s.binderNameMapping[target].qualifiers,
                       assignedExpression, environmentBinders)

\* Mutant: the check is left out.
validateNothing(s) == TRUE

\* The one check that ToStringOrFailure makes before it writes the query.
validateNoUninstantiatedFutureBinders(s) == Promised(s) = {}
================================================================================
