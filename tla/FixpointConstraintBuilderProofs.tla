-------------------- MODULE FixpointConstraintBuilderProofs --------------------
(***************************************************************************)
(* Safety of the constraint builder under any sequence of calls.           *)
(***************************************************************************)
EXTENDS FixpointConstraintBuilder, TLAPS

LEMMA Fields ==
    DOMAIN EmptyStore =
        {"freshBinderId", "freshRefinementId", "freshConstraintId", "binderNameMapping",
         "futureBindersMapping", "wellFormednessConstraintsMapping", "constraintNameMapping"}
BY DEF EmptyStore

--------------------------------------------------------------------------------
\* s is the store after the id i has been settled for the name n: taken from
\* the future binders, or fresh.
Settles(s, n, i) ==
    /\ DOMAIN s = DOMAIN store
    /\ n \notin Bound(store)
    /\ \/ /\ n \in Promised(store)
          /\ i = FutureId(n)
          /\ s.freshBinderId = store.freshBinderId
          /\ s.futureBindersMapping = Restrict(store.futureBindersMapping, Promised(store) \ {n})
       \/ /\ n \notin Promised(store)
          /\ i = store.freshBinderId
          /\ s.freshBinderId = store.freshBinderId + 1
          /\ s.futureBindersMapping = store.futureBindersMapping

SameBinders(s) == s.binderNameMapping = store.binderNameMapping

SameConstraints(s) ==
    /\ s.constraintNameMapping = store.constraintNameMapping
    /\ s.freshConstraintId = store.freshConstraintId

SameWfs(s) ==
    /\ s.wellFormednessConstraintsMapping = store.wellFormednessConstraintsMapping
    /\ s.freshRefinementId = store.freshRefinementId

LEMMA ValidateBinderEffect ==
    ASSUME TypeOK, NEW n \in Name, NEW t \in Type, validateBinder(store, n, t).ok
    PROVE  LET valid == validateBinder(store, n, t)
           IN  /\ Settles(valid.store, n, valid.id)
               /\ SameBinders(valid.store)
               /\ SameConstraints(valid.store)
               /\ SameWfs(valid.store)
<1>1. store.freshBinderId \in Nat /\ DOMAIN store = DOMAIN EmptyStore
  BY DEF TypeOK, Id
<1> QED
  BY <1>1, Fields DEF validateBinder, Settles, SameBinders, SameConstraints, SameWfs, FutureId, Promised

\* The id settled is the id of no binder, and of no name still promised.
LEMMA SettledIdIsNew ==
    ASSUME IInv, NEW n \in Name, NEW i, NEW s, Settles(s, n, i)
    PROVE  /\ i \in Id
           /\ s.freshBinderId \in Id /\ i < s.freshBinderId
           /\ store.freshBinderId <= s.freshBinderId
           /\ Promised(s) = Promised(store) \ {n}
           /\ s.futureBindersMapping \in [Promised(s) -> FutureBinderRecord]
           /\ \A m \in Promised(s) : s.futureBindersMapping[m] = store.futureBindersMapping[m]
           /\ \A m \in Bound(store) : BinderId(m) # i
           /\ \A m \in Promised(s) : FutureId(m) # i
<1>1. /\ store.freshBinderId \in Id
      /\ \A m \in Promised(store) : FutureId(m) \in Id /\ FutureId(m) < store.freshBinderId
      /\ \A m \in Bound(store) : BinderId(m) \in Id /\ BinderId(m) < store.freshBinderId
  BY DEF IInv, TypeOK, CountersAhead, FutureId, BinderId, FutureBinderRecord, Binder
<1>2. /\ \A m, k \in Promised(store) : FutureId(m) = FutureId(k) => m = k
      /\ \A m \in Bound(store), k \in Promised(store) : BinderId(m) # FutureId(k)
  BY DEF IInv, BinderIdsDistinct
<1>3. store.futureBindersMapping \in [Promised(store) -> FutureBinderRecord]
  BY DEF IInv, TypeOK
<1>4. CASE n \in Promised(store)
  <2>1. i = FutureId(n) /\ s.freshBinderId = store.freshBinderId
        /\ s.futureBindersMapping = Restrict(store.futureBindersMapping, Promised(store) \ {n})
    BY <1>4 DEF Settles
  <2>2. Promised(s) = Promised(store) \ {n}
    BY <2>1 DEF Restrict, Promised
  <2>3. \A m \in Promised(s) : s.futureBindersMapping[m] = store.futureBindersMapping[m]
    BY <2>1, <2>2 DEF Restrict
  <2>4. s.futureBindersMapping \in [Promised(s) -> FutureBinderRecord]
    BY <2>1, <2>2, <1>3 DEF Restrict
  <2> QED BY <1>1, <1>2, <1>4, <2>1, <2>2, <2>3, <2>4 DEF Id
<1>5. CASE n \notin Promised(store)
  <2>1. i = store.freshBinderId /\ s.freshBinderId = store.freshBinderId + 1
        /\ s.futureBindersMapping = store.futureBindersMapping
    BY <1>5 DEF Settles
  <2>2. Promised(s) = Promised(store) \ {n}
    BY <2>1, <1>5 DEF Promised
  <2> QED BY <1>1, <1>3, <2>1, <2>2 DEF Id, Promised
<1> QED BY <1>4, <1>5

--------------------------------------------------------------------------------
\* The part of the invariant that says what the ids of binders and of future
\* binders are.
BinderPart ==
    /\ store.freshBinderId \in Id
    /\ Bound(store) \subseteq Name
    /\ store.binderNameMapping \in [Bound(store) -> Binder]
    /\ Promised(store) \subseteq Name
    /\ store.futureBindersMapping \in [Promised(store) -> FutureBinderRecord]
    /\ BinderIdsDistinct
    /\ \A n \in Bound(store) : BinderId(n) < store.freshBinderId
    /\ \A n \in Promised(store) : FutureId(n) < store.freshBinderId

LEMMA BinderPartHolds == IInv => BinderPart
BY DEF IInv, BinderPart, TypeOK, CountersAhead

\* Binding n to the id settled for it keeps the ids distinct.
LEMMA BindKeepsBinderPart ==
    ASSUME IInv, NEW n \in Name, NEW b \in Binder, Settles(store', n, b.id),
           store'.binderNameMapping = Put(store.binderNameMapping, n, b)
    PROVE  /\ BinderPart'
           /\ Bound(store)' = Bound(store) \cup {n}
           /\ n \notin Bound(store)
           /\ BinderId(n)' = b.id
           /\ store'.binderNameMapping[n] = b
           /\ \A m \in Bound(store) : store'.binderNameMapping[m] = store.binderNameMapping[m]
<1>1. /\ b.id \in Id
      /\ store'.freshBinderId \in Id /\ b.id < store'.freshBinderId
      /\ store.freshBinderId <= store'.freshBinderId
      /\ Promised(store') = Promised(store) \ {n}
      /\ store'.futureBindersMapping \in [Promised(store') -> FutureBinderRecord]
      /\ \A m \in Promised(store') : store'.futureBindersMapping[m] = store.futureBindersMapping[m]
      /\ \A m \in Bound(store) : BinderId(m) # b.id
      /\ \A m \in Promised(store') : FutureId(m) # b.id
  BY SettledIdIsNew
<1>2. n \notin Bound(store)
  BY DEF Settles
<1>3. /\ Bound(store') = Bound(store) \cup {n}
      /\ store'.binderNameMapping[n] = b
      /\ \A m \in Bound(store) : store'.binderNameMapping[m] = store.binderNameMapping[m]
  BY <1>2 DEF Bound, Put
<1>4. store'.binderNameMapping \in [Bound(store') -> Binder]
  <2>1. store.binderNameMapping \in [Bound(store) -> Binder]
    BY BinderPartHolds DEF BinderPart
  <2> QED BY <2>1, <1>3 DEF Put
<1>5. BinderPart
  BY BinderPartHolds
<1>6. /\ store.freshBinderId \in Nat /\ store'.freshBinderId \in Nat
      /\ \A m \in Bound(store) : BinderId(m) \in Nat /\ BinderId(m) < store.freshBinderId
      /\ \A m \in Promised(store) : FutureId(m) \in Nat /\ FutureId(m) < store.freshBinderId
  BY <1>1, <1>5 DEF BinderPart, Id, Binder, FutureBinderRecord, BinderId, FutureId
<1>7. /\ BinderId(n)' = b.id
      /\ \A m \in Bound(store) : BinderId(m)' = BinderId(m)
      /\ \A m \in Promised(store') : FutureId(m)' = FutureId(m)
  BY <1>1, <1>3 DEF BinderId, FutureId
<1>8. BinderIdsDistinct'
  <2>1. \A m, k \in Bound(store') : BinderId(m)' = BinderId(k)' => m = k
    BY <1>1, <1>3, <1>5, <1>7 DEF BinderPart, BinderIdsDistinct
  <2>2. \A m, k \in Promised(store') : FutureId(m)' = FutureId(k)' => m = k
    BY <1>1, <1>5, <1>7 DEF BinderPart, BinderIdsDistinct
  <2>3. \A m \in Bound(store'), k \in Promised(store') : BinderId(m)' # FutureId(k)'
    BY <1>1, <1>3, <1>5, <1>7 DEF BinderPart, BinderIdsDistinct
  <2> QED BY <2>1, <2>2, <2>3 DEF BinderIdsDistinct
<1>9. \A m \in Bound(store') : BinderId(m)' < store'.freshBinderId
  BY <1>1, <1>3, <1>6, <1>7 DEF Id
<1>10. \A m \in Promised(store') : FutureId(m)' < store'.freshBinderId
  BY <1>1, <1>6, <1>7 DEF Id
<1>11. Bound(store') \subseteq Name /\ Promised(store') \subseteq Name
  BY <1>1, <1>3, <1>5 DEF BinderPart
<1> QED BY <1>1, <1>2, <1>3, <1>4, <1>7, <1>8, <1>9, <1>10, <1>11 DEF BinderPart

\* So does settling an id and then failing to bind the name.
LEMMA LoseKeepsBinderPart ==
    ASSUME IInv, NEW n \in Name, NEW i, Settles(store', n, i),
           store'.binderNameMapping = store.binderNameMapping
    PROVE  BinderPart'
<1>1. /\ store'.freshBinderId \in Id
      /\ store.freshBinderId <= store'.freshBinderId
      /\ Promised(store') = Promised(store) \ {n}
      /\ store'.futureBindersMapping \in [Promised(store') -> FutureBinderRecord]
      /\ \A m \in Promised(store') : store'.futureBindersMapping[m] = store.futureBindersMapping[m]
  BY SettledIdIsNew
<1>2. BinderPart
  BY BinderPartHolds
<1>3. /\ store.freshBinderId \in Nat /\ store'.freshBinderId \in Nat
      /\ \A m \in Bound(store) : BinderId(m) \in Nat /\ BinderId(m) < store.freshBinderId
      /\ \A m \in Promised(store) : FutureId(m) \in Nat /\ FutureId(m) < store.freshBinderId
  BY <1>1, <1>2 DEF BinderPart, Id, Binder, FutureBinderRecord, BinderId, FutureId
<1>4. /\ Bound(store') = Bound(store)
      /\ \A m \in Bound(store) : BinderId(m)' = BinderId(m)
      /\ \A m \in Promised(store') : FutureId(m)' = FutureId(m)
  BY <1>1 DEF Bound, BinderId, FutureId
<1>5. BinderIdsDistinct'
  BY <1>1, <1>2, <1>4 DEF BinderPart, BinderIdsDistinct
<1>6. /\ \A m \in Bound(store') : BinderId(m)' < store'.freshBinderId
      /\ \A m \in Promised(store') : FutureId(m)' < store'.freshBinderId
  BY <1>1, <1>3, <1>4
<1> QED BY <1>1, <1>2, <1>4, <1>5, <1>6 DEF BinderPart

\* And so does promising an id.
LEMMA PromiseKeepsBinderPart ==
    ASSUME IInv, NEW n \in Name, NEW t \in Type,
           store'.binderNameMapping = store.binderNameMapping,
           store'.freshBinderId = store.freshBinderId + 1,
           store'.futureBindersMapping =
               Put(store.futureBindersMapping, n, [id |-> store.freshBinderId, type |-> t])
    PROVE  BinderPart'
<1> DEFINE p == [id |-> store.freshBinderId, type |-> t]
<1>1. BinderPart
  BY BinderPartHolds
<1>2. /\ store.freshBinderId \in Nat /\ store'.freshBinderId \in Id
      /\ \A m \in Bound(store) : BinderId(m) \in Nat /\ BinderId(m) < store.freshBinderId
      /\ \A m \in Promised(store) : FutureId(m) \in Nat /\ FutureId(m) < store.freshBinderId
  BY <1>1 DEF BinderPart, Id, Binder, FutureBinderRecord, BinderId, FutureId
<1>3. /\ Promised(store') = Promised(store) \cup {n}
      /\ store'.futureBindersMapping[n] = p
      /\ \A m \in Promised(store) \ {n} :
            store'.futureBindersMapping[m] = store.futureBindersMapping[m]
  BY DEF Promised, Put
<1>4. p \in FutureBinderRecord
  BY <1>1 DEF BinderPart, FutureBinderRecord
<1>5. store'.futureBindersMapping \in [Promised(store') -> FutureBinderRecord]
  <2>1. store.futureBindersMapping \in [Promised(store) -> FutureBinderRecord]
    BY <1>1 DEF BinderPart
  <2> QED BY <2>1, <1>3, <1>4 DEF Put
<1>6. /\ Bound(store') = Bound(store)
      /\ \A m \in Bound(store) : BinderId(m)' = BinderId(m)
      /\ FutureId(n)' = store.freshBinderId
      /\ \A m \in Promised(store) \ {n} : FutureId(m)' = FutureId(m)
  BY <1>3 DEF Bound, BinderId, FutureId
<1>7. BinderIdsDistinct'
  <2>1. \A m, k \in Promised(store') : FutureId(m)' = FutureId(k)' => m = k
    BY <1>1, <1>2, <1>3, <1>6 DEF BinderPart, BinderIdsDistinct
  <2>2. \A m \in Bound(store'), k \in Promised(store') : BinderId(m)' # FutureId(k)'
    BY <1>1, <1>2, <1>3, <1>6 DEF BinderPart, BinderIdsDistinct
  <2> QED BY <1>1, <1>6, <2>1, <2>2 DEF BinderPart, BinderIdsDistinct
<1>8. /\ \A m \in Bound(store') : BinderId(m)' < store'.freshBinderId
      /\ \A m \in Promised(store') : FutureId(m)' < store'.freshBinderId
  BY <1>2, <1>3, <1>6
<1> QED BY <1>1, <1>2, <1>3, <1>5, <1>6, <1>7, <1>8 DEF BinderPart

\* A call that leaves the binders alone leaves this part alone.
LEMMA SameKeepsBinderPart ==
    ASSUME IInv, SameBinders(store'),
           store'.freshBinderId = store.freshBinderId,
           store'.futureBindersMapping = store.futureBindersMapping
    PROVE  BinderPart'
BY BinderPartHolds DEF BinderPart, SameBinders, Bound, Promised, BinderIdsDistinct, BinderId, FutureId

--------------------------------------------------------------------------------
\* The part about well-formedness constraints, and the part about constraints.
WfPart ==
    /\ store.freshRefinementId \in Id
    /\ WfNames \subseteq Bound(store)
    /\ store.wellFormednessConstraintsMapping \in [WfNames -> WellFormednessConstraint]
    /\ \A n \in WfNames : WfId(n) < store.freshRefinementId
    /\ \A m, n \in WfNames : WfId(m) = WfId(n) => m = n
    /\ \A n \in Bound(store) : \A q \in store.binderNameMapping[n].qualifiers \ Formula :
          n \in WfNames /\ q = Kvar(WfId(n)) /\ WfType(n) = store.binderNameMapping[n].type
    /\ WellFoundedEnvironments

Covered(q, t) == \E n \in WfNames : q = Kvar(WfId(n)) /\ WfType(n) = t

ConstraintPart ==
    /\ store.freshConstraintId \in Id
    /\ DOMAIN store.constraintNameMapping \subseteq ConstraintName
    /\ store.constraintNameMapping \in [DOMAIN store.constraintNameMapping -> Constraint]
    /\ \A c \in DOMAIN store.constraintNameMapping :
          \A q \in store.constraintNameMapping[c].targetQualifiers \ Formula :
              Covered(q, store.constraintNameMapping[c].type)

OutcomePart ==
    /\ DOMAIN store = DOMAIN EmptyStore
    /\ outcome \in {"open", "error", "emitted"}

LEMMA Parts == IInv <=> BinderPart /\ WfPart /\ ConstraintPart /\ OutcomePart
<1>1. IInv => WfPart
  BY DEF IInv, TypeOK, CountersAhead, KvarsWellFormed, WfPart, WfNames, WfId, WfType
<1>2. IInv => ConstraintPart /\ OutcomePart
  BY DEF IInv, TypeOK, KvarsWellFormed, ConstraintPart, OutcomePart, Covered
<1>3. ASSUME BinderPart, WfPart, ConstraintPart, OutcomePart  PROVE IInv
  <2>1. TypeOK
    BY <1>3 DEF BinderPart, WfPart, ConstraintPart, OutcomePart, TypeOK, WfNames
  <2>2. KvarsWellFormed
    BY <1>3 DEF WfPart, ConstraintPart, Covered, KvarsWellFormed
  <2>3. CountersAhead
    BY <1>3 DEF BinderPart, WfPart, CountersAhead
  <2> QED BY <1>3, <2>1, <2>2, <2>3 DEF IInv, BinderPart, WfPart
<1> QED BY <1>1, <1>2, <1>3, BinderPartHolds

\* Constraints already written stay covered when the well-formedness
\* constraints stay.
LEMMA SameKeepsConstraintPart ==
    ASSUME IInv, SameConstraints(store'), WfNames \subseteq WfNames',
           \A n \in WfNames : WfId(n)' = WfId(n) /\ WfType(n)' = WfType(n)
    PROVE  ConstraintPart'
<1>1. ConstraintPart
  BY Parts
<1>2. \A q, t : Covered(q, t) => Covered(q, t)'
  BY DEF Covered
<1> QED BY <1>1, <1>2 DEF ConstraintPart, SameConstraints

\* Calls that bind nothing new leave the well-formedness part alone.
LEMMA SameKeepsWfPart ==
    ASSUME IInv, SameWfs(store'), SameBinders(store')
    PROVE  /\ WfPart'
           /\ WfNames \subseteq WfNames'
           /\ \A n \in WfNames : WfId(n)' = WfId(n) /\ WfType(n)' = WfType(n)
<1>1. WfPart
  BY Parts
<1>2. /\ WfNames' = WfNames /\ Bound(store') = Bound(store)
      /\ \A n \in WfNames : WfId(n)' = WfId(n) /\ WfType(n)' = WfType(n)
      /\ \A n \in Bound(store) : BinderId(n)' = BinderId(n)
  BY DEF SameWfs, SameBinders, WfNames, Bound, WfId, WfType, BinderId
<1>3. WellFoundedEnvironments'
  BY <1>1, <1>2 DEF WfPart, SameWfs, WellFoundedEnvironments
<1> QED BY <1>1, <1>2, <1>3 DEF WfPart, SameWfs, SameBinders

\* A binder with given constraints needs no well-formedness constraint.
LEMMA BindKeepsWfPart ==
    ASSUME IInv, NEW n \in Name, NEW b \in Binder, Settles(store', n, b.id),
           store'.binderNameMapping = Put(store.binderNameMapping, n, b),
           SameWfs(store'), b.qualifiers \subseteq Formula
    PROVE  /\ WfPart'
           /\ WfNames \subseteq WfNames'
           /\ \A m \in WfNames : WfId(m)' = WfId(m) /\ WfType(m)' = WfType(m)
<1>1. WfPart
  BY Parts
<1>2. /\ Bound(store') = Bound(store) \cup {n}
      /\ n \notin Bound(store)
      /\ store'.binderNameMapping[n] = b
      /\ \A m \in Bound(store) : store'.binderNameMapping[m] = store.binderNameMapping[m]
  BY BindKeepsBinderPart
<1>3. /\ WfNames' = WfNames
      /\ \A m \in WfNames : WfId(m)' = WfId(m) /\ WfType(m)' = WfType(m)
      /\ \A m \in Bound(store) : BinderId(m)' = BinderId(m)
  BY <1>2 DEF SameWfs, WfNames, WfId, WfType, BinderId
<1>4. WellFoundedEnvironments'
  BY <1>1, <1>3 DEF WfPart, SameWfs, WellFoundedEnvironments
<1>5. \A m \in Bound(store') : \A q \in store'.binderNameMapping[m].qualifiers \ Formula :
          m \in WfNames' /\ q = Kvar(WfId(m)') /\ WfType(m)' = store'.binderNameMapping[m].type
  BY <1>1, <1>2, <1>3 DEF WfPart
<1> QED BY <1>1, <1>2, <1>3, <1>4, <1>5 DEF WfPart, SameWfs

\* A binder of unknown type comes with one.
LEMMA BindUnknownKeepsWfPart ==
    ASSUME IInv, NEW n \in Name, NEW b \in Binder, Settles(store', n, b.id),
           store'.binderNameMapping = Put(store.binderNameMapping, n, b),
           NEW w \in WellFormednessConstraint,
           w.id = store.freshRefinementId, w.type = b.type, b.id \notin w.env,
           store'.wellFormednessConstraintsMapping =
               Put(store.wellFormednessConstraintsMapping, n, w),
           store'.freshRefinementId = store.freshRefinementId + 1,
           b.qualifiers = {Kvar(w.id)}
    PROVE  /\ WfPart'
           /\ WfNames \subseteq WfNames'
           /\ \A m \in WfNames : WfId(m)' = WfId(m) /\ WfType(m)' = WfType(m)
<1>1. WfPart
  BY Parts
<1>2. /\ Bound(store') = Bound(store) \cup {n}
      /\ n \notin Bound(store)
      /\ store'.binderNameMapping[n] = b
      /\ \A m \in Bound(store) : store'.binderNameMapping[m] = store.binderNameMapping[m]
  BY BindKeepsBinderPart
<1>3. n \notin WfNames
  BY <1>1, <1>2 DEF WfPart
<1>4. /\ WfNames' = WfNames \cup {n}
      /\ store'.wellFormednessConstraintsMapping[n] = w
      /\ \A m \in WfNames : store'.wellFormednessConstraintsMapping[m]
                                = store.wellFormednessConstraintsMapping[m]
  BY <1>3 DEF WfNames, Put
<1>5. /\ WfId(n)' = w.id /\ WfType(n)' = w.type
      /\ \A m \in WfNames : WfId(m)' = WfId(m) /\ WfType(m)' = WfType(m)
      /\ \A m \in Bound(store) : BinderId(m)' = BinderId(m)
      /\ BinderId(n)' = b.id
  BY <1>2, <1>4 DEF WfId, WfType, BinderId
<1>6. store'.wellFormednessConstraintsMapping \in [WfNames' -> WellFormednessConstraint]
  <2>1. store.wellFormednessConstraintsMapping \in [WfNames -> WellFormednessConstraint]
    BY <1>1 DEF WfPart
  <2> QED BY <2>1, <1>4 DEF Put
<1>7. store.freshRefinementId \in Nat /\ store'.freshRefinementId \in Id
      /\ \A m \in WfNames : WfId(m) \in Nat
  BY <1>1 DEF WfPart, Id, WellFormednessConstraint, WfId
<1>8. /\ \A m \in WfNames' : WfId(m)' < store'.freshRefinementId
      /\ \A m, k \in WfNames' : WfId(m)' = WfId(k)' => m = k
  BY <1>1, <1>4, <1>5, <1>7 DEF WfPart
<1>9. WellFoundedEnvironments'
  BY <1>1, <1>4, <1>5 DEF WfPart, WellFoundedEnvironments
<1>10. \A m \in Bound(store') : \A q \in store'.binderNameMapping[m].qualifiers \ Formula :
          m \in WfNames' /\ q = Kvar(WfId(m)') /\ WfType(m)' = store'.binderNameMapping[m].type
  BY <1>1, <1>2, <1>4, <1>5 DEF WfPart
<1>11. WfNames' \subseteq Bound(store')
  BY <1>1, <1>2, <1>4 DEF WfPart
<1> QED BY <1>4, <1>5, <1>6, <1>7, <1>8, <1>9, <1>10, <1>11 DEF WfPart

--------------------------------------------------------------------------------
LEMMA InitIInv == Init => IInv
<1> SUFFICES ASSUME Init  PROVE IInv
  OBVIOUS
<1>1. /\ store.freshBinderId = 1 /\ store.freshRefinementId = 1 /\ store.freshConstraintId = 1
      /\ store.binderNameMapping = << >> /\ store.futureBindersMapping = << >>
      /\ store.wellFormednessConstraintsMapping = << >> /\ store.constraintNameMapping = << >>
      /\ DOMAIN store = DOMAIN EmptyStore /\ outcome = "open"
  BY DEF Init, EmptyStore
<1>2. Bound(store) = {} /\ Promised(store) = {} /\ WfNames = {}
      /\ DOMAIN store.constraintNameMapping = {}
  BY <1>1 DEF Bound, Promised, WfNames
<1>3. BinderPart
  BY <1>1, <1>2 DEF BinderPart, Id, BinderIdsDistinct
<1>4. WfPart
  BY <1>1, <1>2 DEF WfPart, Id, WellFoundedEnvironments
<1>5. ConstraintPart
  BY <1>1, <1>2 DEF ConstraintPart, Id
<1> QED BY <1>1, <1>3, <1>4, <1>5, Parts DEF OutcomePart

\* The call failed before it changed anything, or the step is a stutter.
LEMMA UnchangedIInv ==
    ASSUME IInv, store' = store, outcome' \in {"open", "error", "emitted"}
    PROVE  IInv'
BY DEF IInv, TypeOK, BinderIdsDistinct, KvarsWellFormed, WellFoundedEnvironments, CountersAhead,
       WfNames, BinderId, FutureId, WfId, WfType

\* The ids an environment resolves to are ids of binders and of promises.
LEMMA EnvironmentIds ==
    ASSUME BinderPart, NEW names, EnvironmentFound(store, names)
    PROVE  /\ getEnvironmentBinderIds(store, names) \subseteq LiveIds
           /\ LiveIds \subseteq Id
<1>1. getEnvironmentBinderIds(store, names) \subseteq LiveIds
  BY DEF EnvironmentFound, getEnvironmentBinderIds, LiveIds, BinderId, FutureId
<1>2. LiveIds \subseteq Id
  BY DEF BinderPart, LiveIds, BinderId, FutureId, Binder, FutureBinderRecord
<1> QED BY <1>1, <1>2

\* After the id i has been settled for n, no environment resolves to i.
LEMMA SettledEnvironmentIds ==
    ASSUME IInv, NEW n \in Name, NEW i, NEW v, Settles(v, n, i), SameBinders(v),
           NEW names, EnvironmentFound(v, names)
    PROVE  /\ getEnvironmentBinderIds(v, names) \subseteq LiveIds \ {i}
           /\ getEnvironmentBinderIds(v, names) \subseteq Id
<1>1. /\ Promised(v) = Promised(store) \ {n}
      /\ \A m \in Promised(v) : v.futureBindersMapping[m] = store.futureBindersMapping[m]
      /\ \A m \in Bound(store) : BinderId(m) # i
      /\ \A m \in Promised(v) : FutureId(m) # i
  BY SettledIdIsNew
<1>2. Bound(v) = Bound(store) /\ v.binderNameMapping = store.binderNameMapping
  BY DEF SameBinders, Bound
<1>3. getEnvironmentBinderIds(v, names) \subseteq LiveIds \ {i}
  BY <1>1, <1>2 DEF EnvironmentFound, getEnvironmentBinderIds, LiveIds, BinderId, FutureId
<1>4. LiveIds \subseteq Id
  BY BinderPartHolds DEF BinderPart, LiveIds, BinderId, FutureId, Binder, FutureBinderRecord
<1> QED BY <1>3, <1>4

\* What a successful CreateBinderWithUnknownType does to the object.
LEMMA UnknownTypeEffect ==
    ASSUME IInv, NEW n \in Name, NEW t \in Type, NEW env \in SUBSET Name,
           CreateBinderWithUnknownType(store, n, t, env).ok,
           store' = CreateBinderWithUnknownType(store, n, t, env).store
    PROVE  \E b \in Binder, w \in WellFormednessConstraint :
               /\ Settles(store', n, b.id)
               /\ store'.binderNameMapping = Put(store.binderNameMapping, n, b)
               /\ w.id = store.freshRefinementId
               /\ w.type = b.type
               /\ w.env \subseteq LiveIds \ {b.id}
               /\ store'.wellFormednessConstraintsMapping =
                      Put(store.wellFormednessConstraintsMapping, n, w)
               /\ store'.freshRefinementId = store.freshRefinementId + 1
               /\ b.qualifiers = {Kvar(w.id)}
               /\ SameConstraints(store')
<1> DEFINE valid == validateBinder(store, n, t)
           v == valid.store
           r == store.freshRefinementId
           b == [id |-> valid.id, type |-> t, qualifiers |-> {Kvar(r)}]
           w == [id |-> r, type |-> t, env |-> getEnvironmentBinderIds(v, env)]
<1>1. valid.ok /\ EnvironmentFound(v, env)
  BY DEF CreateBinderWithUnknownType, Error
<1>2. Settles(v, n, valid.id) /\ SameBinders(v) /\ SameConstraints(v) /\ SameWfs(v)
  BY <1>1, ValidateBinderEffect DEF IInv
<1>3. valid.id \in Id /\ v.freshBinderId \in Id
  BY <1>2, SettledIdIsNew
<1>4. r \in Id
  BY Parts DEF WfPart
<1>5. store' = [v EXCEPT
            !.freshRefinementId = r + 1,
            !.wellFormednessConstraintsMapping = Put(store.wellFormednessConstraintsMapping, n, w),
            !.binderNameMapping = Put(store.binderNameMapping, n, b)]
  <2>1. store' = [v EXCEPT
            !.freshRefinementId = v.freshRefinementId + 1,
            !.wellFormednessConstraintsMapping =
                Put(v.wellFormednessConstraintsMapping, n,
                    [id |-> v.freshRefinementId, type |-> t,
                     env |-> getEnvironmentBinderIds(v, env)]),
            !.binderNameMapping =
                Put(v.binderNameMapping, n,
                    [id |-> valid.id, type |-> t, qualifiers |-> {Kvar(v.freshRefinementId)}])]
    BY <1>1 DEF CreateBinderWithUnknownType, Error, Success
  <2> QED BY <2>1, <1>2 DEF SameWfs, SameBinders
<1>6. DOMAIN v = DOMAIN EmptyStore
  BY <1>2, Parts DEF Settles, OutcomePart
<1>7. /\ DOMAIN store' = DOMAIN v
      /\ store'.freshBinderId = v.freshBinderId
      /\ store'.futureBindersMapping = v.futureBindersMapping
      /\ store'.binderNameMapping = Put(store.binderNameMapping, n, b)
      /\ store'.wellFormednessConstraintsMapping = Put(store.wellFormednessConstraintsMapping, n, w)
      /\ store'.freshRefinementId = r + 1
      /\ store'.constraintNameMapping = v.constraintNameMapping
      /\ store'.freshConstraintId = v.freshConstraintId
  BY <1>5, <1>6, Fields
<1>8. Settles(store', n, b.id)
  BY <1>2, <1>7 DEF Settles
<1>9. SameConstraints(store')
  BY <1>2, <1>7 DEF SameConstraints
<1>10. w.env \subseteq LiveIds \ {valid.id} /\ w.env \subseteq Id
  BY <1>1, <1>2, SettledEnvironmentIds
<1>11. b \in Binder
  BY <1>3, <1>4 DEF Binder, Predicate, Kvar
<1>12. w \in WellFormednessConstraint
  BY <1>4, <1>10 DEF WellFormednessConstraint
<1> QED BY <1>7, <1>8, <1>9, <1>10, <1>11, <1>12

\* A call that failed after it had settled an id changes nothing else.
LEMMA UnknownTypeFailure ==
    ASSUME IInv, NEW n \in Name, NEW t \in Type, NEW env \in SUBSET Name,
           ~CreateBinderWithUnknownType(store, n, t, env).ok,
           store' = CreateBinderWithUnknownType(store, n, t, env).store
    PROVE  \/ store' = store
           \/ /\ \E i : Settles(store', n, i)
              /\ SameBinders(store') /\ SameConstraints(store') /\ SameWfs(store')
<1> DEFINE valid == validateBinder(store, n, t)
<1>1. store' = store \/ (valid.ok /\ store' = valid.store)
  BY DEF CreateBinderWithUnknownType, Error, Success
<1> QED BY <1>1, ValidateBinderEffect DEF IInv

LEMMA UnknownTypeIInv ==
    ASSUME IInv, NEW n \in Name, NEW t \in Type, NEW env \in SUBSET Name,
           UnknownType(n, t, env)
    PROVE  IInv'
<1>1. /\ store' = CreateBinderWithUnknownType(store, n, t, env).store
      /\ outcome' \in {"open", "error"}
  BY DEF UnknownType, Call
<1>2. OutcomePart'
  <2>1. CASE CreateBinderWithUnknownType(store, n, t, env).ok
    BY <1>1, <2>1, UnknownTypeEffect, Parts DEF Settles, OutcomePart
  <2>2. CASE ~CreateBinderWithUnknownType(store, n, t, env).ok
    BY <1>1, <2>2, UnknownTypeFailure, Parts DEF Settles, OutcomePart
  <2> QED BY <2>1, <2>2
<1>3. CASE CreateBinderWithUnknownType(store, n, t, env).ok
  <2>1. PICK b \in Binder, w \in WellFormednessConstraint :
               /\ Settles(store', n, b.id)
               /\ store'.binderNameMapping = Put(store.binderNameMapping, n, b)
               /\ w.id = store.freshRefinementId
               /\ w.type = b.type
               /\ w.env \subseteq LiveIds \ {b.id}
               /\ store'.wellFormednessConstraintsMapping =
                      Put(store.wellFormednessConstraintsMapping, n, w)
               /\ store'.freshRefinementId = store.freshRefinementId + 1
               /\ b.qualifiers = {Kvar(w.id)}
               /\ SameConstraints(store')
    BY <1>1, <1>3, UnknownTypeEffect
  <2>2. BinderPart'
    BY <2>1, BindKeepsBinderPart
  <2>3. b.id \notin w.env
    BY <2>1
  <2>4. /\ WfPart' /\ WfNames \subseteq WfNames'
        /\ \A m \in WfNames : WfId(m)' = WfId(m) /\ WfType(m)' = WfType(m)
    BY <2>1, <2>3, BindUnknownKeepsWfPart
  <2>5. ConstraintPart'
    BY <2>1, <2>4, SameKeepsConstraintPart
  <2> QED BY <1>2, <2>2, <2>4, <2>5, Parts, PTL
<1>4. CASE ~CreateBinderWithUnknownType(store, n, t, env).ok
  <2>1. CASE store' = store
    BY <1>1, <2>1, UnchangedIInv
  <2>2. CASE store' # store
    <3>1. PICK i : Settles(store', n, i)
      BY <1>1, <1>4, <2>2, UnknownTypeFailure
    <3>2. SameBinders(store') /\ SameConstraints(store') /\ SameWfs(store')
      BY <1>1, <1>4, <2>2, UnknownTypeFailure
    <3>3. BinderPart'
      BY <3>1, <3>2, LoseKeepsBinderPart DEF SameBinders
    <3>4. WfPart' /\ ConstraintPart'
      BY <3>2, SameKeepsWfPart, SameKeepsConstraintPart
    <3> QED BY <1>2, <3>3, <3>4, Parts, PTL
  <2> QED BY <2>1, <2>2
<1> QED BY <1>3, <1>4

--------------------------------------------------------------------------------
\* What a successful CreateBinderWithConstraints does to the object.
LEMMA WithConstraintsEffect ==
    ASSUME IInv, NEW n \in Name, NEW t \in Type, NEW g \in Formula,
           CreateBinderWithConstraints(store, n, t, {g}).ok,
           store' = CreateBinderWithConstraints(store, n, t, {g}).store
    PROVE  \E b \in Binder :
               /\ Settles(store', n, b.id)
               /\ store'.binderNameMapping = Put(store.binderNameMapping, n, b)
               /\ b.qualifiers = {g}
               /\ SameConstraints(store')
               /\ SameWfs(store')
<1> DEFINE valid == validateBinder(store, n, t)
           v == valid.store
           b == [id |-> valid.id, type |-> t, qualifiers |-> {g}]
<1>1. valid.ok
  BY DEF CreateBinderWithConstraints, Error
<1>2. Settles(v, n, valid.id) /\ SameBinders(v) /\ SameConstraints(v) /\ SameWfs(v)
  BY <1>1, ValidateBinderEffect DEF IInv
<1>3. valid.id \in Id
  BY <1>2, SettledIdIsNew
<1>4. store' = [v EXCEPT !.binderNameMapping = Put(v.binderNameMapping, n, b)]
  BY <1>1 DEF CreateBinderWithConstraints, Error, Success
<1>5. DOMAIN v = DOMAIN EmptyStore
  BY <1>2, Parts DEF Settles, OutcomePart
<1>6. /\ DOMAIN store' = DOMAIN v
      /\ store'.freshBinderId = v.freshBinderId
      /\ store'.futureBindersMapping = v.futureBindersMapping
      /\ store'.binderNameMapping = Put(store.binderNameMapping, n, b)
      /\ store'.wellFormednessConstraintsMapping = v.wellFormednessConstraintsMapping
      /\ store'.freshRefinementId = v.freshRefinementId
      /\ store'.constraintNameMapping = v.constraintNameMapping
      /\ store'.freshConstraintId = v.freshConstraintId
  BY <1>2, <1>4, <1>5, Fields DEF SameBinders
<1>7. b \in Binder
  BY <1>3 DEF Binder, Predicate
<1> QED BY <1>2, <1>6, <1>7 DEF Settles, SameConstraints, SameWfs

LEMMA WithConstraintsIInv ==
    ASSUME IInv, NEW n \in Name, NEW t \in Type, NEW g \in Formula, WithConstraints(n, t, g)
    PROVE  IInv'
<1>1. /\ store' = CreateBinderWithConstraints(store, n, t, {g}).store
      /\ outcome' \in {"open", "error"}
  BY DEF WithConstraints, Call
<1>2. CASE CreateBinderWithConstraints(store, n, t, {g}).ok
  <2>1. PICK b \in Binder :
               /\ Settles(store', n, b.id)
               /\ store'.binderNameMapping = Put(store.binderNameMapping, n, b)
               /\ b.qualifiers = {g}
               /\ SameConstraints(store')
               /\ SameWfs(store')
    BY <1>1, <1>2, WithConstraintsEffect
  <2>2. BinderPart'
    BY <2>1, BindKeepsBinderPart
  <2>3. /\ WfPart' /\ WfNames \subseteq WfNames'
        /\ \A m \in WfNames : WfId(m)' = WfId(m) /\ WfType(m)' = WfType(m)
    BY <2>1, BindKeepsWfPart
  <2>4. ConstraintPart'
    BY <2>1, <2>3, SameKeepsConstraintPart
  <2>5. OutcomePart'
    BY <1>1, <2>1, Parts DEF Settles, OutcomePart
  <2> QED BY <2>2, <2>3, <2>4, <2>5, Parts, PTL
<1>3. CASE ~CreateBinderWithConstraints(store, n, t, {g}).ok
  <2>1. store' = store
    BY <1>1, <1>3 DEF CreateBinderWithConstraints, Error, Success
  <2> QED BY <1>1, <2>1, UnchangedIInv
<1> QED BY <1>2, <1>3

\* What CreateFutureBinder does to the object.
LEMMA FutureBinderEffect ==
    ASSUME IInv, NEW n \in Name, NEW t \in Type, FutureBinder(n, t)
    PROVE  /\ outcome' \in {"open", "error"}
           /\ \/ store' = store
              \/ /\ DOMAIN store' = DOMAIN store
                 /\ SameBinders(store') /\ SameConstraints(store') /\ SameWfs(store')
                 /\ store'.freshBinderId = store.freshBinderId + 1
                 /\ store'.futureBindersMapping =
                      Put(store.futureBindersMapping, n, [id |-> store.freshBinderId, type |-> t])
<1>1. /\ store' = CreateFutureBinder(store, n, t).store
      /\ outcome' \in {"open", "error"}
  BY DEF FutureBinder, Call
<1>2. DOMAIN store = DOMAIN EmptyStore
  BY DEF IInv, TypeOK
<1>3. CASE CreateFutureBinder(store, n, t).ok
  <2>1. store' = [store EXCEPT
            !.freshBinderId = store.freshBinderId + 1,
            !.futureBindersMapping =
                Put(store.futureBindersMapping, n, [id |-> store.freshBinderId, type |-> t])]
    BY <1>1, <1>3 DEF CreateFutureBinder, Error, Success
  <2> QED BY <1>1, <1>2, <2>1, Fields DEF SameBinders, SameConstraints, SameWfs
<1>4. CASE ~CreateFutureBinder(store, n, t).ok
  BY <1>1, <1>4 DEF CreateFutureBinder, Error, Success
<1> QED BY <1>1, <1>3, <1>4

LEMMA FutureBinderIInv ==
    ASSUME IInv, NEW n \in Name, NEW t \in Type, FutureBinder(n, t)
    PROVE  IInv'
<1>1. CASE store' = store
  BY <1>1, FutureBinderEffect, UnchangedIInv
<1>2. CASE store' # store
  <2>1. /\ outcome' \in {"open", "error"}
        /\ DOMAIN store' = DOMAIN store
        /\ SameBinders(store') /\ SameConstraints(store') /\ SameWfs(store')
        /\ store'.freshBinderId = store.freshBinderId + 1
        /\ store'.futureBindersMapping =
             Put(store.futureBindersMapping, n, [id |-> store.freshBinderId, type |-> t])
    BY <1>2, FutureBinderEffect
  <2>2. BinderPart'
    BY <2>1, PromiseKeepsBinderPart DEF SameBinders
  <2>3. WfPart' /\ ConstraintPart'
    BY <2>1, SameKeepsWfPart, SameKeepsConstraintPart
  <2>4. OutcomePart'
    BY <2>1, Parts DEF OutcomePart
  <2> QED BY <2>2, <2>3, <2>4, Parts, PTL
<1> QED BY <1>1, <1>2

\* What AddConstraint does to the object: nothing, or it draws a constraint
\* id and perhaps writes one constraint, whose environment it resolves.
LEMMA AddConstraintEffect ==
    ASSUME IInv, NEW c \in ConstraintName, NEW t \in Type, NEW quals \in SUBSET Predicate,
           NEW expr \in SUBSET Formula, NEW env \in SUBSET Name,
           store' = AddConstraint(store, c, t, quals, expr, env).store,
           store' # store
    PROVE  /\ DOMAIN store' = DOMAIN store
           /\ SameBinders(store') /\ SameWfs(store')
           /\ store'.freshBinderId = store.freshBinderId
           /\ store'.futureBindersMapping = store.futureBindersMapping
           /\ store'.freshConstraintId = store.freshConstraintId + 1
           /\ \/ store'.constraintNameMapping = store.constraintNameMapping
              \/ /\ c \notin DOMAIN store.constraintNameMapping
                 /\ \E k \in Constraint :
                       /\ k.targetQualifiers = quals /\ k.type = t
                       /\ k.env \subseteq LiveIds
                       /\ store'.constraintNameMapping = Put(store.constraintNameMapping, c, k)
<1> DEFINE d == [store EXCEPT !.freshConstraintId = store.freshConstraintId + 1]
           k == [id               |-> store.freshConstraintId,
                 type             |-> t,
                 qualifiers       |-> expr,
                 targetQualifiers |-> quals,
                 env              |-> getEnvironmentBinderIds(store, env)]
<1>1. DOMAIN store = DOMAIN EmptyStore /\ store.freshConstraintId \in Id
  BY DEF IInv, TypeOK
<1>2. c \notin DOMAIN store.constraintNameMapping
  BY DEF AddConstraint, Error
<1>3. CASE ~EnvironmentFound(store, env)
  <2>1. store' = d
    BY <1>2, <1>3 DEF AddConstraint, Error
  <2> QED BY <1>1, <2>1, Fields DEF SameBinders, SameWfs
<1>4. CASE EnvironmentFound(store, env)
  <2>1. store' = [d EXCEPT !.constraintNameMapping = Put(d.constraintNameMapping, c, k)]
    BY <1>2, <1>4 DEF AddConstraint, Success
  <2>2. d.constraintNameMapping = store.constraintNameMapping
    BY <1>1, Fields
  <2>3. /\ DOMAIN store' = DOMAIN store
        /\ SameBinders(store') /\ SameWfs(store')
        /\ store'.freshBinderId = store.freshBinderId
        /\ store'.futureBindersMapping = store.futureBindersMapping
        /\ store'.freshConstraintId = store.freshConstraintId + 1
        /\ store'.constraintNameMapping = Put(store.constraintNameMapping, c, k)
    BY <1>1, <2>1, <2>2, Fields DEF SameBinders, SameWfs
  <2>4. k.env \subseteq LiveIds /\ k.env \subseteq Id
    BY <1>4, BinderPartHolds, EnvironmentIds
  <2>5. k \in Constraint
    BY <1>1, <2>4 DEF Constraint
  <2> QED BY <1>2, <2>3, <2>4, <2>5
<1> QED BY <1>3, <1>4

LEMMA AddConstraintIInv ==
    ASSUME IInv, NEW c \in ConstraintName, NEW t \in Type, NEW quals \in SUBSET Predicate,
           NEW expr \in SUBSET Formula, NEW env \in SUBSET Name,
           \A q \in quals \ Formula : Covered(q, t),
           store' = AddConstraint(store, c, t, quals, expr, env).store,
           outcome' \in {"open", "error"}
    PROVE  IInv'
<1>1. CASE store' = store
  BY <1>1, UnchangedIInv
<1>2. CASE store' # store
  <2>1. /\ DOMAIN store' = DOMAIN store
        /\ SameBinders(store') /\ SameWfs(store')
        /\ store'.freshBinderId = store.freshBinderId
        /\ store'.futureBindersMapping = store.futureBindersMapping
        /\ store'.freshConstraintId = store.freshConstraintId + 1
    BY <1>2, AddConstraintEffect
  <2>2. BinderPart' /\ WfPart' /\ OutcomePart'
    BY <2>1, SameKeepsBinderPart, SameKeepsWfPart, Parts DEF OutcomePart
  <2>3. \A q, u : Covered(q, u) => Covered(q, u)'
    BY <2>1, SameKeepsWfPart DEF Covered
  <2>4. ConstraintPart
    BY Parts
  <2>5. store'.freshConstraintId \in Id
    BY <2>1, <2>4 DEF ConstraintPart, Id
  <2>6. ASSUME store'.constraintNameMapping = store.constraintNameMapping
        PROVE  ConstraintPart'
    BY <2>3, <2>4, <2>5, <2>6 DEF ConstraintPart
  <2>7. ASSUME store'.constraintNameMapping # store.constraintNameMapping
        PROVE  ConstraintPart'
    <3>1. PICK k \in Constraint :
             /\ k.targetQualifiers = quals /\ k.type = t
             /\ k.env \subseteq LiveIds
             /\ store'.constraintNameMapping = Put(store.constraintNameMapping, c, k)
      BY <1>2, <2>7, AddConstraintEffect
    <3>2. /\ DOMAIN store'.constraintNameMapping = DOMAIN store.constraintNameMapping \cup {c}
          /\ store'.constraintNameMapping[c] = k
          /\ \A e \in DOMAIN store.constraintNameMapping \ {c} :
                store'.constraintNameMapping[e] = store.constraintNameMapping[e]
      BY <3>1 DEF Put
    <3>3. store'.constraintNameMapping \in [DOMAIN store'.constraintNameMapping -> Constraint]
      <4>1. store.constraintNameMapping \in [DOMAIN store.constraintNameMapping -> Constraint]
        BY <2>4 DEF ConstraintPart
      <4> QED BY <3>1, <3>2, <4>1 DEF Put
    <3>4. (\A e \in DOMAIN store.constraintNameMapping :
             \A q \in store.constraintNameMapping[e].targetQualifiers \ Formula :
                 Covered(q, store.constraintNameMapping[e].type))'
      BY <2>3, <2>4, <3>1, <3>2 DEF ConstraintPart
    <3> QED BY <2>4, <2>5, <3>2, <3>3, <3>4 DEF ConstraintPart
  <2>8. ConstraintPart'
    BY <2>6, <2>7
  <2> QED BY <2>2, <2>8, Parts, PTL
<1> QED BY <1>1, <1>2

LEMMA CheckIInv ==
    ASSUME IInv, NEW c \in ConstraintName, NEW t \in Type, NEW g \in Formula,
           NEW expr \in Formula, NEW env \in SUBSET Name, Check(c, t, g, expr, env)
    PROVE  IInv'
<1>1. /\ store' = AddConstraint(store, c, t, {g}, {expr}, env).store
      /\ outcome' \in {"open", "error"}
  BY DEF Check, Call
<1>2. {g} \in SUBSET Predicate /\ {expr} \in SUBSET Formula
      /\ \A q \in {g} \ Formula : Covered(q, t)
  BY DEF Predicate
<1> QED BY <1>1, <1>2, AddConstraintIInv

\* The refinement of a binder, as the right-hand side of a constraint.
LEMMA TargetQualifiers ==
    ASSUME IInv, NEW target \in Bound(store)
    PROVE  LET b == store.binderNameMapping[target]
           IN  /\ b.type \in Type /\ b.qualifiers \in SUBSET Predicate
               /\ \A q \in b.qualifiers \ Formula : Covered(q, b.type)
<1>1. store.binderNameMapping[target] \in Binder
  BY BinderPartHolds DEF BinderPart
<1>2. \A q \in store.binderNameMapping[target].qualifiers \ Formula :
          Covered(q, store.binderNameMapping[target].type)
  BY Parts DEF WfPart, Covered
<1> QED BY <1>1, <1>2 DEF Binder

LEMMA AssignIInv ==
    ASSUME IInv, NEW c \in ConstraintName, NEW target \in Name, NEW expr \in Formula,
           NEW env \in SUBSET Name, Assign(c, target, expr, env)
    PROVE  IInv'
<1>1. /\ store' = AddConstraintForAssignment(store, c, target, {expr}, env).store
      /\ outcome' \in {"open", "error"}
  BY DEF Assign, Call
<1>2. CASE target \notin Bound(store)
  <2>1. store' = store
    BY <1>1, <1>2 DEF AddConstraintForAssignment, Error
  <2> QED BY <1>1, <2>1, UnchangedIInv
<1>3. CASE target \in Bound(store)
  <2>1. store' = AddConstraint(store, c, store.binderNameMapping[target].type,
                               store.binderNameMapping[target].qualifiers, {expr}, env).store
    BY <1>1, <1>3 DEF AddConstraintForAssignment
  <2>2. {expr} \in SUBSET Formula
    OBVIOUS
  <2> QED BY <1>1, <1>3, <2>1, <2>2, TargetQualifiers, AddConstraintIInv
<1> QED BY <1>2, <1>3

LEMMA NextIInv == IInv /\ [Next]_vars => IInv'
<1> SUFFICES ASSUME IInv, [Next]_vars  PROVE IInv'
  OBVIOUS
<1>1. CASE BindOrConstrain
  <2>1. CASE ToStringOrFailure
    BY <2>1, UnchangedIInv DEF ToStringOrFailure
  <2> QED BY <1>1, <2>1, UnknownTypeIInv, WithConstraintsIInv, CheckIInv, AssignIInv
          DEF BindOrConstrain
<1>2. ASSUME NEW n \in Name, NEW t \in Type, FutureBinder(n, t)  PROVE IInv'
  BY <1>2, FutureBinderIInv
<1>3. CASE UNCHANGED vars
  <2>1. store' = store /\ outcome' \in {"open", "error", "emitted"}
    BY <1>3 DEF vars, IInv, TypeOK
  <2> QED BY <2>1, UnchangedIInv
<1> QED BY <1>1, <1>2, <1>3 DEF Next

\* The inductive invariant holds under every sequence of calls.
THEOREM InvariantHolds == Spec => []IInv
BY InitIInv, NextIInv, PTL DEF Spec

\* Every field stays within its type, for any names, types and formulas.
THEOREM TypeCorrect == Spec => []TypeOK
BY InvariantHolds, PTL DEF IInv

\* No two names share an id, whether bound or promised.
THEOREM IdsDistinct == Spec => []BinderIdsDistinct
BY InvariantHolds, PTL DEF IInv

\* Each unknown predicate in use has exactly one well-formedness constraint,
\* of its type.
THEOREM KvarsCovered == Spec => []KvarsWellFormed
BY InvariantHolds, PTL DEF IInv

\* No unknown refinement ranges over its own binder.
THEOREM EnvironmentsWellFounded == Spec => []WellFoundedEnvironments
BY InvariantHolds, PTL DEF IInv

--------------------------------------------------------------------------------
\* What every call leaves alone: the binders and the constraints written so
\* far, and the promise of a name that is already bound.
BindersKept ==
    /\ Bound(store) \subseteq Bound(store')
    /\ \A n \in Bound(store) : store'.binderNameMapping[n] = store.binderNameMapping[n]
    /\ \A n \in Bound(store) \cap Promised(store) : n \in Promised(store')

ConstraintsKept ==
    \A c \in DOMAIN store.constraintNameMapping :
        /\ c \in DOMAIN store'.constraintNameMapping
        /\ store'.constraintNameMapping[c] = store.constraintNameMapping[c]

LEMMA SameKept ==
    /\ SameBinders(store') /\ store'.futureBindersMapping = store.futureBindersMapping => BindersKept
    /\ SameConstraints(store') => ConstraintsKept
BY DEF SameBinders, SameConstraints, BindersKept, ConstraintsKept, Bound, Promised

LEMMA BindKept ==
    ASSUME IInv, NEW n \in Name, NEW b \in Binder, Settles(store', n, b.id),
           store'.binderNameMapping = Put(store.binderNameMapping, n, b)
    PROVE  BindersKept
<1>1. Promised(store') = Promised(store) \ {n}
  BY SettledIdIsNew
<1> QED BY <1>1, BindKeepsBinderPart DEF BindersKept

LEMMA UnknownTypeKept ==
    ASSUME IInv, NEW n \in Name, NEW t \in Type, NEW env \in SUBSET Name,
           UnknownType(n, t, env)
    PROVE  BindersKept /\ ConstraintsKept
<1>1. store' = CreateBinderWithUnknownType(store, n, t, env).store
  BY DEF UnknownType, Call
<1>2. CASE CreateBinderWithUnknownType(store, n, t, env).ok
  BY <1>1, <1>2, UnknownTypeEffect, BindKept, SameKept
<1>3. CASE ~CreateBinderWithUnknownType(store, n, t, env).ok
  <2>1. CASE store' = store
    BY <2>1, SameKept DEF SameBinders, SameConstraints
  <2>2. CASE store' # store
    <3>1. PICK i : Settles(store', n, i)
      BY <1>1, <1>3, <2>2, UnknownTypeFailure
    <3>2. SameBinders(store') /\ SameConstraints(store')
      BY <1>1, <1>3, <2>2, UnknownTypeFailure
    <3>3. Promised(store') = Promised(store) \ {n} /\ n \notin Bound(store)
      BY <3>1, SettledIdIsNew DEF Settles
    <3>4. BindersKept
      BY <3>2, <3>3 DEF SameBinders, BindersKept, Bound
    <3> QED BY <3>2, <3>4, SameKept
  <2> QED BY <2>1, <2>2
<1> QED BY <1>2, <1>3

LEMMA WithConstraintsKept ==
    ASSUME IInv, NEW n \in Name, NEW t \in Type, NEW g \in Formula, WithConstraints(n, t, g)
    PROVE  BindersKept /\ ConstraintsKept
<1>1. store' = CreateBinderWithConstraints(store, n, t, {g}).store
  BY DEF WithConstraints, Call
<1>2. CASE CreateBinderWithConstraints(store, n, t, {g}).ok
  BY <1>1, <1>2, WithConstraintsEffect, BindKept, SameKept
<1>3. CASE ~CreateBinderWithConstraints(store, n, t, {g}).ok
  <2>1. store' = store
    BY <1>1, <1>3 DEF CreateBinderWithConstraints, Error, Success
  <2> QED BY <2>1, SameKept DEF SameBinders, SameConstraints
<1> QED BY <1>2, <1>3

LEMMA FutureBinderKept ==
    ASSUME IInv, NEW n \in Name, NEW t \in Type, FutureBinder(n, t)
    PROVE  BindersKept /\ ConstraintsKept
<1>1. CASE store' = store
  BY <1>1, SameKept DEF SameBinders, SameConstraints
<1>2. CASE store' # store
  <2>1. /\ SameBinders(store') /\ SameConstraints(store')
        /\ store'.futureBindersMapping =
             Put(store.futureBindersMapping, n, [id |-> store.freshBinderId, type |-> t])
    BY <1>2, FutureBinderEffect
  <2>2. Promised(store') = Promised(store) \cup {n}
    BY <2>1 DEF Promised, Put
  <2>3. BindersKept
    BY <2>1, <2>2 DEF SameBinders, BindersKept, Bound
  <2> QED BY <2>1, <2>3, SameKept
<1> QED BY <1>1, <1>2

LEMMA AddConstraintKept ==
    ASSUME IInv, NEW c \in ConstraintName, NEW t \in Type, NEW quals \in SUBSET Predicate,
           NEW expr \in SUBSET Formula, NEW env \in SUBSET Name,
           store' = AddConstraint(store, c, t, quals, expr, env).store
    PROVE  BindersKept /\ ConstraintsKept
<1>1. CASE store' = store
  BY <1>1, SameKept DEF SameBinders, SameConstraints
<1>2. CASE store' # store
  <2>1. SameBinders(store') /\ store'.futureBindersMapping = store.futureBindersMapping
    BY <1>2, AddConstraintEffect
  <2>2. c \notin DOMAIN store.constraintNameMapping
    BY <1>2 DEF AddConstraint, Error
  <2>3. ConstraintsKept
    <3>1. CASE store'.constraintNameMapping = store.constraintNameMapping
      BY <3>1 DEF ConstraintsKept
    <3>2. CASE store'.constraintNameMapping # store.constraintNameMapping
      <4>1. PICK k \in Constraint :
               /\ k.targetQualifiers = quals /\ k.type = t
               /\ k.env \subseteq LiveIds
               /\ store'.constraintNameMapping = Put(store.constraintNameMapping, c, k)
        BY <1>2, <3>2, AddConstraintEffect
      <4> QED BY <2>2, <4>1 DEF ConstraintsKept, Put
    <3> QED BY <3>1, <3>2
  <2> QED BY <2>1, <2>3, SameKept
<1> QED BY <1>1, <1>2

LEMMA ConstrainKept ==
    ASSUME IInv, NEW c \in ConstraintName, NEW expr \in Formula, NEW env \in SUBSET Name,
           \/ \E t \in Type, g \in Formula : Check(c, t, g, expr, env)
           \/ \E target \in Name : Assign(c, target, expr, env)
    PROVE  BindersKept /\ ConstraintsKept
<1>1. ASSUME NEW t \in Type, NEW g \in Formula, Check(c, t, g, expr, env)
      PROVE  BindersKept /\ ConstraintsKept
  <2>1. store' = AddConstraint(store, c, t, {g}, {expr}, env).store
    BY <1>1 DEF Check, Call
  <2>2. {g} \in SUBSET Predicate /\ {expr} \in SUBSET Formula
    BY DEF Predicate
  <2> QED BY <2>1, <2>2, AddConstraintKept
<1>2. ASSUME NEW target \in Name, Assign(c, target, expr, env)
      PROVE  BindersKept /\ ConstraintsKept
  <2>1. store' = AddConstraintForAssignment(store, c, target, {expr}, env).store
    BY <1>2 DEF Assign, Call
  <2>2. CASE target \notin Bound(store)
    <3>1. store' = store
      BY <2>1, <2>2 DEF AddConstraintForAssignment, Error
    <3> QED BY <3>1, SameKept DEF SameBinders, SameConstraints
  <2>3. CASE target \in Bound(store)
    <3>1. store' = AddConstraint(store, c, store.binderNameMapping[target].type,
                                 store.binderNameMapping[target].qualifiers, {expr}, env).store
      BY <2>1, <2>3 DEF AddConstraintForAssignment
    <3>2. {expr} \in SUBSET Formula
      OBVIOUS
    <3> QED BY <2>3, <3>1, <3>2, TargetQualifiers, AddConstraintKept
  <2> QED BY <2>2, <2>3
<1> QED BY <1>1, <1>2

LEMMA NextKept ==
    ASSUME IInv, [Next]_vars
    PROVE  BindersKept /\ ConstraintsKept
<1>1. CASE ToStringOrFailure \/ UNCHANGED vars
  <2>1. store' = store
    BY <1>1 DEF ToStringOrFailure, vars
  <2> QED BY <2>1, SameKept DEF SameBinders, SameConstraints
<1>2. CASE BindOrConstrain
  BY <1>1, <1>2, UnknownTypeKept, WithConstraintsKept, ConstrainKept DEF BindOrConstrain
<1> QED BY <1>1, <1>2, FutureBinderKept DEF Next

\* No call changes or drops a binder or a constraint written before.
THEOREM NothingIsRewritten == Spec => NothingRewritten
<1>1. IInv /\ [Next]_vars =>
        [/\ \A n \in Bound(store) :
              n \in Bound(store)' /\ store'.binderNameMapping[n] = store.binderNameMapping[n]
         /\ \A c \in DOMAIN store.constraintNameMapping :
              /\ c \in DOMAIN store'.constraintNameMapping
              /\ store'.constraintNameMapping[c] = store.constraintNameMapping[c]]_vars
  BY NextKept DEF BindersKept, ConstraintsKept
<1> QED BY <1>1, InvariantHolds, PTL DEF Spec, NothingRewritten

\* Once a name is bound and promised at the same time it stays so, and no
\* query is ever written.
THEOREM NeverSettled == Spec => UnsettledForEver
<1>1. IInv /\ [Next]_vars => [Unsettled => Unsettled' /\ outcome' # "emitted"]_vars
  <2> SUFFICES ASSUME IInv, Next, Unsettled  PROVE Unsettled' /\ outcome' # "emitted"
    OBVIOUS
  <2>1. Unsettled'
    BY NextKept DEF Unsettled, BindersKept
  <2>2. Promised(store) # {}
    BY DEF Unsettled
  <2>3. outcome' # "emitted"
    BY <2>2 DEF Next, BindOrConstrain, UnknownType, WithConstraints, FutureBinder, Check, Assign,
             Call, ToStringOrFailure, validateNoUninstantiatedFutureBinders
  <2> QED BY <2>1, <2>3
<1> QED BY <1>1, InvariantHolds, PTL DEF Spec, UnsettledForEver

--------------------------------------------------------------------------------
(***************************************************************************)
(* With an orderly client, one that promises a name once and before it     *)
(* binds it: no id that an environment mentions is ever lost, the query    *)
(* written declares all ids it mentions, and the builder implements        *)
(* BinderRegistry.                                                         *)
(***************************************************************************)
\* The id of a name, as the registry sees it.
IdOf(n) ==
    IF n \in Bound(store) THEN BinderId(n)
    ELSE IF n \in Promised(store) THEN FutureId(n) ELSE 0

Mentioned == UNION Environments

\* The registry's step in terms of the builder: n is identified, the others
\* keep their ids.
Identifies(n) ==
    /\ \A m \in Name \ {n} : IdOf(m)' = IdOf(m)
    /\ IF IdOf(n) = 0 THEN IdOf(n)' \in Nat \ (LiveIds \cup {0}) ELSE IdOf(n)' = IdOf(n)

Mentions == Mentioned \subseteq Mentioned' /\ Mentioned' \subseteq Mentioned \cup LiveIds

\* The ids in use are those of the names.
IdsKnown ==
    /\ LiveIds = {IdOf(n) : n \in Name} \ {0}
    /\ \A n \in Name : IdOf(n) = 0 <=> n \notin Bound(store) \cup Promised(store)

\* That is so when no name has two.
LEMMA KnownIds == BinderPart /\ ~Unsettled => IdsKnown
<1> SUFFICES ASSUME BinderPart, ~Unsettled  PROVE IdsKnown
  OBVIOUS
<1>1. /\ Bound(store) \subseteq Name /\ Promised(store) \subseteq Name
      /\ \A n \in Bound(store) : BinderId(n) \in Id
      /\ \A n \in Promised(store) : FutureId(n) \in Id /\ n \notin Bound(store)
  BY DEF BinderPart, BinderId, FutureId, Binder, FutureBinderRecord, Unsettled
<1>2. \A n \in Name : IdOf(n) = 0 <=> n \notin Bound(store) \cup Promised(store)
  BY <1>1 DEF IdOf, Id
<1>3. \A n \in Promised(store) : IdOf(n) = FutureId(n)
  BY <1>1 DEF IdOf
<1>4. LiveIds \subseteq {IdOf(n) : n \in Name} \ {0}
  BY <1>1, <1>3 DEF LiveIds, IdOf, Id
<1>5. {IdOf(n) : n \in Name} \ {0} \subseteq LiveIds
  BY <1>1 DEF LiveIds, IdOf
<1> QED BY <1>2, <1>4, <1>5 DEF IdsKnown

\* When a name is identified and the others keep their ids, no id is lost.
LEMMA IdentifiesKeepsIds ==
    ASSUME BinderPart, ~Unsettled, BinderPart', ~Unsettled', NEW n \in Name, Identifies(n)
    PROVE  LiveIds \subseteq LiveIds'
<1>1. LiveIds = {IdOf(m) : m \in Name} \ {0}
  BY KnownIds DEF IdsKnown
<1>2. LiveIds' = {IdOf(m)' : m \in Name} \ {0}
  <2>1. IdsKnown'
    BY KnownIds, PTL
  <2> QED BY <2>1 DEF IdsKnown
<1>3. \A m \in Name : IdOf(m) # 0 => IdOf(m)' = IdOf(m)
  BY DEF Identifies
<1> QED BY <1>1, <1>2, <1>3

\* Binding a name identifies it, and settles it if it was promised.
LEMMA BindIdentifies ==
    ASSUME IInv, ~Unsettled, NEW n \in Name, NEW b \in Binder, Settles(store', n, b.id),
           store'.binderNameMapping = Put(store.binderNameMapping, n, b)
    PROVE  /\ Identifies(n)
           /\ ~Unsettled'
           /\ n \notin Bound(store)
           /\ Bound(store)' = Bound(store) \cup {n}
<1>1. /\ Bound(store)' = Bound(store) \cup {n}
      /\ n \notin Bound(store)
      /\ BinderId(n)' = b.id
      /\ \A m \in Bound(store) : store'.binderNameMapping[m] = store.binderNameMapping[m]
  BY BindKeepsBinderPart
<1>2. /\ b.id \in Id
      /\ Promised(store') = Promised(store) \ {n}
      /\ \A m \in Promised(store') : store'.futureBindersMapping[m] = store.futureBindersMapping[m]
      /\ \A m \in Bound(store) : BinderId(m) # b.id
      /\ \A m \in Promised(store') : FutureId(m) # b.id
  BY SettledIdIsNew
<1>3. Bound(store)' = Bound(store') /\ Promised(store)' = Promised(store')
  OBVIOUS
<1>4. ~Unsettled'
  BY <1>1, <1>2, <1>3 DEF Unsettled
<1>5. \A m \in Name \ {n} : IdOf(m)' = IdOf(m)
  BY <1>1, <1>2, <1>3 DEF IdOf, BinderId, FutureId
<1>6. IdOf(n)' = b.id
  BY <1>1 DEF IdOf
<1>7. CASE n \in Promised(store)
  <2>1. b.id = IdOf(n)
    BY <1>1, <1>7 DEF Settles, IdOf
  <2> QED BY <1>1, <1>2, <1>4, <1>5, <1>6, <2>1 DEF Identifies, Id
<1>8. CASE n \notin Promised(store)
  <2>1. IdOf(n) = 0
    BY <1>1, <1>8 DEF IdOf
  <2>2. b.id \in Nat \ (LiveIds \cup {0})
    BY <1>2, <1>8 DEF LiveIds, Id
  <2> QED BY <1>1, <1>4, <1>5, <1>6, <2>1, <2>2 DEF Identifies
<1> QED BY <1>7, <1>8

\* Promising a name that has no id identifies it.
LEMMA PromiseIdentifies ==
    ASSUME IInv, ~Unsettled, NEW n \in Name \ (Bound(store) \cup Promised(store)), NEW t \in Type,
           SameBinders(store'),
           store'.futureBindersMapping =
               Put(store.futureBindersMapping, n, [id |-> store.freshBinderId, type |-> t])
    PROVE  /\ Identifies(n)
           /\ ~Unsettled'
           /\ IdOf(n) = 0
           /\ Bound(store)' = Bound(store)
<1>1. /\ Promised(store') = Promised(store) \cup {n}
      /\ store'.futureBindersMapping[n].id = store.freshBinderId
      /\ \A m \in Promised(store) : store'.futureBindersMapping[m] = store.futureBindersMapping[m]
  BY DEF Promised, Put
<1>2. /\ store.freshBinderId \in Id
      /\ \A m \in Bound(store) : BinderId(m) \in Nat /\ BinderId(m) < store.freshBinderId
      /\ \A m \in Promised(store) : FutureId(m) \in Nat /\ FutureId(m) < store.freshBinderId
  BY BinderPartHolds DEF BinderPart, BinderId, FutureId, Binder, FutureBinderRecord, Id
<1>3. Bound(store') = Bound(store) /\ store'.binderNameMapping = store.binderNameMapping
  BY DEF SameBinders, Bound
<1>4. ~Unsettled'
  BY <1>1, <1>3 DEF Unsettled
<1>5. \A m \in Name \ {n} : IdOf(m)' = IdOf(m)
  BY <1>1, <1>3 DEF IdOf, BinderId, FutureId
<1>6. IdOf(n)' = store.freshBinderId /\ IdOf(n) = 0
  BY <1>1, <1>3 DEF IdOf, FutureId
<1>7. store.freshBinderId \in Nat \ (LiveIds \cup {0})
  BY <1>2 DEF LiveIds, Id
<1> QED BY <1>3, <1>4, <1>5, <1>6, <1>7 DEF Identifies

--------------------------------------------------------------------------------
\* What a call that succeeds does, in the terms of the registry.
Registers ==
    \/ \E n \in Name :
          \/ /\ IdOf(n) = 0 /\ Identifies(n)
             /\ Bound(store)' = Bound(store)
             /\ Mentioned' = Mentioned
          \/ /\ n \notin Bound(store) /\ Identifies(n)
             /\ Bound(store)' = Bound(store) \cup {n}
             /\ Mentions
    \/ /\ \A n \in Name : IdOf(n)' = IdOf(n)
       /\ Bound(store)' = Bound(store)
       /\ Mentions

\* The environments after a call that adds a well-formedness constraint, after
\* one that adds a constraint, and after one that adds neither.
LEMMA MentionsWf ==
    ASSUME IInv, NEW n \in Name, n \notin Bound(store), NEW w, w.env \subseteq LiveIds,
           store'.wellFormednessConstraintsMapping =
               Put(store.wellFormednessConstraintsMapping, n, w),
           SameConstraints(store')
    PROVE  Mentions
<1>1. n \notin WfNames
  BY Parts DEF WfPart
<1>2. /\ WfNames' = WfNames \cup {n}
      /\ store'.wellFormednessConstraintsMapping[n] = w
      /\ \A m \in WfNames : store'.wellFormednessConstraintsMapping[m]
                                = store.wellFormednessConstraintsMapping[m]
  BY <1>1 DEF WfNames, Put
<1>3. Environments' = Environments \cup {w.env}
  BY <1>2 DEF Environments, SameConstraints
<1> QED BY <1>3 DEF Mentions, Mentioned

LEMMA MentionsConstraint ==
    ASSUME NEW c, c \notin DOMAIN store.constraintNameMapping, NEW k, k.env \subseteq LiveIds,
           store'.constraintNameMapping = Put(store.constraintNameMapping, c, k),
           SameWfs(store')
    PROVE  Mentions
<1>1. /\ DOMAIN store'.constraintNameMapping = DOMAIN store.constraintNameMapping \cup {c}
      /\ store'.constraintNameMapping[c] = k
      /\ \A d \in DOMAIN store.constraintNameMapping :
            store'.constraintNameMapping[d] = store.constraintNameMapping[d]
  BY DEF Put
<1>2. WfNames' = WfNames
  BY DEF SameWfs, WfNames
<1>3. Environments' = Environments \cup {k.env}
  BY <1>1, <1>2 DEF Environments, SameWfs
<1> QED BY <1>3 DEF Mentions, Mentioned

LEMMA SameEnvironments ==
    ASSUME SameWfs(store'),
           store'.constraintNameMapping = store.constraintNameMapping
    PROVE  Mentioned' = Mentioned /\ Mentions
<1>1. Environments' = Environments
  BY DEF Environments, SameWfs, WfNames
<1> QED BY <1>1 DEF Mentioned, Mentions

\* A call that leaves binders and promises alone.
LEMMA SameIds ==
    ASSUME SameBinders(store'), store'.futureBindersMapping = store.futureBindersMapping
    PROVE  /\ \A n \in Name : IdOf(n)' = IdOf(n)
           /\ Bound(store)' = Bound(store)
           /\ Unsettled' = Unsettled
BY DEF SameBinders, IdOf, BinderId, FutureId, Bound, Promised, Unsettled

LEMMA UnknownTypeRegisters ==
    ASSUME IInv, ~Unsettled, NEW n \in Name, NEW t \in Type, NEW env \in SUBSET Name,
           UnknownType(n, t, env), outcome' # "error"
    PROVE  Registers /\ ~Unsettled'
<1>1. /\ store' = CreateBinderWithUnknownType(store, n, t, env).store
      /\ CreateBinderWithUnknownType(store, n, t, env).ok
  BY DEF UnknownType, Call
<1>2. PICK b \in Binder, w \in WellFormednessConstraint :
               /\ Settles(store', n, b.id)
               /\ store'.binderNameMapping = Put(store.binderNameMapping, n, b)
               /\ w.id = store.freshRefinementId
               /\ w.type = b.type
               /\ w.env \subseteq LiveIds \ {b.id}
               /\ store'.wellFormednessConstraintsMapping =
                      Put(store.wellFormednessConstraintsMapping, n, w)
               /\ store'.freshRefinementId = store.freshRefinementId + 1
               /\ b.qualifiers = {Kvar(w.id)}
               /\ SameConstraints(store')
  BY <1>1, UnknownTypeEffect
<1>3. /\ Identifies(n) /\ ~Unsettled' /\ n \notin Bound(store)
      /\ Bound(store)' = Bound(store) \cup {n}
  BY <1>2, BindIdentifies
<1>4. Mentions
  <2>1. w.env \subseteq LiveIds
    BY <1>2
  <2> QED BY <1>2, <1>3, <2>1, MentionsWf
<1> QED BY <1>3, <1>4 DEF Registers

LEMMA WithConstraintsRegisters ==
    ASSUME IInv, ~Unsettled, NEW n \in Name, NEW t \in Type, NEW g \in Formula,
           WithConstraints(n, t, g), outcome' # "error"
    PROVE  Registers /\ ~Unsettled'
<1>1. /\ store' = CreateBinderWithConstraints(store, n, t, {g}).store
      /\ CreateBinderWithConstraints(store, n, t, {g}).ok
  BY DEF WithConstraints, Call
<1>2. PICK b \in Binder :
               /\ Settles(store', n, b.id)
               /\ store'.binderNameMapping = Put(store.binderNameMapping, n, b)
               /\ b.qualifiers = {g}
               /\ SameConstraints(store')
               /\ SameWfs(store')
  BY <1>1, WithConstraintsEffect
<1>3. /\ Identifies(n) /\ ~Unsettled' /\ n \notin Bound(store)
      /\ Bound(store)' = Bound(store) \cup {n}
  BY <1>2, BindIdentifies
<1>4. Mentions
  BY <1>2, SameEnvironments DEF SameConstraints
<1> QED BY <1>3, <1>4 DEF Registers

LEMMA FutureBinderRegisters ==
    ASSUME IInv, ~Unsettled, NEW n \in Name \ (Bound(store) \cup Promised(store)),
           NEW t \in Type, FutureBinder(n, t), outcome' # "error"
    PROVE  Registers /\ ~Unsettled'
<1>1. CASE store' = store
  <2>1. SameBinders(store') /\ SameWfs(store')
        /\ store'.futureBindersMapping = store.futureBindersMapping
        /\ store'.constraintNameMapping = store.constraintNameMapping
    BY <1>1 DEF SameBinders, SameWfs
  <2> QED BY <2>1, SameIds, SameEnvironments DEF Registers
<1>2. CASE store' # store
  <2>1. /\ SameBinders(store') /\ SameConstraints(store') /\ SameWfs(store')
        /\ store'.futureBindersMapping =
             Put(store.futureBindersMapping, n, [id |-> store.freshBinderId, type |-> t])
    BY <1>2, FutureBinderEffect
  <2>2. /\ Identifies(n) /\ ~Unsettled' /\ IdOf(n) = 0
        /\ Bound(store)' = Bound(store)
    BY <2>1, PromiseIdentifies
  <2>3. Mentioned' = Mentioned
    BY <2>1, SameEnvironments DEF SameConstraints
  <2> QED BY <2>2, <2>3 DEF Registers
<1> QED BY <1>1, <1>2

LEMMA AddConstraintRegisters ==
    ASSUME IInv, ~Unsettled, NEW c \in ConstraintName, NEW t \in Type,
           NEW quals \in SUBSET Predicate, NEW expr \in SUBSET Formula, NEW env \in SUBSET Name,
           store' = AddConstraint(store, c, t, quals, expr, env).store
    PROVE  Registers /\ ~Unsettled'
<1>1. CASE store' = store
  <2>1. SameBinders(store') /\ SameWfs(store')
        /\ store'.futureBindersMapping = store.futureBindersMapping
        /\ store'.constraintNameMapping = store.constraintNameMapping
    BY <1>1 DEF SameBinders, SameWfs
  <2> QED BY <2>1, SameIds, SameEnvironments DEF Registers
<1>2. CASE store' # store
  <2>1. /\ SameBinders(store') /\ SameWfs(store')
        /\ store'.futureBindersMapping = store.futureBindersMapping
    BY <1>2, AddConstraintEffect
  <2>2. Mentions
    <3>1. CASE store'.constraintNameMapping = store.constraintNameMapping
      BY <2>1, <3>1, SameEnvironments
    <3>2. CASE store'.constraintNameMapping # store.constraintNameMapping
      <4>1. PICK k \in Constraint :
               /\ k.targetQualifiers = quals /\ k.type = t
               /\ k.env \subseteq LiveIds
               /\ store'.constraintNameMapping = Put(store.constraintNameMapping, c, k)
        BY <1>2, <3>2, AddConstraintEffect
      <4>2. c \notin DOMAIN store.constraintNameMapping
        BY <1>2, <3>2, AddConstraintEffect
      <4> QED BY <2>1, <4>1, <4>2, MentionsConstraint
    <3> QED BY <3>1, <3>2
  <2> QED BY <2>1, <2>2, SameIds DEF Registers
<1> QED BY <1>1, <1>2

LEMMA ConstrainRegisters ==
    ASSUME IInv, ~Unsettled, NEW c \in ConstraintName, NEW expr \in Formula,
           NEW env \in SUBSET Name, outcome' # "error",
           \/ \E t \in Type, g \in Formula : Check(c, t, g, expr, env)
           \/ \E target \in Name : Assign(c, target, expr, env)
    PROVE  Registers /\ ~Unsettled'
<1>1. {expr} \in SUBSET Formula
  OBVIOUS
<1>2. ASSUME NEW t \in Type, NEW g \in Formula, Check(c, t, g, expr, env)
      PROVE  Registers /\ ~Unsettled'
  <2>1. store' = AddConstraint(store, c, t, {g}, {expr}, env).store
    BY <1>2 DEF Check, Call
  <2>2. {g} \in SUBSET Predicate
    BY DEF Predicate
  <2> QED BY <1>1, <2>1, <2>2, AddConstraintRegisters
<1>3. ASSUME NEW target \in Name, Assign(c, target, expr, env)
      PROVE  Registers /\ ~Unsettled'
  <2>1. /\ store' = AddConstraintForAssignment(store, c, target, {expr}, env).store
        /\ AddConstraintForAssignment(store, c, target, {expr}, env).ok
    BY <1>3 DEF Assign, Call
  <2>2. target \in Bound(store)
    BY <2>1 DEF AddConstraintForAssignment, Error
  <2>3. store' = AddConstraint(store, c, store.binderNameMapping[target].type,
                               store.binderNameMapping[target].qualifiers, {expr}, env).store
    BY <2>1, <2>2 DEF AddConstraintForAssignment
  <2> QED BY <1>1, <2>2, <2>3, TargetQualifiers, AddConstraintRegisters
<1> QED BY <1>2, <1>3

--------------------------------------------------------------------------------
LEMMA OrderlyIsNext == [OrderlyNext]_vars => [Next]_vars
BY DEF OrderlyNext, Next, vars

\* A call of an orderly client that succeeds and does not write the query.
LEMMA CallRegisters ==
    ASSUME OrderlyInv, OrderlyNext, ~ToStringOrFailure, outcome' # "error"
    PROVE  Registers /\ ~Unsettled' /\ outcome = "open" /\ outcome' = "open"
<1>1. outcome = "open" /\ outcome' = "open"
  BY DEF OrderlyNext, BindOrConstrain, UnknownType, WithConstraints, FutureBinder, Check, Assign, Call
<1>2. IInv /\ ~Unsettled
  BY <1>1 DEF OrderlyInv
<1>3. CASE BindOrConstrain
  BY <1>1, <1>2, <1>3, UnknownTypeRegisters, WithConstraintsRegisters, ConstrainRegisters
     DEF BindOrConstrain
<1>4. ASSUME NEW n \in Name \ (Bound(store) \cup Promised(store)), NEW t \in Type, FutureBinder(n, t)
      PROVE  Registers /\ ~Unsettled'
  BY <1>2, <1>4, FutureBinderRegisters
<1> QED BY <1>1, <1>3, <1>4 DEF OrderlyNext

\* Such a call loses no id.
LEMMA RegistersKeepsIds ==
    ASSUME BinderPart, ~Unsettled, BinderPart', ~Unsettled', Registers,
           Mentioned \subseteq LiveIds
    PROVE  Mentioned' \subseteq LiveIds'
<1>1. ASSUME NEW n \in Name, Identifies(n)  PROVE LiveIds \subseteq LiveIds'
  BY <1>1, IdentifiesKeepsIds
<1>2. ASSUME \A n \in Name : IdOf(n)' = IdOf(n)  PROVE LiveIds \subseteq LiveIds'
  <2>1. IdsKnown /\ IdsKnown'
    BY KnownIds, PTL
  <2> QED BY <1>2, <2>1 DEF IdsKnown
<1> QED BY <1>1, <1>2 DEF Registers, Mentions

LEMMA InitOrderly == Init => OrderlyInv
<1> SUFFICES ASSUME Init  PROVE OrderlyInv
  OBVIOUS
<1>1. IInv
  BY InitIInv
<1>2. /\ Bound(store) = {} /\ WfNames = {} /\ DOMAIN store.constraintNameMapping = {}
      /\ outcome = "open"
  BY DEF Init, EmptyStore, Bound, WfNames
<1>3. Environments = {}
  BY <1>2 DEF Environments
<1> QED BY <1>1, <1>2, <1>3 DEF OrderlyInv, Unsettled, EnvironmentsLive

LEMMA NextOrderly == OrderlyInv /\ [OrderlyNext]_vars => OrderlyInv'
<1> SUFFICES ASSUME OrderlyInv, [OrderlyNext]_vars  PROVE OrderlyInv'
  OBVIOUS
<1>1. IInv'
  BY OrderlyIsNext, NextIInv DEF OrderlyInv
<1>2. CASE outcome' = "error"
  BY <1>1, <1>2 DEF OrderlyInv, EnvironmentsLive
<1>3. CASE ToStringOrFailure /\ outcome' # "error"
  <2>1. store' = store /\ Promised(store) = {} /\ outcome = "open"
    BY <1>3 DEF ToStringOrFailure, validateNoUninstantiatedFutureBinders
  <2>2. Unsettled' = Unsettled /\ Environments' = Environments /\ LiveIds' = LiveIds
        /\ Promised(store)' = Promised(store)
    BY <2>1 DEF Unsettled, Environments, WfNames, LiveIds, BinderId, FutureId
  <2> QED BY <1>1, <2>1, <2>2 DEF OrderlyInv, EnvironmentsLive
<1>4. CASE UNCHANGED vars
  <2>1. store' = store /\ outcome' = outcome
    BY <1>4 DEF vars
  <2>2. Unsettled' = Unsettled /\ Environments' = Environments /\ LiveIds' = LiveIds
        /\ Promised(store)' = Promised(store)
    BY <2>1 DEF Unsettled, Environments, WfNames, LiveIds, BinderId, FutureId
  <2> QED BY <1>1, <2>1, <2>2 DEF OrderlyInv, EnvironmentsLive
<1>5. CASE OrderlyNext /\ ~ToStringOrFailure /\ outcome' # "error"
  <2>1. Registers /\ ~Unsettled' /\ outcome = "open" /\ outcome' = "open"
    BY <1>5, CallRegisters
  <2>2. BinderPart /\ BinderPart'
    BY <1>1, BinderPartHolds, PTL DEF OrderlyInv
  <2>3. Mentioned \subseteq LiveIds
    BY <2>1 DEF OrderlyInv, EnvironmentsLive, Mentioned
  <2>4. Mentioned' \subseteq LiveIds'
    <3>1. ~Unsettled
      BY <2>1 DEF OrderlyInv
    <3> QED BY <2>1, <2>2, <2>3, <3>1, RegistersKeepsIds
  <2> QED BY <1>1, <2>1, <2>4 DEF OrderlyInv, EnvironmentsLive, Mentioned
<1> QED BY <1>2, <1>3, <1>4, <1>5

\* The invariant of the builder with an orderly client.
THEOREM OrderlyInvariantHolds == OrderlySpec => []OrderlyInv
BY InitOrderly, NextOrderly, PTL DEF OrderlySpec

\* Every id an environment mentions belongs to a name, bound or promised.
THEOREM EnvironmentsStayLive == OrderlySpec => []EnvironmentsLive
BY OrderlyInvariantHolds, PTL DEF OrderlyInv

\* The query written declares every id that its environments mention.
THEOREM WrittenQueryClosed == OrderlySpec => []QueryClosed
<1>1. OrderlyInv => QueryClosed
  BY DEF OrderlyInv, EnvironmentsLive, LiveIds, QueryClosed
<1> QED BY <1>1, OrderlyInvariantHolds, PTL

--------------------------------------------------------------------------------
\* The refinement mapping of Registry, in the terms of this module.
LEMMA RegistryKnown ==
    ASSUME BinderPart, ~Unsettled
    PROVE  Registry!Known = LiveIds
<1>1. IdsKnown
  BY KnownIds
<1>2. Registry!Known = {IdOf(n) : n \in Name} \ {0}
  BY DEF Registry!Known, IdOf
<1> QED BY <1>1, <1>2 DEF IdsKnown

LEMMA RegistryInit == Init => Registry!Init
<1> SUFFICES ASSUME Init  PROVE Registry!Init
  OBVIOUS
<1>1. /\ Bound(store) = {} /\ Promised(store) = {} /\ WfNames = {}
      /\ DOMAIN store.constraintNameMapping = {} /\ outcome = "open"
  BY DEF Init, EmptyStore, Bound, Promised, WfNames
<1>2. UNION Environments = {}
  BY <1>1 DEF Environments
<1> QED BY <1>1, <1>2 DEF Registry!Init

LEMMA RegistryIdentify ==
    ASSUME BinderPart, ~Unsettled, NEW n \in Name, Identifies(n)
    PROVE  Registry!Identify(n)
BY RegistryKnown DEF Registry!Identify, Identifies, IdOf

LEMMA RegistryNext == OrderlyInv /\ [OrderlyNext]_vars => [Registry!Next]_(Registry!vars)
<1> SUFFICES ASSUME OrderlyInv, [OrderlyNext]_vars  PROVE [Registry!Next]_(Registry!vars)
  OBVIOUS
<1>1. CASE UNCHANGED vars
  <2>1. store' = store /\ outcome' = outcome
    BY <1>1 DEF vars
  <2> QED BY <2>1 DEF Registry!vars, Environments, WfNames, BinderId, FutureId
<1>2. CASE OrderlyNext /\ outcome' = "error"
  <2>1. outcome = "open"
    BY <1>2 DEF OrderlyNext, BindOrConstrain, UnknownType, WithConstraints, FutureBinder, Check,
             Assign, Call, ToStringOrFailure
  <2> QED BY <1>2, <2>1 DEF Registry!Next, Registry!Fail
<1>3. CASE ToStringOrFailure /\ outcome' # "error"
  <2>1. store' = store /\ Promised(store) = {} /\ outcome = "open" /\ outcome' = "emitted"
    BY <1>3 DEF ToStringOrFailure, validateNoUninstantiatedFutureBinders
  <2>2. Registry!Emit
    BY <2>1 DEF Registry!Emit, Environments, WfNames, BinderId, FutureId
  <2> QED BY <2>1, <2>2 DEF Registry!Next
<1>4. CASE OrderlyNext /\ ~ToStringOrFailure /\ outcome' # "error"
  <2>1. Registers /\ outcome = "open" /\ outcome' = "open"
    BY <1>4, CallRegisters
  <2>2. BinderPart /\ ~Unsettled
    BY <2>1, BinderPartHolds DEF OrderlyInv
  <2>3. ASSUME NEW n \in Name, IdOf(n) = 0, Identifies(n), Bound(store)' = Bound(store),
               Mentioned' = Mentioned
        PROVE  Registry!Promise(n)
    BY <2>1, <2>2, <2>3, RegistryIdentify DEF Registry!Promise, IdOf, Mentioned
  <2>4. ASSUME Mentions  PROVE Registry!Mention
    BY <2>2, <2>4, RegistryKnown DEF Registry!Mention, Mentions, Mentioned
  <2>5. ASSUME NEW n \in Name, n \notin Bound(store), Identifies(n),
               Bound(store)' = Bound(store) \cup {n}, Mentions
        PROVE  Registry!Bind(n)
    BY <2>1, <2>2, <2>4, <2>5, RegistryIdentify DEF Registry!Bind
  <2>6. ASSUME \A n \in Name : IdOf(n)' = IdOf(n), Bound(store)' = Bound(store), Mentions
        PROVE  Registry!Constrain
    BY <2>1, <2>4, <2>6 DEF Registry!Constrain, IdOf
  <2> QED BY <2>1, <2>3, <2>5, <2>6 DEF Registers, Registry!Next
<1> QED BY <1>1, <1>2, <1>3, <1>4

\* The builder with an orderly client implements the registry of ids: an id is
\* given to a name once and stays, and all are bound when the query is written.
THEOREM RegistryImplemented == OrderlySpec => ImplementsRegistry
BY RegistryInit, RegistryNext, OrderlyInvariantHolds, PTL
   DEF OrderlySpec, ImplementsRegistry, Registry!Spec
================================================================================
