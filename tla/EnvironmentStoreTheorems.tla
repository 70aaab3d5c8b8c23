----------------------- MODULE EnvironmentStoreTheorems -----------------------
(***************************************************************************)
(* What the operations of FixpointConstraintBuilder and the steps that the *)
(* operations of VariablesEnvironment are made of do to the records they   *)
(* are functions of: which fields a step writes, and what it never takes   *)
(* back.  Every lemma covers failed calls too, unless it says otherwise.   *)
(***************************************************************************)
EXTENDS EnvironmentStore, FiniteSetTheorems, TLAPS

\* Reachability, by closed sets: a block reaches itself and what its successors are.
LEMMA ReachStep ==
    ASSUME NEW g \in [Block -> Seq(Block)], NEW b \in Block
    PROVE  /\ b \in Reach(g, b)
           /\ Reach(g, b) \subseteq Block
           /\ \A c \in Reach(g, b) : Successors(g, c) \subseteq Reach(g, b)
<1>1. ASSUME NEW c \in Block  PROVE Successors(g, c) \subseteq Block
  <2>1. g[c] \in Seq(Block)
    OBVIOUS
  <2> QED BY <2>1 DEF Successors
<1>2. ASSUME NEW c \in Reach(g, b), NEW d \in Successors(g, c)  PROVE d \in Reach(g, b)
  <2>1. c \in Block /\ d \in Block
    BY <1>1 DEF Reach
  <2>2. ASSUME NEW S \in SUBSET Block, b \in S, Closed(g, S)  PROVE d \in S
    <3>1. c \in S
      BY <2>2 DEF Reach
    <3> QED BY <3>1, <2>2 DEF Closed
  <2> QED BY <2>1, <2>2 DEF Reach
<1> QED BY <1>2 DEF Reach

\* Whatever closed set holds b holds all that b reaches.
LEMMA ReachLeast ==
    ASSUME NEW g, NEW b, NEW S \in SUBSET Block, b \in S, Closed(g, S)
    PROVE  Reach(g, b) \subseteq S
BY DEF Reach

LEMMA ReachTransitive ==
    ASSUME NEW g \in [Block -> Seq(Block)], NEW b \in Block, NEW c \in Reach(g, b)
    PROVE  Reach(g, c) \subseteq Reach(g, b)
<1>1. Reach(g, b) \in SUBSET Block /\ Closed(g, Reach(g, b))
  BY ReachStep DEF Closed
<1> QED BY <1>1, ReachLeast

\* A way to another block ends with an edge from a third.
LEMMA LastEdge ==
    ASSUME NEW g \in [Block -> Seq(Block)], NEW b \in Block, NEW c \in Reach(g, b), c # b
    PROVE  \E p \in Reach(g, b) : p # c /\ c \in Successors(g, p)
<1> SUFFICES ASSUME \A p \in Reach(g, b) : p = c \/ c \notin Successors(g, p)  PROVE FALSE
  OBVIOUS
<1> DEFINE S == Reach(g, b) \ {c}
<1>1. S \in SUBSET Block /\ b \in S
  BY ReachStep
<1>2. Closed(g, S)
  BY ReachStep DEF Closed
<1>3. Reach(g, b) \subseteq S
  BY <1>1, <1>2, ReachLeast
<1> QED BY <1>3

\* A block's terminator names the next blocks.
LEMMA TerminatorsAreSequences == Terminators \subseteq Seq(Block)
<1>1. << >> \in Seq(Block)
  OBVIOUS
<1>2. ASSUME NEW b \in Block  PROVE <<b>> \in Seq(Block)
  OBVIOUS
<1>3. ASSUME NEW b \in Block, NEW c \in Block  PROVE <<b, c>> \in Seq(Block)
  OBVIOUS
<1> SUFFICES ASSUME NEW t \in Terminators  PROVE t \in Seq(Block)
  OBVIOUS
<1>4. \/ t = << >>
      \/ \E b \in Block : t = <<b>>
      \/ \E b, c \in Block : t = <<b, c>>
  BY DEF Terminators
<1>5. CASE t = << >>
  BY <1>1, <1>5, Zenon
<1>6. CASE \E b \in Block : t = <<b>>
  BY <1>2, <1>6, Zenon
<1>7. CASE \E b, c \in Block : t = <<b, c>>
  BY <1>3, <1>7, Zenon
<1> QED BY <1>4, <1>5, <1>6, <1>7

LEMMA SuccessorsOfTerminator ==
    ASSUME NEW g \in [Block -> Terminators], NEW b \in Block
    PROVE  /\ DOMAIN g[b] \subseteq 1 .. 2
           /\ \A i \in DOMAIN g[b] : g[b][i] \in Block
<1>1. g[b] \in Terminators
  OBVIOUS
<1> QED BY <1>1 DEF Terminators

--------------------------------------------------------------------------------
\* Among subsets of a finite set there is a smallest: loops end.
SomeSmallest(S) ==
    \A T \in SUBSET SUBSET S :
        T # {} => \E t \in T : \A u \in T : u \subseteq t => u = t

LEMMA FiniteSmallest ==
    ASSUME NEW S, IsFiniteSet(S)
    PROVE  SomeSmallest(S)
<1> SUFFICES ASSUME NEW T \in SUBSET SUBSET S, T # {}
             PROVE  \E t \in T : \A u \in T : u \subseteq t => u = t
  BY DEF SomeSmallest
<1>1. IsWellFoundedOn(StrictSubsetOrdering(S), FiniteSubsetsOf(S))
  BY FS_StrictSubsetOrderingWellFounded
<1>2. T \subseteq FiniteSubsetsOf(S)
  BY FS_FiniteSubsetsOfFinite
<1>3. PICK t \in T : \A u \in T : ~ (<<u, t>> \in StrictSubsetOrdering(S))
  <2> HIDE DEF SomeSmallest
  <2> QED BY <1>1, <1>2, WFMin
<1> QED BY <1>3 DEF StrictSubsetOrdering

--------------------------------------------------------------------------------
StoreFields ==
    {"freshBinderId", "freshRefinementId", "freshConstraintId", "binderNameMapping",
     "futureBindersMapping", "wellFormednessConstraintsMapping", "constraintNameMapping"}

\* No binder and no constraint of store s is lost or changed in t.
Grown(s, t) ==
    /\ DOMAIN t = StoreFields
    /\ \A n \in Bound(s) :
          n \in Bound(t) /\ t.binderNameMapping[n] = s.binderNameMapping[n]
    /\ \A c \in DOMAIN s.constraintNameMapping :
          /\ c \in DOMAIN t.constraintNameMapping
          /\ t.constraintNameMapping[c] = s.constraintNameMapping[c]

\* The names that have an id.  Only a call that fails takes one back.
Known(s) == Bound(s) \cup Promised(s)

LEMMA GrownReflexive ==
    ASSUME NEW s, DOMAIN s = StoreFields
    PROVE  Grown(s, s)
BY DEF Grown

LEMMA GrownTransitive ==
    ASSUME NEW s, NEW t, NEW u, Grown(s, t), Grown(t, u)
    PROVE  Grown(s, u)
BY DEF Grown

\* The ids that names have, and those that constraints mention.
Ids(s) ==
    {s.binderNameMapping[n].id : n \in Bound(s)} \cup
    {s.futureBindersMapping[n].id : n \in Promised(s)}

MentionedIn(constraints) == UNION {constraints[c].env : c \in DOMAIN constraints}

Mentioned(s) ==
    MentionedIn(s.constraintNameMapping) \cup MentionedIn(s.wellFormednessConstraintsMapping)

Live(s) == Mentioned(s) \subseteq Ids(s)

\* From store s to t no promise was made, and no id that is mentioned was lost.
Settles(s, t) ==
    /\ Promised(t) \subseteq Promised(s)
    /\ Live(s) => Live(t)

\* From store s to t a name got its binder, and with it id i.
LEMMA BinderIdentified ==
    ASSUME NEW s, NEW t, NEW name, NEW binder, name \notin Bound(s),
           t.binderNameMapping = Put(s.binderNameMapping, name, binder),
           t.futureBindersMapping = s.futureBindersMapping
    PROVE  Ids(s) \cup {binder.id} \subseteq Ids(t)
<1> DEFINE b == s.binderNameMapping
<1>1. /\ DOMAIN Put(b, name, binder) = DOMAIN b \cup {name}
      /\ Put(b, name, binder)[name] = binder
      /\ \A n \in DOMAIN b : n # name => Put(b, name, binder)[n] = b[n]
  <2> HIDE DEF b
  <2> QED BY DEF Put
<1>2. /\ Bound(t) = Bound(s) \cup {name}
      /\ t.binderNameMapping[name] = binder
      /\ \A n \in Bound(s) : t.binderNameMapping[n] = s.binderNameMapping[n]
  BY <1>1 DEF Bound
<1>3. ASSUME NEW i \in Ids(s)  PROVE i \in Ids(t)
  <2>1. CASE \E n \in Bound(s) : i = s.binderNameMapping[n].id
    BY <1>2, <2>1 DEF Ids
  <2>2. CASE \E n \in Promised(s) : i = s.futureBindersMapping[n].id
    BY <2>2 DEF Ids, Promised
  <2> QED BY <1>3, <2>1, <2>2 DEF Ids
<1>4. binder.id \in Ids(t)
  BY <1>2 DEF Ids
<1> QED BY <1>3, <1>4

\* The ids that a constraint mentions are those of the names in its scope.
LEMMA EnvironmentIdentified ==
    ASSUME NEW s, NEW names, EnvironmentFound(s, names)
    PROVE  getEnvironmentBinderIds(s, names) \subseteq Ids(s)
BY DEF EnvironmentFound, getEnvironmentBinderIds, Ids

LEMMA EntryMentioned ==
    ASSUME NEW m, NEW key, NEW entry
    PROVE  MentionedIn(Put(m, key, entry)) \subseteq MentionedIn(m) \cup entry.env
<1>1. /\ DOMAIN Put(m, key, entry) = DOMAIN m \cup {key}
      /\ Put(m, key, entry)[key] = entry
      /\ \A c \in DOMAIN m : c # key => Put(m, key, entry)[c] = m[c]
  BY DEF Put
<1> QED BY <1>1 DEF MentionedIn

LEMMA SettlesReflexive ==
    ASSUME NEW s
    PROVE  Settles(s, s)
BY DEF Settles

LEMMA SettlesTransitive ==
    ASSUME NEW s, NEW t, NEW u, Settles(s, t), Settles(t, u)
    PROVE  Settles(s, u)
BY DEF Settles

LEMMA BinderValidated ==
    ASSUME NEW s, DOMAIN s = StoreFields, NEW name, NEW type
    PROVE  LET valid == validateBinder(s, name, type)
           IN  valid.ok =>
                 /\ name \notin Bound(s)
                 /\ DOMAIN valid.store = StoreFields
                 /\ valid.store.binderNameMapping = s.binderNameMapping
                 /\ valid.store.constraintNameMapping = s.constraintNameMapping
                 /\ valid.store.wellFormednessConstraintsMapping =
                        s.wellFormednessConstraintsMapping
                 /\ Promised(valid.store) = Promised(s) \ {name}
<1> CASE name \in Bound(s) \/ ~isFutureBinderTypeValidIfExists(s, name, type)
  BY DEF validateBinder
<1> CASE name \notin Bound(s) /\ isFutureBinderTypeValidIfExists(s, name, type) /\ name \in Promised(s)
  BY DEF validateBinder, StoreFields, Promised, Restrict
<1> CASE name \notin Bound(s) /\ isFutureBinderTypeValidIfExists(s, name, type) /\ name \notin Promised(s)
  BY DEF validateBinder, StoreFields, Promised
<1> QED OBVIOUS

\* The id promised for the name is the one that its binder takes over.
LEMMA BinderKeepsIds ==
    ASSUME NEW s, DOMAIN s = StoreFields, NEW name, NEW type
    PROVE  LET valid == validateBinder(s, name, type)
           IN  valid.ok => Ids(s) \subseteq Ids(valid.store) \cup {valid.id}
<1> DEFINE valid == validateBinder(s, name, type)
           v == valid.store
           futures == s.futureBindersMapping
<1>1. CASE name \in Bound(s) \/ ~isFutureBinderTypeValidIfExists(s, name, type)
  BY <1>1 DEF validateBinder
<1>2. CASE name \notin Bound(s) /\ isFutureBinderTypeValidIfExists(s, name, type)
           /\ name \in Promised(s)
  <2>1. /\ valid.id = futures[name].id
        /\ v = [s EXCEPT !.futureBindersMapping = Restrict(futures, DOMAIN futures \ {name})]
    BY <1>2 DEF validateBinder
  <2>2. /\ v.binderNameMapping = s.binderNameMapping
        /\ v.futureBindersMapping = Restrict(futures, DOMAIN futures \ {name})
    BY <2>1 DEF StoreFields
  <2>3. /\ Bound(v) = Bound(s) /\ \A n \in Bound(s) : v.binderNameMapping[n] = s.binderNameMapping[n]
        /\ Promised(v) = Promised(s) \ {name}
        /\ \A n \in Promised(v) : v.futureBindersMapping[n] = futures[n]
    <3> HIDE DEF v
    <3>1. Bound(v) = Bound(s) /\ \A n \in Bound(s) : v.binderNameMapping[n] = s.binderNameMapping[n]
      BY <2>2 DEF Bound
    <3>2. /\ DOMAIN v.futureBindersMapping = DOMAIN futures \ {name}
          /\ \A n \in DOMAIN futures \ {name} : v.futureBindersMapping[n] = futures[n]
      <4> HIDE DEF futures
      <4> QED BY <2>2 DEF Restrict
    <3> QED BY <3>1, <3>2 DEF Promised
  <2>4. Ids(s) \subseteq Ids(v) \cup {valid.id}
    <3> SUFFICES ASSUME NEW i \in Ids(s)  PROVE i \in Ids(v) \cup {valid.id}
      OBVIOUS
    <3> HIDE DEF v, valid, futures
    <3>1. CASE \E n \in Bound(s) : i = s.binderNameMapping[n].id
      BY <2>3, <3>1 DEF Ids
    <3>2. CASE \E n \in Promised(s) : i = futures[n].id
      BY <2>1, <2>3, <3>2 DEF Ids
    <3> QED BY <3>1, <3>2 DEF Ids, futures
  <2> QED BY <2>4
<1>3. CASE name \notin Bound(s) /\ isFutureBinderTypeValidIfExists(s, name, type)
           /\ name \notin Promised(s)
  <2>1. v = [s EXCEPT !.freshBinderId = @ + 1]
    BY <1>3 DEF validateBinder
  <2>2. v.binderNameMapping = s.binderNameMapping /\ v.futureBindersMapping = futures
    BY <2>1 DEF StoreFields
  <2>3. Ids(v) = Ids(s)
    BY <2>2 DEF Ids, Bound, Promised
  <2> QED BY <2>3
<1> QED BY <1>1, <1>2, <1>3

\* The result r of creating a binder with a given refinement in store s.
BinderMade(s, r, name, qualifiers) ==
    /\ Grown(s, r.store)
    /\ Bound(r.store) \subseteq Bound(s) \cup {name}
    /\ r.ok => /\ Known(s) \cup {name} \subseteq Known(r.store)
               /\ name \in Bound(r.store)
               /\ r.store.binderNameMapping[name].qualifiers = qualifiers
               /\ Settles(s, r.store)
               /\ name \notin Promised(r.store)
               /\ Mentioned(r.store) = Mentioned(s)

LEMMA ConstrainedBinderCreated ==
    ASSUME NEW s, DOMAIN s = StoreFields, NEW name, NEW type, NEW qualifiers
    PROVE  BinderMade(s, CreateBinderWithConstraints(s, name, type, qualifiers), name, qualifiers)
<1> DEFINE valid == validateBinder(s, name, type)
           v == valid.store
           binder == [id |-> valid.id, type |-> type, qualifiers |-> qualifiers]
           r == CreateBinderWithConstraints(s, name, type, qualifiers)
<1>1. CASE ~valid.ok
  <2>1. r.store = s /\ r.ok = FALSE
    BY <1>1 DEF CreateBinderWithConstraints, Error
  <2> QED BY <2>1, GrownReflexive DEF BinderMade
<1>2. CASE valid.ok
  <2> DEFINE bound == Put(v.binderNameMapping, name, binder)
  <2>1. /\ name \notin Bound(s)
        /\ DOMAIN v = StoreFields
        /\ v.binderNameMapping = s.binderNameMapping
        /\ v.constraintNameMapping = s.constraintNameMapping
        /\ v.wellFormednessConstraintsMapping = s.wellFormednessConstraintsMapping
        /\ Promised(v) = Promised(s) \ {name}
    BY <1>2, BinderValidated
  <2>2. r.store = [v EXCEPT !.binderNameMapping = bound]
    BY <1>2 DEF CreateBinderWithConstraints, Success
  <2>7. binder.id = valid.id
    OBVIOUS
  <2>8. Ids(s) \subseteq Ids(v) \cup {valid.id}
    BY <1>2, BinderKeepsIds
  <2> HIDE DEF r, v, bound, binder
  <2>3. /\ DOMAIN r.store = StoreFields
        /\ r.store.binderNameMapping = bound
        /\ r.store.constraintNameMapping = s.constraintNameMapping
        /\ r.store.wellFormednessConstraintsMapping = s.wellFormednessConstraintsMapping
        /\ r.store.futureBindersMapping = v.futureBindersMapping
        /\ Promised(r.store) = Promised(s) \ {name}
    BY <2>1, <2>2 DEF StoreFields, Promised
  <2>9. Settles(s, r.store) /\ Mentioned(r.store) = Mentioned(s)
    <3>1. Ids(v) \cup {binder.id} \subseteq Ids(r.store)
      BY <2>1, <2>3, BinderIdentified DEF bound, Bound
    <3>2. Mentioned(r.store) = Mentioned(s)
      BY <2>3 DEF Mentioned
    <3> QED BY <2>3, <2>7, <2>8, <3>1, <3>2 DEF Settles, Live
  <2>0. /\ DOMAIN bound = DOMAIN v.binderNameMapping \cup {name}
        /\ bound[name] = binder
        /\ \A n \in DOMAIN v.binderNameMapping : n # name => bound[n] = v.binderNameMapping[n]
    BY SMT DEF bound, Put
  <2>4. /\ DOMAIN bound = Bound(s) \cup {name}
        /\ bound[name] = binder
        /\ \A n \in Bound(s) : bound[n] = s.binderNameMapping[n]
    BY <2>1, <2>0 DEF Bound
  <2>5. binder.qualifiers = qualifiers
    BY DEF binder
  <2>6. Grown(s, r.store)
    BY <2>3, <2>4 DEF Grown, Bound
  <2> QED BY <2>3, <2>4, <2>5, <2>6, <2>9 DEF Bound, Known, BinderMade, r
<1> QED BY <1>1, <1>2

\* A binder whose refinement the solver finds.  When one of the names is not
\* known the call fails, and has taken back the promise for its own name.
LEMMA UnknownBinderCreated ==
    ASSUME NEW s, DOMAIN s = StoreFields, NEW name, NEW type, NEW names
    PROVE  LET r == CreateBinderWithUnknownType(s, name, type, names)
           IN  /\ Grown(s, r.store)
               /\ Bound(r.store) \subseteq Bound(s) \cup {name}
               /\ r.ok => /\ Known(s) \cup {name} \subseteq Known(r.store)
                          /\ name \in Bound(r.store)
                          /\ Settles(s, r.store)
                          /\ name \notin Promised(r.store)
<1> DEFINE valid == validateBinder(s, name, type)
           v == valid.store
           binder == [id |-> valid.id, type |-> type, qualifiers |-> {Kvar(v.freshRefinementId)}]
           r == CreateBinderWithUnknownType(s, name, type, names)
<1>1. CASE name \in DOMAIN s.wellFormednessConstraintsMapping \/ ~valid.ok
  <2>1. r.store = s /\ r.ok = FALSE
    BY <1>1 DEF CreateBinderWithUnknownType, Error
  <2> QED BY <2>1, GrownReflexive
<1>2. CASE name \notin DOMAIN s.wellFormednessConstraintsMapping /\ valid.ok
  <2> DEFINE bound == Put(v.binderNameMapping, name, binder)
             wellFormed == Put(v.wellFormednessConstraintsMapping, name,
                               [id |-> v.freshRefinementId, type |-> type,
                                env |-> getEnvironmentBinderIds(v, names)])
  <2>1. /\ name \notin Bound(s)
        /\ DOMAIN v = StoreFields
        /\ v.binderNameMapping = s.binderNameMapping
        /\ v.constraintNameMapping = s.constraintNameMapping
        /\ v.wellFormednessConstraintsMapping = s.wellFormednessConstraintsMapping
        /\ Promised(v) = Promised(s) \ {name}
    BY <1>2, BinderValidated
  <2>4. Ids(s) \subseteq Ids(v) \cup {valid.id}
    BY <1>2, BinderKeepsIds
  <2>2. CASE ~EnvironmentFound(v, names)
    <3>1. r.store = v /\ r.ok = FALSE
      BY <1>2, <2>2 DEF CreateBinderWithUnknownType, Error
    <3> QED BY <2>1, <3>1 DEF Grown, Bound
  <2>3. CASE EnvironmentFound(v, names)
    <3>1. r.store = [v EXCEPT !.freshRefinementId = @ + 1,
                              !.wellFormednessConstraintsMapping = wellFormed,
                              !.binderNameMapping = bound]
      BY <1>2, <2>3 DEF CreateBinderWithUnknownType, Success
    <3> DEFINE entry == [id |-> v.freshRefinementId, type |-> type,
                         env |-> getEnvironmentBinderIds(v, names)]
    <3>5. binder.id = valid.id /\ entry.env \subseteq Ids(v)
      <4> HIDE DEF v
      <4> QED BY <2>3, EnvironmentIdentified
    <3>6. wellFormed = Put(v.wellFormednessConstraintsMapping, name, entry)
      OBVIOUS
    <3> HIDE DEF r, v, bound, binder, wellFormed, entry
    <3>2. /\ DOMAIN r.store = StoreFields
          /\ r.store.binderNameMapping = bound
          /\ r.store.constraintNameMapping = s.constraintNameMapping
          /\ r.store.wellFormednessConstraintsMapping = wellFormed
          /\ r.store.futureBindersMapping = v.futureBindersMapping
          /\ Promised(r.store) = Promised(s) \ {name}
      BY <2>1, <3>1 DEF StoreFields, Promised
    <3>0. /\ DOMAIN bound = DOMAIN v.binderNameMapping \cup {name}
          /\ \A n \in DOMAIN v.binderNameMapping : n # name => bound[n] = v.binderNameMapping[n]
      BY SMT DEF bound, Put
    <3>3. /\ DOMAIN bound = Bound(s) \cup {name}
          /\ \A n \in Bound(s) : bound[n] = s.binderNameMapping[n]
      BY <2>1, <3>0 DEF Bound
    <3>4. Grown(s, r.store)
      BY <3>2, <3>3 DEF Grown, Bound
    <3>7. Settles(s, r.store)
      <4>1. Ids(v) \cup {binder.id} \subseteq Ids(r.store)
        BY <2>1, <3>2, BinderIdentified DEF bound, Bound
      <4>2. Mentioned(r.store) \subseteq Mentioned(s) \cup entry.env
        BY <2>1, <3>2, <3>6, EntryMentioned DEF Mentioned
      <4> QED BY <2>4, <3>2, <3>5, <4>1, <4>2 DEF Settles, Live
    <3> QED BY <3>2, <3>3, <3>4, <3>7 DEF Bound, Known, r
  <2> QED BY <2>2, <2>3
<1> QED BY <1>1, <1>2

LEMMA FutureBinderCreated ==
    ASSUME NEW s, DOMAIN s = StoreFields, NEW name, NEW type
    PROVE  LET r == CreateFutureBinder(s, name, type)
           IN  /\ Grown(s, r.store)
               /\ Bound(r.store) = Bound(s)
               /\ r.ok => /\ Known(s) \cup {name} \subseteq Known(r.store)
                          /\ Promised(r.store) = Promised(s) \cup {name}
                          /\ Mentioned(r.store) = Mentioned(s)
                          /\ name \notin Promised(s) /\ Live(s) => Live(r.store)
<1> DEFINE r == CreateFutureBinder(s, name, type)
           promised == Put(s.futureBindersMapping, name, [id |-> s.freshBinderId, type |-> type])
<1>1. CASE ~isFutureBinderTypeValidIfExists(s, name, type)
  <2>1. r.store = s /\ r.ok = FALSE
    BY <1>1 DEF CreateFutureBinder, Error
  <2> QED BY <2>1, GrownReflexive
<1>2. CASE isFutureBinderTypeValidIfExists(s, name, type)
  <2>1. r.store = [s EXCEPT !.freshBinderId = @ + 1, !.futureBindersMapping = promised]
    BY <1>2 DEF CreateFutureBinder, Success
  <2>2. /\ DOMAIN promised = Promised(s) \cup {name}
        /\ \A n \in Promised(s) : n # name => promised[n] = s.futureBindersMapping[n]
    BY DEF Promised, Put
  <2> HIDE DEF r, promised
  <2>3. /\ DOMAIN r.store = StoreFields
        /\ r.store.binderNameMapping = s.binderNameMapping
        /\ r.store.constraintNameMapping = s.constraintNameMapping
        /\ r.store.wellFormednessConstraintsMapping = s.wellFormednessConstraintsMapping
        /\ r.store.futureBindersMapping = promised
        /\ Promised(r.store) = Promised(s) \cup {name}
    BY <2>1, <2>2 DEF StoreFields, Promised
  <2>4. Mentioned(r.store) = Mentioned(s)
    BY <2>3 DEF Mentioned
  <2>5. ASSUME name \notin Promised(s)  PROVE Ids(s) \subseteq Ids(r.store)
    BY <2>2, <2>3, <2>5 DEF Ids, Bound
  <2> QED BY <2>3, <2>4, <2>5 DEF Live, Grown, Bound, Known, r
<1> QED BY <1>1, <1>2

\* A constraint; its name is new, or the call fails.
LEMMA ConstraintAdded ==
    ASSUME NEW s, DOMAIN s = StoreFields, NEW constraintName, NEW type, NEW constraints,
           NEW assignedExpression, NEW names
    PROVE  LET r == AddConstraint(s, constraintName, type, constraints, assignedExpression, names)
               added == r.store.constraintNameMapping
           IN  /\ Grown(s, r.store)
               /\ Bound(r.store) = Bound(s)
               /\ r.ok => /\ Known(s) \subseteq Known(r.store)
                          /\ constraintName \in DOMAIN added
                          /\ added[constraintName].qualifiers = assignedExpression
                          /\ added[constraintName].targetQualifiers = constraints
                          /\ added[constraintName].env = getEnvironmentBinderIds(s, names)
                          /\ Settles(s, r.store)
<1> DEFINE r == AddConstraint(s, constraintName, type, constraints, assignedExpression, names)
           t == [s EXCEPT !.freshConstraintId = @ + 1]
           constraint == [id |-> s.freshConstraintId, type |-> type,
                          qualifiers |-> assignedExpression, targetQualifiers |-> constraints,
                          env |-> getEnvironmentBinderIds(s, names)]
           added == Put(t.constraintNameMapping, constraintName, constraint)
<1>0. /\ DOMAIN t = StoreFields
      /\ t.binderNameMapping = s.binderNameMapping
      /\ t.constraintNameMapping = s.constraintNameMapping
      /\ t.wellFormednessConstraintsMapping = s.wellFormednessConstraintsMapping
      /\ t.futureBindersMapping = s.futureBindersMapping
      /\ Promised(t) = Promised(s)
  BY DEF StoreFields, Promised
<1>1. CASE constraintName \in DOMAIN s.constraintNameMapping
  <2>1. r.store = s /\ r.ok = FALSE
    BY <1>1 DEF AddConstraint, Error
  <2> QED BY <2>1, GrownReflexive
<1>2. CASE constraintName \notin DOMAIN s.constraintNameMapping /\ ~EnvironmentFound(s, names)
  <2>1. r.store = t /\ r.ok = FALSE
    BY <1>2 DEF AddConstraint, Error
  <2> HIDE DEF r, t
  <2> QED BY <1>0, <2>1 DEF Grown, Bound, r
<1>3. CASE constraintName \notin DOMAIN s.constraintNameMapping /\ EnvironmentFound(s, names)
  <2>1. r.store = [t EXCEPT !.constraintNameMapping = added]
    BY <1>3 DEF AddConstraint, Success
  <2>2. /\ constraint.qualifiers = assignedExpression
        /\ constraint.targetQualifiers = constraints
        /\ constraint.env = getEnvironmentBinderIds(s, names)
        /\ constraint.env \subseteq Ids(s)
    BY <1>3, EnvironmentIdentified
  <2> HIDE DEF r, t, constraint
  <2>0. /\ DOMAIN added = DOMAIN t.constraintNameMapping \cup {constraintName}
        /\ added[constraintName] = constraint
        /\ \A c \in DOMAIN t.constraintNameMapping :
              c # constraintName => added[c] = t.constraintNameMapping[c]
    BY SMT DEF Put
  <2> HIDE DEF added
  <2>3. /\ DOMAIN added = DOMAIN s.constraintNameMapping \cup {constraintName}
        /\ added[constraintName] = constraint
        /\ \A c \in DOMAIN s.constraintNameMapping : added[c] = s.constraintNameMapping[c]
    BY <1>0, <1>3, <2>0
  <2>4. /\ DOMAIN r.store = StoreFields
        /\ r.store.binderNameMapping = s.binderNameMapping
        /\ r.store.constraintNameMapping = added
        /\ r.store.wellFormednessConstraintsMapping = s.wellFormednessConstraintsMapping
        /\ r.store.futureBindersMapping = s.futureBindersMapping
        /\ Promised(r.store) = Promised(s)
    BY <1>0, <2>1 DEF StoreFields, Promised
  <2>5. Settles(s, r.store)
    <3>1. Ids(r.store) = Ids(s)
      BY <2>4 DEF Ids, Bound, Promised
    <3>2. Mentioned(r.store) \subseteq Mentioned(s) \cup constraint.env
      BY <1>0, <2>4, EntryMentioned DEF Mentioned, added
    <3> QED BY <2>2, <2>4, <3>1, <3>2 DEF Settles, Live
  <2> QED BY <2>2, <2>3, <2>4, <2>5 DEF Grown, Bound, Known, r
<1> QED BY <1>1, <1>2, <1>3

LEMMA AssignmentConstraintAdded ==
    ASSUME NEW s, DOMAIN s = StoreFields, NEW constraintName, NEW target,
           NEW assignedExpression, NEW names
    PROVE  LET r == AddConstraintForAssignment(s, constraintName, target, assignedExpression, names)
               added == r.store.constraintNameMapping
           IN  /\ Grown(s, r.store)
               /\ Bound(r.store) = Bound(s)
               /\ r.ok => /\ Known(s) \subseteq Known(r.store)
                          /\ constraintName \in DOMAIN added
                          /\ added[constraintName].qualifiers = assignedExpression
                          /\ Settles(s, r.store)
<1>1. CASE target \notin Bound(s)
  BY <1>1, GrownReflexive DEF AddConstraintForAssignment, Error
<1>2. CASE target \in Bound(s)
  BY <1>2, ConstraintAdded DEF AddConstraintForAssignment
<1> QED BY <1>1, <1>2
--------------------------------------------------------------------------------
EnvironmentFields ==
    {"currentBlockName", "variableTypes", "mutableVariableState", "variablesMappingsPerBlock",
     "variablesValuesPerBlock", "finishedBlocks", "phiNodeObligations", "outputVariables",
     "mutableVariables", "mutableVariableConstraints", "store"}

Shape(e) == DOMAIN e = EnvironmentFields /\ DOMAIN e.store = StoreFields

\* Equal in everything but the fields in F.
SameBut(e, d, F) ==
    /\ DOMAIN d = EnvironmentFields
    /\ \A f \in EnvironmentFields \ F : d[f] = e[f]

LEMMA EmptyShape == Shape(EmptyEnvironment)
BY DEF Shape, EmptyEnvironment, EmptyStore, EnvironmentFields, StoreFields

LEMMA BuildFields ==
    ASSUME NEW e, Shape(e), NEW result
    PROVE  LET r == Build(e, result)
           IN  /\ r.ok = result.ok
               /\ SameBut(e, r.env, {"store"})
               /\ r.env.store = result.store
BY DEF Shape, SameBut, Build, EnvironmentFields

\* State d is e with variable mapped to name in block b.
MappedIn(e, d, b, variable, name) ==
    /\ SameBut(e, d, {"variablesMappingsPerBlock", "variablesValuesPerBlock"})
    /\ d.variablesValuesPerBlock = [e.variablesValuesPerBlock EXCEPT ![b] = @ \cup {name}]
    /\ DOMAIN d.variablesMappingsPerBlock = DOMAIN e.variablesMappingsPerBlock \cup {b}
    /\ Mapping(d, b) = Put(Mapping(e, b), variable, name)
    /\ \A c : c # b => Mapping(d, c) = Mapping(e, c)

LEMMA MapInFields ==
    ASSUME NEW e, Shape(e), NEW b, NEW variable, NEW name
    PROVE  MappedIn(e, MapIn(e, b, variable, name), b, variable, name)
<1> DEFINE d == MapIn(e, b, variable, name)
           mapping == Put(Mapping(e, b), variable, name)
           mappings == Put(e.variablesMappingsPerBlock, b, mapping)
<1>1. d = [e EXCEPT !.variablesMappingsPerBlock = mappings,
                    !.variablesValuesPerBlock =
                        [e.variablesValuesPerBlock EXCEPT ![b] = @ \cup {name}]]
  BY DEF MapIn, Shape, EnvironmentFields
<1> HIDE DEF MappedIn, d, mapping
<1>2. /\ DOMAIN mappings = DOMAIN e.variablesMappingsPerBlock \cup {b}
      /\ mappings[b] = mapping
      /\ \A c \in DOMAIN e.variablesMappingsPerBlock : c # b => mappings[c] = e.variablesMappingsPerBlock[c]
  BY DEF Put
<1> HIDE DEF mappings
<1>3. /\ SameBut(e, d, {"variablesMappingsPerBlock", "variablesValuesPerBlock"})
      /\ d.variablesValuesPerBlock = [e.variablesValuesPerBlock EXCEPT ![b] = @ \cup {name}]
      /\ d.variablesMappingsPerBlock = mappings
  BY <1>1 DEF SameBut, Shape, EnvironmentFields
<1>4. /\ Mapping(d, b) = mapping
      /\ \A c : c # b => Mapping(d, c) = Mapping(e, c)
  BY <1>2, <1>3 DEF Mapping
<1> QED BY <1>2, <1>3, <1>4 DEF MappedIn, d, mapping

LEMMA SetTypeFields ==
    ASSUME NEW e, Shape(e), NEW variable, NEW type
    PROVE  LET d == SetType(e, variable, type)
           IN  /\ SameBut(e, d, {"variableTypes"})
               /\ DOMAIN d.variableTypes = DOMAIN e.variableTypes \cup {variable}
BY DEF Shape, SameBut, SetType, EnvironmentFields, Put

LEMMA CountVersionFields ==
    ASSUME NEW e, Shape(e), NEW v
    PROVE  LET d == CountVersion(e, v)
           IN  /\ SameBut(e, d, {"mutableVariableState"})
               /\ d.mutableVariableState = [e.mutableVariableState EXCEPT ![v] = @ + 1]
BY DEF Shape, SameBut, CountVersion, EnvironmentFields
================================================================================
