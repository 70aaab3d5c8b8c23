----------------------------- MODULE LoopTheorems -----------------------------
(***************************************************************************)
(* What holds after a loop over a finite set that stops at the first       *)
(* error: the loops of EnvironmentStore (ForEach), one iteration of which  *)
(* takes the environment and an element to a result.  A module that        *)
(* reasons about such a loop gives its iteration and its invariant in an   *)
(* INSTANCE of this one.                                                   *)
(*                                                                         *)
(* The loop is a function on the subsets of the set, defined by recursion. *)
(* That there is such a function, and what holds of its values, is shown   *)
(* by looking at a smallest subset for which it does not.                  *)
(***************************************************************************)
EXTENDS TLAPS

CONSTANTS
    Iteration(_, _, _),     \* the result for a context, an environment and an element
    Invariant(_, _, _)      \* of a context, the elements done and the result so far

Element(s) == CHOOSE x \in s : TRUE

\* The result for the elements of s, from the results f for fewer elements.
Step(k, r, f, s) ==
    IF s = {} THEN r
    ELSE IF f[s \ {Element(s)}].ok
    THEN Iteration(k, f[s \ {Element(s)}].env, Element(s))
    ELSE f[s \ {Element(s)}]

\* The results for all subsets of S, from the result r for none.
Results(k, S, r) ==
    CHOOSE f : f = [s \in SUBSET S |->
        IF s = {} THEN r
        ELSE LET x == CHOOSE x \in s : TRUE
             IN  IF f[s \ {x}].ok THEN Iteration(k, f[s \ {x}].env, x) ELSE f[s \ {x}]]

\* As it is for finite S, there is a smallest among any subsets of S.
Inductive(S) ==
    \A T \in SUBSET SUBSET S :
        T # {} => \E t \in T : \A u \in T : u \subseteq t => u = t

Follows(k, r, f, S) == f = [s \in SUBSET S |-> Step(k, r, f, s)]

LEMMA ElementIn == ASSUME NEW s, s # {}  PROVE Element(s) \in s
BY DEF Element

LEMMA StepUses ==
    ASSUME NEW k, NEW r, NEW f, NEW g, NEW s,
           s # {} => f[s \ {Element(s)}] = g[s \ {Element(s)}]
    PROVE  Step(k, r, f, s) = Step(k, r, g, s)
BY DEF Step

\* Functions that follow the loop agree where both are defined.
LEMMA FollowersAgree ==
    ASSUME NEW k, NEW r, NEW S, Inductive(S),
           NEW t \in SUBSET S, NEW f, Follows(k, r, f, t),
           NEW u \in SUBSET S, NEW g, Follows(k, r, g, u),
           NEW s \in SUBSET t, s \in SUBSET u
    PROVE  f[s] = g[s]
<1> DEFINE D == {d \in SUBSET S : d \subseteq t /\ d \subseteq u /\ f[d] # g[d]}
<1> SUFFICES ASSUME D # {}  PROVE FALSE
  OBVIOUS
<1>1. PICK d \in D : \A c \in D : c \subseteq d => c = d
  <2>1. D \in SUBSET SUBSET S
    OBVIOUS
  <2> QED BY <2>1 DEF Inductive
<1>2. f[d] = Step(k, r, f, d) /\ g[d] = Step(k, r, g, d)
  BY DEF Follows
<1>3. ASSUME d # {}  PROVE f[d \ {Element(d)}] = g[d \ {Element(d)}]
  <2>1. Element(d) \in d
    BY <1>3, ElementIn
  <2>2. /\ d \ {Element(d)} \subseteq d /\ d \ {Element(d)} # d
        /\ d \ {Element(d)} \subseteq t /\ d \ {Element(d)} \subseteq u
    BY <2>1
  <2> QED BY <1>1, <2>2
<1>4. Step(k, r, f, d) = Step(k, r, g, d)
  BY <1>3, StepUses
<1> QED BY <1>2, <1>4

LEMMA FollowerExists ==
    ASSUME NEW k, NEW r, NEW S, Inductive(S)
    PROVE  \E f : Follows(k, r, f, S)
<1> DEFINE Missing == {t \in SUBSET S : ~ \E f : Follows(k, r, f, t)}
<1> SUFFICES ASSUME Missing # {}  PROVE FALSE
  OBVIOUS
<1>1. PICK t \in Missing : \A c \in Missing : c \subseteq t => c = t
  <2>1. Missing \in SUBSET SUBSET S
    OBVIOUS
  <2> QED BY <2>1 DEF Inductive
<1> DEFINE F(u) == CHOOSE f : Follows(k, r, f, u)
           last == [u \in SUBSET t |-> F(u)[u]]
           all == [u \in SUBSET t |-> Step(k, r, last, u)]
<1>2. ASSUME NEW u \in SUBSET t, u # t  PROVE Follows(k, r, F(u), u)
  <2>1. \E f : Follows(k, r, f, u)
    BY <1>1, <1>2
  <2> QED BY <2>1
<1> HIDE DEF F
<1>3. ASSUME NEW u \in SUBSET t, u # t  PROVE last[u] = all[u]
  <2>1. last[u] = F(u)[u]
    OBVIOUS
  <2>2. F(u)[u] = Step(k, r, F(u), u)
    BY <1>2, <1>3 DEF Follows
  <2>3. ASSUME u # {}  PROVE F(u)[u \ {Element(u)}] = last[u \ {Element(u)}]
    <3> DEFINE c == u \ {Element(u)}
    <3>1. Element(u) \in u
      BY <2>3, ElementIn
    <3>2. c \subseteq u /\ c # t /\ c \in SUBSET t /\ c \in SUBSET S /\ u \in SUBSET S
      BY <3>1
    <3>3. Follows(k, r, F(c), c) /\ Follows(k, r, F(u), u)
      BY <1>2, <1>3, <3>2
    <3>4. F(u)[c] = F(c)[c]
      <4> HIDE DEF c
      <4> QED BY <3>2, <3>3, FollowersAgree
    <3> QED BY <3>2, <3>4
  <2>4. Step(k, r, F(u), u) = Step(k, r, last, u)
    <3> HIDE DEF last
    <3> QED BY <2>3, StepUses
  <2> QED BY <2>1, <2>2, <2>4
<1>4. ASSUME NEW u \in SUBSET t  PROVE Step(k, r, last, u) = Step(k, r, all, u)
  <2>1. ASSUME u # {}  PROVE last[u \ {Element(u)}] = all[u \ {Element(u)}]
    <3>1. Element(u) \in u
      BY <2>1, ElementIn
    <3>2. u \ {Element(u)} \in SUBSET t /\ u \ {Element(u)} # t
      BY <3>1
    <3> HIDE DEF last, all
    <3> QED BY <3>2, <1>3
  <2> HIDE DEF last, all
  <2> QED BY <2>1, StepUses
<1>5. Follows(k, r, all, t)
  <2>1. all = [u \in SUBSET t |-> Step(k, r, all, u)]
    <3> DEFINE every == all
    <3>1. \A u \in SUBSET t : Step(k, r, last, u) = Step(k, r, every, u)
      BY <1>4
    <3>2. every = [u \in SUBSET t |-> Step(k, r, last, u)]
      OBVIOUS
    <3> HIDE DEF every, last
    <3>3. every = [u \in SUBSET t |-> Step(k, r, every, u)]
      BY <3>1, <3>2
    <3> QED BY <3>3 DEF every
  <2> QED BY <2>1 DEF Follows
<1> QED BY <1>1, <1>5

\* A loop over nothing leaves its first result.
LEMMA NothingDone ==
    ASSUME NEW k, NEW r
    PROVE  Results(k, {}, r)[{}] = r
<1> DEFINE f == Results(k, {}, r)
<1>1. Inductive({})
  <2> SUFFICES ASSUME NEW T \in SUBSET SUBSET {}, T # {}
               PROVE  \E t \in T : \A u \in T : u \subseteq t => u = t
    BY DEF Inductive
  <2>1. {} \in T
    OBVIOUS
  <2> QED BY <2>1
<1>2. f = CHOOSE g : Follows(k, r, g, {})
  BY DEF Results, Follows, Step, Element
<1>3. Follows(k, r, f, {})
  <2> HIDE DEF f
  <2> QED BY <1>1, <1>2, FollowerExists
<1> HIDE DEF f
<1>4. f[{}] = Step(k, r, f, {})
  BY <1>3 DEF Follows
<1> QED BY <1>4 DEF Step, f

\* The invariant of the loop: it holds before the first element, and each
\* iteration keeps it, whether the one before it succeeded or not.
THEOREM LoopInvariant ==
    ASSUME NEW k, NEW S, NEW r, Inductive(S),
           Invariant(k, {}, r),
           \A s \in SUBSET S : \A x \in s : \A q :
                Invariant(k, s \ {x}, q) =>
                    Invariant(k, s, IF q.ok THEN Iteration(k, q.env, x) ELSE q)
    PROVE  Invariant(k, S, Results(k, S, r)[S])
<1> DEFINE f == Results(k, S, r)
<1>1. f = [s \in SUBSET S |-> Step(k, r, f, s)]
  <2>1. f = CHOOSE g : Follows(k, r, g, S)
    BY DEF Results, Follows, Step, Element
  <2>2. Follows(k, r, f, S)
    <3> HIDE DEF f
    <3> QED BY <2>1, FollowerExists
  <2> QED BY <2>2 DEF Follows
<1> HIDE DEF f
<1> DEFINE D == {s \in SUBSET S : ~Invariant(k, s, f[s])}
<1> SUFFICES ASSUME D # {}  PROVE FALSE
  BY DEF f
<1>2. PICK s \in D : \A c \in D : c \subseteq s => c = s
  <2>1. D \in SUBSET SUBSET S
    OBVIOUS
  <2> QED BY <2>1 DEF Inductive
<1>3. f[s] = Step(k, r, f, s)
  BY <1>1
<1>4. s # {}
  BY <1>2, <1>3 DEF Step
<1> DEFINE x == Element(s)
<1>5. x \in s
  BY <1>4, ElementIn
<1>6. Invariant(k, s \ {x}, f[s \ {x}])
  BY <1>2, <1>5
<1>7. f[s] = IF f[s \ {x}].ok THEN Iteration(k, f[s \ {x}].env, x) ELSE f[s \ {x}]
  BY <1>3, <1>4 DEF Step
<1>8. Invariant(k, s, f[s])
  <2> HIDE DEF x
  <2> QED BY <1>5, <1>6, <1>7
<1> QED BY <1>2, <1>8
================================================================================
