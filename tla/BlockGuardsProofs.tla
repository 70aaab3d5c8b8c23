---------------------------- MODULE BlockGuardsProofs ----------------------------
(***************************************************************************)
(* The guards of blocks, for any graph and any stack: the recursion comes  *)
(* back to a block only on a cycle through several blocks, and whenever it *)
(* ends the guards are those of the executions that reach the blocks.      *)
(***************************************************************************)
EXTENDS BlockGuards, TLAPS

\* Reachability, by closed sets: a block reaches itself and what its successors are.
LEMMA ReachStep ==
    ASSUME NEW g \in [Block -> Seq(Block)], NEW b \in Block
    PROVE  /\ b \in Reach(g, b)
           /\ Reach(g, b) \subseteq Block
           /\ \A c \in Reach(g, b) : Successors(g, c) \subseteq Reach(g, b)
<1>1. ASSUME NEW c \in Block  PROVE Successors(g, c) \subseteq Block
  <2>1. g[c] \in Seq(Block)
    OBVIOUS
  <2> QED BY <2>1 DEF Successors
<1>2. ASSUME NEW c \in Reach(g, b), NEW d \in Successors(g, c)  PROVE d \in Reach(g, b)
  <2>1. c \in Block /\ d \in Block
    BY <1>1 DEF Reach
  <2>2. ASSUME NEW S \in SUBSET Block, b \in S, Closed(g, S)  PROVE d \in S
    <3>1. c \in S
      BY <2>2 DEF Reach
    <3> QED BY <3>1, <2>2 DEF Closed
  <2> QED BY <2>1, <2>2 DEF Reach
<1> QED BY <1>2 DEF Reach

\* Whatever closed set holds b holds all that b reaches.
LEMMA ReachLeast ==
    ASSUME NEW g, NEW b, NEW S \in SUBSET Block, b \in S, Closed(g, S)
    PROVE  Reach(g, b) \subseteq S
BY DEF Reach

LEMMA ReachTransitive ==
    ASSUME NEW g \in [Block -> Seq(Block)], NEW b \in Block, NEW c \in Reach(g, b)
    PROVE  Reach(g, c) \subseteq Reach(g, b)
<1>1. Reach(g, b) \in SUBSET Block /\ Closed(g, Reach(g, b))
  BY ReachStep DEF Closed
<1> QED BY <1>1, ReachLeast

\* A way to another block ends with an edge from a third.
LEMMA LastEdge ==
    ASSUME NEW g \in [Block -> Seq(Block)], NEW b \in Block, NEW c \in Reach(g, b), c # b
    PROVE  \E p \in Reach(g, b) : p # c /\ c \in Successors(g, p)
<1> SUFFICES ASSUME \A p \in Reach(g, b) : p = c \/ c \notin Successors(g, p)  PROVE FALSE
  OBVIOUS
<1> DEFINE S == Reach(g, b) \ {c}
<1>1. S \in SUBSET Block /\ b \in S
  BY ReachStep
<1>2. Closed(g, S)
  BY ReachStep DEF Closed
<1>3. Reach(g, b) \subseteq S
  BY <1>1, <1>2, ReachLeast
<1> QED BY <1>3

--------------------------------------------------------------------------------
\* An execution that takes more transitions visits more blocks.
LEMMA VisitedGrows ==
    ASSUME NEW T, NEW U, T \subseteq U
    PROVE  Visited(T) \subseteq Visited(U)
BY DEF Visited

LEMMA VisitedEdge ==
    ASSUME NEW T, NEW p \in Visited(T), NEW b \in Block
    PROVE  b \in Visited(T \cup {<<p, b>>})
<1> DEFINE U == T \cup {<<p, b>>}
<1> SUFFICES ASSUME NEW S \in SUBSET Block, Entry \in S, \A e \in U : e[1] \in S => e[2] \in S
             PROVE  b \in S
  BY DEF Visited
<1>1. p \in S
  BY DEF Visited
<1>2. <<p, b>> \in U
  OBVIOUS
<1> QED BY <1>1, <1>2

--------------------------------------------------------------------------------
\* The inductive invariant.  Of a graph g, guards cached so far, and the guard
\* under construction for b: it has what the predecessors in P contribute.
Contributed(cache, b, P, guard) ==
    \A p \in P : IF p = b THEN {<<b, b>>} \in guard
                 ELSE p \in DOMAIN cache /\ Conjoin(cache[p], <<p, b>>) \subseteq guard

\* It mentions edges on ways to b only, and without one-block loops each of its
\* disjuncts is a way from the entry to b.
Meant(g, b, guard) ==
    \A d \in guard :
        /\ d \subseteq GuardEdges(g, b)
        /\ (\A c \in Block : c \notin Successors(g, c)) => b \in Visited(d)

\* A frame is for a block that has no guard yet.
FrameOK(g, cache, f) ==
    /\ f.block \in Reach(g, Entry) \ DOMAIN cache
    /\ f.predecessors \subseteq ReachablePredecessors(g, f.block)
    /\ f.block = Entry => f.guard = True
    /\ f.block # Entry =>
          Contributed(cache, f.block, ReachablePredecessors(g, f.block) \ f.predecessors, f.guard)
    /\ Meant(g, f.block, f.guard)

CachedOK(g, cache, b) ==
    /\ b \in Reach(g, Entry)
    /\ b = Entry => cache[b] = True
    /\ b # Entry => Contributed(cache, b, ReachablePredecessors(g, b), cache[b])
    /\ Meant(g, b, cache[b])
    /\ cache[b] # {}
    /\ GuardEdges(g, b) \subseteq UNION cache[b]

\* Each frame is for a predecessor, other than itself, of the block of the frame
\* that called it, and so for a block that the blocks before it are reached from.
ChainInv ==
    \A i, j \in 1 .. Len(stack) :
        /\ i < j => stack[i].block \in Reach(succ, stack[j].block)
        /\ j = i + 1 => /\ stack[j].block # stack[i].block
                        /\ stack[j].block \in ReachablePredecessors(succ, stack[i].block)

\* The second loop starts when all transition guards are declared, where they
\* are needed.
LoopInv ==
    /\ stack # << >> \/ Cached # {} => undeclared = {}
    /\ undeclared \subseteq Edges(succ)
    /\ unguarded \subseteq Reach(succ, Entry)
    /\ \A e \in Edges(succ) \ undeclared : \A b \in Reach(succ, e[2]) : e \in visible[b]
    /\ Reach(succ, Entry) \ unguarded \subseteq Cached
    /\ status = "done" => unguarded = {}

FramesInv == \A i \in 1 .. Len(stack) : FrameOK(succ, cachedBlockGuards, stack[i])

CacheInv == \A b \in Cached : CachedOK(succ, cachedBlockGuards, b)

IInv == TypeOK /\ LoopInv /\ ChainInv /\ FramesInv /\ CacheInv

--------------------------------------------------------------------------------
FrameType == [block : Block, predecessors : SUBSET Block, guard : Guard]

\* The part of a graph that the entry reaches.
LEMMA GraphType ==
    ASSUME NEW g \in Graphs
    PROVE  /\ g \in [Block -> Seq(Block)]
           /\ Reach(g, Entry) \subseteq Block
           /\ Entry \in Reach(g, Entry)
           /\ Edges(g) \subseteq Block \X Block
           /\ ReachablePredecessors(g, Entry) = {}
           /\ \A b \in Block : ReachablePredecessors(g, b) \subseteq Reach(g, Entry)
           /\ \A e \in Edges(g) : e[1] \in Reach(g, Entry) /\ e[2] \in Reach(g, Entry)
<1>1. g \in [Block -> Seq(Block)]
  BY GraphsAssumption
<1>2. /\ Reach(g, Entry) \subseteq Block
      /\ Entry \in Reach(g, Entry)
      /\ \A c \in Reach(g, Entry) : Successors(g, c) \subseteq Reach(g, Entry)
  BY <1>1, EntryAssumption, ReachStep
<1>3. ReachablePredecessors(g, Entry) = {}
  BY <1>2, EntryFirstAssumption DEF ReachablePredecessors
<1>4. \A b \in Block : ReachablePredecessors(g, b) \subseteq Reach(g, Entry)
  BY DEF ReachablePredecessors
<1>5. /\ Edges(g) \subseteq Block \X Block
      /\ \A e \in Edges(g) : e[1] \in Reach(g, Entry) /\ e[2] \in Successors(g, e[1])
  BY DEF Edges
<1> QED BY <1>1, <1>2, <1>3, <1>4, <1>5

LEMMA InitIInv == Init => IInv
<1> SUFFICES ASSUME Init  PROVE IInv
  OBVIOUS
<1>1. /\ succ \in Graphs /\ undeclared = Edges(succ) /\ unguarded = Reach(succ, Entry)
      /\ stack = << >> /\ Len(stack) = 0 /\ Cached = {} /\ status = "running"
      /\ visible = [b \in Block |-> {}]
  BY DEF Init, Cached
<1>2. TypeOK
  <2>1. cachedBlockGuards \in [Cached -> Guard]
    BY <1>1 DEF Init, Cached
  <2>2. stack \in Seq([block : Block, predecessors : SUBSET Block, guard : Guard])
    BY <1>1
  <2> QED BY <1>1, <2>1, <2>2, GraphType DEF TypeOK
<1>3. LoopInv
  BY <1>1 DEF LoopInv
<1>4. ChainInv /\ FramesInv /\ CacheInv
  BY <1>1 DEF ChainInv, FramesInv, CacheInv
<1> QED BY <1>2, <1>3, <1>4 DEF IInv

LEMMA DeclareIInv ==
    ASSUME IInv, NEW e \in undeclared, DeclareTransition(e)
    PROVE  IInv'
<1>1. /\ stack = << >> /\ Cached = {} /\ stack' = stack /\ succ' = succ /\ status' = status
      /\ cachedBlockGuards' = cachedBlockGuards /\ Cached' = {} /\ unguarded' = unguarded
      /\ Len(stack) = 0 /\ undeclared' = undeclared \ {e}
  BY DEF DeclareTransition, IInv, LoopInv, Cached
<1>2. /\ visible \in [Block -> SUBSET (Block \X Block)]
      /\ e \in Edges(succ) /\ e \in Block \X Block
      /\ succ \in Graphs
  BY GraphType DEF IInv, TypeOK, LoopInv
<1>3. visible' = [b \in Block |->
                     IF b \in Reach(succ, e[2]) THEN visible[b] \cup {e} ELSE visible[b]]
  BY DEF DeclareTransition
<1>4. TypeOK'
  <2>1. visible' \in [Block -> SUBSET (Block \X Block)]
    BY <1>2, <1>3
  <2> QED BY <1>1, <2>1 DEF IInv, TypeOK
<1>5. LoopInv'
  <2>1. ASSUME NEW f \in Edges(succ) \ (undeclared \ {e}), NEW b \in Reach(succ, f[2])
        PROVE  f \in visible'[b]
    <3>1. b \in Block
      BY DEF Reach
    <3>2. CASE f = e
      BY <3>1, <3>2, <1>3
    <3>3. CASE f # e
      BY <3>1, <3>3, <1>3 DEF IInv, LoopInv
    <3> QED BY <3>2, <3>3
  <2> QED BY <1>1, <2>1 DEF IInv, LoopInv
<1>6. ChainInv' /\ FramesInv' /\ CacheInv'
  BY <1>1 DEF ChainInv, FramesInv, CacheInv
<1> QED BY <1>4, <1>5, <1>6 DEF IInv

\* A call starts with a frame that has everything still to do.
LEMMA FrameStarts ==
    ASSUME succ \in Graphs, Cached \subseteq Block, NEW b \in Reach(succ, Entry) \ Cached
    PROVE  /\ Frame(b) \in FrameType
           /\ Frame(b).block = b
           /\ FrameOK(succ, cachedBlockGuards, Frame(b))
<1>1. /\ b \in Block /\ b \notin DOMAIN cachedBlockGuards
      /\ ReachablePredecessors(succ, b) \subseteq Block
  BY GraphType DEF Cached
<1>2. CASE b = Entry
  <2>1. Frame(b) = [block |-> b, predecessors |-> {}, guard |-> True]
    BY <1>2 DEF Frame
  <2>2. True \in Guard /\ Frame(b) \in FrameType
    BY <2>1, <1>1 DEF True, Guard, FrameType
  <2>3. Entry \in Visited({})
    BY EntryAssumption DEF Visited
  <2>4. Meant(succ, b, True)
    BY <2>3, <1>2 DEF Meant, True
  <2> QED BY <1>1, <1>2, <2>1, <2>2, <2>4 DEF FrameOK
<1>3. CASE b # Entry
  <2>1. Frame(b) = [block |-> b, predecessors |-> ReachablePredecessors(succ, b), guard |-> {}]
    BY <1>3 DEF Frame
  <2>2. {} \in Guard /\ Frame(b) \in FrameType
    BY <2>1, <1>1 DEF Guard, FrameType
  <2>3. Meant(succ, b, {}) /\ Contributed(cachedBlockGuards, b, {}, {})
    BY DEF Meant, Contributed
  <2>4. ReachablePredecessors(succ, b) \ ReachablePredecessors(succ, b) = {}
    OBVIOUS
  <2> QED BY <1>1, <1>3, <2>1, <2>2, <2>3, <2>4 DEF FrameOK
<1> QED BY <1>2, <1>3

\* A call for a block of the second loop, or for another block that the block of
\* the innermost call is jumped to from.
LEMMA PushIInv ==
    ASSUME IInv, status = "running", undeclared = {}, NEW b \in Reach(succ, Entry) \ Cached,
           stack # << >> => b \in ReachablePredecessors(succ, Top.block) /\ b # Top.block,
           Push(b), UNCHANGED <<succ, undeclared, visible, unguarded, cachedBlockGuards>>
    PROVE  IInv'
<1>1. /\ succ \in Graphs /\ stack \in Seq(FrameType) /\ Len(stack) \in Nat /\ Cached \subseteq Block
      /\ status' \in {"running", "overflow"}
  BY DEF IInv, TypeOK, FrameType, Push
<1>2. Cached' = Cached
  BY DEF Cached
<1>3. LoopInv'
  BY <1>1, <1>2 DEF IInv, LoopInv
<1>4. CacheInv'
  BY <1>2 DEF IInv, CacheInv
<1>5. CASE UNCHANGED stack
  <2>1. TypeOK'
    BY <1>1, <1>2, <1>5 DEF IInv, TypeOK
  <2>2. ChainInv' /\ FramesInv'
    BY <1>5 DEF IInv, ChainInv, FramesInv
  <2> QED BY <1>3, <1>4, <2>1, <2>2 DEF IInv
<1>6. CASE stack' = Append(stack, Frame(b))
  <2> DEFINE n == Len(stack)
  <2>1. /\ Frame(b) \in FrameType /\ Frame(b).block = b
        /\ FrameOK(succ, cachedBlockGuards, Frame(b))
    BY <1>1, FrameStarts
  <2>2. /\ stack' \in Seq(FrameType) /\ Len(stack') = n + 1 /\ n \in Nat
        /\ stack'[n + 1] = Frame(b)
        /\ \A i \in 1 .. n : stack'[i] = stack[i]
    BY <1>1, <1>6, <2>1
  <2>3. TypeOK'
    BY <1>1, <1>2, <2>2 DEF IInv, TypeOK, FrameType
  <2>4. FramesInv'
    <3>1. ASSUME NEW i \in 1 .. n + 1  PROVE FrameOK(succ, cachedBlockGuards, stack'[i])
      <4>1. i \in 1 .. n \/ i = n + 1
        BY <2>2
      <4> QED BY <4>1, <2>1, <2>2 DEF IInv, FramesInv
    <3> QED BY <3>1, <2>2 DEF FramesInv
  <2>5. ASSUME NEW i \in 1 .. n  PROVE stack[i].block \in Reach(succ, b)
    <3>1. /\ stack # << >> /\ n \in 1 .. n /\ Top = stack[n] /\ b \in Block
          /\ Top.block \in Successors(succ, b)
      BY <1>1, <2>5, GraphType DEF Top, ReachablePredecessors
    <3>2. Top.block \in Reach(succ, b)
      BY <3>1, <1>1, GraphType, ReachStep
    <3>3. i = n \/ stack[i].block \in Reach(succ, Top.block)
      BY <3>1 DEF IInv, ChainInv
    <3>4. Reach(succ, Top.block) \subseteq Reach(succ, b)
      BY <3>1, <3>2, <1>1, GraphType, ReachTransitive
    <3> QED BY <3>1, <3>2, <3>3, <3>4
  <2>6. ChainInv'
    <3>1. ASSUME NEW i \in 1 .. n + 1, NEW j \in 1 .. n + 1
          PROVE  /\ i < j => stack'[i].block \in Reach(succ, stack'[j].block)
                 /\ j = i + 1 => /\ stack'[j].block # stack'[i].block
                                 /\ stack'[j].block \in ReachablePredecessors(succ, stack'[i].block)
      <4>1. CASE i \in 1 .. n /\ j \in 1 .. n
        BY <4>1, <2>2 DEF IInv, ChainInv
      <4>2. CASE i \in 1 .. n /\ j = n + 1
        <5>1. stack'[i] = stack[i] /\ stack'[j].block = b
          BY <4>2, <2>1, <2>2
        <5>2. j = i + 1 => Top = stack[i] /\ stack # << >>
          BY <4>2, <1>1 DEF Top
        <5> QED BY <4>2, <5>1, <5>2, <2>5
      <4>3. CASE i = n + 1
        BY <4>3, <2>2
      <4> QED BY <4>1, <4>2, <4>3, <2>2
    <3> QED BY <3>1, <2>2 DEF ChainInv
  <2> QED BY <1>3, <1>4, <2>3, <2>4, <2>6 DEF IInv
<1> QED BY <1>5, <1>6 DEF Push

LEMMA CreateIInv ==
    ASSUME IInv, status = "running", NEW b \in unguarded, CreateBlockBinder(b)
    PROVE  IInv'
<1>1. /\ succ' = succ /\ undeclared' = undeclared /\ visible' = visible /\ stack' = stack
      /\ cachedBlockGuards' = cachedBlockGuards /\ Cached' = Cached
      /\ unguarded' = unguarded \ {b} /\ b \in Cached
      /\ status' = IF unguarded' = {} THEN "done" ELSE "running"
  BY DEF CreateBlockBinder, Cached
<1>2. TypeOK'
  BY <1>1 DEF IInv, TypeOK
<1>3. LoopInv'
  BY <1>1 DEF IInv, LoopInv
<1>4. ChainInv' /\ FramesInv' /\ CacheInv'
  BY <1>1 DEF IInv, ChainInv, FramesInv, CacheInv
<1> QED BY <1>2, <1>3, <1>4 DEF IInv

--------------------------------------------------------------------------------
\* What the predecessor p contributes to the guard of b.
Disjuncts(p, b) ==
    Conjoin(IF p = b THEN {{<<p, b>>}} ELSE cachedBlockGuards[p], <<p, b>>)

\* The edges on the ways to a predecessor, and the edge from it, are on ways to b.
LEMMA EdgesExtend ==
    ASSUME NEW g \in Graphs, NEW b \in Block \ {Entry}, NEW p \in ReachablePredecessors(g, b)
    PROVE  GuardEdges(g, p) \cup {<<p, b>>} \subseteq GuardEdges(g, b)
<1>1. /\ p \in Block /\ p \in Reach(g, Entry) /\ b \in Successors(g, p)
      /\ g \in [Block -> Seq(Block)]
  BY GraphType DEF ReachablePredecessors
<1>2. <<p, b>> \in GuardEdges(g, b)
  <2>1. b \in Reach(g, b)
    BY <1>1, ReachStep
  <2> QED BY <1>1, <2>1 DEF GuardEdges, Edges
<1>3. ASSUME NEW e \in GuardEdges(g, p)  PROVE e \in GuardEdges(g, b)
  <2>1. e \in Edges(g) /\ p \in Reach(g, e[2])
    BY <1>3 DEF GuardEdges
  <2>2. e[2] \in Block
    BY <2>1 DEF Edges
  <2>3. b \in Reach(g, e[2])
    BY <1>1, <2>1, <2>2, ReachStep
  <2> QED BY <2>1, <2>3 DEF GuardEdges
<1> QED BY <1>2, <1>3

\* A predecessor's disjuncts are ways to the block if its guard has ways to it.
LEMMA DisjunctsMeant ==
    ASSUME succ \in Graphs, CacheInv, NEW b \in Block \ {Entry},
           NEW p \in ReachablePredecessors(succ, b), p = b \/ p \in Cached
    PROVE  Meant(succ, b, Disjuncts(p, b))
<1>1. p \in Block /\ b \in Successors(succ, p)
  BY GraphType DEF ReachablePredecessors
<1>2. CASE p = b
  <2>1. Disjuncts(p, b) = {{<<b, b>>}}
    BY <1>2 DEF Disjuncts, Conjoin
  <2>2. {<<b, b>>} \subseteq GuardEdges(succ, b)
    BY <1>2, EdgesExtend
  <2>3. ~ \A c \in Block : c \notin Successors(succ, c)
    BY <1>1, <1>2
  <2> QED BY <2>1, <2>2, <2>3 DEF Meant
<1>3. CASE p # b
  <2>1. Disjuncts(p, b) = {d \cup {<<p, b>>} : d \in cachedBlockGuards[p]}
    BY <1>3 DEF Disjuncts, Conjoin
  <2>2. Meant(succ, p, cachedBlockGuards[p])
    BY <1>3 DEF CacheInv, CachedOK
  <2>3. ASSUME NEW d \in cachedBlockGuards[p]
        PROVE  /\ d \cup {<<p, b>>} \subseteq GuardEdges(succ, b)
               /\ (\A c \in Block : c \notin Successors(succ, c)) => b \in Visited(d \cup {<<p, b>>})
    <3>1. d \subseteq GuardEdges(succ, p)
      BY <2>2 DEF Meant
    <3>2. ASSUME \A c \in Block : c \notin Successors(succ, c)
          PROVE  b \in Visited(d \cup {<<p, b>>})
      <4>1. p \in Visited(d)
        BY <3>2, <2>2 DEF Meant
      <4> QED BY <4>1, VisitedEdge
    <3> QED BY <3>1, <3>2, EdgesExtend
  <2> QED BY <2>1, <2>3 DEF Meant
<1> QED BY <1>2, <1>3

LEMMA DisjunctsType ==
    ASSUME cachedBlockGuards \in [Cached -> Guard], NEW b \in Block, NEW p \in Block,
           p = b \/ p \in Cached
    PROVE  Disjuncts(p, b) \in Guard
<1>1. CASE p = b
  <2>1. Disjuncts(p, b) = {{<<b, b>>}}
    BY <1>1 DEF Disjuncts, Conjoin
  <2> QED BY <2>1 DEF Guard
<1>2. CASE p # b
  <2>1. Disjuncts(p, b) = {d \cup {<<p, b>>} : d \in cachedBlockGuards[p]}
    BY <1>2 DEF Disjuncts, Conjoin
  <2>2. cachedBlockGuards[p] \in Guard
    BY <1>2
  <2>3. ASSUME NEW d \in cachedBlockGuards[p]  PROVE d \cup {<<p, b>>} \in SUBSET (Block \X Block)
    BY <2>2 DEF Guard
  <2> QED BY <2>1, <2>3 DEF Guard
<1> QED BY <1>1, <1>2

\* The frame with one predecessor less to do.
LEMMA FrameAdvances ==
    ASSUME succ \in Graphs, CacheInv, Cached \subseteq Block, cachedBlockGuards \in [Cached -> Guard],
           NEW f \in FrameType, FrameOK(succ, cachedBlockGuards, f),
           NEW p \in f.predecessors, p = f.block \/ p \in Cached,
           NEW h, h = [block |-> f.block, predecessors |-> f.predecessors \ {p},
                       guard |-> f.guard \cup Disjuncts(p, f.block)]
    PROVE  h \in FrameType /\ FrameOK(succ, cachedBlockGuards, h)
<1> DEFINE b == f.block
           R == ReachablePredecessors(succ, b)
           done == R \ f.predecessors
           cache == cachedBlockGuards
<1>1. /\ b \in Block /\ f.predecessors \subseteq R /\ p \in R /\ p \in Block
      /\ f.predecessors \in SUBSET Block /\ f.guard \in Guard
      /\ b \in Reach(succ, Entry) \ DOMAIN cache
      /\ h.block = b /\ h.predecessors = f.predecessors \ {p}
      /\ h.guard = f.guard \cup Disjuncts(p, b)
  BY DEF FrameType, FrameOK
<1>2. b # Entry
  BY <1>1, GraphType
<1>3. Disjuncts(p, b) \in Guard
  BY <1>1, DisjunctsType
<1>4. h \in FrameType
  <2>1. f.guard \cup Disjuncts(p, b) \in Guard
    BY <1>1, <1>3 DEF Guard
  <2> QED BY <1>1, <2>1 DEF FrameType
<1>5. Meant(succ, b, h.guard)
  <2>1. Meant(succ, b, Disjuncts(p, b))
    BY <1>1, <1>2, DisjunctsMeant
  <2>2. Meant(succ, b, f.guard)
    BY DEF FrameOK
  <2> QED BY <1>1, <2>1, <2>2 DEF Meant
<1>6. Contributed(cache, b, R \ h.predecessors, h.guard)
  <2>1. Contributed(cache, b, done, f.guard)
    BY <1>2 DEF FrameOK
  <2>2. R \ h.predecessors = done \cup {p}
    BY <1>1
  <2>3. ASSUME NEW q \in done
        PROVE  IF q = b THEN {<<b, b>>} \in h.guard
               ELSE q \in DOMAIN cache /\ Conjoin(cache[q], <<q, b>>) \subseteq h.guard
    BY <2>1, <1>1 DEF Contributed
  <2>4. IF p = b THEN {<<b, b>>} \in h.guard
        ELSE p \in DOMAIN cache /\ Conjoin(cache[p], <<p, b>>) \subseteq h.guard
    <3>1. CASE p = b
      <4>1. Disjuncts(p, b) = {{<<b, b>>}}
        BY <3>1 DEF Disjuncts, Conjoin
      <4> QED BY <3>1, <4>1, <1>1
    <3>2. CASE p # b
      BY <3>2, <1>1 DEF Disjuncts, Cached
    <3> QED BY <3>1, <3>2
  <2> QED BY <2>2, <2>3, <2>4 DEF Contributed
<1> QED BY <1>1, <1>2, <1>4, <1>5, <1>6 DEF FrameOK

LEMMA AddDisjunctIInv ==
    ASSUME IInv, stack # << >>, NEW p \in Top.predecessors, AddDisjunct(p)
    PROVE  IInv'
<1> DEFINE n == Len(stack)
           h == [block |-> Top.block, predecessors |-> Top.predecessors \ {p},
                 guard |-> Top.guard \cup Disjuncts(p, Top.block)]
<1>1. /\ succ \in Graphs /\ stack \in Seq(FrameType) /\ n \in Nat \ {0} /\ Cached \subseteq Block
      /\ cachedBlockGuards \in [Cached -> Guard] /\ Top = stack[n] /\ Top \in FrameType
      /\ FrameOK(succ, cachedBlockGuards, Top) /\ CacheInv
  <2>1. stack \in Seq(FrameType)
    BY DEF IInv, TypeOK, FrameType
  <2>2. n \in Nat \ {0} /\ n \in 1 .. n /\ Top = stack[n] /\ Top \in FrameType
    BY <2>1 DEF Top
  <2> QED BY <2>1, <2>2 DEF IInv, TypeOK, FramesInv
<1>2. /\ UNCHANGED <<succ, undeclared, visible, unguarded, cachedBlockGuards, status>>
      /\ Cached' = Cached /\ (p = Top.block \/ p \in Cached)
  BY DEF AddDisjunct, Cached
<1>3. stack' = [stack EXCEPT ![n] = h]
  BY DEF AddDisjunct, Disjuncts
<1>4. h \in FrameType /\ FrameOK(succ, cachedBlockGuards, h)
  BY <1>1, <1>2, FrameAdvances
<1>5. /\ stack' \in Seq(FrameType) /\ Len(stack') = n
      /\ stack'[n] = h
      /\ \A i \in 1 .. n : i # n => stack'[i] = stack[i]
  <2> HIDE DEF h
  <2>1. stack \in [1 .. n -> FrameType] /\ n \in 1 .. n
    BY <1>1
  <2>2. stack' \in [1 .. n -> FrameType]
    BY <1>3, <1>4, <2>1
  <2>3. stack' \in Seq(FrameType) /\ Len(stack') = n
    BY <1>1, <2>2
  <2> QED BY <1>3, <2>1, <2>3
<1>6. \A i \in 1 .. n : stack'[i].block = stack[i].block
  BY <1>1, <1>5
<1>7. TypeOK'
  BY <1>2, <1>5 DEF IInv, TypeOK, FrameType
<1>8. LoopInv'
  BY <1>2 DEF IInv, LoopInv
<1>9. ChainInv'
  BY <1>2, <1>5, <1>6 DEF IInv, ChainInv
<1>10. FramesInv'
  BY <1>2, <1>4, <1>5 DEF IInv, FramesInv
<1>11. CacheInv'
  BY <1>2 DEF IInv, CacheInv
<1> QED BY <1>7, <1>8, <1>9, <1>10, <1>11 DEF IInv

--------------------------------------------------------------------------------
\* No way leads back to the entry.
LEMMA EntryNotReached ==
    ASSUME NEW g \in Graphs, NEW b \in Block \ {Entry}
    PROVE  Entry \notin Reach(g, b)
<1> SUFFICES ASSUME Entry \in Reach(g, b)  PROVE FALSE
  OBVIOUS
<1>1. PICK p \in Reach(g, b) : Entry \in Successors(g, p)
  BY GraphType, LastEdge
<1>2. p \in Block
  BY DEF Reach
<1> QED BY <1>1, <1>2, EntryFirstAssumption

\* Without predecessors left to do, the guard of a frame can be cached.
LEMMA CompleteGuard ==
    ASSUME succ \in Graphs, CacheInv, NEW b \in Reach(succ, Entry) \ {Entry}, NEW guard,
           Contributed(cachedBlockGuards, b, ReachablePredecessors(succ, b), guard)
    PROVE  guard # {} /\ GuardEdges(succ, b) \subseteq UNION guard
<1> DEFINE R == ReachablePredecessors(succ, b)
           cache == cachedBlockGuards
<1>1. b \in Block /\ succ \in [Block -> Seq(Block)]
  BY GraphType
<1>2. ASSUME NEW p \in R, p # b
      PROVE  /\ p \in Cached
             /\ \A d \in cache[p] : d \cup {<<p, b>>} \in guard
             /\ cache[p] # {}
  <2>1. p \in Cached /\ Conjoin(cache[p], <<p, b>>) \subseteq guard
    BY <1>2 DEF Contributed, Cached
  <2> QED BY <2>1 DEF Conjoin, CacheInv, CachedOK
<1>3. guard # {}
  <2>1. PICK p \in Reach(succ, Entry) : p # b /\ b \in Successors(succ, p)
    BY <1>1, EntryAssumption, LastEdge
  <2>2. p \in R
    BY <2>1 DEF ReachablePredecessors
  <2> QED BY <2>1, <2>2, <1>2
<1>4. ASSUME NEW e \in GuardEdges(succ, b)  PROVE e \in UNION guard
  <2>1. /\ e \in Edges(succ) /\ b \in Reach(succ, e[2]) /\ e = <<e[1], e[2]>>
        /\ e[1] \in Reach(succ, Entry) /\ e[2] \in Successors(succ, e[1])
        /\ e[1] \in Block /\ e[2] \in Block
    BY <1>4 DEF GuardEdges, Edges
  <2>2. CASE e[2] = b
    <3>1. e[1] \in R /\ e = <<e[1], b>>
      BY <2>1, <2>2 DEF ReachablePredecessors
    <3>2. CASE e[1] = b
      BY <3>1, <3>2 DEF Contributed
    <3>3. CASE e[1] # b
      <4>1. PICK d \in cache[e[1]] : d \cup {<<e[1], b>>} \in guard
        BY <3>1, <3>3, <1>2
      <4> QED BY <3>1, <4>1
    <3> QED BY <3>2, <3>3
  <2>3. CASE e[2] # b
    <3>1. PICK p \in Reach(succ, e[2]) : p # b /\ b \in Successors(succ, p)
      BY <2>1, <2>3, <1>1, LastEdge
    <3>2. e[2] # Entry
      BY <2>1, EntryFirstAssumption
    <3>3. p # Entry /\ p \in Block
      BY <3>1, <3>2, <2>1, EntryNotReached DEF Reach
    <3>4. p \in R
      <4>1. Reach(succ, e[2]) \subseteq Reach(succ, Entry)
        BY <2>1, <1>1, GraphType, EntryAssumption, ReachTransitive
      <4> QED BY <3>1, <4>1 DEF ReachablePredecessors
    <3>5. e \in GuardEdges(succ, p)
      BY <2>1, <3>1, <3>3 DEF GuardEdges
    <3>6. p \in Cached /\ \A d \in cache[p] : d \cup {<<p, b>>} \in guard
      BY <3>1, <3>4, <1>2
    <3>7. GuardEdges(succ, p) \subseteq UNION cache[p]
      BY <3>6 DEF CacheInv, CachedOK
    <3>8. PICK d \in cache[p] : e \in d
      BY <3>5, <3>7
    <3> QED BY <3>6, <3>8
  <2> QED BY <2>2, <2>3
<1> QED BY <1>3, <1>4

\* What was contributed stays so when the cache grows.
LEMMA ContributedGrows ==
    ASSUME NEW cache, NEW more, DOMAIN cache \subseteq DOMAIN more,
           \A c \in DOMAIN cache : more[c] = cache[c],
           NEW b, NEW P, NEW guard, Contributed(cache, b, P, guard)
    PROVE  Contributed(more, b, P, guard)
BY DEF Contributed

\* The first k elements of a sequence.
LEMMA CallersKept ==
    ASSUME NEW S, NEW s \in Seq(S), NEW k \in Nat, k <= Len(s)
    PROVE  /\ SubSeq(s, 1, k) \in Seq(S) /\ Len(SubSeq(s, 1, k)) = k
           /\ \A i \in 1 .. k : SubSeq(s, 1, k)[i] = s[i]
OBVIOUS

LEMMA ReturnIInv ==
    ASSUME IInv, status = "running", stack # << >>, ReturnGuard
    PROVE  IInv'
<1> DEFINE n == Len(stack)
           b == Top.block
           cache == cachedBlockGuards
           more == [c \in Cached \cup {b} |-> IF c = b THEN Top.guard ELSE cache[c]]
           R == ReachablePredecessors(succ, b)
<1>1. /\ succ \in Graphs /\ stack \in Seq(FrameType) /\ n \in Nat \ {0} /\ n \in 1 .. n
      /\ Cached \subseteq Block /\ cache \in [Cached -> Guard] /\ Top = stack[n] /\ Top \in FrameType
      /\ FrameOK(succ, cache, Top) /\ CacheInv /\ b \in Block
      /\ b \in Reach(succ, Entry) \ Cached /\ Top.guard \in Guard
  <2>1. stack \in Seq(FrameType)
    BY DEF IInv, TypeOK, FrameType
  <2>2. n \in Nat \ {0} /\ n \in 1 .. n /\ Top = stack[n] /\ Top \in FrameType
    BY <2>1 DEF Top
  <2>3. FrameOK(succ, cache, Top)
    BY <2>2 DEF IInv, FramesInv
  <2> QED BY <2>1, <2>2, <2>3 DEF IInv, TypeOK, FrameOK, FrameType, Cached
<1>2. /\ UNCHANGED <<succ, undeclared, visible, unguarded, status>>
      /\ cachedBlockGuards' = more /\ Cached' = Cached \cup {b}
      /\ Top.predecessors = {} /\ stack' = SubSeq(stack, 1, n - 1)
  BY DEF ReturnGuard, Cached
<1>3. /\ stack' \in Seq(FrameType) /\ Len(stack') = n - 1
      /\ \A i \in 1 .. n - 1 : stack'[i] = stack[i] /\ i \in 1 .. n
  <2> DEFINE k == n - 1
  <2>1. k \in Nat /\ k <= Len(stack)
    BY <1>1
  <2>2. stack \in Seq(FrameType) /\ stack' = SubSeq(stack, 1, k)
    BY <1>1, <1>2
  <2>3. /\ stack' \in Seq(FrameType) /\ Len(stack') = k
        /\ \A i \in 1 .. k : stack'[i] = stack[i]
    <3> HIDE DEF k
    <3> QED BY <2>1, <2>2, CallersKept
  <2>4. \A i \in 1 .. n - 1 : i \in 1 .. n
    BY <1>1
  <2> QED BY <2>3, <2>4
<1>4. DOMAIN more = Cached \cup {b} /\ \A c \in Cached : more[c] = cache[c]
  BY <1>1
<1>5. more[b] = Top.guard
  OBVIOUS
<1>6. b # Entry => Contributed(cache, b, R, Top.guard)
  <2>1. R \ {} = R
    OBVIOUS
  <2> QED BY <2>1, <1>1, <1>2 DEF FrameOK
<1> HIDE DEF more
<1>7. ASSUME NEW c, NEW P, NEW guard, Contributed(cache, c, P, guard)
      PROVE  Contributed(more, c, P, guard)
  BY <1>4, <1>7, ContributedGrows DEF Cached
<1>8. TypeOK'
  <2>1. more \in [Cached \cup {b} -> Guard]
    BY <1>1, <1>4, <1>5 DEF more
  <2> QED BY <1>1, <1>2, <1>3, <2>1 DEF IInv, TypeOK, FrameType
<1>9. LoopInv'
  BY <1>2 DEF IInv, LoopInv
<1>10. ChainInv'
  BY <1>2, <1>3 DEF IInv, ChainInv
<1>11. CacheInv'
  <2>1. ASSUME NEW c \in Cached  PROVE CachedOK(succ, more, c)
    <3>1. CachedOK(succ, cache, c) /\ more[c] = cache[c]
      BY <1>1, <1>4 DEF CacheInv
    <3> QED BY <3>1, <1>7 DEF CachedOK
  <2>2. CachedOK(succ, more, b)
    <3>1. CASE b = Entry
      <4>1. Top.guard = True /\ GuardEdges(succ, b) = {}
        BY <1>1, <3>1 DEF FrameOK, GuardEdges
      <4> QED BY <1>1, <1>5, <3>1, <4>1 DEF FrameOK, CachedOK, True
    <3>2. CASE b # Entry
      <4>1. Top.guard # {} /\ GuardEdges(succ, b) \subseteq UNION Top.guard
        BY <1>1, <1>6, <3>2, CompleteGuard
      <4>2. Contributed(more, b, R, Top.guard)
        BY <1>6, <1>7, <3>2
      <4> QED BY <1>1, <1>5, <3>2, <4>1, <4>2 DEF FrameOK, CachedOK
    <3> QED BY <3>1, <3>2
  <2> QED BY <2>1, <2>2, <1>2 DEF CacheInv
<1>12. ASSUME NEW i \in 1 .. n - 1  PROVE stack[i].block # b
  <2> SUFFICES ASSUME stack[i].block = b  PROVE FALSE
    OBVIOUS
  <2>1. i \in 1 .. n /\ i + 1 \in 1 .. n /\ i < i + 1
    BY <1>1
  <2>2. stack[i + 1].block # b /\ stack[i + 1].block \in R
    BY <2>1 DEF IInv, ChainInv
  <2>3. i + 1 # n
    BY <1>1, <2>2
  <2>4. b # Entry
    BY <1>1, <2>2, GraphType
  <2>5. stack[i + 1].block \in Cached
    BY <1>6, <2>2, <2>4 DEF Contributed, Cached
  <2>6. FrameOK(succ, cache, stack[i + 1])
    BY <2>1 DEF IInv, FramesInv
  <2> QED BY <2>5, <2>6 DEF FrameOK, Cached
<1>13. FramesInv'
  <2>1. ASSUME NEW i \in 1 .. n - 1  PROVE FrameOK(succ, more, stack[i])
    <3>1. FrameOK(succ, cache, stack[i])
      BY <1>3 DEF IInv, FramesInv
    <3> QED BY <3>1, <1>4, <1>7, <1>12 DEF FrameOK, Cached
  <2> QED BY <2>1, <1>2, <1>3 DEF FramesInv
<1> QED BY <1>8, <1>9, <1>10, <1>11, <1>13 DEF IInv

LEMMA NextIInv == IInv /\ [Next]_vars => IInv'
<1> SUFFICES ASSUME IInv, [Next]_vars  PROVE IInv'
  OBVIOUS
<1>1. CASE UNCHANGED vars
  <2>1. UNCHANGED <<succ, undeclared, visible, unguarded, stack, cachedBlockGuards, status>>
    BY <1>1 DEF vars
  <2>2. TypeOK' /\ LoopInv'
    BY <2>1 DEF IInv, TypeOK, LoopInv, Cached
  <2>3. ChainInv' /\ FramesInv' /\ CacheInv'
    BY <2>1 DEF IInv, ChainInv, FramesInv, CacheInv, Cached
  <2> QED BY <2>2, <2>3 DEF IInv
<1>2. CASE Next
  <2>1. status = "running"
    BY <1>2 DEF Next
  <2>2. ASSUME NEW e \in undeclared, DeclareTransition(e)  PROVE IInv'
    BY <2>2, DeclareIInv
  <2>3. ASSUME NEW b \in unguarded, CallGetBlockGuard(b)  PROVE IInv'
    <3>1. /\ b \in Reach(succ, Entry) \ Cached /\ undeclared = {} /\ stack = << >> /\ Push(b)
          /\ UNCHANGED <<succ, undeclared, visible, unguarded, cachedBlockGuards>>
      BY <2>3 DEF CallGetBlockGuard, IInv, LoopInv
    <3> QED BY <3>1, <2>1, PushIInv
  <2>4. ASSUME NEW b \in unguarded, CreateBlockBinder(b)  PROVE IInv'
    BY <2>1, <2>4, CreateIInv
  <2>5. ASSUME stack # << >>, NEW p \in Top.predecessors, AddDisjunct(p)  PROVE IInv'
    BY <2>5, AddDisjunctIInv
  <2>6. ASSUME stack # << >>, NEW p \in Top.predecessors, Recurse(p)  PROVE IInv'
    <3>1. /\ p # Top.block /\ p \notin Cached /\ Push(p) /\ undeclared = {}
          /\ UNCHANGED <<succ, undeclared, visible, unguarded, cachedBlockGuards>>
      BY <2>6 DEF Recurse, IInv, LoopInv
    <3>2. p \in ReachablePredecessors(succ, Top.block)
      <4>1. Len(stack) \in 1 .. Len(stack)
        BY <2>6 DEF IInv, TypeOK
      <4> QED BY <4>1 DEF IInv, FramesInv, FrameOK, Top
    <3>3. p \in Reach(succ, Entry) \ Cached
      BY <3>1, <3>2 DEF ReachablePredecessors
    <3> QED BY <3>1, <3>2, <3>3, <2>1, PushIInv
  <2>7. ASSUME stack # << >>, ReturnGuard  PROVE IInv'
    BY <2>1, <2>7, ReturnIInv
  <2> QED BY <1>2, <2>2, <2>3, <2>4, <2>5, <2>6, <2>7 DEF Next, GetBlockGuardStep
<1> QED BY <1>1, <1>2

\* The inductive invariant holds in every state, for any graphs and any stack.
THEOREM InvariantHolds == Spec => []IInv
<1> QED BY InitIInv, NextIInv, PTL DEF Spec

\* Every variable of the two loops and the recursion stays within its type.
THEOREM TypeCorrect == Spec => []TypeOK
<1>1. IInv => TypeOK
  BY DEF IInv
<1> QED BY <1>1, InvariantHolds, PTL

\* A call of getBlockGuard for a block whose guard is being computed is a way
\* from the block back to it through another one.
LEMMA ReentranceIsCycle ==
    ASSUME IInv, NEW i \in DOMAIN stack, NEW j \in DOMAIN stack, i < j,
           stack[i].block = stack[j].block
    PROVE  ~OnlySelfLoops(succ)
<1> DEFINE b == stack[i].block
           c == stack[i + 1].block
<1>1. /\ DOMAIN stack = 1 .. Len(stack) /\ i + 1 \in 1 .. Len(stack) /\ i < i + 1
      /\ i + 1 = j \/ i + 1 < j
  BY DEF IInv, TypeOK
<1>2. c # b
  BY <1>1 DEF IInv, ChainInv
<1>3. b \in Reach(succ, c)
  BY <1>1 DEF IInv, ChainInv
<1>4. c \in Reach(succ, b)
  <2>1. i + 1 < j
    BY <1>1, <1>2
  <2> QED BY <1>1, <2>1 DEF IInv, ChainInv
<1>5. b \in Reach(succ, Entry) /\ c \in Reach(succ, Entry)
  BY <1>1 DEF IInv, FramesInv, FrameOK
<1> QED BY <1>2, <1>3, <1>4, <1>5 DEF OnlySelfLoops

\* Unless a cycle passes through two blocks, getBlockGuard never calls itself
\* for a block whose guard is being computed: its frames are of different blocks.
THEOREM NoReentranceHolds == Spec => []NoReentrance
<1>1. IInv => NoReentrance
  <2> SUFFICES ASSUME IInv, NEW i \in DOMAIN stack, NEW j \in DOMAIN stack, i # j,
                      stack[i].block = stack[j].block
               PROVE  ~OnlySelfLoops(succ)
    BY DEF NoReentrance
  <2>1. i < j \/ j < i
    BY DEF IInv, TypeOK
  <2> QED BY <2>1, ReentranceIsCycle
<1> QED BY <1>1, InvariantHolds, PTL

\* When all guards are there, an execution makes the guards of all blocks it
\* visits true: the blocks whose guard is true hold the entry, and no transition
\* it takes leaves them.
LEMMA GuardsAreSound ==
    ASSUME IInv, status = "done", NEW T \in SUBSET Edges(succ), NEW b \in Visited(T)
    PROVE  Holds(cachedBlockGuards[b], T)
<1> DEFINE S == {c \in Cached : Holds(cachedBlockGuards[c], T)}
<1>1. succ \in Graphs /\ Cached \subseteq Block /\ Reach(succ, Entry) \subseteq Cached
  BY DEF IInv, TypeOK, LoopInv
<1>2. Entry \in S
  <2>1. Entry \in Cached
    BY <1>1, GraphType
  <2>2. cachedBlockGuards[Entry] = True
    BY <2>1 DEF IInv, CacheInv, CachedOK
  <2> QED BY <2>1, <2>2 DEF Holds, True
<1>3. ASSUME NEW e \in T, e[1] \in S  PROVE e[2] \in S
  <2> DEFINE p == e[1]
             c == e[2]
  <2>1. /\ p \in Reach(succ, Entry) /\ c \in Successors(succ, p) /\ p \in Block /\ c \in Block
        /\ e = <<p, c>> /\ c \in Reach(succ, Entry) /\ p \in ReachablePredecessors(succ, c)
    BY <1>1, GraphType DEF Edges, ReachablePredecessors
  <2>2. CASE p = c
    BY <1>3, <2>2
  <2>3. CASE p # c
    <3>1. c \in Cached /\ c # Entry
      BY <1>1, <2>1, EntryFirstAssumption
    <3>2. Conjoin(cachedBlockGuards[p], e) \subseteq cachedBlockGuards[c]
      BY <2>1, <2>3, <3>1 DEF IInv, CacheInv, CachedOK, Contributed
    <3>3. PICK d \in cachedBlockGuards[p] : d \subseteq T
      BY <1>3 DEF Holds
    <3>4. d \cup {e} \in cachedBlockGuards[c] /\ d \cup {e} \subseteq T
      BY <3>2, <3>3 DEF Conjoin
    <3> QED BY <3>1, <3>4 DEF Holds
  <2> QED BY <2>2, <2>3
<1>4. b \in S
  <2>1. S \in SUBSET Block
    BY <1>1
  <2> QED BY <1>2, <1>3, <2>1 DEF Visited
<1> QED BY <1>4

\* Whatever transitions an execution takes, the guards of the blocks it visits
\* are true, and without cycles those alone.
THEOREM GuardsAreExact == Spec => []GuardsExact
<1>1. IInv => GuardsExact
  <2> SUFFICES ASSUME IInv, status = "done", NEW T \in SUBSET Edges(succ)
               PROVE  /\ \A b \in Visited(T) : Holds(cachedBlockGuards[b], T)
                      /\ (\A b \in Block : b \notin Successors(succ, b)) =>
                            \A b \in Cached \ Visited(T) : ~Holds(cachedBlockGuards[b], T)
    BY DEF GuardsExact
  <2>1. ASSUME \A b \in Block : b \notin Successors(succ, b),
               NEW b \in Cached \ Visited(T), Holds(cachedBlockGuards[b], T)
        PROVE  FALSE
    <3>1. PICK d \in cachedBlockGuards[b] : d \subseteq T
      BY <2>1 DEF Holds
    <3>2. b \in Visited(d)
      BY <2>1, <3>1 DEF IInv, CacheInv, CachedOK, Meant
    <3> QED BY <2>1, <3>1, <3>2, VisitedGrows
  <2> QED BY <2>1, GuardsAreSound
<1> QED BY <1>1, InvariantHolds, PTL

\* The guard of a block mentions the transition guards on the ways to the block,
\* all of them, and these are visible in the block.
THEOREM GuardsAreInScope == Spec => []GuardsInScope
<1>1. IInv => GuardsInScope
  <2> SUFFICES ASSUME IInv, NEW b \in Cached
               PROVE  /\ UNION cachedBlockGuards[b] = GuardEdges(succ, b)
                      /\ GuardEdges(succ, b) \subseteq visible[b]
    BY DEF GuardsInScope
  <2>1. UNION cachedBlockGuards[b] = GuardEdges(succ, b)
    BY DEF IInv, CacheInv, CachedOK, Meant
  <2>2. undeclared = {}
    BY DEF IInv, LoopInv
  <2>3. ASSUME NEW e \in GuardEdges(succ, b)  PROVE e \in visible[b]
    <3>1. e \in Edges(succ) /\ b \in Reach(succ, e[2])
      BY <2>3 DEF GuardEdges
    <3> QED BY <3>1, <2>2 DEF IInv, LoopInv
  <2> QED BY <2>1, <2>3
<1> QED BY <1>1, InvariantHolds, PTL
================================================================================
