------------------------------ MODULE BlockGuards ------------------------------
(***************************************************************************)
(* The guards of the basic blocks: VariablesEnvironment::                  *)
(* initializeBlockGuards and the recursive getBlockGuard it calls, which   *)
(* run when the first block is started.                                    *)
(*                                                                         *)
(* Each control flow edge gets a boolean, its transition guard, visible in *)
(* the target of the edge and in every block the target reaches.  Each     *)
(* block gets a guard over these booleans: "true" for the entry, and       *)
(* otherwise one disjunct per predecessor, the guard of the predecessor    *)
(* and the transition guard of the edge.  The code writes the guard as a   *)
(* formula; here it is a set of disjuncts, each a set of edges.            *)
(*                                                                         *)
(* getBlockGuard recurses over the predecessors, so its calls are a stack  *)
(* of frames.  The lists of blocks it works through are the answers of the *)
(* traversals of FunctionBlockGraph; they are sets here, taken in any      *)
(* order, which is what the theorems about the traversals allow.           *)
(***************************************************************************)
EXTENDS ControlFlow

CONSTANTS
    Graphs,         \* the control flow graphs considered; LLVM lets no jump lead to
                    \* the entry
    StackLimit      \* calls of getBlockGuard that the thread's stack holds

ASSUME GraphsAssumption == Graphs \subseteq [Block -> Seq(Block)]
ASSUME EntryFirstAssumption ==
    \A g \in Graphs, b \in Block : Entry \notin Successors(g, b)
ASSUME StackLimitAssumption == StackLimit \in Nat \ {0}

VARIABLES
    succ,           \* the control flow graph
    undeclared,     \* edges whose transition guard is still to be declared
    visible,        \* transition guards in variablesValuesPerBlock of each block
    unguarded,      \* blocks whose __block__ binder is still to be created
    stack,          \* the running calls of getBlockGuard, the outermost first
    cachedBlockGuards,
    status          \* "running", "done" or "overflow"

vars == <<succ, undeclared, visible, unguarded, stack, cachedBlockGuards, status>>

True == {{}}

\* Mutant: the guard of the predecessor is left out.
ConjoinEdgeOnly(guard, edge) == {{edge}}

Conjoin(guard, edge) == {disjunct \cup {edge} : disjunct \in guard}

\* A guard is true when the transitions in T are exactly those taken.
Holds(guard, T) == \E disjunct \in guard : disjunct \subseteq T

Cached == DOMAIN cachedBlockGuards

Top == stack[Len(stack)]

Init ==
    /\ succ \in Graphs
    /\ undeclared = Edges(succ)
    /\ visible = [b \in Block |-> {}]
    /\ unguarded = Reach(succ, Entry)
    /\ stack = << >>
    /\ cachedBlockGuards = << >>
    /\ status = "running"

\* Mutants: the target is made visible instead of the transition guard, or the
\* guard is visible in the target alone.
DeclareTarget(e) ==
    /\ undeclared' = undeclared \ {e}
    /\ visible' = [b \in Block |->
                     IF b \in Reach(succ, e[2]) THEN visible[b] \cup {e[2]} ELSE visible[b]]
    /\ UNCHANGED <<succ, unguarded, stack, cachedBlockGuards, status>>

DeclareInTargetOnly(e) ==
    /\ undeclared' = undeclared \ {e}
    /\ visible' = [visible EXCEPT ![e[2]] = @ \cup {e}]
    /\ UNCHANGED <<succ, unguarded, stack, cachedBlockGuards, status>>

\* First loop: create the binder of the edge's transition guard and add it to
\* the environment of the target and of all that the target reaches.
DeclareTransition(e) ==
    /\ undeclared' = undeclared \ {e}
    /\ visible' = [b \in Block |->
                     IF b \in Reach(succ, e[2]) THEN visible[b] \cup {e} ELSE visible[b]]
    /\ UNCHANGED <<succ, unguarded, stack, cachedBlockGuards, status>>

\* A call of getBlockGuard for a block that has no cached guard.
Frame(b) ==
    IF b = Entry
    THEN [block |-> b, predecessors |-> {}, guard |-> True]
    ELSE [block |-> b, predecessors |-> ReachablePredecessors(succ, b), guard |-> {}]

Push(b) ==
    IF Len(stack) < StackLimit
    THEN stack' = Append(stack, Frame(b)) /\ UNCHANGED status
    ELSE status' = "overflow" /\ UNCHANGED stack

\* Second loop: ask for the guard of the next block ...
CallGetBlockGuard(b) ==
    /\ undeclared = {}
    /\ stack = << >>
    /\ b \notin Cached
    /\ Push(b)
    /\ UNCHANGED <<succ, undeclared, visible, unguarded, cachedBlockGuards>>

\* ... and create its binder once the guard is known.
CreateBlockBinder(b) ==
    /\ undeclared = {}
    /\ stack = << >>
    /\ b \in Cached
    /\ unguarded' = unguarded \ {b}
    /\ status' = IF unguarded' = {} THEN "done" ELSE status
    /\ UNCHANGED <<succ, undeclared, visible, stack, cachedBlockGuards>>

\* The innermost call has p's guard, from the cache or, on a one-block loop,
\* as the transition guard itself, and adds a disjunct for the edge from p.
AddDisjunct(p) ==
    /\ p = Top.block \/ p \in Cached
    /\ LET edge == <<p, Top.block>>
           entryGuard == IF p = Top.block THEN {{edge}} ELSE cachedBlockGuards[p]
       IN  stack' = [stack EXCEPT ![Len(stack)] =
              [block |-> Top.block,
               predecessors |-> Top.predecessors \ {p},
               guard |-> Top.guard \cup Conjoin(entryGuard, edge)]]
    /\ UNCHANGED <<succ, undeclared, visible, unguarded, cachedBlockGuards, status>>

\* Mutant: a one-block loop is not told from other predecessors.
RecurseIntoSelf(p) ==
    /\ p \notin Cached
    /\ Push(p)
    /\ UNCHANGED <<succ, undeclared, visible, unguarded, cachedBlockGuards>>

\* It has not: getBlockGuard calls itself.
Recurse(p) ==
    /\ p # Top.block
    /\ p \notin Cached
    /\ Push(p)
    /\ UNCHANGED <<succ, undeclared, visible, unguarded, cachedBlockGuards>>

\* Mutant: the guard is not cached.
ReturnUncached ==
    /\ Top.predecessors = {}
    /\ stack' = SubSeq(stack, 1, Len(stack) - 1)
    /\ UNCHANGED <<succ, undeclared, visible, unguarded, cachedBlockGuards, status>>

\* All predecessors are done: cache the guard and return.
ReturnGuard ==
    /\ Top.predecessors = {}
    /\ cachedBlockGuards' = [b \in Cached \cup {Top.block} |->
                               IF b = Top.block THEN Top.guard ELSE cachedBlockGuards[b]]
    /\ stack' = SubSeq(stack, 1, Len(stack) - 1)
    /\ UNCHANGED <<succ, undeclared, visible, unguarded, status>>

GetBlockGuardStep ==
    /\ stack # << >>
    /\ \/ \E p \in Top.predecessors : AddDisjunct(p) \/ Recurse(p)
       \/ ReturnGuard

Next ==
    /\ status = "running"
    /\ \/ \E e \in undeclared : DeclareTransition(e)
       \/ \E b \in unguarded : CallGetBlockGuard(b) \/ CreateBlockBinder(b)
       \/ GetBlockGuardStep

\* One thread runs the two loops and the recursion without waiting.
Spec == Init /\ [][Next]_vars /\ WF_vars(Next)

--------------------------------------------------------------------------------
Guard == SUBSET SUBSET (Block \X Block)

\* Every variable stays within its type.
TypeOK ==
    /\ succ \in Graphs
    /\ undeclared \subseteq Block \X Block
    /\ visible \in [Block -> SUBSET (Block \X Block)]
    /\ unguarded \subseteq Block
    /\ stack \in Seq([block : Block, predecessors : SUBSET Block, guard : Guard])
    /\ Cached \subseteq Block
    /\ cachedBlockGuards \in [Cached -> Guard]
    /\ status \in {"running", "done", "overflow"}

\* getBlockGuard never calls itself for a block whose guard is being computed,
\* when the only cycles are one-block loops: the cache is written after the
\* recursion, so only the shape of the graph can stop it.
NoReentrance ==
    (\E i, j \in DOMAIN stack : i # j /\ stack[i].block = stack[j].block) =>
        ~OnlySelfLoops(succ)

\* The recursion is never deeper than the function has blocks.
StackBounded == Len(stack) <= Cardinality(Block)

\* The blocks that the edges in T lead to from the entry.
Visited(T) ==
    {b \in Block : \A S \in SUBSET Block :
        Entry \in S /\ (\A e \in T : e[1] \in S => e[2] \in S) => b \in S}

\* Whatever transitions an execution takes, the guard of every block it visits
\* is true: a false guard would remove the block's constraints from the proof.
\* On a graph without cycles it is true of no other block: nothing is checked
\* or assumed for a block that is not run.
GuardsExact ==
    status = "done" =>
        \A T \in SUBSET Edges(succ) :
            /\ \A b \in Visited(T) : Holds(cachedBlockGuards[b], T)
            /\ (\A b \in Block : b \notin Successors(succ, b)) =>
                  \A b \in Cached \ Visited(T) : ~Holds(cachedBlockGuards[b], T)

\* The formula of a block's guard mentions only transition guards that the
\* first loop made visible in that block, and of these all but the entry's.
GuardsInScope ==
    \A b \in Cached :
        /\ UNION cachedBlockGuards[b] \subseteq visible[b]
        /\ UNION cachedBlockGuards[b] = GuardEdges(succ, b)

\* The guards are computed to the end, unless the graph has a longer cycle.
Completes == <>(status = "done" \/ (status = "overflow" /\ ~OnlySelfLoops(succ)))
================================================================================
