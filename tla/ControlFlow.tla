------------------------------ MODULE ControlFlow ------------------------------
(***************************************************************************)
(* Control flow graphs as the refinement checker sees them: the interface  *)
(* FunctionBlockGraph, whose implementation over an LLVM function is       *)
(* LLVMFunctionBlockGraph.  A graph is a function succ that gives each     *)
(* block the sequence of its successors, in terminator order and with      *)
(* repetitions (both targets of a conditional branch may be one block).    *)
(* Reachability and its kin are defined here without an algorithm, as what *)
(* the traversals of FunctionBlockGraph are to be compared with.           *)
(***************************************************************************)
EXTENDS Naturals, Sequences, FiniteSets

CONSTANTS
    Block,      \* the basic blocks of the function
    Entry       \* the block named "entry"

ASSUME EntryAssumption == Entry \in Block

\* GetSuccessorBlocks, with the order and the repetitions forgotten.
Successors(succ, b) == {succ[b][i] : i \in DOMAIN succ[b]}

\* A set of blocks that no edge leaves.
Closed(succ, S) == \A b \in S : Successors(succ, b) \subseteq S

\* The blocks that a path from b reaches: the least closed set that holds b.
Reach(succ, b) ==
    {c \in Block : \A S \in SUBSET Block : b \in S /\ Closed(succ, S) => c \in S}

\* The predecessors of b among the blocks the entry reaches.
ReachablePredecessors(succ, b) ==
    {p \in Reach(succ, Entry) : b \in Successors(succ, p)}

\* The edges of the part of the graph that the entry reaches.
Edges(succ) ==
    {e \in Block \X Block :
        e[1] \in Reach(succ, Entry) /\ e[2] \in Successors(succ, e[1])}

\* The edges whose transition guards occur in the guard of block b: all those
\* on the ways to b.  The guard of the entry is "true".
GuardEdges(succ, b) ==
    IF b = Entry THEN {} ELSE {e \in Edges(succ) : b \in Reach(succ, e[2])}

\* No cycle passes through two different blocks (one-block loops are allowed).
OnlySelfLoops(succ) ==
    \A b, c \in Reach(succ, Entry) :
        c \in Reach(succ, b) /\ b \in Reach(succ, c) => b = c

\* A path leads from the entry to b that passes through no block of S.
Avoids(succ, S, b) ==
    LET avoiding == [c \in Block |-> IF c \in S THEN << >> ELSE succ[c]]
    IN  Entry \notin S /\ b \notin S /\ b \in Reach(avoiding, Entry)

\* a lies on every path from the entry to b.
Dominates(succ, a, b) == ~Avoids(succ, {a}, b)

StrictlyDominates(succ, a, b) == a # b /\ Dominates(succ, a, b)

\* A branch, a jump or a return: the terminators the checker accepts.
Terminators == {<< >>} \cup {<<b>> : b \in Block} \cup {<<b, c>> : b, c \in Block}
================================================================================
