-------------------------- MODULE FunctionBlockGraph ---------------------------
(***************************************************************************)
(* The two breadth-first traversals of FunctionBlockGraph.cpp, one step    *)
(* per dequeued block and one per successor looked at.                     *)
(*                                                                         *)
(* GetPreviousBlocks(b) walks the graph from the entry and collects every  *)
(* block that has b among its successors.  GetAllSuccessorBlockNames(b)    *)
(* walks it from b and collects every block it meets, b first;             *)
(* GetAllBlockNames is the second one called with the entry.               *)
(***************************************************************************)
EXTENDS ControlFlow

CONSTANT Graphs     \* the control flow graphs considered

ASSUME GraphsAssumption == Graphs \subseteq [Block -> Seq(Block)]

VARIABLES
    succ,           \* the graph, fixed for the life of the object
    call,           \* the method running or last run, with its argument
    queue,          \* blocks seen whose successors have not been looked at
    current,        \* curr: the block whose successors are being looked at
    pending,        \* its successors still to be looked at
    alreadySeen,    \* alreadySeen of one method, the set of blocks of the other
    answer,         \* previousBlocks of one method, blocks of the other
    status          \* "idle", "running" or "returned"

vars == <<succ, call, queue, current, pending, alreadySeen, answer, status>>

Elements(s) == {s[i] : i \in DOMAIN s}

NoRepetition(s) == \A i, j \in DOMAIN s : s[i] = s[j] => i = j

Methods == {"GetPreviousBlocks", "GetAllSuccessorBlockNames"}

Init ==
    /\ succ \in Graphs
    /\ call = <<"GetAllSuccessorBlockNames", Entry>>
    /\ queue = << >>
    /\ current = Entry
    /\ pending = << >>
    /\ alreadySeen = {}
    /\ answer = << >>
    /\ status = "idle"

\* Mutant: the block the search starts from is not marked.
GetPreviousBlocksUnmarked(b) ==
    /\ status # "running"
    /\ call' = <<"GetPreviousBlocks", b>>
    /\ queue' = <<Entry>>
    /\ alreadySeen' = {}
    /\ answer' = << >>
    /\ status' = "running"
    /\ UNCHANGED <<succ, current, pending>>

GetPreviousBlocks(b) ==
    /\ status # "running"
    /\ call' = <<"GetPreviousBlocks", b>>
    /\ queue' = <<Entry>>
    /\ alreadySeen' = {Entry}
    /\ answer' = << >>
    /\ status' = "running"
    /\ UNCHANGED <<succ, current, pending>>

\* Mutant: the same.
GetAllSuccessorBlockNamesUnmarked(b) ==
    /\ status # "running"
    /\ call' = <<"GetAllSuccessorBlockNames", b>>
    /\ queue' = <<b>>
    /\ alreadySeen' = {}
    /\ answer' = <<b>>
    /\ status' = "running"
    /\ UNCHANGED <<succ, current, pending>>

GetAllSuccessorBlockNames(b) ==
    /\ status # "running"
    /\ call' = <<"GetAllSuccessorBlockNames", b>>
    /\ queue' = <<b>>
    /\ alreadySeen' = {b}
    /\ answer' = <<b>>
    /\ status' = "running"
    /\ UNCHANGED <<succ, current, pending>>

\* Mutant: a block is not reported as its own predecessor.
DequeueIgnoresSelf ==
    /\ status = "running"
    /\ pending = << >>
    /\ queue # << >>
    /\ current' = Head(queue)
    /\ queue' = Tail(queue)
    /\ pending' = succ[Head(queue)]
    /\ answer' = IF call[1] = "GetPreviousBlocks"
                    /\ call[2] \in Successors(succ, Head(queue)) \ {Head(queue)}
                 THEN Append(answer, Head(queue))
                 ELSE answer
    /\ UNCHANGED <<succ, call, alreadySeen, status>>

\* Take the block at the head of the queue and ask for its successors;
\* GetPreviousBlocks records it when the target is one of them.
Dequeue ==
    /\ status = "running"
    /\ pending = << >>
    /\ queue # << >>
    /\ current' = Head(queue)
    /\ queue' = Tail(queue)
    /\ pending' = succ[Head(queue)]
    /\ answer' = IF call[1] = "GetPreviousBlocks"
                    /\ call[2] \in Successors(succ, Head(queue))
                 THEN Append(answer, Head(queue))
                 ELSE answer
    /\ UNCHANGED <<succ, call, alreadySeen, status>>

\* Mutant: the loop does not move past a block already seen.
ExamineStuck ==
    /\ status = "running"
    /\ pending # << >>
    /\ IF Head(pending) \in alreadySeen
       THEN UNCHANGED <<queue, alreadySeen, answer, pending>>
       ELSE /\ pending' = Tail(pending)
            /\ alreadySeen' = alreadySeen \cup {Head(pending)}
            /\ queue' = Append(queue, Head(pending))
            /\ answer' = IF call[1] = "GetAllSuccessorBlockNames"
                         THEN Append(answer, Head(pending))
                         ELSE answer
    /\ UNCHANGED <<succ, call, current, status>>

\* Look at the next successor: a block not seen before is marked and queued,
\* and GetAllSuccessorBlockNames reports it.
Examine ==
    /\ status = "running"
    /\ pending # << >>
    /\ pending' = Tail(pending)
    /\ IF Head(pending) \in alreadySeen
       THEN UNCHANGED <<queue, alreadySeen, answer>>
       ELSE /\ alreadySeen' = alreadySeen \cup {Head(pending)}
            /\ queue' = Append(queue, Head(pending))
            /\ answer' = IF call[1] = "GetAllSuccessorBlockNames"
                         THEN Append(answer, Head(pending))
                         ELSE answer
    /\ UNCHANGED <<succ, call, current, status>>

Return ==
    /\ status = "running"
    /\ pending = << >>
    /\ queue = << >>
    /\ status' = "returned"
    /\ UNCHANGED <<succ, call, queue, current, pending, alreadySeen, answer>>

Next ==
    \/ \E b \in Block : GetPreviousBlocks(b) \/ GetAllSuccessorBlockNames(b)
    \/ Dequeue
    \/ Examine
    \/ Return

\* The loops of the two methods run without waiting for anything.
Fairness == WF_vars(Dequeue) /\ WF_vars(Examine) /\ WF_vars(Return)

Spec == Init /\ [][Next]_vars /\ Fairness

--------------------------------------------------------------------------------
\* Every variable stays within its type.
TypeOK ==
    /\ succ \in Graphs
    /\ call \in Methods \X Block
    /\ queue \in Seq(Block)
    /\ current \in Block
    /\ pending \in Seq(Block)
    /\ alreadySeen \subseteq Block
    /\ answer \in Seq(Block)
    /\ status \in {"idle", "running", "returned"}

\* What GetPreviousBlocks returns is every predecessor of its argument that
\* the entry reaches, and each of them once: StartBlock folds the list into
\* the environment of the block and getBlockGuard into its guard.
PreviousBlocksExact ==
    status = "returned" /\ call[1] = "GetPreviousBlocks" =>
        /\ Elements(answer) = ReachablePredecessors(succ, call[2])
        /\ NoRepetition(answer)

\* What GetAllSuccessorBlockNames returns is every block its argument
\* reaches, each once and the argument first: a transition guard becomes
\* visible in exactly these blocks.
AllSuccessorsExact ==
    status = "returned" /\ call[1] = "GetAllSuccessorBlockNames" =>
        /\ Elements(answer) = Reach(succ, call[2])
        /\ NoRepetition(answer)
        /\ Head(answer) = call[2]

\* On a graph with cycles too, a call that starts returns.
CallsReturn == status = "running" ~> status = "returned"

--------------------------------------------------------------------------------
\* The blocks whose successors have all been looked at.
Expanded ==
    alreadySeen \ (Elements(queue) \cup (IF pending = << >> THEN {} ELSE {current}))

\* The blocks dequeued so far.
Dequeued == alreadySeen \ Elements(queue)

Start == IF call[1] = "GetPreviousBlocks" THEN Entry ELSE call[2]

\* Breadth-first search, half way: every block seen is reachable, it is
\* queued at most once and reported at most once, and no edge from an expanded
\* block leads out of the blocks seen.
SearchInvariant ==
    status # "idle" =>
        /\ Start \in alreadySeen
        /\ \A S \in SUBSET Block : Start \in S /\ Closed(succ, S) => alreadySeen \subseteq S
        /\ Elements(queue) \subseteq alreadySeen
        /\ NoRepetition(queue)
        /\ \A b \in Expanded : Successors(succ, b) \subseteq alreadySeen
        /\ pending # << >> =>
              /\ current \in Dequeued
              /\ Elements(pending) \subseteq Successors(succ, current)
              /\ Successors(succ, current) \subseteq alreadySeen \cup Elements(pending)
        /\ NoRepetition(answer)
        /\ call[1] = "GetPreviousBlocks" =>
              Elements(answer) = {p \in Dequeued : call[2] \in Successors(succ, p)}
        /\ call[1] = "GetAllSuccessorBlockNames" =>
              /\ Elements(answer) = alreadySeen
              /\ answer # << >>
              /\ Head(answer) = call[2]
        /\ status = "returned" => queue = << >> /\ pending = << >>

\* A search that has been idle holds nothing over; the next call starts clean.
NothingPending == status # "running" => queue = << >> /\ pending = << >>

\* The inductive invariant of the two traversals: in the middle of a search and
\* between two calls, from which the answers follow when a search returns.
IInv == TypeOK /\ SearchInvariant /\ NothingPending
================================================================================
