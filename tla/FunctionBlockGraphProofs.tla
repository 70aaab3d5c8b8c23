------------------------ MODULE FunctionBlockGraphProofs ------------------------
(***************************************************************************)
(* The traversals of FunctionBlockGraph are correct on every graph.        *)
(***************************************************************************)
EXTENDS FunctionBlockGraph, TLAPS

\* The elements of a sequence are its head and those of its tail.
LEMMA HeadTail ==
    ASSUME NEW S, NEW q \in Seq(S), q # << >>
    PROVE  /\ Head(q) \in S
           /\ Tail(q) \in Seq(S)
           /\ Elements(q) = {Head(q)} \cup Elements(Tail(q))
<1>1. /\ Head(q) \in S /\ Tail(q) \in Seq(S) /\ Len(q) \in Nat \ {0}
      /\ Head(q) = q[1]
      /\ Len(Tail(q)) = Len(q) - 1
      /\ \A i \in 1 .. Len(q) - 1 : Tail(q)[i] = q[i + 1]
  OBVIOUS
<1>2. DOMAIN q = 1 .. Len(q) /\ DOMAIN Tail(q) = 1 .. Len(q) - 1
  BY <1>1
<1>3. Elements(Tail(q)) \subseteq Elements(q)
  BY <1>1, <1>2 DEF Elements
<1>4. Head(q) \in Elements(q)
  BY <1>1, <1>2 DEF Elements
<1>5. ASSUME NEW i \in 1 .. Len(q), i # 1  PROVE q[i] \in Elements(Tail(q))
  <2>1. i - 1 \in 1 .. Len(q) - 1 /\ Tail(q)[i - 1] = q[i]
    BY <1>1, <1>5
  <2> QED BY <2>1, <1>2 DEF Elements
<1>6. Elements(q) \subseteq {Head(q)} \cup Elements(Tail(q))
  BY <1>1, <1>2, <1>5 DEF Elements
<1> QED BY <1>1, <1>3, <1>4, <1>6

\* Dequeuing from a queue without repetitions removes exactly its head.
LEMMA TailRemoves ==
    ASSUME NEW S, NEW q \in Seq(S), q # << >>, NoRepetition(q)
    PROVE  /\ NoRepetition(Tail(q))
           /\ Elements(Tail(q)) = Elements(q) \ {Head(q)}
<1>1. /\ Tail(q) \in Seq(S) /\ Len(q) \in Nat \ {0}
      /\ Head(q) = q[1]
      /\ \A i \in 1 .. Len(q) - 1 : Tail(q)[i] = q[i + 1]
  OBVIOUS
<1>2. DOMAIN q = 1 .. Len(q) /\ DOMAIN Tail(q) = 1 .. Len(q) - 1
  BY <1>1
<1>3. NoRepetition(Tail(q))
  <2> SUFFICES ASSUME NEW i \in 1 .. Len(q) - 1, NEW j \in 1 .. Len(q) - 1,
                      Tail(q)[i] = Tail(q)[j]
               PROVE  i = j
    BY <1>2 DEF NoRepetition
  <2>1. q[i + 1] = q[j + 1] /\ i + 1 \in 1 .. Len(q) /\ j + 1 \in 1 .. Len(q)
    BY <1>1
  <2> QED BY <2>1, <1>2 DEF NoRepetition
<1>4. ASSUME NEW i \in 1 .. Len(q) - 1  PROVE Tail(q)[i] # Head(q)
  <2>1. Tail(q)[i] = q[i + 1] /\ i + 1 \in 1 .. Len(q) /\ 1 \in 1 .. Len(q) /\ i + 1 # 1
    BY <1>1
  <2> QED BY <2>1, <1>1, <1>2 DEF NoRepetition
<1>5. Head(q) \notin Elements(Tail(q))
  BY <1>2, <1>4 DEF Elements
<1> QED BY <1>3, <1>5, HeadTail

\* Appending adds one element, a repetition only if it was there.
LEMMA AppendAdds ==
    ASSUME NEW S, NEW q \in Seq(S), NEW x \in S
    PROVE  /\ Append(q, x) \in Seq(S)
           /\ Append(q, x) # << >>
           /\ Elements(Append(q, x)) = Elements(q) \cup {x}
           /\ NoRepetition(q) /\ x \notin Elements(q) => NoRepetition(Append(q, x))
           /\ q # << >> => Head(Append(q, x)) = Head(q)
<1> DEFINE r == Append(q, x)
<1>1. /\ r \in Seq(S) /\ Len(q) \in Nat /\ Len(r) = Len(q) + 1
      /\ r[Len(q) + 1] = x
      /\ \A i \in 1 .. Len(q) : r[i] = q[i]
  OBVIOUS
<1>2. DOMAIN q = 1 .. Len(q) /\ DOMAIN r = 1 .. Len(q) + 1
  BY <1>1
<1>3. Elements(q) \cup {x} \subseteq Elements(r)
  BY <1>1, <1>2 DEF Elements
<1>4. ASSUME NEW i \in 1 .. Len(q) + 1  PROVE r[i] \in Elements(q) \cup {x}
  <2>1. i \in 1 .. Len(q) \/ i = Len(q) + 1
    BY <1>1
  <2> QED BY <2>1, <1>1, <1>2 DEF Elements
<1>5. Elements(r) \subseteq Elements(q) \cup {x}
  BY <1>2, <1>4 DEF Elements
<1>6. ASSUME NoRepetition(q), x \notin Elements(q)  PROVE NoRepetition(r)
  <2> SUFFICES ASSUME NEW i \in 1 .. Len(q) + 1, NEW j \in 1 .. Len(q) + 1, r[i] = r[j]
               PROVE  i = j
    BY <1>2 DEF NoRepetition
  <2>1. \A k \in 1 .. Len(q) : r[k] = q[k] /\ q[k] # x
    BY <1>1, <1>2, <1>6 DEF Elements
  <2>2. CASE i \in 1 .. Len(q) /\ j \in 1 .. Len(q)
    BY <2>1, <2>2, <1>2, <1>6 DEF NoRepetition
  <2>3. CASE i = Len(q) + 1 /\ j = Len(q) + 1
    BY <2>3
  <2>4. CASE (i = Len(q) + 1) # (j = Len(q) + 1)
    BY <2>1, <2>4, <1>1
  <2> QED BY <2>2, <2>3, <2>4, <1>1
<1>7. q # << >> => Head(r) = Head(q)
  BY <1>1
<1> QED BY <1>1, <1>3, <1>5, <1>6, <1>7

--------------------------------------------------------------------------------
LEMMA InitIInv == Init => IInv
<1> SUFFICES ASSUME Init  PROVE IInv
  OBVIOUS
<1> QED BY EntryAssumption DEF Init, IInv, TypeOK, SearchInvariant, NothingPending, Methods

\* The successors of a block are blocks.
LEMMA SuccessorsAreBlocks ==
    ASSUME TypeOK, NEW b \in Block
    PROVE  succ[b] \in Seq(Block) /\ Successors(succ, b) = Elements(succ[b])
           /\ Successors(succ, b) \subseteq Block
<1>1. succ[b] \in Seq(Block)
  BY GraphsAssumption DEF TypeOK
<1>2. \A i \in DOMAIN succ[b] : succ[b][i] \in Block
  BY <1>1
<1> QED BY <1>1, <1>2 DEF Successors, Elements

LEMMA CallIInv ==
    ASSUME IInv, NEW b \in Block, GetPreviousBlocks(b) \/ GetAllSuccessorBlockNames(b)
    PROVE  IInv'
<1> USE DEF IInv
<1>1. TypeOK'
  <2>1. <<Entry>> \in Seq(Block) /\ <<b>> \in Seq(Block) /\ << >> \in Seq(Block)
    BY EntryAssumption
  <2>2. CASE GetPreviousBlocks(b)
    BY <2>1, <2>2, EntryAssumption DEF TypeOK, GetPreviousBlocks, Methods
  <2>3. CASE GetAllSuccessorBlockNames(b)
    BY <2>1, <2>3 DEF TypeOK, GetAllSuccessorBlockNames, Methods
  <2> QED BY <2>2, <2>3
<1>2. NothingPending'
  BY DEF NothingPending, GetPreviousBlocks, GetAllSuccessorBlockNames
<1>3. pending = << >>
  BY DEF NothingPending, GetPreviousBlocks, GetAllSuccessorBlockNames
<1>4. \A x \in Block : Elements(<<x>>) = {x} /\ NoRepetition(<<x>>) /\ Head(<<x>>) = x
  BY DEF Elements, NoRepetition
<1>5. Elements(<< >>) = {} /\ NoRepetition(<< >>)
  BY DEF Elements, NoRepetition
<1>6. CASE GetPreviousBlocks(b)
  <2> USE <1>6 DEF GetPreviousBlocks
  <2>1. /\ queue' = <<Entry>> /\ alreadySeen' = {Entry} /\ answer' = << >>
        /\ call' = <<"GetPreviousBlocks", b>> /\ pending' = << >> /\ status' = "running"
    BY <1>3
  <2>2. Start' = Entry /\ Expanded' = {} /\ Dequeued' = {}
    BY <2>1, <1>4, EntryAssumption DEF Start, Expanded, Dequeued
  <2> QED BY <1>1, <1>2, <1>4, <1>5, <2>1, <2>2, EntryAssumption DEF SearchInvariant
<1>7. CASE GetAllSuccessorBlockNames(b)
  <2> USE <1>7 DEF GetAllSuccessorBlockNames
  <2>1. /\ queue' = <<b>> /\ alreadySeen' = {b} /\ answer' = <<b>>
        /\ call' = <<"GetAllSuccessorBlockNames", b>> /\ pending' = << >> /\ status' = "running"
    BY <1>3
  <2>2. Start' = b /\ Expanded' = {} /\ Dequeued' = {}
    BY <2>1, <1>4 DEF Start, Expanded, Dequeued
  <2> QED BY <1>1, <1>2, <1>4, <1>5, <2>1, <2>2 DEF SearchInvariant
<1> QED BY <1>6, <1>7

LEMMA DequeueIInv ==
    ASSUME IInv, Dequeue
    PROVE  IInv'
<1> USE DEF IInv
<1> DEFINE c == Head(queue)
<1>1. /\ status = "running" /\ pending = << >> /\ queue # << >> /\ queue \in Seq(Block)
      /\ NoRepetition(queue) /\ c \in Block
  BY DEF Dequeue, TypeOK, SearchInvariant
<1>2. /\ Tail(queue) \in Seq(Block) /\ NoRepetition(Tail(queue))
      /\ Elements(Tail(queue)) = Elements(queue) \ {c}
      /\ c \in Elements(queue)
  BY <1>1, HeadTail, TailRemoves
<1>3. succ[c] \in Seq(Block) /\ Successors(succ, c) = Elements(succ[c])
  BY <1>1, SuccessorsAreBlocks
<1>4. c \notin Elements(answer) \/ call[1] # "GetPreviousBlocks"
  BY <1>1, <1>2 DEF SearchInvariant, Dequeued
<1>5. /\ answer' \in Seq(Block)
      /\ NoRepetition(answer')
      /\ call[1] = "GetPreviousBlocks" =>
            Elements(answer') = IF call[2] \in Successors(succ, c)
                                THEN Elements(answer) \cup {c} ELSE Elements(answer)
      /\ call[1] = "GetAllSuccessorBlockNames" => answer' = answer
  <2>1. answer \in Seq(Block) /\ NoRepetition(answer)
    BY <1>1 DEF TypeOK, SearchInvariant
  <2>2. /\ Append(answer, c) \in Seq(Block)
        /\ Elements(Append(answer, c)) = Elements(answer) \cup {c}
        /\ c \notin Elements(answer) => NoRepetition(Append(answer, c))
    BY <1>1, <2>1, AppendAdds
  <2>3. answer' = IF call[1] = "GetPreviousBlocks" /\ call[2] \in Successors(succ, c)
                  THEN Append(answer, c) ELSE answer
    BY DEF Dequeue
  <2> QED BY <1>4, <2>1, <2>2, <2>3
<1>6. TypeOK'
  BY <1>1, <1>2, <1>3, <1>5 DEF Dequeue, TypeOK
<1>7. Dequeued' = Dequeued \cup {c}
  BY <1>1, <1>2 DEF Dequeue, Dequeued, SearchInvariant
<1>8. pending' # << >> => Expanded' = Expanded
  BY <1>1, <1>2 DEF Dequeue, Expanded
<1>9. pending' # << >> =>
          /\ current' \in Dequeued'
          /\ Elements(pending') \subseteq Successors(succ, current')
          /\ Successors(succ, current') \subseteq alreadySeen' \cup Elements(pending')
  BY <1>3, <1>7 DEF Dequeue
<1>10. \A b \in Expanded' : Successors(succ, b) \subseteq alreadySeen'
  <2>1. CASE succ[c] = << >>
    <3>1. Successors(succ, c) = {}
      BY <2>1 DEF Successors
    <3>2. Expanded' \subseteq Expanded \cup {c} /\ alreadySeen' = alreadySeen
      BY <1>1, <1>2 DEF Dequeue, Expanded
    <3> QED BY <1>1, <3>1, <3>2 DEF SearchInvariant
  <2>2. CASE succ[c] # << >>
    BY <1>1, <1>8, <2>2 DEF SearchInvariant, Dequeue
  <2> QED BY <2>1, <2>2
<1>11. call[1] = "GetPreviousBlocks" =>
          Elements(answer') = {p \in Dequeued' : call[2] \in Successors(succ, p)}
  BY <1>1, <1>5, <1>7 DEF SearchInvariant
<1>12. Start' = Start /\ alreadySeen' = alreadySeen /\ succ' = succ /\ call' = call
       /\ status' = "running" /\ queue' = Tail(queue)
  BY <1>1 DEF Dequeue, Start
<1>13. SearchInvariant'
  BY <1>1, <1>2, <1>5, <1>9, <1>10, <1>11, <1>12 DEF SearchInvariant
<1>14. NothingPending'
  BY <1>1 DEF Dequeue, NothingPending
<1> QED BY <1>6, <1>13, <1>14

LEMMA ExamineIInv ==
    ASSUME IInv, Examine
    PROVE  IInv'
<1> USE DEF IInv
<1> DEFINE h == Head(pending)
<1>1. /\ status = "running" /\ pending # << >> /\ pending \in Seq(Block)
      /\ queue \in Seq(Block) /\ answer \in Seq(Block)
      /\ succ' = succ /\ call' = call /\ current' = current /\ status' = status
      /\ pending' = Tail(pending)
  BY DEF Examine, TypeOK
<1>2. /\ h \in Block /\ Tail(pending) \in Seq(Block)
      /\ Elements(pending) = {h} \cup Elements(Tail(pending))
  BY <1>1, HeadTail
<1>3. h \in Successors(succ, current) /\ current \in Dequeued /\ current \in alreadySeen
  BY <1>1, <1>2 DEF SearchInvariant, Dequeued
<1>4. \A S \in SUBSET Block : Start \in S /\ Closed(succ, S) => alreadySeen \cup {h} \subseteq S
  <2> SUFFICES ASSUME NEW S \in SUBSET Block, Start \in S, Closed(succ, S)
               PROVE  alreadySeen \cup {h} \subseteq S
    OBVIOUS
  <2>1. alreadySeen \subseteq S
    BY <1>1 DEF SearchInvariant
  <2> QED BY <2>1, <1>3 DEF Closed
<1>5. Start' = Start
  BY <1>1 DEF Start
<1>6. NothingPending'
  BY <1>1 DEF NothingPending
<1>7. CASE h \in alreadySeen
  <2>1. UNCHANGED <<queue, alreadySeen, answer>>
    BY <1>7 DEF Examine
  <2>2. TypeOK'
    BY <1>1, <1>2, <2>1 DEF TypeOK
  <2>3. Dequeued' = Dequeued /\ Expanded' \subseteq Expanded \cup {current}
    BY <2>1, <1>1 DEF Dequeued, Expanded
  <2>4. Successors(succ, current) \subseteq alreadySeen \cup Elements(Tail(pending))
    BY <1>1, <1>2, <1>7 DEF SearchInvariant
  <2>5. Tail(pending) = << >> => Elements(Tail(pending)) = {}
    BY DEF Elements
  <2>6. Tail(pending) # << >> => Expanded' = Expanded
    BY <1>1, <2>1 DEF Expanded
  <2>7. \A b \in Expanded' : Successors(succ, b) \subseteq alreadySeen
    BY <1>1, <2>3, <2>4, <2>5, <2>6 DEF SearchInvariant
  <2>8. SearchInvariant'
    BY <1>1, <1>2, <1>5, <2>1, <2>3, <2>4, <2>7 DEF SearchInvariant
  <2> QED BY <1>6, <2>2, <2>8
<1>8. CASE h \notin alreadySeen
  <2>1. /\ alreadySeen' = alreadySeen \cup {h}
        /\ queue' = Append(queue, h)
        /\ call[1] = "GetAllSuccessorBlockNames" => answer' = Append(answer, h)
        /\ call[1] # "GetAllSuccessorBlockNames" => answer' = answer
    BY <1>8 DEF Examine
  <2>2. h \notin Elements(queue)
    BY <1>1, <1>8 DEF SearchInvariant
  <2>3. /\ queue' \in Seq(Block) /\ NoRepetition(queue')
        /\ Elements(queue') = Elements(queue) \cup {h}
    BY <1>1, <1>2, <2>1, <2>2, AppendAdds DEF SearchInvariant
  <2>4. call[1] = "GetAllSuccessorBlockNames" =>
            /\ answer' \in Seq(Block) /\ NoRepetition(answer') /\ answer' # << >>
            /\ Elements(answer') = alreadySeen' /\ Head(answer') = call[2]
    <3>1. call[1] = "GetAllSuccessorBlockNames" =>
            /\ Elements(answer) = alreadySeen /\ answer # << >> /\ Head(answer) = call[2]
      BY <1>1 DEF SearchInvariant
    <3>2. NoRepetition(answer)
      BY <1>1 DEF SearchInvariant
    <3>3. /\ Append(answer, h) \in Seq(Block) /\ Append(answer, h) # << >>
          /\ Elements(Append(answer, h)) = Elements(answer) \cup {h}
          /\ h \notin Elements(answer) => NoRepetition(Append(answer, h))
          /\ answer # << >> => Head(Append(answer, h)) = Head(answer)
      BY <1>1, <1>2, <3>2, AppendAdds
    <3> QED BY <1>8, <2>1, <3>1, <3>3
  <2>5. TypeOK'
    BY <1>1, <1>2, <2>1, <2>3, <2>4 DEF TypeOK
  <2>6. Dequeued' = Dequeued /\ Expanded' \subseteq Expanded \cup {current}
    BY <1>1, <1>8, <2>1, <2>3 DEF Dequeued, Expanded
  <2>7. Successors(succ, current) \subseteq alreadySeen' \cup Elements(Tail(pending))
    BY <1>1, <1>2, <2>1 DEF SearchInvariant
  <2>8. Tail(pending) = << >> => Elements(Tail(pending)) = {}
    BY DEF Elements
  <2>9. Tail(pending) # << >> => Expanded' \subseteq Expanded
    BY <1>1, <1>8, <2>1, <2>3 DEF Expanded
  <2>10. \A b \in Expanded' : Successors(succ, b) \subseteq alreadySeen'
    BY <1>1, <2>1, <2>6, <2>7, <2>8, <2>9 DEF SearchInvariant
  <2>11. call[1] = "GetPreviousBlocks" => call[1] # "GetAllSuccessorBlockNames"
    OBVIOUS
  <2>12. NoRepetition(answer')
    BY <1>1, <2>1, <2>4 DEF SearchInvariant
  <2>13. Elements(queue') \subseteq alreadySeen'
    BY <1>1, <2>1, <2>3 DEF SearchInvariant
  <2>14. Elements(Tail(pending)) \subseteq Successors(succ, current)
    BY <1>1, <1>2 DEF SearchInvariant
  <2>15. Start \in alreadySeen'
    BY <1>1, <2>1 DEF SearchInvariant
  <2>16. call[1] = "GetPreviousBlocks" =>
            Elements(answer') = {p \in Dequeued' : call[2] \in Successors(succ, p)}
    BY <1>1, <2>1, <2>6, <2>11 DEF SearchInvariant
  <2>17. status' # "returned"
    BY <1>1
  <2>18. SearchInvariant'
    BY <1>1, <1>3, <1>4, <1>5, <2>1, <2>3, <2>4, <2>6, <2>7, <2>10, <2>12, <2>13, <2>14,
       <2>15, <2>16, <2>17 DEF SearchInvariant
  <2> QED BY <1>6, <2>5, <2>18
<1> QED BY <1>7, <1>8

LEMMA ReturnIInv ==
    ASSUME IInv, Return
    PROVE  IInv'
BY DEF IInv, Return, TypeOK, SearchInvariant, NothingPending, Start, Expanded, Dequeued

LEMMA StutterIInv ==
    ASSUME IInv, UNCHANGED vars
    PROVE  IInv'
BY DEF vars, IInv, TypeOK, SearchInvariant, NothingPending, Start, Expanded, Dequeued

\* Every reachable state of the two traversals satisfies the half-way
\* invariant, whatever the graph.
THEOREM SearchCorrect == Spec => []IInv
<1>1. Init => IInv
  BY InitIInv
<1>2. IInv /\ [Next]_vars => IInv'
  BY CallIInv, DequeueIInv, ExamineIInv, ReturnIInv, StutterIInv DEF Next
<1> QED BY <1>1, <1>2, PTL DEF Spec

\* At a return everything seen has been expanded, so the blocks seen are
\* closed and are exactly the blocks the start reaches.
LEMMA SeenIsReach ==
    ASSUME IInv, status = "returned"
    PROVE  alreadySeen = Reach(succ, Start) /\ Dequeued = alreadySeen
<1>1. queue = << >> /\ pending = << >>
  BY DEF IInv, SearchInvariant
<1>2. Elements(queue) = {}
  BY <1>1 DEF Elements
<1>3. Expanded = alreadySeen /\ Dequeued = alreadySeen
  BY <1>1, <1>2 DEF Expanded, Dequeued
<1>4. Closed(succ, alreadySeen)
  BY <1>3 DEF IInv, SearchInvariant, Closed
<1>5. alreadySeen \subseteq Block /\ Start \in alreadySeen
  BY DEF IInv, TypeOK, SearchInvariant
<1>6. alreadySeen \subseteq Reach(succ, Start)
  BY <1>5 DEF IInv, SearchInvariant, Reach
<1>7. Reach(succ, Start) \subseteq alreadySeen
  BY <1>4, <1>5 DEF Reach
<1> QED BY <1>3, <1>6, <1>7

\* GetPreviousBlocks returns exactly the reachable predecessors, each once,
\* on every control flow graph.
THEOREM PreviousBlocksCorrect == Spec => []PreviousBlocksExact
<1>1. IInv => PreviousBlocksExact
  <2> SUFFICES ASSUME IInv, status = "returned", call[1] = "GetPreviousBlocks"
               PROVE  /\ Elements(answer) = ReachablePredecessors(succ, call[2])
                      /\ NoRepetition(answer)
    BY DEF PreviousBlocksExact
  <2>1. Start = Entry
    BY DEF Start
  <2>2. Dequeued = Reach(succ, Entry)
    BY <2>1, SeenIsReach
  <2> QED BY <2>2 DEF IInv, SearchInvariant, ReachablePredecessors
<1> QED BY <1>1, SearchCorrect, PTL

\* GetAllSuccessorBlockNames returns exactly the blocks its argument reaches,
\* each once and the argument first, on every control flow graph.
THEOREM AllSuccessorsCorrect == Spec => []AllSuccessorsExact
<1>1. IInv => AllSuccessorsExact
  <2> SUFFICES ASSUME IInv, status = "returned", call[1] = "GetAllSuccessorBlockNames"
               PROVE  /\ Elements(answer) = Reach(succ, call[2])
                      /\ NoRepetition(answer)
                      /\ Head(answer) = call[2]
    BY DEF AllSuccessorsExact
  <2>1. Start = call[2]
    BY DEF Start
  <2> QED BY <2>1, SeenIsReach DEF IInv, SearchInvariant
<1> QED BY <1>1, SearchCorrect, PTL
================================================================================
