------------------------ MODULE CheckerPipelineProofs ------------------------
(***************************************************************************)
(* Safety of the passes, for modules of any functions: signatures are      *)
(* complete and hold every parameter once, an accepted module has been     *)
(* proved function by function, and the passes implement RefinementVerdict.*)
(*                                                                         *)
(* The argument follows a function through the three loops.  The copy of   *)
(* the signatures in runOnModule is settled by the first and left alone by *)
(* the second, while the signature pass spoils its own map; so every query *)
(* has its parameters once and relies on annotated functions with a body,  *)
(* which the third loop does not leave before a solver has proved them.    *)
(***************************************************************************)
EXTENDS CheckerPipeline, TLAPS

\* A phase has done its work on f.
Gathered(f) == phase # "signatures" \/ f \notin pending
Analysed(f) == phase \in {"checks", "done"} \/ (phase = "constraints" /\ f \notin pending)
Checked(f) == phase = "done" \/ (phase = "checks" /\ f \notin pending)

\* The query asked of f.
QueryOf(f) == RI[f].ConstraintGenerator

Statuses == {"none", "running", "safe", "unsafe", "crashed"}

ModuleInv ==
    /\ defined \subseteq Function
    /\ annotated \subseteq Function
    /\ malformed \subseteq annotated
    /\ phase \in {"signatures", "constraints", "checks", "done"}
    /\ pending \subseteq Function
    /\ verdict \in {"undecided", "accepted", "rejected"}
    /\ verdict = "accepted" => phase = "done"

\* The signature of f after one run of the pass.
FirstSignature(f) ==
    IF f \notin defined THEN NoSignature
    ELSE IF f \in annotated THEN [known |-> TRUE, raw |-> 1, parsed |-> 1]
    ELSE [known |-> TRUE, raw |-> 0, parsed |-> 0]

SignatureInv ==
    /\ signatureRI \in [Function -> [known : BOOLEAN, raw : 0 .. 4, parsed : Nat]]
    /\ sigInfo = [f \in Function |-> IF Gathered(f) THEN FirstSignature(f) ELSE NoSignature]
    /\ \A f \in Function : ~Analysed(f) => signatureRI[f] = sigInfo[f]

\* A query that says about f, and about the functions f calls, what was written.
Faithful(f, q) ==
    /\ q.function = f
    /\ q.parameters = 1
    /\ \A r \in q.relies : r[1] \in annotated \cap defined /\ r[2] = 1

AnalysisInv ==
    /\ RI \in [Function -> [RefinementDataFound : BOOLEAN, ConstraintGenerator : Query]]
    /\ \A f \in Function :
          IF Analysed(f) /\ f \in annotated
          THEN f \in defined /\ RI[f].RefinementDataFound /\ Faithful(f, QueryOf(f))
          ELSE ~RI[f].RefinementDataFound /\ QueryOf(f) = NoQuery

\* The checker and its solver are about the same function, and every function
\* that was passed had its query proved.
CheckInv ==
    /\ step \in {"idle", "write", "create", "execute", "wait", "read", "judge"}
    /\ IF step = "idle" THEN current = NoFunction
       ELSE phase = "checks" /\ current \in pending \cap defined \cap annotated
    /\ solver \in [query : Query, status : Statuses]
    /\ solver.status = "none" <=> step \in {"idle", "write", "create", "execute"}
    /\ IF solver.status = "none" THEN solver = NoProcess ELSE solver.query = QueryOf(current)
    /\ solver.status = "safe" => solver.query \in proved
    /\ solver.status = "running" => step = "wait" /\ verdict = "undecided"
    /\ \A f \in annotated : Checked(f) => QueryOf(f) \in proved

IInv == ModuleInv /\ SignatureInv /\ AnalysisInv /\ CheckInv

--------------------------------------------------------------------------------
(***************************************************************************)
(* What a step can be, for the analyses on one side and the checker on the *)
(* other.                                                                  *)
(***************************************************************************)
Stop == verdict = "undecided" /\ solver.status # "running" /\ Fatal

Gather(f) ==
    /\ phase = "signatures"
    /\ f \in pending
    /\ signatureRI' = RunSignaturePass(f, signatureRI)
    /\ sigInfo' = signatureRI'
    /\ Visited(f, "constraints")
    /\ UNCHANGED <<module, RI, check, verdict>>

Analyse(f) ==
    /\ phase = "constraints"
    /\ f \in pending
    /\ \/ f \notin annotated /\ Record(f, FALSE, NoQuery)
       \/ f \in annotated \cap defined /\ \E q \in Constraints(f) : Record(f, TRUE, q)

Leave(f) ==
    /\ phase = "checks"
    /\ f \in pending
    /\ f \in annotated => QueryOf(f) \in proved
    /\ Visited(f, "done")
    /\ step' = "idle"
    /\ current' = NoFunction
    /\ solver' = NoProcess
    /\ UNCHANGED <<module, signatureRI, sigInfo, RI, proved, verdict>>

\* The checker goes on with the function it has.
Advance ==
    /\ verdict = "undecided"
    /\ phase = "checks"
    /\ \/ /\ step = "idle"
          /\ current' \in pending \cap defined \cap annotated
          /\ step' = "write"
          /\ UNCHANGED solver
       \/ /\ <<step, step'>> \in {<<"write", "create">>, <<"create", "execute">>, <<"read", "judge">>}
          /\ UNCHANGED <<current, solver>>
       \/ /\ step = "execute"
          /\ step' = "wait"
          /\ solver' = [query |-> QueryOf(current), status |-> "running"]
          /\ UNCHANGED current
       \/ /\ step = "wait"
          /\ solver.status # "running"
          /\ step' = "read"
          /\ UNCHANGED <<current, solver>>
    /\ UNCHANGED <<module, analysis, proved, verdict>>

\* In the phase of the checks the results of the analyses are settled.
LEMMA Settled ==
    ASSUME IInv, phase = "checks", NEW f \in Function
    PROVE  /\ RI[f].RefinementDataFound <=> f \in annotated
           /\ f \in annotated => f \in defined
  BY DEF IInv, AnalysisInv, Analysed

LEMMA StepKinds ==
    ASSUME IInv, Next
    PROVE  \/ Stop
           \/ \E f \in Function : Gather(f) \/ Analyse(f) \/ Leave(f)
           \/ Advance
           \/ verdict = "undecided" /\ Accept
           \/ Solve
<1>1. CASE Solve
  BY <1>1
<1>2. CASE Compile
  <2>1. verdict = "undecided"
    BY <1>2 DEF Compile
  <2>2. ASSUME NEW f \in Function, GetSignature(f)  PROVE Stop \/ Gather(f)
    BY <2>1, <2>2 DEF GetSignature, Stop, Gather, IInv, CheckInv
  <2>3. ASSUME NEW f \in Function, BuildConstraints(f)  PROVE Stop \/ Analyse(f)
    <3>1. solver.status # "running"
      BY <2>3 DEF BuildConstraints, IInv, CheckInv
    <3>2. sigInfo[f].known => f \in defined
      BY DEF IInv, SignatureInv, FirstSignature, NoSignature
    <3> QED BY <2>1, <2>3, <3>1, <3>2 DEF BuildConstraints, Stop, Analyse
  <2>4. ASSUME NEW f \in Function, Pass(f)  PROVE Leave(f)
    <3>1. f \notin annotated
      BY <2>4, Settled DEF Pass
    <3>2. step = "idle" /\ current = NoFunction /\ solver = NoProcess /\ UNCHANGED check
      BY <2>4 DEF Pass, IInv, CheckInv
    <3> QED BY <2>4, <3>1, <3>2 DEF Pass, Leave, check
  <2>5. ASSUME NEW f \in Function, StartCheck(f)  PROVE Stop \/ Advance
    <3>1. f \in annotated /\ solver.status # "running"
      BY <2>5, Settled DEF StartCheck, IInv, CheckInv
    <3> QED BY <2>1, <2>5, <3>1 DEF StartCheck, Stop, Advance
  <2>6. ASSUME writeDataToTempFile \/ CreateOutputFiles \/ readFileData  PROVE Stop \/ Advance
    BY <2>1, <2>6 DEF writeDataToTempFile, CreateOutputFiles, readFileData, Proceed, Stop, Advance,
       IInv, CheckInv
  <2>7. ASSUME ExecuteNoWait  PROVE Stop \/ Advance
    BY <2>1, <2>7 DEF ExecuteNoWait, Stop, Advance, QueryOf, IInv, CheckInv
  <2>8. ASSUME Wait  PROVE Stop \/ Advance
    BY <2>1, <2>8 DEF Wait, Stop, Advance, IInv, CheckInv
  <2>9. ASSUME Judge  PROVE Stop \/ Leave(current)
    BY <2>1, <2>9 DEF Judge, Stop, Leave, IInv, CheckInv
  <2>10. ASSUME Judge  PROVE current \in Function
    BY <2>10 DEF Judge, IInv, CheckInv, ModuleInv
  <2> QED BY <1>2, <2>1, <2>2, <2>3, <2>4, <2>5, <2>6, <2>7, <2>8, <2>9, <2>10 DEF Compile
<1> QED BY <1>1, <1>2 DEF Next

--------------------------------------------------------------------------------
LEMMA InitIInv == Init => IInv
<1> SUFFICES ASSUME Init  PROVE IInv
  OBVIOUS
<1>1. NoQuery \in Query
  BY DEF NoQuery, Query
<1>2. ModuleInv
  BY DEF Init, ModuleInv
<1>3. SignatureInv
  BY DEF Init, SignatureInv, Gathered, Analysed, NoSignature
<1>4. AnalysisInv
  BY <1>1 DEF Init, AnalysisInv, Analysed, QueryOf
<1>5. CheckInv
  BY <1>1 DEF Init, CheckInv, NoProcess, Statuses, Checked
<1> QED BY <1>2, <1>3, <1>4, <1>5 DEF IInv

LEMMA KeepModuleInv == ASSUME IInv, Next  PROVE ModuleInv'
<1>1. CASE Stop
  BY <1>1 DEF Stop, Fatal, IInv, ModuleInv, module, analysis
<1>2. ASSUME NEW f \in Function, Gather(f) \/ Analyse(f) \/ Leave(f)  PROVE ModuleInv'
  <2>1. UNCHANGED <<defined, annotated, malformed, verdict>> /\ phase # "done"
    BY <1>2 DEF Gather, Analyse, Leave, Record, module
  <2>2. phase' \in {"signatures", "constraints", "checks", "done"} /\ pending' \subseteq Function
    BY <1>2 DEF Gather, Analyse, Leave, Record, Visited, IInv, ModuleInv
  <2> QED BY <2>1, <2>2 DEF IInv, ModuleInv
<1>3. CASE Advance
  BY <1>3 DEF Advance, IInv, ModuleInv, module, analysis
<1>4. CASE Accept
  BY <1>4 DEF Accept, IInv, ModuleInv, module, analysis
<1>5. CASE Solve
  BY <1>5 DEF Solve, IInv, ModuleInv, module, analysis
<1> QED BY <1>1, <1>2, <1>3, <1>4, <1>5, StepKinds
\* After one run of the signature pass, and after three more.
LEMMA FirstRun ==
    ASSUME NEW f \in Function, NEW map, map \in [Function -> [known : BOOLEAN, raw : 0 .. 4, parsed : Nat]],
           map[f] = NoSignature
    PROVE  RunSignaturePass(f, map) = [map EXCEPT ![f] = FirstSignature(f)]
<1>1. CASE f \notin defined
  <2>1. map = [map EXCEPT ![f] = NoSignature]
    OBVIOUS
  <2> QED BY <1>1, <2>1 DEF RunSignaturePass, FirstSignature
<1>2. CASE f \in defined /\ f \notin annotated
  <2>1. [map[f] EXCEPT !.known = TRUE] = FirstSignature(f)
    <3> DEFINE s == [map[f] EXCEPT !.known = TRUE]
    <3>1. /\ s \in [known : BOOLEAN, raw : Nat, parsed : Nat]
          /\ s.known = TRUE /\ s.raw = 0 /\ s.parsed = 0
      <4>1. map[f] \in [known : BOOLEAN, raw : Nat, parsed : Nat] /\ map[f].raw = 0 /\ map[f].parsed = 0
        BY DEF NoSignature
      <4> QED BY <4>1
    <3>2. ASSUME NEW r \in [known : BOOLEAN, raw : Nat, parsed : Nat], r.known = TRUE, r.raw = 0, r.parsed = 0
          PROVE  r = [known |-> TRUE, raw |-> 0, parsed |-> 0]
      BY <3>2
    <3> HIDE DEF s
    <3>3. s = [known |-> TRUE, raw |-> 0, parsed |-> 0]
      BY <3>1, <3>2
    <3> QED BY <1>2, <3>3 DEF FirstSignature, s
  <2> QED BY <1>2, <2>1 DEF RunSignaturePass
<1>3. CASE f \in defined \cap annotated
  BY <1>3 DEF RunSignaturePass, FirstSignature, NoSignature
<1> QED BY <1>1, <1>2, <1>3

LEMMA RerunTyped ==
    ASSUME NEW f \in Function, signatureRI[f] = FirstSignature(f),
           signatureRI \in [Function -> [known : BOOLEAN, raw : 0 .. 4, parsed : Nat]]
    PROVE  /\ Rerun(f) \in [Function -> [known : BOOLEAN, raw : 0 .. 4, parsed : Nat]]
           /\ \A g \in Function \ {f} : Rerun(f)[g] = signatureRI[g]
<1>1. CASE f \notin defined
  BY <1>1 DEF Rerun, RunSignaturePass
<1>2. CASE f \in defined /\ f \notin annotated
  <2>1. signatureRI[f] = [known |-> TRUE, raw |-> 0, parsed |-> 0]
    BY <1>2 DEF FirstSignature
  <2>2. RunSignaturePass(f, signatureRI) = [signatureRI EXCEPT ![f].known = TRUE]
    BY <1>2 DEF RunSignaturePass
  <2>3. [signatureRI EXCEPT ![f].known = TRUE] = signatureRI
    BY <2>1
  <2>4. RunSignaturePass(f, signatureRI) = signatureRI
    BY <2>2, <2>3
  <2> QED BY <2>4 DEF Rerun
<1>3. CASE f \in defined \cap annotated
  <2> DEFINE Run(map) == [map EXCEPT ![f] = [known |-> TRUE, raw |-> @.raw + 1, parsed |-> @.parsed + @.raw + 1]]
  <2>1. \A map : RunSignaturePass(f, map) = Run(map)
    BY <1>3 DEF RunSignaturePass
  <2>2. ASSUME NEW map, NEW n \in 0 .. 3,
               map \in [Function -> [known : BOOLEAN, raw : 0 .. 4, parsed : Nat]], map[f].raw = n
        PROVE  /\ Run(map) \in [Function -> [known : BOOLEAN, raw : 0 .. 4, parsed : Nat]]
               /\ Run(map)[f].raw = n + 1
               /\ \A g \in Function \ {f} : Run(map)[g] = map[g]
    BY <2>2
  <2> HIDE DEF Run
  <2>3. signatureRI[f].raw = 1
    BY <1>3 DEF FirstSignature
  <2>4. Run(signatureRI)[f].raw = 2
    BY <2>2, <2>3
  <2>5. Run(Run(signatureRI))[f].raw = 3
    BY <2>2, <2>3, <2>4
  <2>6. Rerun(f) = Run(Run(Run(signatureRI)))
    BY <2>1 DEF Rerun
  <2> QED BY <2>2, <2>3, <2>4, <2>5, <2>6
<1> QED BY <1>1, <1>2, <1>3

LEMMA KeepSignatureInv == ASSUME IInv, Next  PROVE SignatureInv'
<1>1. ASSUME UNCHANGED <<module, analysis>>  PROVE SignatureInv'
  BY <1>1 DEF IInv, SignatureInv, Gathered, Analysed, FirstSignature, module, analysis
<1>2. ASSUME NEW f \in Function, Gather(f)  PROVE SignatureInv'
  <2>1. signatureRI' = [signatureRI EXCEPT ![f] = FirstSignature(f)]
    <3>1. signatureRI[f] = NoSignature
      BY <1>2 DEF Gather, IInv, SignatureInv, Gathered, Analysed
    <3> QED BY <1>2, <3>1, FirstRun DEF Gather, IInv, SignatureInv
  <2>2. FirstSignature(f) \in [known : BOOLEAN, raw : 0 .. 4, parsed : Nat]
    BY DEF FirstSignature, NoSignature
  <2>3. \A g \in Function : FirstSignature(g)' = FirstSignature(g)
    BY <1>2 DEF Gather, module, FirstSignature
  <2>4. \A g \in Function : Gathered(g)' <=> Gathered(g) \/ g = f
    BY <1>2 DEF Gather, Visited, Gathered, IInv, ModuleInv
  <2>5. signatureRI = sigInfo
    BY <1>2 DEF Gather, Analysed, IInv, SignatureInv
  <2> QED BY <1>2, <2>1, <2>2, <2>3, <2>4, <2>5 DEF Gather, IInv, SignatureInv
<1>3. ASSUME NEW f \in Function, Analyse(f)  PROVE SignatureInv'
  <2>1. /\ signatureRI' = Rerun(f)
        /\ Visited(f, "checks")
        /\ UNCHANGED <<defined, annotated, sigInfo>>
    BY <1>3 DEF Analyse, Record, module
  <2>2. signatureRI[f] = FirstSignature(f)
    BY <1>3 DEF Analyse, Analysed, Gathered, IInv, SignatureInv
  <2>3. \A g \in Function : Gathered(g) /\ Gathered(g)' /\ FirstSignature(g)' = FirstSignature(g)
    BY <1>3, <2>1 DEF Analyse, Gathered, FirstSignature, Visited
  <2>4. \A g \in Function : ~Analysed(g)' => ~Analysed(g) /\ g # f
    BY <1>3, <2>1 DEF Analyse, Analysed, Visited, IInv, ModuleInv
  <2> QED BY <2>1, <2>2, <2>3, <2>4, RerunTyped DEF IInv, SignatureInv
<1>4. ASSUME NEW f \in Function, Leave(f)  PROVE SignatureInv'
  <2>1. phase = "checks" /\ phase' \in {"checks", "done"}
    BY <1>4 DEF Leave, Visited
  <2>2. \A g \in Function : Gathered(g) /\ Gathered(g)' /\ Analysed(g)' /\ FirstSignature(g)' = FirstSignature(g)
    BY <1>4, <2>1 DEF Leave, Gathered, Analysed, FirstSignature, module
  <2> QED BY <1>4, <2>2 DEF Leave, IInv, SignatureInv
<1> QED BY <1>1, <1>2, <1>3, <1>4, StepKinds DEF Stop, Fatal, Advance, Accept, Solve
\* Every query is faithful: the copy of the signatures has each parameter once.
LEMMA ConstraintsFaithful ==
    ASSUME IInv, phase = "constraints", NEW f \in annotated \cap defined, NEW q \in Constraints(f)
    PROVE  q \in Query /\ Faithful(f, q)
<1>1. PICK callees \in SUBSET {g \in annotated : sigInfo[g].known} :
         q = [function |-> f, parameters |-> SignatureOf(f), relies |-> {<<g, SignatureOf(g)>> : g \in callees}]
  BY DEF Constraints
<1>2. annotated \subseteq Function
  BY DEF IInv, ModuleInv
<1>3. \A g \in annotated : sigInfo[g].known => g \in defined /\ SignatureOf(g) = 1
  BY <1>2 DEF IInv, SignatureInv, Gathered, FirstSignature, NoSignature, SignatureOf
<1>4. SignatureOf(f) = 1
  BY <1>2 DEF IInv, SignatureInv, Gathered, FirstSignature, SignatureOf
<1>5. \A r \in q.relies : r \in Function \X Nat /\ r[1] \in annotated \cap defined /\ r[2] = 1
  BY <1>1, <1>2, <1>3
<1> QED BY <1>1, <1>2, <1>4, <1>5 DEF Query, Faithful

LEMMA KeepAnalysisInv == ASSUME IInv, Next  PROVE AnalysisInv'
<1>1. ASSUME UNCHANGED <<module, analysis>>  PROVE AnalysisInv'
  BY <1>1 DEF IInv, AnalysisInv, Analysed, Faithful, QueryOf, module, analysis
<1>2. ASSUME NEW f \in Function, Gather(f) \/ Leave(f)  PROVE AnalysisInv'
  <2>1. UNCHANGED <<defined, annotated, RI>>
    BY <1>2 DEF Gather, Leave, module
  <2>2. \A g \in Function : Analysed(g)' <=> Analysed(g)
    BY <1>2 DEF Gather, Leave, Visited, Analysed, IInv, ModuleInv
  <2> QED BY <2>1, <2>2 DEF IInv, AnalysisInv, Faithful, QueryOf
<1>3. ASSUME NEW f \in Function, Analyse(f)  PROVE AnalysisInv'
  <2>1. PICK found \in BOOLEAN, q \in Query :
          /\ Record(f, found, q)
          /\ IF f \in annotated THEN f \in defined /\ found /\ Faithful(f, q) ELSE ~found /\ q = NoQuery
    <3>1. CASE f \notin annotated
      <4>1. NoQuery \in Query
        BY DEF NoQuery, Query
      <4> QED BY <1>3, <3>1, <4>1 DEF Analyse
    <3>2. CASE f \in annotated
      BY <1>3, <3>2, ConstraintsFaithful DEF Analyse
    <3> QED BY <3>1, <3>2
  <2>2. /\ RI' = [RI EXCEPT ![f] = [RefinementDataFound |-> found, ConstraintGenerator |-> q]]
        /\ UNCHANGED <<defined, annotated>>
        /\ Visited(f, "checks")
    BY <2>1 DEF Record, module
  <2>3. \A g \in Function : Analysed(g)' <=> Analysed(g) \/ g = f
    BY <1>3, <2>2 DEF Analyse, Visited, Analysed, IInv, ModuleInv
  <2>4. \A g \in Function : Faithful(g, QueryOf(g))' <=> Faithful(g, QueryOf(g)')
    BY <2>2 DEF Faithful
  <2>5. /\ RI' \in [Function -> [RefinementDataFound : BOOLEAN, ConstraintGenerator : Query]]
        /\ RI'[f].RefinementDataFound = found /\ QueryOf(f)' = q
        /\ \A g \in Function \ {f} : RI'[g] = RI[g] /\ QueryOf(g)' = QueryOf(g)
    BY <2>1, <2>2 DEF QueryOf, IInv, AnalysisInv
  <2>6. ASSUME NEW g \in Function
        PROVE  IF Analysed(g)' /\ g \in annotated
               THEN g \in defined /\ RI'[g].RefinementDataFound /\ Faithful(g, QueryOf(g)')
               ELSE ~RI'[g].RefinementDataFound /\ QueryOf(g)' = NoQuery
    BY <2>1, <2>3, <2>5 DEF IInv, AnalysisInv
  <2> QED BY <2>2, <2>4, <2>5, <2>6 DEF AnalysisInv
<1> QED BY <1>1, <1>2, <1>3, StepKinds DEF Stop, Fatal, Advance, Accept, Solve

LEMMA KeepCheckInv == ASSUME IInv, Next  PROVE CheckInv'
<1> USE DEF CheckInv
<1>1. CASE Stop
  BY <1>1 DEF Stop, Fatal, IInv, Checked, QueryOf, Statuses, module, analysis, check
<1>2. ASSUME NEW f \in Function, Gather(f)  PROVE CheckInv'
  <2>1. step = "idle" /\ UNCHANGED <<check, RI, verdict, annotated, defined>>
    BY <1>2 DEF Gather, IInv, module
  <2>2. \A g \in Function : ~Checked(g)'
    BY <1>2 DEF Gather, Visited, Checked
  <2> QED BY <2>1, <2>2 DEF IInv, ModuleInv, QueryOf, check
<1>3. ASSUME NEW f \in Function, Analyse(f)  PROVE CheckInv'
  <2>1. step = "idle" /\ UNCHANGED <<check, verdict, annotated, defined>>
    BY <1>3 DEF Analyse, Record, IInv, module
  <2>2. \A g \in Function : ~Checked(g)'
    BY <1>3 DEF Analyse, Record, Visited, Checked
  <2>3. solver.status = "none"
    BY <2>1 DEF IInv
  <2> QED BY <2>1, <2>2, <2>3 DEF IInv, ModuleInv, QueryOf, check
<1>4. ASSUME NEW f \in Function, Leave(f)  PROVE CheckInv'
  <2>1. \A g \in Function : Checked(g)' => Checked(g) \/ g = f
    BY <1>4 DEF Leave, Visited, Checked, IInv, ModuleInv
  <2>2. UNCHANGED <<RI, proved, annotated>> /\ annotated \subseteq Function
    BY <1>4 DEF Leave, IInv, ModuleInv, module
  <2>3. \A g \in annotated : Checked(g)' => QueryOf(g)' \in proved'
    BY <1>4, <2>1, <2>2 DEF Leave, QueryOf, IInv
  <2>4. solver' \in [query : Query, status : Statuses]
    BY <1>4 DEF Leave, NoProcess, NoQuery, Query, Statuses
  <2> QED BY <1>4, <2>2, <2>3, <2>4 DEF Leave, NoProcess, IInv
<1>5. CASE Advance
  <2>1. \A g \in Function : Checked(g)' <=> Checked(g)
    BY <1>5 DEF Advance, analysis, Checked
  <2>2. /\ \A g \in Function : QueryOf(g)' = QueryOf(g)
        /\ UNCHANGED <<defined, annotated, phase, pending, proved, verdict>>
        /\ annotated \subseteq Function /\ NoFunction \notin Function
    BY <1>5, NoFunctionAssumption DEF Advance, module, analysis, QueryOf, IInv, ModuleInv
  <2>3. \A g \in annotated : Checked(g)' => QueryOf(g)' \in proved'
    BY <2>1, <2>2 DEF IInv
  <2>4. current \in Function => QueryOf(current) \in Query
    BY DEF IInv, AnalysisInv, QueryOf
  <2>5. /\ IF step' = "idle" THEN current' = NoFunction
           ELSE phase = "checks" /\ current' \in pending \cap defined \cap annotated
        /\ step' \in {"idle", "write", "create", "execute", "wait", "read", "judge"}
    BY <1>5, <2>2 DEF Advance, IInv
  <2>6. step = "execute" => current \in Function
    BY <2>2 DEF IInv
  <2>7. /\ solver' \in [query : Query, status : Statuses]
        /\ solver'.status = "none" <=> step' \in {"idle", "write", "create", "execute"}
    BY <1>5, <2>4, <2>6 DEF Advance, IInv, Statuses
  <2>8. QueryOf(current') = QueryOf(current)'
    BY <1>5 DEF Advance, QueryOf, analysis
  <2>9. IF solver'.status = "none" THEN solver' = NoProcess ELSE solver'.query = QueryOf(current')
    BY <1>5, <2>7 DEF Advance, IInv
  <2>10. /\ solver'.status = "safe" => solver'.query \in proved
         /\ solver'.status = "running" => step' = "wait" /\ verdict = "undecided"
    BY <1>5 DEF Advance, IInv
  <2> QED BY <2>2, <2>3, <2>5, <2>7, <2>8, <2>9, <2>10
<1>6. CASE Accept
  BY <1>6 DEF Accept, IInv, ModuleInv, Checked, QueryOf, module, analysis, check
<1>7. CASE Solve
  <2>1. PICK status \in {"safe", "unsafe", "crashed"} :
          /\ solver' = [solver EXCEPT !.status = status]
          /\ proved' = IF status = "safe" THEN proved \cup {solver.query} ELSE proved
    BY <1>7 DEF Solve
  <2>2. UNCHANGED <<module, analysis, step, current, verdict>> /\ solver.status = "running"
    BY <1>7 DEF Solve
  <2>3. \A g \in Function : (Checked(g)' <=> Checked(g)) /\ QueryOf(g)' = QueryOf(g)
    BY <2>2 DEF Checked, QueryOf, analysis
  <2>4. \A g \in annotated : Checked(g)' => QueryOf(g)' \in proved'
    BY <2>1, <2>3 DEF IInv, ModuleInv
  <2>5. /\ solver' \in [query : Query, status : Statuses]
        /\ solver'.status = status /\ solver'.query = solver.query
    BY <2>1 DEF IInv, Statuses
  <2>6. QueryOf(current)' = QueryOf(current)
    BY <2>2 DEF QueryOf, analysis
  <2> QED BY <2>1, <2>2, <2>4, <2>5, <2>6 DEF IInv, module, analysis
<1> QED BY <1>1, <1>2, <1>3, <1>4, <1>5, <1>6, <1>7, StepKinds

THEOREM InvariantHolds == Spec => []IInv
<1>1. ASSUME IInv, [Next]_vars  PROVE IInv'
  <2>1. CASE Next
    BY <1>1, <2>1, KeepModuleInv, KeepSignatureInv, KeepAnalysisInv, KeepCheckInv DEF IInv
  <2>2. CASE UNCHANGED vars
    BY <1>1, <2>2 DEF vars, module, analysis, check, IInv, ModuleInv, SignatureInv, AnalysisInv, CheckInv,
       Gathered, Analysed, Checked, FirstSignature, Faithful, QueryOf
  <2> QED BY <1>1, <2>1, <2>2
<1> QED BY InitIInv, <1>1, PTL DEF Spec
--------------------------------------------------------------------------------
\* Every variable stays within its type, for modules of any functions.
THEOREM TypeCorrect == Spec => []TypeOK
<1>1. IInv => TypeOK
  <2> SUFFICES ASSUME IInv  PROVE TypeOK
    OBVIOUS
  <2>1. /\ ModuleInv
        /\ signatureRI \in [Function -> [known : BOOLEAN, raw : 0 .. 4, parsed : Nat]]
        /\ DOMAIN RI = Function
        /\ step \in {"idle", "write", "create", "execute", "wait", "read", "judge"}
        /\ solver.status \in Statuses
        /\ solver.status = "none" <=> step \in {"idle", "write", "create", "execute"}
    BY DEF IInv, SignatureInv, AnalysisInv, CheckInv
  <2>2. sigInfo \in [Function -> [known : BOOLEAN, raw : 0 .. 1, parsed : 0 .. 1]]
    BY DEF IInv, SignatureInv, FirstSignature, NoSignature
  <2>3. ASSUME NEW f \in Function
        PROVE  /\ RI[f].RefinementDataFound \in BOOLEAN
               /\ RI[f].ConstraintGenerator.function \in {f, NoFunction}
    BY DEF IInv, AnalysisInv, QueryOf, Faithful, NoQuery
  <2>4. current \in Function \cup {NoFunction} /\ (step = "idle" <=> current = NoFunction)
    BY NoFunctionAssumption DEF IInv, CheckInv, ModuleInv
  <2> QED BY <2>1, <2>2, <2>3, <2>4 DEF TypeOK, ModuleInv, Statuses
<1> QED BY <1>1, InvariantHolds, PTL

\* The signature of every function with a body is there when the first
\* generator is built.
THEOREM SignaturesAreComplete == Spec => []SignaturesComplete
<1>1. IInv => SignaturesComplete
  <2> SUFFICES ASSUME IInv, phase # "signatures", NEW f \in defined  PROVE sigInfo[f].known
    BY DEF SignaturesComplete
  <2>1. sigInfo[f] = FirstSignature(f)
    BY DEF IInv, ModuleInv, SignatureInv, Gathered
  <2> QED BY <2>1 DEF FirstSignature
<1> QED BY <1>1, InvariantHolds, PTL

\* No query has a parameter twice, although the signature pass is rerun.
THEOREM ParametersOccurOnce == Spec => []SignaturesOnce
<1>1. IInv => SignaturesOnce
  BY DEF IInv, AnalysisInv, SignaturesOnce, Faithful, QueryOf
<1> QED BY <1>1, InvariantHolds, PTL

\* What an accepted module means: every annotated function has been proved, by
\* a query that relies only on what has been proved of others.
THEOREM AcceptanceIsSound == Spec => []AcceptedMeansProved
<1>1. IInv => AcceptedMeansProved
  <2> SUFFICES ASSUME IInv, verdict = "accepted", NEW f \in annotated
               PROVE  \E q \in proved : Supported(f, q)
    BY DEF AcceptedMeansProved
  <2>1. phase = "done" /\ annotated \subseteq Function
    BY DEF IInv, ModuleInv
  <2>2. \A g \in annotated : QueryOf(g) \in proved /\ Faithful(g, QueryOf(g))
    BY <2>1 DEF IInv, CheckInv, AnalysisInv, Checked, Analysed
  <2>3. ASSUME NEW r \in QueryOf(f).relies
        PROVE  \E p \in proved : p.function = r[1] /\ p.parameters = r[2]
    BY <2>2 DEF Faithful
  <2> QED BY <2>2, <2>3 DEF Supported, Faithful
<1> QED BY <1>1, InvariantHolds, PTL

\* The passes keep the promise about the verdict: each of their steps is a step
\* of it, or none.
THEOREM VerdictImplemented == Spec => ImplementsVerdict
<1>1. Init => Verdict!Init
  BY DEF Init, Verdict!Init
<1>2. ASSUME IInv, [Next]_vars  PROVE [Verdict!Next]_(Verdict!vars)
  <2> USE DEF Verdict!vars
  <2>1. CASE UNCHANGED vars
    BY <2>1 DEF vars, module, check
  <2>2. CASE Stop
    BY <2>2 DEF Stop, Fatal, module, check, Verdict!Next, Verdict!Reject
  <2>3. ASSUME NEW f \in Function, Gather(f) \/ Analyse(f) \/ Leave(f)  PROVE UNCHANGED Verdict!vars
    BY <2>3 DEF Gather, Analyse, Leave, Record, module, check
  <2>4. CASE Advance
    BY <2>4 DEF Advance, module
  <2>5. CASE verdict = "undecided" /\ Accept
    <3>1. annotated \subseteq {q.function : q \in proved}
      BY <1>2, <2>5 DEF Accept, IInv, ModuleInv, CheckInv, AnalysisInv, Checked, Analysed, Faithful
    <3> QED BY <2>5, <3>1 DEF Accept, module, check, Verdict!Next, Verdict!Accept
  <2>6. CASE Solve
    <3>1. PICK status \in {"safe", "unsafe", "crashed"} :
            proved' = IF status = "safe" THEN proved \cup {solver.query} ELSE proved
      BY <2>6 DEF Solve
    <3>2. UNCHANGED <<annotated, verdict>> /\ verdict = "undecided"
      BY <1>2, <2>6 DEF Solve, module, IInv, CheckInv
    <3>3. current \in annotated /\ current \in Function /\ solver.query = QueryOf(current)
      BY <1>2, <2>6 DEF Solve, IInv, CheckInv, ModuleInv
    <3>4. solver.query.function = current
      BY <1>2, <2>6, <3>3 DEF Solve, IInv, CheckInv, AnalysisInv, Analysed, Faithful
    <3>5. {q.function : q \in proved}' = IF status = "safe" THEN {q.function : q \in proved} \cup {current}
                                         ELSE {q.function : q \in proved}
      BY <3>1, <3>4
    <3> QED BY <3>2, <3>3, <3>5 DEF Verdict!Next, Verdict!Prove
  <2> QED BY <1>2, <2>1, <2>2, <2>3, <2>4, <2>5, <2>6, StepKinds
<1> QED BY <1>1, <1>2, InvariantHolds, PTL DEF Spec, ImplementsVerdict, Verdict!Spec
================================================================================
