---------------------------- MODULE CheckerPipeline ----------------------------
(***************************************************************************)
(* The passes that check the functions of a module, and the solver they    *)
(* run.  RefinementFunctionAnalysisPass::runOnModule asks for the          *)
(* signature of every function and then builds the constraints of every    *)
(* function; RefinementChecker hands the constraints of one function after *)
(* the other to the solver, through FixpointManager.  An error anywhere is *)
(* fatal: the compilation is rejected.  It is accepted when every function *)
(* has been through the checker.                                           *)
(*                                                                         *)
(* A request of the module pass for any analysis of a function reruns all  *)
(* the function passes it requires, the signature pass included, and that  *)
(* pass assigns an empty value to the entry of the function before it      *)
(* fills it.  The assignment operators of the metadata append to what is   *)
(* there, so every rerun repeats the parameters of the entry.              *)
(*                                                                         *)
(* A query is given by the function it is for, the number of times the     *)
(* parameters of the signature occur in it, and the signatures of callees  *)
(* it relies on, with the same number.  A call of a function without an    *)
(* analysed, annotated signature reads an indeterminate pointer or type:   *)
(* such modules are left out.                                              *)
(***************************************************************************)
EXTENDS Naturals

CONSTANTS Function, NoFunction

ASSUME NoFunctionAssumption == NoFunction \notin Function

VARIABLES
    defined,        \* the functions of the module that have a body
    annotated,      \* those that carry refinement metadata
    malformed,      \* those whose metadata cannot be extracted or parsed
    phase,          \* "signatures", "constraints" or "checks"
    pending,        \* the functions that the phase has still to visit
    signatureRI,    \* the map of the signature pass
    sigInfo,        \* the copy of it in runOnModule
    RI,             \* the map of the analysis pass
    step,           \* where the checker is with a function
    current,        \* that function, or NoFunction
    solver,         \* the process: the query it was given and its status
    proved,         \* history: the queries a solver has found safe
    verdict         \* "undecided", "accepted" or "rejected"

module == <<defined, annotated, malformed>>
analysis == <<phase, pending, signatureRI, sigInfo, RI>>
check == <<step, current, solver, proved>>
vars == <<module, analysis, check, verdict>>

Query == [function : Function \cup {NoFunction}, parameters : Nat,
          relies : SUBSET (Function \X Nat)]

NoQuery == [function |-> NoFunction, parameters |-> 0, relies |-> {}]

NoSignature == [known |-> FALSE, raw |-> 0, parsed |-> 0]

NoProcess == [query |-> NoQuery, status |-> "none"]

Init ==
    /\ defined \in SUBSET Function
    /\ annotated \in SUBSET Function
    /\ malformed \in SUBSET annotated
    /\ phase = "signatures"
    /\ pending = Function
    /\ signatureRI = [f \in Function |-> NoSignature]
    /\ sigInfo = signatureRI
    /\ RI = [f \in Function |-> [RefinementDataFound |-> FALSE, ConstraintGenerator |-> NoQuery]]
    /\ step = "idle"
    /\ current = NoFunction
    /\ solver = NoProcess
    /\ proved = {}
    /\ verdict = "undecided"

--------------------------------------------------------------------------------
\* report_fatal_error.
Fatal ==
    /\ verdict' = "rejected"
    /\ UNCHANGED <<module, analysis, check>>

\* The loop over the functions of the module is done with f.
Visited(f, next) ==
    IF pending = {f} THEN phase' = next /\ pending' = Function
    ELSE pending' = pending \ {f} /\ UNCHANGED phase

\* Mutants: the pass forgets the other functions; it extracts twice.
SignatureOfLast(f, map) ==
    [g \in Function |-> IF g = f /\ f \in defined
                        THEN [known |-> TRUE, raw |-> 1, parsed |-> 1] ELSE NoSignature]

SignatureTwice(f, map) ==
    IF f \notin defined \cap annotated THEN map
    ELSE [map EXCEPT ![f] = [known |-> TRUE, raw |-> @.raw + 2, parsed |-> @.parsed + @.raw + 2]]

\* RefinementFunctionSignatureAnalysisPass on f, which pass managers skip for a
\* declaration: the raw metadata gets the parameters once more, and the parsed
\* metadata those of the raw metadata.
RunSignaturePass(f, map) ==
    IF f \notin defined THEN map
    ELSE IF f \notin annotated THEN [map EXCEPT ![f].known = TRUE]
    ELSE [map EXCEPT ![f] = [known  |-> TRUE,
                             raw    |-> @.raw + 1,
                             parsed |-> @.parsed + @.raw + 1]]

\* The first loop of runOnModule.
GetSignature(f) ==
    /\ phase = "signatures"
    /\ f \in pending
    /\ \/ /\ f \in defined \cap malformed
          /\ Fatal
       \/ /\ f \notin defined \cap malformed
          /\ signatureRI' = RunSignaturePass(f, signatureRI)
          /\ sigInfo' = signatureRI'
          /\ Visited(f, "constraints")
          /\ UNCHANGED <<module, RI, check, verdict>>

\* Three analyses are requested for every function.
Rerun(f) == RunSignaturePass(f, RunSignaturePass(f, RunSignaturePass(f, signatureRI)))

\* Mutant: a signature as the signature pass has it by now.
SignatureOfPass(f) == signatureRI[f].parsed

SignatureOf(f) == sigInfo[f].parsed

\* The constraint generator of f has succeeded, whatever f calls.
Constraints(f) ==
    {[function |-> f, parameters |-> SignatureOf(f), relies |-> {<<g, SignatureOf(g)>> : g \in callees}] :
        callees \in SUBSET {g \in annotated : sigInfo[g].known}}

Record(f, found, generator) ==
    /\ RI' = [RI EXCEPT ![f] = [RefinementDataFound |-> found, ConstraintGenerator |-> generator]]
    /\ signatureRI' = Rerun(f)
    /\ Visited(f, "checks")
    /\ UNCHANGED <<module, sigInfo, check, verdict>>

\* The second loop: runRefinementAnalysis.
BuildConstraints(f) ==
    /\ phase = "constraints"
    /\ f \in pending
    /\ \/ f \notin annotated /\ Record(f, FALSE, NoQuery)
       \/ f \in annotated /\ ~sigInfo[f].known /\ Fatal
       \/ /\ f \in annotated
          /\ sigInfo[f].known
          /\ \/ f \in defined /\ \E q \in Constraints(f) : Record(f, TRUE, q)
             \/ f \in defined /\ Fatal
             \/ f \notin defined /\ Record(f, TRUE, NoQuery)

--------------------------------------------------------------------------------
\* RefinementChecker::runOnFunction has nothing to check.
Pass(f) ==
    /\ phase = "checks"
    /\ step = "idle"
    /\ f \in pending
    /\ f \notin defined \/ ~RI[f].RefinementDataFound
    /\ Visited(f, "done")
    /\ UNCHANGED <<module, signatureRI, sigInfo, RI, check, verdict>>

\* Mutant: without a query there is nothing to ask.
StartCheckLenient(f) ==
    /\ phase = "checks"
    /\ step = "idle"
    /\ f \in pending \cap defined
    /\ RI[f].RefinementDataFound
    /\ \/ /\ Visited(f, "done")
          /\ UNCHANGED <<module, signatureRI, sigInfo, RI, check, verdict>>
       \/ /\ step' = "write"
          /\ current' = f
          /\ UNCHANGED <<module, analysis, solver, proved, verdict>>

\* The generator writes the query, unless a promise of it was not kept.
StartCheck(f) ==
    /\ phase = "checks"
    /\ step = "idle"
    /\ f \in pending \cap defined
    /\ RI[f].RefinementDataFound
    /\ \/ Fatal
       \/ /\ step' = "write"
          /\ current' = f
          /\ UNCHANGED <<module, analysis, solver, proved, verdict>>

Proceed(from, to) ==
    /\ step = from
    /\ \/ Fatal
       \/ /\ step' = to
          /\ UNCHANGED <<module, analysis, current, solver, proved, verdict>>

\* The constraints go into a temporary file.
writeDataToTempFile == Proceed("write", "create")

\* Two more are for what the solver prints.
CreateOutputFiles == Proceed("create", "execute")

ExecuteNoWait ==
    /\ step = "execute"
    /\ \/ Fatal
       \/ /\ step' = "wait"
          /\ solver' = [query |-> RI[current].ConstraintGenerator, status |-> "running"]
          /\ UNCHANGED <<module, analysis, current, proved, verdict>>

\* Mutant: a solver that was killed is waited for.
WaitForExit ==
    /\ step = "wait"
    /\ solver.status \in {"safe", "unsafe"}
    /\ step' = "read"
    /\ UNCHANGED <<module, analysis, current, solver, proved, verdict>>

\* Without a timeout.  A solver that was killed, or could not run, is an error.
Wait ==
    /\ step = "wait"
    /\ solver.status # "running"
    /\ \/ solver.status = "crashed" /\ Fatal
       \/ /\ solver.status # "crashed"
          /\ step' = "read"
          /\ UNCHANGED <<module, analysis, current, solver, proved, verdict>>

readFileData == Proceed("read", "judge")

\* Mutant: any answer is good.
JudgeAnyAnswer ==
    /\ step = "judge"
    /\ Visited(current, "done")
    /\ step' = "idle"
    /\ current' = NoFunction
    /\ solver' = NoProcess
    /\ UNCHANGED <<module, signatureRI, sigInfo, RI, proved, verdict>>

\* Only the return code 0 is safety.
Judge ==
    /\ step = "judge"
    /\ \/ solver.status # "safe" /\ Fatal
       \/ /\ solver.status = "safe"
          /\ Visited(current, "done")
          /\ step' = "idle"
          /\ current' = NoFunction
          /\ solver' = NoProcess
          /\ UNCHANGED <<module, signatureRI, sigInfo, RI, proved, verdict>>

\* Every function has been through the checker.
Accept ==
    /\ phase = "done"
    /\ verdict' = "accepted"
    /\ UNCHANGED <<module, analysis, check>>

\* The compiler's own steps.
Compile ==
    /\ verdict = "undecided"
    /\ \/ \E f \in Function : GetSignature(f) \/ BuildConstraints(f) \/ Pass(f) \/ StartCheck(f)
       \/ writeDataToTempFile
       \/ CreateOutputFiles
       \/ ExecuteNoWait
       \/ Wait
       \/ readFileData
       \/ Judge
       \/ Accept

\* The solver ends: with the return code 0, with another, or with neither.
Solve ==
    /\ solver.status = "running"
    /\ \E status \in {"safe", "unsafe", "crashed"} :
          /\ solver' = [solver EXCEPT !.status = status]
          /\ proved' = IF status = "safe" THEN proved \cup {solver.query} ELSE proved
    /\ UNCHANGED <<module, analysis, step, current, verdict>>

Next == Compile \/ Solve

\* The compiler waits for nothing but the solver; nothing makes that end.
Spec == Init /\ [][Next]_vars /\ WF_vars(Compile)

--------------------------------------------------------------------------------
\* Every variable stays within its type.  The signature pass runs on a
\* function once for the first loop and three times for the second, and a
\* solver exists exactly while the checker is past the start of it.
TypeOK ==
    /\ defined \subseteq Function
    /\ annotated \subseteq Function
    /\ malformed \subseteq annotated
    /\ phase \in {"signatures", "constraints", "checks", "done"}
    /\ pending \subseteq Function
    /\ signatureRI \in [Function -> [known : BOOLEAN, raw : 0 .. 4, parsed : Nat]]
    /\ sigInfo \in [Function -> [known : BOOLEAN, raw : 0 .. 1, parsed : 0 .. 1]]
    /\ DOMAIN RI = Function
    /\ \A f \in Function :
          /\ RI[f].RefinementDataFound \in BOOLEAN
          /\ RI[f].ConstraintGenerator.function \in {f, NoFunction}
    /\ step \in {"idle", "write", "create", "execute", "wait", "read", "judge"}
    /\ current \in Function \cup {NoFunction}
    /\ step = "idle" <=> current = NoFunction
    /\ solver.status \in {"none", "running", "safe", "unsafe", "crashed"}
    /\ solver.status = "none" <=> step \in {"idle", "write", "create", "execute"}
    /\ verdict \in {"undecided", "accepted", "rejected"}

\* When the first generator is built, the signature of every function with a
\* body can be retrieved, whatever the order of the functions in the module:
\* callers may come before callees, and functions may call each other.
SignaturesComplete ==
    phase # "signatures" => \A f \in defined : sigInfo[f].known

\* In every query the parameters of the function, and of the functions it
\* calls, occur exactly once, although the signature pass has been rerun and
\* has repeated them in its own map: the generator would be refused by the
\* environment if a parameter were created twice.
SignaturesOnce ==
    \A f \in Function :
        LET q == RI[f].ConstraintGenerator
        IN  q # NoQuery => q.parameters = 1 /\ \A r \in q.relies : r[2] = 1

\* q is for f, and what it relies on about other functions, and about f in a
\* recursive call, has been proved of those functions, in the same form.
Supported(f, q) ==
    /\ q.function = f
    /\ \A r \in q.relies : \E p \in proved : p.function = r[1] /\ p.parameters = r[2]

\* An accepted module has been proved function by function: no annotation is
\* passed over, a declaration's neither, no answer is lost or taken for that of
\* another function, and what callers assume is what was proved of callees.
AcceptedMeansProved ==
    verdict = "accepted" => \A f \in annotated : \E q \in proved : Supported(f, q)

\* The passes implement the promise about the verdict.
Verdict == INSTANCE RefinementVerdict WITH
    proved <- {q.function : q \in proved}

ImplementsVerdict == Verdict!Spec

\* The compiler decides, unless a solver runs for ever.
Decides == <>(verdict # "undecided") \/ <>[](solver.status = "running")
================================================================================
