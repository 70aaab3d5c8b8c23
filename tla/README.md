# Verification of the refinement checker

This directory holds a TLA+ development for the refinement type checker that this
fork adds to LLVM. The checker reads refinements (predicates over values) attached to
C functions, walks the functions after optimisation, and writes for each a Horn clause
query in the language of `fixpoint`; the function is safe when the solver says so. A
mistake in the part that *builds* the query is the worst kind: the solver answers, the
compiler says "safe", and the question was the wrong one. That part is what the modules
here model, check and prove about.

Paths are relative to `src/`. `LFB/` is `lib/Transforms/LiquidFixpointBuilder/`, `LT/` is
`lib/Transforms/LiquidTypes/`, `LTP/` is `lib/Transforms/LiquidTypesParser/`.

## 1. The system

The checker is single threaded; only the solver is a process of its own. What is hard is
not interleaving but *order*: the
objects are called block by block and instruction by instruction, in whatever order the
blocks of a function come, and must give the same meaning to a variable in a loop header
whether or not the block that jumps back to it has been seen.

| Component | State it keeps | Operations | What makes it correct |
|---|---|---|---|
| **Function block graph** `LFB/FunctionBlockGraph.cpp`; implementation over LLVM `LLVMFunctionBlockGraph` in `LT/RefinementFunctionAnalysisPass.cpp` | none beyond a call: worklist, set of blocks seen, answer | `GetPreviousBlocks`, `GetAllSuccessorBlockNames`, `GetAllBlockNames`; abstract `GetSuccessorBlocks`, `StrictlyDominates` | answers are exactly the reachable predecessors and successors, each once; calls return on cyclic graphs |
| **Fixpoint constraint builder** `LFB/FixpointConstraintBuilder.cpp` | binders by name, promised ("future") binders, constraints, well-formedness constraints, qualifiers, uninterpreted functions, three counters of ids | `CreateBinderWithUnknownType`, `CreateBinderWithConstraints`, `CreateFutureBinder`, `AddConstraint`, `AddConstraintForAssignment`, `AddQualifierIfNew`, `AddUninterpretedFunctionIfNew`, `ToStringOrFailure` | ids are never shared or lost, every unknown predicate is declared once and is well founded, nothing written is taken back, a written query is closed |
| **Variables environment** `LFB/VariablesEnvironment.cpp` | current block, finished blocks, per block the mapping of variables to binders and the binders in scope, versions of mutable variables, obligations of phi nodes, guards of blocks | `StartBlock`, `Create*Variable`, `AssignMutableVariable`, `CreatePhiNode`, `AddJumpInformation`, `AddBranchInformation`, `ToStringOrFailure` | the program it describes is the one given, in static single assignment form: scope is definite assignment, no assigned value is lost at a join or around a loop, each refinement is demanded of each value, guards of blocks are true exactly where the block is reached |
| **Instruction constraint generator** `LT/RefinementInstructionConstraintGenerator.cpp` | the environment, types of registers, the constants made so far | one `Capture...` per instruction; `CaptureBlockConstraints` | expressions mean what the instruction does, at its width |
| **Constraint generator** `LT/RefinementConstraintGenerator.cpp` | the environment and the instruction generator | `BuildConstraintsFromSignature`, `BuildConstraintsFromInstructions`, `ToString` | arguments are inputs, the return value an output; stops at the first error |
| **Passes** `RefinementFunctionSignatureAnalysisPass`, `RefinementFunctionAnalysisPass`, `RefinementChecker`, hook in `lib/Transforms/IPO/PassManagerBuilder.cpp` | the result of each analysis per function | `runOnFunction`, `runOnModule` | every function that claims a refinement is checked, against the signatures its callers assume, whatever the order of the functions and however often the signature pass is rerun; a missing or broken one is an error |
| **Fixpoint manager** `LT/FixpointManager.cpp` | temporary files, exit code | run the solver and read its verdict | only a solver that ran and said so makes a function safe |
| **Refinement metadata** `LT/RefinementMetadata*.cpp`, `FixpointTypeConvertor.cpp` | a cursor in the operands of a metadata node | extract parameters, return value, types | the cursor advances once per operand; the layout matches the writer |
| **Refinement parser** `LTP/RefinementParser.cpp`, grammar | a tree | parse, normalise | the text handed to the builder means what was written |
| **Example clients** `tools/liquidTypes-varibleEnvLib-example/` | - | drive the environment by hand | - |
| Generated parser, ANTLR runtime, upstream LLVM | - | - | outside this project |

How they interact: the checker asks the analysis pass of a function for its query; the
pass hands an `LLVMFunctionBlockGraph` to a new environment and drives it through the
constraint generator, one call per instruction. The environment asks the graph for
predecessors and reachable blocks, and turns each call into several calls of the builder
it owns. An error of any call is passed up and ends the run. `ToStringOrFailure` ends a
run that succeeds; the text goes to the solver.

The hazards of this code are listed in `PROJECT.json`, each at its line, with the
properties that guard it or the reason none does yet.

## 2. Modules

| Module | Models | State and actions, and the code they stand for |
|---|---|---|
| `ControlFlow` | the interface of graphs, without algorithms | `succ[b]`, the successors in terminator order with repetitions; `Reach`, `ReachablePredecessors`, `StrictlyDominates`: definitions by closed sets, which the traversals are compared with |
| `FunctionBlockGraph` | both worklist loops | `Dequeue` is one iteration of the outer loop, `Examine` one of the inner; `answer` is `previousBlocks` or `blocks` |
| `FunctionBlockGraphProofs` | - | section 5 |
| `BlockGuards` | `initializeBlockGuards` and the recursion `getBlockGuard` | a stack of frames, one per running call, each with the predecessors it has still to visit; `cachedBlockGuards`; a guard is a set of disjuncts, each a set of edges, in place of its text |
| `BlockGuardsProofs` | - | section 5 |
| `ConstraintStore` | the builder's operations, as functions from the fields (a record) to the result and the new fields; an error returns the fields as the code leaves them then, ids consumed included | one operator per method, with its name |
| `FixpointConstraintBuilder` | the object: any sequence of calls, the first error the last | one action per public method; `Spec` any client, `OrderlySpec` one that promises a name once and before it binds it |
| `BinderRegistry` | what the builder promises about ids, without the mechanism | ids are given once, stay, and are bound when the query is written |
| `FixpointConstraintBuilderProofs` | - | section 5 |
| `EnvironmentStore` | the environment's operations, as functions in the same way, built from those of `ConstraintStore` | one operator per method; loops over ordered sets are folds |
| `VariablesEnvironment` | the object with a client that may do anything | one action per public method. `Enter` is `StartBlock` in full: ending the block before, the guards, phi nodes of joins and loops |
| `EnvironmentStoreTheorems` | - | facts about `Reach` and its closed sets; what each operation of the builder and each small step of the environment does to the fields, and what it never takes back |
| `LoopTheorems` | - | the rule for loops: what one round preserves, `ForEach` preserves |
| `VariablesEnvironmentProofs` | - | section 5 |
| `InstructionConstraints` | the client the compiler has: `RefinementConstraintGenerator` and `RefinementInstructionConstraintGenerator` | one operator per `Capture...` method, with the calls of the environment it makes in their order, and one action per kind of instruction; the function is chosen as it is visited: `defs` are the registers so far, `owed` those that phi nodes wait for. An assertion that fails is the outcome "aborted" |
| `InstructionConstraintsProofs` | - | section 5 |
| `RefinementVerdict` | what the checker promises about a compilation | accepted only when every annotated function has been proved; a decision stands |
| `CheckerPipeline` | `RefinementFunctionSignatureAnalysisPass`, `RefinementFunctionAnalysisPass::runOnModule`, `RefinementChecker`, `FixpointManager` | `GetSignature` and `BuildConstraints` are the iterations of the two loops of `runOnModule`; from `StartCheck` to `Judge`, one action for each step of `FixpointManager` that may fail; `Solve` is the other process. `signatureRI`, `sigInfo` and `RI` are the maps with those names, of which only the number of times each parameter occurs is kept |
| `CheckerPipelineProofs` | - | section 5 |
| `IntegerSemantics` | the formulas of `GetIntegerOperatorExpression`, of comparisons and of zero extension, beside the instructions they are for | a run of straight-line code: `registers` are what it computes at its widths, `models` the assignments of unbounded integers and booleans that the formulas so far admit; one action per instruction, with the formula of the matching `Capture...` |
| `MC*` | instances for TLC | graphs and small sets |

`VariablesEnvironment` extends `EnvironmentStore`, which extends `ConstraintStore` and
`ControlFlow`: a call of the environment makes the builder's calls with their errors and
ids. It does not repeat what has been established below it. The traversals are replaced by
`Reach` and `ReachablePredecessors`, which the theorems of `FunctionBlockGraphProofs`
justify; the guards by the edges they mention (`GuardEdges`), which the recursion collects
(`GuardsInScope`, proved by `GuardsAreInScope`).

`InstructionConstraints` extends `EnvironmentStore` too: `VariablesEnvironment` shows what the
environment does for any client, `InstructionConstraints` what becomes of every legal function
in the hands of the one client that the compiler has. Both run the same operators.
`CheckerPipeline` is above them: that constraints were generated is one of the outcomes of
`BuildConstraints`, that they were not another, and it implements `RefinementVerdict`.

`IntegerSemantics` stands beside these: it is about what the formulas say, which the
environment never reads. LLVM's instructions are the external part of it.

Abstractions. Names that the code joins from strings are tuples, so they cannot collide
(section 6). An expression is `Over(names)`, the set of names in it: the environment copies
the text and never reads it. A query in `CheckerPipeline` is the function it is for and the
signatures it relies on. The type of the graph is a function of blocks to sequences.
Text layout, quoting and messages are left out. `std::set` iteration order only decides
which numbers ids get, and no property depends on it.

## 3. Runs

| Run | Shows |
|---|---|
| `function_block_graph` | Both traversals on *every* graph of three blocks with at most two targets per terminator, repeated targets, unreachable blocks and loops included. `PreviousBlocksExact`, `AllSuccessorsExact` compare the answers with the definitions, `IInv` is the inductive invariant of the proof, `CallsReturn` termination. |
| `block_guards` | The recursion on every graph of four blocks whose only cycles are one-block loops, numbered in topological order (what the entry reaches can always be numbered so): `NoReentrance` (a block is never computed while it is being computed), `GuardsExact` (a guard is true exactly on the sets of transitions of executions that reach the block; with a one-block loop, at least on those), `GuardsInScope` (whatever a guard mentions is visible wherever the guard is used), `Completes`. |
| `block_guards_loop` | *Violation.* On the graph of `VariableEnvLib_LoopExample.cpp`, a loop through two blocks, the recursion goes deeper than there are blocks; it never ends. |
| `constraint_builder` | Any sequence of calls on two names and two constraints, in either type: `BinderIdsDistinct`, `KvarsWellFormed`, `WellFoundedEnvironments`, `NothingRewritten`, `UnsettledForEver`. |
| `constraint_builder_orderly` | An orderly client with three names: `EnvironmentsLive`, `QueryClosed`, and that the builder implements `BinderRegistry`. |
| `variables_environment` | An input and a refined mutable variable over a diamond, a triangle and a one-block loop, blocks started in any order, also after or before their predecessors, repeatedly or never, with terminators forgotten: `ScopeIsDefiniteAssignment`, `InputsVisibleEverywhere`, `EveryPathFlows`, `NothingSkipped`, `RefinementsChecked`, `FinishedBlocksFrozen`. Phi nodes of the program over an immutable variable and a phi variable on the triangle and the loop, including names not bound yet: `QueryClosed`. Also a refined output variable, created and assigned around a loop, and a loop through two blocks, which ends in the overflow. |
| `shared_phi_source` | *Violation* of `QueryClosed`: two phi nodes of a loop header that wait for one variable. `CreateFutureBinder` replaces the first promise, and the first constraint keeps an id that no binder has. The query is written without an error. |
| `integer_semantics` | Addition, operations flagged `nuw`, unsigned comparisons and zero extension over all values of one to three bits: the run is a model of its formulas (`RunAdmitted`: else the solver proves what is false) and the only one (`RunDetermined`: else it refuses what is true). |
| `signed_comparison` | *Violation* of `RunAdmitted`: operands above the signed maximum are moved down by 2^(n-1), half of what they should be. |
| `instruction_constraints` | Every legal function on a triangle and on a one-block loop with up to three instructions besides terminators, on a fork with two returns and on a graph of four blocks in which a join may come before a block that another dominates with up to two, on one of five with two such joins with one, and on a branch with one target: `OperandsFound` (whatever the next instruction may use is mapped in the current block: no assertion of `GetVariableName` can fail but for the cases below), `RawNamesSafe` (names that branches, phi nodes and calls use without a look-up are the right ones), `ReturnsChecked` (in the query, each return is checked against the refinement of the result, under the guard of its block and with the parameters known), `FormulasClosed` (what a constraint mentions is in its environment, in any function that is not about to be refused), `RefusalsKnown` (a legal function is refused only for the reasons listed in section 4). |
| `calls_refused` | *Violation* of `CallsCaptured`: a call creates the formals of the callee as immutable inputs and then assigns them as mutable variables, which is an error. Only functions without parameters can be called. |
| `checker_pipeline` | Modules of three functions, each with or without a body, refinements and malformed metadata, calling any of each other; every step of the solver's run may fail and the solver may be killed: `SignaturesComplete`, `SignaturesOnce`, `AcceptedMeansProved`, the refinement `ImplementsVerdict`, and `Decides`: the compiler decides unless a solver runs for ever. |

The four violations are described with the quotes they contradict in `PROJECT.json`.
`CHECK_DEADLOCK FALSE` is used wherever the object ends: after an error, a written query,
a finished computation. `function_block_graph`, which can always be called again, checks
for deadlock.

Three more instructions are outside `integer_semantics` because their formulas are wrong in
the same plain way; adding them to `BinaryOperators` refutes `RunAdmitted` at once. `sub`
without flags wraps only what is above the maximum, so 0 - 1 is -1 in the query; `mul` without
flags shares the formula and is wrong above twice the maximum. Anything flagged `nsw` equates
`__value` with the result for the unsigned operands, never reduced, under a condition that
takes the signed value of an operand to be its unsigned value minus 2^n - 1 where the comment
beside it says 2^n.

### Bounds

- *Blocks.* Three for the traversals (all graphs: 13^3), four for the guards, where the
  smallest diamond with a nested branch needs four. The environment runs on a graph for each
  of its cases: a join whose predecessors are incomparable (diamond), a join with one
  predecessor dominating the other (triangle: the case of
  `validateFinishedAndUnfinishedBlockStates`), a block that is its own predecessor (loop).
  Loops through several blocks always overflow, so no larger loop is of use.
- *`StackLimit` = 5*: one more than the blocks. `NoReentrance` shows that no legal graph
  needs more frames than blocks; the violation shows that a cycle passes any limit.
- *Names.* Two with two constraints, or three with one: a promise, a binder and a
  constraint that mentions both. `MaxPromises` = 3 lets a name be promised again twice;
  it guards `FutureBinder` alone, binders are bounded by the names.
- *`MaxWriters` = 3*, with one assignment per block and variable: writers on both sides of
  a join and in the loop or the join itself. A second assignment in one block only renames
  the mapping once more.
- *Expressions* mention at most one variable of the current block: closedness and flow are
  unions over the names mentioned.
- *Widths* 1 to 3, two arguments and up to two instructions, the second of which may use the
  result of the first: three bits have two numbers on each side of every boundary, and the
  formulas are the same at each width. `Integers` (-64 .. 64 for three bits) holds every sum,
  difference and product of what variables may be, with room on both sides.
- *Statements come before the terminator* of their block, as in LLVM.
- *Instructions.* Three, with three registers, one of which may be a parameter, callees of no or one parameter and
  one constant: enough for a definition, a use of it in another block and a phi node or a cell
  that joins both, or two phi nodes and a condition. The graphs of four and five blocks are the
  smallest in which the last two reasons of `RefusalsKnown` occur; all graphs of four blocks with
  one instruction, and random functions with up to four on graphs of four and five blocks, were
  run once. One operand of a computation stands for two,
  since expressions are unions of names; parameters, results and cells are integers, since the
  code refuses other parameters and clang keeps a boolean in memory as a byte. All blocks are
  reachable, and no two phi nodes wait for one register (`shared_phi_source`). Blocks come in
  any order in which the entry is first. Four instructions that only use memory, on the
  triangle, were run once: a pointer phi node of allocas in two branches is then refused, as
  `RefusalsKnown` allows.
- *Functions.* Three: a caller, a callee and one that is neither, or a cycle of calls.

### Fairness

Three specifications state fairness. `FunctionBlockGraph` takes `WF` of the loop's
steps and not of the calls: nobody has to call, but a running loop on the one thread waits
for nothing. `BlockGuards` takes `WF(Next)`: it is one call.
`CheckerPipeline` takes `WF(Compile)`, the compiler's own steps, which wait for nothing but the
solver; that the solver ends is *not* assumed, since the code sets no timeout
(`FixpointManager.cpp:68`), so `Decides` leaves a solver that runs for ever as the other case.
The builder and the environment promise nothing about when clients call, and state no liveness;
neither does `InstructionConstraints`, whose functions are the environment's choice.

## 4. What is established, per hazard

- *A join or loop that drops a value.* `EveryPathFlows`: in the query written, for each edge
  between processed blocks, the value at the end of the source flows (through constraints of
  phi nodes and kept promises) into the name at the start of the target.
  `ScopeIsDefiniteAssignment`: scope is the textbook notion, whichever order the blocks are
  started in. Inputs are in scope everywhere; outputs are exempt, because
  `getCommonVariables` neither gives them phi nodes nor shares them with a predecessor that
  is not finished (line 294).
- *A guard that is false where it should be true* would silently free constraints of the
  block. `GuardsExact`, under the premise that no cycle passes two blocks; with such a cycle
  there is no guard at all (`block_guards_loop`).
- *A promise lost.* `EnvironmentsLive`, `QueryClosed`, `NothingSkipped`; a client that
  promises twice loses ids (`shared_phi_source`), one that promises a bound name can never
  finish (`UnsettledForEver`), which is loud but late.

- *An operand that is not where it is looked up* aborts a debug build and puts an empty name in
  the query of a release build. `OperandsFound`: definitions that dominate a block, cells and
  constants are mapped there, whatever the order of blocks and wherever a constant occurred first.
- *A return that is not checked.* The result is a mutable variable whose refinement is noted when the
  signature is captured and read at each return, with calls, joins and failed calls in between.
  `ReturnsChecked`: the query has a check for every return, against that refinement, where the guard of
  the return's block and the parameters are known.
- *A legal program that is refused.* `RefusalsKnown` lists every way: a `select`, whose values
  overwrite the name of its condition (`:449`, while
  `examples_refinement/safe/selectTest.c` is meant to be safe); a call with an argument (`:513`);
  a branch on a boolean phi node, which has no type, or on a constant that was an integer first
  (`VariablesEnvironment.cpp:395`, `:33`); a store or load in a block that some alloca does not
  dominate, when that alloca counts as an alias (`:617`); a branch with twice the same target, whose
  second guard is refused; a join whose predecessors come in an order
  `validateFinishedAndUnfinishedBlockStates` cannot handle; two joins that come before a block they
  both follow and have different other predecessors, while a cell is in scope: each makes that
  block owe the value of the cell, and the second value is refused (`VariablesEnvironment.cpp:281`);
  and a phi node, in a join that comes before block p, that takes from p a register defined before
  in a block that dominates p but is not the join's finished predecessor: `p` does not have it yet,
  so it is promised although it is bound, and that promise is never kept
  (`VariablesEnvironment.cpp:419`). All but the select are loud in every build. Numbers are lines of `LT/RefinementInstructionConstraintGenerator.cpp`.
- *A branch on a boolean that was assigned again.* `AddBranchInformation` uses the name the client
  gave, the binder of the first version (`VariablesEnvironment.cpp:188`), so a client that assigns a
  boolean, as `VariableEnvLib_LoopExample.cpp:114-119` does, branches on its first value. The
  compiler's own client cannot: `RawNamesSafe`.
- *A function accepted without a proof.* `AcceptedMeansProved`: no error, skipped function, killed
  solver or stale answer leads to acceptance, and what callers assume of a callee was proved of the
  callee, recursion included. `SignaturesOnce` is what keeps this from being vacuous: the
  signature pass is rerun for each analysis requested of a function and its metadata append, but
  `runOnModule` works on a copy taken when each signature was made once.

## 5. Proofs

The provers check, for every value of the constants that meets the named assumptions:

*Traversals* (`FunctionBlockGraphProofs`; assumptions `EntryAssumption`,
`GraphsAssumption`). `SearchCorrect`: `Spec => []IInv`. The properties of the answers are not
inductive, since they speak of the moment of returning only. The invariant speaks of the
middle: every block seen lies in every closed set that holds the start (so it is reachable),
no edge leads from an *expanded* block out of the blocks seen, and the answer so far is
determined by the blocks dequeued. When the queue and the pending successors are empty, all
blocks seen are expanded, so they are closed, and they are the least such set.
`PreviousBlocksCorrect` and `AllSuccessorsCorrect` follow. Blocks may be any set, finite or
not.

*Builder* (`FixpointConstraintBuilderProofs`; assumption `KvarAssumption`, that no formula of
the client is an unknown predicate, and `MaxPromisesAssumption`). `InvariantHolds`:
`Spec => []IInv` with `IInv` = `TypeOK`, `BinderIdsDistinct`, `KvarsWellFormed`,
`WellFoundedEnvironments`, `CountersAhead`. Distinctness is not inductive without
`CountersAhead` (a fresh id must be ahead of all in use); the other direction is subtle where
a binder takes over a promised id: it is distinct from the rest because the promise was, and
outside its own environment because the promise is dropped before the environment is looked
up. There is one lemma per operation of `ConstraintStore`, stated with `ASSUME ... PROVE`, and
one step per action. From it: `TypeCorrect`, `IdsDistinct`, `KvarsCovered`,
`EnvironmentsWellFounded`, and the action properties `NothingIsRewritten` and `NeverSettled`.

*Orderly clients* (the same module and assumptions). `OrderlySpec` is the builder
called by a client that promises a name at most once and before binding it, which the
environment does except where `shared_phi_source` shows otherwise. `OrderlyInvariantHolds`:
`OrderlySpec => []OrderlyInv`, where `OrderlyInv` adds to `IInv` that while no error has
occurred no name is both bound and promised and that the ids mentioned are ids of names. The
first is what the second needs: then the ids in use are those of names, each successful call
gives an id to at most one name and leaves the others theirs (`BindIdentifies`,
`PromiseIdentifies`), so what is mentioned stays live. `EnvironmentsStayLive` and
`WrittenQueryClosed` follow. `RegistryImplemented` proves the refinement
`OrderlySpec => ImplementsRegistry`, one step of `BinderRegistry` (`Promise`, `Bind`,
`Constrain`, `Emit`, `Fail`) or a stutter for each call.

*Guards of blocks* (`BlockGuardsProofs`; assumptions `EntryAssumption`, `GraphsAssumption`,
`StackLimitAssumption`, and `EntryFirstAssumption`, that no jump leads to the entry, which LLVM's
verifier demands). `InvariantHolds`: `Spec => []IInv`, for any graphs, with any cycles. What the
properties say of finished guards is said in the middle of the recursion of each frame:
`FramesInv` has that a frame is for a block that is not cached and that its guard so far has what
the predecessors done with contribute; `CacheInv` that a cached guard has all of it, is not
empty, and has disjuncts whose edges are on ways to the block. `ChainInv` relates the frames:
each is for a predecessor, other than itself, of the block of the caller, and reaches the blocks
of all callers. That is needed twice. Two frames for one block make a cycle
through the frame above the first (`NoReentranceHolds`). And when a frame is cached no caller's
frame is for the same block, for the one above it would be cached already. `GuardsAreExact` then
takes the blocks with a true guard as a set that holds the entry and that no transition taken
leaves; `GuardsAreInScope` and `TypeCorrect` follow too. That the recursion ends is not among the
theorems.

*Variables environment* (`VariablesEnvironmentProofs`, resting on `EnvironmentStoreTheorems`
and `LoopTheorems`; assumptions: blocks and variables are finite and
"no block" is none, programs are a graph and a set of variables, a refined variable is a
variable, an input is created as nothing else, and no client calls a variable what the
environment calls a transition guard, a promised value or a version of a variable). Any control flow graph, any
client, any order of the blocks. `InvariantHolds`: `Spec => []Inv`. An operation such as
`StartBlock` is a chain of some twenty small steps and six kinds of loops, each of which may fail
half way and leave the object as it is then. So the argument has two layers.

- *Of the object.* `Healthy` holds of it after every small step, of calls that fail too: types,
  mappings that fit (`Fits`: a generated name is mapped to itself, a promised value in scope is
  bound, and the name of a refined variable answers for the refinement, `Demanded`), obligations
  that belong to the block that owes them, and the bound names of a block's transitions and
  promised values only once the block was started (`BoundByOwner`). `Keeps` relates a step's result
  to the state before: no mapping shrinks, no finished block changes, no binder and no constraint
  is lost or altered, and a name with an id keeps having one unless the call fails. One lemma per
  operation; the loops by `LoopTheorems`, whose rule for folds over finite sets is proved from a
  smallest set of elements that is a counterexample, since induction is out of reach (below).
- *Of the run.* `Inv` adds what relates operations. `OpenInv`: the current block is not
  finished, which is why assigning in it breaks no finished block (`FinishedStayFrozen`).
  `KnownInv`: every transition and everything owed has an id; with it a forgotten terminator
  or phi value is still promised when `ToStringOrFailure` looks, so `NothingIsSkipped`
  follows from the one check that is there. `MappedInv`: every reachable block has a mapping
  from the start, except that the entry gets its own when it is first mapped into; needed because
  an input is put into the blocks that have a mapping at that moment, and a later block gets it
  from its predecessors: `InputsAreVisible`. `RefinementsAreChecked` is `Demanded` read at the end,
  and `TypeCorrect` part of `Healthy`.

`QueryIsClosed` is about the client of `OrderlySpec`, whose phi nodes name no variable that is
promised already, and needs a second invariant, `SoundInv`. It cannot say that an id mentioned
always belongs to a name (`Live`): the environment promises a value of a block itself, for the
phi nodes it makes, and when both successors of an unfinished block are started before the block
ends it promises the same value twice. The second promise replaces the first, whose id stays in
an environment. But every such promise is owed by the block (`PromisesOwed`), so the block
then owes one name twice (`Doomed`), never discharges both, since the second value of a name is
refused, and the query is not written. So `Sound` is `Live` or `Doomed`, and a written query, in
which nothing is owed and nothing promised, declares all it mentions. The run
`shared_phi_source` shows what a client that is not orderly gets.

`PathsHold`: `Spec => []PathInv`, a third invariant, for the two properties that speak of ways
through the program. An operation sees one block and its predecessors only, and a predecessor that
is not finished may be the last block to be, so what a way does is said of its blocks and edges.
`NamesInv` says what a mapping can lead to: a version of the variable mapped, a value promised
of it, or the variable itself when it is an input or was written once. `ScopeInv`: each block in the scope
of a variable has, on every way to it, a block that wrote the variable, and each begun block
outside its scope is reached by a way through finished blocks of which none wrote it
(`ScopeKnown`; the second half is what makes scope *exactly* definite assignment, and holds
only of finished blocks, which assign no more). `PathsInv`: an edge out of a
finished block carries the value to the name that its target uses, by the mapping itself or by an assignment
constraint, and an edge out of a block that is not finished leads to a name that the block
inherits or owes a value for (`FlowsKnown`, `Pending`); discharging what is owed turns the second
into the first. `ScopeIsExact` and `EveryPathDoesFlow` follow. What is said of ways
needs no induction along them: the blocks that a way avoiding some others can reach are the least
set that holds the entry and is closed under the remaining edges (`ReachLeast`).

*Generators* (`InstructionConstraintsProofs`, on the same two modules; assumptions
`EntryAssumption`, `BlockAssumption` (finitely many blocks), `FunctionsAssumption` (functions are
graphs with terminators and a bound of the model; that their cycles have one block only is not
used), `CountsAssumption` (as many parameters as there are registers for) and
`VariableAssumption`). Any such graph, any number of registers, any order of the blocks, any
instructions. `TypeCorrect`, `RawNamesAreSafe`, `OperandsAreFound` and `ReturnsAreChecked`, again in
two layers.

- *Of the calls.* `Tidy` holds of the environment after every small step: what is mapped to another
  name than its own is the function's result or a cell (`Raw`), only cells are mutable, only
  results are outputs, and no mapping knows the empty name, so every `select` ends the run
  (`SelectFails`). The name a visible variable is mapped to is among the block's values, and if the
  variable is a register or a constant it has its binder (`Placed`). `Follows` relates a step's
  result to the state before: types stay, nothing goes
  out of scope, no binder and no constraint is lost or altered, the refinement noted for the result
  stays, and a constant that is new is in scope in all blocks with a mapping. One lemma for
  each call, the loops by `LoopTheorems`. `StartBlockStarts` says what a block takes over: what all
  its finished predecessors have, except results, whether it gets a phi node, is kept, or came
  by the sharing for predecessors to come. `FirstEnvironment` follows the first block and the
  signature through to their end, which is the one place where calls are shown to *succeed*.
- *Of the run.* `WalkInvariant` is `TypeOK` with `Tidy`; `TypeCorrect` and `RawNamesAreSafe` need
  no more. `OperandsFound` speaks of the current block, and the invariant for it,
  `ScopeInvariant`, of all blocks started: each register is in scope in every one that its
  definition dominates. Entering a block keeps this, since a definition that dominates the block
  from another dominates each of its predecessors (`DominatesPredecessor`), and those that are
  finished have it. Defining a register keeps it because no block started other than the current
  one is dominated by it: a block is started only after those that strictly dominate it are
  finished, for one predecessor must be, and so on back. Constants are in scope everywhere since
  every reachable block has a mapping from the start. `ReturnsInvariant` says of each return so
  far that its check is in the store (`Checked`). A return needs for it that the refinement is still
  the one of the signature, that the entry dominates its block, so that the parameters are in scope
  there (`ScopeInvariant`), and that the operand, the parameters and the guard of the block have
  binders, whose ids are therefore in the environment of the check (`VersionChecked`) and stay
  theirs (`IdsStay`). The invariants were model-checked first, as
  invariants of the run `instruction_constraints`' instance.

*Passes* (`CheckerPipelineProofs`; assumption `NoFunctionAssumption`, that the value for "no
function" is not one). `InvariantHolds`: `Spec => []IInv`. Acceptance is about the end of three
loops, so the invariant follows a function through them, in four parts. `ModuleInv`: the types.
`SignatureInv`: in the first loop, a function still to be visited has no signature, one with a
body that was visited has its parameters once, in both maps; afterwards the copy stays so
while the pass's own map grows. `AnalysisInv`: once the second loop has passed a function, an
annotated one has a body and a query for itself, whose parameters and whose callees' occur once.
`CheckInv`: the solver has the query of the function being checked, a safe answer means that
query is among the proved, and a function that the third loop has passed is not annotated or has
its query among them. When nothing is pending all annotated functions have been proved, and the
callees a query relies on are annotated too, so `AcceptanceIsSound` follows; and so do
`TypeCorrect`, `SignaturesAreComplete` and `ParametersOccurOnce`. `VerdictImplemented` proves the
refinement of `RefinementVerdict`: `Solve` maps to `Prove` or a stutter, `Accept` to `Accept`,
every fatal error to `Reject`. There may be any number of functions.

*Only model-checked*: liveness (`CallsReturn`, `Completes`, `Decides`), which the proof system does
not do; `FormulasClosed` and `RefusalsKnown` of `InstructionConstraints`, of which the first compares
all constraints of the query with where each mentioned name is bound, and the second the reason of an
end with the program (so that every call has to be shown to succeed otherwise); and `IntegerSemantics` (about exponentials and products, out of the provers' reach for every width).
What `FoldSet` computes is not proved by induction either, which needs a predicate as a parameter:
`LoopTheorems` goes through sets of counterexamples, of which a smallest one exists.

## 6. Not modelled

- Qualifiers and uninterpreted functions of the builder: two "add if new" lists that nothing
  else reads. The text of the query.
- Collisions of generated names with a client's (`v__1`, `a__b`): names are tuples here.
- What formulas of loads and stores say. One hazard there is known from reading: through a pointer
  that may be either of two cells, a load is given the conjunction of `address == cell <=> __value
  == value of the cell` over both (`:663`), which has no solution when both cells hold the same value.
- Metadata and parser: the operands of the metadata node, the cursor in them and the grammar. A
  broken one is an outcome of `CheckerPipeline`. A node with too few operands is read past its end,
  and a function with more parameters than its metadata indexes out of range
  (`RefinementMetadata_Raw.cpp:12`, `:136`); both have no outcome to model.
- Calls of functions whose signature was not analysed or is not annotated: the generator reads an
  indeterminate pointer or type (`RefinementConstraintGenerator.cpp:266`).
- Registers without a name, except constants; functions that return nothing; the renaming of
  variables in the refinement of a callee; `CaptureLoopConstraints`, which adds a qualifier.
- The references that the generator keeps into objects local to `runOnModule` and
  `runRefinementAnalysis` and does not use afterwards. The analysis for the new pass manager.
- `std::map::operator=` reuses nodes in some libraries, which with the appending assignment of the
  metadata would repeat parameters in `sigInfo` too; the model is of libstdc++, which does so with
  memory only and constructs the values anew.
- How the solver parses a formula: the code writes conditionals without parentheses around
  them, and `IntegerSemantics` takes the tree that is meant. Binary operators and comparisons
  of booleans. Runs that use a poison value: they end before.
- The solver, the file system, generated and vendored code, upstream LLVM.

## 7. Plan

In order of importance; 1 to 7 are here.

1. `ControlFlow`, `FunctionBlockGraph`: traversals, proved.
2. `ConstraintStore`, `FixpointConstraintBuilder`, `BinderRegistry`: the builder, proved as far
   as section 5 says.
3. `BlockGuards`, proved.
4. `EnvironmentStore`, `VariablesEnvironment`, proved.
5. `IntegerSemantics`: the formulas of integer instructions.
6. `InstructionConstraints`: the generators as a client of the environment, proved as far as
   section 5 says.
7. `CheckerPipeline`, `RefinementVerdict`: which functions get checked, with what verdict, and
   what an error, a missing solver or a second pass does; proved.
8. `MemorySemantics`: the formulas of allocas, pointer phi nodes, stores and loads, as
   `IntegerSemantics` has those of integers.
9. `MetadataExtract`: the cursor over the operands of the metadata. `RefinementParser`: the normal
   form; names and their mangling.

Proofs to come: the other invariants of `InstructionConstraints`, of which `FormulasClosed` needs the most: where each mentioned name is bound.
