# A verification of puppet-evaluator

This directory holds TLA+ specifications of the Puppet DSL evaluator in `src/`,
TLC models that check them on small instances, and TLAPS proofs of what matters
most. Paths below are relative to `src/`. `PROJECT.json` maps every definition
that models code to its lines, and lists the hazards of the code with the
properties that cover them.

## 1. The system

The evaluator takes a parsed Puppet program and computes its value. There is
one evaluation context for each goroutine that evaluates; it owns a stack of
source locations, a scope, a flag that says whether a type expression is being
evaluated, and the definitions that are parsed and not yet resolved. Parser, type
system, values and loaders come from other repositories (`issue`, `pcore`,
`puppet-parser`).

| Component | Files | State | Operations | What makes it correct |
|---|---|---|---|---|
| variable scopes | `evaluator/scope.go`, `pdsl/scope.go` | stack of frames, each a Go map; the mutable flag; the parent | `NewScope`, `NewScope2`, `NewParentedScope`, `Fork`, `WithLocalScope`, `Set`, `Get2`, `State`, `RxSet`, `RxGet` | variables are bound once; local scopes nest; forks and children are isolated |
| control flow | `evaluator/eval.go`, `evaluator/function.go`, `evaluator/iteration.go`, `evaluator/context.go`, `errors/errors.go`, `functions/{break,next,return}.go` | Go's call stack, the panic in flight, the location stack, the scope's depth, the static flag | `topEvaluate`, `evalProgram`, `call`, `Call` of functions and lambdas, the conditionals, `DoStatic`, the recover handlers | every signal ends what it is meant for; whatever ends, all that it has set up is undone |
| definitions | `evaluator/context.go`, `evaluator/function.go`, `evaluator/instantiate.go`, `evaluator/eval.go` | the pending definitions of each context, the loaders' entries, what is resolved | `AddDefinitions`, `ResolveDefinitions`, `Resolve`, `WithParent`, `Fork`, the load of a file | a definition is resolved once, and before the program that uses it runs |
| iteration | `evaluator/iteration.go`, `pdsl/iterator.go`, `functions/{each,map,filter,all,any,reduce,keys,values}.go` | position of the list's iterator | `Next`, `Each`, `EachWithIndex`, `Find`, `All`, `Any`, `Reduce`, `Reduce2`, `Map`, `Select`, `Reject`, `AsArray` | results are those of the elements; a break ends the right iteration; it ends |
| access and slices | `evaluator/access.go` | none | `accessIndexedValue` | a slice is what its keys select |
| functions and lambdas | `evaluator/function.go` | a function's parameters and signature | `CallBlock`, `Call`, `Resolve`, `evalParameter` | the body finds its parameters and nothing else; the caller finds its own variables again |
| assignment | `evaluator/assign.go` | through the scope | single and multiple assignment | each variable gets the part of the right side that is for it, from left to right |
| case, selector, match | `evaluator/eval.go`, `evaluator/comparison.go` | captures, through the scope | options in order, `default`, `=~` | the first match wins; captures and local variables end with the construct |
| arithmetic, comparison | `evaluator/arithmetic.go`, `evaluator/comparison.go` | none | operators on 64-bit integers, floats, strings with numbers in them, collections, types, versions | the operators agree with each other, also where ints wrap around or share a float |
| types from the syntax tree | `evaluator/deferred.go`, `evaluator/context.go` | none | conversion of one tree into another | |
| tasks and targets | `evaluator/task.go`, `evaluator/target.go`, `evaluator/instantiate.go` | none | type definitions in text; tasks from JSON | |
| workflow steps | `evaluator/workflow.go` | none | a hook for other repositories | |
| functions of the language | the rest of `functions/` | none | pure functions on values | |
| entry point | `puppet/entrypoint.go` | none | calls the function of the host with a context | |
| issue codes, interfaces | `pdsl/issues.go`, `pdsl/eval.go`, `pdsl/context.go` | none | | |

How they interact: the evaluator asks the context for its scope in every
operation and pushes frames with `WithLocalScope` around each `if`, `unless`,
`case`, selector and block call. A block call, an iteration and a conditional are
Go closures, so `break`, `next`, `return` and errors are panics that unwind
through the deferred functions of all of them until a recover handler keeps one.
`Fork` of a context copies its scope and gives the copy to a new goroutine.
A call of a function goes through the loader, which may have to read a file and
come back to `ResolveDefinitions` of the same context, or find a definition that
is entered and not resolved yet.

What is hard: Go maps and slices that are shared by reference; unwinding through
several layers of deferred functions and recover handlers; definitions that are
visible before they are usable; contexts that are derived from each other in the
middle of all this; numeric edges.

## 2. Modules

### Scope, Environment, ScopeRefinement, RecursionProofs, ScopeProofs

`Scope` models `BasicScope` and `parentedScope`. Frames are Go maps, so whether
two scopes hold the *same* map matters: `maps` is the heap, `frames[s]` the
addresses in `BasicScope.scopes`, `mutable`, `parent` the fields of the same
name, and `eps[s]` holds the local variable `epCount` of each `WithLocalScope`
call of `s` that is running. A reference to a variable is a name and a flag for
the `::` prefix.

| Action | Code |
|---|---|
| `NewScope`, `NewScope2`, `NewParentedScope` | the constructors |
| `Fork` | `Fork` and `copyFrom` of both types; that of a child forks all its ancestors |
| `EnterLocal`, `LeaveLocal` | `WithLocalScope`, before and after its function |
| `Set`, `RxSet` | the methods; a refused `Set` has no step |

`Get2`, `State` and `RxGet` are operators. The guard `Modifiable` is the second
rule in the comment of `pdsl.Scope`: callers fork a scope before they share it and
no longer modify one that is a parent.

`Environment` is what the scopes promise, without maps, references or rules for
callers: an environment is a value, its own frames above a snapshot of whatever it
got from a parent. `ScopeRefinement` maps the one to the other, and
`ImplementsEnvironment` says that sharing a parent by reference cannot be told
from a private copy of it.

### Evaluator, EvaluatorProofs

Control flow in one context. Go's call stack is `acts`, a sequence of
activations, one for each call that has something to undo or to recover from: an
activation remembers `epCount` of `WithLocalScope`, whether `DoStatic` found the
flag set, and (as history) the height of the location stack. `depth` is the
number of frames of the scope, `stack` the location stack, `static` the flag,
`signal` the panic in flight.

| Action | Code |
|---|---|
| `StartTop`, `StartProgram`, `StartLocal`, `StartStatic`, `StartIteration` | `topEvaluate`, `evalProgram`, the conditionals, `DoStatic`, the operations of `iteration.go` |
| `StartCall`, `PushCall`, `Invoke`, `Iterate` | `call` before and after it has pushed its location, `puppetFunction.Call` and `puppetLambda.Call` with `CallBlock` |
| `Jump`, `Fail` | `break`, `next`, `return`; any error |
| `Return` | an activation that ends normally, with its deferred functions |
| `Unwind`, `UnwindTop` | one activation that a panic goes through or ends at; `topEvaluate` |

Which expressions a program holds is left open: in each step the running
activation may start whatever the evaluator would let an expression start in its
place. `Target` is the activation that a signal is meant for, from what the
signals mean and independent of the handlers in `Catches`; that the handlers get
each signal there, past the lambdas, defaults and iterations in between, is
`SignalReachesTarget`.

### Definitions, DefinitionsProofs

Several contexts, each with a goroutine of its own, whose steps interleave. A Go
slice is an address and a length; `append` (`Appended`) writes into the backing
array while there is room, so contexts that share an array can overwrite each
other's elements. `batches[c]` is the stack of the active `ResolveDefinitions` of
a context: a default of a parameter is evaluated inside `Resolve`, may call a
function that is still in a file, and so may begin another one. `parametered` are
the functions with `parameters # nil`, which is what `Resolve` looks at to refuse a
second call; `resolved` are those that have a signature as well.

| Action | Code |
|---|---|
| `WithParent`, `Fork` | the constructors of derived contexts, with `clone` |
| `Define` | one definition in `AddDefinitions`: entry in the loader, then `append` |
| `TopEvaluate`, `EndEval` | `topEvaluate`: resolve, then evaluate |
| `CollectType`, `BeginResolve`, `AlreadyResolved`, `EndBatch` | the loop of `ResolveDefinitions`, with `ResolveTypes` behind it |
| `SetParameters`, `EndResolve` | `Resolve` when the defaults are evaluated, and when the type of the result is: in between the function is half resolved |
| `Load` | a call that makes the loader read a file, up to `ResolveDefinitions` |
| `CallUnresolved`, `Fail` | a call of a function that is entered and not resolved; any other panic |

A panic may end any number of the active `ResolveDefinitions`, depending on who
recovers from it (`Panic`). Each definition is added once: the loader refuses a
second one of the same name. `careful`, chosen from `Hosts` at the start, is a host
that derives contexts only when nothing is pending in them; the others derive them
at any time. The appends of two contexts to one array are steps, one after the
other: what a data race inside of one `append` adds to finding 4 is left out.

### Iteration, IterationProofs

One list with its `indexedIterator`, and operations on it, one after the other,
each through a chain of `mappingIterator`s and `predicateIterator`s. `pos` is
`indexedIterator.pos`, which outlives an operation; `at` says how far up the chain
the element at `pos` has come; `calls` and `done` are history. `Sessions` are the
lists with what is done to them: the size, the uses (a chain and an operation) and
how many of them follow each other. `LanguageFunctions` are the uses that `each`,
`map`, `filter`, `all`, `any`, `reduce`, `keys` and `values` make.

| Action | Code |
|---|---|
| `Begin` | an operation; `AsArray` of an `indexedIterator` ends at once |
| `Pull`, `Exhausted` | `indexedIterator.Next` |
| `MapLink`, `PredicateLink` | `Next` of the links, with their callback |
| `Take`, `Consume` | the element reaches the operation, without or with a callback |

Every callback may return something true or false, break, or fail, and `Recovers`,
`Unguarded` and `Broken` say who makes what of a break. Elements are their
positions, so that the results say which elements they come from.

### Expressions: GoInts, Access, Numbers, ExpressionsProofs

The expressions without effects. `GoInts` has the ints of the machine, `MaxInt`
the largest of them, and the addition that wraps around. `Access` is
`accessIndexedValue` for arrays and strings, with Go's slice expression that panics
when it is out of range (`Slice`). `Numbers` is `arithmetic.go` and
`comparison.go`: the dispatch on the kinds of the operands with its errors, ints
that wrap around and shifts whose count is made unsigned, `+`, `-` and `<<` of arrays, hashes
and URIs, and the comparison of numbers, which goes through `float64` even for two
ints. `Rounded`, the float of an int, is any monotone function that is exact up to
`Exact`. What the machine computes of two floats is kept as a term, since no
property looks into it; strings carry the number that is read in them.
`Expressions` composes the two: a behaviour is one `Arithmetic`, `Comparison` or
access.

`SliceIsSelected` compares the clipping in `indexArg` and `countArg` with what the
two keys select in unbounded integers. `IntegerLaws` and `MinusUndoesPlus` relate
operators to each other. `OrderIsCoherent` relates the comparisons, and says that
they disagree in exactly three cases: ints beyond 2^53 that share a float, of which
neither is less and `==` still tells them apart (`ShareFloat`); infinity, which has
no difference with itself (`BothInfinite`); and types that differ and are assignable
to each other, each of which is less than the other (`Synonyms`). What is assignable
is decided in `pcore`: here it is any relation (`Assignables`), independent of
equality.

### Statements: Activities, Assignment, Selection, Calls, AssignmentMeaning, StatementsProofs, ParametersProofs

The constructs that touch the scope, over `Scope`. An activity is a construct that
has begun and not ended; `stack` holds those that run inside of one another,
`raised` what unwinds it. `base`, `before` and `ended` are history: the height
of the scope when an activity began, what was visible then, and the activity that
has ended in this step. `Origins` are the scopes that the context may have: a plain
one, or what `Fork` of a context makes, a new scope on top of a fork of the scope
there was. A fork may be taken anywhere, also inside of local scopes and in a
context that is a fork itself, so a parent comes with any frames and parents
(`ActivitiesInit`).

| Action | Code |
|---|---|
| `Fail`, `Unwind`, `Recover`, `Match` | (Activities) a panic, `next` or `return` from any piece of code, one deferred function or recover handler that it meets, the host that gets it; `=~` |
| `BeginAssign`, `RightEvaluated`, `AssignName`, `AssignArray`, `AssignHash`, `AssignFails`, `AssignEnds` | (Assignment) `evalAssignmentExpression` and the recursion of `assign`, one pair of a left and a right side at a time |
| `BeginIf`, `BeginCase`, `BeginSelector`, `IfTested`, `CaseTested` | (Selection) the local scope and the test |
| `MeetDefault`, `MeetValue`, `NoMatch`, `PlainMatch`, `RegexpMatch`, `SelectDefault`, `SelectionEnds` | (Selection) the loop over the options, and the code that is selected |
| `BeginCall`, `EnterDefaults`, `NoDefaults`, `NoDefault`, `ValueDefault`, `VariableDefault`, `CodeDefault`, `CodeDefaultEvaluated`, `LeaveDefaults` | (Calls) `Call` and the first half of `CallBlock`: defaults in a scope of their own |
| `Check`, `Bind`, `EvaluateBody`, `CallEnds` | (Calls) the types of the arguments, the parameters, the body, the type of the result |

`Statements` composes them: wherever a construct evaluates an expression
(`CodePhases`) another one may begin. `UsesScope` says that all of it is use of
`Scope`. `AssignmentMeaning` defines what a multiple assignment binds, by recursion
over its left side (`Leaves`), and `AssignmentIsPrefix` compares: an assignment that
fails has bound the variables before the failure, and no other.

## 3. Runs

Each `MC` module extends its module with values for the constants.

| Run | Instance | What it shows |
|---|---|---|
| `scope_isolation` | 4 scopes, 1 name, 2 frames each | `TypeOK`, `NoSharedMaps`, `OneViewPerStep`, `StateAgreesWithGet`, `ImplementsEnvironment`: scopes are isolated, and are environments. Four scopes are what a fork of a child with its parent needs |
| `scope_assign` | 2 scopes, 1 name, 2 values, captures, both flags, 3 frames | `BoundOnce`, `NoVisibleGlobalOverride`, `PopsItsOwnFrame`, `CoveredFramesFrozen`, with local scopes that nest, also on top of a fork that was taken inside of one |
| `scope_pnr_rule`, `scope_captures` | 2 scopes | findings 1 and 2 |
| `evaluator` | 9 activations, 2 evaluations | scope, locations and static flag follow the activations; signals reach their targets |
| `definitions` | 2 contexts, 2 functions, a type, a function in a file, careful hosts and others | with a careful host nothing is lost (`NoneLost`), left half resolved (`HalfResolvedIsHeld`) or resolved twice (`ResolvedOnceIfCareful`), and a program finds its definitions resolved (`EvalFindsResolved`); with any host `NonePendingAtEval` |
| `definitions_resolve_once`, `definitions_aliased` | other hosts; 1 function and 1 type; 5 functions | findings 3 and 4 |
| `iteration` | 3 elements and 3 calls of a host; 4 elements and 1 call of any operation through up to 2 links | `ResultOfElements`, `InOrder` across operations that share a position, `LastWord`, `BreakStaysInside`, `Terminates` |
| `expressions` | ints of 5 bits, floats with 3 significant bits, 65 operands of all kinds, lists of up to 5 | `SliceIsSelected`, `IndexAgreesWithSlice`, `IntegerLaws`, `MinusUndoesPlus`, `OrderIsCoherent` |
| `statements` | programs of 3 constructs, 2 inside of one another, on three scopes: a plain one, a fork of a context with globals, and a fork taken inside of a local scope of a fork | frames, parameters, defaults, selected options, captures and bindings, whatever panics (`FramesOfActivities`, `ParametersOfBody`, `DefaultsOfCaller`, `FirstMatchSelected`, `ViewKept`, `AssignmentIsPrefix`), and `UsesScope` |
| `statements_return` | the same | finding 5 |

Why the bounds are enough. A child, its parent and a fork of both are four scopes.
Two frames have a covered one and a top one, which is all that isolation tells
apart; three let a local frame be covered by another one, and local scopes nest on
both sides of a fork. The one name of these runs is an ordinary one: with `$pnr` and
another name three frames are too many states, and a child that overrides `$pnr` is
in `statements`. The proofs of `Scope` cover every name and depth. Nine activations hold a program, a call, its function with defaults, an
iteration with a lambda in it, and a call out of that; the proofs of `Evaluator`
cover every number. Two functions, a type and a file let a load happen inside a
resolve that still has a type and a function to go; five functions are the fewest
with room left in the array that two contexts then share. Four elements let a
predicate reject before and behind an element that breaks. Sixteen negative and
fifteen positive ints with lists of five have keys far before and behind every
list, sums and products that overflow, and shifts by more than the width; three
significant bits make ints share floats. Two constructs inside of one another put
any construct into any place of any other, and a third one comes after them: it
would meet what they leave behind. `MaxDepth` is five frames, what two nested calls
that evaluate defaults need, so it never stops a step. The proofs cover every
nesting.

Deadlock is checked in the scope and definitions runs. The other systems really
stop: when the evaluations, operations or constructs of the instance are over.

Fairness is assumed in one place: `FairSpec` of `Iteration` has weak fairness of
`Step`, the next thing that a begun operation does. An operation runs on one
goroutine to its end, with nothing to wait for, and its callbacks end; there is no
fairness for the host that begins operations. Nothing else here promises
progress: a Puppet program may recurse forever.

## 4. Proofs

All proofs are for every value of the constants, under the assumptions that the
modules name (`NoneAssumption`, `BoundsAssumption`, `IntAssumption`...): the
constants are sets and numbers of the right kind and special values differ from
ordinary ones.

- `RecursionProofs` has what recursive definitions need. A function that is defined
  along parents, up to a number, or over trees exists (`RecursionUp`,
  `RecursionOver`, `RecursionOverParts`) because its graph can be defined without
  recursion, as the least set that is closed under its equations; and what holds of
  it everywhere (`Grounded`, `AllUpTo`, `Founded`) holds because a least place where
  it fails would follow from one where it holds. No theorem that takes an operator
  as a parameter is used.
- `ScopeProofs`: `TypeCorrect`, `FramesNotShared`, `LocalScopesBalanced`,
  `CoveredFramesStay`, `VariablesBoundOnce`. The inductive invariant `IInv` says
  that frame `i` of scope `s` is the map that was made for it, so that no two are
  one; that `epCount`s and depth match; and that parents are created. The action
  properties follow from it step by step: `Set` writes one map, at an index that
  `MaySet` has looked at; `Fork` writes only maps of scopes that did not exist.

  `StateAgrees`, `StepsSeenOnce`, `GlobalsNotOverridden`: what a lookup finds through
  the parents. `ParentsEnd` says that no scope is its own ancestor, so `Get2`, `State`
  and the environment of a scope are what the scope has itself and what its parent
  has (`LookupsUnfold`, `EnvironmentsUnfold`). A scope of which a property of lookups
  fails then has a parent of which it fails. A step disturbs the frames of one
  scope (`Disturbs`), which by rule 2 is no parent, and all others look up what they
  did.

  `ScopesAreEnvironments`: every step of `Scope` is one of `Environment`, or is not
  seen in it (`StepEnv`). There is one lemma for each operation of the scopes:
  `EnterLocalPushes`, `LeaveLocalPops`, `SetAssigns`, `RxSetCaptures`, `CreateMakes`,
  `ForkCopies`. `Set` asks the parent whether it has a global, which `Environment`
  reads from its levels (`StatesShow`); a fork clones the scope with all ancestors,
  and each clone has the environment of its original (`ClonesEnv`).
- `EvaluatorProofs`: `TypeCorrect`, `ScopeBalanced`, `LocationsBalanced`,
  `StaticOnlyInTypes`, `SignalsEndTheirTarget`. The argument has
  two halves. `Nested` says that what each activation remembers is what the one
  below it has set up; it is kept when one begins (`BeginNests`) and when the last
  one ends with its deferred functions (`EndNests`), whichever way it ends. `Aimed`
  says that a signal in flight has a target that ends it and that nothing above
  the target does; raising a signal aims it (`TargetAimed`) and unwinding keeps it
  aimed (`StillAimed`). What the runs check is not inductive without these: the
  end of an activation restores a number that only `Nested` relates to the rest.
- `ExpressionsProofs`: `SlicesCorrect` and `IndexesAgree`, for every width of the
  ints and every length. `Counts` splits `countArg` by the sign of the count and by
  whether start and count fit the list and the ints; with `Starts` for `indexArg`
  the two cases in `TwoKeysSelect` are linear arithmetic. `SlicesInExpressions`
  carries them over, since each behaviour of `Expressions` is one of `Access`
  (`AccessesInExpressions`).

  `ComparisonsCoherent`: `OrderIsCoherent` holds for ints of every size, every
  monotone rounding and every reflexive relation of assignability, by the kinds of the
  two operands.

  `IntegersObeyLaws`: sums, differences and products that wrap around are those of
  the integers modulo the number of the ints (`SameInt`, `WrapsTo`), and in each
  class there is one int; so `+` and `-` undo each other, and quotient and remainder
  give the dividend back (`DividendBack`), also where the quotient wraps. Shifts
  need the powers of two one by one (`TwoToUnfolds`, `TwoToBounds`).

  `MinusTakesPlusBack`: what `Picked` picks of a list depends only on the places and
  on what is there (`PickedAlike`). What has been added to an array, or has been
  merged into a hash with its keys, is at none of the places that `-` picks
  (`AddedIsGone`, `MergedIsGone`).
- `DefinitionsProofs`: `TypeCorrect`, `UpToDateAtEval` and, for careful hosts,
  `EachResolvedOnce`, `NothingLost`, `NoneHalfResolved`, `ProgramsFindResolved`.
  Types need that arrays only grow and are only written behind what is filled
  (`Grown`), so that a slice goes on fitting its array whoever else appends to it.
  That no function is resolved twice needs much more than the property says: every
  list of pending definitions and every active `ResolveDefinitions` has an array
  of its own, no definition is in two of them, and a function with parameters is
  only in the one that works on it (`Tidy`). That none is lost is bookkeeping on
  top of it (`Accounted`): what the holders have still open is what has been
  entered and neither resolved nor dropped, each definition once. Every step is
  one of four moves of these books: a definition is added (`OneMore`), a new call
  takes what is pending (`OneTakes`), a call has done with some (`OneGoesOn`),
  calls end (`SomeEnd`). `HoldersAre` relates the books to `Holders`, of which the
  properties speak.
- `IterationProofs`: `TypeCorrect`, `NothingAfterTheLastWord`, `ElementsInOrder`,
  `NoBreakEscapes`, for every list, chain and session. Every step begins an
  operation, pulls, calls, goes on or ends (`Steps`), and each part of the
  invariant (the callbacks are behind the position, sorted, counted, numbered) is
  kept by each of these. For a break, `NoneThrough` says that while nothing in the
  operation would recover each element so far has been rejected by a link; a
  rejected element has not come through because a link is called with it once,
  which the sorted calls show.

  `ResultsAreRight`: while an operation runs, what it has accumulated is what its
  result would be of the elements so far (`Accumulates`), and the element that is
  under way has been accepted by the links that it has left (`UnderWay`). No later
  call is of an operation that has ended or of an element that is behind (`Behind`),
  so what has been returned stays right. Which elements have come through is a set,
  and a result has its members in ascending order (`Ascends`): this determines it.
- `StatementsProofs`: `StatementsTyped`, `StatementsLeaveTheirFrames`,
  `StatementsUseScope`, `StatementsBindOnce`, `StatementsKeepFramesApart`, for any
  constructs nested to any depth. The invariant is the one of `Scope` together with
  a stack in which the `base` of each activity is where the one below it ends. Each
  step then does what one operation of `Scope` does, so `BoundOnce` and
  `NoSharedMaps`, proved of `Scope`, hold of Puppet code.

  `FirstMatchIsSelected`: a selection that is in its options has tried the values of
  the options before, in order, and none has matched; one that has selected has a
  last value that matched, or none and the last default (`SelectInv`). Options with
  several values are flattened, so the proof needs that flattening gives a sequence
  (`FlattenIsSeq`, of `FlattenGoes`). That an activity which is not the innermost one stays as it is,
  and the innermost one becomes what its own step makes of it, is `StepMoves`.
- `ParametersProofs`: `ParametersBound`, that a body finds its parameters, each
  with its own argument or default and of its type, and nothing else. The frame of
  a call holds exactly the parameters that have been bound so far; code in a
  default runs in frames above it, and what is covered does not change.

  `ViewAlwaysKept`: if the frames above its base were popped now, each activity
  would show what it found when it began, but for globals (`VInv`). A step writes
  the top frame or the global one of the context's scope, which is no parent, so what
  the parent shows stays (`SameInherited`); `Get2` finds a name in the own frames or
  in the parent, by `LookupsUnfold`. A global can be bound only if the parent shows
  none of that name: then the activity saw nothing there, or a local variable of the
  parent that hides its global (`ShownOrNothing`). `DefaultsSeeTheCaller`: while no code has run in a default the
  scope shows what it showed to the caller, since the frames that the call has
  pushed are empty (`DInv`).

  `AssignmentsBindInOrder`: what an assignment has bound, followed by the leaves of
  the pairs that remain, is at any time what it means (`InOrder` in `AInv`). Taking
  a list apart replaces a pair by its parts, which have the same leaves
  (`RestOfParts`); that these exist needs that a syntax tree ends, an assumption on
  `Lefts`. While an assignment assigns nothing else runs (`OthersRun`), so what has
  been set can be read until it is done (`ReadsWhatIsSet`).

Only model-checked: the liveness property `Terminates`, which no prover here can do.
The properties of the runs that expect a violation are false.

Some properties are stated in a form that can be reasoned about and says the same or
more. `ResultOfElements` describes results by sets of elements and not by
filtered sequences. The powers of two, the filters of `Numbers` and the leaves of
an assignment are recursive functions (`TwoTo`, `Picked`, `Leaves`).

`ViewKept` and `BoundUpToFailure` name two ways in which a scope may bind a global
although it shows one already: `$pnr`, and a name of which the parent shows a local
variable, which is finding 1 seen from the constructs. Both occur in `statements`: one
of the two names there is `$pnr`, and one origin has a parent with a local `$x`.

## 5. Findings

1. `scope_pnr_rule`: only `$pnr` may override a global of the parent
   (`evaluator/scope.go:188`), but the check looks up the unqualified name, and a
   local variable of the parent hides the global from it. What does hold is
   `NoVisibleGlobalOverride`.
2. `scope_captures`: captures "will be available until the current ephemeral scope
   it is popped" (`pdsl/scope.go:42`), but `RxGet` reads the top frame only
   (`evaluator/scope.go:52`), and a nested local scope has none.
3. `definitions_resolve_once`: a context that is derived while definitions are
   pending has them too (`evaluator/context.go:87`), resolves the same functions
   and runs into the panic of `evaluator/function.go:230`.
4. `definitions_aliased`: two such contexts append to one backing array
   (`evaluator/context.go:195`), and the second overwrites a definition of the
   first, which is in its loader and never resolved.
5. `statements_return`: the type of a function's result is asserted in `CallBlock`
   (`evaluator/function.go:189`), which a `next` or `return` leaves; `Call` recovers
   further out (`evaluator/function.go:118`) and hands the value on unchecked.

3 and 4 need a host that derives a context between `AddDefinitions` and
`ResolveDefinitions`; `definitions` shows that the others are safe, and
`EachResolvedOnce` and `NothingLost` prove it.

## 6. Not modelled

Components without a module, each with its reason in `PROJECT.json`: types from
the syntax tree (a conversion without state; `DoStatic` around it is in
`Evaluator`), tasks and targets, the workflow hook, the pure functions of the
language, the entry point, issue codes and interfaces. None has state or an order
of steps of its own.

Of the modelled components:

- access to hashes, type parameters, and the error for a key that is no integer;
- elements that are iterators themselves, which `AsArray` expands, a default of
  `Find3` that breaks, and what `find` returns after a break, which is written
  nowhere; `values` with a block iterates over the *keys* (`values.go:22`), which
  the positions of `Iteration` do not tell apart;
- blocks as arguments, the equality and the texts of functions;
- `break` out of an assignment, a selection or a call: it goes to an iteration, a Go
  function that may itself have been called from an outer construct; `Evaluator` has
  it, `Statements` has `next`, `return` and errors;
- the moment between the entry of a definition in the loader and its `append` to the
  list of the context, which are one step in `Definitions`: what another context can
  see there, a definition entered and not resolved, it also sees after the step;
- two contexts on one scope, which `WithParent` makes possible for a host that runs
  them in turns, and a fork inside of a type expression, which copies the static
  flag;
- which values match in a case: regular expressions and `PuppetMatch` are of Go
  and `pcore`;
- `TopEvaluate` and `DoWithScope` of the context, which have no caller in `src/`.

The hazards of `PROJECT.json` without a property have a note that says why.

## 7. Plan

Done, in this order, the most important behaviour first: `Scope`, `Evaluator`,
`Definitions`, `Iteration`, `Access`, then the constructs of the language over
`Scope` (`Assignment`, `Selection`, `Calls`, composed in `Statements`), `Numbers`
with `Access` in `Expressions`, half-resolved functions in `Definitions`, and
proofs of all of them.

Left:

1. Contexts that share a scope through `WithParent`, composing `Scope` and
   `Definitions`.
2. Iterators as elements of an iterator, with the shared positions this brings.
