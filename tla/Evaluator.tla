----------------------------- MODULE Evaluator -----------------------------
(***************************************************************************)
(* Control flow in one evaluation context: src/evaluator/eval.go with the  *)
(* calls of function.go, the iterations of iteration.go, DoStatic of       *)
(* context.go and the signals of errors/errors.go.                         *)
(*                                                                         *)
(* Go's call stack is a sequence of activations, one for each call that    *)
(* has something to undo or to recover from when it ends.  `break`,        *)
(* `next`, `return` and errors are panics: a signal in flight unwinds the  *)
(* activations one by one, each runs its deferred functions, and the first *)
(* one whose recover matches stops it.  Which expressions a program holds  *)
(* is left open: at each step the running activation may start whatever    *)
(* the evaluator would let an expression start in its place.               *)
(***************************************************************************)
EXTENDS Naturals, Sequences

CONSTANTS
  MaxActs,      \* bound: nested activations
  MaxTops       \* bound: calls of topEvaluate with this context

ASSUME BoundsAssumption == MaxActs \in Nat /\ MaxTops \in Nat

VARIABLES
  acts,         \* the activations, the running one last
  depth,        \* the number of frames of the context's scope
  stack,        \* the location stack of the context (StackPush, StackPop)
  static,       \* evalCtx.static
  signal,       \* the panic in flight
  tops,         \* how often topEvaluate has been called
  failures      \* history: how often it has panicked

vars == <<acts, depth, stack, static, signal, tops, failures>>

\* top: topEvaluate      program: evalProgram     load, call: call, before and
\* after StackPush
\* fn: puppetFunction.Call      lambda: puppetLambda.Call      defaults: the
\* parameter scope of CallBlock      iter: each, all, any, reduce2, asArray...
\* local: if, unless, case, selector      static: DoStatic
Kinds == {"top", "program", "load", "call", "fn", "lambda", "defaults", "iter",
          "local", "static"}

Scoped == {"fn", "lambda", "defaults", "local"}  \* they call WithLocalScope
Pushed == {"top", "program", "call"}             \* they have called StackPush
Evaluates == {"top", "program", "load", "fn", "lambda", "defaults", "local"}
Jumps == {"break", "next", "return"}
NoSignal == [kind |-> "none", target |-> 0]

\* An activation remembers what it found when it began: epCount of
\* WithLocalScope, whether DoStatic found the flag set and, as history, the
\* height of the location stack.
Activation == [kind : Kinds, epCount : Nat, locs : Nat, wasStatic : BOOLEAN]

TypeOK ==
  /\ acts \in Seq(Activation)
  /\ depth \in Nat
  /\ stack \in Seq(Kinds)
  /\ static \in BOOLEAN
  /\ signal \in [kind : Jumps \cup {"none", "error"}, target : Nat]
  /\ tops \in Nat
  /\ failures \in Nat

Height == Len(acts)
Top == acts[Height]
Running == signal = NoSignal /\ Height > 0

-----------------------------------------------------------------------------
(* Starting an activation. *)

Begin(kind) ==
  [kind |-> kind, epCount |-> depth, locs |-> Len(stack), wasStatic |-> static]

\* BasicEval: in static mode an expression of one of these kinds panics.
Dynamic == Running /\ Top.kind \in Evaluates /\ ~static

StartTop ==
  /\ Height = 0 /\ signal = NoSignal
  /\ tops < MaxTops
  /\ tops' = tops + 1
  /\ acts' = <<Begin("top")>>
  /\ stack' = Append(stack, "top")
  /\ UNCHANGED <<depth, static, signal, failures>>

StartProgram ==
  /\ Dynamic /\ Top.kind = "top" /\ Height < MaxActs
  /\ acts' = Append(acts, Begin("program"))
  /\ stack' = Append(stack, "program")
  /\ UNCHANGED <<depth, static, signal, tops, failures>>

\* if, unless, case and selector evaluate their parts in a local scope.
StartLocal ==
  /\ Dynamic /\ Height < MaxActs
  /\ acts' = Append(acts, Begin("local"))
  /\ depth' = depth + 1
  /\ UNCHANGED <<stack, static, signal, tops, failures>>

\* call: px.Load, which may parse a file and resolve the definitions in it,
\* and the parameters of the lambda are evaluated before StackPush.
StartCall ==
  /\ Dynamic /\ Height < MaxActs
  /\ acts' = Append(acts, Begin("load"))
  /\ UNCHANGED <<depth, stack, static, signal, tops, failures>>

PushCall ==
  /\ Running /\ Top.kind = "load"
  /\ acts' = [acts EXCEPT ![Height].kind = "call"]
  /\ stack' = Append(stack, "call")
  /\ UNCHANGED <<depth, static, signal, tops, failures>>

\* The block of a function or lambda, in its local scope; a call with fewer
\* arguments than parameters evaluates the defaults in a scope of their own.
CallBlock(kind, withDefaults) ==
  LET block == Begin(kind)
      dflts == [block EXCEPT !.kind = "defaults", !.epCount = depth + 1]
  IN  IF withDefaults
      THEN /\ Height + 2 <= MaxActs
           /\ acts' = Append(Append(acts, block), dflts)
           /\ depth' = depth + 2
      ELSE /\ Height < MaxActs
           /\ acts' = Append(acts, block)
           /\ depth' = depth + 1

\* A Puppet function, or a Go function that calls its lambda (with, then...)
\* or, as `call` does, other functions.  The default of a parameter may be a
\* Deferred, which calls its function without StackPush and without a lambda.
Invoke(kind, withDefaults) ==
  /\ Running
  /\ \/ Top.kind = "call" /\ kind \in {"fn", "lambda"}
     \/ Top.kind = "defaults" /\ kind = "fn"
  /\ CallBlock(kind, withDefaults)
  /\ UNCHANGED <<stack, static, signal, tops, failures>>

\* A Go function that iterates, and one element of the iteration.
StartIteration ==
  /\ Running /\ Top.kind = "call" /\ Height < MaxActs
  /\ acts' = Append(acts, Begin("iter"))
  /\ UNCHANGED <<depth, stack, static, signal, tops, failures>>

Iterate(withDefaults) ==
  /\ Running /\ Top.kind = "iter"
  /\ CallBlock("lambda", withDefaults)
  /\ UNCHANGED <<stack, static, signal, tops, failures>>

\* DoStatic, around the arguments of a type, also within another such type.
StartStatic ==
  /\ Running /\ Top.kind \in Evaluates \cup {"static"} /\ Height < MaxActs
  /\ acts' = Append(acts, Begin("static"))
  /\ static' = TRUE
  /\ UNCHANGED <<depth, stack, signal, tops, failures>>

-----------------------------------------------------------------------------
(* Signals. *)

\* Faulty variant: a lambda ends with `return` too.
CatchesLambdaReturn(kind) ==
  CASE kind = "fn" -> {"next", "return"}
    [] kind = "lambda" -> {"next", "return"}
    [] kind = "iter" -> {"break"}
    [] OTHER -> {}

\* The recover handlers.
Catches(kind) ==
  CASE kind = "fn" -> {"next", "return"}
    [] kind = "lambda" -> {"next"}
    [] kind = "iter" -> {"break"}
    [] OTHER -> {}

\* History: the activation that the signal is to end, which is that of the
\* innermost iteration for break, of the innermost function for return and of
\* the innermost function or lambda for next; failing that, topEvaluate.
Ends == [break |-> {"iter"}, next |-> {"fn", "lambda"}, return |-> {"fn"},
         error |-> {}]

Target(sig) ==
  LET ends == {i \in 1 .. Height : acts[i].kind \in Ends[sig]}
  IN  IF ends = {} THEN 1
      ELSE CHOOSE i \in ends : \A j \in ends : j <= i

RaiseSignal(sig) ==
  /\ signal' = [kind |-> sig, target |-> Target(sig)]
  /\ UNCHANGED <<acts, depth, stack, static, tops, failures>>

\* The Go functions break, next and return.
Jump(sig) ==
  /\ Running /\ Top.kind \in {"call", "defaults"} /\ sig \in Jumps
  /\ RaiseSignal(sig)

\* An error of any kind; in static mode also that of BasicEval.
Fail == Running /\ RaiseSignal("error")

-----------------------------------------------------------------------------
(* Ending an activation, normally or by a signal. *)

\* Faulty variant: a local scope takes the frame below along.
RunDeferredPopsTwo(panicking) ==
  /\ depth' = IF Top.kind \in Scoped THEN Top.epCount - 1 ELSE depth
  /\ stack' = IF Top.kind \in Pushed /\ ~(panicking /\ Top.kind = "top")
              THEN SubSeq(stack, 1, Len(stack) - 1)
              ELSE stack
  /\ static' = IF Top.kind = "static" /\ ~Top.wasStatic THEN FALSE ELSE static

\* Faulty variant: the pop is not deferred.
RunDeferredNoPop(panicking) ==
  /\ depth' = IF Top.kind \in Scoped THEN Top.epCount ELSE depth
  /\ stack' = IF Top.kind \in Pushed /\ ~panicking
              THEN SubSeq(stack, 1, Len(stack) - 1)
              ELSE stack
  /\ static' = IF Top.kind = "static" /\ ~Top.wasStatic THEN FALSE ELSE static

\* Faulty variant: every DoStatic clears the flag.
RunDeferredClear(panicking) ==
  /\ depth' = IF Top.kind \in Scoped THEN Top.epCount ELSE depth
  /\ stack' = IF Top.kind \in Pushed /\ ~(panicking /\ Top.kind = "top")
              THEN SubSeq(stack, 1, Len(stack) - 1)
              ELSE stack
  /\ static' = IF Top.kind = "static" THEN FALSE ELSE static

\* Faulty variant: the local scope is popped on the normal path only.
RunDeferredKeepScope(panicking) ==
  /\ depth' = IF Top.kind \in Scoped /\ ~(panicking /\ Top.kind = "local")
              THEN Top.epCount ELSE depth
  /\ stack' = IF Top.kind \in Pushed /\ ~(panicking /\ Top.kind = "top")
              THEN SubSeq(stack, 1, Len(stack) - 1)
              ELSE stack
  /\ static' = IF Top.kind = "static" /\ ~Top.wasStatic THEN FALSE ELSE static

\* The deferred functions of the running activation.  The StackPop of
\* topEvaluate is not among them: it is skipped when there is a panic.
RunDeferred(panicking) ==
  /\ depth' = IF Top.kind \in Scoped THEN Top.epCount ELSE depth
  /\ stack' = IF Top.kind \in Pushed /\ ~(panicking /\ Top.kind = "top")
              THEN SubSeq(stack, 1, Len(stack) - 1)
              ELSE stack
  /\ static' = IF Top.kind = "static" /\ ~Top.wasStatic THEN FALSE ELSE static

Return ==
  /\ Running /\ Top.kind # "load"
  /\ acts' = SubSeq(acts, 1, Height - 1)
  /\ RunDeferred(FALSE)
  /\ UNCHANGED <<signal, tops, failures>>

Unwind ==
  /\ signal # NoSignal /\ Height > 0 /\ Top.kind # "top"
  /\ acts' = SubSeq(acts, 1, Height - 1)
  /\ RunDeferred(TRUE)
  /\ signal' = IF signal.kind \in Catches(Top.kind) THEN NoSignal ELSE signal
  /\ UNCHANGED <<tops, failures>>

\* topEvaluate makes an error of whatever ends it, so its signal goes no further.
UnwindTop ==
  /\ signal # NoSignal /\ Height = 1 /\ Top.kind = "top"
  /\ acts' = <<>>
  /\ RunDeferred(TRUE)
  /\ signal' = NoSignal
  /\ failures' = failures + 1
  /\ UNCHANGED tops

-----------------------------------------------------------------------------

Init ==
  /\ acts = <<>>
  /\ depth = 1
  /\ stack = <<>>
  /\ static = FALSE
  /\ signal = NoSignal
  /\ tops = 0
  /\ failures = 0

Next ==
  \/ StartTop \/ StartProgram \/ StartLocal \/ StartStatic
  \/ StartCall \/ PushCall \/ StartIteration
  \/ \E withDefaults \in BOOLEAN :
       \/ \E kind \in {"fn", "lambda"} : Invoke(kind, withDefaults)
       \/ Iterate(withDefaults)
  \/ \E sig \in Jumps : Jump(sig)
  \/ Fail
  \/ Return \/ Unwind \/ UnwindTop

Spec == Init /\ [][Next]_vars

-----------------------------------------------------------------------------
(* Properties. *)

\* The frames and the locations there are while an activation is the last.
DepthIn(a) == IF a.kind \in Scoped THEN a.epCount + 1 ELSE a.epCount
LocsIn(a) == IF a.kind \in Pushed THEN a.locs + 1 ELSE a.locs

ScopesNest(q, d) ==
  /\ d = IF q = <<>> THEN 1 ELSE DepthIn(q[Len(q)])
  /\ \A i \in 1 .. Len(q) :
       q[i].epCount = IF i = 1 THEN 1 ELSE DepthIn(q[i - 1])

LocationsNest(q, locations, panics) ==
  /\ Len(locations) = IF q = <<>> THEN panics ELSE LocsIn(q[Len(q)])
  /\ \A i \in 1 .. Len(q) :
       /\ q[i].locs = IF i = 1 THEN panics ELSE LocsIn(q[i - 1])
       /\ q[i].kind \in Pushed =>
            locations[q[i].locs + 1] = q[i].kind

TypesNest(q, flag) ==
  /\ flag <=> \E i \in 1 .. Len(q) : q[i].kind = "static"
  /\ \A i, j \in 1 .. Len(q) :
       i < j /\ q[i].kind = "static" => q[j].kind = "static"

\* Whatever ends the activations, and in whatever order signals unwind them,
\* the scope has the frames of those that still run and no others; when none
\* does, it is back at the global frame.
ScopeFollowsCalls == ScopesNest(acts, depth)

\* The location stack holds what the running activations have pushed, in their
\* order, above one entry for each topEvaluate that has panicked: StackPop
\* always pops the entry of its own StackPush, so the location of a break, next
\* or return is that of its own call (the one it is a default for, in a default).
LocationsFollowCalls == LocationsNest(acts, stack, failures)

\* The static flag is set exactly while a type expression is evaluated, and
\* nothing dynamic is evaluated within one (pdsl.EvaluationContext.Static).
StaticFollowsTypes == TypesNest(acts, static)

\* A signal unwinds down to the activation it is meant for and stops there: a
\* return in the lambda of an iteration ends the function around it, a break
\* ends the innermost iteration whichever functions are called in between.
SignalReachesTarget ==
  [][signal # NoSignal =>
       /\ Height >= signal.target
       /\ signal' # signal => Len(acts') = signal.target - 1]_vars

\* What the proofs in EvaluatorProofs need besides: topEvaluate is at the bottom
\* and only there; the locations grow with the activations; DoStatic found the
\* flag set exactly when it is nested; and the target of a signal in flight is
\* there, ends the signal, and nothing above it does.
Grows(q) ==
  \A i, j \in 1 .. Len(q) : i < j => LocsIn(q[i]) <= q[j].locs

Shape(q) ==
  /\ \A i \in 1 .. Len(q) : q[i].kind = "top" <=> i = 1
  /\ Grows(q)
  /\ \A i \in 1 .. Len(q) : q[i].kind = "static" =>
       (q[i].wasStatic <=> \E j \in 1 .. i - 1 : q[j].kind = "static")

Aimed(q, sig) ==
  /\ sig.target \in 1 .. Len(q)
  /\ sig.target = 1 \/ sig.kind \in Catches(q[sig.target].kind)
  /\ \A j \in 1 .. Len(q) : j > sig.target => sig.kind \notin Catches(q[j].kind)

IInv ==
  /\ TypeOK
  /\ ScopeFollowsCalls
  /\ LocationsFollowCalls
  /\ StaticFollowsTypes
  /\ Shape(acts)
  /\ IF signal.kind = "none" THEN signal = NoSignal ELSE Aimed(acts, signal)
=============================================================================
