---------------------------- MODULE Definitions ----------------------------
(***************************************************************************)
(* Definitions of functions, plans and types, from the program that holds  *)
(* them to the resolved function: AddDefinitions, ResolveDefinitions, Fork *)
(* and WithParent of src/evaluator/context.go, Resolve of function.go, the *)
(* loading of a definition from a file (instantiate.go) and topEvaluate.   *)
(*                                                                         *)
(* Each context belongs to one goroutine; their steps interleave.  The     *)
(* definitions that are not resolved yet are a Go slice of the context.    *)
(* A slice shares its backing array with the slices it is copied to, and   *)
(* an append writes into the array while there is room.                    *)
(***************************************************************************)
EXTENDS Naturals, Sequences, FiniteSets

CONSTANTS
  Contexts,     \* evaluation contexts
  Main,         \* the one that the program starts with
  Functions,    \* functions and plans that the host adds with AddDefinitions
  Types,        \* type aliases and object types that it adds
  FromFile,     \* functions that the loader finds in a file when they are used
  None,         \* no context
  Hosts         \* kinds of hosts: careful or not

ASSUME ConstantsAssumption ==
  /\ Main \in Contexts /\ None \notin Contexts
  /\ Functions \cap Types = {} /\ FromFile \cap (Functions \cup Types) = {}
  /\ Hosts \subseteq BOOLEAN

VARIABLES
  careful,      \* derives the host contexts only when nothing is pending?
  arrays,       \* backing arrays of slices, in the order of their allocation
  pending,      \* context -> evalCtx.definitions
  mode,         \* context -> what its goroutine does
  sees,         \* context -> the loaders in which it finds definitions
  home,         \* context -> its DefiningLoader, named by who created it
  entry,        \* definition -> the loader with its entry
  parametered,  \* functions with parameters (puppetFunction.parameters # nil)
  resolved,     \* definitions that are resolved: functions with a signature too
  batches,      \* context -> its active calls of ResolveDefinitions, innermost last
  dropped,      \* history: definitions taken by a ResolveDefinitions that panicked
  again         \* history: functions that were to be resolved a second time

vars == <<careful, arrays, pending, mode, sees, home, entry, parametered, resolved,
          batches, dropped, again>>

Definitions == Functions \cup Types \cup FromFile
Modes == {"none", "host", "resolving", "eval"}

-----------------------------------------------------------------------------
(* Slices. *)

Nil == [array |-> 0, len |-> 0]
Elements(slice) == IF slice.array = 0 THEN <<>> ELSE SubSeq(arrays[slice.array], 1, slice.len)

\* Faulty variant: a full array is not replaced.
AppendedNoGrow(slice, d) ==
  IF slice.array = 0
  THEN [arrays |-> Append(arrays, <<d>>), slice |-> [array |-> Len(arrays) + 1, len |-> 1]]
  ELSE [arrays |-> arrays, slice |-> [slice EXCEPT !.len = @ + 1]]

\* append: into the backing array if it has room, else into one twice its size.
Appended(slice, d) ==
  LET array == arrays[slice.array]
      fresh == [array |-> Len(arrays) + 1, len |-> slice.len + 1]
      twice == [i \in 1 .. 2 * slice.len |->
                  IF i <= slice.len THEN array[i] ELSE IF i = slice.len + 1 THEN d ELSE None]
  IN  CASE slice.array = 0 -> [arrays |-> Append(arrays, <<d>>), slice |-> fresh]
        [] slice.array # 0 /\ slice.len < Len(array) ->
             [arrays |-> [arrays EXCEPT ![slice.array][slice.len + 1] = d],
              slice |-> [slice EXCEPT !.len = @ + 1]]
        [] OTHER -> [arrays |-> Append(arrays, twice), slice |-> fresh]

\* A call of ResolveDefinitions: the slice it ranges over, the index it is at,
\* the types it has collected, the function that it has called Resolve of, if
\* any, and what that does: "parameters", then "return" type.
Batch(slice) ==
  [slice |-> slice, next |-> 1, types |-> {}, function |-> None, busy |-> "no"]
Depth(c) == Len(batches[c])
Innermost(c) == batches[c][Depth(c)]
AtEnd(b) == b.next > b.slice.len
Current(b) == arrays[b.slice.array][b.next]

\* The definitions that it still has to resolve.
Remaining(b) ==
  b.types \cup {Elements(b.slice)[i] : i \in b.next .. b.slice.len}

\* What the calls of c behind the first keep still have to resolve.
Unfinished(c, keep) == UNION {Remaining(batches[c][i]) : i \in keep + 1 .. Depth(c)}

-----------------------------------------------------------------------------
(* What the host of the evaluator does. *)

\* WithParent and Fork both start with clone, which copies the slice; a fork
\* gets a loader of its own below the one of its parent.
Derive(c, d) ==
  /\ mode[c] # "none" /\ mode[d] = "none"
  /\ careful => pending[c] = Nil
  /\ mode' = [mode EXCEPT ![d] = "host"]
  /\ pending' = [pending EXCEPT ![d] = pending[c]]
  /\ UNCHANGED <<careful, arrays, entry, parametered, resolved, batches,
                 dropped, again>>

WithParent(c, d) ==
  /\ Derive(c, d)
  /\ sees' = [sees EXCEPT ![d] = sees[c]]
  /\ home' = [home EXCEPT ![d] = home[c]]

Fork(c, d) ==
  /\ Derive(c, d)
  /\ sees' = [sees EXCEPT ![d] = sees[c] \cup {d}]
  /\ home' = [home EXCEPT ![d] = d]

\* AddDefinitions, one definition of the program: SetEntry, then append.  One
\* step: others find it entered and not resolved between the two and after them.
Define(c, d) ==
  LET after == Appended(pending[c], d)
  IN  /\ mode[c] = "host" /\ entry[d] = None
      /\ entry' = [entry EXCEPT ![d] = home[c]]
      /\ arrays' = after.arrays
      /\ pending' = [pending EXCEPT ![c] = after.slice]
      /\ UNCHANGED <<careful, mode, sees, home, parametered, resolved, batches, dropped, again>>

\* Faulty variant: the definitions stay pending while they are resolved.
TakenKeep(slice) == slice

\* evalCtx.definitions once ResolveDefinitions has taken them.
Taken(slice) == Nil

\* topEvaluate, up to the call of Eval; with nothing pending it evaluates.
TopEvaluate(c) ==
  /\ mode[c] = "host"
  /\ IF pending[c].len = 0
     THEN /\ mode' = [mode EXCEPT ![c] = "eval"]
          /\ UNCHANGED <<pending, batches>>
     ELSE /\ mode' = [mode EXCEPT ![c] = "resolving"]
          /\ batches' = [batches EXCEPT ![c] = <<Batch(pending[c])>>]
          /\ pending' = [pending EXCEPT ![c] = Taken(pending[c])]
  /\ UNCHANGED <<careful, arrays, sees, home, entry, parametered, resolved, dropped, again>>

EndEval(c) ==
  /\ mode[c] = "eval" /\ batches[c] = <<>>
  /\ mode' = [mode EXCEPT ![c] = "host"]
  /\ UNCHANGED <<careful, arrays, pending, sees, home, entry, parametered, resolved, batches,
                 dropped, again>>

-----------------------------------------------------------------------------
(* ResolveDefinitions and Resolve. *)

\* A panic ends the innermost calls of ResolveDefinitions.  An iteration around
\* the load of a function recovers from break, hence not all of them; when none
\* is left, the host gets the panic unless evaluation has begun and recovers.
Panic(c) ==
  \E keep \in 0 .. Depth(c) :
    /\ keep = Depth(c) => keep = 0
    /\ batches' = [batches EXCEPT ![c] = SubSeq(@, 1, keep)]
    /\ dropped' = dropped \cup (Unfinished(c, keep) \ resolved)
    /\ \/ keep > 0 /\ UNCHANGED mode
       \/ keep = 0 /\ mode[c] = "eval" /\ UNCHANGED mode
       \/ keep = 0 /\ mode' = [mode EXCEPT ![c] = "host"]
    /\ UNCHANGED <<careful, arrays, pending, sees, home, entry, parametered, resolved>>

Resolving(c) == batches[c] # <<>> /\ Innermost(c).busy = "no" /\ ~AtEnd(Innermost(c))

Collected(b) == [b EXCEPT !.types = @ \cup {Current(b)}, !.next = @ + 1]

\* A type is put aside; Resolve of a function begins, or refuses to.
CollectType(c) ==
  /\ Resolving(c) /\ Current(Innermost(c)) \in Types
  /\ batches' = [batches EXCEPT ![c][Depth(c)] = Collected(@)]
  /\ UNCHANGED <<careful, arrays, pending, mode, sees, home, entry, parametered, resolved,
                 dropped, again>>

BeginResolve(c) ==
  /\ Resolving(c) /\ Current(Innermost(c)) \notin Types \cup parametered
  /\ batches' = [batches EXCEPT ![c][Depth(c)].busy = "parameters",
                                ![c][Depth(c)].function = Current(Innermost(c))]
  /\ UNCHANGED <<careful, arrays, pending, mode, sees, home, entry, parametered, resolved,
                 dropped, again>>

AlreadyResolved(c) ==
  /\ Resolving(c) /\ Current(Innermost(c)) \in parametered
  /\ again' = again \cup {Current(Innermost(c))}
  /\ Panic(c)

\* The loop goes on to the next definition.
Advanced(b) == [b EXCEPT !.next = @ + 1, !.function = None, !.busy = "no"]

\* f.parameters is assigned, then the type of the result is evaluated.
SetParameters(c) ==
  /\ batches[c] # <<>> /\ Innermost(c).busy = "parameters"
  /\ parametered' = parametered \cup {Innermost(c).function}
  /\ again' = again \cup (parametered \cap {Innermost(c).function})
  /\ batches' = [batches EXCEPT ![c][Depth(c)].busy = "return"]
  /\ UNCHANGED <<careful, arrays, pending, mode, sees, home, entry, resolved, dropped>>

\* Faulty variant: Resolve goes on without a signature when it has no type for it.
EndResolveUnsigned(c) ==
  /\ batches[c] # <<>> /\ Innermost(c).busy = "return"
  /\ batches' = [batches EXCEPT ![c][Depth(c)] = Advanced(@)]
  /\ UNCHANGED <<careful, arrays, pending, mode, sees, home, entry, parametered, resolved,
                 dropped, again>>

EndResolve(c) ==
  /\ batches[c] # <<>> /\ Innermost(c).busy = "return"
  /\ resolved' = resolved \cup {Innermost(c).function}
  /\ batches' = [batches EXCEPT ![c][Depth(c)] = Advanced(@)]
  /\ UNCHANGED <<careful, arrays, pending, mode, sees, home, entry, parametered, dropped, again>>

\* Faulty variant: types are left to the next call.
ResolveNoTypes(c) == {}

\* px.ResolveTypes, for the types of the batch.
ResolveTypes(c) == Innermost(c).types

AtTypes(c) == batches[c] # <<>> /\ Innermost(c).busy = "no" /\ AtEnd(Innermost(c))

EndBatch(c) ==
  /\ AtTypes(c)
  /\ resolved' = resolved \cup ResolveTypes(c)
  /\ batches' = [batches EXCEPT ![c] = SubSeq(@, 1, Depth(c) - 1)]
  /\ mode' = IF Depth(c) = 1 THEN [mode EXCEPT ![c] = "eval"] ELSE mode
  /\ UNCHANGED <<careful, arrays, pending, sees, home, entry, parametered, dropped, again>>

-----------------------------------------------------------------------------
(* Code of the program that runs: the body, or an argument of a parameter's *)
(* default, which evalParameter evaluates inside Resolve.                    *)

Runs(c) ==
  IF batches[c] = <<>> THEN mode[c] = "eval" ELSE Innermost(c).busy = "parameters"

\* An error in it, in the type of a result or in a type of the batch.
Fail(c) ==
  /\ \/ Runs(c)
     \/ batches[c] # <<>> /\ Innermost(c).busy = "return"
     \/ AtTypes(c) /\ Innermost(c).types # {}
  /\ Panic(c)
  /\ UNCHANGED again

\* A call finds its function; before Resolve has ended it has no signature,
\* and CallBlock dereferences that when the body has been evaluated.
CallUnresolved(c, d) ==
  /\ Runs(c) /\ d \notin Types \cup resolved /\ entry[d] \in sees[c]
  /\ Panic(c)
  /\ UNCHANGED again

\* Faulty variant: the definition of the file is left for later.
LoadedBatchesNone(c, slice) == batches[c]

\* instantiatePuppetFunction resolves what is pending, with the new definition.
LoadedBatches(c, slice) == Append(batches[c], Batch(slice))

\* A call finds no function but a file for it.
Load(c, d) ==
  LET after == Appended(pending[c], d)
  IN  /\ Runs(c) /\ entry[d] = None
      /\ entry' = [entry EXCEPT ![d] = Main]
      /\ arrays' = after.arrays
      /\ batches' = [batches EXCEPT ![c] = LoadedBatches(c, after.slice)]
      /\ pending' = [pending EXCEPT ![c] = Taken(after.slice)]
      /\ UNCHANGED <<careful, mode, sees, home, parametered, resolved, dropped, again>>

-----------------------------------------------------------------------------

Init ==
  /\ careful \in Hosts
  /\ arrays = <<>>
  /\ pending = [c \in Contexts |-> Nil]
  /\ mode = [c \in Contexts |-> IF c = Main THEN "host" ELSE "none"]
  /\ sees = [c \in Contexts |-> {Main}]
  /\ home = [c \in Contexts |-> Main]
  /\ entry = [d \in Definitions |-> None]
  /\ parametered = {}
  /\ resolved = {}
  /\ batches = [c \in Contexts |-> <<>>]
  /\ dropped = {}
  /\ again = {}

Next ==
  \E c \in Contexts :
    \/ \E d \in Contexts : WithParent(c, d) \/ Fork(c, d)
    \/ \E d \in Functions \cup Types : Define(c, d)
    \/ TopEvaluate(c) \/ EndEval(c)
    \/ CollectType(c) \/ BeginResolve(c) \/ AlreadyResolved(c)
    \/ SetParameters(c) \/ EndResolve(c) \/ EndBatch(c)
    \/ Fail(c)
    \/ \E d \in Functions \cup FromFile : CallUnresolved(c, d)
    \/ \E d \in FromFile : Load(c, d)

Spec == Init /\ [][Next]_vars

-----------------------------------------------------------------------------
(* Properties. *)

Slice == [array : 0 .. Len(arrays), len : Nat]

\* A slice does not reach beyond its array, nor into the part that is not filled.
Fits(slice) ==
  IF slice.array = 0 THEN slice.len = 0
  ELSE /\ slice.len \in 1 .. Len(arrays[slice.array])
       /\ \A i \in 1 .. slice.len : arrays[slice.array][i] \in Definitions

TypeOK ==
  /\ careful \in Hosts
  /\ arrays \in Seq(Seq(Definitions \cup {None}))
  /\ pending \in [Contexts -> Slice]
  /\ mode \in [Contexts -> Modes]
  /\ sees \in [Contexts -> SUBSET Contexts]
  /\ home \in [Contexts -> Contexts]
  /\ entry \in [Definitions -> Contexts \cup {None}]
  /\ parametered \subseteq Functions \cup FromFile
  /\ resolved \subseteq Definitions /\ dropped \subseteq Definitions
  /\ again \subseteq Functions \cup FromFile
  /\ batches \in [Contexts -> Seq([slice : Slice, next : Nat \ {0}, types : SUBSET Types,
                                   function : Functions \cup FromFile \cup {None},
                                   busy : {"no", "parameters", "return"}])]
  /\ \A c \in Contexts : Fits(pending[c]) /\ \A i \in 1 .. Depth(c) : Fits(batches[c][i].slice)

\* Where a definition waits: among the pending ones of a context, or in one of
\* the calls of ResolveDefinitions that are active.
Holders(d) ==
  {<<c, 0>> : c \in {e \in Contexts : \E i \in 1 .. pending[e].len : Elements(pending[e])[i] = d}}
    \cup UNION {{<<c, i>> : i \in {j \in 1 .. Depth(c) : d \in Remaining(batches[c][j])}} :
                 c \in Contexts}

\* Whatever loads, forks and panics come in between, a definition that has been
\* entered in a loader waits in exactly one place until it is resolved, or until
\* the ResolveDefinitions that has taken it panics.
NoneLost ==
  careful => \A d \in Definitions :
    entry[d] # None =>
      Cardinality(Holders(d)) = IF d \in resolved \cup dropped THEN 0 ELSE 1

\* A function that has parameters and no signature is the one that its only
\* holder works on, or its Resolve has panicked: none is resolved by halves.
HalfResolvedIsHeld ==
  careful => \A d \in parametered \ resolved :
    \/ d \in dropped
    \/ \E c \in Contexts : \E i \in 1 .. Depth(c) :
         LET b == batches[c][i]
         IN  b.busy = "return" /\ b.function = d /\ Holders(d) = {<<c, i>>}

\* No function is resolved twice (puppetFunction.Resolve refuses to).
ResolvedOnce == again = {}

\* ... and none is when the host derives contexts with nothing pending.
ResolvedOnceIfCareful == careful => ResolvedOnce

\* A definition that an evaluation finds unresolved waits in another context, or
\* was taken by a ResolveDefinitions that panicked: whatever the context itself
\* has added or loaded since then is resolved when its program runs.
EvalFindsResolved ==
  careful => \A c \in Contexts : mode[c] = "eval" /\ batches[c] = <<>> =>
    \A d \in Definitions :
      entry[d] # None /\ d \notin resolved \cup dropped =>
        \E h \in Holders(d) : h[1] # c

\* Nothing is pending in a context while it evaluates, also after loads and
\* panics in it and when it has been derived from a context with pending ones:
\* it is up to date with every definition that it knows of.
NonePendingAtEval == \A c \in Contexts : mode[c] = "eval" => pending[c] = Nil

\* "ResolveDefinitions resolves all definitions of a parser.Program": one that
\* has been added is not forgotten by all contexts.
StillHeld ==
  \A d \in Definitions :
    entry[d] # None /\ d \notin resolved \cup dropped => Holders(d) # {}
=============================================================================
