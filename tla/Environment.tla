---------------------------- MODULE Environment ----------------------------
(***************************************************************************)
(* What the scopes of the evaluator promise, without maps that are shared  *)
(* and without rules for callers: each scope is an environment of its own, *)
(* a value.  It starts with the scope's own frames, and what it got from a *)
(* parent is a snapshot that nothing changes afterwards.  Scope implements *)
(* this specification (ScopeRefinement).                                   *)
(***************************************************************************)
EXTENDS Naturals, Sequences, Functions

CONSTANTS ScopeIds, Names, Pnr, Values, GroupKey, Matches, Absent

VARIABLE env    \* for each scope a sequence of levels, its own first

Dict == [Names \cup {GroupKey} -> Values \cup Matches \cup {Absent}]
Empty == [k \in Names \cup {GroupKey} |-> Absent]

Live(s) == env[s] # <<>>
Own(s) == env[s][1].frames
SetOwn(s, fs) == env' = [env EXCEPT ![s][1].frames = fs]

Init == env = [s \in ScopeIds |-> <<>>]

\* A new scope is empty above a snapshot, or has given globals and no parent.
Create(s) ==
  /\ ~Live(s)
  /\ \E dict \in Dict, isMutable \in BOOLEAN,
        rest \in {env[p] : p \in ScopeIds} :
       /\ rest # <<>> => dict = Empty
       /\ env' = [env EXCEPT ![s] =
                    <<[frames |-> <<dict>>, mutable |-> isMutable]>> \o rest]

\* A fork copies the environment, and that of each parent, to new scopes.
Fork(s) ==
  \E clone \in [1 .. Len(env[s]) -> {c \in ScopeIds : ~Live(c)}] :
    /\ Live(s)
    /\ IsInjective(clone)
    /\ env' = [c \in ScopeIds |->
                 IF \E k \in DOMAIN clone : clone[k] = c
                 THEN SubSeq(env[s], CHOOSE k \in DOMAIN clone : clone[k] = c,
                             Len(env[s]))
                 ELSE env[c]]

Push(s) == Live(s) /\ SetOwn(s, Append(Own(s), Empty))

Pop(s) ==
  /\ Live(s)
  /\ Len(Own(s)) > 1
  /\ SetOwn(s, SubSeq(Own(s), 1, Len(Own(s)) - 1))

\* The snapshot shows a global under the name n: in the first level that
\* binds n, no local frame does.
InheritsGlobal(s, n) ==
  \E k \in 2 .. Len(env[s]) :
    /\ env[s][k].frames[1][n] # Absent
    /\ \A i \in 2 .. Len(env[s][k].frames) : env[s][k].frames[i][n] = Absent
    /\ \A j \in 2 .. k - 1 : \A i \in 1 .. Len(env[s][j].frames) :
         env[s][j].frames[i][n] = Absent

\* An assignment changes one variable, in the scope's own top frame or in its
\* own global frame.  It replaces a value only in a local frame of a mutable
\* scope, and for $pnr over one that was inherited.
Assign(s) ==
  /\ Live(s)
  /\ \E n \in Names, v \in Values, i \in {1, Len(Own(s))} :
       /\ \/ i = 1 /\ InheritsGlobal(s, n) /\ n = Pnr
          \/ /\ ~(i = 1 /\ InheritsGlobal(s, n))
             /\ \/ Own(s)[i][n] = Absent
                \/ i > 1 /\ env[s][1].mutable
       /\ SetOwn(s, [Own(s) EXCEPT ![i][n] = v])

Capture(s) ==
  /\ Live(s)
  /\ \E groups \in Matches :
       SetOwn(s, [Own(s) EXCEPT ![Len(Own(s))][GroupKey] = groups])

Next == \E s \in ScopeIds :
  Create(s) \/ Fork(s) \/ Push(s) \/ Pop(s) \/ Assign(s) \/ Capture(s)

Spec == Init /\ [][Next]_env
=============================================================================
