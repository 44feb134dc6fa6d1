---------------------------- MODULE StartupErrors ----------------------------
(***************************************************************************)
(* The classification of errors as the retry of the first connection       *)
(* computes it (pgxpool/startup.go): by a recursion over the error's tree, *)
(* here over its nodes in the order in which they were made.               *)
(***************************************************************************)
EXTENDS ErrorCauses, Sequences

Node == [kind : CauseKinds \cup Wrappers \cup {"join"}, causes : SUBSET Nat]

\* Each node comes after those it wraps or joins; the error is the last.
GoError == {e \in Seq(Node) : e # <<>> /\ \A i \in DOMAIN e : e[i].causes \subseteq 1..(i - 1)}

Plain(kind) == <<[kind |-> kind, causes |-> {}]>>

Wrapped(kind, e) == Append(e, [kind |-> kind, causes |-> {Len(e)}])

Joined(e, other) ==
    LET moved == [i \in DOMAIN other |-> [other[i] EXCEPT !.causes = {c + Len(e) : c \in @}]]
    IN  Append(e \o moved, [kind |-> "join", causes |-> {Len(e), Len(e) + Len(other)}])

-----------------------------------------------------------------------------

\* Mutant of Combined: an error is permanent only if all its causes are.
CombinedAny(verdicts) ==
    [retryable |-> \E v \in verdicts : v.retryable, permanent |-> \A v \in verdicts : v.permanent]

\* What the causes an error joins come to, or the one it wraps.
Combined(verdicts) ==
    [retryable |-> \E v \in verdicts : v.retryable, permanent |-> \E v \in verdicts : v.permanent]

\* The verdict on every node, by whether it belongs to an optional lookup.
classifyConnectError(e, topologyCanceled) ==
    LET verdict[i \in DOMAIN e] ==
          [optionalLookup \in BOOLEAN |->
             IF e[i].kind \in {"hook", "certificate"} THEN Veto
             ELSE IF e[i].causes = {} THEN VerdictAlone(e[i].kind, optionalLookup, topologyCanceled)
             ELSE Combined({verdict[c][optionalLookup \/ e[i].kind = "optional"] : c \in e[i].causes})]
    IN  verdict

transientConnectError(e, topologyCanceled) ==
    LET verdict == classifyConnectError(e, topologyCanceled)[Len(e)][FALSE]
    IN  verdict.retryable /\ ~verdict.permanent

-----------------------------------------------------------------------------

\* The causes below every node, as errors.As finds them.
CausesOf(e) ==
    LET causes[i \in DOMAIN e] ==
          IF e[i].causes = {} THEN Leaf(e[i].kind)
          ELSE Wrap(e[i].kind, UNION {causes[c] : c \in e[i].causes})
    IN  causes
=============================================================================
