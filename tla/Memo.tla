-------------------------------- MODULE Memo --------------------------------
(***************************************************************************)
(* What a caching resolver promises, with no locks, channels or steps of a *)
(* goroutine in sight.  A caller asks a question and gets one of three     *)
(* outcomes: an answer the resolver remembers and may still use, an answer *)
(* obtained while the caller was waiting, or an error.  Nothing is ever    *)
(* remembered but such an answer, for a life fixed by the answer, and an   *)
(* error leaves the memory as it was.                                      *)
(*                                                                         *)
(* Module Cache implements this specification; see Cache!MemoSpec.         *)
(***************************************************************************)
EXTENDS Integers

CONSTANTS Procs,      \* the callers
          Keys,       \* the questions: a name and a record type
          Answers,    \* the answers: records with at least fields key and at
          Life(_),    \* how long an answer may be used once remembered
          None        \* no question, no answer, nothing remembered

VARIABLES now,        \* the time
          asks,       \* the question each caller is waiting for, or None
          since,      \* when it asked
          got,        \* what its last call returned; None for an error
          known       \* what is remembered of each question, or None

vars == <<now, asks, since, got, known>>

Init ==
    /\ now = 0
    /\ asks = [p \in Procs |-> None]
    /\ since = [p \in Procs |-> 0]
    /\ got = [p \in Procs |-> None]
    /\ known = [k \in Keys |-> None]

Tick ==
    /\ now' = now + 1
    /\ UNCHANGED <<asks, since, got, known>>

Ask(p, k) ==
    /\ asks[p] = None
    /\ asks' = [asks EXCEPT ![p] = k]
    /\ since' = [since EXCEPT ![p] = now]
    /\ got' = [got EXCEPT ![p] = None]
    /\ UNCHANGED <<now, known>>

Reply(p, a) ==
    /\ asks[p] # None
    /\ asks' = [asks EXCEPT ![p] = None]
    /\ since' = [since EXCEPT ![p] = 0]
    /\ got' = [got EXCEPT ![p] = a]
    /\ UNCHANGED now

\* The answer is remembered and its life is not over.  That it was used may
\* be noted beside it.
Recall(p) ==
    LET k == asks[p] IN
    /\ k # None
    /\ known[k] # None
    /\ now <= known[k].expires
    /\ Reply(p, known[k].answer)
    /\ \E used \in BOOLEAN : known' = [known EXCEPT ![k].reused = used]

\* The memory may lose what it holds.
Lose(S) == [k \in Keys |-> IF k \in S THEN None ELSE known[k]]

\* The answer to this question was obtained after it was asked, and is
\* remembered for its life from now on.
Learn(p) ==
    LET k == asks[p] IN
    /\ k # None
    /\ \E a \in Answers :
        /\ a.key = k /\ since[p] <= a.at /\ a.at <= now
        /\ Reply(p, a)
        /\ \E S \in SUBSET Keys :
              known' = [Lose(S) EXCEPT ![k] = [answer |-> a, expires |-> now + Life(a),
                                               observed |-> now, reused |-> FALSE]]

Fail(p) == Reply(p, None) /\ UNCHANGED known

Forget(k) ==
    /\ known[k] # None
    /\ known' = Lose({k})
    /\ UNCHANGED <<now, asks, since, got>>

Next ==
    \/ Tick
    \/ \E p \in Procs : \/ \E k \in Keys : Ask(p, k)
                        \/ Recall(p)
                        \/ Learn(p)
                        \/ Fail(p)
    \/ \E k \in Keys : Forget(k)

Spec == Init /\ [][Next]_vars
=============================================================================
