----------------------------- MODULE AnswerFrom -----------------------------
(***************************************************************************)
(* publicres.answerFrom: an Answer made of the records of a response, one  *)
(* after the other, as far as the answer's TTL and its redirection go.     *)
(***************************************************************************)
EXTENDS Integers, Sequences

CONSTANTS TTLs,         \* of the records
          Targets,      \* names a CNAME may redirect to
          MaxRecords,   \* bound: records in a response
          NoName        \* no redirection, or a record that is none

RR == [ttl : TTLs, target : Targets \cup {NoName}]

VARIABLES answer,       \* resp.Answer
          i,            \* the record the loop is at
          TTL, CNAME    \* a.TTL and a.CNAME

vars == <<answer, i, TTL, CNAME>>

Init ==
    /\ answer \in UNION {[1 .. n -> RR] : n \in 0 .. MaxRecords}
    /\ i = 1
    /\ TTL = 0 /\ CNAME = NoName

Record ==
    /\ i <= Len(answer)
    /\ TTL' = IF TTL = 0 \/ answer[i].ttl < TTL THEN answer[i].ttl ELSE TTL
    /\ CNAME' = IF CNAME = NoName THEN answer[i].target ELSE CNAME
    /\ i' = i + 1
    /\ UNCHANGED answer

Spec == Init /\ [][Record]_vars

-----------------------------------------------------------------------------
\* "TTL is the minimum TTL across the answer section, or 0 when it is empty":
\* a cache that honours it keeps no record longer than its owner allows.
TTLIsMinimum == i > Len(answer) => \A k \in DOMAIN answer : TTL <= answer[k].ttl

=============================================================================
