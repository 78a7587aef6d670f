------------------------------ MODULE CacheFile -----------------------------
(***************************************************************************)
(* A Cache that is saved to a file with WriteTo and warmed from it with    *)
(* ReadFrom, by this process or by the next one: the process may end at    *)
(* any time, and time does not stop for it.                                *)
(***************************************************************************)
EXTENDS Cache

CONSTANT Torn           \* a file whose writing failed part of the way

ASSUME TornAssumption == Torn \notin [Keys -> Entry \cup {None}]

VARIABLE file           \* the observations last saved, by key, or Torn

fileVars == <<vars, file>>

Nothing == [k \in Keys |-> None]

\* What WriteTo saves: the unexpired entries that have been served.
Reusable == {k \in Stored(entries) : entries[k].reused /\ ~Expired(entries[k])}

\* Mistaken: what is saved counts as observed when it is saved.
WriteToRestamped ==
    /\ file' = [k \in Keys |-> IF k \in Reusable THEN [entries[k] EXCEPT !.observed = now]
                              ELSE None]
    /\ UNCHANGED vars

WriteTo ==
    /\ file' \in {Keep(entries, Reusable), Torn}
    /\ UNCHANGED vars

\* Mistaken: what is loaded gets a life of its own.
ReadFromRenewing ==
    /\ file # Torn
    /\ entries' = [k \in Keys |-> IF file[k] # None
                                  THEN [file[k] EXCEPT !.expires = now + Life(file[k].answer)]
                                  ELSE entries[k]]
    /\ UNCHANGED <<now, waiters, pc, local, chan, held, ret, calls, file>>

\* Saved entries that are still alive replace whatever is there.  A torn file
\* cannot be decoded, and loads nothing.
ReadFrom ==
    /\ file # Torn
    /\ entries' = [k \in Keys |-> IF file[k] # None /\ ~Expired(file[k])
                                  THEN file[k] ELSE entries[k]]
    /\ UNCHANGED <<now, waiters, pc, local, chan, held, ret, calls, file>>

\* The process ends, by itself or not, and is started again.
Restart ==
    /\ entries' = Nothing /\ waiters' = Nothing
    /\ pc' = [p \in Procs |-> "idle"]
    /\ question' = [p \in Procs |-> None]
    /\ cancelled' = [p \in Procs |-> FALSE]
    /\ asked' = [p \in Procs |-> 0]
    /\ chan' = [p \in Procs |-> None]
    /\ held' = [p \in Procs |-> None]
    /\ ret' = [p \in Procs |-> None]
    /\ UNCHANGED <<now, calls, file>>

FileInit == Init /\ file = Nothing

FileNext ==
    \/ Next /\ UNCHANGED file
    \/ WriteTo
    \/ ReadFrom
    \/ Restart

FileSpec == FileInit /\ [][FileNext]_fileVars

-----------------------------------------------------------------------------
\* Whatever is saved is an answer to its question that dies when it would have
\* died in the process that obtained it: no sequence of saves, crashes and
\* loads lends an answer more life (EntriesSound says the same of the map that
\* a load has changed).
FileSound ==
    file # Torn =>
        \A k \in Stored(file) :
            LET e == file[k] IN
            /\ e.answer.key = k
            /\ e.answer.at <= e.observed /\ e.observed <= now
            /\ e.expires = e.observed + Life(e.answer)

\* No goroutine is told, after any number of restarts and loads, what was
\* stored longer ago than the answer's life: the oldest answer that can be
\* served from memory is MaxTTL, or NegativeTTL, old.
ServedWithinLife ==
    [][\A p \in Procs :
          pc[p] = "get" /\ pc'[p] = "idle" /\ ret'[p] # None =>
              LET e == entries[question[p]] IN
              /\ ret'[p] = e.answer
              /\ now - e.observed <= IF e.answer.empty THEN NegativeTTL ELSE MaxTTL
      ]_fileVars

=============================================================================
