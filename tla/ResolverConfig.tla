---------------------------- MODULE ResolverConfig --------------------------
(***************************************************************************)
(* What publicres.New is given, and what a resolver is asked: the          *)
(* parameters of PublicRes and of the modules that use it.                 *)
(***************************************************************************)
EXTENDS Integers, FiniteSets

CONSTANTS Config,       \* [servers, timeout, attempts]: what New is given,
                        \* the servers by their number
          Questions,    \* what may be asked
          Zone,         \* what the zone holds behind each question
          Partial,      \* what is left of an answer that was cut to fit
          None          \* no question, no result

\* Config.withDefaults, with the clock's unit a timeout of its own choosing.
WithDefaults(c) ==
    [servers  |-> IF c.servers = 0 THEN 3 ELSE c.servers,
     timeout  |-> IF c.timeout <= 0 THEN 3 ELSE c.timeout,
     attempts |-> IF c.attempts <= 0 THEN 2 ELSE c.attempts]

NServers == WithDefaults(Config).servers
Timeout  == WithDefaults(Config).timeout
Attempts == WithDefaults(Config).attempts

Error  == "error"
NoName == "no name"

ASSUME PublicResAssumption ==
    /\ Config \in [servers : Nat, timeout : Int, attempts : Int]
    /\ None \notin Questions
    /\ \A q \in Questions : Zone[q] \notin {None, Error, NoName, Partial}

=============================================================================
