# Verification of mailkit

mailkit is a Go library that reports on a mail domain's DNS configuration: SPF,
DMARC, MX and provider, asked for through a resolver that can be cached and
rate-limited. This directory holds TLA+ models of it, TLC configurations that
check them on small instances, and TLAPS proofs of what can be proved for every
value of the constants.

```
tlc -workers 2 -config MCCacheMemo.cfg MCCache      # a run; see "Runs"
tlapm CacheProofs.tla                               # a module with proofs
```

## Inventory

What each part keeps, does and is exposed to. `PROJECT.json` lists the hazards
line by line, with the properties that watch them.

| Part | State | Operations | What is hard | What makes it correct |
|---|---|---|---|---|
| `dnsx/cache` | entries by question; a channel per lookup in flight; a mutex | `Query` (get, claim, wait, put, release), eviction, `WriteTo`/`ReadFrom`, `Export`, `Observed` | goroutines between any two lock sections, cancellation, failing leaders, expiry, full map, crashes between save and load | one lookup per question, no lost wakeup, own errors only, no life beyond the TTL, bounded map, the abstract memory of `Memo` |
| `dnsx` limiter | the next free moment; a mutex | `wait` before each call | slots reserved, given back and abandoned in any order; what a call does in its slot | slots an interval apart, ceiling on calls and on attempts, bounded horizon |
| `dnsx/publicres` | a rotation counter shared by all | `Query` with retries, TCP on truncation, `LookupHost` … | concurrent rotation; silent, failing and truncating servers; cancellation; half-failed address lookups | a balanced rotation, bounded time, retries that move, nothing reported but what the zone holds |
| `dnsx` types | none | `Answer`, `Normalize`, errors | – | – |
| `spf` | one walk's result: counts, nodes, broken, cycles | `Evaluate` | a stranger's tree: diamonds, cycles, depth, failures at any lookup, limits at two places | count equals the tree's, cycles and broken targets are real, verdict exactly at the limit, bounded work, the walk ends |
| `mailauth` discovery | an Aligner's two memories (answers, organizations) | `Aligned`, `Org`, `PolicyApplies`, `LookupDMARC`, `OrganizationalDomain` | lookups failing half-way, zones changing while asked, names too deep for the walk, numbering from the name or its parent | one view of DNS, organizations are closed, alignment agrees with policy |
| `mailauth` parsing | none | `ParseDMARC`, SPF and DKIM parsers | strings; a count of SPF lookups by rules of its own | – |
| `mx` | one result: hosts and flags | `Lookup`: hosts, addresses, null and implicit MX, order | one of several lookups failing; names with IPv6 addresses only; a sort in a slice that is shared | flags say what is so, one order whatever the answers' |
| `provider` | a table built once | `Load`, `MatchMX`, `MatchMailFrom` … | conflicting claims in any order and spelling, nested suffixes | loaded exactly if clean, every claim leads to its vendor, the longest wins |
| `finding` | none | ranks, `Worst`, `SortBySeverity` | – | a total order on what a report shows |

How they interact: `spf`, `mx` and `mailauth` take a `dnsx.Resolver`; what they
are given is a stack of wrappers, normally the cache over the limiter over
publicres. The cache calls the limiter without holding its mutex; the limiter
sleeps without holding its own. Goroutines share the cache, the limiter and the
rotation counter, and the slices that the cache hands out; a walk
(`spf.Evaluate`, a tree walk, an `Aligner`) belongs to one goroutine. `provider`
names the hosts that `mx` finds. What crosses the boundaries is an answer with a
TTL, "no such name", or an error that means *not known*: much of the code is
about never taking the last for the second.

## Modules

| Module | Models |
|---|---|
| `Memo` | abstract: what a caching resolver promises, with no locks or steps |
| `Cache` | `dnsx/cache/cache.go`: concurrent `Query`; implements `Memo` |
| `CacheFile` | `Cache` with `WriteTo`, `ReadFrom` and restarts |
| `RateLimit` | `dnsx/ratelimit.go` |
| `ResolverConfig` | `publicres.Config` and its defaults |
| `Resolve` | abstract: what a `TracingResolver` promises a caller |
| `PublicRes` | `dnsx/publicres`: `Query`; implements `Resolve` |
| `Upstream` | `PublicRes` behind `RateLimit`, under one clock and with the same contexts |
| `AnswerFrom` | `publicres.answerFrom`: the TTL of an answer |
| `SharedAnswer` | `mx.sortHosts` on the slice that a cache shares |
| `SpfWalk` | `spf/evaluate.go`: the walk, term by term |
| `SpfTree` | the same tree by definition, without walking it, and the properties that compare them |
| `TreeWalk` | `mailauth/treewalk.go`: the DMARC tree walk and what is picked from it, as functions of a view of DNS |
| `Aligner` | `mailauth/align.go`: alignment questions lookup by lookup, remembered across questions |
| `Inbound` | `mx.Lookup`, with `LookupHost` of publicres and of the cache |
| `Provider` | `provider.Load` and the Match functions |
| `Survey` | `Provider` loaded, then `Inbound`, then each host named |
| `MC*` | values of the constants for TLC |
| `*Proofs` | theorems: `CacheProofs`, `RateLimitProofs`, `PublicResProofs`, `UpstreamProofs`, `SpfProofs`, `AlignerProofs`, `SurveyProofs` |
| `LeastElement` | lemmas: least and greatest elements of sets of numbers, and arranging a finite sequence in an order |

Operators named "Mistaken" in a comment are variants of an operation with a
plausible bug. The models do not use them; each shows that a property would
notice.

### Cache

A step of goroutine `p` is what the code does while it holds the mutex once, one
channel operation, or one call of the wrapped resolver; `pc[p]` names the next.
So `get` is `Hit` or `Miss`, `claim` is `Lead` or `Follow`, the `select` is
`Wake` or `GiveUp`, the wrapped call is `Answered` or `Unanswered`, `release` is
`Release` (under the mutex) and `Close` (after it), and `put` with its eviction
is `Put`. `Tick` and `Cancel` may happen between any two. A channel is named
after its maker; closing it replaces the name by `Closed` wherever it is held.
Eviction is the set of maps `evictLocked` may leave behind, since Go's map
order is arbitrary. `asked` exists only to state what `Memo` needs.

Abstracted: a name and a record type are one member of `Keys`; an answer is the
question, the time it was obtained, its TTL, and whether it is empty. The
statistics are left out, and so are `Export` and `Observed`, which only read.
The `None \notin ...` conjuncts of `ModelAssumption` say that the model's
distinguished values are none of the ordinary ones.

`CacheFile` adds `file`, the last saved file: `WriteTo` writes what is used and
unexpired, or fails part of the way (`Torn`, which `ReadFrom` cannot decode);
`Restart` empties memory and ends all calls, while the clock goes on.

### RateLimit, PublicRes and Upstream

`wait` under the mutex is `ReserveNow`, `ReserveLater` or `BackOff`, by where the
next free moment lies; the two `select`s are `Retry`, `SlotArrives` and `GiveUp`.
Time is in whole units, of which `Interval` is the limiter's; `sent` records the
slots used.

`PublicRes` is `Query`: `Attempt` takes a turn of the rotation and sets the
attempt's timeout, `GiveUp` is the end of the loop or a context that is done,
and what an exchange may come to is one action each: `Unanswered`, `Refused`
(SERVFAIL and REFUSED, which lead to another attempt), `Rejected` (other
codes, which do not), `Truncated` (TCP within the same timeout) and `Answered`.
`asked` and `started` are not in the code; `Balanced` and `TimeBounded` need
them. The zone's answer to a question is fixed: `Resolve` speaks of what a
resolver adds to it or loses, which does not depend on changes.
An exchange does not outlive its context, and steps between exchanges take no
time: that is what `Tick` says.

`Upstream` has the variables of both. `Let` is a call that the limiter lets
through together with the query's beginning, `Asking` a step of the resolver,
`Back` the return of both, `Wait` whatever the limiter does besides. The limiter
counts calls, and `LookupHost` is a call of two queries when there is no A record:
`Let` chooses between a single query and a lookup of a host, `fallback` holds the
AAAA question (`IPv6Of`) of the latter, and `AskIPv6` puts it, in the same slot,
if the answer to the first has no address (`NoHosts`); an error ends the call.
A call for an empty name, or `LookupAddr` of something that is no address, makes
no query at all. `Resolver` says that the composition is a behaviour of
`PublicRes`.

### SpfWalk and SpfTree

`walk` and `descend` call each other; their activation records are `stack`, and
a step handles one term with the lookup it makes. Each way out of `descend` is an
operator (`NoTarget`, `OnPath`, `TooDeep`, `Unanswered`, `Broken`, `Enter`), and
each kind of term an action. A record is a sequence of terms of six kinds:
`lookup` stands for `a`, `mx` and `exists`, `opaque` for `ptr` and for those of
them that have a macro, `free` for what costs no lookup. Zones do
not change during a walk; any lookup may fail. `SpfTree` says from the zone alone
what there is to be found, without a walk and without recursion. `Ways` are the
sequences of places, a record and where something is paid for in it, each leading to the
next, that start at the root and come to no record twice: as many as a complete walk must
count, a record that two branches reach being on the ways of both. Broken targets
and cycles are what the ends of ways lead to. A redirect's place is the end of its
record, where the code follows it, wherever it stands.

### TreeWalk and Aligner

A name is its sequence of labels. `OrganizationalDomain`, `OrgWalk` and
`LookupDMARC` are functions of a view of DNS, that is, of what each name
publishes. `Aligner` does the same walk a lookup at a time: a lookup is
`Recalled` from `memoResolver`, `Answered` by DNS as it is now, or `Unanswered`;
`Handle` is the body of the loop in `walk`, and `Conclude` what `orgWalk` and
`walked` do at its end. `Publish` changes DNS at any moment. Strict mode and
equal names are answered without a walk and are left out; a record is its `psd`
tag and whether it sets `sp`, which is all that decides whose policy it is.

### Inbound, Provider and Survey

`Inbound` is `mx.Lookup`, a step for each thing it asks: `MXUnanswered`, `MXNull`
and `MXAnswered` for the MX records, `ImplicitMX` for the domain itself,
`Literal` and `Resolve` for each target, `Finish` for the sort. Answers come in
any order (`SetToSeqs`). `LookupHost` is that of publicres, which asks for IPv6
addresses when there are no others, or that of the cache, which does not. `lost`
records which queries were not answered. `Addresses` is what the zone holds of a
name, and the properties about flags are stated over it; `Reported` is the part
of it that `LookupHost` returns, and only the order of a result (`Canonical`) is
stated over that. Where the two differ, the flags are wrong: a name with IPv6
addresses only, through the cache or with the AAAA query unanswered. `Absent`
names these cases, and `inbound_ipv6` and `inbound_unanswered` show them.

`Provider` goes through the table as `Load` does, an entry and a claim at a time;
`matcher` is its maps. A name is its labels, and `Lower` is what `Normalize` makes
of a label, so that one name may be spelt in several ways. The Match functions are
operators on `matcher`. `Survey` is a program that does what the two packages
are for.

`SharedAnswer` is the meeting of `mx` and the cache: `sortHosts` sorts in place
the slice that the cache's entry holds. Its steps are the loads and stores of an
insertion sort, which is what `sort.Strings` does on short slices.

## Runs

Each passing property also has a variant of the code, in `PROJECT.json`
"mutants", under which TLC finds it violated.

| Run | Instance | Shows |
|---|---|---|
| `cache_collapse` | 3 goroutines, 1 question, no time | `TypeOK`; lookups collapse (`SingleFlight`), no wakeup is lost (`NoLostWakeup`), errors are one's own (`OwnErrorOnly`), every call returns (`EveryCallReturns`) |
| `cache_memo` | 2 goroutines, 3 questions, room for 2, expiry | `Bounded`, and `Cache` implements `Memo` (`MemoSpec`) |
| `cache_file` | 2 goroutines, 1 question, saves, crashes and loads | no answer gains life (`FileSound`, `EntriesSound`, `ServedWithinLife`) |
| `rate_limit` | `Upstream`: 2 goroutines, 2 calls each, burst 0, 2 servers, 2 attempts of one unit, a name without A and AAAA records | the limiter: `TypeOK`, `SlotsApart`, `RateCeiling`, `HorizonBounded`; both: `AttemptCeiling`, with `LookupHost`'s two queries in one slot; the resolver behind it: `Balanced`, `TimeBounded`, `RetryMoves`, it implements `Resolve` (`KeepsPromise`), and every call that was let through returns (`Returns`) |
| `spf_tree` | 3 names, 9 record shapes and 3 ways of having no record, 2 sets of limits, any failures | the walk agrees with `SpfTree` (`ExactTermsMatchTree`, `BrokenAreReal`, `CyclesAreReal`, `CleanMeansClean`); `LimitVerdict`, `WorkBounded`, `Terminates` |
| `aligner` | 4 names, 3 of them asked about, one too deep for a whole walk; 2 questions, 1 change of DNS, any failures | `TypeOK`, `OneView`, `OneOrganization`, `PolicyMatchesOrg`, `EveryQuestionReturns` |
| `survey` | `Survey`: 28 zones, two resolvers, tables of at most 2 of 8 entries, any query unanswered | `OwnTroubleIsOwn`, `CompleteIsExact` (of publicres), `Canonical` of the hosts; `LoadedIfClean`, `EveryClaimAnswers` of the table; `Attributed` of the two together |

Five runs check what a comment, a document or a test says of the program, and TLC
finds it violated by what the code does; each finding in `PROJECT.json` quotes
the line.

| Run | The code does |
|---|---|
| `cache_duplicate` | wakes the waiters before it stores the answer (`cache.go:170`), so that a woken goroutine can repeat the query that was to be spared |
| `inbound_unanswered` | drops the error of the query for IPv6 addresses (`publicres.go:274`), so that a domain without MX records whose addresses could not be looked up is called `Missing`, and the result complete |
| `inbound_ipv6` | asks for A records only in the cache's `LookupHost` (`cache.go:309`), so that a domain without MX records, but with IPv6 addresses, is called `Missing`, with every query answered |
| `shared_answer` | sorts addresses in the slice the cache holds (`mx.go:161`): two goroutines at once can lose one and double another |
| `answer_ttl` | takes a TTL of 0 for one not yet set (`publicres.go:206`), and gives the answer a later record's |

### Bounds, and why they are enough

- *Goroutines and questions.* A question's state is one leader, some waiters and
  some newcomers. Three goroutines let one lead, one wait, and one arrive between
  any two steps; the proofs then cover any number. Questions interact only
  through the size of the map: three questions and two entries fill it, and let an
  eviction make room for the third.
- *Time.* `MaxTime` is enough for an entry to be stored, expire (`now > expires`),
  and be stored again. `cache_collapse` has no time, since expiry is not part of
  what it asks. In `cache_file` TTLs 0 and 5 lie on either side of `MinTTL` and
  `MaxTTL`.
- *Limiter and resolver.* An interval is two units and the clock passes one and a
  half of them, so that callers arrive on a slot and between two; with a burst of 0, a
  second caller backs off. With a timeout of one unit, two attempts and two
  servers, an attempt can end early or late, a retry finds its turn taken by the other
  goroutine or not, and a truncated answer uses up what is left. A name has
  neither A nor AAAA records, so that a lookup of it makes all the attempts a call
  can make, and each of the two questions is also asked alone. The proofs cover
  any number of each.
- *SPF.* Three names give diamonds, cycles through the root and away from it, and
  chains to the depth limit. The record shapes contain every kind of term, `all` before
  and after `redirect`, several `redirect`s, and targets that are missing. Limits
  of 3 terms are met by mechanisms and by redirects.
- *DMARC.* With `MaxLabels` 2, a name of four labels is to the walk what one of
  nine is to the code: its parent is skipped. Two questions are enough for
  one to reuse what another, given up half-way, has left in memory; one change
  of DNS separates two lookups of one name.
- *Survey.* A conflict needs two entries; the eight have claims of each kind,
  one name in two spellings, one under another, a `MAIL FROM` rule for one
  vendor and for all, and unusable ones. Two hosts and a literal give equal and
  unequal preferences, a host twice, and "." alone and in company.
- *Shared answer, TTL.* Two goroutines and three addresses are the fewest with which
  an insertion passes another; two records give a zero TTL before another one.

`CHECK_DEADLOCK FALSE` is set where a run ends by its bounds on calls or time, or
where a walk is over.

### Fairness

- `Cache`: weak fairness of each goroutine's steps. The Go scheduler runs
  whoever can run, and the wrapped resolver gives each exchange a timeout
  (publicres), so `Answered` or `Unanswered` is taken. No fairness of `Cancel` or
  `Tick`: calls return without being cancelled. Weak fairness suffices because a
  woken goroutine that finds another leader waits for that one, and each failing
  leader leaves for good; a stream of new failing leaders without end is
  excluded by the bound on calls. The wrapped resolver is taken to return, as
  publicres does. Behind the limiter a leader may back off time after time, as
  below, and its waiters with it, until its context is done: that is not covered.
- `Upstream`: weak fairness of each goroutine's steps within the resolver
  (`Asking`, `AskIPv6`, `Back`): the scheduler runs it, and an exchange ends, by its timeout if by nothing else. It
  may end in `Unanswered` for ever: the loop's own bound makes the query return.
  None of the limiter's steps is fair, and no liveness of it is claimed: a caller
  that backs off may lose to newcomers each time; the code has no queue.
- `SpfWalk`: weak fairness of the walk, which is one goroutine.
- `Aligner`: weak fairness of the steps of the question being answered; a lookup
  may fail but returns. Nothing obliges DNS to change, or anybody to ask.

## Proofs

The assumptions are the `ASSUME`s of the modules, which TLC evaluates in the
runs: positive configuration values (`withDefaults` and a positive rate see to
them), naturals for bounds, distinguished values (`None`, `NoName`, `Unknown` …)
that are none of the ordinary ones, names closed under taking parents, and finitely
many of them in an SPF tree: records are finite, and a walk has a limit on its depth.

`CacheProofs` (any goroutines, finitely many questions, any configuration):

- `TypeCorrect`, `OneLookupInFlight`, `EveryWaiterHasALeader`,
  `EntriesAreSound`, `ErrorsAreOwn`, `MapIsBounded`, and `CacheImplementsMemo`
  (the whole refinement, with Memo's actions found for each step of `Cache`).
- None of the properties is inductive alone. The invariant is
  `IInv == TypeOK /\ HeldSound /\ LeaderRegistered /\ ChannelsHeld /\ NoLostWakeup
  /\ EntriesSound`. `LeaderRegistered`: whoever is leading a lookup is the one
  `waiters` names, and the reverse, from which `SingleFlight` follows.
  `ChannelsHeld`: an open channel is held only by those who wait on it
  and by the goroutine about to close it, which is the one that made it; without
  that, a `Close` could leave a waiter behind. `HeldSound`: an answer in hand is to the goroutine's own question,
  obtained since it asked, without which neither `EntriesSound` nor the step to
  `Memo!Learn` holds. `Bounded` needs more about eviction, and is proved beside
  `IInv` with lemmas on cardinality (`EvictedRoom`).

Of the saved cache: `SavedEntriesAreSound`, `LoadedEntriesAreSound` and
`NothingStaleIsServed`. The steps of the process keep `IInv` by the lemmas of
the cache alone; what the file needs is the same of its entries (`FileSound`), which
stays true while time passes, and `Restart` and `ReadFrom` hand it over. `Bounded`
is not among them: `ReadFrom` does not look at `MaxEntries`.

`RateLimitProofs` (any goroutines, interval, burst): `TypeCorrect`,
`SlotsAreApart`, `HorizonIsBounded`, `CeilingHolds`. The
invariant adds `Reserved`: every slot used or waited for lies an interval before
`next`. `CeilingHolds` maps each query to the quotient of its slot by the interval:
slots an interval apart have different quotients (`ApartQuotients`), all between 0
and `now \div Interval`.

`PublicResProofs` (any goroutines, servers, timeout, attempts, questions):
`TypeCorrect`, `RotationBalanced`, `QueryTimeBounded`, `RetriesMove`, and
`PublicResKeepsPromise`, the refinement of `Resolve`. The invariant says that
the servers have been asked in whole rounds, those before the next one a turn ahead
(`Rounds`), that a ticket is below the counter and held by one exchange (`Turns`),
and that an attempt begins within the time of those before it and ends within its
own (`Timely`). That a retry finds another server is modular arithmetic on two
tickets.

`UpstreamProofs`: that what is proved of each part alone holds of the two
together. A step of the composition is a step of the limiter or leaves its
variables alone (`UpstreamImplementsRateLimit`), which gives `UpstreamSlotsApart`
and `UpstreamCeiling`; it is a step of the resolver too (`ResolverUndisturbed`),
for which an invariant is needed that a goroutine outside the limiter's call
is idle in the resolver: else the limiter could take its result or clear its context
in the middle of a query. From that follow `UpstreamBalanced`, `UpstreamTimeBounded`,
`UpstreamRetriesMove` and `UpstreamKeepsPromise`. `AttemptCeilingHolds` is about
both: a slot pays for the attempts of two queries. The invariant (`Paid`) is that the
attempts made, and those that calls under way may still make (`Due`: what is left to
the query, and all of the AAAA query that may follow), are no more than the slots
used have paid for. An attempt is one that was due, `AskIPv6` begins a query that
was, and the slots are bounded as in `RateLimitProofs`.

`SpfProofs` (finitely many names, any records and limits, any pattern of
failures): all the invariants of the walk. `WorkIsBounded` and `LimitIsVerdict` first.
`LimitVerdict` speaks of walks that are over; the invariant says of one on its way
that it is within the limit and has met no failure (`Going`), and of any that the
verdict is given exactly past the limit, by one term (`Verdict`). Every step but the
first is of one of three sorts: it costs nothing, spends a term for at most one node, or
reaches the limit and ends the walk (`Costless`, `PaidFor`, `GivenUp`). That
sorts out the thirteen actions and the six ways through `descend` (`DescendStep`, `TermStep`);
`OutcomeStep` does the arithmetic once.

`CountIsTheTree`, `BrokenTargetsAreReal`, `CyclesReportedAreReal` and `CleanIsClean`
compare the walk with the tree. The invariant (`TreeInv`) orders
the ways as the walk comes to them. The stack gives a place, each record with how far
it is read, and a way is `Ahead` if where it first differs from that place it
is further on in the same record. What is not ahead has been `Visited`, and while the
count is exact these ways are finitely many, as many as were counted, and the
findings are those at their ends (`Exact`). Every record on the stack is sound
(`FrameSound`): no `all` was read, and the redirect kept is the last that was. Then every step is of one of
two sorts: it visits nothing new (`ReadFree`, `ReadOut`), or exactly one way, the
place it stands at (`ReadPaid`); for the second, that a target which
is on the path or has no record lets nothing follow, and one that is entered is all ahead.
At the end nothing is ahead, so that `Visited` is all of `Ways`. That findings are
real needs no exactness and is kept by a walk that is given up.

`AlignerProofs` (any names, records, number of changes): `TypeCorrect` and
`EverythingSaidIsOneView`. The invariant says that what a walk in progress has found
is what memory holds of the names it has asked (`WalkSound`), and that
what is remembered or said of an organization is what the walk makes of memory
(`ToldSound`); it stays so because a walk that could be made in one view comes to the same in
any that knows more (`LearnedStays`).

`OneOrganizationHolds` and `PolicyMatchesOrgHolds` are about the operators of
`TreeWalk`, for any view of DNS. `OrganizationalDomain` picks a name by its position
in the walk, `PolicyDomain` by another rule over the same list; that the two
agree follows from what the least and the greatest position with a property are
(`LeastElement`), not from the walk's steps.

`SurveyProofs` (any table, any names, addresses and answers):

- of `Provider`: `TypeCorrect`, `LoadedExactlyIfClean`, `ClaimsAnswer`. The
  invariant of `Load`'s loops: what has been read is entered, what is entered has
  been read, and what was read is known and usable.
- of `Inbound`, within `Survey`: `OwnTroubleHolds`, `CompleteResultsAreExact`,
  `ResultsAreCanonical`. The invariant `LookupInv` says of a lookup on its way which of
  the answers it has read and that what it holds of the result is what those
  answers say, host by host, in the order of the answer. It speaks of the addresses
  that `LookupHost` reports, which is all that the code has to go by
  (`TroubleReported`, `CompleteReported`); `ReportedIsTrue` takes that to what the
  zone holds: the same, through publicres, and the exceptions of `Absent`
  otherwise. `Canonical` needs that the
  sort leaves something sorted behind: the model takes the arrangement with
  `CHOOSE`, and `Sortable` shows that there is one for any total preorder.
- of `Survey`: `HostsAreAttributed`. The invariant `NamedInv` says that
  what is named of a host is what the loaded table says of it, whatever
  the order of the lookups.

`LeastElement` does what induction does elsewhere. The prover has no induction
principle to apply to these data, but that every nonempty set of naturals has a least
element follows from what it knows of `<` (`Least`), and
a property of all numbers, of all finite sets or of all finite sequences follows by
looking at the least one that fails (`AllNumbers`, `AllOfFinite`, `Sortable`).

Only model-checked:

- liveness (`EveryCallReturns`, `Returns`, `Terminates`, `EveryQuestionReturns`),
  which the prover does not do under fairness. Every other property of the passing runs is
  the statement of a theorem.

## Not modelled

- `finding`: a list that is appended to and sorted by two keys.
- Parsing of records and the characters of names: pure functions of strings, which
  the repository's tests cover. `ParseSPF` is one of them: its count of lookups
  turns on the characters of each term (see below). Of `Normalize`, that it makes
  several spellings one; the spellings of the domain a `MAIL FROM` rule is `on`, which
  is lowered and trimmed but not normalized (`provider.go:185`), are left out.
- `dnsx/dnstest`, a test double. `LookupTXT` and `LookupAddr` of the resolvers,
  which take an answer apart; `Export`, `Observed` and the cache's statistics, which
  only read; `provider.KeyHash` and `All`, a hash and a sorted copy.
- DMARC's strict mode and equal names, which need no walk.
- Panics of the wrapped resolver, which would leave a lookup registered as in
  flight (`cache.go:169`).
- Rates above 10^9 queries a second, for which the interval is 0
  (`ratelimit.go:31`). The rotation counter's conversion to `int`, which is
  negative after 2^31 attempts where an `int` has 32 bits (`publicres.go:131`).

Noticed while reading, without a run:

- `ReadFrom` loads whatever the file holds, `MaxEntries` or not (`cache.go:397`);
  only the next `put` evicts.
- `MinTTL` can keep an answer longer than its zone allows; `cache.go:361` says that
  a saved cache "cannot be used to serve records past the TTL their zone published".
- An entry's `observed` is when it was stored (`cache.go:225`), not when it came
  off the wire (`cache.go:86`).
- A lookup that fails leaves the broken includes found before it in the result
  (`evaluate.go:206`), where the README has them suppressed (`README.md:112`).
- An `include` whose target has a macro is looked up (`evaluate.go:203`).
- A `redirect` over the limit leaves no node (`evaluate.go:162`), where a mechanism leaves one.
- A cycle leaves the term count marked exact (`evaluate.go:190`).
- For a name of more than eight labels, the whole name is taken for the one "one
  label below" the public suffix (`treewalk.go:123`), against `treewalk.go:56` and
  `treewalk.go:102`. `PolicyMatchesOrg` allows it: it says that the two walks agree.
- A retry may land on the server that failed, when other goroutines have taken the turns in
  between (`publicres.go:39` says it goes to another): `RetryMoves` states how many.
- `withDefaults` writes into the caller's slice of servers, and does not add a port
  to a bare IPv6 address.
- The cache's `LookupHost` never asks for IPv6 addresses (`cache.go:309`), so that an MX
  target with none but those is `Unresolvable` behind the cache, although it resolves
  to an address (`mx.go:57`); so is one whose AAAA query was not answered.
- The burst is never spent: the second caller of a cold start waits an interval
  (`ratelimit.go:62`), and `SlotsApart` says so of every two callers; the comment at
  `ratelimit.go:32` promises a run that starts cold not to be serialised. `Burst` only
  widens the horizon.
- `ParseSPF` and the evaluator classify terms differently: `redirect:x`, `include=x`,
  `a=x` and `mx=x` count for the former only (`records.go:108`, `terms.go:93`), `a/24` and
  `mx/24` for the latter only, and what an `all` overrides counts for the former.
  So its count is no lower bound in general, as `records.go:97` has it.
- `Load` trims and lowers a claim's name, the matcher only lowers (`provider.go:161`,
  `provider.go:253`): the two differ for names with white space around them. The model
  has one `Normalize` for both.
- `SingleHost` is about MX records, not hosts: one host at two preferences
  is not single (`mx.go:121`). `Unresolvable` and `IPLiteral` are in the resolver's order.
- `Normalize` strips a leading "www.", so that a lookup of `www.x` asks about `x`
  (`dnsx.go:155`, `publicres.go:116`).
- Two entries with one id are accepted, and `Match` and `Get` then disagree about which is meant.

## Plan

Done: every module above, with its runs and proofs. What could follow, in order:

1. `Cache` over `Upstream`: a leader that sleeps for its slot while its waiters are
   cancelled. What the parts promise each other is checked separately (`Memo`,
   `Resolve`).
2. `finding`, if it comes to do more than it does.
