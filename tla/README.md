# ComicsHub in TLA+

TLA+ models of the services in this repository, the TLC runs that check them on
small instances, and TLAPS proofs of the safety of the update, search, words, auth
and favorites services, of the api and of the bot for every instance. All services,
the api and the bot are modelled. Paths below are relative to `search-services/` unless they
start with `bot/`.

## The system

| Component | State | Operations | Talks to |
|---|---|---|---|
| **update** (`update/`) | table `comics`, in-memory flag `running` | Update, Drop, Stats, Status | xkcd.com (HTTP), words (gRPC), Postgres, NATS (publishes) |
| **search** (`search/`) | in-memory inverted index (`byToken`, `docs`) | Find, IndexedSearch, GetComicByID, GetAllComics, RandomComic; RebuildIndex from a NATS subscriber and from a ticker | Postgres (reads `comics`), words, NATS |
| **auth** (`auth/`) | tables `users`, `user_comicshub`, `user_telegram` | Register, Login, BotLoginTelegram | Postgres |
| **favorites** (`favorites/`) | table of (user, comic) pairs | Add, Delete, List | Postgres |
| **words** (`words/`) | none | Norm | - |
| **api** (`api/`) | limiter slots, JWT secrets | REST handlers, middleware | all of the above over gRPC |
| **bot** (`bot/comicsbot/`) | per-user token, favorites cache, message contexts (in memory) | Telegram commands and callbacks | api |

Update fills the `comics` table and, when a call succeeded, publishes "database
updated" on NATS. Search reads the same table: on every event, at start-up and
every `INDEX_TTL` (24 h) it reads all comics and swaps a new index in.

What is hard here, and what correctness means (the full list with lines is
`hazards` in `PROJECT.json`):

- **update**: a pool of goroutines on a bounded channel, cancellation at any
  point, one flag for two operations. Nothing may be lost in the channel, no
  worker may survive its call, rows may not be rewritten, the flag must come
  down. Statements whose context was cancelled may be executed by Postgres
  after their caller has gone on.
- **search**: two goroutines rebuild one index from snapshots read earlier;
  events are delivered at most once into a channel of ten; a search takes two
  separate read locks. Announced changes must reach the index; a search must not
  return what does not match.
- **auth**: check-then-insert in transactions that run concurrently. A key has
  one owner for ever, every token names it, no user row without an account.
- **favorites / api**: the existence check of a comic races with Drop; limiter
  slots must be returned; gRPC codes are mapped twice.
- **bot**: state is read before an `await` and written after it.

## Modules

| Module | Models | Checked by |
|---|---|---|
| `UpdateService` | `update/core/service.go`, `adapters/db`, `adapters/grpc`, `adapters/broker`, `adapters/xkcd` | `MCUpdateService` with `UpdatePool`; with its reader, `UpdateAndSearch` |
| `ComicsTable` | what the readers of the table `comics` can see of the update service (abstract) | through `UpdateTable` and its three users |
| `UpdateTable` | the refinement `UpdateService` => `ComicsTable` | `MCUpdateService` with `UpdatePool` |
| `UpdateStats` | Status and Stats of `update/core/service.go`, their SQL | `MCUpdateStats` with `UpdateStats` |
| `SearchIndex` | `search/core/index.go`, RebuildIndex and IndexedSearch of `search/core/service.go`, `adapters/broker`, `adapters/initiator`, start-up order of `main.go` | `MCSearchIndex` with `Index` |
| `UpdateAndSearch` | both services on one table and one NATS subject (`update/main.go`, `search/main.go`) | `MCUpdateAndSearch` with `UpdateAndSearch` |
| `Ranking`, `SearchQueries` | ranking, Find, GetComicByID, GetAllComics, RandomComic of `search/core/service.go`, `search/adapters/db`, `search/adapters/grpc` | `MCSearchQueries` with `Queries` |
| `WordsNorm` | `words/words`, the size limit of `words/main.go`, and its two users | `MCWordsNorm` with `WordsNorm` |
| `AuthAccounts` | `auth/core/service.go`, `auth/adapters/db/storage.go`, answers of `auth/adapters/grpc` | `MCAuthAccounts` with `AuthSafety`, `AuthTelegramRace` |
| `Favorites` | the favorites handlers of `api/adapters/rest/api.go`, `favorites/core`, `favorites/adapters` | `MCFavorites` with `Favorites` |
| `ApiErrors`, `ApiGateway` | routes, middleware, handlers, gRPC clients and servers of the api, `api/main.go` | `MCApiGateway` with `Api` |
| `BotSession` | `bot/comicsbot/app/services/session.py` and the handlers that use it | `MCBotSession` with `BotSession` |
| `BotContexts` | `services/msg_ctx.py`, `services/tg_edit.py`, the callbacks and commands of the bot | `MCBotContexts` with `BotContexts` |
| `UpdateServiceProofs` (with `UpdateTable` and `UpdateAndSearch`), `UpdateStatsProofs`, `SearchIndexProofs`, `SearchQueriesProofs` (with `WordsNorm`), `AuthAccountsProofs`, `FavoritesProofs`, `ApiGatewayProofs`, `BotProofs` (`BotSession` and `BotContexts`) | theorems about the module of that name | tlapm |

How they fit together: `UpdateService` implements `ComicsTable`, and
`UpdateStats`, `SearchQueries` and `Favorites` extend `ComicsTable`, so that what
they show holds next to everything the update service does, late statements and
crashes included. `UpdateAndSearch` is `UpdateService` and `SearchIndex` side by
side: a change of the table is a step of both, and so is a published event.
`SearchQueries` uses `Ranking`, `ApiGateway` uses `ApiErrors`.

Operators whose comment begins with "Mutant of" are faulty variants of the
definition that follows them. No specification uses them; each shows that a
property would notice that fault.

### UpdateService

A request is one gRPC call of Update or Drop (sets `Updates`, `Drops`); `pc`
says where it is. An Update goes `lastid`, `ids`, `dispatch`, then `wait` (the
loop ended) or `abort` (the select saw the done context), and `notify` or
`done`. `Busy` are the points between the compare-and-swap and the deferred
`running.Store(false)`. The locals of an Update (`latest`, `exists`, `cursor`,
`jobs`) and of its workers (`wpc`, `wjob`, `wrow`) are variables indexed by the
call. One action stands for one atomic step: a channel operation, a select
branch, one SQL statement, the calls to xkcd and words for one comic (they
touch no shared state). A closed channel is `pc \in {"abort", "wait"}`.

A row is `full` or `hollow`: the placeholder for a 404 and a comic whose text
words could not normalise are the same to this service, an id that is now
present. The document of comic *n* is assumed to carry the number *n* (the code
stores `info.ID`, not the id it asked for).

Every external call can fail. An upsert or TRUNCATE can take effect and still
return an error. When its context is done, the driver gives up waiting and the
statement stays with the server: it goes to `lateAdds` / `lateDrops` and is
settled (executed or not) at any later time. Once that has happened (`raced`)
the guarantees about rows are void, and the properties say so: the code has no
defence against it. A crash ends every call, clears all memory, and leaves the
table and the statements on the wire.

History variables: `skipped` (ids given up on an error), `unannounced` (calls
that changed the table since the last event), `pubFailed`, `raced`.

### SearchIndex

The table runs through versions; the constant `TableAt` says which comics, with
which tokens, each version holds. A snapshot is a version, the index is the pair
of versions its two maps were built from. `RebuildIndex` is `ReadAll` or
`ReadFail`, then `Build`, by either of the two rebuilders. Events carry no data
and are counted: on the wire, then in the channel, where a full channel drops
them. `Restart` empties the index, and the initiator's first rebuild runs before
the subscription exists, as in `main.go`. A search is two steps, one per read
lock; the ranking's "score > 0" filter is part of the second.

### UpdateAndSearch

Extends `UpdateService` and instantiates `SearchIndex`. `ServiceStep` is a step of
the update service without an event; if it changes `db` it is `SearchIndex!Change`
as well, so that `ver` counts the changes of `db`. `EventStep` is a notification
that was published, `SearchIndex!Publish` if the subscription exists, nothing to
the search service if not. `SearchStep` is a step of NATS or of the search service.
IndexedSearch is left out here, as it only reads the index, and with it the contents of
the versions. The history variable `announced` is the version at the last event,
whether or not anybody was listening.

### AuthAccounts

One action per SQL statement. `lock` is the unique key (or row) an open
transaction has written; `Blocked` makes the next writer wait. A unique
violation aborts the transaction, so the SELECT that `UpsertTelegramUser`
repeats in it fails, and the call ends with an error. A commit can take effect although its client gets an error. `MaxUint32` is
the bound of `generateToken`, set low so that it is reached. Requests with empty
fields or a malformed address touch nothing and are left out.

### ComicsTable and UpdateTable

Readers see a table with one owner at a time: a request takes it (`Acquire`), an
Update in it adds missing rows of published comics one by one, a Drop empties the
table as its last act, and the owner lets go (`Release`: return or crash). Once a
late statement has been executed (`raced`) rows may come, go and be replaced.
`UpdateTable` maps `rows` to `db` and `owner` to the request between its
compare-and-swap and its return (`CoreOwner`); channels, workers and the wire
disappear. Both start from any table an earlier process can have left behind.

### UpdateStats

The four reads of Stats are four actions, with `TableNext` between them; Status
is one. `calm` remembers whether a request got into the core since Status said
"idle".

### SearchQueries, Ranking, WordsNorm

A query is one record: queries only read, so one at a time is enough.
GetAllComics and RandomComic are two actions each, one per statement. Page and
limit are uint32, multiplied modulo `Word`. History fields of a query remember
whether the table is unchanged since it began (`quiet`) or since its last statement
(`still`), and whether it was empty at some moment (`emptied`). `Find` is the SQL, `DocsForTokens` the
inverted index over the same table; both go through `rangComics`, which scores,
sorts and cuts. `FindAnswer` and `IndexedAnswer` are what the two searches answer:
the total of the one is the length of its list, that of the other counts all
matches. `InOrder` is both `ORDER BY` and `sort.Slice`: the i-th element is
the one with i - 1 elements before it. (The library's `SortSeq` is opaque to the
prover; this one can be reasoned about.) `scoreComic` is a sum over positions of
the phrase, without recursion.

`WordsNorm` has `Norm` as the code's loop (a fold over the words); the property
`FirstOccurrences` is its reference definition. The stemmer and the splitting into words are the table
`Stem` and the sequences in `Texts`/`Searched`; `NormTurn` is one turn of the loop. The worker of the update service
normalises the three fields of a comic, each of which may fail and is then stored
empty; a search normalises its phrase.

### Favorites

From the handler to the table: `Begin`, the existence check, the statement, the
answer. A number is an int in the path, `AsUint32` in the check and `AsInt32` in
the table. `GiveUp` answers 503 and leaves the statement in `late`, where `Settle`
may execute it at any time. History: `known` (comics ever stored), `net` (adds
minus deletes answered 204, per pair), `unsure` (pairs with a lost answer).

### ApiErrors and ApiGateway

`ApiErrors` holds the tables: gRPC server (error of the core to code), client
(code to error) and handler (error to status). `ApiGateway` runs requests through
middleware, handler, calls and answer; a service answers with any error its core
has, or not at all. Status 0 is "nothing written", 1 a panic, 2 a connection that
was cut. The rate limiter is a bucket of one and a queue, the concurrency limiter
a counter. There are two servers, and the bot's login is on the internal one. An
interrupt makes the public one drain and, when it has drained, the internal one,
which accepts requests until then; the grace period is one for both, and when it
is over what is left is cut. The process can be killed at any time.

That the rate limiter's `Wait` fails only for a client that has left is the
contract of `golang.org/x/time/rate` (burst of one, a context without a
deadline), and is put into `WaitEnds` as its guard.

### BotSession

Handlers interleave at their HTTP requests only (one event loop). `entry` is the
cache of one chat with its age, counted up to `CacheTTL` in ticks of a clock; a
list of `ensure_fav_ids_map` is as old as its request, while every save and delete
makes the entry young. `full` and `disturbed` record why the cache may differ from
the favorites service. `CacheHeals` begins when things settle down
(`SettlesDown`): from then on the user only looks at comics and lists, nothing
fails and nobody else changes the favorites. What was begun before goes on.

### BotContexts

Contexts are Python dicts, so `msg_ctx` maps messages to places in `heap`, which
handlers hold across awaits. A handler is a start (up to its first await), the
answer of the api, the edit (done, replaced by a new message, or failed) and the
binding of the new message. `dirty` are messages with overlapping presses or a
lost edit, for which the code promises nothing. `max_sessions` is 50 in the code.

## Runs

Bounds are in the cfg files. TLC explores each instance completely.

| Run | Question | Why the bounds are enough |
|---|---|---|
| `update_pool` | Does an Update keep its promises against a Drop, cancellation, crash and late statements, is every call answered, and does all of it implement `ComicsTable`? | one worker, channel of two, three comics: the dispatcher does block, and the channel has a backlog while the worker is busy; every table to start from |
| `update_stats` | Which combinations of numbers can Stats report? | three comics, three texts of which two share a word, an Update and a Drop: rows come and go between any two reads |
| `index` | Is an announced change ever forgotten, what does an overtaken search return, does the subscriber alone get its news into a rebuild, does the index converge? | three versions whose comics gain and lose tokens, a channel of two that overflows, one restart |
| `update_and_search` | Do two workers get in each other's way, and is what an Update or a Drop did in the index, or on its way there? | two workers race for two comics; two events and up to four changes before, between and after them; a channel of one that overflows; one restart |
| `queries` | Ranking, the two searches, pages, random comic | three comics of three kinds (broad, deep, only by alt text) that tie and differ; limits below and above the number of matches; a word of three bits, so that the offset of page 5 wraps |
| `auth_safety` | Are users, accounts and tokens consistent, and does waiting end? | two writers per key, a second address, the fourth user id does not fit a token |
| `auth_telegram_race` | Does the documented fallback work? | violated, see below |
| `favorites` | Are saved comics real, and can a user trust the answers? | two users, two calls at once, a word of three bits: 9 is cut to comic 1, 8 to 0, 5 to a negative number |
| `api` | Who is blamed, do slots come back, what does a shutdown cut, is everybody answered? | request 1 takes every route of either server, request 2 is a search on the public one that competes with it for one slot and one permit |
| `bot_session` | When does the cache lie, and for how long? | two handlers and two comics: a list on its way while another handler saves or deletes the other comic; a TTL of two ticks: an entry that is neither young nor too old, and is renewed between two ticks |
| `bot_contexts` | Do buttons act on what is shown? | two handlers, two messages, lists of two comics, room for one context or for two |
| `words_norm` | Is Norm the documented normalisation, and is a comic found by its own words? | all phrases of up to three of seven words: stop word, digit, three words with one stem, a stem that is a stop word, an empty stem; one text is too long |

The channel of the subscriber has capacity 10 in the code and 2 or 1 in the runs; that
only brings the overflow closer. Word widths and limits are scaled down in the
same way. Runs with symmetry check only safety. Several Updates at once are
left to the proofs, which hold for any number of calls and workers.
`CHECK_DEADLOCK FALSE` is set where the system may stop: no message is left to
press (`bot_contexts`), everything is normalised (`words_norm`).

**Fairness.** Go schedules every goroutine that can run, and each call of an
external service returns (timeout, error or answer): weak fairness of the
service's own steps. A database asked infinitely often answers infinitely
often: strong fairness of `ReadAll`. The ticker of the initiator never stops:
weak fairness of `Tick`, a premise of `IndexConverges` only, so that
`HeardIsBuilt` does not profit from it. In `ApiGateway` timers fire and
goroutines run; of the services it is only assumed that Update, the one call
without a deadline, returns. In `BotSession` the event loop runs what is ready
and time passes; what the user does is not assumed. Nothing is assumed of callers, deadlines, crashes,
changes of the table, event loss and late statements.

### What the violation shows

`auth_telegram_race`: two first logins of one Telegram user; both see no row, one
commits, the other gets a unique violation and then runs its fallback in the
aborted transaction: Internal instead of a token. A retry succeeds, and
`auth_safety` shows that no data is damaged.

### Where the promises end

The premises of these properties are not modesty; without them TLC refutes the
property, and the code does the following.

- `BreadthFirst` stops at 13 tokens: the fields of a token weigh up to 9, a
  covered token 100, so with 14 tokens a comic that covers fewer of them can
  stand above one that covers more (README.md of the repository, line 233, says
  that breadth always wins).
- `PageIsSlice` needs `(page-1)*limit` to fit 32 bits: beyond, the offset wraps
  and an early page is returned instead of an empty one (`service.go:236`).
- `SavedWasListed` speaks of the number that is stored. The number asked for may
  be another one: beyond 32 bits an add checks and saves a different comic and
  answers 204.
- `CacheHeals` needs the user to stop pressing save and delete: every press makes
  the whole entry young again, so that somebody who never pauses for the TTL can see
  a wrong list for ever. And an entry that is too old is still what a failed list
  falls back on.
- The bot never renews a token: from its expiry to the next restart every request
  of that user is answered 401. No property says otherwise.
- `BlameIsRight` has four exceptions: an Update that is running already is accepted
  (202); a Drop that is refused because of it, a comic whose number is cut to 0, and
  a phrase of which normalisation leaves no word (`ErrNonePhrase`, which no server
  translates) are answered 500.
- `CutOnlyAfterGrace` excuses a kill: SIGTERM ends the process at once, since only
  `os.Interrupt` is caught.
- `IndexConverges` needs the ticker. The initiator can swap an older snapshot
  over the one the subscriber has just built, and after that the index stays old
  until the next tick (24 h), with all events handled.
- Update and Drop share one flag: an Update that meets a Drop is told "update
  already running" (202 at the api), though nothing will be downloaded.
- `OwnWordsFind` excludes fields whose normalisation failed: they are stored
  empty, and Update never looks at a stored comic again.
- `ScreenMatchesContext` says nothing of a message under which presses overlapped or
  an edit failed: there the buttons can act on another comic than the one shown.

## Proofs

Every safety invariant that a passing run checks is proved for every value of the
constants, and so are the action properties and the refinement. Each `...Proofs` module
begins with the inductive invariant; after that there is one lemma per action
that shows that the action preserves it, and the theorems come last.

### UpdateServiceProofs

Every set of calls, every pool size and every number of comics, from
`ConstantsAssumption` only (Updates and Drops are different calls, `Concurrency`
and `MaxID` are positive). The properties are not inductive; `IndInv` is, and it is proved in layers, each
from the ones before it:

| Part | Says | Needed because |
|---|---|---|
| `TypeOK`, `HandsOK` | a worker holds an id exactly while it fetches or stores, and a row when it stores; no workers without a pool | an id given up or stored must be a real one |
| `SingleFlight` | one request in the core | only one pool writes at a time |
| `PoolOK` | a pool is complete; workers leave an open or filled channel only on a done context | nothing stays in a channel that nobody reads |
| `QueueOK` | the channel ascends, below the loop variable, without ids of the snapshot; no id twice in channel and hands | an id is stored once |
| `SnapshotOK` | until a late statement interferes, the snapshot of a pooling Update is in the table and nothing queued or in hand is | an upsert meets no row |
| `CoverageOK` | an id the loop has passed is stored, given up, queued or in hand | nothing is forgotten |

`StepKinds` reduces a step to what it means to one Update: not touched, without
a pool afterwards, or one of eleven steps of its pool; the preservation lemmas
then have one case for each. `TableStays` is where mutual exclusion enters:
while an Update has a pool, only its own workers and late statements write.

| Theorem | Statement |
|---|---|
| `TypeCorrect` | `Spec => []TypeOK` |
| `MutualExclusion` | `Spec => []SingleFlight`: every step enters the core through an empty flag, leaves it and lowers the flag, or does neither |
| `IdleMeansQuiet` | `Spec => []QuietWhenIdle` |
| `NoDoubleWork` | `Spec => []OneHandPerComic`, from `QueueOK` inside one Update and `SingleFlight` between two |
| `InvariantHolds` | `Spec => []IndInv` |
| `RowsAreStable` | `Spec => NeverOverwrites`, from `SnapshotOK` |
| `NothingForgotten` | `Spec => UpdateComplete`, from `CoverageOK`: when every worker has left a context that is not done, channel and hands are empty |
| `EventsFollowChanges` | `Spec => []ChangesAnnounced`, with the invariant that no request has an answer before it is done |

#### The refinement

`ServiceImplementsTable` is `Spec => ImplementsTable`: the first state of the
update service maps to a first state of `ComicsTable` and every step to one step
of it or to none. Its three users may therefore assume `ComicsTable`. Besides
`IndInv` it needs `PublishedOK` (theorem `OnlyPublished`): what is stored, queued,
in hand or on the wire has been published. `SingleFlight` makes the abstract
owner unique, `SnapshotOK` makes a worker's upsert an `AddRow` of a missing row.

#### Both services

`UpdatesAreFound` is `HubSpec => []IndexFollowsTable`, from `ConstantsAssumption` and
`HubAssumption` (the bounds are numbers, the channel has room for one event). A
behaviour of `HubSpec` is one of `UpdateService` and one of `SearchIndex`
(`HubSteps`), so `ChangesAnnounced` holds, and `IndexInv`, which is cited from
`SearchIndexProofs` through an instance of it after its assumption has been shown
for this instance (`IndexConstants`). Neither says anything of the other service.
`HubInv` does: the last event is as new as the table, or a request is on record
that changed the table since (`ChangesOnRecord`: every step that changes `db`
records its request, only an event clears the record). A request on record has one
of the excuses of `ChangesAnnounced`; without one the event is as new as the table, and
`NewsIsPending` takes it from there.

### UpdateStatsProofs

From `StatsAssumption` (`None` is no request). `StatsInv`: rows exist only for
published comics; a count that was read is at most the newest id, which only
grows; as long as it is calm nobody owns the table, so what was read is still
there. `WordsTotal` is a fold, which the proof treats as an unknown function of
the table: that suffices, since the property is that the table has not changed.

| Theorem | Statement |
|---|---|
| `NeverMoreThanPublished` | `Spec => []FetchedWithinTotal` |
| `IdleMeansExact` | `Spec => []IdleStatsAreExact` |

### SearchIndexProofs

Every history `TableAt` of the table, every capacity of the channel, from
`SearchAssumption`. `IndexInv` adds `VersionsOK` (both maps come from one
snapshot, nobody is ahead of the table, the subscriber never rebuilds from an
older snapshot than before) and `SearchOK` (between its read locks a search
holds the matches of its first snapshot).

| Theorem | Statement |
|---|---|
| `IndexTypes` | `Spec => []TypeOK` |
| `NoNewsLost` | `Spec => []NewsIsPending`: a full channel drops an event only while others are pending, and whoever reads next reads the newest table |
| `SearchIsExact` | `Spec => []SearchMatchesBothSnapshots` |

### SearchQueriesProofs

From `QueryAssumption` (phrases have no token twice and none empty, as Norm
returns them; page and limit fit the word; `Absent` is no row) and
`WeightsAssumption` (the four weights of the code).

- **Sorting.** In a finite strict order the number of elements before an element
  is below the size and different for any two, hence by counting every such
  number is taken (`OnePlaceEach`), so `InOrder` is a permutation in order
  (`Sorts`). No induction is needed.
- **Ranking.** A covered token is worth between 101 and 109 (`ScoreBounds`), which
  gives "score > 0 exactly for a match" and, up to 13 tokens, breadth first.
- **Queries.** `QueryInv`: between the two statements of a page the count is still
  that of the table unless it was changed; it, or the count that RandomComic read,
  is at most the number of rows unless the table was emptied or raced, because it
  otherwise only grows (`TableGrows`). Since the offset is below the count, the page
  is then not empty.

| Theorem | Statement |
|---|---|
| `BestAreReturned` | `Spec => []TopMatches` |
| `BothSearchesAgree` | `Spec => []SearchesAgree` |
| `BroaderWins` | `BroaderScoresHigher`, for all comics and all phrases of at most 13 tokens |
| `RankedByBreadth` | `Spec => []BreadthFirst` |
| `PagesAreSlices` | `Spec => []PageIsSlice` |
| `RandomAnswers` | `Spec => []RandomFailsOnlyOnEmpty` |

**Norm**, from `NormAssumption` (the stemmer is defined on every word of a text).
The code's loop is the library's `FoldLeft`, a recursive function over sets of
positions. The induction theorems of the library take an operator, so induction is
stated for a *set* of numbers (`Counting`, from the well-foundedness of <), and used
twice: the recursive function exists, so that the fold runs through the words one
by one (`NormRuns`), and after i words the tokens are the forms of the kept words
among them, in order of first occurrence (`NormFacts`). `NormInv` says that the row and
the reply are what `Norm` computes.

| Theorem | Statement |
|---|---|
| `NormInvariant` | `NormSpec => []NormInv` |
| `TokensInOrder` | `NormSpec => []FirstOccurrences`, for texts of every length and every stemmer |
| `FoundByItsOwnWords` | `NormSpec => []OwnWordsFind` |
| `NormGivesPhrases` | Norm of words that are not empty is a phrase in the sense of `QueryAssumption`: what the ranking assumes of its tokens is what the words service delivers |

### AuthAccountsProofs

Any finite set of calls, any keys, from `AuthAssumption` (calls and keys are of
one kind each). `AuthInv` has six parts: types; `PathOK` (a call keeps to the
statements of its kind); `DrawsOK` (a user id drawn and not yet committed is
nobody else's); `LocksOK` (a key is locked exactly while its transaction is about
to commit, and what was found or missing under it stays so); `UsersAreOwners`;
`AnswersOK` (what was answered stays true).

| Theorem | Statement |
|---|---|
| `AuthTypes` | `Spec => []TypeOK` |
| `NoOrphans` | `Spec => []UsersAreOwners` |
| `RightTokens` | `Spec => []TokensNameTheOwner` |
| `RegisteredOnce` | `Spec => []OneRegistrationPerEmail` |
| `NobodyWaitsForEver` | `Spec => []WaitingEnds` |
| `KeysKeepTheirOwners` | `Spec => OwnersAreStable` |

### FavoritesProofs

Any finite set of calls, any numbers asked for, any even word with
`2 * MaxID < Word` (the catalogue has fewer than 2^31 comics), from
`FavoritesAssumption`. `FavInv`: an add that was sent or given up has passed the
check (`ListedInv`; by `SameCut` both conversions cut a catalogue id alike);
a pair is saved exactly if adds exceed deletes by one, the 204s still on the way
counted (`CountInv`); statements that were given up concern pairs nobody is sure
about.

| Theorem | Statement |
|---|---|
| `OnlyListedIsSaved` | `Spec => []SavedWasListed` |
| `AnswersTellTheTable` | `Spec => []AnswersBalance` |

### ApiGatewayProofs

Any finite set of requests on any routes, any number of slots, from
`GatewayAssumption` (requests take routes that exist; the names of the pings are
not those of other calls). `GatewayInv`: each request is at a stage its route
has, has heard only errors its call can return, and when it is done has a fair
status; the queue holds waiting requests once each; nothing of the public server
runs once it has drained, and nothing at all in a stopped process. `UpdateTable`, `SearchTable`, `AuthTable` and `FavoritesTable` compose
the three translations of errors, for every operation and error.

| Theorem | Statement |
|---|---|
| `NoSlotLeaks` | `Spec => []SlotsAreHandlers` |
| `UsersReadWhoIsAtFault` | `Spec => []BlameIsRight` |
| `ShutdownIsGraceful` | `Spec => []CutOnlyAfterGrace` |

### BotProofs

Any number of handlers at once, of comics, of messages and of contexts, and any
TTL (`SessionAssumption`: it is a positive number of ticks). The module extends `BotSession` (whose specification is
`SessionSpec`) and `BotContexts` (`Spec`); the two share no variables.

The cache is written after an await, so what it will say depends on the answers
under way: `SessionInv` says that a list on its way is what the favorites service
has unless a change made it stale; that, unless disturbed, at most one answer
about a comic is under way, and it is the service's last word about it; and that
the cache is right about every other comic.

`CtxInv` is about sharing. Messages and handlers share contexts by reference, so
a property of one message depends on everybody who can reach its context:

| Part | Says | Needed because |
|---|---|---|
| `CtxTypes`, `Places` | what a handler has at each point; one entry per message, not more than allowed; all references exist | a new message and a new context are nobody else's |
| `Overlaps` | a message two handlers are busy with is dirty, and what replaces a dirty message is dirty | under a clean message there is one handler |
| `Sharing` | messages and handlers that share a context are dirty, apart from a handler and the message it was started under | a step of one does not move the other |
| `ScreenInv` | under a clean message context and screen agree, except between the update of the one and of the other; a list position a handler has computed still fits the list | the handler binds, edits and deletes after awaits |

The map is a sequence, and what `pop` and `remove` leave of one (`DropFacts`,
`PutFacts`, `RemoveFirstFacts`) is proved from the definitions in SequencesExt.

| Theorem | Statement |
|---|---|
| `SessionInvariant` | `SessionSpec => []SessionInv` |
| `CacheTellsTheTruth` | `SessionSpec => []CacheIsRight` |
| `ContextsInvariant` | `Spec => []CtxInv` |
| `MessagesKeepApart` | `Spec => []ContextsAreSeparate` |
| `ButtonsMeanTheScreen` | `Spec => []ScreenMatchesContext` |

### Only model-checked

- All liveness: `EveryCallAnswered`, `IndexConverges`, `HeardIsBuilt`,
  `EveryRequestAnswered`, `CacheHeals`. Fairness and ENABLED are outside the
  prover.
- `TelegramRaceFallsBack` is violated, see above.

## Not modelled

- Configuration, logging, migrations (except the unique keys), generated gRPC
  code: no state of their own.
- Texts, captions and HTML of the bot, JSON and bodies of the api, signing and
  hashing, the stemmer and the splitting of a phrase into words: data that no
  property tells apart.
- Graceful shutdown of the gRPC services: the crash and restart actions allow
  more. That of the api is modelled.
- The time a favorite was added and the order of the list.

## Left for later

- `UpdateAndSearch` has no liveness of its own: that an announced change is built in
  the end is `HeardIsBuilt` of `SearchIndex`, that a request comes to its event is
  `EveryCallAnswered` of `UpdateService`.
- The bot's token that is never renewed (see above) has no property: the code
  promises nothing.
