# A verification of RealistikAPI

RealistikAPI is the HTTP and websocket API of an osu! private server, in Go. This directory holds TLA+ modules translated from
its source, the TLC configurations that model-check them on small instances, and proofs of their main theorems that TLAPS checks
for every value of the constants. Paths below are relative to the repository's root.

## The system

The program is one process (`main.go`). `app.Start` (`app/start.go`) opens MySQL and Redis, starts the background goroutines and
registers about a hundred HTTP handlers on a fasthttp router. Every handler runs in the goroutine of its request, several at a
time, with no transaction around it: the shared state is the database, Redis, and a few variables of the process.

| Component | State | Operations | Interacts with |
| --- | --- | --- | --- |
| Rate limiter, `limit/limit.go` | `RateLimiter.Map`: a channel of tokens for each key; a filler goroutine for each | `Request`, `NonBlockingRequest`, `filler` | ranking requests (its only caller) |
| API token bookkeeping, `app/tokens.go` | channel `updateTokens`, the batch of `tokenUpdater`, `tokens.last_updated` | `GetTokenFull`, `BearerToken`, `tokenUpdater` | every authenticated request; the database |
| Websocket hub, `app/websockets/` | connections, `scoreSubscriptions`, `multiSubscriptions`, `stepNumber` | a handler for each connection, `SubscribeScores`, `SubscribeMultiMatches`, `Identify`, `SetRestrictedVisibility`, `cleanup`; two retrievers and a goroutine for each message | Redis pub/sub, the database, the clients |
| Request pipeline, `app/method.go`, `app/router.go`, `app/start.go`, `app/tokens.go`, `common/token.go` | `MethodData` of each request | finds the token, reads it and its owner, checks privileges, calls the handler; `OnlyUserPublic` | all handlers |
| Privileges, `common/privileges.go`, `common/user_privileges.go` | pure | `CanOnly`, `OAuthPrivileges` | pipeline, tokens, hub |
| User management, `app/v1/manage_user.go`, `app/v1/token.go` | `users`, `users_stats`, `tokens`, `scores`; Redis messages | set allowed, edit, wipe; read and delete tokens, `fixPrivileges` | token privileges, pep.py through Redis |
| Ranking requests, `app/v1/beatmap_requests.go` | table `rank_requests` | status, submit | rate limiter |
| Friends and followers, `app/v1/friend.go`, `app/mitsuha/followers.go` | `users_relationships` | add, delete, lists and counts | the database, changed by other requests |
| Scores and pins, `app/v1/score.go`, `user_scores.go`, `users_first.go`, `user_pinned.go` | three score tables, `user_pinned`, `anticheats`, `anticheat_reports` | lists, pin, unpin, report | the wipe of user management |
| Comments, `app/v1/comments.go` | `user_comments`, `users.disabled_comments` | post, delete, list, count | settings |
| Users, settings and leaderboards, `app/v1/user.go`, `self.go`, `leaderboard.go` | `users_stats`, sorted sets of Redis | profiles, userpage, settings, boards | pep.py, which keeps the boards |
| Beatmap status, `app/v1/beatmap.go` | `beatmaps` | set status, lists, search | LETS |
| Clans, `app/v1/clan.go` | `clans`, `user_clans`, which the website keeps | members, ranking, invite | reads only |
| Process caches, `app/v1/user_achievements.go`, `blog.go` | the achievement list, the parsed blog | periodic reload, read | requests read them while they are reloaded |
| Query builders, `common/where.go`, `sort.go`, `paginate.go`, `in.go`, `update.go` | pure | build clauses | all handlers |
| Beatmap fetcher, `beatmapget/` | table `beatmaps` | `Update`, `Set` | nothing in `app/` calls it |
| Old API, hypothetical rank, and other read-only handlers: `app/peppy/`, `app/v1/rank.go`, `badge.go`, `meta_*.go`, `most_watched.go`, `app/hmrapi/` | none | one read each | the database |

### What is hard in it

* The limiter releases its lock between the look-up of a channel and the receive, and between finding a channel full and closing it.
* The uses of tokens go through a bounded channel on the path of every authenticated request, to one goroutine that talks to the
  database with a batch, a timeout and no retry.
* The hub has a goroutine for each connection and one for each message, which works along a copy of a list that the others go on
  changing by swap-remove, and which waits for slow clients.
* The HTTP handlers read, decide and write in separate statements: quotas, duplicates and privileges can be stale when they are used,
  and a handler that fails in the middle leaves what it had done.
* A request carries the privileges that were read when its token was looked up through all its statements, while its owner can be
  banned and its token deleted; whether a user may be seen is decided by some handlers in another statement than what is shown.

`PROJECT.json` lists each of these hazards at its line with the properties about it.

### What would make each component correct

* *Limiter*: one channel and one filler for a key; no send on or close of a closed channel; a bounded number of grants in a time;
  a caller is answered; an idle key is dropped.
* *Token bookkeeping*: a bounded queue in order; every use recorded or given up; requests do not wait for ever.
* *Hub*: an entry for each subscriber, until it goes; a message once to each; filters and restricted users respected; nobody forgotten.
* *Pipeline and privileges*: a handler runs only with the privileges it asks for, and these are what one token and one rank of its owner
  gave; where the code hides restricted users, an answer shows them only to themselves and to those who manage users.
* *User management*: restricted users lose what they should whatever fails; tokens lose privileges when users do.
* *Ranking requests*: quotas kept up to what concurrent requests, and statuses that could not read every row, can overrun; no duplicates in the
  sequential case; LETS is asked for what is not known.
* *Friends, pins, comments, reports*: a call that is answered with the code 200 takes effect once, and any other call not at all, whatever its status; only what
  belongs to the caller changes; an answer says what was in the database at some moment of the request.
* *Clans*: a page never leaves the list.
* *Caches*: readers see a whole list. *Builders*: the clause and its parameters agree.

## The modules and what they use

What runs concurrently in the process came first, then what runs concurrently on one table, then the API as a whole.

| Module | Uses | Models |
| --- | --- | --- |
| `RateLimiter` | | the limiter without time |
| `RateLimiterClock` | extends `RateLimiter` | the limiter with sleeps and accounts |
| `TokenRecorder` | | what the token bookkeeping promises, abstract |
| `TokenUpdater` | implements `TokenRecorder` | `GetTokenFull`'s send and `tokenUpdater` |
| `WebsocketHub` | | connections, lists, published messages |
| `RankRequests` | | the submission of ranking requests, statement by statement |
| `Privileges` | | the enums, `CanOnly`, `OAuthPrivileges` |
| `UserManagement` | extends `Privileges` | the privileges of a user and of its tokens |
| `Caretaker` | extends `Privileges` | the pipeline of a request, the handlers of its own token, what a handler's step does to it |
| `Relationships`, `Scores`, `Comments`, `Beatmaps`, `Clans` | extend `Caretaker` | the handlers of one set of tables each |
| `Profiles` | extends `Comments` | users, settings and leaderboards |
| `Social` | | what the writing calls promise, abstract |
| `Service` | extends the six; implements `Social` | the API: the handlers side by side on tables that they share |

`Service` is the composition: each module's handlers leave the tables of the others alone, but they share the users, the tokens and
what `Caretaker` knows of a request, and some share tables: `self/settings/post` writes `disabled_comments`, which the comments read, and
the wipe takes the scores that pins are of.

## The modules

Every module comes with an `MC...` module (model values, symmetry sets) and one configuration for each run. In all of them one action is
what runs without another goroutine in between that matters: a critical section, a channel operation, a database statement. Values a
handler keeps over several of them are variables of the module, for they are what goes stale. An operator called *Mutant of X* is X with
a plausible mistake; it is used by no specification, and shows that the properties notice it.

### RateLimiter, RateLimiterClock (`limit/limit.go`)

`Map` is `RateLimiter.Map[u]` for one key: the keys share only the mutex, and no critical section waits. A channel is an identity with its
buffer (`tokens`) and whether it is `closed`; an identity that nothing refers to may be made again. `pc` and `c` are where a call of
`request` is and its local channel; `filler` and `fc` are the same of the goroutine the creator starts. `Request` is the look-up under the
read lock, `LoseRace` and `StoreChan` the second look under the write lock, `TakeFirst` the creator's receive and `go s.filler`, `Granted` and
`Refused` the two ends of `rcv`. `FillerLookup`, `FillerSend`, `FillerWake`, `FillerFull`, `FillerClose` are the statements of `filler`; the
panics that its `recover` swallows are modelled (`panicked`, and `wedged` for the mutex that stays locked), so that `NoPanic` means something.
`RateLimiterClock` adds a clock whose tick is the filler's sleep, and counts what goes in and out of a channel.

* `limiter`: 2 requesters, 3 channels, 2 tokens. Two requesters make the race for an absent key, and a third channel lets one be stored
  while two older ones are still held. `NoPanic`, `OneFiller`, `MapHasFeeder`, `NeverOverwritten`; with fairness `FedRequestReturns` and
  `IdleKeyIsDropped`.
* `limiter_starve` (violation): with one token, the creator of a key waits for ever, though its call is non-blocking. A finding.
* `limiter_clock`: the same instance up to time 3, more than a minute of 2 ticks. `TokensConserved`, `RateBound`, `UnpaidBound`,
  `EntryLastsATick`.
* `limiter_rate` (violation): more than `PerMinute` requests in the first minute of a key. A finding.

### TokenRecorder, TokenUpdater (`app/tokens.go`)

`TokenRecorder` is what is promised: a bounded queue of uses, whose front is written, or given up, a batch at a time. `TokenUpdater` has
the channel `updateTokens`, the batch `tokensToUpdate`, requests that wait at the send in `GetTokenFull`, and the loop of `tokenUpdater`:
`Receive`, `BatchFull`, `Timeout`, `Update`, which may fail. The refinement maps the queue to the batch followed by the channel, with
`Cap + BatchMax` places.

* `token_updater`: 2 requests, 2 ids, a channel of 2 and a batch of 2 (100 and 50 in the code): one id twice in a batch, a full channel
  during an `UPDATE`, a batch ended by the timeout and by its length. `UpdateHasIds`, `RecordsUses` (the refinement), `RequestLetGo`,
  `UseSettled`.

### WebsocketHub (`app/websockets/`)

A connection has the place of its `handler`, its `User` and `RestrictedVisible`; the two lists are sequences, as the code keeps slices, for
`cleanup` moves the last entry to the place of the one it removes. A client message is one action: the handlers change the state in
one critical section. `Stall` and `Resume` are the client that stops reading; `Break` is a read error that does not end the loop. A published
message has a goroutine: `GetScore`, `Copy` under the read lock, and then `Check` and `Write` for each entry of the copy, while the lists and
the flags go on changing. `RetrieverEnds` is an error of `ReceiveMessage`. The variables `asked` and `cleared` only remember, for the properties.

* `ws_scores`: 2 connections, one score of a restricted user, two filters of which the second needs the first match of two. `OneEntry`,
  `OnlyWhatWasAsked`, `RestrictedHidden`.
* `ws_lists`: 2 connections, one score and one match handed out side by side, both lists. `NoEntryLeft`, `WrittenOnce`, `SubscriptionLasts`, and
  with fairness `Delivered`.

`RestrictedHidden` says "asked as a manager at some time", not "now": the flag survives a second `Identify` as somebody else, and is read
before the write. The code's flag promises no more, and the hazards list says where it bites.

### RankRequests (`app/v1/beatmap_requests.go`)

`rows` is `rank_requests` in the order of its ids. A submission is `Submit`, `CheckStatus` (the status handler and its answer), `FindBeatmap`,
`FindDuplicate`, `Stamp`, `Insert`: the reading of the clock is a step, because the row gets its time when the arguments are made. Its body (`asked`) names
a map, a set, or both, and nothing makes the two belong together: `FindBeatmap` looks for either of them (`Matches`), and `What` queues the set
when there is one. The status handler skips a row whose `Scan` fails and looks at no `rows.Err`, so `CheckStatus` counts any part of the rows
of its query. `FindBeatmap` hands an unknown body to `Publish`, whose error is not looked at: LETS may hear of it or not. `Fetch` is LETS,
outside the repository, which adds the maps it has heard of. That `rank_requests` has no key on the map is an assumption: no schema is in the
repository. `handed`, `behind`, `short` and `shortRows` only remember, for the properties: what was handed to `Publish`, the body behind a row,
the submissions whose status skipped rows, and the rows of these.

The limits themselves do not hold, for two reasons that the properties keep apart. A status that skips a row lets a submission in that should be
refused, and nothing bounds how often; such rows are left out of `Counted`. What was counted against all the rows passes a limit only by
what runs side by side: `QueueBound` and `UserBound`. `DuplicateBound` needs no exception. `QueuedIsFetched` says of each row that the map or
the set of its body was known, one of them, or that the body was handed to `Publish`; that the queued one is known is not so.

* `rank_requests`: 2 requests, 2 users, 1 map and 2 sets, a body with the map alone and one with the map and the set that it is not of, a queue of
  2, 1 for each user, rows that live 1 tick in a clock of 1, 4 rows, 1 submission whose status skips rows (`MaxShort`). Three counted rows are what
  `QueueBound` allows, the fourth shows that there are no more, or is of the short submission. 2,511,838 states.

### Privileges, UserManagement (`common/privileges.go`, `common/user_privileges.go`, `app/v1/manage_user.go`, `app/v1/token.go`)

`Privileges` has the enums as sets and `CanOnly` from `privilegeMustBe`. `UserManagement` is one user's row and its tokens: `SetAllowed` is one
`UPDATE` and then `go fixPrivileges`; an edit is `EditSelect`, `EditUsername`, `EditUpdate`, `EditStats`, `EditAnnounce`, `EditFinish`, and keeps
what it read in `prev`; a goroutine of `fixPrivileges` is `FixSelect`, a `FixRow` for each token and `FixEnd`. Each statement may fail, with what
the code does then: an answer, or nothing.

* `user_management`: 2 requests of any of the three endpoints, 1 token, the two basic privileges and `AdminManageUsers`, a token privilege that
  needs `UserNormal` and one that the user cannot have. `OthersGiven`, `BanIsTold`, `BanIsDated`, `FixComplete`.
* `user_edit_race` (violation): an edit undoes a change of the privileges above the basic two, without the privilege for it. A finding.
* `fix_privileges_race` (violation): two goroutines leave a token with what its owner cannot have. A finding.

### Caretaker (`app/method.go`, `app/router.go`, `app/start.go`, `app/tokens.go`, `app/v1/token.go`, `common/token.go`)

A request is one call. `endpoint` is its handler, `cred` the token that `initialCaretaker` found (the first of five places, with no way
back to a later one), `md` the `MethodData.User` that the look-up makes, `pc` its next statement, `arg` what the call names. `Receive`, then
`GetTokenFull` or the two statements of `BearerToken` (`BearerScope`, `BearerUser`), then `Check`, are the pipeline; `Continue` and `Finish`
are the only steps of a handler: it goes on to its next statement with what it has read in `seen`, or it is answered. An answer is a code, and the
status that repeats it unless the parameter `pls200` makes it 200: `answer` is `"ok"` for the code 200, `"no"` for another one, and `"pls200"` for
another one under the status 200. `Refuse` is either of the last two; `Reject`, before the handler and after a panic, is always `"no"`. `Visible` is
`OnlyUserPublic`, on the privileges as they are at the statement, for the user as it was at the look-up. `ChangeUser` and `DropToken` are the
environment: the admin panel, bancho, and the handlers of `UserManagement`, change users and tokens at any time.

What is read and what is said are *facts*: a kind, the user that it is about, and what is said of the user. So a property can compare an
answer with the database without modelling rows or their encoding.

### Relationships, Scores, Comments, Profiles, Beatmaps, Clans

One action for each database statement of a handler whose outcome another request could change or see; reads that follow a refusal
already certain are not steps. Where the source logs an error and goes on, the model does so too: rows that cannot be read
are left out of a list (`ReplyRows`) where the handler passes over them, and are there as blanks (`ReplyHalfRead`, or a *gap* among the rows) where it
appends what it has, with what is blank as the fact `Unread`; an `UPDATE` whose error nobody looks at may or may not have happened (`BeatmapSetStatusPOSTUpdate`,
`UserSelfUserpagePOST`), each statement of the wipe's transaction may fail on its own (`WipeUserPOSTCommit`), and a failed read of Redis
puts a user first (`positionsOf`). Elsewhere a statement that fails is answered with an error (`Refuse`) and had no effect.

* `Relationships`: `rows` counts the rows of a pair, for nothing keeps a pair from having several: `AddFriendExists` reads, `AddFriendInsert` inserts.
  Whether a friend is mutual (`Mutual`) and a follower subscribed (`Subbed`) is what an earlier statement read; when that one could not read a row, who is
  not mutual is unknown.
* `Scores`: `scores` holds the ids of the three tables, `pinRows` counts pins, `openTx` is the transactions that a report leaves open.
  The lists of first places count before they list (`CountThen`), with the error of the count dropped.
* `Comments`: a post is `CommentPOST`, `CommentPOSTMe`, `CommentPOSTOpen`, `CommentPOSTInsert`; a deletion reads `op` and `prof` first.
* `Profiles`: the page, one setting of a kind, the badge, and one board that pep.py moves; a position is read after the row.
* `Beatmaps`: the status by map or by set, and the grouping of `BeatmapSearchGET`, in which sets after the first have the id of the first.
* `Clans`: the weighted points of the public members, the ranking, and the slice of a page in `int` arithmetic that wraps around. A ranking is of the list of
  clans that the first statement gave (`ClanLists`), which may be cut short, or have clans without an id.

### Social, Service

`Social` is what the calls that write promise: friends, pins, comments and reports change at the moment a call is answered with the code 200,
once, and only what belongs to its caller or what a manager may change; a call with another code changes nothing, whatever its status. What a
deletion takes away is what its answer names (`said`): the friendship with the user, the pin that was the caller's a statement ago, the comment. The only
deletions that take nothing are that of a friend who is no user, and those of what is gone already. It has no statements, no failures, and no rows that are there twice.
`Service` puts the modules together and implements it: `friends` are the pairs that have a row, `pins` likewise, `caller` is the user in `md`.
`held` only remembers, for the properties: the facts that a request could have read since it came in.

* `service`: 2 requests, 2 users (a player and a manager), 3 tokens (a key, a token of OAuth, a private one), 3 scores, 2 maps, 2 clans,
  with `MaxInt` 3 so that a page wraps around. Two requests of any of the forty-five endpoints would be too many states, so `Starts` has twenty
  families: the calls that work on the same tables (those that only read are not all paired with one another), each with one change of the environment (none in four of them: those whose
  races are among the requests alone) and with tables in the state that makes the family interesting: a pair with two rows, a pin with two, a
  restricted user with scores, a pin beside a wipe, comments that are disabled, a board, two clans. 330,056 states.
  `Entitled`, `SocialSpec` (the refinement), `AnswersHeld`, `RestrictedUnseen`.

`Entitled` does not say that the owner still has the rank: the code promises no more than one moment of the request, and a handler of
several statements goes on with it. `AnswersHeld` says that each fact of an answer was true at one moment of the request, though two
of them perhaps never together, and that the rank of a clan was its rank among the clans that were read. It excepts what stands for something that
was not read: `Unread` (a blank in a list, a total of 0 after an error, a friend shown as not mutual after a row that could not be read) and
the first position, which a failed read of Redis gives. `RestrictedUnseen` is about four kinds of facts (`Kept`): that there is a user, a score
among scores, a comment, an e-mail address. Friends, pins, clan members, pages, boards and first places, with the scores in them, are other kinds; the code does not
filter them, and shows restricted users there.

### Why the bounds are enough

The races are all between two actors: what one has read or looked up, and what another does before the first uses it. Two actors
show each of them, and the proofs extend the safety properties they cover to any number of actors and any capacity. The numbers are the least at which
the interesting case occurs: a full channel, a batch of more than one, a list of two entries where the last is moved, an expired
row, a limit passed by one. Where a run has no symmetry it checks liveness, or it is small.

`CHECK_DEADLOCK FALSE` stands where the model may stop: the clocks and the table are bounded, a request runs once in
`UserManagement`, all requests may have been answered in `Service`, all connections may have gone in `WebsocketHub`, and in `MCRateLimiter` the one creator may wait for ever, as
`limiter_starve` shows. `limiter_starve` and `token_updater` check for deadlocks.

## Fairness

* *Limiter*: weak fairness of each goroutine's steps, which the Go scheduler gives; strong fairness of the receives, because the runtime serves
  the waiters of a channel in the order they came. A call of the limiter is not fair: nobody has to come.
* *Token bookkeeping*: weak fairness of `tokenUpdater`, whose loop has no exit and whose timer fires; it takes that the database answers, if with an
  error. Strong fairness of `Send` for the same reason as above. No request has to come.
* *Hub*: weak fairness of the goroutine of a message and of `cleanup`. Clients, Redis and the network owe nothing; hence `Delivered` makes an exception
  of a client that stopped reading, which the code does not guard against with a deadline.
* The database modules have no fairness, for nothing in them waits for another actor: a request's next statement is always possible,
  until it is answered. Their properties are safety properties. The one place where a request waits, the send to `updateTokens`, is in `TokenUpdater`.

## What is proved

TLAPS checks the theorems for every value of the constants, under the named assumptions of the modules: positive capacities and limits, a `nil`
outside of the values, finite sets of requests where something is counted and of maps and clans where they are listed, `UserPublic` and `UserNormal` among the privileges in play; for
`Service`, starts whose tables have their types, comments with an id each, and pins of the user's own scores.

| Module | Invariant that is shown inductive, and why it is needed | Theorems |
| --- | --- | --- |
| `RateLimiterProofs` | the properties, and: a channel whose creator has not received yet has no filler and is the one in the map (`CreatorFirst`); a requester past the look-up has a channel (`HoldsChan`). Without the first a second filler could appear when the creator starts its own. | `TypeCorrect`, `NeverPanics`, `SingleFiller`, `KeyIsFed`, `NeverReplaced` |
| `RateLimiterClockProofs` | that of the limiter, conservation, and that the tokens added are bounded by the ticks since the channel was stored, with the sleep of the filler accounted for (`Pace`) | `ClockImplementsLimiter`, `Conservation`, `RateIsBounded`, `UnpaidIsBounded`, `EntryLasts` |
| `TokenUpdaterProofs` | types, the batch is not empty at the `UPDATE`, a sender has an id | `TypeCorrect`, `NoEmptyUpdate`, `Refinement` |
| `WebsocketHubProofs` | the properties, and: who sees restricted users now was cleared (`Visible`). The core is a lemma about swap-remove on a list without repetitions. On top of it, for what was written: an entry of a list or of a copy has a filter that its connection asked for at some time (`FromAsked`), and a connection that was written a message is not in what is left of that message's copy, in which no connection is twice (`Once`). | `TypeCorrect`, `EntryIsUnique`, `CleanupIsComplete`, `RestrictedIsHidden`, `SubscriptionsLast`, `FiltersAreKept`, `NothingIsWrittenTwice` |
| `RankRequestsProofs` | what is in the queue and the requests past the check are together within the bound (`QueueWithin`, `UserWithin`, `MapWithin`), of the rows and requests that were counted against every row: a check that passes leaves room for the other requests only. A request past `FindBeatmap` has a known map or set, or was handed to `Publish` (`Announced`) | `TypeCorrect`, `QueueIsBounded`, `UserIsBounded`, `DuplicatesAreBounded`, `QueuedAreFetched` |
| `UserManagementProofs` | for each property what the requests under way know: a pending edit wants what was there or what a manager asked for (`WantGiven`), it will tell bancho (`WillTell`), what it read is current unless marked (`PrevIsCurrent`), and a goroutine's rows are the table's while it is alone (`FixInv`) | `TypeCorrect`, `NothingInvented`, `BansAreTold`, `BansAreDated`, `FixIsComplete` |
| `ServiceProofs` | where a request is, and what it names there (`Located`, `Names`); whose it is and what it has held (`Trusted`: the token was there, its privileges are within one rank, the rank that `OnlyUserPublic` looks at was one of the owner's). Each handler is shown to take only steps of the two forms of `Caretaker`, from which the pipeline's part follows once (`ContinueKeeps`, `FinishKeeps`). For `RestrictedUnseen`, also: what a request has read by now it may show (`SeenInv`), and pins are of the user's scores (`PinsInv`), without which the pinned scores of a visible user might be those of a restricted one. For `AnswersHeld`: what a request has read so far it has held (`SeenHeld`), and the argument of a statement that answers with facts is of the kind of these facts (`Pointed`); each handler is shown to take only steps that read what is true now (`Tells`). | `TypeCorrect`, `EntitledAlways`, `RestrictedStayUnseen`, `AnswersWereTrue`, `SearchShowsItsRows`, `PagesInBounds`, `PagesShareOut` |
| `SocialProofs` | a comment has an id of its own, that of an answered request or an old one, and the comment which a request is about to delete by id is one that its caller may delete (`CommentsInv`): without it the id could have been given to another comment between the two statements. And the pin that a request is about to delete is what it has read (`ReadInv`), so that the answer names what goes | `KeepsItsPromise` |

`tlapm` proves every obligation from nothing: 4327 of `ServiceProofs`, 1047 of `WebsocketHubProofs`, 997 of `SocialProofs`, 967 of
`UserManagementProofs`, 763 of `RankRequestsProofs`, 374 of `RateLimiterClockProofs`, 159 of `RateLimiterProofs`, 117 of `TokenUpdaterProofs`.

`BeatmapSearchGET` folds the rows of its query into sets, and what it shows is proved for every list of rows (`SearchShowsItsRows`). The
induction theorems of the library take an operator for a parameter, which the provers cannot instantiate; so `ServiceProofs` shows that a set of numbers
with 0 and with the successor of each of its members is `Nat` (`SetInduction`, from the least number that the set lacks), and applies it to
the lengths for which the recursive function of `groupRows` exists, to those up to which its value has the maps of the rows, and to the
places of a ranking that are on some page (`PagesShareOut`: the pages of `AllClanStatsGET` share out the clans). `PagesInBounds` needs no induction: it is the arithmetic of one page.

Every safety property of a passing run is stated by a theorem. Only model-checked, on the small instances:

* the liveness properties (`FedRequestReturns`, `IdleKeyIsDropped`, `RequestLetGo`, `UseSettled`, `Delivered`), for the prover has no `ENABLED`;
* what the violation runs show: a behaviour that breaks a property is an example, and one instance suffices for it.

No theorem says what the sums over sets (`RowsOf` of the follower counts, `clanPP`) amount to: the proofs use only that a sum
told to a client is the one of the tables at the statement that read them.

## Where the code and its words differ

Shown by a run:

* `limit/limit.go:61`: the creator of a key receives before it starts the filler, so that a non-blocking request can wait for ever.
* `limit/limit.go:98`: a key gets `perMinute + 1` requests and the refill in a minute, where the message of the submission says five.
* `app/v1/manage_user.go:126`: an edit compares and writes back privileges that it read earlier.
* `app/v1/token.go:211`: a goroutine writes privileges of a token from a row that it read earlier.

Seen while reading, without a run:

* `app/tokens.go:58` says "if we got ten"; the batch has fifty.
* `app/tokens.go:32` says "all privileges"; `(PrivilegeBeatmap << 1) - 1` leaves out `PrivilegeBancho`.
* `app/v1/beatmap_requests.go:56` takes the first row for the next to expire; it is the first by id, and the clock is read before the `INSERT`.
* `app/v1/beatmap_requests.go:46`: a row that cannot be read is skipped, and the limits are compared with counts that are too low.
* `app/v1/beatmap_requests.go:110`: a known map along with a set it is not of queues the set, which nobody is told of; and the error of `Publish`
  (123) is not looked at, though Redis keeps no message.
* `app/v1/beatmap_requests.go:104`: `CanSubmit` stays `nil` for a token without `ReadConfidential`, which the route does not ask for; the look at it panics.
* `app/v1/users_first.go:69` names `first_places.userid` where the table has the alias `f`, and line 194 calls the column `user_id`; MySQL refuses such a
  query, and line 101 drops the error, so that the total of the oldest first places is 0.
* `app/v1/users_first.go:153`, `app/v1/friend.go:98`, `app/v1/clan.go:235`: rows that cannot be read are in the answer half filled; `app/v1/clan.go:242`: the clans
  are ranked although the list was cut short.
* `app/v1/manage_user.go:40`: `(privileges | 2) & (privileges & ~1)` never sets `UserNormal`, so a banned user cannot be made restricted; and
  set_allowed, unlike an edit, tells bancho nothing.
* `common/int.go:5` says that an invalid number is 0; one out of range is the largest or smallest integer.

## What is not modelled

MySQL, Redis, pep.py and LETS are outside: a statement happens at once or fails, a published message arrives or not. Formatting, logging, `rap_logs` and
`users.notes` are left out, since nothing reads them back.

What `Caretaker` and the modules on it leave out or assume:

* A statement that is answered with an error is taken to have had no effect; a connection lost after the commit of a statement is not modelled.
* A panic of a handler is an answer with an error: `wrap` of `app/router.go` recovers it and answers 500.
* `pls200` is modelled; the `callback` of JSONP, and a failure of `json.Marshal`, are not.
* `mode` and `relax` of `first_places` are taken to be those of its score.
* The three score tables have ids that are apart (`user_pinned` and `anticheat_reports` do not name the table); `first_places` is an
  external table that stays as it is; one board stands for all of them, `username_aka` for the settings like it.
* Badges, clan and former names of `users/full`, `favourite_mode`, and `SubsGET` of `app/hmrapi/`, which has no route, are left out.
* The handlers of `UserManagement`, `RankRequests` and the websocket hub are not handlers of `Service`: what they do to users
  and tokens is its environment. They have runs of their own.

And of the other components:

* *Process caches*: a goroutine replaces a slice header while requests read it, without a lock. What a reader can see is decided by the
  compiled code; a model of it would be about the compiler.
* *Query builders, encoding*: strings. What a clause means is in the guard of the handler that builds it.
* *Beatmap fetcher*: nothing in `app/` calls it.
* *Old API, hypothetical rank, other read-only handlers*: one query and its formatting each, with no second step to interleave with.
* *Settings and start*: set-up of the process.

`PROJECT.json` has the status of every component.
