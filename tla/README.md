# Taunggyi City Church backend: TLA+ models, checks and proofs

The repository is a Django backend (`src/apps/core`, `src/apps/tcc`) written
mostly with `async` functions: views call controllers, controllers call use
cases, use cases call repositories, and repositories call the ORM through retry
and circuit-breaker decorators. Cache, id generation and token services are
shared by all requests of a process. It runs under gunicorn with several worker
processes of two threads (`docker-compose.yml:14`, `Dockerfile:69`) on MySQL;
Django's cache is `LocMemCache` (`config/settings/base.py:237-273`), one per
process, and the Redis cache client is separate from it.

## 1. Inventory

| component | state | operations | talks to |
|---|---|---|---|
| Redis breaker, `core/cache/async_cache.py:18-47` | state, failures, last_failure_time | can_execute, on_success, on_failure | the cache below |
| Redis cache, `async_cache.py:50-383` | client, pool, `_is_connected`, metrics, the breaker | get, set, delete, get_many, flush_pattern, exists, ttl, expire, incr, health_check, close | Redis; tasks interleave at every await |
| Snowflake ids, `tcc/utils/snowflake.py` | per context: sequence, last_timestamp; per process: lock, singleton | generate_id, batch, decompose | wall clock, Django cache, model `save` |
| Use case template, `usecases/base/base_uc.py` | per call: OperationContext; shared: the use case object, `validated_input` | execute and its hooks | authorization, transaction, concrete use cases |
| User creation, `user_create_uc.py`, `user_repo.py` | the user table, the repository's breaker | create, look-up by e-mail | database on several connections, password and mail services |
| Database decorators, `core/db/decorators.py` | breaker state under a lock | with_retry, atomic_operation, with_timeout, circuit_breaker | database |
| Authorization, `usecases/base/config.py` | permission cache | is_authorized, clear_cache | use cases |
| Auth use cases, `usecases/auth/*` | `validated_input`, failed-login counter, lock flag | login, logout, refresh, change/forgot/reset password | JWT service, user repository |
| Tokens, `core/jwt/jwt_backend.py`, `usecases/auth/jwt_uc.py` | refresh and reset tokens in the cache | create, refresh, revoke, reset | Django cache |
| Blacklist, rate limiter, key rotation, `core/jwt/*` | cache entries, in-memory key set | blacklist, check_rate_limit, rotate_keys | AsyncCache |
| Cache decorators and manager, `core/cache/*` | entries derived from the database | cached, cache_invalidate, invalidate_user_caches | AsyncCache, repositories |
| Models and audit signals, `tcc/models/base/*` | rows, `_pre_save_states`, audit log | save, soft_delete, signal handlers | database |
| Controllers, views, schemas, validators, exceptions | singletons only | adapters, checks | all above |
| Donations, `tcc/models/donations/donation.py` | donation rows, the fund's balance | process_payment, save | database |
| Prayers, sermons, events (models only); tracing; metrics | the rest is commented out | | |

What makes each of them right:

* **Breaker**: state and counter agree at every moment, although reports arrive
  late, in any order, or never; an open breaker is quiet for the whole timeout;
  enough failures always open it, and it does not stay open for ever.
* **Redis cache**: flag, client and pool agree; every admitted call is reported
  to the breaker once; every call ends whatever Redis does; a lost connection is
  found again.
* **Ids**: no id twice, within a context, a process or a deployment; waits end.
* **Use cases**: the body runs once; what the client is told is true; the work of
  one request never uses the input of another.
* **User creation**: one account per address; answers agree with the database
  after races, retries, lost acknowledgements and crashes.
* **Database decorators**: retries do not repeat what was already done.
* **Authorization**: a decision uses the role the user has.
* **Tokens**: what was issued can be used until it is revoked or expires, and not
  after; the newest reset link works once.
* **Rate limiter**: at most `max_requests` pass in a window.
* **Key rotation**: the signing key is always in the published set; a key in use
  is not removed.
* **Cached reads**: after an invalidation nobody reads the older value.
* **Donations**: the fund's balance is the sum of the completed donations; a paid
  donation stays paid; receipts stay.
* **Audit**: the before state recorded is the state before that save.

Hard behaviours: tasks interleave at awaits, threads anywhere; processes share
only the database; the database and Redis fail before or after doing the work;
workers are killed; clocks stand still or are set back. `PROJECT.json` lists the
hazards one by one with their source lines.

## 2. Modules

| module | what | theorems |
|---|---|---|
| `CircuitBreaker` | the breaker, for `RedisCache` and `UserCreation` to instantiate | `RedisCache_proofs` |
| `RedisCache` | the cache; instantiates `CircuitBreaker` on its own variables, with the admitted calls as `inFlight` | `RedisCache_proofs` |
| `Snowflake` | the id generator | `Snowflake_proofs` |
| `Registration` | abstract: what user registration promises for one address | `UserCreation_proofs` |
| `UserCreation` | `BaseUseCase.execute` over `CreateUserUseCase` over `UserRepository.create`; instantiates `CircuitBreaker` (the class in `decorators.py` has the same state logic) and `Registration` | `UserCreation_proofs` |
| `Access` | the use case objects of a worker, shared by its threads: authorization with its permission cache, and login over the input kept on the object | `Access_proofs` |
| `SharedRow` | abstract: a row many writers change, for somebody who reads the table | `Records_proofs` |
| `Records` | one row of a `BaseModel`: saves of whole instances and of named fields, updates under a row lock with their retry, and the audit receivers; instantiates `SharedRow` | `Records_proofs` |
| `KeyRotation` | key managers of several processes over one cache entry | `KeyRotation_proofs` |
| `Quota` | abstract: what a rate limiter promises its caller | `RateLimiter_proofs` |
| `RateLimiter` | the sliding window over one cache entry; instantiates `Quota` | `RateLimiter_proofs` |
| `Donations` | the donations to one fund, and the payments that complete them | `Donations_proofs` |
| `MC*` | constants for TLC | |

### CircuitBreaker
One action for each answer of `can_execute` (`Admit`, `Reject`), one for each
report, `Abandon` for a cancelled caller, and `Tick`. `age` is the number of
ticks since `last_failure_time`; ages beyond the timeout are merged, and
`failures` saturates at `FailureCap`, above the threshold, where nothing reads
it any more. `datetime.now()` is taken to advance; jumps of the wall clock are
modelled for ids only. `streak` is a history variable: failures with successes
between them open the breaker too, although `on_failure` logs "consecutive
failures" (`async_cache.py:47`).

### RedisCache
An action is the code from one await to the next, and a task that has passed
`can_execute` runs on to its first await before anybody else moves
(`Suspended`). `client` stands for `redis_client` and `connection_pool`: they
are set and cleared together, except inside `_close_connection`, where the pool
attribute is read again after the first await (`ClientClosed`).
Closing a client or a pool breaks *every* call that waits on Redis (`cut`), also
those of a newer pool: an over-approximation, since a call can fail at any time
that Redis is down. All single-command operations are one kind of call;
`flush_pattern` is the only one with two commands. Values, keys and metrics are
left out.

### Snowflake
An id is the pair of timestamp and sequence, since datacenter and machine are
the same constants in every process. `cache.incr` raises `ValueError` on a
missing key in Django's local-memory cache, and nothing creates the key, so
`_get_distributed_sequence` always takes its fallback. `Local` is asgiref's:
state belongs to the context, and a new task starts with a copy (`Fork`). The
generator a context uses is a constant, so that one instance models both the
threads of a process and the workers of a deployment. `stalled` and `newest`
are history variables.

### UserCreation
`pc` follows one request: `lookup` (validation reads the table), `begin` (the
transaction of `_run_transaction`), `hash`, `check` (`full_clean`, which `save`
repeats just before the insert, hence one step), `save`, `broken` (a database
error has reached `with_retry`), `created`, `done`. `sync_create` runs with
`thread_sensitive=False`, thus on its own connection in autocommit mode: the
insert takes effect at `Save` whatever happens to the transactions around it.
`run` is 1 inside the transaction and 2 in the fallback. Database errors can hit
before the insert (`DatabaseFails`) or after it (`SaveUnacknowledged`), the
outer transaction can fail to begin or to end, and the worker can be killed
(`Crash`), which forgets the breaker. `full_clean` raises Django's
`ValidationError`, the handler names Pydantic's, so a duplicate found there is
an ordinary failure; only `IntegrityError` becomes "exists". Requests for other
addresses meet these ones only in the breaker, where any of them can be
`Refused`. The welcome mail, the audit log row and the audit message do not
feed back and are left out. Each request is made once, so the model really
stops when all are answered: deadlock checking is off in these two runs.

`Registration` says what this is for: `Register` makes the owner, `Confirm`,
`Decline` and `Fail` tell the truth about it, and only a lost acknowledgement
(`doubt`) excuses an owner who is told "failed". The breaker's own specification
is kept too (`BreakerProtocol`), with the restart of the worker as the one step
that is not a breaker's: it begins anew.

### Access
Every use case object has an `AuthorizationManager` of its own
(`base_uc.py:30`), and one object serves all threads of a worker (the
controllers' singletons), so `cache` is indexed by use case. `Enter` is
`_before_execute` up to the permission cache: the user is the one the request
was authenticated with (`shown`), not read again. `Lookup` and `Store` are
separate because two threads can be between them. A role that `Role` does not
know (all of `UserRole` but `super_admin`: `staff`, `member`, ...) has no
permissions and is not cached; explicit permissions add nothing, since no name
that `get_permissions` returns is a `Permission`. Nothing calls `clear_cache` at this
commit; it is modelled because it is the manager's own remedy.
A login (`Submit`, `Take`, `Fetch`, `Verify`) keeps its validated input on the
use case until `_on_execute` takes it, e-mail and password together. The counter
of failed logins is handed to `UserRepository.update`, which does nothing
(`base_repo.py:36`), and no entity has `is_locked`: there is no lock to model.
`outside` and `crossed` are history variables: who was not entitled since the
last clearing, and whose login was overtaken.

### Records
The row is a user's: `UserManager` does not hide inactive rows, as
`BaseModelManager` would. A thread of `Plain` loads an instance and calls `save`,
`soft_delete`, `restore`, `update_meta` or `hard_delete`, with the database in
between; a thread of `Locking` runs `atomic_update` or `deactivate_user`. `edits`
stands for all columns a whole save writes, `active` for the columns the
soft-delete methods name; the meta values are left out. The version is
described as "Version for optimistic locking" (`base_model.py:55`) but never
compared, and the models say what that costs. The receivers are connected in
`apps.py:12`; the state they keep in `_pre_save_states` is `kept`. The audit row
itself is never written, because `AuditLog` refuses the values it is given.
`SafeManager` is no model's manager yet.
`SharedRow` is the reader's view: `Edit`, `Switch` (one column) and `Remove` are made
to the row as it is at that moment, `Overwrite` puts the writer's idea in its
place. `stale` is the history both share, so that `SharesRow` says more than that
each save is some step: only a save that missed a write may be the `Overwrite`.

### KeyRotation
Keys are numbered in the order of their creation, which is the order of
`created_at`. A save names the current key when it is called (`SaveCall`), but its
dictionaries are the manager's own until the client serialises them (`Send`); a
load that replaces the dictionaries leaves such a save with the old ones
(`Frozen`). `SaveEnds` is free: a save ends well or not, whether Redis applied
it or not. After the first rotation `_cleanup_old_keys` returns before it saves,
so the status 'previous' is not stored then, and keys of crashed rotations pile
up in the entry; neither loses a key. Two processes overwrite each other's
entry, and a live manager never loads again: `RestartKeepsKeys` therefore speaks
of one manager at a time. Left out: a write that reaches Redis after its caller
has given up on it and gone on.

### RateLimiter
One identifier and action. A check takes its timestamp (`Start`), reads the entry
and compares (`Count`), reads it again (`Reread`) and writes it back (`Write`).
`Interrupt` is a cache call that raises, which lets the request pass, or a
cancelled task; a write may have been applied. `raced` is a history variable.
`Quota` knows neither entry nor steps: a request is asked, and later told "yes", "no"
or "open" at one moment, from what was told before. A "no" always needs a full
window; a "yes" needs room in it while the limiter is `calm`, which is the code's
`~raced`. The mapping is `Answer`: a request is told when its decision is final, so a
"yes" when its write is over and a "no" when the count refuses it.

### Donations
A payment is three steps of a thread: up to the first UPDATE (`Pay`), from there to
the UPDATE of the fund (`Saved` or `SaveFails`), and the end of it (`Credited` or
`CreditFails`, then `FailSaved` or `FailRaises`). An error can come before or after
each UPDATE. `Gone` is a dropped instance or a killed worker. The fund is loaded
by `log_create_update`, which looks at every field of a saved donation, and then
stays on the instance; donations listed from one fund instance share it
(`TakeFund`, `Take`), so an unsaved credit can reach the row with a later payment.
Amounts are abstracted: the balance is how often it contains each donation's
amount. Other edits of donations and funds are `Records`' subject. The status
`refunded` exists, but nothing sets it. Of the history variables, `fresh`,
`freshFund`, `late` and `missed` follow stale instances; `loose` and `doubt` the
credits of failed payments; `uncredited` the payments cut short, and the donations
recorded as completed from the start, which `process_payment` never credits.

## 3. Runs

| run | bounds | shows |
|---|---|---|
| `redis_cache` | 2 tasks, threshold 2, timeout 2, counter up to 3 | the breaker's state invariants, its quiet period and its recovery, in the hands of the cache, which drives it as specified; every call ends; only overlapping reconnections lose the client, and only `close()` gets it back |
| `redis_wedge` (violated) | 2 tasks, timeout 1 | such an overlap can leave the cache connected without a client for ever |
| `snowflake` | 2 contexts, 4 sequence values, 2 waits, 4 clock values | increasing ids, waits end |
| `snowflake_unique` (violated) | 2 generators | two workers return the same id |
| `user_creation` | 2 requests, 3 attempts, threshold 3 | `Registration` is implemented, requests end, the breaker is used as specified, at most two failures per request |
| `user_fallback` (violated) | same | the body runs again after its own exception |
| `access` | 3 requests, 2 users, roles `super_admin` and `staff`, 2 guarded use cases and login, 2 changes | stale permissions go only to active users who once held them, and never past a required role; a promotion counts at once; tokens only for credentials somebody submitted |
| `records` | 2 plain and 2 locking threads, 2 attempts, 4 saves | what is lost is lost by saving a whole instance that missed a write, every other save is a step of `SharedRow`; the before state is that of the row replaced |
| `key_rotation` | 2 managers, 3 tasks, 4 keys | a ready manager can sign, the predecessor of the current key is kept, an undisturbed restart loses nothing, and the signing key is the newest |
| `donations` | 2 threads, 2 donations to pay and one recorded, 3 payments | completed donations are in the balance once, others not at all; paid ones stay; none is credited twice; receipts stay; each but for what the histories name |
| `donations_total` (violated) | 2 threads, 2 donations | two payments without an error lose a credit |
| `rate_limiter` | 4 requests, limit 2, window 2, 3 ticks | `Quota` is implemented, so refusals are just; only overlaps and failures exceed the limit |

Why the bounds are enough. *Breaker*: one
task with a call admitted long ago and one that fails, waits and probes make
every late report; two failures and a third make "below", "at" and "above" the
threshold differ; its safety properties are proved for all values. *Redis*:
every loss of the client needs two tasks, and three tasks meet no code path that
two do not. *Snowflake*: four sequence values wrap within a millisecond, four
clock values allow a step forward after a step back; safety is proved for all
values. *User creation*: the race is between two; three attempts are the code's
own number; the breaker opens at three of the four failures two requests can
report; its safety is proved for all values. *Access*: two users and a demotion
and promotion between three requests make a stale entry, its clearing and a
racing store; the staff role stands for all roles without permissions. *Records*:
two stale instances, two lockers, and a retry each; four saves let a deletion, a
restore and two edits meet. *Key rotation*: the third key makes the clean-up
act, the fourth lets it drop one that matters. *Rate limiter*: a limit of two, two
requests beyond it, and one tick after the window has passed. *Donations*: three
payments let a retry meet another payment over the same fund instance, and two
threads make either instance stale. The safety
properties of all five are proved for all values. They have no fairness and are
not asked to run for ever: requests, calls, payments and keys run out, so deadlock
checking is off.

The violations, in short. `redis_wedge`: t1 waits for the ping of its new
connection; t2 closes it and makes another; Redis is down, t1's ping fails and
sets `redis_client` to None; Redis is back, t2's ping succeeds and sets
`_is_connected`. From now on `_ensure_connected` returns True at once, and each
operation ends in `AttributeError`, which does not clear the flag.
`snowflake_unique`: two workers, one millisecond. `user_fallback`: the body
raises, and runs again. `donations_total`: t1 and t2 save their donations as
completed, each loads the fund, each saves it with its own amount added: the
second save overwrites the first.

Fairness. An await on Redis ends within `socket_timeout` and the event loop is
first-in first-out, so a resumable task is resumed (strong fairness: the step
that resumes it can change while Redis goes up and down). A sleeping thread wakes. An accepted request runs on.
Nothing is assumed of Redis, the database or the clock, and nobody has to make
a call, except in `redis_wedge`, where the application keeps calling
(`BusySpec`): the point is that even this does not help.

Mutants. Each property of a passing run is tied to a plausible bug in an
operator of its own (named after the operator, with a comment *Mutant of*); with
it in place TLC finds the property violated.

Seven properties of the modules are theorems but in no run, because a property that
is run contains them, and finds their mutants too: `Quota`'s refusals are those of
`DeniedJustly`; `SharedRow` lets a deleted row come back (`DeletedStays`) and the
version stand still (`VersionCounts`) only by an `Overwrite`; `BreakerConsistent`
leaves a failure no way not to reopen the breaker (`BreakerReopens`); a clock guard
that is off (`GuardTracksIds`) gives ids that fall back; `OpenedByMany` follows from
`ReportsBounded`, and a second credit for one payment (`CreditsWerePaid`) breaks
`CreditedOnce` first.

## 4. Proofs

The breaker is proved in `RedisCache_proofs`, about the instance `B` of
`CircuitBreaker` that the cache drives, whose tasks in flight may be any. From
`CacheAssumption` (the breaker's own: the threshold is at least one, the bound at
least the threshold):

    BreakerIInv == B!TypeOK /\ B!Consistent /\ StreakBound

`Consistent` needs no help, but `StreakTrips` is not inductive: nothing in it
stops a long streak beside a small counter. `StreakBound` says that the streak
never exceeds the counter, which each report keeps (a success clears the streak;
only a success clears the counter). Then `streak >= Threshold` gives
`failures >= Threshold`, and `Consistent` the rest. `FailureReopens` and
`OpenIsQuiet` are action properties that follow, step by step, from the
invariant. `BreakerIsDriven` carries all four over to the cache
(`CacheStateMatches`, `CacheTrips`, `CacheReopens`, `CacheIsQuiet`).

`Snowflake_proofs`, from `SnowflakeAssumption`:

    IInv == TypeOK /\ GuardTracksIds /\ NewestInv

`IdsIncrease` compares the next id with `newest`, the code with its own
`last` and `sequence`; `GuardTracksIds` ties the timestamps, and `NewestInv`
ties the sequence numbers, with the one exception of a context that waits or
whose wait has failed. `IdsIncrease` is about neighbouring ids; `IdsNeverReturn`
draws the conclusion for the life of a context: an id it has passed it never
returns to, whatever the clock and the others do, as long as none of its waits
fails and no other task is copied over it. Both hypotheses are needed: a failed
wait lets the sequence fall back, and a copy takes over the ids of its parent.

`UserCreation_proofs`, from `CreationAssumption` (`NoOne` is no request, the
breaker's own assumption, at least one attempt):

    IInv == Types /\ \A r \in Requests : Located(r)
    PInv == Counts /\ BreakerTyped /\ Paid

`PromiseKept` is the refinement of `Registration`, without a mapping to invent:
`owner`, `doubt` and `answer` are the same variables. What has to be known is
where a request can be when it owns the account, and `Located` says it: nowhere
before its insert, at `created` always, anywhere else only with a lost
acknowledgement. With it, an answer "exists" cannot be about one's own account,
nor "failed" hide one. The steps are grouped by what they do to the account
(move, answer, store, raise, retry), one lemma each, and every action is one of
them. The breaker is not mentioned: it can only keep a request from trying.
`ReportsAreBounded` is not inductive as stated. `Paid` counts instead who has
paid for a failure: the requests in their second run, and those whose second run
is over; each reported failure puts a request into one of these sets, none ever
leaves, and both are part of the requests that have run. No finiteness of
`Requests` is assumed: that only finitely many have run is part of `Paid`.
With the breaker's `Consistent`, which the runs keep because they drive it as
specified (`BreakerIsDriven`), it follows that one that is not closed has cost
half as many requests as its threshold (`OneDoesNotOpen`). What the promise is
worth to the people who register is a theorem about `Registration` alone
(`PromiseIsTruthful`), and the refinement carries it to the code
(`AnswersAreTrue`).

The cache itself, in `RedisCache_proofs`, from the same assumption:

    IInv == TypeOK /\ Rest /\ Sole

`OnlyOverlapLosesClient` is not inductive: a task that connects can set the flag
when the client is gone. `Sole` says that, as long as no two tasks have
reconnected together, at most one reconnects and a task that connects has a
client; only that task can take it away, and it clears the flag. `Rest` (a task
in no call is admitted by nobody) is what `BreakerIsDriven` needs: each step of
the cache admits, reports or abandons one call of the breaker, or leaves it
alone. All steps are brought into one shape first (`Shapes`).
`WedgeNeedsClose` is the other side of the violation run: `Wedged` is kept by every
step but `close()`, because a task that enters finds the flag set and one that was
admitted finds no client. With `BusySpec`, where nobody calls `close()`, it gives
`WedgeIsForEver`.

`Access_proofs`, from `AccessAssumption`:

    IInv == TypeOK /\ ManagedInv /\ LoginInv

`ManagedInv` ties the cache to the history: an entry of a user covers the needs
of the use case, the users in `outside` have no entry and no request on its way
to store one, and whoever has passed the role check keeps having done so.
`LoginInv` says that whatever a slot or a login holds was submitted by some
request to that use case, and that a login nobody overtook finds its own input.

`Records_proofs`, from `RecordsAssumption`:

    IInv == TypeOK /\ Covers /\ Locked /\ Meant /\ Watched
                /\ EditsSurvive /\ VersionCounts

`Covers` says that an instance that misses no write holds all committed edits
and the version of the row, `Locked` that the instance of a thread in its
transaction misses no write and agrees with the row on being active, and that a
thread that may begin has an attempt left, `Meant` what a thread in the middle of a method has set on its instance,
and `Watched` that, without overlapping saves, the dictionary holds the row the
thread in the middle of a save is about to replace or has replaced.
For the refinement of `SharedRow` (`SavesAreAtomic`) `Covers` is not enough: an
instance that misses no write must not hold more than the row either, but for the
edit of its own thread (`Precise`). Then committing it adds that edit to the row
and takes nothing away, and the lock gives the same for the locked updates. The
consequence for the reader is proved of `SharedRow` and carried over
(`SharedRowKeepsEdits`, `TableKeepsEdits`).

`KeyRotation_proofs`, from `RotationAssumption`: without overlapping calls, what is
in the entry and in every save under way has its current key among its pairs,
and the predecessor of a manager's current key is one of the two newest of its
keys; without disturbance, the entry or the save under way is the manager's
state. `SigningKeyIsNewest` adds `Latest`: every current key is the last one made,
and so is that of the entry unless a task is still bringing it. `EntryCanSign` is
the part of the invariant that other processes rely on, and needs no quiet.

`RateLimiter_proofs`, from `LimiterAssumption`: whatever the entry or a
copy lists has passed (for the refusals), and without a race the entry lists
every request that began within the window and was let through (for the limit).
The refinement of `Quota` (`ImplementsQuota`) uses both halves at the step that
decides: a refusal counts requests that were told "yes" or "open" before, and
without a race the requests the code compares with the limit are those of
`InWindow`. `QuotaKeepsLimit` then needs nothing of the code.

`Donations_proofs`, from `DonationsAssumption`:

    IInv == TypeOK /\ Receipts /\ Sole /\ Settled /\ FundFollows
                /\ PaidIsCredited /\ Accounted

`TotalsAgree` speaks of donations at rest. `Accounted` extends it to payments under
way: whoever could still write a current instance of a donation has not credited
it, and a completed donation without a credit has a thread that is about to add
the credit or to take the status back. That this thread is the only one is `Sole`;
`FundFollows` says what the fund on an instance that misses no write contains, so
that saving it adds one credit and takes none away; `Settled` and `PaidIsCredited`
are the two halves of `PaidStays`. `CreditedOnce` holds in the middle of payments
and after saves of stale funds too, where `FundFollows` says nothing; its own
invariant `OnceInv` therefore speaks of every instance of the fund, stale or not:
none has a donation's credit before somebody who may still pay it is done, but for
the thread that is just adding it. `NothingIsInvented` has no exception and an
invariant apart: each balance, in the row or on an instance, and the payments not
added yet together are at most the payments begun (`Covered`).

Only model-checked: all liveness (`BreakerRecovers`, `CallsReturn`, `WaitEnds`,
`RequestsEnd`), which is beyond the installed provers.

## 5. Plan

Done: the modules of section 2, in this order: breaker and cache, ids, user
creation; then rate limiter, key rotation, records, access, donations, and the
proofs of the cache; then the abstract views `Quota` and `SharedRow`. Each safety
property and each refinement of a passing run is a theorem.

What could follow, when the code gets there:

* *Tokens*, once the store of a refresh or reset token is awaited and something
  constructs the blacklist: an abstract store with refresh, revoke and reset.
* *Cached reads*, once a repository has a cache: fill and invalidate, with the keys
  the code really deletes.
* *The lock of an account*, once `UserRepository.update` writes.

Shorter steps in the present models: the stored values of `RedisCache` with the
two commands of `flush_pattern`, and the meta values of `Records`.

## 6. Not modelled

* Commented-out areas: tracing, metrics, and the repositories, use cases and
  controllers of donations, prayers, sermons and events. Of their models only
  donations do more than hold fields; `Prayer.mark_answered` always raises
  (`prayer.py:96` calls `now()` of `datetime.timezone`).
* Token store, blacklist: nothing constructs `JWTAuthService` or
  `BlacklistService`; `sync_to_async(cache.set)(...)` is never awaited
  (`jwt_backend.py:139`, `:171`), so nothing is stored, and refresh, reset and
  logout call methods no class defines and always fail.
* Cache decorators and manager: `UserRepository` has no attribute `cache`, so the
  decorators pass every call on; with one, `_build_cache_key` would raise.
  `CacheManager` is used by a test only.
* `execute_with_retry`, `atomic_operation`, `with_timeout`, the error handlers and
  mappers: they are applied to nothing a request reaches, or map exceptions to
  exceptions.
* Schemas, validators, entities: stateless; a failing check is a
  nondeterministic refusal in the models.
* Controllers and views only adapt. (Asynchronous views under the synchronous
  `api_view` hand a coroutine where a response is wanted; the models begin at
  the use cases.)

Redis, MySQL, asgiref, asyncio and gunicorn are external and modelled from how
this code uses them. `PROJECT.json` gives the status of every component.
