# A TLA+ model of synapse-guardian

`synapse-guardian` is a Synapse spam-checker module that keeps strangers away
from protected (typically children's) accounts, and a maubot plugin to manage
its rules from a Matrix room. This directory holds TLA+ modules translated from
that source, TLC configurations that check them on small instances, and theorems
that TLAPS checks for every value of the constants. Paths below are relative to
the repository.

- [1. Inventory](#1-inventory)
- [2. Modules and the code they stand for](#2-modules-and-the-code-they-stand-for)
- [3. Runs](#3-runs)
- [4. Fairness](#4-fairness)
- [5. What the code does and its documents deny](#5-what-the-code-does-and-its-documents-deny)
- [6. Theorems](#6-theorems)
- [7. What is only model-checked, what is not modelled](#7-what-is-only-model-checked-what-is-not-modelled)
- [8. Plan](#8-plan)

To check a run: `tlc -config StoreRaces.cfg MCPolicyStore` (the configuration of
`RuleEdits` is `MCRuleEdits.cfg`; the others are named after their runs). To check the proofs
of a module: `tlapm PolicyStoreProofs.tla`.

## 1. Inventory

### The parts and how they talk

```
  control room (state events guardian.*)  <----- people by hand
     ^      |        ^       |      ^
     |      |        |       |      +---- maubot plugin: protect, allow, block, ...
     |      |        |       |
     |      |        |  (4) effective_rules written by RoomPublisher (main process)
     |      |  (2) get_room_state + is_user_admin
     |      v
     |   PolicyStore --(3) on_refresh--> RoomPublisher
     |      ^  ^
     |      |  +--(1) get_rules() from every callback
     |   GuardianModule: spam-checker and third-party-rules callbacks
     |      |  |
     |      |  +--> background: reject a stale invite (leave the room)
     |      +--(5) on_new_event -> invalidate()
     +-- notices of blocked actions, through the throttled notifier, to the
         room directly or to the bot's HTTP endpoint
```

Everything in one Synapse process runs on one asyncio/Twisted thread: a step is
atomic between two awaits, and *every* await is a place where another callback,
an edit of the room, an invalidation or the clock can come in. There are no
locks. A deployment with workers runs the whole of this once per process, except
the publisher, which only the main process has; the bot is one process of its own.
The clean-up script runs beside all of this, over the client and admin API.

| Component | State it keeps | Operations | What makes it correct |
|---|---|---|---|
| Rule logic (`policy.py`) | none (frozen values) | `build`, `merge`, `is_protected`, `evaluate`, `to_payload`, `from_payload`, power levels | the more specific rule wins and a block beats an allow of the same level; merging never weakens the static part; only a granting edit lets anybody in; the published payload is rebuilt exactly |
| Policy store (`store.py`) | `_rules`, `_loaded_at`, `_stale`, `_warned_admins`, `_announced`/warned flags | `get_rules`, `refresh`, `invalidate`, `_check_admins` | static baseline always served; room rules only from authorised local senders; an error never unprotects; bounded staleness; never a blend of two versions of the room; an edit is enforced in the end; every protected server admin is reported, and again only for an outdated look-up |
| Callbacks (`module.py`) | none besides the store's, and background jobs | eight spam-checker callbacks, `check_event_allowed`, `_inviter`, `_known_room_reason`, `_fail_closed_if_protected`, `_reject_invite`, `_warm_up`, `on_new_event` | what the configuration refuses is always refused, and in dry-run mode nothing that need not be; nobody unprotected is ever refused; every pass has good grounds although state is read before an await and used after it; an await that fails refuses nobody but protected users, and lets in nobody the configuration refuses |
| Publisher (`publish.py`) | `_last`, `_primed` | `publish`, `_published` | the room shows the rules in force; only changes are written; start-up without traffic still publishes |
| Notifier (`notify.py`) | `_recent`, window start, count, suppressed | `_should_send`, and a transport per kind | no repeat within the window; bounded flood and memory; nothing dropped without cause |
| Bot commands (`bot/guardian_bot/__init__.py`) | none (reads the room each time) | `protect`, `unprotect`, `allow`, `block`, `remove`, `unblock`; `list`, `check` | writes only with the sender's own right; a removal it reports leaves nothing behind |
| Bot notice endpoint | window, count | `notify` (HTTP POST) | only valid requests forwarded; bounded flood in the room, whoever posts; never quiet without cause |
| Room power levels (`policy.py`, used by store and bot) | none | `user_power_level`, `event_power_level`, `supports_creator_power` | the module and the bot judge a sender as the homeserver does |
| Configuration (`config.py`) | frozen dataclass | `GuardianConfig.parse` | refuses what the other parts could not run with |
| Clean-up script (`scripts/`) | position in its lists, a token, failures | one pass over pending invites, user by user | exit status tells whether anything is left; tokens are revoked; it ends |

### What is hard to test here

1. **Interleaved refreshes.** `get_rules()` has no lock: every callback that finds
   the cache expired refreshes on its own, and each assigns `_rules`,
   `_loaded_at`, `_stale` when its own awaits are over, in any order
   (`store.py:86-112`).
2. **Invalidation during a read.** `_stale` is cleared after the await.
3. **Authority judged across awaits.** Power levels and entries come from one
   read, admin status from one later look-up per sender (`store.py:137-180`); the
   answer about a protected user may be outdated when it is used (`store.py:188-197`).
4. **Failure at any await**, before anything is loaded or while another task's
   rules are in force; restart with an unreadable room.
5. **Check, await, use** in joins: rules, then the inviter or the members, then
   a decision (`module.py:315-330, 409-430`).
6. **A background job** that acts on a membership that may have changed
   (`module.py:387`).
7. **Two sends acknowledged in the other order**, a first read of the room that is
   used after another call has sent, or a send that raises after it was persisted
   (`publish.py:62-100`).
8. **Windows, caps and a monotonic clock** that starts anywhere, and a window of
   length zero (`notify.py:83-101`).
9. **Check, then write** in the bot, one request per state key, with people
   editing the same room by hand (`__init__.py:383-440`).
10. **A request given up and carried out all the same**: the webhook's timeout
    (`notify.py:215`), a leave answered with an error (`scripts:136`).
11. **Two throttles in a row** with different owners, windows and restarts
    (`notify.py:83`, `__init__.py:286`).
12. **Characters and numbers at their edges**: runs of wildcards, catch-alls that
    hide, creators above every level (`policy.py:49, 119, 217`).

`PROJECT.json` lists these one by one with the line where each bites and the
properties that would show it going wrong.

## 2. Modules and the code they stand for

| Module | Stands for | Uses |
|---|---|---|
| `Policy` | rule logic: `Build`, `Merge`, `IsProtected`, `Evaluate`/`Allowed`, `ToPayload`, `FromPayload` | |
| `RuleEdits` | one control room edited entry by entry over static rules, no cache; the bot's list | `Policy` |
| `Glob` | the characters: `glob_to_regex`, `is_catch_all`, `is_user_id`, `validate_pattern` | |
| `GlobRules` | `RuleEdits` over names that are spelled | `RuleEdits`, `Glob` |
| `RuleCache` | abstract specification: what the store promises the callbacks | `Policy` |
| `PolicyStore` | the store in one process with the room, the clock and Synapse's dispatch around it | `Policy`; refines `RuleCache` |
| `Guardian` | all callbacks of one process, composed with the abstract cache | extends `RuleCache` |
| `Publisher` | `RoomPublisher`, its hook after a refresh, `_warm_up` | |
| `Notifier` | `_ThrottledNotifier._should_send` | |
| `Config` | `GuardianConfig.parse` for what concerns notices, and what `Guardian.__init__` builds of it | |
| `NoticePath` | the way of a notice: configuration, throttle, transport, the bot's endpoint and its window | extends `Notifier`, `Config` |
| `PowerLevels` | who may send what: module, bot, homeserver | |
| `Bot` | the bot's mutating commands | `Policy`, `PowerLevels` |
| `RejectScript` | `scripts/reject_pending_invites.py` | |
| `PolicyLemmas`, `RuleEditsProofs`, `PolicyStoreProofs`, `GuardianProofs`, `PublisherProofs`, `NoticeProofs`, `BotProofs`, `RejectScriptProofs` | theorems | |
| `MC*` | instances for TLC | |

Each module also holds the definitions that change it the way a bug would
(`BlamingLookUp`, `BlindList`, `StopEarly`, ...). They stand directly before the
definition they vary, no specification uses them, and each breaks the property
that is there to notice it.

**Policy.** Names (user IDs, server names, globs) are elements of `Names`. What
depends on their characters is given by constants with the assumptions the code
justifies (`PolicyAssumption`): `Lower` (`str.lower`, idempotent and keeping
validity), `Valid[k]` (what `validate_pattern` accepts for a kind), `WellFormed`
(what has the shape of a user ID), `ServerOf` and `Matches` (which compiled
pattern matches which name, without regard to case). A rule set is a function
from the five kinds to sets of patterns; `Stored` is what `RuleSet.build` keeps of an
entry. The order in which
`evaluate` asks is the code's: block user, allow user, block server, allow
server, default deny.

**Glob** and **GlobRules.** A word is a sequence of one-character strings.
`Compiled` does what `glob_to_regex` does, token by token: a literal, or a run of
wildcards with the number of characters it takes at least and whether it may take
more. A word is matched piece by piece (`Ends`), the pieces being the tokens in
`RegexMatches`, which is the regex engine for such patterns, and the characters of
the glob in `Means`, which is what Matrix says of it. `Accepts` is `validate_pattern`. `GlobRules` requires that the
constants of `Policy` are what `Glob` computes for the spelled names
(`SpellingAssumption`), so that the rules of the `RuleEdits` run are compared,
validated and matched as the code does it on their characters.

**RuleEdits.** `Listed` is what `!guard list` shows: the room's entries, and those
patterns of the published static rules that are not among them.

**PolicyStore.** The room is a history of versions (`hist`), so that what a read
saw can be compared with what the room held then and holds now. A task is one
call of `get_rules()`; its `pc` is the await it is in:

| `pc` | in the code | leaves by |
|---|---|---|
| `idle` | not in a call | `ServeCached`, `StartRead`, `LoadStatic` |
| `reading` | `await get_room_state` | `ReadRoom`, `ReadFails` |
| `trusting` | `await is_user_admin` of a sender, one per step | `AskSender`, then `AdoptRead` assigns `_rules`, `_loaded_at`, `_stale` |
| `checking` | `_check_admins`, one look-up per protected user | `AnswerAdmin` (the answer of a moment, kept in `yes` or `no`), `UseAnswer` (what is done with it, later), `CheckAdminFails`, then `FinishRefresh` |
| `got` | the callback holds the rules (`view`) | `Return` |

`SendRule`, `SetLevels`, `LoseRoom` and `SetAdmin` are the homeserver and its
users; `Deliver` is `on_new_event` (dispatched late, in any order); `Tick` moves
the clock and honours `Latency`, the time the awaits of one call take at most;
`Restart` drops everything in memory. Ghost variables (`ver`, `fromRead`,
`dataAge`, `heard`, `reports`, `late`, `everAdmin`) record which version the
rules in force came from, how old it is and what was told, and per admin how often
they were reported and how many "no" answers from before were still unused when
they became one; no guard reads one.

**Guardian.** A task is one callback: it waits for the rules, decides at once,
or goes on to look up the inviter or the members. `Refused` is the code's
decision table for every callback; `Raise` is an exception at any await followed
by the error path, except in the look-up of the inviter, where it lets the join
pass (`unchecked`, an early return of `_invited_join_verdict`); `Finish` hands Synapse the verdict and Synapse acts on it.
`dry` is `dry_run`, read at the start of the process: `Verdict` lets through what
it names, `FailClosed` does not know it.
The store is represented by `RuleCache`, which `PolicyStore` is proved to
implement: what is shown over the abstract cache is not weakened by interleaved
refreshes.

**Publisher.** `Load` puts rules in force and starts the hook, `WarmUp` is the
delayed start-up call; both go through `Publish`, `ReadShown`, `Prime`,
`Persist`, `Ack`, with a failure before the event is persisted or after it. The ghost `doubt`
remembers publishes that overlapped another, and a send that raised after it was
persisted, until an acknowledged send settles what the room shows.

**Notifier.** `Notify` is one call of `_should_send`: prune, repeated or not,
window, cap, evict, record. The ghost `log` is what was let through in the last
`notify_dedupe_s` seconds: time takes entries off its front (`Since`). With a window
of length zero nothing is ever recent, so that `FloodBounded` speaks of the others
only (section 5).

**NoticePath.** `Started` says what a configuration makes of a start: refused,
without notices, or with a transport and its secret; a failing assertion of
`Guardian.__init__` is a value of its own. `Block` is `_block` with the job it
starts; what the throttle lets through becomes a request in `mail`. From there
`PostAsUser` is the end with `notify_via: room`; with the bot, `TimeOut` makes the
process stop waiting, `Arrive` is the endpoint's handler, which has no await
between its checks and its count, and `Lose` loses the request. `Intrude` is a
request of anybody else: another worker, the warning about a protected server
admin, which goes by the throttle, or somebody with or without the secret.
`Restart` empties the process's tables but not the network. The ghost `posted` is
what the bot sent to the room in the last window.

**PowerLevels.** A room is what its power level event and its create event say.
`UserPower` and `EventPower` are shared by both programs; `BotHolds` and
`ModuleRefuses` are their uses of it; `RoomAllows` is the homeserver.

**Bot.** Each request to the homeserver is a step: `Ask`, `MayMutate` (power
levels read), `WriteEntry` or `List` and one `Clear` per state key, `Reply`;
`WriteByHand` and `SetLevels` come between. `allowed` and `touched` are ghosts.

**RejectScript.** Each request of the script is a step, which the server answers,
answers with an error after doing anything between nothing and all of it, or does
not answer; `request(..., fatal=False)` decides which of these end the script.
`pc` is the request that comes next, `invites` what is left of the answer of
`/sync`. `PeopleAct` goes on between any two steps. `owed` (invites that were read
and have been pending ever since) and `spoiled` (tokens whose revocation was
answered with an error) are ghosts.

## 3. Runs

Ten runs pass, with deadlock checking unless said otherwise:

| Run | Question | Instance and why it is enough |
|---|---|---|
| `RuleEdits` | do evaluation, merging, publishing and listing keep what is promised of them under edits, down to what a glob matches? | sixteen room entries over spelled names: four servers, one with a port, an account in two spellings, globs with one wildcard, runs of mixed wildcards, capitals, patterns that are refused (blank, too long, five runs, catch-alls hidden behind other characters); up to four at once beside the static ones, as many as there are rows in the rule table. Beside them, every pattern and word of up to five characters: long enough for two runs of wildcards with a literal between or around them |
| `StoreAuthority` | which entries come into force? | a local sender with power, one whose server admin status is switched on and off, a remote one; two kinds of entry with a state key that does and one that does not name the entity; three levels incl. unreadable; two changes of the room. One task: authority is judged inside one refresh, and a change between two of its awaits is in |
| `StoreRaces` | do overlapping refreshes lose protection or an invalidation, how old may served rules be, and is the store the abstract cache? | two tasks, an entry that protects a user and is removed or comes back, invalidations delivered late, an interval of two ticks and reads of up to one: the smallest overlap and the smallest values for which interval and latency differ. Each property is about one assignment against one other refresh |
| `StoreAdmins` | is a protected server admin reported, and never without need? | no control room, so that checks are the only work; two refreshes of up to one tick, so that either's answer can be outdated when it is used, one protected user who becomes and stops being an admin any number of times, failing look-ups, restarts |
| `StoreLive` | does every call return, is every edit enforced? | two tasks, one edit, watched room |
| `Guardian` | is every verdict right? | two protected users (one statically, one by the room), a stranger only the room allows, one the configuration blocks and the room allows; joins invited and not, invites out and in, a state event that opens a room, a call that is none of the module's business; an invite and a membership from before the module was installed, one coming or going, failing awaits, restarts, rules that load, dry-run mode on or off at each start, two calls at once |
| `Publish` | does the room follow the rules, is it written only when they change, and does a silent start publish? | two tasks, three loads of two rule sets, three start-up attempts, three failing sends, reads that fail, one restart: both tasks can overlap, fail, and be cut off by the restart in one behaviour |
| `Notices` | does every configuration start or get refused, do dedupe and cap hold together, is the room's flood bounded, is a notice dropped only for cause? | all 32256 combinations of what eight keys may hold, with files that are gone or empty; five keys against caps of 2 and a table of 4 = twice the cap, the relation the code's 512 and 20 more than satisfy; windows of 2, requests that are given up after one tick and arrive up to then or one later; the clock starts inside the first window or after it and runs until two more have begun; one restart, into any configuration; a bot whose secret or room may be missing |
| `BotCommands` | does the bot write only with its sender's right, does it agree with the module and the homeserver on that right, and does a removal remove? | two commands at once, two spellings of one account, an invalid entity and one a sender may not name; two changes by hand; rooms of version 11 and 12, with and without power levels, where users, default, event and state levels are given or missing and decide against each other |
| `RejectScript` | does the script end, is its exit status true, are its tokens revoked? | two users, or one user named twice; two rooms with every combination of memberships; with and without `--dry-run`; people act without bound |

Two end in a counterexample (section 5): `StoreMissing` and `PublishOverlap`.

Bounds (`Max...` constants) stop counters only: versions of the room, comings
and goings, loads, failures, restarts of the publisher and of the notifying
process, a request's travel, the clock. They are
guards of the actions they bound, and each is named in the module that declares
it. Ages are counted up to `Horizon`, past which no comparison of the code
changes its answer.

`CHECK_DEADLOCK FALSE` stands in the `Publish*` configurations only: a publisher
whose loads and restarts are used up, and whose room shows the rules, has
nothing left to do. That is the system at rest. (`RejectScript` does not deadlock:
people go on when the script has ended. Nor do `Notices`, where the endpoint goes
on answering when the clock has run out.)

Symmetry is used for interchangeable tasks or notice keys, in runs without liveness
properties.

`UpToDate` and `WritesOnlyChanges` make exceptions the code forces, and they are
part of the formulas. If the read of the published event fails, the publisher
takes it for absent and rewrites an identical event once (`publish.py:62-77`):
`last = Nothing` at the write. While `doubt` is not empty the process may believe
something else than the room shows: two publishes overlapped (`PublishOverlap`
shows where that leads), or a send raised after it was persisted and the rules
then returned to what was there before, so that `_last` agrees with the rules
and not with the room.

## 4. Fairness

- `PolicyStore!Fairness`: weak fairness of every task's awaits (`AwaitStep`: an
  await ends, as Synapse's requests time out or answer, and the reactor runs what is
  ready), of the dispatch of some outstanding `on_new_event`, and of the clock.
  Nothing makes Synapse call a callback (`CallStep` is not fair), and room edits,
  admin changes, restarts and failures need never happen. `EditsEnforced` assumes
  that failures and restarts stop in the end (`Calm`). `AdminReported` assumes that
  failing look-ups do (`LookUpsAnswered`) and that callbacks go on coming
  (`CallbacksCome`): a server nobody uses reports nobody. It asks that an admin who
  stays one is in `_warned_admins` from some moment on, which a restart or a "no"
  empties, so that a report from before either does not do.
- `Publisher!Fairness`: a task's step and a scheduled start-up call run; the
  first load happens when nothing is loaded, because the start-up call itself
  calls `get_rules()` and `get_rules()` returns (`CallsReturn`).
  Whether a send succeeds is not fair; the bound on failures leaves one.
- `RejectScript!Spec`: weak fairness of the script as a whole. `urlopen` is called
  with `timeout=60`, so that each request is answered or raises, and between
  requests the script only computes. Which of the answers it gets is not fair, and
  people are not asked to stop: `Terminates` holds although they invite for ever.

`NoticePath` states no liveness: a notice may be lost, and nobody retries.

The two runs that end in a counterexample check safety properties: none of
them depends on something never happening.

## 5. What the code does and its documents deny

Each of these was met while translating the code. Two are shown by a run that
ends in a counterexample:

| Run | Steps | The statement it contradicts |
|---|---|---|
| `StoreMissing` | the server leaves the control room; `get_room_state` answers `{}` without raising; `refresh` takes that for a room without entries | DESIGN.md:128-130, "a missing room can never *unprotect*"; README.md:298 |
| `PublishOverlap` | either of two courses of the same length, whichever TLC meets first. *Acknowledged out of order*: two calls send; the newer rules are persisted, then the older ones; the older ones' send is acknowledged, then the newer ones', and `_last` is what was acknowledged last (`publish.py:99`). *Primed late*: two calls find the publisher unprimed; one reads, primes, sends the older rules and is acknowledged; the other, which had read the newer rules before these were persisted, now sets `_last` to what it read (`publish.py:64`), finds its rules published and sends nothing. Each way the room shows the older rules, `_last` equals the newer ones in force, and nobody publishes them again (`publish.py:66`) | publish.py:30; docs/workers.md:136-139 |

The others are told here, since the model's properties are stated with the code's
behaviour and not against it:

- A refresh reads the room; the room is edited; `on_new_event` marks the cache
  stale; the refresh assigns the older rules and clears the mark
  (`store.py:107-109`). The edit waits for the interval, while DESIGN.md:113-115
  says the next check re-reads. `InvalidationHonoured` states which invalidations
  are honoured, and `EditsEnforced` that a lost one delays an edit and loses
  nothing.
- A join over a stale invite is refused; before the background job runs, the
  invite is replaced or the user joins through another path; the job leaves the
  room whatever the membership is (`module.py:387`). docs/workers.md:42 says
  "there is nothing to race". `RejectInvite` models it.
- The first refresh's hook and the start-up call both find the publisher unprimed
  and both write the same event, against publish.py:9-11: the overlap that
  `WritesOnlyChanges` excepts.
- With `notify_dedupe_s: 0`, which the configuration accepts, every notice starts
  a window of its own and the cap is never reached, against notify.py:31-32.
- In dry-run mode an await that raises ends in `_fail_closed_if_protected`, which
  answers FORBIDDEN without looking at `dry_run` (`module.py:521-530`); README.md:86
  says "never block". `DryRunOnlyWatches` states that nothing else blocks then.
- docs/workers.md:136-139 bounds the disagreement of a worker and the published
  rules by `refresh_interval_s`. It is not bounded when the main process serves no
  callbacks (it loads rules on a callback only, and at the start), nor after
  overlapping publishes.
- The script's docstring speaks of a "short-lived access token", and the code of
  revoking it (`scripts:147`). If a sync raises, or a leave is not answered at all,
  the script ends with the token valid; if the logout is answered with an error,
  nobody hears of it. `TokensRevoked` states what remains.
- "Trust the state, not the status code" (`scripts:133-136`): the second sync may
  find a *new* invite to the same room and count it as a failure. `CleanExit` is
  the direction that holds. And since what was read once is worked off, a user who
  has accepted an invite since the sync is made to leave the room he joined.
- Catch-alls, "anything that matches every user or server", are refused
  (README.md:36-37). What is tested are two probes whose last label has one letter
  (`policy.py:119-122`): `*?*.??*` is accepted although every server name with a last
  label of two letters or more matches it, and `?.?` is refused although it matches
  hardly any. No property claims what the documents do.
- `_check_admins` reports a protected admin "once" only while its look-ups are not
  outdated. A refresh is told that a user is no admin; the user is made one; another
  refresh reports them; the first then uses its answer, takes them out of
  `_warned_admins` (`store.py:193`), and the next refresh reports them again.
  `NoNeedlessReport` allows one report more for each such answer, and no other.
- A sender who is demoted between the bot's check and its write has the bot write
  for him (bot/guardian_bot/\_\_init\_\_.py:3-4). `ChangesWithRight` is what is
  left of the promise: the right existed at some moment since the command.
- DESIGN.md:125 says a refresh never blocks longer than one `get_room_state`; a
  refresh also awaits one admin look-up per sender and per protected user, as the
  states `trusting` and `checking` show. `FreshEnough` is stated with that latency.

## 6. Theorems

Assumptions: `PolicyAssumption`, `EditsAssumption`, `StoreAssumption`,
`GuardianAssumption`, `PublisherAssumption`, `NotifierAssumption`, `PathAssumption`,
`BotAssumption`, `PowerAssumption`, `ScriptAssumption`, `CharsAssumption`,
`SpellingAssumption`. They give the constants their types, say
that the static rules are a rule set, that special values differ from ordinary
ones, and of the characters that lowering is idempotent, keeps what is
valid valid and makes a character of a character, where names are spelled also
that the constants of `Policy` are what `Glob` computes for them; of power levels that none the homeserver takes reaches
`POWER_INFINITE`; and of the notifier that its memory holds two windows' worth of
notices (the code's 512 and 20), without which it would forget keys that have not
expired. TLC evaluates them in every run.

| Theorem | States | Argument |
|---|---|---|
| `PolicyLemmas!RoundTrip` | the bot rebuilds exactly what the module published | `Build` yields canonical rule sets (valid, folded where the code folds), merging keeps that, and `FromPayload` is the identity on them |
| `RuleEditsProofs!EditsTyped`, `BaselineStands`, `BotSeesWhatIsInForce`, `GrantsOpen`, `TableOrderStands` | the static baseline, what the bot rebuilds and lists, monotonicity, and the order of the rule table (`HigherRuleDecides`: an edit moves nobody for whom a rule further up decides), for every universe of names and any number of edits | from lemmas on `Build`, `Merge` and `Allowed`; `entries` is the only variable, so its type is the invariant. For the table, an edit of one entry changes `Effective` in one kind and by one pattern (`OneEdit`), and the verdict is that of the first kind that hits (`VerdictByKind`) |
| `RuleEditsProofs!GlobMeaning`, `PatternsMeanWhatTheySay` | `glob_to_regex` changes the meaning of no pattern: counted repetitions match a word if and only if the wildcards do, for every pattern and every word | induction over the pattern's length. What holds of its first *n* characters: the positions of the word that the tokens compiled so far reach are those the characters reach. A literal, a wildcard that begins a run and one that widens it each keep that (`TokeniseReads`); the last because a run of one wildcard more matches what the run and then the wildcard match (`RunStretch`) |
| `PolicyStoreProofs!TypeCorrect` | types, and for each await what the task holds there | inductive as it stands, one step per action |
| `BaselineAlwaysServed` | every callback is given rules with the static baseline | `BaselineInv`: the *cache* contains the static rules, and so does what a task holds. The property speaks of what is handed out, which a later `ServeCached` copies from the cache |
| `AnswersAreFresh` | an age bound for every interval, latency and number of tasks | `TimeInv`: rules are at most `Latency` older than `_loaded_at` says, and a task that is checking began before the last adoption, its own or another's. Without the second part, a task that waits for its own refresh could be handed arbitrarily old rules |
| `QuietInvalidationsHonoured` | no invalidation is lost unless a read was in flight | `HeardInv` adds that a read which is to be adopted began at or after the last such invalidation |
| `ReportsBounded` | a protected admin is reported once, and once more at most for each answer that was outdated when they became one, for any number of overlapping refreshes | `AlertInv`: an admin's reports and the outdated "no" answers still unused are together no more than such answers there were when they became one (`late`), and one more if they are in `_warned_admins`. Using such an answer takes one away and makes room for one report (`OneAnswerLess`); while they are an admin no new one arises |
| `RulesAreAuthorised`, `EmpoweredEntriesKept`, `OnlyReadsUnprotect` | whose entries are in force, that none of those is lost, and what takes protection away | `OriginInv`: the rules in force are the static ones, or what *one* version of the room gives with senders who have *all* been admins, `Loaded(hist[ver], A)` for some set `A` of them. It needs `KnownInv`, which says the same of the reads under way, so that the assignment at the end of a read keeps it. The rest is what `Loaded` does with the entries of a version: it takes none that is refused (`LoadedFromEntries`), and every one that is not (`LoadedKeepsEntries`) |
| `ImplementsCache` | the store implements `RuleCache` | refinement: `offered` is every rule set some version of the room gives with some of those who were ever admins, `cached` the rules in force, `answer` what tasks hold. `KnownInv` says that the senders a read trusts have been admins and that without a room there is nothing but the static rules. Every store step is a step of the cache or a stutter |
| `GuardianProofs!CallbacksTyped` | types, and for each await what the callback holds | one step per action |
| `ConfigGate` | what the configuration refuses, every callback refuses, whatever the room, the interleaving, a failure or a restart | `GateInv`: the cache contains the static rules, a task waiting for the inviter was invited, and one reading members does not run under `deny`. With static rules in force, the verdict and the error path both refuse |
| `RefusesOnlyForTheProtected`, `PassesOnGoodGrounds` | every verdict has its grounds in the time of its call, for any number of calls and any changes of rules and rooms between their awaits | `GroundsInv`: the rules a callback works with at a later await are among those seen since it was called, a callback that reads members was not invited, and the two properties themselves. What a call has seen only grows (`Watched`), so that grounds stay (`StaysGrounded`); a new verdict rests on the rules it was given, or on what the error path knows (`RunOnGrounded`, `FailClosedGrounded`) |
| `DryRunRefusesNothing` | in dry-run mode only an await that raises refuses | the type invariant and a look at every action: every verdict but that of the error path goes through `Verdict` |
| `PublisherProofs!PublisherTyped` | types, and one start-up call at most under way | inductive together |
| `RoomUpToDate`, `OnlyChangesWritten` | the room follows the rules and only changes are written, for any number of loads, failures and restarts | `BeliefInv`: a call that works beside another is in doubt; so one that is not has the room to itself, and what it read, compared and sent is what the room shows |
| `NoticeProofs!NoticesTyped`, `EveryConfigStarts` | types; no accepted configuration fails an assertion of the start | `StartedRight`, by cases on the transport and on where the secret comes from |
| `NotifierThrottles`, `NothingKeptBack` | no repeats, two windows' worth at most, and no state in which a notice would be dropped without cause, for any window, cap, number of keys and arrival of calls | `ThrottleInv`, in two halves. `Windowed`: a front of the log no longer than the cap is older than the window, the rest was counted in it, and exactly counted while the window lasts; a window that is over leaves no front (`WindowRenewed`), and time shortens the log from its front (`WindowAges`). `Remembered`: the memory holds each logged key with its time and no other key that has not expired; as many keys as log entries at most, so that it never evicts (`RoomForOne`) |
| `EndpointThrottles` | the same of the bot's window, whoever posts and however often Synapse restarts | the same lemmas, over `posted` |
| `BotProofs!CommandsTyped`, `BotHasRight`, `RemovalLeavesNothing` | the bot's promise, for any number of commands, people and keys | `RightInv`: a command past its check was allowed when it was checked. `LeftToClear`: unless somebody wrote meanwhile, every matching entry is among the keys still to clear |
| `AuthorityShared` | the bot and the module judge a sender as the homeserver does, for any levels, creators and versions | `OneAuthority`: by cases on whether the version gives creators power, on a missing power level event and on each missing level; `TypeOK` says that the room is one of these records |
| `RejectScriptProofs!ScriptTyped`, `TokensAreRevoked` | which tokens are valid, for any number of users and rooms | `TokenInv`: before a user's turn, and at the end, every valid token is spoiled |
| `ExitIsClean` | the exit status | `OwedInv`: while nothing failed and it is no dry run, what is owed are rooms this user's loop has yet to handle, each of them pending |

`TypeOK` in each module carries what a task may rely on at each await, so that it
is inductive together with the property it serves; it is also an invariant of a
run of that module.

## 7. What is only model-checked, what is not modelled

Only model-checked:

- liveness (`CallsReturn`, `EditsEnforced`, `AdminReported`, `StartUpPublishes`,
  `Terminates`): the proof system has no rules for fairness and `ENABLED` here.
  The other properties of the passing runs are all proved.

Inductions are over the natural numbers, as lemmas about the members of a set
(`NatSteps`), because the library's induction theorem takes an operator. Recursion
is written as recursive functions, that these exist is proved (`StepsUnfold`), and
no module has a recursive operator.

Not modelled, or only as far as said here:

- Characters: newlines, other whitespace than a blank, and the few letters outside
  ASCII whose lower case is longer than they are; `Glob` takes lowering letter by
  letter. Such a letter in a protected ID of 255 characters makes the rebuilt rule
  set drop it; the bot asks the rebuilt rules about others only, so nobody notices.
- Power levels: a level that is no number counts as missing, on both sides. Room
  versions are the numbered ones; of an unstable version the code says that it
  gives creators power, and whether the homeserver does is not modelled.
- What a request asks to open (`_open_room_reason`, `module.py:448-470`, and the kind
  of a state event): `opens` is its outcome, which is all the callbacks go on with.
- Configuration: keys that have nothing to do with others are valid or `Ill`;
  their ranges and the wording of errors are left out.
- `RoomNotifier` and `WebhookNotifier`: the set of errors already logged. The
  warning about a protected server admin does not pass the throttle; it is one of
  the requests `Intrude` stands for.
- The bot: `check` and the wording of replies, and `resolve_user_arg`, which finds
  a user ID in a message's links. It is text handling, but not harmless: an
  argument that is no user ID, such as a glob, is replaced by the only link of the
  message even if that link stands in the reason.
- Several processes. One process is modelled, besides the bot, to which others
  post (`Intrude`). With workers each has its own store and notifier, and only the
  main process publishes; nothing in the code relates them but the room and the
  interval, so what holds of each is what the other modules show.
- The script's arguments, `users_from_config` (which covers the configured users
  only, not those protected by the room) and its output.
- Logging, metrics and notices' texts.
- What Synapse does beyond calling the callbacks and acting on the answer:
  delivery of events, membership rules and retries are taken from how the code
  uses them.

## 8. Plan

Done: rule logic with its characters, store, callbacks, publisher, notice path,
bot, power levels, script; the runs above; of their properties, a theorem for each
that is no liveness property. What is left:

1. Theorems about what the liveness runs rest on and no property states: that a
   callback, a publish and a command each have a next step whenever they are at an
   await, as an invariant on their locations.
2. Of modelling, several processes: caches of their own over one room and one
   publisher, if the code comes to promise anything across them.
