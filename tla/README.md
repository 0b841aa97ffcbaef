# TLA+ models of aws-sso-cli

`aws-sso` is a command-line program. Every invocation is a process of its own
(here: an *execution*), so most of the state lives in files and services that
several executions share: the secure store, the role cache, `config.yaml`,
`~/.aws/config`, the ECS server, and the AWS session itself. There is little
locking and much whole-file rewriting, and a signal ends an execution at once.
These modules model those parts, TLC checks them on small instances, and TLAPS
proves for any instance every safety property that is checked: of the three
stores, the SSO session, the settings and the wizard, both logins, the role
listing, the caches, the roles' names, regions and credentials, the files with
managed blocks, the user's session, and the ECS server and its deployment.

Run `tlc -config X.cfg MCX.tla` for a model and `tlapm X.tla` for its proofs.

## 1. Inventory

| component | state | operations | interacts with |
|---|---|---|---|
| storage lock (`internal/storage/flock.go`) | holders of `storage.lock` | shared and exclusive lock, polled up to 30 s | JSON store, keyring store |
| JSON store (`json_store.go`) | the file, each execution's copy | open, `Save*`, `Delete*` (whole-file rewrite) | every command that needs a secret |
| keyring store (`keyring.go`) | one entry, or chunks on Windows; copies | the same | lock, system keyring |
| 1Password store (`onepassword.go`) | the item and its version; copies | list, get, create, put | 1Password service |
| SSO token life cycle (`sso/auth/awssso_auth.go`, `login_cmd.go`, `logout_cmd.go`) | token, client registration | validate, renew silently, register, log in, log out | store, AWS OIDC, PKCE or device code |
| PKCE login (`sso/oidc/pkce.go`) | loopback listener, two channels | bind, serve, handlers, deadline, shutdown, exchange | browser, OIDC |
| device-code login (`awssso_auth.go`, `sso/oidc/device_code.go`) | device code, poll interval | authorize, open the page, poll, slow down | OIDC, browser |
| role listing (`sso/auth/awssso.go`, `sso/cache/cache_refresh.go`) | `Roles`, `rolesLock`, two channels | list accounts, worker pool, re-login, merge | AWS SSO, cache |
| role credentials (`cmd/aws-sso/main.go`, `logout_cmd.go`) | store entry and cache expiry | get, fetch and save, flush | store, cache |
| role chaining (`awssso.go getRoleCredentials`) | visited roles, call stack | direct fetch, assume through `Via` | config, STS |
| role cache (`sso/cache/*.go`) | roles, expiry, history, stamps | open, refresh, history, expire, save | config, `~/.aws/config` |
| role data (`sso/roles/roles.go`, `cache_refresh.go`) | names, profiles and regions of the cached roles | decorate, check, restore, look up | settings, cache, shell |
| settings (`sso/settings.go`, `sso/config`) | `config.yaml`, its layers, the map of accounts | load, refresh the accounts, migrate, validate, save | all |
| setup wizard (`setup_wizard*.go`) | the settings it changes | prompt, validate, save | settings |
| console and URL actions (`console_cmd.go`, `uri/uri.go`) | an action and its command | open, copy, print, refuse, panic | settings, both logins |
| start-up (`main.go`, `login_cmd.go`) | where main is | load, log in, refresh, run the command | all |
| managed blocks (`fileutils/fileedit.go`, `helper/helper.go`) | `~/.aws/config`, startup scripts | install, update, remove a block | cache, user |
| ECS server (`ecs/server/*.go`) | default slot, named slots | upload, delete, list, serve | ECS clients, SDKs |
| ECS deployment (`ecs_docker_cmd.go`, `ecs_server_cmd.go`, `ecs/security.go`, `ecs/client`) | container, security file, server | docker start and stop, server start, load | Docker, store |
| shell environment (`exec_cmd.go`, `eval_cmd.go`) | `AWS_*` variables of nested shells | eval, refresh, clear, exec | user, settings |
| interactive selection (`interactive.go`, `sso/roles/role_tags.go`, `tags`) | the line at the prompt | complete, select | cache, exec |
| listing, predictor, prompts, helpers, mocks | none | | not modelled, see section 8 |

What is hard here, and where it is looked at:

* **Shared files without a lock around read and write.** An execution reads a
  file, works on its copy and writes the copy back: JSON store, cache, managed
  blocks, the two files that hold role credentials and their expiry.
* **Death anywhere.** `hardExitOnSignal` (`main.go:183-202`) calls `os.Exit`
  wherever main is; every model of persistent state has an exit action.
* **Goroutines.** The role-fetch pool, the PKCE listener's handlers and the ECS
  server's handlers share variables and channels.
* **Lost replies and partial failure.** 1Password calls, token exchanges,
  logout, store writes that are only logged when they fail.
* **Staleness.** Copies, versions, expiry in one file of credentials in
  another, a stamp of `config.yaml`, the ownership of region variables.
* **Order within one execution.** Deprecated settings are migrated after the
  SSO instances have been refreshed with them; a map is changed while it is
  ranged over; names are checked before the last roles are added; the wizard
  saves what was loaded, and another execution reads it back.

`PROJECT.json` lists the hazards at their lines, with the properties that catch
them, and why where there are none.

## 2. Modules

| module | models | built from |
|---|---|---|
| `StoreData`, `FileLock` | the stored maps and edits of them; `flock(2)` | |
| `SharedStore` | abstract: a document that a save replaces at once or not at all | `StoreData` |
| `JsonStore` | `json_store.go` with `flock.go`, byte-level states of the file | `StoreData`, `FileLock`, refines `SharedStore` |
| `KeyringStore` | `keyring.go` with its chunks | `StoreData`, `FileLock` |
| `OnePasswordStore` | `onepassword.go` against an item service | `StoreData` |
| `SecureStore` | the choice of `loadSecureStore` between the three | the three above |
| `SsoLogin` | `ValidAuthToken`, renewal, registration, login, logout | |
| `PkceLogin` | `reauthenticatePKCE` and `WaitForPKCECallback` | |
| `DeviceLogin` | `reauthenticateDeviceCode` and `PollDeviceCodeToken`, against a service that keeps time | |
| `Settings` | `LoadSettings`, `SSOConfig.Refresh`, `Save`, the wizard | |
| `RoleData` | what a refresh makes of grants and `config.yaml`, and what names and regions it yields | `Settings` |
| `Execution` | an execution from `main` to its command: settings or wizard, token, login, refresh, console | `RoleData`, `PkceLogin`, `DeviceLogin` |
| `RoleFetch` | `addSSORoles`, its workers, `GetRoles`, `reauthenticate` | |
| `RoleCreds` | `GetRoleCredentials` and `flushSts` over two files | |
| `RoleCache` | history, refresh, diff, metadata of one SSO instance | |
| `CacheExpiry` | when the cache is refreshed; several SSO instances | |
| `ConfigFile` | blocks between markers in the user's files | |
| `EcsServer` | the HTTP handlers and the two shared variables | |
| `EcsDeploy` | docker start/stop, security file, restarts, clients | |
| `TagSelect`, `RoleChain`, `ShellEnv` | the prompt; `Via` chains; the environment | |
| `ExecSession` | one session of a user: prompt, then chain, then nested shell | the three above |
| `SsoLoginProofs`, `RoleFetchProofs`, `CacheExpiryProofs` | theorems | their component |
| `CacheAndConfigProofs` | theorems of the role cache and of the user's files, by induction over lists | `RoleCache`, `ConfigFile` |
| `SecureStoreProofs` | theorems of each backend, on its own and as the one that was chosen | `SecureStore` |
| `ExecutionProofs` | theorems of both logins, on their own and in executions, and of settings, roles and executions | `Execution` |
| `ExecSessionProofs` | theorems of a session, and of the credentials of its roles | `ExecSession`, `RoleCreds` |
| `EcsProofs` | theorems of the server's handlers and of its deployment | `EcsServer`, `EcsDeploy` |
| `MC*` | instances for TLC: model values, symmetry | their component |

Correspondence to the code: `pc` (or `main`, `phase`) says which call of the
handler an execution is at; an action is the stretch of code between two points
where somebody else could see or change something (a read or write of a shared
file, variable, channel or service), with the early returns and error paths of
that stretch as its disjuncts. What runs after the call in the same function
(a trailing save, a delete) is part of the same action unless others can get in
between. Names are the source's where TLA+ allows; `map` in `PROJECT.json` gives
the lines. Secrets, ARNs and file contents are model values; time is a small
counter; a history variable (marked as such in its module) only records.

`Execution` composes by conjunction: an action of it is an action of one part
with the others unchanged, under main's `step`. Three things join the parts. The
settings say which workflow is taken (`Register`) and whether a page can be
opened (`CanOpen`, `Panics`), which a login on its own leaves open; the refresh
reads the settings and fills `cached`; and what a login leaves behind is nothing
(`LoginOver`), so that the next one starts from its initial state.

`SecureStore` picks a backend in its initial states because one setting picks it
for all executions. The backends share nothing, so each is a group of variables
that the others leave alone; two runs divide them (`Backends`), because liveness
is asked of the JSON store only. `ExecSession` lets its parts run one after another, as they
do in the process: `PromptExec` selects, the executor calls `execCmd`, that gets
the credentials through `getRoleCredentials` and starts the command.

## 3. Runs

All twelve runs pass. An invariant called `...Inv` is the conjunction of named
parts, most often the type invariant and the safety properties of the module;
each part is stated and commented on its own:

| invariant | parts |
|---|---|
| `JsonInv` | `JsonStore`'s `TypeOK`, `WriterExcludesAll`, `ReadersSeeCommitted` |
| `KeyringInv` | `KeyringStore`'s `TypeOK`, `ReadersJoinCommitted` |
| `PoolInv` | `TypeOK`, `NoSendAfterClose`, `LoginExcludesAll`, `CompleteWhenDone` |
| `TokenInv` | `TypeOK`, `RenewalPairMatches`, `DeadTokensForgotten` |
| `SlotsInv` | `TypeOK`, `SlotHoldsItsProfile` |
| `CredsInv` | `CredsTypeOK`, `FlushedNotUsedAgain` |
| `CacheInv` | `TypeOK`, `HistoryInOrder` |
| `FileInv` | `FileTypeOK`, `UserLinesKept`, `BlocksAsWritten`, `Idempotent`, `RemovalsAgree` |
| `DeployInv` | `DeployTypeOK`, `FileConsumed`, `ClientsAccepted` |
| `ExecutionInv` | `TypeOK`, `WizardNeverPanics` |
| `LoadedInv` | `Settings`' types, `AccountsKept`, `LoginPageAsConfigured` |
| `RolesInv` | `ProfilesUnambiguous`, `RegionsAgree`, while the cache is of the current `config.yaml` |
| `ListenerInv` | `PkceTypeOK`, `CodeIsOwn`, `EarlyRedirectServed`, `PortGivenBack` |
| `SessionInv` | the parts' types, `RoleChain`'s `AssumedByItsVia` |
| `SelectionInv` | `TagSelect`'s `NoDeadEnd`, `SelectionMatches` |
| `LoopsDetected` | `RoleChain`'s `PanicOnlyOnLoop`, `ChainEnds` |

The instances, all with deadlock checked:

| run | instance | states | shows |
|---|---|---|---|
| `json_store` (`MCSecureStore`, `JsonStore.cfg`) | JSON backend, 2 executions, 2 keys, 2 values | 102 k | a writer is alone under `storage.lock`; readers find the committed document or fail; a save replaces the document at once (`RefinesSharedStore`); calls return with the lock given back |
| `secure_store` (`SecureStore.cfg`) | the other two, 2 executions, 2 keys; 2 items, 3 versions / capacity 1, so a document needs up to 3 entries | 404 k | a put changes only its own keys, a copy with the current version agrees with the item, a stale copy stays stale; chunks join to the last saved document |
| `role_fetch` | 3 accounts, 2 workers, 2 pages, 2 tries, 1 expiry | 94 k | merged roles complete and unique, no send on a closed channel, a login excludes all, the refresh ends |
| `sso_login` | 3 tokens, 2 registrations | 15.6 M | no logged-out token stays stored, token and registration match |
| `role_creds` | 1 execution after another, 2 roles, 3 sets of credentials, 3 times | 5.2 M | what logout has reported as deleted is not used again, and the store does not hold it any more while it is valid |
| `role_cache` | 4 roles, history of 3 entries and 1 minute, 2 times | 4.9 M | history unique and in order, the diff is true, refresh keeps metadata |
| `cache_expiry` | 2 executions, 2 SSO instances, TTL 1, 4 times | 2.9 M | a changed `config.yaml` is noticed; other instances are left alone |
| `config_file` | 1 execution after another, 2 SSO instances, 2 user lines, 2 versions, all three kinds of file | 524 k | user lines kept, blocks there once as written, a second write changes nothing, two ways to remove agree |
| `ecs_server` | 2 handlers, 2 profiles, 2 uploads, 2 times | 781 k | nothing is served again after it was unloaded, slots are not mixed up, reports are of one upload |
| `ecs_deploy` | 2 executions, 1 token, 1 retry, 1 change of the store | 4.8 M | clients of the same store are accepted, the security file is consumed, failures clean up as far as Docker lets them, success means what was asked |
| `execution` | 554 situations (below), 3 requests of any kind, device codes good for 30 s, intervals of 0 and 10 s | 519 k | accounts come out the same in every order of the map, the login page is the configured one; what the wizard saves is loaded again and panics nowhere; a profile name stands for one role, list and shell agree on its region; polls keep the distance; only the own code is used, no early redirect is refused, the port is given back; every login ends |
| `exec_session` | 3 roles, 2 tag keys, 2 values of which one is a profile's name, lines of 4 words, 2 nested shells | 168 k | suggestions end at one role, the selection has the tags chosen, chains are assumed link by link, only loops are called loops, the recursion ends; the user's region survives, `--clear` forgets |

### Bounds, and why they are enough

* Two executions (but see `RoleCreds` and `ConfigFile`): every conflict in the code is between
  the holder of a copy and one other writer. A third only repeats one of the two
  roles.
* Two keys per store: the one that is edited and the one that must not be.
* `ConfigFile`: one execution after another. Two at a time, with two blocks and
  two lines of the user's, are too many states to go through; what holds however
  many overlap is left to the proof, which has any number of them.
* `RoleCreds`: one execution after another, because both its properties except
  executions that overlap; the proof has any number of them. Two roles are the
  least of which one is half saved, or passed over by a logout, while the other
  is not; three sets of credentials let one role be saved over what another
  execution left of it.
* Chunks: with capacity 1 a document shrinks and grows over entry boundaries.
* Three accounts: one is fetched by main, and each of two workers has one; a
  re-login by one worker while the other appends or waits is covered.
* History of three entries with four roles: the limit is reached, an entry can
  be old, recent or pushed out, and the least list in which deleteOldHistory
  passes over an item that is not the last has three. AWS grants two of the
  roles, the third has a Via, the fourth is unknown to the cache. `FetchRole` is
  the one role whose expiry changes: expiries do not depend on each other.
* `ExecSession`: two keys with two values are the least that can tell three
  roles apart in two choices, hence lines of four words; three roles are the
  least with a loop that the asked role is not part of. `MaxDepth` of the
  recursion is one more than the roles; a call deeper than that repeats a role,
  and in the model it ends the process as the goroutine's full stack does.
  The prompt opens from an untouched shell only; the environment has no
  influence on it.
* `Execution`: executions come one after another, as many as one likes; a
  *situation* fixes the first file, the hosts, commands and flags that are
  typed, whether a token is valid, and what AWS grants. Within a situation
  everything is explored. `Keys` has every subset of two account IDs and two
  more spellings of the first, with and without a nil entry, and a key that is
  no account ID: two spellings are the least of which neither is the ID. `Roles`
  has regions at every level, names and profiles that clash, and a Via in
  an account that is not granted. `Urls` has every pair of actions that
  `Validate` and `NewHandleUrl` tell apart, with the deprecated ones.
  `FirstWizards`, `Reconfigured` and `WizardLogins` have the wizard on an empty
  and on a given configuration, on local and remote hosts, and a later
  execution with what it saved. `DeviceLogins` and `PkceLogins` have each login
  with pages that open, cannot open, and panic. `Lifetime` lets the interval
  grow by `slow_down` more than once before the code expires, from an interval
  of the service or the built-in one. Three requests fill a channel of one
  place and leave a handler that must not wait.
* `MaxTime`, `MaxTokens`, `MaxClients`, `MaxVersion`, `MaxLoads`, `MaxIssued`,
  `MaxExpiries`, `MaxSetups`, `MaxShells`, `MaxWords` only end the exploration.

Symmetry is used in runs without liveness, over values that no definition tells
apart.

### Conditions

Some promises hold only while nothing the code does not guard against happens.
The condition is part of the property, through a history variable, so that the
same run has the excluded cases in it:

* `ConfigChangeSeen`: one instance in use (`used`) and `config.yaml` not edited
  while something runs (`midEdit`).
* `OthersKept`, `ClientsAccepted`, `FileConsumed`: executions do not overlap
  (`overlapped`); `ClientsAccepted` also is about a server that Docker has not
  restarted, and whose start it has not reported as failed.
* `FailureLeavesNothing`: Docker has not failed to stop or to remove the
  container, and has not started it while it reported that it could not
  (`refused`); the code discards the errors of the calls that clean up.
* `FlushedNotUsedAgain`, `FlushedIsGone`: executions do not overlap
  (`overlapped`), but may end anywhere and lose any write. Excepted are, by name,
  the credentials that a failed write of the store has left there (`undeleted`)
  and, for the second, those whose expiry has not reached the cache
  (`unrecorded`): the write of the cache failed, or the execution ended between
  the two writes.
* `DeadTokensForgotten`, `RenewalPairMatches`: no write or reply was lost
  (`spoilt`).
* `SavedIsLoaded`: `config.yaml` is what the wizard wrote last, and no `--sso`
  overrides it. What is zero in the settings is not in the file (`Save` leaves
  it out), and its default is loaded instead.
* `WizardNeverPanics`: `--url-action` does not ask for a command, the file that
  the wizard found did not have an action without its command, and no
  `AuthUrlAction` is pinned in it.
* `ProfilesUnambiguous`, `RegionsAgree`: the cache was made from the settings
  that are loaded (`Current`); roles with a Via are added after the check of
  names, and lose their account's region where the account is not granted.
* `HistoryInOrder`: deleteOldHistory has met no role that the cache does not
  know before the end of a list (`strangers`), and a role whose entry was
  dropped while it was old may keep its tag.
* `UserLinesKept`, `BlocksAsWritten`: no write was cut short (`lost`) and no two
  executions were at the file (`overlapped`).
* `ReadersJoinCommitted`: no save was cut short (`damaged`).
* `NoDeadEnd`, `SelectionMatches`: the user takes suggestions (`followed`). The
  roles differ in some tag, and no tag of a role has the profile name of another
  role as its value (`Tagged`): such a word selects that other role
  (`interactive.go:155-158`).

What the code does outside the conditions is in section 7.

## 4. Fairness

* `JsonStore` (`Fairness`, with the choice of the backend `FairStoreSpec`): weak
  fairness of each execution's next step and of
  its 30 s deadline. Processes are scheduled, and `FlockBlockerWithCtx` checks
  its context at every try; nothing is assumed about who wins the lock, so an
  execution may lose every try until the deadline. Starting an execution,
  editing and dying are not fair.
* `RoleFetch`: weak fairness of each goroutine's step. A mutex that is unlocked
  is taken by some waiter; calls to AWS return or fail. The ticker is not fair.
* `Execution`: weak fairness of `LoginStep`, the steps of a login as a whole:
  calls return or fail, timers fire, goroutines are scheduled, time passes.
  Nothing is assumed about which of them is next. Each can be taken so many
  times only, because a deadline passes once and a device code ages. Nobody
  needs to confirm a code, no request needs to arrive, and no command is typed.

Every other module is checked for safety only.

## 5. Proofs

TLAPS checks eight modules from nothing. All executions, keys, values, items,
requests, intervals, tokens, accounts, workers, roles, handlers and uploads are
arbitrary; the assumptions are those named in the component modules (the special
values are no snapshots, a token is not the word for none, the sets that must
not be empty are not, `Key` is finite where a document is cut into chunks, and
the like; of the files in `Settings`, that `Unmarshal` reads them; of the
situations in `Execution`, that their files, instances and flags are among those
there are). Each component has an inductive invariant of which Init and every
action keep every part; what is said below is why the checked property needs it.

What each module is proved in is a question of names only: `RoleCreds`,
`EcsDeploy` and `ConfigFile` share a module of proofs with another component, and
have names of their own (`CredsSpec`, `DeployInv`, `FileInv`).

**JsonStore.** `ReadersSeeCommitted` alone is not inductive: that a reader is
not mid-write needs the lock, and that the lock excludes needs to know which
`pc` holds it. The inductive invariant is

    JsonIInv == Json!TypeOK /\ JsonLockInv /\ JsonContentsInv /\ JsonUnloadedInv

`JsonLockInv` ties the lock's holders to the program counters and says that an
exclusive holder is the only one, `JsonContentsInv` that the file is the
committed document except while a writer is in between truncating and writing,
`JsonUnloadedInv` that an execution without a store has nothing in memory. From
it: `JsonCorrect`, and `JsonRefinement`, where every step is mapped to a step of
`SharedStore` or a stutter under `document <- published`; `JsonAsSpecified`:
`SecureStore` with this backend implements `JsonStore`. That a document in
memory is never taken for the mark of an execution without one needs `NoData` to
be no document (`StoreData`).

**KeyringStore.** That an undamaged keyring is read as the last saved document
has an algorithm in it: a document of n bytes is cut into chunks, written one
after another over those of an older document of another size, and whoever reads
goes on from entry to entry until it has the bytes that the first one announces.
`BytesOfDocument` says how much of a document its first chunks hold, with the
last one cut short, and `JoinOfSplit` that chunks of one document, whatever
follows them, are joined to it. `RingInv` adds who holds the lock (`RingLocked`), and what
a save that is under way has written (`RingWritten`): when it reaches the last
chunk, that is the whole document (`RingCommitted`). From it: `SplitIsJoined`, for
any capacity, document and number of executions. The sum over the entries is a
recursive function; what it adds up to is shown by induction over numbers. The
library's theorem for that takes an operator as a parameter, so `Induction` is
derived for sets of numbers instead, from the well-foundedness of `<`.

**OnePasswordStore.** `CurrentCopyAgrees` (a copy with the item's version
agrees with the item but for the keys edited since) is inductive together with
`TypeOK`, `ItemInv` (a store's item identifier is empty or names an item of the
vault) and `VersionInv` (no copy is ahead of its item). From it: `TypeCorrect`,
`VersionStandsForContents`, and the action properties `NoLostUpdate` and
`ConflictIsFinal`. `VaultAsSpecified`: `SecureStore` implements
`OnePasswordStore`, so all four hold there too.

**SsoLogin.** `TokenInv` speaks of the store between executions. Within one,
token and registration are out of step between a registration and the login with
it (`PairHeld` leaves that time out), and a token that was logged out is still
stored until it is deleted (`LiveHeld`). Both are about the execution's copy,
which is the stored one as long as no write was lost (`InSync`); `InOrder` and
`Placed` say which tokens and registrations have been issued at all and what
each call in progress has in hand. From it: `SessionCorrect`,
`StoredSessionLives`.

**RoleFetch.** That the merged roles are complete needs an account to be in
exactly one place: still a task, with a worker, among the results, or merged
(`Apart`, `Listed`); that main stops in time needs the number of results it has
taken to be the number of accounts merged (`Counted`), for which `Account` is
finite; that an account's roles are whole and once in the list needs to know
after how many pages each goroutine is (`ListedBy`), whose reset under a
re-login starts over; and that nobody sends on a closed channel needs no worker
to have work when main is done, which follows from the count. `LoginHoldsLock`
ties the login to `rolesLock`. From it: `FetchCorrect`, `NothingMissing`, for
any number of accounts, workers, pages, tries and expiries.

**DeviceLogin.** `PollsApart` speaks of the moment of a poll only. It becomes
inductive with what holds between two polls: client and service agree on the
interval after every `slow_down` (`IntervalAgreed`), and the service has waited
at least as long as the client has slept (`SleptSince`). From it:
`DeviceTypeCorrect` and `PollsKeepDistance`, for any lifetime and intervals.

**PkceLogin.** `ListenerInv` is about codes and about the socket. `CodesAreOwn`
follows a code from the handler that welcomes it through the channel to main;
`ListenerOfMain` says for each stage of main what state the socket is in. From
both, and the types: `ListenerCorrect`, for any number of requests.

**Execution.** The same two properties hold of executions. A login is embedded
in a larger state and may panic or be left, so its specification is not implied
as it stands; what is proved is that each step of an execution is a step of the
login, leaves it alone, or puts it back into its initial state. The two
inductive invariants are used as lemmas: `ExecutionsPollApart`,
`ExecutionsListen`. The rest of an execution's invariant is that of `Settings`,
where main may be (`Situated`, `Placed`), and that a missing command is never the
wizard's doing (`FaultsFound`).

**Settings.** `LoadedInv` and `SavedIsLoaded` speak of settings that are loaded,
and everything that makes them true happens before:

    SettingsInv == SettingsTypeOK /\ AccountsKept /\ Visiting /\ Loaded /\ Written

`Visiting` is the loop over a map that it changes. In the middle of it an account
is `Untouched`, under the key it was given, or has `Arrived` under its ID; of
several spellings the one that is the ID itself only stays while another is
still to come, and an account that is visited a second time is not changed any
more (`RefreshedTwice`). The IDs that the keys stand for are the same all along,
so that none is lost. `Loaded` says what each step of `LoadSettings` has made of
the file (`Read`), before and after the migration (`MigratedFrom`): the order of
the two is what keeps the login out of a container. `Written` says that the
wizard saves settings which are `Sound`, that is valid, migrated and complete,
with an instance to choose; such settings pass through `Saved`, the layers,
Refresh and the migration unchanged, but for the zeros (`ReadyIsSaved`). From it:
`SettingsLoaded`, `SavedIsRead`, and with `FaultIsRead` and `FaultIsSaved`, which
follow a missing command from a file through the wizard into another file,
`ExecutionsSafe`. Accounts, keys, instances, files and roles are arbitrary sets;
none needs to be finite, except that `Selected` asks whether a file has one
instance only.

**RoleData.** `CachedRefreshed` says that the cache is what a refresh made of some
grants, under the check of names. That is trivially kept; what is proved is that
it implies `RolesInv`: `Decorated` and `Restored` say of every role what
`addConfigRoles` and `RestoreManualRoles` leave of it, `NotManual` that a role
without a Via is one of those that were checked, `CheckedIsUnambiguous` and
`RefreshedAgree` the two parts. From it: `RolesAgree`.

**RoleCreds.** Neither property is inductive: a logout goes by the cache, so what
it deletes and what it leaves depend on whether the cache has the expiry of what
is in the store. `Agrees` says of an expiry and of credentials that the one is
that of the other, unless these are gone, noted as left or not recorded, or have
expired; and that no expiry vouches for what has been flushed, unless a failed
write left it in the store. While executions
take turns (`Alternating`) it holds of both files, of both copies, and of either
file with the copy of the other (`FilesAgree`, `CopiesAgree`), but for the one
role that is `Between` the two writes. Credentials on their way must be new
(`NewIsNotFlushed`), and a logout must have got rid of the roles it has looked
at (`LookedAt`). One lemma for each kind of step shows what it makes of the
agreement, `CacheAgrees` and `StoreAgrees` what a write does that may fail or be
cut short. From it: `CredsCorrect`, `FlushedStaysUnused` and
`FlushedLeavesStore`, for any number of executions, roles and credentials.

**RoleCache.** The invariant is `CacheInv`'s own, for both copies; what is hard
is that `AddHistory` and `Refresh` keep it. `deleteOldHistory` ranges over a
slice from which it deletes, so that items move under the loop. `Visited` is the
state of the loop after so many items, a recursive function: `MovedDownMoves` and
`RemoveFirstTakes` say what a deletion does to the array, and `LoopHolds`, by
induction over the length of the list, what the loop never does, whatever the
list holds. In a list in order with no stranger before its end, the fresh items
come first (`SortedByAge`); then the loop keeps just these and meets only old ones
behind them, in whatever order they have been moved to (`Keeps`, `KeepsHolds`), so
that what it passes over is dropped from the list as well (`OldDropped`). From it:
`HistoryIsInOrder`, for any roles, limit and minutes.
`RefreshLosesNothing` and `DiffAlwaysTrue` follow from what a
refresh makes of the two sets of roles (`RefreshGives`).

**ConfigFile.** Two things are proved about a file, and two about its rewriting.
`Shape` is what nothing takes from a file, however many executions overlap and
wherever a write is cut off: no line is there twice, and what there is of a block
is there from its prefix on, in one piece. `Holds` says that a block is there as
a whole, in a given version, or not at all. `GenerateNewFile` is a `Splice`: it
cuts out what there is of one block and puts another in its place or at the end
(`Generated`); a splice keeps the shape (`SpliceShape`), the other blocks
(`SpliceHolds`) and the order of the user's lines (`SpliceOrder`). `removeBlock`
goes over the file line by line. `Scanned`, where it is after so many lines, is a
recursive function, and by induction over the lines it leaves out just what lies
between prefix and suffix (`ScanLeavesOut`): the same splice (`RemovalsSame`).
The invariant follows an execution that asks before it writes:

    FileIInv == FileTypes /\ Texts /\ OneAtATime /\ FileStands /\ NewStands

`Texts` is the shape, of the file and of the contents in hand; `FileStands` says
that the file holds the blocks and the user's lines except while it is truncated,
`NewStands` that what an execution is about to write will, for which it must be
the only one (`OneAtATime`). With `GenerateTwice`, that writing a block again
changes nothing, it gives `UserFilesKept`, for any executions, SSO instances,
lines and versions.

**CacheExpiry.** `ConfigChangeSeen` is about the end of an execution.
`ConfigInv` says of the file and of each copy that an entry is as old as the
stamp (`BuiltFromStamp`), and of an execution that has not refreshed yet that it
knows `config.yaml` as it is; both while one instance is in use and no edit has
come in between. `AloneInv` says that an execution which is alone has every
other instance's entry as the file has it. From it: `ExpiryTypes`,
`LoginSeesConfig`, `OthersAreKept`, for any executions, instances, times to live
and interrupted saves.

**ExecSession.** One part runs at a time (`Select!Closed \/ Chain!Idle`), so a
step of a session is a step of one part, and each part has its own invariant.
`ShellInv` says of every nested shell whose region its variables hold: the
user's or, while `managed`, the one that `AWS_SSO_DEFAULT_REGION` repeats.
`ChainInv` follows `getRoleCredentials` down and up: every call is for the role
that the Via of the one before names (`StackFollowsVia`), the map remembers
those that have been left (`MapRemembers`), and a chain longer than there are
roles has one twice, which ends it for a reason (`EndsForAReason`). `TagInv`
says which lines suggestions can lead to (`Suggested`): pairs of a tag and a
value that some role carries, such pairs and a tag or a role at the end, or a
profile; and `completeTags` has a next word for each of them unless it selects
one role. From it: `OnePartAtATime`, `SuggestionsSelectOneRole`,
`LoopsAreDetected`, and the action properties `UserRegionIsKept` and
`ClearForgetsRegion`.

**EcsServer.** The properties speak of answers. The invariant adds what they
are made from: a slot is filed under the name in its upload (`FiledByName`),
what it holds is not gone (`HeldIsNotGone`), and an upload on its way has been
acknowledged to nobody (`PendingIsNew`), so that the acknowledgement of one
handler cannot declare gone what another is about to store. `Placed` says what
the place of a handler tells of its request. From it: `SlotsKeepApart`,
`GoneForGood`, `WholeReports`, with any number of handlers and with the crash
that concurrent use of the map may cause.

**EcsDeploy.** What a server uses is decided at four places: by the request, by
the file that the request writes, by what the container's server reads of it and
when it removes it, and by the store that may change meanwhile. `DeployedInv`
follows token and key pair from one to the next. `OwnContainer` says what a start
in progress has put into container and file, `PassedOn` what the container's
server makes of that, `Serving` that the server is the one in the container,
`Asked` and `LoadedAsAsked` what all of it has to do with the store; `OwnStopped`
says that a start which writes its file has a container that Docker has not
started yet, and that one which cleans up has a container that can be removed
without force, unless Docker has refused something. From it: `DeploymentCorrect`,
and the action properties `FailureCleansUp` and `SuccessMeansServed`, for any
number of executions, tokens, changes of the store and restarts by Docker.

## 6. Only model-checked

All liveness (`CallsReturn`, `RefreshEnds`, `LoginEnds`): fairness and `ENABLED`
are out of the prover's reach. Every invariant and every action property of the
runs is proved.

## 7. Known deviations of the code from its docs, comments and tests

Met while modelling. They are not asserted by any run; the models behave as the
code does.

* `internal/storage/json_store.go:111`: save writes the document this execution
  read when it opened the store, edited, under a lock taken anew: what another
  execution saved in between is lost. CHANGELOG.md:169 says "Lock SecureStore
  across multiple `aws-sso` executions #1084" and CHANGELOG.md:61 "Add lock
  support for JSON SecureStore"; the lock covers neither the time between read
  and write nor the edit.
* `internal/storage/onepassword.go:173`: saveStorageData creates an item
  whenever it has not seen one, so two first executions, or one whose reply was
  lost, leave two. docs/config.md:709 says "All credentials are stored as a
  single Secure Note item in a 1Password vault."
* `internal/storage/keyring.go:230`: Any error of the read, the 30 s lock
  deadline included, becomes an empty store, which the next save writes over
  the stored one. The comment at keyring.go:231 says "Didn't find anything in
  our keyring".
* `internal/sso/auth/awssso.go:240`: ListAccountRoles assigns the result of
  reauthenticate to the err of its loop condition: after a successful re-login
  the loop ends with the rejected call's nil output, which GetRoles
  dereferences. The comment at awssso.go:234 says "sometimes our AccessToken is
  invalid so try a new one once?"
* `internal/sso/auth/awssso_auth.go:57`: ValidAuthToken deletes the old
  registration and returns false, but it is called twice in a run (checkAuth,
  then doAuth): the second call finds no registration, skips the check and
  accepts the stored token. The comment at awssso_auth.go:54-56 says "Old
  registrations (or those written before GrantTypes was persisted) won't have
  "refresh_token" and must re-register to get a refresh-capable token."
* `internal/ecs/server/default.go:53`: After DELETE / the default slot's Creds
  is nil and GET / dereferences it, which aborts the connection.
  default_test.go:50 asserts http.StatusNotFound for GET / with nothing loaded.
* `internal/ecs/server/slotted.go:80`: DELETE /slot looks up the profile "" and
  answers that it is unavailable. docs/ecs-api.md:156-158 says "DELETE /slot
  ... Delete all named credentials."
* `internal/ecs/server/server.go:127`: Handlers run concurrently and the map of
  named slots has no lock: concurrent map access is fatal for the process.
  docs/ecs-server.md:242-243 says "There may be cases where you would like to
  make multiple roles available at the same time without running multiple
  copies of the ECS server".
* `cmd/aws-sso/logout_cmd.go:51`: flushSts deletes the credentials of the roles
  that the cache does not call expired; GetRoleCredentials saves the
  credentials before it marks the role in the cache, so an interruption in
  between, or a cache that is not written, leaves credentials that logout passes
  over. A store that does not delete them is logged (logout_cmd.go:53), and logout
  reports success by the cache alone (line 57). docs/commands.md:302-303
  says logout "removes all IAM Role Credentials cached in the `aws-sso` secure
  store."
* `internal/sso/cache/cache_refresh.go:126`: CalculateDiff deletes the roles
  with a Via from the old set and not from the new one, so such a role that AWS
  grants is "added" at every refresh. The comment at cache_refresh.go:34-35
  says "Returns the ARNs of roles added/deleted".
* `internal/sso/cache/cache_history.go:92`: deleteOldHistory ranges over
  cache.History while deleteHistoryItem shifts the same array, so the item
  behind a deleted one is passed over and the last one is seen twice. After an
  item that is deleted for want of a role or a tag the last one is kept twice;
  of several that expire together one is passed over, and where it has been cut
  off the list with the others it keeps its tag. The comment at
  cache_history.go:79 says it "removes any items from history which are older
  than HistoryMinutes", and docs/config.md:606 "last 10 unique roles".
* `internal/sso/cache/cache.go:166`: ConfigCreatedAt is one field for all SSO
  instances: the refresh of one marks the changed config.yaml as seen for the
  others. The comment at cache.go:148-149 says "we check the
  lastModificationTime of that file vs. the ConfigCreatedAt to determine if the
  cache needs to be updated".
* `internal/sso/cache/cache_refresh.go:72`: Refresh stamps the cache with the
  time of the file at the end of the refresh, not of the one that was loaded:
  an edit during the refresh is never noticed. The comment at cache.go:148-149
  says "we check the lastModificationTime of that file vs. the ConfigCreatedAt
  to determine if the cache needs to be updated".
* `internal/sso/cache/cache.go:178`: Save sets Version to CACHE_VERSION
  whatever it saves, so a save that only records a use makes the roles of an
  earlier version current. The message at cache.go:152 says "local cache is out
  of date; current cache version %d is less than %d" of such a cache.
* `cmd/aws-sso/login_cmd.go:130`: The automatic refresh after a login saves the
  cache and does not look at ~/.aws/config. docs/config.md:639-641 says "when
  your AWS SSO roles are automatically refreshed ... `aws-sso` will also check
  to see if any changes are warranted in your `~/.aws/config`."
* `internal/fileutils/fileedit.go:136`: UpdateConfig reads the file, may wait
  for the user's answer, and writes the whole file back without a lock: a block
  that another execution wrote meanwhile is lost. fileedit_test.go:150 says of
  two instances' blocks "change the contents of the 1st config block, the 2nd
  should remain".
* `internal/fileutils/fileedit.go:132`: With --diff UpdateConfig is called with
  printDiff and force, prints the diff and writes the file too.
  docs/commands.md:340 says "--diff -- Print a diff of changes to the config
  file instead of modifying it", and so does setup_profiles_cmd.go:37.
* `internal/fileutils/fileedit.go:110`: A file that holds nothing but the block
  becomes empty, which UpdateConfig takes for "no data generated";
  uninstallConfigFile (helper.go:286-290) logs that and returns nil.
  docs/commands.md:320 says "--uninstall -- Uninstall the new v1.9+ shell
  completions scripts".
* `cmd/aws-sso/ecs_server_cmd.go:80`: The server in the container removes the
  security file at its first start; one restarted by the on-failure policy
  (ecs_docker_cmd.go:136-138) only warns and runs without token and key pair,
  and refuses aws-sso's clients. docs/ecs-commands.md:12-13 says "`aws-sso`
  utilizing the same SecureStore as the ECS Server will automatically" provide
  them, and docs/ecs-server.md:62-64 that docker start configures "your SSL key
  pair and bearer token from the secure store".
* `cmd/aws-sso/ecs_docker_cmd.go:168`: The errors of the ContainerStop and
  ContainerRemove that clean up after a failure are discarded (lines 162, 168,
  182 and 183), and none of them removes with force: if Docker fails to stop or
  to remove the container, or has started it in spite of the error, the
  container stays, and the next start finds its name taken. The comment at
  ecs_docker_cmd.go:167 says "clean up on failure".
* `internal/ecs/server/server.go:185`: With --disable-auth the expected token
  is empty and the check still compares: a client that sends the stored token
  is answered 403. docs/ecs-commands.md:109 says "--disable-auth -- Disables
  HTTP Authentication, even if a Bearer Token is available".
* `internal/ecs/client/client.go:61`: The client speaks https whenever the
  store has a certificate, also to a server that was started with
  --disable-ssl. docs/ecs-commands.md:110 says "--disable-ssl -- Disables
  SSL/TLS, even if a certificate and private key are available".
* `cmd/aws-sso/ecs_client_cmd.go:155`: `ecs unload` runs as AUTH_NO_CONFIG, for
  which main opens no secure store (main.go:218-224), and newClient calls a
  method of it: the command panics. docs/ecs-commands.md:114-116 says "ecs
  unload / Removes the AWS IAM Role credentials from the ECS Server and makes
  them unavailable to any clients to use."
* `internal/sso/oidc/pkce.go:163`: The handler sends the success page before it
  hands the code over; main may already have taken an error or the deadline,
  and the exchange may fail. The page (pkce.go:20) says "Authentication
  complete ... You can close this window and return to aws-sso."
* `cmd/aws-sso/eval_cmd.go:179`: regionEnvVarsToUnset looks at
  AWS_DEFAULT_REGION only before it unsets AWS_REGION, and GetDefaultRegion
  (settings.go:100-103) looks at AWS_REGION only if AWS_DEFAULT_REGION is
  empty. docs/config.md:137-138 says "aws-sso will NEVER change an existing
  `$AWS_DEFAULT_REGION` or `$AWS_REGION` set by the user."
* `cmd/aws-sso/exec_cmd.go:169`: Only the tags that the role carries are set,
  so a variable of EnvVarTags keeps the previous role's value when the new role
  lacks the tag. docs/config.md:753-754 says "These environment variables are
  considered completely owned and controlled by `aws-sso` so any existing value
  will be overwritten."
* `internal/sso/auth/awssso.go:380`: The loop detection compares the text of
  the Via with ARNs as MakeRoleARN writes them, while ParseRoleARN
  (awsparse.go:16-27) also reads shorter forms: a loop of other spellings
  recurses without end. CHANGELOG.md:780 says "Detect role chain loops using
  `Via` #194".
* `cmd/aws-sso/interactive.go:265`: The roles are counted over all values of a
  key together, so a key every remaining role has is skipped although choosing
  one of its values would narrow the selection. The comment at
  interactive.go:266 says "skip keys which can't reduce our options".
* `cmd/aws-sso/interactive.go:153`: A last word that is some profile's name is
  taken for that profile even when it was chosen as the value of a tag.
  docs/commands.md:22 says "make a selection that narrows down the results to a
  single IAM Role", and the comment at interactive.go:154 "last word is a
  profile name, resolve it to an ARN".
* `cmd/aws-sso/interactive.go:397`: A leading space remains as an empty first
  word: the loop over the pairs is bounded by the length of args and indexes
  the shorter cleanArgs, which panics. The comment at interactive.go:128 says
  "remove any extra spaces".
* `internal/sso/settings.go:227`: LoadSettings lets ConfigProfilesUrlAction
  track UrlAction, and applyDeprecations (settings.go:259) migrates
  ConfigUrlAction, only if it is empty; DEFAULT_CONFIG (main.go:115) sets it to
  "open", so neither happens unless the file sets it to "". CHANGELOG.md:254
  says "`ConfigProfilesUrlAction` now defaults to value of `UrlAction` instead
  of `url` #946".
* `internal/sso/settings.go:60`: CacheRefresh has omitempty, so the 0 that the
  wizard saves is left out and loaded as 168 again; the same with the 0 of
  HistoryLimit and HistoryMinutes. The wizard's prompt (setup_wizard.go:740)
  says "Hours between AWS SSO cache refresh. 0 to disable.", and docs/FAQ.md:481
  says "you can completely disable the auto-refresh of the cache by setting
  `CacheRefresh` to `0`".
* `internal/sso/config/config.go:116`: Refresh fills AuthUrlAction with
  UrlAction where it is not given, and `setup wizard` saves it: a UrlAction
  chosen there or later no longer applies to logins, and one that needed an
  UrlExecCommand panics (uri.go:187) once the command is gone. docs/config.md:342
  says "`AuthUrlAction` allows you to override the global `UrlAction`".
* `internal/sso/config/config.go:137`: Of two spellings of one account ID the
  one visited last replaces the other, without a message and in the map's
  random order. The comment at config.go:129 says "normalize the accountId to a
  string representation of an integer".
* `internal/sso/cache/cache_refresh.go:220`: The names of profiles are checked
  before RestoreManualRoles (cache_refresh.go:66) adds the roles with a Via: one
  of these may have the name of another role. The comment at roles.go:294 says
  CheckProfiles "verifies that all the Profile names are unique for all the
  defined roles."
* `internal/sso/cache/cache_refresh.go:161`: RestoreManualRoles makes an account
  that AWS does not grant without its DefaultRegion, which GetDefaultRegion
  (settings.go:119-121) still uses: `aws-sso list` and the shell differ.
  docs/config.md:140-141 says "`DefaultRegion` can be specified at the
  following levels and the first match is selected".
* `internal/sso/cache/cache_refresh.go:389`: The tag DefaultRegion of a role is
  set from what AWS granted, before the region of config.yaml is copied into the
  role, and so never. The comment at cache_refresh.go:379 says "set the AWS SSO
  tags for all the SSO roles".
* `internal/uri/uri.go:365`: SSOAuthAction has no caller outside its test;
  doAuth (login_cmd.go:102-113) opens the login page in a container where the
  action is one. The comment at uri.go:362-364 says "This is so that URLs used
  to do AWS SSO auth use the primary browser session to avoid re-auth".
* `internal/uri/uri.go:187`: NewHandleUrl panics for an action that needs an
  UrlExecCommand without one, which Validate (settings.go:244) does not look at:
  a config.yaml with `UrlAction: exec` alone panics at the first login.
  docs/config.md:334 says "`UrlExecCommand` is used with `UrlAction: exec`".
* `cmd/aws-sso/setup_wizard_cmd.go:231`: promptOpen asks for UrlExecCommand by
  UrlAction alone: with `print` for it and `exec` for ConfigProfilesUrlAction
  the command stays empty, and the panic above follows when a profile of
  ~/.aws/config is used with `--url-action exec`. docs/config.md:319 says "`exec`
  -- Execute the command provided in `UrlExecCommand`".
* `cmd/aws-sso/main.go:126`: The default ProfileFormat is NICE_PROFILE_FORMAT.
  docs/config.md:493 says "By default, `ProfileFormat` is set to
  `{{ .AccountIdPad }}:{{ .RoleName }}`."
* `cmd/aws-sso/console_cmd.go:154`: ParseRoleARN takes an ARN with one slash,
  and GetCallerIdentity answers for a role `assumed-role/Role/session`: the
  console by environment variables always ends with an error.
  docs/commands.md:84 lists "`AWS_ACCESS_KEY_ID`, `AWS_SECRET_ACCESS_KEY`, and
  `AWS_SESSION_TOKEN` environment variables".
* `cmd/aws-sso/console_cmd.go:105`: A profile that is not in the cache is an
  error, so that what consoleViaSDK does for static profiles is never reached.
  docs/commands.md:85 says "`AWS_PROFILE` environment variable (works with both
  SSO and static profiles)".
* `cmd/aws-sso/console_cmd.go:160`: With AWS_REGION in the environment
  GetDefaultRegion returns "", and the console's URL has no region. The comment
  at console_cmd.go:159 says "now we know who we are, get our configured default
  region".

## 8. Not modelled

* The typed operations of the stores are one edit of one key.
  `SaveEcsSslKeyPair` edits the certificate before it validates the key; its
  only caller (`setup_cmd.go:116`) ends the process when it fails, so nobody
  saves what it leaves in memory.
* Of the settings, the options that no other is made from and that the wizard
  and `Save` treat like those that are kept: `LogLevel`, `Threads`, `Browser`,
  the prompt's colours, the backend of the store and its options, `EnvVarTags`,
  the history's limits (which `RoleCache` has as constants).
* What a profile template of the user makes of a role; `RoleData` has the two
  formats that the wizard offers and names given by `Profile`.
* How `console` picks a role among flags, profile and environment; the
  federation request, and the text of URLs and of container names.
* Listing commands, the shell predictor, terminal I/O, logging, time formatting,
  the choice of endpoints and the AWS mock keep no state that others see, or are
  formatting.
* `GetRoleChain`, `SSOAuthAction`, `NeedsRefresh` and `ConfigHash` are called by
  tests only.
* A line at the prompt is whole words; leading spaces and prefixes are left
  out. `ecs unload` and `setup profiles --diff` are left out (section 7).
* Which keyring backend, 1Password authentication method or AWS endpoint is
  used. The move from `~/.aws-sso` to `~/.config/aws-sso`, which happens once.

## 9. Plan

Done: the storage layer, login by both workflows, role listing, the caches, the
settings and the wizard, the managed files, the ECS server and its deployment,
the user's session, and an execution from start to end; proofs of all of these.

Next, extending the model:

1. An abstract credential service that `RoleCreds` over `SharedStore` refines,
   and an abstract set of slots for `EcsServer`.
2. `SsoLogin`'s workflows replaced by `DeviceLogin` and `PkceLogin`, as in
   `Execution`, if the product can be kept small enough.
3. `setup profiles` and the automatic check after a refresh: `RoleData`'s names
   written by `ConfigFile`'s blocks.

Next, proving: the refinements of the first of these, from `FlushedStaysUnused`
and `GoneForGood`.
