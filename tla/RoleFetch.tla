----------------------------- MODULE RoleFetch -----------------------------
(***************************************************************************)
(* Fetching the roles of every account from AWS: Cache.addSSORoles lists   *)
(* the accounts, fetches the first account's roles itself and gives the    *)
(* others to a pool of workers (fetchSSORole), all calling GetRoles of one *)
(* AWSSSO object.  Its Roles map is guarded by rolesLock; a call that AWS  *)
(* rejects makes the caller log in again while it holds rolesLock.  A      *)
(* panic in any goroutine ends the process.                                *)
(***************************************************************************)
EXTENDS Naturals, Sequences, FiniteSets

CONSTANTS
  Account,      \* the accounts AWS lists
  Worker,       \* GetThreads() or --threads goroutines
  Main,         \* the goroutine that refreshes the cache
  None,         \* no account; nobody holds the lock
  PageCount,    \* pages in which AWS lists an account's roles, one role each
  MaxAttempts,  \* calls of one retry loop (MAX_RETRY_ATTEMPTS + 1 in the code)
  MaxExpiries   \* bound: how often AWS stops accepting the tokens issued so far

ASSUME PoolAssumption ==
  /\ Main \notin Worker /\ None \notin Worker \union {Main} \union Account
  /\ Account # {} /\ IsFiniteSet(Account) /\ IsFiniteSet(Worker) /\ Worker # {}
  /\ PageCount \in Nat \ {0} /\ MaxAttempts \in Nat \ {0} /\ MaxExpiries \in Nat

Thread == Worker \union {Main}
Page == 1..PageCount

VARIABLES
  pc,           \* where each goroutine is
  acct,         \* account each goroutine asks for (None: the account list)
  page,         \* page of the current ListAccountRoles call
  attempts,     \* failed calls in the current retry loop
  input,        \* AccessToken of each goroutine's request
  token,        \* as.Token: the n-th token issued
  valid,        \* tokens that AWS accepts
  expiries,     \* how often AWS has stopped accepting tokens
  rolesLock,    \* holder of as.rolesLock across several steps
  roles,        \* as.Roles
  tasks,        \* accounts in the tasks channel
  results,      \* accounts whose roles are in the results channel
  expected,     \* len(accounts) after the first account is taken off
  count,        \* results processed by addSSORoles
  merged,       \* the Roles being built: what processSSORoles put in it
  ticker,       \* is the slow-fetch ticker still running?
  crashed       \* a goroutine has panicked

shared == <<token, valid, expiries, rolesLock, roles>>
pool == <<tasks, results, expected, count, merged, ticker>>
local == <<acct, page, attempts, input>>
vars == <<pc, local, shared, pool, crashed>>

PC == {"idle", "check", "reset", "token", "call", "locking", "login", "nil", "add",
       "send", "collect", "done", "failed", "exit"}

Role == [id : Nat, page : Page]

TypeOK ==
  /\ pc \in [Thread -> PC]
  /\ acct \in [Thread -> Account \union {None}]
  /\ page \in [Thread -> Page]
  /\ attempts \in [Thread -> 0..MaxAttempts]
  /\ input \in [Thread -> Nat]
  /\ token \in Nat
  /\ valid \subseteq 1..token
  /\ expiries \in 0..MaxExpiries
  /\ rolesLock \in Thread \union {None}
  /\ roles \in [Account -> Seq(Role)]
  /\ tasks \subseteq Account
  /\ results \subseteq Account
  /\ expected \in Nat
  /\ count \in 0..expected
  /\ merged \in [Account -> Seq(Role)]
  /\ ticker \in BOOLEAN
  /\ crashed \in BOOLEAN

(* The refresh starts with a token that passed ValidAuthToken; AWS may     *)
(* nevertheless reject it (it was revoked, or the clock is off).           *)
Init ==
  /\ pc = [t \in Thread |-> IF t = Main THEN "call" ELSE "idle"]
  /\ acct = [t \in Thread |-> None]
  /\ page = [t \in Thread |-> 1]
  /\ attempts = [t \in Thread |-> 0]
  /\ input = [t \in Thread |-> 1]
  /\ token = 1
  /\ valid = {1}
  /\ expiries = 0
  /\ rolesLock = None
  /\ roles = [a \in Account |-> <<>>]
  /\ tasks = {}
  /\ results = {}
  /\ expected = 0
  /\ count = 0
  /\ merged = [a \in Account |-> <<>>]
  /\ ticker = FALSE
  /\ crashed = FALSE

Goto(t, l) == pc' = [pc EXCEPT ![t] = l]

(* Workers run once addSSORoles has started them.                          *)
Running(t) == ~crashed

Panic == crashed' = TRUE

-----------------------------------------------------------------------------
(* The retry loops of ListAccounts (acct = None) and ListAccountRoles.     *)

(* What follows a retry loop that gives up: addSSORoles returns the error, *)
(* a worker panics with it.                                                *)
LoopFails(t) ==
  IF t = Main THEN Goto(t, "failed") /\ UNCHANGED crashed ELSE Panic /\ UNCHANGED pc

CallAccepted(t) ==
  /\ pc[t] = "call" /\ input[t] \in valid
  /\ Goto(t, "add")
  /\ UNCHANGED <<local, shared, pool, crashed>>

(* TooManyRequests, or any error that is not about the token.              *)
CallErrs(t) ==
  /\ pc[t] = "call" /\ input[t] \in valid
  /\ attempts' = [attempts EXCEPT ![t] = @ + 1]
  /\ IF attempts[t] + 1 < MaxAttempts
     THEN UNCHANGED <<pc, crashed>>
     ELSE LoopFails(t)
  /\ UNCHANGED <<acct, page, input, shared, pool>>

CallUnauthorized(t) ==
  /\ pc[t] = "call" /\ input[t] \notin valid
  /\ Goto(t, "locking")
  /\ UNCHANGED <<local, shared, pool, crashed>>

(* A login outside rolesLock.                                              *)
LoginUnlocked(t) ==
  /\ pc[t] = "locking"
  /\ Goto(t, "login")
  /\ UNCHANGED <<local, shared, pool, crashed>>

(* The caller holds everyone else up while it logs in.                     *)
LockRoles(t) ==
  /\ pc[t] = "locking" /\ rolesLock = None
  /\ rolesLock' = t
  /\ Goto(t, "login")
  /\ UNCHANGED <<local, token, valid, expiries, roles, pool, crashed>>

(* reauthenticate succeeded.  ListAccounts keeps the call's error and      *)
(* calls again; ListAccountRoles overwrites it with the nil of the login,  *)
(* leaves the loop and returns the failed call's nil output.               *)
LoginOK(t) ==
  /\ pc[t] = "login"
  /\ token' = token + 1
  /\ valid' = valid \union {token + 1}
  /\ input' = [input EXCEPT ![t] = token + 1]
  /\ rolesLock' = None
  /\ IF acct[t] # None
     THEN Goto(t, "nil") /\ UNCHANGED attempts
     ELSE /\ attempts' = [attempts EXCEPT ![t] = @ + 1]
          /\ Goto(t, IF attempts[t] + 1 < MaxAttempts THEN "call" ELSE "failed")
  /\ UNCHANGED <<acct, page, expiries, roles, pool, crashed>>

(* A failed login: ListAccounts returns the error, and rolesLock with it;  *)
(* ListAccountRoles panics.                                                *)
LoginFails(t) ==
  /\ pc[t] = "login"
  /\ IF acct[t] = None THEN Goto(t, "failed") /\ UNCHANGED crashed
                       ELSE Panic /\ UNCHANGED pc
  /\ UNCHANGED <<local, shared, pool>>

(* GetRoles reads output.RoleList.                                         *)
DerefNil(t) ==
  /\ pc[t] = "nil"
  /\ Panic
  /\ UNCHANGED <<pc, local, shared, pool>>

-----------------------------------------------------------------------------
(* GetRoles, for the account acct[t].                                      *)

(* The roles are handed over: to processSSORoles, or to the channel.       *)
Return(t, list) ==
  IF t = Main
  THEN /\ merged' = [merged EXCEPT ![acct[t]] = list]
       /\ tasks' = {a \in Account : a # acct[t]}
       /\ expected' = Cardinality(Account) - 1
       /\ ticker' = TRUE
       /\ Goto(t, "collect")
       /\ UNCHANGED <<results, count>>
  ELSE /\ Goto(t, "send")
       /\ UNCHANGED pool

CheckRoles(t) ==
  /\ pc[t] = "check" /\ rolesLock = None
  /\ IF roles[acct[t]] # <<>>
     THEN Return(t, roles[acct[t]])
     ELSE Goto(t, "reset") /\ UNCHANGED pool
  /\ UNCHANGED <<local, shared, crashed>>

ResetRoles(t) ==
  /\ pc[t] = "reset" /\ rolesLock = None
  /\ roles' = [roles EXCEPT ![acct[t]] = <<>>]
  /\ Goto(t, "token")
  /\ UNCHANGED <<local, token, valid, expiries, rolesLock, pool, crashed>>

ReadToken(t) ==
  /\ pc[t] = "token"
  /\ input' = [input EXCEPT ![t] = token]
  /\ page' = [page EXCEPT ![t] = 1]
  /\ attempts' = [attempts EXCEPT ![t] = 0]
  /\ Goto(t, "call")
  /\ UNCHANGED <<acct, shared, pool, crashed>>

(* A GetRoles that ignores NextToken.                                      *)
AddFirstPage(t) ==
  /\ pc[t] = "add" /\ acct[t] # None /\ rolesLock = None
  /\ LET a == acct[t]
         list == Append(roles[a], [id |-> Len(roles[a]), page |-> page[t]])
     IN  /\ roles' = [roles EXCEPT ![a] = list]
         /\ Return(t, list)
  /\ UNCHANGED <<local, token, valid, expiries, rolesLock, crashed>>

(* makeRoleInfo appends the page's role; NextToken asks for another page.  *)
AddRoles(t) ==
  /\ pc[t] = "add" /\ acct[t] # None /\ rolesLock = None
  /\ LET a == acct[t]
         list == Append(roles[a], [id |-> Len(roles[a]), page |-> page[t]])
     IN  /\ roles' = [roles EXCEPT ![a] = list]
         /\ IF page[t] < PageCount
            THEN /\ page' = [page EXCEPT ![t] = @ + 1]
                 /\ attempts' = [attempts EXCEPT ![t] = 0]
                 /\ Goto(t, "call")
                 /\ UNCHANGED pool
            ELSE Return(t, list) /\ UNCHANGED <<page, attempts>>
  /\ UNCHANGED <<acct, input, token, valid, expiries, rolesLock, crashed>>

-----------------------------------------------------------------------------
(* addSSORoles and its workers.                                            *)

(* GetAccounts returns; some account is the first of the list.             *)
TakeFirst ==
  /\ pc[Main] = "add" /\ acct[Main] = None
  /\ \E a \in Account : acct' = [acct EXCEPT ![Main] = a]
  /\ Goto(Main, "check")
  /\ UNCHANGED <<page, attempts, input, shared, pool, crashed>>

(* At most as many workers as accounts are started; they are alike.        *)
Started(w) == pc[Main] \in {"collect", "done"}

(* A worker that goes on reading the closed channel.                       *)
TakeTaskForever(w) ==
  /\ pc[w] = "idle" /\ Started(w)
  /\ \/ \E a \in tasks :
          /\ acct' = [acct EXCEPT ![w] = a]
          /\ tasks' = tasks \ {a}
          /\ Goto(w, "check")
     \/ /\ tasks = {}
        /\ UNCHANGED <<pc, acct, tasks>>
  /\ UNCHANGED <<page, attempts, input, shared, results, expected, count, merged, ticker, crashed>>

TakeTask(w) ==
  /\ pc[w] = "idle" /\ Started(w)
  /\ \/ \E a \in tasks :
          /\ acct' = [acct EXCEPT ![w] = a]
          /\ tasks' = tasks \ {a}
          /\ Goto(w, "check")
     \/ /\ tasks = {}
        /\ Goto(w, "exit")
        /\ UNCHANGED <<acct, tasks>>
  /\ UNCHANGED <<page, attempts, input, shared, results, expected, count, merged, ticker, crashed>>

SendResult(w) ==
  /\ pc[w] = "send"
  /\ results' = results \union {acct[w]}
  /\ Goto(w, "idle")
  /\ UNCHANGED <<local, shared, tasks, expected, count, merged, ticker, crashed>>

Collect ==
  /\ pc[Main] = "collect" /\ count < expected
  /\ \E a \in results :
       /\ results' = results \ {a}
       /\ merged' = [merged EXCEPT ![a] = roles[a]]
  /\ count' = count + 1
  /\ UNCHANGED <<pc, local, shared, tasks, expected, ticker, crashed>>

(* The warning of a slow fetch is given once.                              *)
Tick ==
  /\ pc[Main] = "collect" /\ count < expected /\ ticker
  /\ ticker' = FALSE
  /\ UNCHANGED <<pc, local, shared, tasks, results, expected, count, merged, crashed>>

CloseResults ==
  /\ pc[Main] = "collect" /\ count = expected
  /\ Goto(Main, "done")
  /\ UNCHANGED <<local, shared, pool, crashed>>

(* AWS stops accepting the tokens issued so far.                           *)
Expire ==
  /\ valid # {} /\ expiries < MaxExpiries
  /\ valid' = {}
  /\ expiries' = expiries + 1
  /\ UNCHANGED <<pc, local, token, rolesLock, roles, pool, crashed>>

-----------------------------------------------------------------------------
Step(t) ==
  /\ Running(t)
  /\ \/ CallAccepted(t) \/ CallErrs(t) \/ CallUnauthorized(t)
     \/ LockRoles(t) \/ LoginOK(t) \/ LoginFails(t) \/ DerefNil(t)
     \/ CheckRoles(t) \/ ResetRoles(t) \/ ReadToken(t) \/ AddRoles(t)
     \/ t = Main /\ (TakeFirst \/ Collect \/ CloseResults)
     \/ t \in Worker /\ (TakeTask(t) \/ SendResult(t))

Ended ==
  \/ crashed
  \/ pc[Main] = "failed"
  \/ pc[Main] = "done" /\ \A w \in Worker : pc[w] = "exit"

Finished == Ended /\ UNCHANGED vars

Next ==
  \/ \E t \in Thread : Step(t)
  \/ ~crashed /\ (Expire \/ Tick)
  \/ Finished

Spec == Init /\ [][Next]_vars /\ \A t \in Thread : WF_vars(Step(t))

-----------------------------------------------------------------------------
(* Nothing is missing and nothing is listed twice: when addSSORoles is     *)
(* done it has merged, for every account, each page's role once, numbered  *)
(* as AWS listed them, whatever failed and was retried on the way.         *)
CompleteWhenDone ==
  pc[Main] = "done" => \A a \in Account :
    merged[a] = [i \in Page |-> [id |-> i - 1, page |-> i]]

(* results is closed only when no worker can still send to it: a send on a *)
(* closed channel would panic.                                             *)
NoSendAfterClose ==
  pc[Main] = "done" => results = {} /\ \A w \in Worker : pc[w] \in {"idle", "exit"}

(* reauthenticate: "This should only be happening one at a time!", and     *)
(* while it happens nobody touches as.Roles.                               *)
LoginExcludesAll ==
  \A t \in Thread : pc[t] = "login" /\ ~crashed =>
    rolesLock = t /\ \A u \in Thread \ {t} : pc[u] # "login"

(* The refresh ends: the pool neither deadlocks nor waits for a result     *)
(* that nobody will send.                                                  *)
RefreshEnds == <>Ended

(* The invariant of the pool: the values of its variables, the use of its  *)
(* channels, that logins, which hold rolesLock, exclude all others, and    *)
(* what it ends with.                                                      *)
PoolInv == TypeOK /\ NoSendAfterClose /\ LoginExcludesAll /\ CompleteWhenDone
=============================================================================
