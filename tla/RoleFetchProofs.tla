--------------------------- MODULE RoleFetchProofs ---------------------------
(***************************************************************************)
(* For any number of accounts, workers and pages: a refresh that ends has  *)
(* merged each account's roles, all of them and once, nobody sends to the  *)
(* closed channel, and there is one login at a time.                       *)
(*                                                                         *)
(* What main ends with is decided by a count.  The count is that of the    *)
(* accounts whose roles have been merged, and these are none that still    *)
(* wait, are being fetched, or are in the channel: when it reaches the     *)
(* number of accounts there is no other account left.                      *)
(***************************************************************************)
EXTENDS RoleFetch, FiniteSetTheorems, TLAPS

-----------------------------------------------------------------------------
(* The inductive invariant.                                                *)

(* The roles of the first n pages, as makeRoleInfo numbers them.           *)
FirstPages(n) == [i \in 1..n |-> [id |-> i - 1, page |-> i]]

InLoop == {"call", "locking", "login"}
Fetching == {"check", "reset", "token", "call", "locking", "login", "nil", "add"}

Merging == pc[Main] \in {"collect", "done"}
Working(w) == pc[w] \in Fetching \union {"send"}
Others == Account \ {acct[Main]}
Merged == {a \in Others : merged[a] # <<>>}

(* A loop that has used up its calls is left.                              *)
CallsLeft == ~crashed => \A t \in Thread : pc[t] \in InLoop => attempts[t] < MaxAttempts

LoginHoldsLock == \A t \in Thread : pc[t] = "login" => rolesLock = t

Placed ==
  /\ acct[Main] = None => pc[Main] \in InLoop \union {"add", "failed"}
  /\ acct[Main] # None => pc[Main] \in Fetching \union {"failed", "collect", "done"}
  /\ \A w \in Worker : pc[w] \in Fetching \union {"send", "idle", "exit"}

(* Before main has the first account's roles nobody else does anything.    *)
Quiet ==
  ~Merging =>
    /\ \A w \in Worker : pc[w] = "idle"
    /\ tasks = {} /\ results = {} /\ expected = 0 /\ count = 0
    /\ \A a \in Account : merged[a] = <<>> /\ (a # acct[Main] => roles[a] = <<>>)

(* Then every account is in one place at most ...                          *)
Apart ==
  Merging =>
    /\ tasks \subseteq Others /\ results \subseteq Others
    /\ tasks \intersect results = {} /\ Merged \intersect (tasks \union results) = {}
    /\ \A w \in Worker : Working(w) => acct[w] \in Others \ (tasks \union results \union Merged)
    /\ \A v, w \in Worker : v # w /\ Working(v) /\ Working(w) => acct[v] # acct[w]

(* ... and the merged ones are counted, until there are no others.         *)
Counted ==
  /\ Merging => expected = Cardinality(Account) - 1 /\ count = Cardinality(Merged)
  /\ pc[Main] = "done" => count = expected

(* How much of its account's roles a thread has listed.                    *)
ListedBy(t) ==
  acct[t] # None =>
    /\ pc[t] \in {"check", "reset", "token"} => roles[acct[t]] = <<>>
    /\ pc[t] \in InLoop \union {"add"} => roles[acct[t]] = FirstPages(page[t] - 1)
    /\ pc[t] = "send" => roles[acct[t]] = FirstPages(PageCount)

Listed ==
  /\ \A t \in Thread : ListedBy(t)
  /\ \A a \in tasks : roles[a] = <<>>
  /\ \A a \in results : roles[a] = FirstPages(PageCount)
  /\ Merging => \A a \in Merged \union {acct[Main]} : merged[a] = FirstPages(PageCount)

FetchInv ==
  TypeOK /\ CallsLeft /\ LoginHoldsLock /\ Placed /\ Quiet /\ Apart /\ Counted /\ Listed
-----------------------------------------------------------------------------
(* Lists of roles.                                                         *)

(* The roles of the first n pages.                                         *)
LEMMA PagesTyped ==
  ASSUME NEW n \in 0..PageCount
  PROVE  /\ FirstPages(n) \in Seq(Role)
         /\ Len(FirstPages(n)) = n
BY PoolAssumption DEF FirstPages, Role, Page

(* No page has no role.                                                    *)
LEMMA NoPages == FirstPages(0) = <<>>
BY DEF FirstPages

(* An account has a role.                                                  *)
LEMMA AllPages == FirstPages(PageCount) # <<>>
<1>1. Len(FirstPages(PageCount)) # Len(<<>>)
  BY PagesTyped, PoolAssumption
<1> QED
  BY <1>1

(* makeRoleInfo's append of the next page's role.                          *)
LEMMA NextPage ==
  ASSUME NEW n \in 0..(PageCount - 1)
  PROVE  Append(FirstPages(n), [id |-> Len(FirstPages(n)), page |-> n + 1]) = FirstPages(n + 1)
<1>1. n \in 0..PageCount /\ n \in Nat
  BY PoolAssumption
<1>2. FirstPages(n) \in Seq(Role) /\ Len(FirstPages(n)) = n
  BY <1>1, PagesTyped
<1> QED
  BY <1>1, <1>2 DEF FirstPages

-----------------------------------------------------------------------------
(* Nobody has fetched anything at first.                                   *)
LEMMA FetchInvInit == Init => FetchInv
<1> SUFFICES ASSUME Init
             PROVE  FetchInv
  OBVIOUS
<1> USE PoolAssumption DEF Init, Thread
<1>1. TypeOK
  <2>1. roles \in [Account -> Seq(Role)] /\ merged \in [Account -> Seq(Role)]
    <3>1. <<>> \in Seq(Role)
      OBVIOUS
    <3> QED
      BY <3>1
  <2>2. pc \in [Thread -> PC] /\ page \in [Thread -> Page]
    BY DEF PC, Page
  <2>3. /\ acct \in [Thread -> Account \union {None}] /\ input \in [Thread -> Nat]
        /\ attempts \in [Thread -> 0..MaxAttempts]
    OBVIOUS
  <2>4. valid \subseteq 1..token /\ expiries \in 0..MaxExpiries /\ count \in 0..expected
    OBVIOUS
  <2> QED
    BY <2>1, <2>2, <2>3, <2>4 DEF TypeOK
<1>2. CallsLeft /\ LoginHoldsLock /\ Placed /\ Quiet /\ Apart /\ Counted
  BY DEF CallsLeft, LoginHoldsLock, Placed, Quiet, Apart, Counted, InLoop, Merging
<1>3. Listed
  BY DEF Listed, ListedBy, Merging
<1> QED
  BY <1>1, <1>2, <1>3 DEF FetchInv

(* A worker has an account; only main asks for the list of accounts.       *)
LEMMA WorkerHasAccount ==
  ASSUME FetchInv, NEW w \in Worker, Working(w)
  PROVE  Merging /\ acct[w] \in Account /\ acct[w] # None
BY PoolAssumption DEF FetchInv, Quiet, Apart, Others, Working, Fetching

(* Only main makes calls for no account, to list the accounts.             *)
LEMMA ListerIsMain ==
  ASSUME FetchInv, NEW t \in Thread, pc[t] \in Fetching
  PROVE  acct[t] = None => t = Main /\ pc[t] \in InLoop \union {"add"}
BY WorkerHasAccount DEF FetchInv, Placed, Working, Fetching, Thread

(* A step of one thread on its way through GetAccounts or GetRoles, which  *)
(* may add to the roles of its own account.                                *)
LEMMA FetchingKeeps ==
  ASSUME FetchInv, NEW t \in Thread, NEW l \in Fetching \union {"failed", "send"},
         pc[t] \in Fetching, Goto(t, l), UNCHANGED <<acct, pool>>,
         l = "failed" => t = Main, l = "send" => t \in Worker,
         acct[t] = None => l \in InLoop \union {"add", "failed"},
         \A u \in Thread \ {t} : page'[u] = page[u],
         \A a \in Account \ {acct[t]} : roles'[a] = roles[a],
         TypeOK', CallsLeft', LoginHoldsLock', ListedBy(t)'
  PROVE  FetchInv'
<1> USE PoolAssumption DEF Thread, Goto, pool, Fetching, InLoop
<1>1. pc \in [Thread -> PC] /\ Main \in Thread
  BY DEF FetchInv, TypeOK
<1>2. Merging' <=> Merging
  BY <1>1 DEF Merging
<1>3. \A w \in Worker : Working(w)' <=> Working(w)
  BY <1>1 DEF FetchInv, Working
<1>4. Placed'
  BY <1>1 DEF FetchInv, Placed
<1>5. ~Merging => t = Main
  BY DEF FetchInv, Quiet
<1>6. Quiet'
  BY <1>1, <1>2, <1>5 DEF FetchInv, Quiet
<1>7. Apart' /\ Counted'
  BY <1>1, <1>2, <1>3 DEF FetchInv, Apart, Counted, Merged, Others
<1>8. Listed'
  <2>1. Merging => acct[t] \notin tasks \union results \/ t = Main
    BY DEF FetchInv, Apart, Working
  <2>2. Merging => t # Main
    BY <1>1 DEF Merging
  <2>3. ~Merging => tasks = {} /\ results = {}
    BY DEF FetchInv, Quiet
  <2>4. /\ \A a \in tasks : roles'[a] = <<>>
        /\ \A a \in results : roles'[a] = FirstPages(PageCount)
    BY <2>1, <2>2, <2>3 DEF FetchInv, TypeOK, Listed
  <2>5. ASSUME NEW u \in Thread \ {t}
        PROVE  ListedBy(u)'
    <3>1. pc'[u] = pc[u] /\ page'[u] = page[u] /\ acct'[u] = acct[u]
      BY <1>1
    <3>2. CASE u \in Worker /\ Working(u)
      <4>1. Merging /\ t \in Worker /\ Working(t)
        BY <2>2, <3>2, WorkerHasAccount DEF Working
      <4>2. acct[u] # acct[t] /\ acct[u] \in Account
        BY <3>2, <4>1, WorkerHasAccount DEF FetchInv, Apart
      <4> QED
        BY <3>1, <4>2 DEF FetchInv, Listed, ListedBy
    <3>3. CASE u \in Worker /\ ~Working(u)
      BY <3>1, <3>3 DEF ListedBy, Working
    <3>4. CASE u = Main
      BY <1>5, <3>1, <3>4 DEF ListedBy, Merging
    <3> QED
      BY <3>2, <3>3, <3>4
  <2> QED
    BY <1>2, <2>4, <2>5 DEF FetchInv, Listed, Merged, Others
<1> QED
  BY <1>4, <1>6, <1>7, <1>8 DEF FetchInv

(* A panic is the last step.                                               *)
LEMMA PanicKeeps ==
  ASSUME FetchInv, Panic, UNCHANGED <<pc, acct, page, input, shared, pool>>,
         attempts' \in [Thread -> 0..MaxAttempts]
  PROVE  FetchInv'
<1> USE DEF FetchInv, Panic, shared, pool
<1>1. TypeOK'
  BY DEF TypeOK
<1>2. CallsLeft' /\ LoginHoldsLock' /\ Placed' /\ Quiet'
  BY DEF CallsLeft, LoginHoldsLock, Placed, Quiet, Merging
<1>3. Apart' /\ Counted' /\ Listed'
  BY DEF Apart, Counted, Listed, ListedBy, Merging, Merged, Others, Working
<1> QED
  BY <1>1, <1>2, <1>3

-----------------------------------------------------------------------------
(* The answers to a call inside the retry loop.                            *)
LEMMA LoopsKeep ==
  ASSUME FetchInv, ~crashed, NEW t \in Thread,
         CallAccepted(t) \/ CallErrs(t) \/ CallUnauthorized(t)
  PROVE  FetchInv'
<1> USE PoolAssumption DEF local, shared
<1>1. /\ pc \in [Thread -> PC] /\ pc[t] = "call" /\ pc[t] \in Fetching
      /\ attempts \in [Thread -> 0..MaxAttempts] /\ attempts[t] < MaxAttempts
  BY DEF FetchInv, TypeOK, CallAccepted, CallErrs, CallUnauthorized, Fetching, CallsLeft, InLoop
<1>2. CASE CallAccepted(t) \/ CallUnauthorized(t)
  <2> USE <1>1, <1>2 DEF CallAccepted, CallUnauthorized, Goto
  <2>1. PICK l \in {"add", "locking"} : Goto(t, l)
    OBVIOUS
  <2>2. TypeOK'
    BY DEF FetchInv, TypeOK, PC, pool
  <2>3. CallsLeft' /\ LoginHoldsLock' /\ ListedBy(t)'
    BY DEF FetchInv, CallsLeft, LoginHoldsLock, Listed, ListedBy, InLoop
  <2> QED
    BY <2>1, <2>2, <2>3, FetchingKeeps DEF Fetching, InLoop
<1>3. CASE CallErrs(t)
  <2> USE <1>1, <1>3 DEF CallErrs
  <2>1. attempts' \in [Thread -> 0..MaxAttempts] /\ attempts'[t] = attempts[t] + 1
    OBVIOUS
  <2>2. CASE attempts[t] + 1 < MaxAttempts
    <3>1. Goto(t, "call") /\ pc' = pc /\ crashed' = crashed
      BY <2>2 DEF Goto, FetchInv, TypeOK
    <3>2. TypeOK'
      BY <2>1, <3>1 DEF FetchInv, TypeOK, pool
    <3>3. CallsLeft' /\ LoginHoldsLock' /\ ListedBy(t)'
      BY <2>1, <2>2, <3>1 DEF FetchInv, CallsLeft, LoginHoldsLock, Listed, ListedBy, InLoop, Goto
    <3> QED
      BY <3>1, <3>2, <3>3, FetchingKeeps DEF Fetching, InLoop
  <2>3. CASE attempts[t] + 1 >= MaxAttempts /\ t = Main
    <3>1. Goto(t, "failed") /\ crashed' = crashed
      BY <2>3 DEF LoopFails
    <3>2. TypeOK'
      BY <2>1, <3>1 DEF FetchInv, TypeOK, pool, Goto, PC
    <3>3. CallsLeft' /\ LoginHoldsLock' /\ ListedBy(t)'
      BY <2>1, <3>1 DEF FetchInv, CallsLeft, LoginHoldsLock, ListedBy, InLoop, Goto
    <3> QED
      BY <2>3, <3>1, <3>2, <3>3, FetchingKeeps
  <2>4. CASE attempts[t] + 1 >= MaxAttempts /\ t # Main
    BY <2>1, <2>4, PanicKeeps DEF LoopFails, shared
  <2> QED
    BY <2>2, <2>3, <2>4
<1> QED
  BY <1>2, <1>3

(* rolesLock, the login under it, and the nil output.                      *)
LEMMA LoginsKeep ==
  ASSUME FetchInv, ~crashed, NEW t \in Thread,
         LockRoles(t) \/ LoginOK(t) \/ LoginFails(t) \/ DerefNil(t)
  PROVE  FetchInv'
<1> USE PoolAssumption DEF local, shared
<1>1. pc \in [Thread -> PC] /\ attempts \in [Thread -> 0..MaxAttempts]
  BY DEF FetchInv, TypeOK
<1>2. CASE LockRoles(t)
  <2> USE <1>1, <1>2 DEF LockRoles, Goto
  <2>1. TypeOK'
    BY DEF FetchInv, TypeOK, PC, pool
  <2>2. CallsLeft' /\ ListedBy(t)'
    BY DEF FetchInv, CallsLeft, Listed, ListedBy, InLoop
  <2>3. LoginHoldsLock'
    <3>1. None \notin Thread
      BY DEF Thread
    <3> QED
      BY <3>1 DEF FetchInv, LoginHoldsLock
  <2> QED
    BY <2>1, <2>2, <2>3, FetchingKeeps DEF Fetching, InLoop
<1>3. CASE LoginOK(t)
  <2> USE <1>1, <1>3 DEF LoginOK
  <2>1. attempts[t] < MaxAttempts /\ token \in Nat
    BY DEF FetchInv, TypeOK, CallsLeft, InLoop
  <2>2. attempts' \in [Thread -> 0..MaxAttempts]
    BY <2>1
  <2>3. PICK l \in {"nil", "call", "failed"} :
          /\ Goto(t, l)
          /\ l = "nil" <=> acct[t] # None
          /\ l = "call" => attempts'[t] < MaxAttempts
    BY <2>1
  <2>4. TypeOK'
    BY <2>1, <2>2, <2>3 DEF FetchInv, TypeOK, PC, pool, Goto
  <2>5. CallsLeft' /\ ListedBy(t)'
    BY <2>3 DEF FetchInv, CallsLeft, ListedBy, InLoop, Goto
  <2>6. LoginHoldsLock'
    BY <2>3 DEF FetchInv, LoginHoldsLock, Goto
  <2>7. l = "failed" => t = Main
    BY <2>3, ListerIsMain DEF Fetching
  <2> QED
    BY <2>3, <2>4, <2>5, <2>6, <2>7, FetchingKeeps DEF Fetching, InLoop
<1>4. CASE LoginFails(t)
  <2> USE <1>1, <1>4 DEF LoginFails
  <2>1. CASE acct[t] = None
    <3>1. Goto(t, "failed") /\ crashed' = crashed
      BY <2>1
    <3>2. TypeOK'
      BY <3>1 DEF FetchInv, TypeOK, PC, pool, Goto
    <3>3. CallsLeft' /\ LoginHoldsLock' /\ ListedBy(t)'
      BY <3>1 DEF FetchInv, CallsLeft, LoginHoldsLock, ListedBy, InLoop, Goto
    <3>4. t = Main
      BY <2>1, ListerIsMain DEF Fetching
    <3> QED
      BY <2>1, <3>1, <3>2, <3>3, <3>4, FetchingKeeps DEF Fetching, InLoop
  <2>2. CASE acct[t] # None
    BY <2>2, PanicKeeps
  <2> QED
    BY <2>1, <2>2
<1>5. CASE DerefNil(t)
  BY <1>1, <1>5, PanicKeeps DEF DerefNil
<1> QED
  BY <1>2, <1>3, <1>4, <1>5

(* GetRoles begins: no roles yet, and the token that is valid now.         *)
LEMMA ReadsKeep ==
  ASSUME FetchInv, ~crashed, NEW t \in Thread, ResetRoles(t) \/ ReadToken(t)
  PROVE  FetchInv'
<1> USE PoolAssumption DEF local, shared
<1>1. pc \in [Thread -> PC] /\ page \in [Thread -> Page] /\ roles \in [Account -> Seq(Role)]
  BY DEF FetchInv, TypeOK
<1>2. CASE ResetRoles(t)
  <2> USE <1>1, <1>2 DEF ResetRoles
  <2>1. roles' = roles
    BY DEF FetchInv, Listed, ListedBy, Placed, InLoop
  <2>2. TypeOK'
    BY <2>1 DEF FetchInv, TypeOK, PC, pool, Goto
  <2>3. CallsLeft' /\ LoginHoldsLock' /\ ListedBy(t)'
    BY <2>1 DEF FetchInv, CallsLeft, LoginHoldsLock, Listed, ListedBy, InLoop, Goto
  <2>4. acct[t] # None
    BY ListerIsMain DEF Fetching, InLoop
  <2> QED
    BY <2>1, <2>2, <2>3, <2>4, FetchingKeeps DEF Fetching
<1>3. CASE ReadToken(t)
  <2> USE <1>1, <1>3 DEF ReadToken
  <2>1. TypeOK'
    BY DEF FetchInv, TypeOK, PC, pool, Goto, Page
  <2>2. CallsLeft' /\ LoginHoldsLock'
    BY DEF FetchInv, TypeOK, CallsLeft, LoginHoldsLock, InLoop, Goto
  <2>3. ListedBy(t)'
    BY NoPages DEF FetchInv, Listed, ListedBy, InLoop, Goto
  <2>4. acct[t] # None
    BY ListerIsMain DEF Fetching, InLoop
  <2> QED
    BY <2>1, <2>2, <2>3, <2>4, FetchingKeeps DEF Fetching, InLoop
<1> QED
  BY <1>2, <1>3

(* GetRoles looks up whether the account was fetched before.               *)
LEMMA ChecksKeep ==
  ASSUME FetchInv, ~crashed, NEW t \in Thread, CheckRoles(t)
  PROVE  FetchInv'
<1> USE DEF CheckRoles, local, shared
<1>1. pc \in [Thread -> PC] /\ acct[t] # None
  BY ListerIsMain DEF FetchInv, TypeOK, Fetching, InLoop
<1>2. Goto(t, "reset") /\ UNCHANGED <<local, shared, pool, crashed>>
  BY <1>1 DEF FetchInv, Listed, ListedBy
<1>3. TypeOK'
  BY <1>1, <1>2 DEF FetchInv, TypeOK, PC, pool, Goto
<1>4. CallsLeft' /\ LoginHoldsLock' /\ ListedBy(t)'
  BY <1>1, <1>2 DEF FetchInv, CallsLeft, LoginHoldsLock, Listed, ListedBy, InLoop, Goto
<1> QED
  BY <1>1, <1>2, <1>3, <1>4, FetchingKeeps DEF Fetching

(* The roles of a page are added, and those of the last are handed over.   *)
LEMMA AddsKeep ==
  ASSUME FetchInv, ~crashed, NEW t \in Thread, AddRoles(t)
  PROVE  FetchInv'
<1> DEFINE a == acct[t]
           list == Append(roles[a], [id |-> Len(roles[a]), page |-> page[t]])
<1> USE PoolAssumption
<1>1. /\ pc \in [Thread -> PC] /\ page \in [Thread -> Page] /\ roles \in [Account -> Seq(Role)]
      /\ attempts \in [Thread -> 0..MaxAttempts]
      /\ pc[t] = "add" /\ a \in Account
  BY DEF FetchInv, TypeOK, AddRoles
<1>2. list = FirstPages(page[t]) /\ list \in Seq(Role)
  <2>1. roles[a] = FirstPages(page[t] - 1)
    BY <1>1 DEF FetchInv, Listed, ListedBy
  <2>2. page[t] - 1 \in 0..(PageCount - 1) /\ page[t] \in 0..PageCount /\ page[t] - 1 + 1 = page[t]
    BY <1>1 DEF Page
  <2> QED
    BY <2>1, <2>2, NextPage, PagesTyped
<1>3. roles' = [roles EXCEPT ![a] = list] /\ roles' \in [Account -> Seq(Role)] /\ roles'[a] = list
  BY <1>1, <1>2 DEF AddRoles
<1>4. UNCHANGED <<acct, input, token, valid, expiries, rolesLock, crashed>>
  BY DEF AddRoles
<1> HIDE DEF list
<1>5. CASE page[t] < PageCount
  <2>1. /\ page' = [page EXCEPT ![t] = @ + 1] /\ attempts' = [attempts EXCEPT ![t] = 0]
        /\ Goto(t, "call") /\ UNCHANGED pool
    BY <1>5 DEF AddRoles
  <2>2. TypeOK'
    <3>1. page' \in [Thread -> Page] /\ attempts' \in [Thread -> 0..MaxAttempts] /\ pc' \in [Thread -> PC]
      BY <1>1, <1>5, <2>1 DEF Page, PC, Goto
    <3> QED
      BY <1>3, <1>4, <2>1, <3>1 DEF FetchInv, TypeOK, pool
  <2>3. CallsLeft' /\ LoginHoldsLock'
    BY <1>1, <1>4, <2>1 DEF FetchInv, CallsLeft, LoginHoldsLock, InLoop, Goto
  <2>4. pc'[t] = "call" /\ acct'[t] = a /\ page'[t] - 1 = page[t]
    BY <1>1, <1>4, <2>1 DEF Page, Goto
  <2>5. ListedBy(t)'
    <3>1. roles'[acct'[t]] = FirstPages(page'[t] - 1)
      BY <1>2, <1>3, <2>4
    <3> QED
      BY <2>4, <3>1 DEF ListedBy, InLoop
  <2> QED
    BY <1>1, <1>3, <1>4, <2>1, <2>2, <2>3, <2>5, FetchingKeeps DEF Fetching, InLoop
<1>6. CASE page[t] = PageCount
  <2>1. Return(t, list) /\ UNCHANGED <<page, attempts>>
    BY <1>1, <1>6 DEF AddRoles, list, Page
  <2>2. CASE t # Main
    <3>1. Goto(t, "send") /\ UNCHANGED pool
      BY <2>1, <2>2 DEF Return
    <3>2. TypeOK'
      BY <1>1, <1>3, <1>4, <2>1, <3>1 DEF FetchInv, TypeOK, PC, pool, Goto
    <3>3. CallsLeft' /\ LoginHoldsLock' /\ ListedBy(t)'
      BY <1>1, <1>2, <1>3, <1>4, <1>6, <2>1, <3>1
         DEF FetchInv, CallsLeft, LoginHoldsLock, ListedBy, InLoop, Goto
    <3> QED
      BY <1>1, <1>3, <1>4, <2>1, <2>2, <3>1, <3>2, <3>3, FetchingKeeps DEF Fetching, Thread
  <2>3. CASE t = Main
    <3> USE <2>3 DEF Return
    <3>1. /\ merged' = [merged EXCEPT ![a] = list]
          /\ tasks' = {b \in Account : b # a}
          /\ expected' = Cardinality(Account) - 1
          /\ ticker' = TRUE /\ Goto(Main, "collect") /\ UNCHANGED <<results, count>>
      BY <2>1
    <3>2. /\ \A w \in Worker : pc[w] = "idle"
          /\ results = {} /\ count = 0
          /\ \A b \in Account : merged[b] = <<>> /\ (b # a => roles[b] = <<>>)
          /\ merged \in [Account -> Seq(Role)]
      BY <1>1 DEF FetchInv, TypeOK, Quiet, Merging
    <3>3. /\ \A w \in Worker : pc'[w] = "idle" /\ ~Working(w)'
          /\ pc'[Main] = "collect" /\ Merging' /\ Main \in Thread
      BY <1>1, <3>1, <3>2 DEF Goto, Thread, Working, Fetching, Merging
    <3>4. Cardinality(Account) \in Nat \ {0}
      BY FS_CardinalityType, FS_EmptySet
    <3>5. TypeOK'
      <4>1. merged' \in [Account -> Seq(Role)] /\ pc' \in [Thread -> PC]
        BY <1>1, <1>2, <3>1, <3>2 DEF PC, Goto
      <4>2. expected' \in Nat /\ count' \in 0..expected'
        BY <3>1, <3>2, <3>4
      <4> QED
        BY <1>3, <1>4, <2>1, <3>1, <3>2, <4>1, <4>2 DEF FetchInv, TypeOK
    <3>6. CallsLeft' /\ LoginHoldsLock' /\ Placed' /\ Quiet'
      BY <1>1, <1>4, <2>1, <3>1, <3>2, <3>3
         DEF FetchInv, CallsLeft, LoginHoldsLock, Placed, Quiet, InLoop, Goto, Fetching, Thread
    <3>7. Merged' = {} /\ Others' = tasks'
      BY <1>1, <1>4, <3>1, <3>2 DEF Merged, Others
    <3>8. Apart' /\ Counted'
      BY <3>1, <3>2, <3>3, <3>7, FS_EmptySet DEF Apart, Counted
    <3>9. Listed'
      <4>1. \A u \in Thread : ListedBy(u)'
        BY <3>3 DEF ListedBy, InLoop, Thread
      <4>2. \A b \in tasks' : roles'[b] = <<>>
        BY <1>3, <3>1, <3>2
      <4>3. merged'[a] = FirstPages(PageCount)
        BY <1>1, <1>2, <1>6, <3>1, <3>2
      <4> QED
        BY <1>4, <3>1, <3>2, <3>7, <4>1, <4>2, <4>3 DEF Listed
    <3> QED
      BY <3>5, <3>6, <3>8, <3>9 DEF FetchInv
  <2> QED
    BY <2>2, <2>3
<1> QED
  BY <1>1, <1>5, <1>6 DEF Page

-----------------------------------------------------------------------------
(* The accounts that have been merged.                                     *)

(* The merged accounts can be counted.                                     *)
LEMMA MergedFinite ==
  ASSUME FetchInv
  PROVE  /\ IsFiniteSet(Merged) /\ IsFiniteSet(Others)
         /\ Cardinality(Merged) \in Nat
         /\ acct[Main] \in Account => Cardinality(Others) = Cardinality(Account) - 1
<1>1. IsFiniteSet(Others) /\ IsFiniteSet(Merged)
  BY PoolAssumption, FS_Subset DEF Others, Merged
<1>2. Cardinality(Merged) \in Nat
  BY <1>1, FS_CardinalityType
<1>3. acct[Main] \in Account => Cardinality(Others) = Cardinality(Account) - 1
  BY PoolAssumption, FS_RemoveElement DEF Others
<1> QED
  BY <1>1, <1>2, <1>3

(* When the count is reached nothing is left: neither waiting, nor being   *)
(* fetched, nor in the channel.                                            *)
LEMMA AllMerged ==
  ASSUME FetchInv, Merging, count = expected
  PROVE  /\ Merged = Others
         /\ tasks = {} /\ results = {}
         /\ \A w \in Worker : pc[w] \in {"idle", "exit"}
<1>1. acct[Main] \in Account /\ Main \in Thread
  BY DEF FetchInv, TypeOK, Placed, Merging, InLoop, Thread
<1>2. Cardinality(Merged) = Cardinality(Others)
  BY <1>1, MergedFinite DEF FetchInv, Counted
<1>3. Merged = Others
  BY <1>2, MergedFinite, FS_Subset DEF Merged
<1>4. tasks = {} /\ results = {}
  BY <1>3 DEF FetchInv, Apart
<1>5. \A w \in Worker : pc[w] \in {"idle", "exit"}
  BY <1>3 DEF FetchInv, Apart, Placed, Working
<1> QED
  BY <1>3, <1>4, <1>5

(* The invariant has PoolInv in it.                                        *)
LEMMA FetchInvImplies == FetchInv => PoolInv
<1> SUFFICES ASSUME FetchInv
             PROVE  PoolInv
  OBVIOUS
<1>1. LoginExcludesAll
  BY DEF FetchInv, LoginHoldsLock, LoginExcludesAll
<1>2. ASSUME pc[Main] = "done"
      PROVE  /\ results = {} /\ \A w \in Worker : pc[w] \in {"idle", "exit"}
             /\ \A a \in Account : merged[a] = FirstPages(PageCount)
  <2>1. Merging /\ count = expected
    BY <1>2 DEF FetchInv, Counted, Merging
  <2> QED
    BY <2>1, AllMerged DEF FetchInv, Listed, Others
<1>3. NoSendAfterClose /\ CompleteWhenDone
  BY <1>2 DEF NoSendAfterClose, CompleteWhenDone, FirstPages, Page
<1> QED
  BY <1>1, <1>3 DEF FetchInv, PoolInv

-----------------------------------------------------------------------------
(* addSSORoles and its workers.                                            *)

(* Main takes the first account for itself.                                *)
LEMMA TakeFirstKeeps ==
  ASSUME FetchInv, ~crashed, TakeFirst
  PROVE  FetchInv'
<1> USE PoolAssumption DEF TakeFirst, shared, pool
<1>1. /\ pc \in [Thread -> PC] /\ Main \in Thread /\ acct \in [Thread -> Account \union {None}]
      /\ ~Merging
  BY DEF FetchInv, TypeOK, Thread, Merging
<1>2. PICK a \in Account : acct' = [acct EXCEPT ![Main] = a]
  OBVIOUS
<1>3. pc'[Main] = "check" /\ acct'[Main] = a /\ ~Merging'
  BY <1>1, <1>2 DEF Goto, Merging
<1>4. TypeOK'
  BY <1>1, <1>2 DEF FetchInv, TypeOK, PC, Goto
<1>5. CallsLeft' /\ LoginHoldsLock' /\ Placed' /\ Quiet'
  BY <1>1, <1>2, <1>3
     DEF FetchInv, CallsLeft, LoginHoldsLock, Placed, Quiet, InLoop, Fetching, Goto, Thread
<1>6. Apart' /\ Counted'
  BY <1>3 DEF Apart, Counted
<1>7. Listed'
  BY <1>1, <1>2, <1>3 DEF FetchInv, Quiet, Listed, ListedBy, InLoop, Goto, Thread
<1> QED
  BY <1>4, <1>5, <1>6, <1>7 DEF FetchInv

(* A worker takes a task from the channel.                                 *)
LEMMA TakeTaskKeeps ==
  ASSUME FetchInv, ~crashed, NEW w \in Worker, TakeTask(w)
  PROVE  FetchInv'
<1> USE PoolAssumption DEF TakeTask, Started, shared, Goto
<1>1. /\ pc \in [Thread -> PC] /\ Main \in Thread /\ w \in Thread /\ w # Main
      /\ acct \in [Thread -> Account \union {None}] /\ Merging
  BY DEF FetchInv, TypeOK, Thread, Merging
<1>2. Merging' /\ pc'[Main] = pc[Main] /\ acct'[Main] = acct[Main]
  BY <1>1 DEF Merging
<1>3. Others' = Others /\ Merged' = Merged
  BY <1>2 DEF Others, Merged
<1>4. TypeOK'
  BY <1>1 DEF FetchInv, TypeOK, PC
<1>5. CallsLeft' /\ LoginHoldsLock' /\ Placed' /\ Quiet' /\ Counted'
  BY <1>1, <1>2, <1>3
     DEF FetchInv, CallsLeft, LoginHoldsLock, Placed, Quiet, Counted, InLoop, Fetching, Thread
<1>6. CASE tasks = {}
  <2>1. pc' = [pc EXCEPT ![w] = "exit"] /\ UNCHANGED <<acct, tasks, results>>
    BY <1>6
  <2>2. \A v \in Worker : Working(v)' => Working(v)
    BY <1>1, <2>1 DEF Working, Fetching
  <2> HIDE DEF TakeTask
  <2>3. Apart'
    BY <1>1, <1>2, <1>3, <2>1, <2>2 DEF FetchInv, Apart
  <2>4. Listed'
    BY <1>1, <1>2, <1>3, <1>6 DEF TakeTask, FetchInv, Listed, ListedBy, InLoop
  <2> QED
    BY <1>4, <1>5, <2>3, <2>4 DEF FetchInv
<1>7. CASE \E a \in tasks : /\ acct' = [acct EXCEPT ![w] = a]
                           /\ tasks' = tasks \ {a}
                           /\ Goto(w, "check")
  <2>1. PICK a \in tasks : /\ acct' = [acct EXCEPT ![w] = a]
                           /\ tasks' = tasks \ {a}
                           /\ pc' = [pc EXCEPT ![w] = "check"]
    BY <1>7
  <2>2. \A v \in Worker \ {w} : (Working(v)' <=> Working(v)) /\ acct'[v] = acct[v]
    BY <1>1, <2>1 DEF Working
  <2>3. Apart'
    BY <1>1, <1>2, <1>3, <2>1, <2>2 DEF FetchInv, Apart
  <2>4. Listed'
    BY <1>1, <1>2, <1>3, <2>1 DEF FetchInv, Listed, ListedBy, InLoop
  <2> QED
    BY <1>4, <1>5, <2>3, <2>4 DEF FetchInv
<1> QED
  BY <1>6, <1>7

(* A worker sends the roles of its account.                                *)
LEMMA SendKeeps ==
  ASSUME FetchInv, ~crashed, NEW w \in Worker, SendResult(w)
  PROVE  FetchInv'
<1> USE PoolAssumption DEF SendResult, shared, local, Goto
<1>1. /\ pc \in [Thread -> PC] /\ Main \in Thread /\ w \in Thread /\ w # Main
      /\ Working(w) /\ acct[w] \in Account /\ Merging /\ roles[acct[w]] = FirstPages(PageCount)
  BY WorkerHasAccount DEF FetchInv, TypeOK, Thread, Working, Listed, ListedBy
<1>2. Merging' /\ pc'[Main] = pc[Main]
  BY <1>1 DEF Merging
<1>3. Others' = Others /\ Merged' = Merged
  BY DEF Others, Merged
<1>4. TypeOK'
  BY <1>1 DEF FetchInv, TypeOK, PC
<1>5. CallsLeft' /\ LoginHoldsLock' /\ Placed' /\ Quiet' /\ Counted'
  BY <1>1, <1>2, <1>3
     DEF FetchInv, CallsLeft, LoginHoldsLock, Placed, Quiet, Counted, InLoop, Fetching, Thread
<1>6. ~Working(w)' /\ \A v \in Worker \ {w} : Working(v)' <=> Working(v)
  BY <1>1 DEF Working, Fetching
<1>7. Apart'
  BY <1>1, <1>2, <1>3, <1>6 DEF FetchInv, Apart
<1>8. Listed'
  BY <1>1, <1>2, <1>3 DEF FetchInv, Listed, ListedBy, InLoop
<1> QED
  BY <1>4, <1>5, <1>7, <1>8 DEF FetchInv

(* Main merges a result.                                                   *)
LEMMA CollectKeeps ==
  ASSUME FetchInv, ~crashed, Collect
  PROVE  FetchInv'
<1> USE PoolAssumption DEF Collect, shared, local
<1>1. merged \in [Account -> Seq(Role)] /\ roles \in [Account -> Seq(Role)] /\ Merging
  BY DEF FetchInv, TypeOK, Merging
<1>2. PICK a \in results : /\ results' = results \ {a}
                           /\ merged' = [merged EXCEPT ![a] = roles[a]]
  OBVIOUS
<1>3. /\ a \in Others /\ a \in Account /\ a \notin Merged /\ a \notin tasks
      /\ roles[a] = FirstPages(PageCount) /\ merged'[a] # <<>>
  BY <1>1, <1>2, AllPages DEF FetchInv, TypeOK, Apart, Listed, Others
<1>4. Others' = Others /\ Merging'
  BY <1>1 DEF Others, Merging
<1>5. Merged' = Merged \union {a}
  BY <1>1, <1>2, <1>3, <1>4 DEF Merged
<1>6. TypeOK'
  BY <1>1, <1>2 DEF FetchInv, TypeOK
<1>7. CallsLeft' /\ LoginHoldsLock' /\ Placed' /\ Quiet'
  BY <1>4 DEF FetchInv, CallsLeft, LoginHoldsLock, Placed, Quiet
<1>8. Counted'
  <2>1. Cardinality(Merged') = Cardinality(Merged) + 1
    BY <1>3, <1>5, MergedFinite, FS_AddElement
  <2> QED
    BY <1>1, <2>1 DEF FetchInv, Counted
<1>9. Apart' /\ Listed'
  <2>1. Apart'
    BY <1>1, <1>2, <1>3, <1>4, <1>5 DEF FetchInv, Apart, Working
  <2>2. Listed'
    BY <1>1, <1>2, <1>3, <1>4, <1>5 DEF FetchInv, Listed, ListedBy, TypeOK
  <2> QED
    BY <2>1, <2>2
<1> QED
  BY <1>6, <1>7, <1>8, <1>9 DEF FetchInv

(* The end of the merge, the ticker, and AWS.                              *)
LEMMA OthersKeep ==
  ASSUME FetchInv, ~crashed, CloseResults \/ Tick \/ Expire
  PROVE  FetchInv'
<1> USE PoolAssumption DEF local, pool
<1>1. pc \in [Thread -> PC] /\ Main \in Thread
  BY DEF FetchInv, TypeOK, Thread
<1>2. CASE CloseResults
  <2> USE <1>1, <1>2 DEF CloseResults, Goto, shared
  <2>1. Merging /\ Merging' /\ \A w \in Worker : pc'[w] = pc[w]
    BY DEF Merging
  <2>2. TypeOK'
    BY DEF FetchInv, TypeOK, PC
  <2>3. CallsLeft' /\ LoginHoldsLock' /\ Placed' /\ Quiet'
    BY <2>1 DEF FetchInv, CallsLeft, LoginHoldsLock, Placed, Quiet, InLoop
  <2>4. Apart' /\ Counted' /\ Listed'
    BY <2>1 DEF FetchInv, Apart, Counted, Listed, ListedBy, Merged, Others, Working, InLoop
  <2> QED
    BY <2>2, <2>3, <2>4 DEF FetchInv
<1>3. CASE Tick \/ Expire
  <2>1. /\ UNCHANGED <<pc, acct, page, attempts, input, token, rolesLock, roles>>
        /\ UNCHANGED <<tasks, results, expected, count, merged, crashed>>
    BY <1>3 DEF Tick, Expire, shared
  <2>2. TypeOK'
    <3>1. CASE Tick
      BY <2>1, <3>1 DEF FetchInv, TypeOK, Tick, shared
    <3>2. CASE Expire
      BY <2>1, <3>2 DEF FetchInv, TypeOK, Expire
    <3> QED
      BY <1>3, <3>1, <3>2
  <2>3. CallsLeft' /\ LoginHoldsLock' /\ Placed' /\ Quiet'
    BY <2>1 DEF FetchInv, CallsLeft, LoginHoldsLock, Placed, Quiet, Merging
  <2>4. Apart' /\ Counted' /\ Listed'
    BY <2>1 DEF FetchInv, Apart, Counted, Listed, ListedBy, Merged, Others, Working, Merging
  <2> QED
    BY <2>2, <2>3, <2>4 DEF FetchInv
<1> QED
  BY <1>2, <1>3

(***************************************************************************)
(* Every step keeps the invariant.                                         *)
(***************************************************************************)
LEMMA FetchInvNext == FetchInv /\ [Next]_vars => FetchInv'
<1> SUFFICES ASSUME FetchInv, [Next]_vars
             PROVE  FetchInv'
  OBVIOUS
<1>1. ASSUME NEW t \in Thread, Step(t)
      PROVE  FetchInv'
  BY <1>1, LoopsKeep, LoginsKeep, ReadsKeep, ChecksKeep, AddsKeep, TakeFirstKeeps, TakeTaskKeeps,
     SendKeeps, CollectKeeps, OthersKeep
     DEF Step, Running
<1>2. CASE ~crashed /\ (Expire \/ Tick)
  BY <1>2, OthersKeep
<1>3. CASE UNCHANGED vars
  <2> USE <1>3 DEF vars, local, shared, pool
  <2>1. TypeOK'
    BY DEF FetchInv, TypeOK
  <2>2. CallsLeft' /\ LoginHoldsLock' /\ Placed' /\ Quiet'
    BY DEF FetchInv, CallsLeft, LoginHoldsLock, Placed, Quiet, Merging
  <2>3. Apart' /\ Counted' /\ Listed'
    BY DEF FetchInv, Apart, Counted, Listed, ListedBy, Merged, Others, Working, Merging
  <2> QED
    BY <2>1, <2>2, <2>3 DEF FetchInv
<1> QED
  BY <1>1, <1>2, <1>3 DEF Next, Finished

(* Who holds rolesLock, where each account is and what the channels still  *)
(* hold, at any moment of a refresh (cache_refresh.go, awssso.go).         *)
THEOREM FetchCorrect == Spec => []FetchInv
BY FetchInvInit, FetchInvNext, PTL DEF Spec

(* A refresh that ends has every account's roles, all of them and once;    *)
(* nobody sends to the closed channel; and one goroutine at a time logs in *)
(* (cache_refresh.go, awssso.go), whatever fails and is retried.           *)
THEOREM NothingMissing == Spec => []PoolInv
BY FetchCorrect, FetchInvImplies, PTL
=============================================================================
