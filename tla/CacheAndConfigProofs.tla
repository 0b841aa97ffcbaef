---------------------- MODULE CacheAndConfigProofs ----------------------
(***************************************************************************)
(* Proofs about two components whose loops go over lists of any length:    *)
(* the role cache (RoleCache), for any roles and any settings of the       *)
(* history, and the files of the user in which aws-sso keeps its blocks    *)
(* (ConfigFile), for any SSO instances, lines and versions of a block.     *)
(*                                                                         *)
(* Of the cache: the list and the History tags agree, a refresh loses      *)
(* nothing that is known of a role, and reports what it changes.  Of the   *)
(* files: the user's lines stay, and each block is there once, in one      *)
(* piece, as it was last written.  deleteOldHistory and removeBlock are    *)
(* functions over a list, so what they compute is proved by induction over *)
(* its length.                                                             *)
(***************************************************************************)
EXTENDS RoleCache, ConfigFile, FiniteSetTheorems, WellFoundedInduction, TLAPS

(* Induction over the numbers, for a set instead of a property.            *)
LEMMA Induction ==
  ASSUME NEW S, S \subseteq Nat, 0 \in S, \A n \in S : n + 1 \in S
  PROVE  S = Nat
<1> DEFINE R == {ss \in Nat \X Nat : ss[1] < ss[2]}
<1> SUFFICES ASSUME Nat \ S # {}
             PROVE  FALSE
  OBVIOUS
<1>1. IsWellFoundedOn(R, Nat)
  BY NatLessThanWellFounded DEF OpToRel
<1>2. PICK x \in Nat \ S : \A y \in Nat \ S : <<y, x>> \notin R
  <2> HIDE DEF R
  <2> QED
    BY <1>1, WFMin
<1>3. x # 0 /\ x - 1 \in Nat /\ <<x - 1, x>> \in R
  OBVIOUS
<1>4. x - 1 \in S
  BY <1>2, <1>3
<1>5. (x - 1) + 1 = x
  OBVIOUS
<1> QED
  BY <1>2, <1>4, <1>5

(* A set of numbers that is not empty has a least one.                     *)
LEMMA Least ==
  ASSUME NEW I, I \subseteq Nat, I # {}
  PROVE  \E x \in I : \A y \in I : x <= y
<1> DEFINE R == {ss \in Nat \X Nat : ss[1] < ss[2]}
<1>1. IsWellFoundedOn(R, Nat)
  BY NatLessThanWellFounded DEF OpToRel
<1>2. PICK x \in I : \A y \in I : <<y, x>> \notin R
  <2> HIDE DEF R
  <2> QED
    BY <1>1, WFMin
<1>3. \A y \in I : y < x => <<y, x>> \in R
  OBVIOUS
<1> HIDE DEF R
<1>4. \A y \in I : ~ (y < x)
  BY <1>2, <1>3
<1>5. x \in Nat /\ \A y \in I : y \in Nat
  OBVIOUS
<1>6. \A y \in I : x <= y
  BY <1>4, <1>5
<1> QED
  BY <1>6

-----------------------------------------------------------------------------
(* Lists and what is taken from them.                                      *)

(* RemoveFirst takes the item at place p, or nothing when p lies behind    *)
(* the end of the list.                                                    *)
Taken(list, r, rest, p) ==
  /\ p <= Len(list) => list[p] = r
  /\ p = Len(list) + 1 => \A i \in 1..Len(list) : list[i] # r
  /\ Len(rest) = IF p <= Len(list) THEN Len(list) - 1 ELSE Len(list)
  /\ \A i \in 1..Len(rest) : rest[i] = IF i < p THEN list[i] ELSE list[i + 1]

(* RemoveFirst takes the first item equal to r, or nothing.                *)
LEMMA RemoveFirstTakes ==
  ASSUME NEW T, NEW list \in Seq(T), NEW r
  PROVE  /\ RemoveFirst(list, r) \in Seq(T)
         /\ \E p \in 1..Len(list) + 1 : Taken(list, r, RemoveFirst(list, r), p)
<1>1. CASE \E i \in 1..Len(list) : list[i] = r
  <2> DEFINE I == {i \in 1..Len(list) : list[i] = r}
             p == Min(I)
             rest == SubSeq(list, 1, p - 1) \o SubSeq(list, p + 1, Len(list))
  <2>1. p \in I
    <3>1. \E x \in I : \A y \in I : x <= y
      <4>1. I \subseteq Nat /\ I # {}
        BY <1>1
      <4> HIDE DEF I
      <4> QED
        BY <4>1, Least
    <3> QED
      BY <3>1 DEF Min
  <2>2. RemoveFirst(list, r) = rest
    BY <1>1 DEF RemoveFirst, RemoveAt, SelectInSeq
  <2>3. p \in 1..Len(list) /\ list[p] = r
    BY <2>1
  <2> HIDE DEF p
  <2>4. rest \in Seq(T) /\ Taken(list, r, rest, p)
    <3> DEFINE a == SubSeq(list, 1, p - 1)
               b == SubSeq(list, p + 1, Len(list))
    <3>1. a \in Seq(T) /\ Len(a) = p - 1 /\ \A i \in 1..(p - 1) : a[i] = list[i]
      BY <2>3
    <3>2. /\ b \in Seq(T) /\ Len(b) = Len(list) - p
          /\ \A i \in 1..(Len(list) - p) : b[i] = list[i + p]
      BY <2>3
    <3> HIDE DEF a, b
    <3>3. a \o b \in Seq(T) /\ Len(a \o b) = Len(list) - 1
      <4>1. a \o b \in Seq(T) /\ Len(a \o b) = Len(a) + Len(b)
        BY <3>1, <3>2
      <4>2. Len(list) \in Nat /\ (p - 1) + (Len(list) - p) = Len(list) - 1
        BY <2>3
      <4> QED
        BY <3>1, <3>2, <4>1, <4>2
    <3>4. ASSUME NEW i \in 1..(Len(list) - 1)
          PROVE  (a \o b)[i] = IF i < p THEN list[i] ELSE list[i + 1]
      <4>1. CASE i < p
        BY <2>3, <3>1, <3>2, <4>1
      <4>2. CASE ~ (i < p)
        <5>1. (a \o b)[i] = b[i - (p - 1)]
          BY <2>3, <3>1, <3>2, <4>2
        <5>2. i - (p - 1) \in 1..(Len(list) - p) /\ (i - (p - 1)) + p = i + 1
          BY <2>3, <4>2
        <5>3. b[i - (p - 1)] = list[(i - (p - 1)) + p]
          BY <3>2, <5>2
        <5> QED
          BY <4>2, <5>1, <5>2, <5>3
      <4> QED
        BY <4>1, <4>2
    <3>5. rest = a \o b
      BY DEF a, b
    <3> HIDE DEF rest
    <3>6. /\ rest \in Seq(T) /\ Len(rest) = Len(list) - 1
          /\ \A i \in 1..(Len(list) - 1) : rest[i] = IF i < p THEN list[i] ELSE list[i + 1]
      BY <3>3, <3>4, <3>5
    <3> QED
      BY <2>3, <3>6 DEF Taken
  <2> QED
    BY <2>2, <2>3, <2>4
<1>2. CASE ~ \E i \in 1..Len(list) : list[i] = r
  <2>1. RemoveFirst(list, r) = list
    BY <1>2 DEF RemoveFirst
  <2>2. Taken(list, r, list, Len(list) + 1)
    BY <1>2 DEF Taken
  <2> QED
    BY <2>1, <2>2
<1> QED
  BY <1>1, <1>2

(* The loop of deleteOldHistory moves an item down by one or leaves it.    *)
LEMMA MovedDownMoves ==
  ASSUME NEW array \in Seq(Role), NEW len \in 0..Len(array), NEW r
  PROVE  LET moved == MovedDown(array, len, r) IN
           /\ moved.array \in Seq(Role) /\ Len(moved.array) = Len(array)
           /\ moved.len \in 0..len
           /\ \A i \in 1..Len(array) :
                \/ moved.array[i] = array[i]
                \/ i + 1 <= Len(array) /\ moved.array[i] = array[i + 1]
<1> DEFINE list == SubSeq(array, 1, len)
           rest == RemoveFirst(list, r)
           end == SubSeq(array, Len(rest) + 1, Len(array))
<1>1. list \in Seq(Role) /\ Len(list) = len /\ \A i \in 1..len : list[i] = array[i]
  OBVIOUS
<1>2. rest \in Seq(Role) /\ \E p \in 1..Len(list) + 1 : Taken(list, r, rest, p)
  <2> HIDE DEF list
  <2> QED
    BY <1>1, RemoveFirstTakes
<1>3. PICK p \in 1..len + 1 : Taken(list, r, rest, p)
  BY <1>1, <1>2
<1>4. MovedDown(array, len, r) = [array |-> rest \o end, len |-> Len(rest)]
  BY DEF MovedDown
<1> HIDE DEF list, rest
<1>5. Len(rest) \in 0..len
  BY <1>1, <1>2, <1>3 DEF Taken
<1>6. /\ end \in Seq(Role) /\ Len(end) = Len(array) - Len(rest)
      /\ \A i \in 1..Len(end) : end[i] = array[i + Len(rest)]
  BY <1>2, <1>5
<1> HIDE DEF end
<1>7. ASSUME NEW i \in 1..Len(array)
      PROVE  \/ (rest \o end)[i] = array[i]
             \/ i + 1 <= Len(array) /\ (rest \o end)[i] = array[i + 1]
  <2>1. CASE i <= Len(rest)
    <3>1. (rest \o end)[i] = rest[i]
      BY <1>2, <1>6, <2>1
    <3>2. rest[i] = IF i < p THEN list[i] ELSE list[i + 1]
      BY <1>3, <2>1 DEF Taken
    <3>3. i < p => list[i] = array[i]
      BY <1>1, <1>5, <2>1
    <3>4. i >= p => i + 1 <= len /\ list[i + 1] = array[i + 1]
      BY <1>1, <1>3, <1>5, <2>1 DEF Taken
    <3> QED
      BY <3>1, <3>2, <3>3, <3>4
  <2>2. CASE i > Len(rest)
    BY <1>2, <1>5, <1>6, <2>2
  <2>3. i <= Len(rest) \/ i > Len(rest)
    BY <1>5
  <2> QED
    BY <2>1, <2>2, <2>3
<1>8. rest \o end \in Seq(Role) /\ Len(rest \o end) = Len(array)
  BY <1>2, <1>5, <1>6
<1> QED
  BY <1>4, <1>5, <1>7, <1>8

-----------------------------------------------------------------------------
(* The loop of deleteOldHistory.                                           *)
Before(c) == [array |-> c.history, len |-> Len(c.history), kept |-> <<>>, cache |-> c]

(* f is the loop over the first n places, one state of it after the other. *)
IsVisit(f, c, n) == f = [i \in 0..n |-> IF i = 0 THEN Before(c) ELSE VisitItem(f[i - 1], i)]

(* There is such a function, so Visited, which CHOOSEs it, is one.         *)
LEMMA VisitExists ==
  ASSUME NEW c
  PROVE  \A n \in Nat : \E f : IsVisit(f, c, n)
<1> DEFINE S == {n \in Nat : \E f : IsVisit(f, c, n)}
<1>1. 0 \in S
  <2>1. IsVisit([i \in 0..0 |-> Before(c)], c, 0)
    BY DEF IsVisit
  <2> QED
    BY <2>1
<1>2. ASSUME NEW n \in S
      PROVE  n + 1 \in S
  <2>1. PICK f : IsVisit(f, c, n)
    OBVIOUS
  <2> DEFINE h == [i \in 0..(n + 1) |-> IF i = n + 1 THEN VisitItem(f[n], i) ELSE f[i]]
  <2>2. ASSUME NEW i \in 0..(n + 1)
        PROVE  h[i] = IF i = 0 THEN Before(c) ELSE VisitItem(h[i - 1], i)
    <3>1. CASE i = 0
      BY <2>1, <3>1 DEF IsVisit
    <3>2. CASE i # 0 /\ i # n + 1
      <4>1. i \in 0..n /\ i - 1 \in 0..n
        BY <3>2
      <4>2. f[i] = VisitItem(f[i - 1], i)
        BY <2>1, <3>2, <4>1 DEF IsVisit
      <4> QED
        BY <3>2, <4>1, <4>2
    <3>3. CASE i = n + 1
      <4>1. i - 1 = n /\ h[n] = f[n]
        BY <3>3
      <4> QED
        BY <3>3, <4>1
    <3> QED
      BY <3>1, <3>2, <3>3
  <2>3. IsVisit(h, c, n + 1)
    <3>1. h = [i \in 0..(n + 1) |-> h[i]]
      OBVIOUS
    <3> HIDE DEF h
    <3> QED
      BY <2>2, <3>1 DEF IsVisit
  <2> QED
    BY <2>3
<1>3. S = Nat
  <2> HIDE DEF S
  <2>1. S \subseteq Nat
    BY DEF S
  <2> QED
    BY <1>1, <1>2, <2>1, Induction
<1> QED
  BY <1>3

(* The loop, step by step: Visited begins with Before and goes on by       *)
(* VisitItem.                                                              *)
LEMMA VisitSteps ==
  ASSUME NEW c, Len(c.history) \in Nat
  PROVE  /\ Visited(c)[0] = Before(c)
         /\ \A i \in 1..Len(c.history) : Visited(c)[i] = VisitItem(Visited(c)[i - 1], i)
<1> DEFINE n == Len(c.history)
<1>1. PICK f : IsVisit(f, c, n)
  BY VisitExists
<1>2. Visited(c) = CHOOSE g : IsVisit(g, c, n)
  BY DEF Visited, IsVisit, Before
<1>3. IsVisit(Visited(c), c, n)
  BY <1>1, <1>2
<1> HIDE DEF n
<1>4. n \in Nat
  BY DEF n
<1> DEFINE v == Visited(c)
<1>5. v = [i \in 0..n |-> IF i = 0 THEN Before(c) ELSE VisitItem(v[i - 1], i)]
  BY <1>3 DEF IsVisit
<1> HIDE DEF v
<1>6. \A i \in 0..n : v[i] = IF i = 0 THEN Before(c) ELSE VisitItem(v[i - 1], i)
  BY <1>5
<1>7. 0 \in 0..n /\ \A i \in 1..n : i \in 0..n /\ i # 0
  BY <1>4
<1> QED
  BY <1>6, <1>7 DEF n, v

(* What VisitItem does with an item: it is kept, or taken out of the array *)
(* and, when it was known, forgotten.                                      *)
LoopState == [array : Seq(Role), len : Nat, kept : Seq(Role), cache : Cache]

(* An item that the loop keeps.                                            *)
Fresh(c, r) == ~Unknown(c, r) /\ ~Old(c, r)

(* VisitItem keeps what is fresh and takes out everything else.            *)
LEMMA VisitCases ==
  ASSUME NEW s \in LoopState, NEW i \in 1..Len(s.array)
  PROVE  LET r == s.array[i]
             moved == MovedDown(s.array, s.len, r) IN
           /\ Fresh(s.cache, r) => VisitItem(s, i) = [s EXCEPT !.kept = Append(@, r)]
           /\ ~Fresh(s.cache, r) =>
                \E c \in {s.cache, Forget(s.cache, r)} :
                  VisitItem(s, i) = [array |-> moved.array, len |-> moved.len,
                                     kept |-> s.kept, cache |-> c]
<1> DEFINE r == s.array[i]
           moved == MovedDown(s.array, s.len, r)
<1>1. CASE Fresh(s.cache, r)
  BY <1>1 DEF Fresh, VisitItem
<1>2. CASE Unknown(s.cache, r)
  BY <1>2 DEF Fresh, VisitItem, LoopState
<1>3. CASE ~Unknown(s.cache, r) /\ Old(s.cache, r)
  BY <1>3 DEF Fresh, VisitItem, LoopState
<1> QED
  BY <1>1, <1>2, <1>3 DEF Fresh

(* A forgotten role has lost its tag; nothing else of the cache changes.   *)
LEMMA Forgotten ==
  ASSUME NEW c \in Cache, NEW r \in Role
  PROVE  /\ Forget(c, r) \in Cache
         /\ Forget(c, r).roles = c.roles /\ Forget(c, r).expires = c.expires
         /\ Forget(c, r).history = c.history
         /\ \A q \in Role : Forget(c, r).tag[q] = IF q = r THEN Never ELSE c.tag[q]
<1>1. Forget(c, r) = [roles |-> c.roles, expires |-> c.expires,
                      tag |-> [c.tag EXCEPT ![r] = Never], history |-> c.history]
  <2>1. c = [roles |-> c.roles, expires |-> c.expires, tag |-> c.tag, history |-> c.history]
    BY DEF Cache
  <2> DEFINE f == c.tag
  <2>2. Forget(c, r) = [c EXCEPT !.tag = [f EXCEPT ![r] = Never]]
    BY DEF Forget
  <2> HIDE DEF f
  <2> QED
    BY <2>1, <2>2 DEF f
<1>2. [c.tag EXCEPT ![r] = Never] \in [Role -> Time \union {Never}]
  BY DEF Cache
<1>3. \A q \in Role : [c.tag EXCEPT ![r] = Never][q] = IF q = r THEN Never ELSE c.tag[q]
  BY DEF Cache
<1> QED
  BY <1>1, <1>2, <1>3 DEF Cache

(* The values of the loop, whatever the list holds.                        *)
Loop(c, s, i) ==
  /\ s \in LoopState
  /\ Len(s.array) = Len(c.history) /\ s.len <= Len(c.history) /\ Len(s.kept) <= i
  /\ s.cache.roles = c.roles /\ s.cache.expires = c.expires /\ s.cache.history = c.history
  /\ \A r \in Role : s.cache.tag[r] \in {c.tag[r], Never}

(* One step of the loop.                                                   *)
LEMMA LoopStep ==
  ASSUME NEW c \in Cache, NEW s, NEW i \in 1..Len(c.history), Loop(c, s, i - 1)
  PROVE  Loop(c, VisitItem(s, i), i)
<1> DEFINE r == s.array[i]
           moved == MovedDown(s.array, s.len, r)
<1>1. s \in LoopState /\ i \in 1..Len(s.array) /\ r \in Role /\ s.len \in 0..Len(s.array)
  BY DEF Loop, LoopState
<1>2. /\ moved.array \in Seq(Role) /\ Len(moved.array) = Len(c.history)
      /\ moved.len \in Nat /\ moved.len <= Len(c.history)
  BY <1>1, MovedDownMoves DEF Loop, LoopState
<1> HIDE DEF moved
<1>3. CASE Fresh(s.cache, r)
  <2>1. VisitItem(s, i) = [s EXCEPT !.kept = Append(@, r)]
    BY <1>1, <1>3, VisitCases
  <2>2. Append(s.kept, r) \in Seq(Role) /\ Len(Append(s.kept, r)) <= i
    BY <1>1 DEF Loop, LoopState
  <2> QED
    BY <1>1, <2>1, <2>2 DEF Loop, LoopState
<1>4. CASE ~Fresh(s.cache, r)
  <2>1. PICK d \in {s.cache, Forget(s.cache, r)} :
          VisitItem(s, i) = [array |-> moved.array, len |-> moved.len, kept |-> s.kept, cache |-> d]
    BY <1>1, <1>4, VisitCases DEF moved
  <2>2. /\ d \in Cache /\ d.roles = c.roles /\ d.expires = c.expires /\ d.history = c.history
        /\ \A q \in Role : d.tag[q] \in {c.tag[q], Never}
    <3>1. /\ s.cache \in Cache /\ s.cache.roles = c.roles /\ s.cache.expires = c.expires
          /\ s.cache.history = c.history
          /\ \A q \in Role : s.cache.tag[q] \in {c.tag[q], Never}
      BY DEF Loop, LoopState
    <3>2. CASE d = s.cache
      BY <3>1, <3>2
    <3>3. CASE d = Forget(s.cache, r)
      <4>1. /\ d \in Cache /\ d.roles = s.cache.roles /\ d.expires = s.cache.expires
            /\ d.history = s.cache.history
            /\ \A q \in Role : d.tag[q] = IF q = r THEN Never ELSE s.cache.tag[q]
        BY <1>1, <3>1, <3>3, Forgotten
      <4> QED
        BY <3>1, <4>1
    <3> QED
      BY <2>1, <3>2, <3>3
  <2> QED
    BY <1>1, <1>2, <2>1, <2>2 DEF Loop, LoopState
<1> QED
  BY <1>3, <1>4

(* Every state of the loop, by induction over the places.                  *)
LEMMA LoopHolds ==
  ASSUME NEW c \in Cache
  PROVE  \A i \in 0..Len(c.history) : Loop(c, Visited(c)[i], i)
<1> DEFINE n == Len(c.history)
           S == {i \in Nat : i <= n => Loop(c, Visited(c)[i], i)}
<1>1. n \in Nat /\ c.history \in Seq(Role)
  BY DEF Cache
<1>2. 0 \in S
  <2>1. Loop(c, Before(c), 0)
    BY <1>1 DEF Loop, LoopState, Before
  <2> QED
    BY <1>1, <2>1, VisitSteps
<1>3. ASSUME NEW i \in S
      PROVE  i + 1 \in S
  <2> SUFFICES ASSUME i + 1 <= n
               PROVE  Loop(c, Visited(c)[i + 1], i + 1)
    OBVIOUS
  <2>1. i + 1 \in 1..n /\ (i + 1) - 1 = i
    BY <1>1
  <2>2. Loop(c, Visited(c)[i], (i + 1) - 1)
    BY <1>1, <2>1
  <2>3. Visited(c)[i + 1] = VisitItem(Visited(c)[i], i + 1)
    BY <1>1, <2>1, VisitSteps
  <2> QED
    BY <2>1, <2>2, <2>3, LoopStep
<1>4. S = Nat
  <2>1. S \subseteq Nat
    OBVIOUS
  <2> HIDE DEF S
  <2> QED
    BY <1>2, <1>3, <2>1, Induction
<1> QED
  BY <1>1, <1>4

(* Without a stranger, and with the tags in the order of the list, what is *)
(* fresh comes before what is not.                                         *)
FreshFirst(c) ==
  \A i, j \in 1..Len(c.history) : i < j /\ Fresh(c, c.history[j]) => Fresh(c, c.history[i])

(* Then the loop keeps the first k items.  Up to there it leaves all as it *)
(* is; behind it everything it sees is from behind k, and is dropped.      *)
Keeps(c, s, i, k) ==
  LET h == c.history IN
  /\ \A j \in 1..k : Fresh(c, h[j])
  /\ s.kept = SubSeq(h, 1, k)
  /\ k < i => \A j \in k + 1..Len(h) : ~Fresh(c, h[j])
  /\ k = i => s.array = h /\ s.cache = c
  /\ \A j \in k + 1..Len(h) : \E m \in k + 1..Len(h) : s.array[j] = h[m]
  /\ \A r \in Role : s.cache.tag[r] # c.tag[r] => \E m \in k + 1..Len(h) : r = h[m]

(* One step: either the item is fresh, and nothing was dropped before it,  *)
(* or it is dropped and all that follow are.                               *)
LEMMA KeepsStep ==
  ASSUME NEW c \in Cache, FreshFirst(c),
         NEW s, NEW i \in 1..Len(c.history), Loop(c, s, i - 1),
         NEW k \in 0..(i - 1), Keeps(c, s, i - 1, k)
  PROVE  \E l \in 0..i : Keeps(c, VisitItem(s, i), i, l)
<1> DEFINE h == c.history
           r == s.array[i]
           moved == MovedDown(s.array, s.len, r)
           t == VisitItem(s, i)
<1>1. /\ s \in LoopState /\ i \in 1..Len(s.array) /\ r \in Role
      /\ s.len \in 0..Len(s.array) /\ Len(s.array) = Len(h) /\ h \in Seq(Role)
  <2>1. h \in Seq(Role) /\ Len(h) \in Nat
    BY DEF Cache
  <2>2. s \in LoopState /\ Len(s.array) = Len(h) /\ s.len <= Len(h)
    BY DEF Loop
  <2>3. s.array \in Seq(Role) /\ s.len \in Nat
    BY <2>2 DEF LoopState
  <2> HIDE DEF h
  <2>4. i \in 1..Len(h)
    BY DEF h
  <2> QED
    BY <2>1, <2>2, <2>3, <2>4
<1>2. /\ k = i - 1 => r = h[i] /\ s.cache = c
      /\ \E m \in k + 1..Len(h) : r = h[m]
      /\ k < i - 1 => ~Fresh(s.cache, r)
  <2>1. k = i - 1 => r = h[i] /\ s.cache = c
    BY DEF Keeps
  <2>2. \E m \in k + 1..Len(h) : r = h[m]
    BY <1>1 DEF Keeps
  <2>3. ASSUME k < i - 1
        PROVE  ~Fresh(s.cache, r)
    <3>1. ~Fresh(c, r)
      BY <2>2, <2>3 DEF Keeps
    <3>2. s.cache.roles = c.roles /\ s.cache.tag[r] \in {c.tag[r], Never}
      BY <1>1 DEF Loop
    <3> QED
      BY <3>1, <3>2 DEF Fresh, Unknown, Old
  <2> QED
    BY <2>1, <2>2, <2>3
<1>3. CASE Fresh(s.cache, r)
  <2>1. k = i - 1 /\ Fresh(c, h[i])
    BY <1>2, <1>3
  <2>2. t = [s EXCEPT !.kept = Append(@, r)]
    BY <1>1, <1>3, VisitCases
  <2>3. t.array = h /\ t.cache = c /\ t.kept = Append(SubSeq(h, 1, i - 1), h[i])
    BY <1>1, <1>2, <2>1, <2>2 DEF LoopState, Keeps
  <2>4. Append(SubSeq(h, 1, i - 1), h[i]) = SubSeq(h, 1, i)
    BY <1>1
  <2>5. \A j \in 1..i : Fresh(c, h[j])
    BY <2>1 DEF Keeps
  <2> HIDE DEF t, h
  <2>6. Keeps(c, t, i, i)
    BY <1>1, <2>3, <2>4, <2>5 DEF Keeps, h
  <2> QED
    BY <2>6 DEF t
<1>4. CASE ~Fresh(s.cache, r)
  <2>1. PICK d \in {s.cache, Forget(s.cache, r)} :
          t = [array |-> moved.array, len |-> moved.len, kept |-> s.kept, cache |-> d]
    BY <1>1, <1>4, VisitCases
  <2>2. \A j \in k + 1..Len(h) : ~Fresh(c, h[j])
    <3>1. CASE k < i - 1
      BY <3>1 DEF Keeps
    <3>2. CASE k = i - 1
      <4>1. ~Fresh(c, h[i])
        BY <1>2, <1>4, <3>2
      <4> QED
        BY <1>1, <3>2, <4>1 DEF FreshFirst
    <3> QED
      BY <3>1, <3>2
  <2>3. ASSUME NEW j \in k + 1..Len(h)
        PROVE  \E m \in k + 1..Len(h) : moved.array[j] = h[m]
    <3>1. \/ moved.array[j] = s.array[j]
          \/ j + 1 <= Len(h) /\ moved.array[j] = s.array[j + 1]
      BY <1>1, MovedDownMoves DEF LoopState
    <3>2. \A q \in k + 1..Len(h) : \E m \in k + 1..Len(h) : s.array[q] = h[m]
      BY DEF Keeps
    <3>3. CASE moved.array[j] = s.array[j]
      BY <3>2, <3>3
    <3>4. CASE j + 1 <= Len(h) /\ moved.array[j] = s.array[j + 1]
      <4>1. j + 1 \in k + 1..Len(h)
        BY <1>1, <3>4
      <4> QED
        BY <3>2, <3>4, <4>1
    <3> QED
      BY <3>1, <3>3, <3>4
  <2>4. ASSUME NEW q \in Role, d.tag[q] # c.tag[q]
        PROVE  \E m \in k + 1..Len(h) : q = h[m]
    <3>1. CASE q = r
      BY <1>2, <3>1
    <3>2. CASE q # r
      <4>1. d.tag[q] = s.cache.tag[q]
        <5>1. s.cache \in Cache
          BY <1>1 DEF LoopState
        <5>2. Forget(s.cache, r).tag[q] = s.cache.tag[q]
          BY <1>1, <3>2, <5>1, Forgotten
        <5> QED
          BY <2>1, <5>2
      <4> QED
        BY <2>4, <4>1 DEF Keeps
    <3> QED
      BY <3>1, <3>2
  <2>5. t.array = moved.array /\ t.kept = SubSeq(h, 1, k) /\ t.cache = d
    BY <2>1 DEF Keeps
  <2>6. \A j \in 1..k : Fresh(c, h[j])
    BY DEF Keeps
  <2>7. k \in 0..i /\ k < i /\ k # i
    OBVIOUS
  <2> HIDE DEF t, moved
  <2>8. Keeps(c, t, i, k)
    BY <2>2, <2>3, <2>4, <2>5, <2>6, <2>7 DEF Keeps
  <2> QED
    BY <2>7, <2>8 DEF t
<1> QED
  BY <1>3, <1>4

(* The loop keeps a first part of the list, by induction over the places.  *)
LEMMA KeepsHolds ==
  ASSUME NEW c \in Cache, FreshFirst(c)
  PROVE  \A i \in 0..Len(c.history) : \E k \in 0..i : Keeps(c, Visited(c)[i], i, k)
<1> DEFINE n == Len(c.history)
           S == {i \in Nat : i <= n => \E k \in 0..i : Keeps(c, Visited(c)[i], i, k)}
<1>1. n \in Nat /\ c.history \in Seq(Role)
  BY DEF Cache
<1>2. 0 \in S
  <2>1. Keeps(c, Before(c), 0, 0)
    BY <1>1 DEF Keeps, Before
  <2> QED
    BY <1>1, <2>1, VisitSteps
<1>3. ASSUME NEW i \in S
      PROVE  i + 1 \in S
  <2> SUFFICES ASSUME i + 1 <= n
               PROVE  \E k \in 0..(i + 1) : Keeps(c, Visited(c)[i + 1], i + 1, k)
    OBVIOUS
  <2>1. i + 1 \in 1..n /\ (i + 1) - 1 = i /\ i \in 0..n
    BY <1>1
  <2>2. PICK k \in 0..i : Keeps(c, Visited(c)[i], i, k)
    BY <1>1
  <2>3. Loop(c, Visited(c)[i], (i + 1) - 1)
    BY <1>1, <2>1, LoopHolds
  <2>4. k \in 0..((i + 1) - 1) /\ Keeps(c, Visited(c)[i], (i + 1) - 1, k)
    BY <2>1, <2>2
  <2>5. Visited(c)[i + 1] = VisitItem(Visited(c)[i], i + 1)
    BY <1>1, <2>1, VisitSteps
  <2> QED
    BY <2>1, <2>3, <2>4, <2>5, KeepsStep
<1>4. S = Nat
  <2>1. S \subseteq Nat
    OBVIOUS
  <2> HIDE DEF S
  <2> QED
    BY <1>2, <1>3, <2>1, Induction
<1> QED
  BY <1>1, <1>4

-----------------------------------------------------------------------------
(* What the operations make of a cache.                                    *)

(* The values that a copy of the cache takes.                              *)
IsCache(c) ==
  /\ c \in Cache /\ Len(c.history) <= HistoryLimit
  /\ \A r \in Role : c.tag[r] \in 0..now
  /\ \A r \in Role \ c.roles : c.expires[r] = 0 /\ c.tag[r] = Never

(* The history is in order: no role is listed twice, the tags of listed    *)
(* roles fall along the list, and every tag belongs to a listed role, or   *)
(* to one that is too old to be listed.                                    *)
Ordered(c) ==
  /\ IsInjective(c.history)
  /\ \A i, j \in DOMAIN c.history :
       i < j /\ c.tag[c.history[j]] # Never /\ c.tag[c.history[i]] # Never =>
         c.tag[c.history[i]] >= c.tag[c.history[j]]
  /\ \A r \in Role : c.tag[r] # Never => \/ r \in Listed(c)
                                        \/ (HistoryMinutes > 0 /\ Old(c, r))

(* In a list in order, without a stranger, what is too old comes last.     *)
LEMMA SortedByAge ==
  ASSUME NEW c, IsCache(c), Ordered(c), ~HasStrangers(c), HistoryMinutes > 0, now \in Time
  PROVE  FreshFirst(c)
<1> SUFFICES ASSUME NEW i \in 1..Len(c.history), NEW j \in 1..Len(c.history),
                    i < j, Fresh(c, c.history[j])
             PROVE  Fresh(c, c.history[i])
  BY DEF FreshFirst
<1>1. c.history \in Seq(Role) /\ DOMAIN c.history = 1..Len(c.history) /\ Len(c.history) \in Nat
  BY DEF IsCache, Cache
<1>2. i \in 1..Len(c.history) - 1
  BY <1>1
<1>3. ~Unknown(c, c.history[i]) /\ ~Unknown(c, c.history[j])
  BY <1>2 DEF HasStrangers, Fresh
<1>4. c.tag[c.history[i]] >= c.tag[c.history[j]]
  BY <1>1, <1>3 DEF Ordered, Unknown
<1>5. c.tag[c.history[i]] \in 0..now /\ c.tag[c.history[j]] \in 0..now /\ now \in Nat
  BY <1>1 DEF IsCache, Time
<1>6. HistoryMinutes \in Nat
  BY CacheAssumption
<1> QED
  BY <1>3, <1>4, <1>5, <1>6 DEF Fresh, Old

(* deleteOldHistory keeps a cache a cache, and one without a stranger in   *)
(* order.                                                                  *)
LEMMA OldDropped ==
  ASSUME NEW c, IsCache(c), now \in Time
  PROVE  /\ IsCache(deleteOldHistory(c))
         /\ Ordered(c) /\ ~HasStrangers(c) => Ordered(deleteOldHistory(c))
<1>1. CASE HistoryMinutes = 0
  BY <1>1 DEF deleteOldHistory
<1>2. CASE HistoryMinutes # 0
  <2> DEFINE n == Len(c.history)
             end == Visited(c)[n]
             d == deleteOldHistory(c)
  <2>1. c \in Cache /\ c.history \in Seq(Role) /\ n \in Nat /\ HistoryMinutes > 0
    BY <1>2, CacheAssumption DEF IsCache, Cache
  <2>2. Loop(c, end, n)
    BY <2>1, LoopHolds
  <2>3. d = [end.cache EXCEPT !.history = end.kept]
    BY <1>2 DEF deleteOldHistory
  <2>4. end.cache \in Cache /\ end.kept \in Seq(Role)
    BY <2>2 DEF Loop, LoopState
  <2>5. /\ d \in Cache /\ d.roles = c.roles /\ d.expires = c.expires
        /\ d.tag = end.cache.tag /\ d.history = end.kept
    BY <2>2, <2>3, <2>4 DEF Loop, Cache
  <2>6. \A r \in Role : d.tag[r] \in {c.tag[r], Never}
    BY <2>2, <2>5 DEF Loop
  <2>7. Len(d.history) <= HistoryLimit
    BY <2>1, <2>2, <2>4, <2>5, CacheAssumption DEF Loop, IsCache
  <2> HIDE DEF d, end
  <2>8. IsCache(d)
    BY <2>5, <2>6, <2>7 DEF IsCache, Never, Time
  <2>9. ASSUME Ordered(c), ~HasStrangers(c)
        PROVE  Ordered(d)
    <3>1. FreshFirst(c)
      BY <2>1, <2>9, SortedByAge
    <3>2. PICK k \in 0..n : Keeps(c, end, n, k)
      BY <2>1, <3>1, KeepsHolds DEF end
    <3>3. d.history = SubSeq(c.history, 1, k)
      BY <2>5, <3>2 DEF Keeps
    <3>4. /\ Len(d.history) = k /\ DOMAIN d.history = 1..k /\ DOMAIN c.history = 1..n
          /\ \A i \in 1..k : i \in 1..n /\ d.history[i] = c.history[i] /\ c.history[i] \in Role
      BY <2>1, <3>3
    <3>5. ASSUME NEW i \in 1..k
          PROVE  d.tag[d.history[i]] = c.tag[c.history[i]]
      <4>1. SUFFICES ASSUME d.tag[c.history[i]] # c.tag[c.history[i]]
                     PROVE  FALSE
        BY <3>4
      <4>2. PICK m \in k + 1..n : c.history[i] = c.history[m]
        <5>1. end.cache.tag[c.history[i]] # c.tag[c.history[i]] /\ c.history[i] \in Role
          BY <2>5, <3>4, <4>1
        <5>2. \A r \in Role : end.cache.tag[r] # c.tag[r] => \E m \in k + 1..n : r = c.history[m]
          BY <3>2 DEF Keeps
        <5> QED
          BY <5>1, <5>2
      <4>3. m \in 1..n /\ m # i
        BY <2>1
      <4> QED
        BY <2>9, <3>4, <4>2, <4>3 DEF Ordered, IsInjective
    <3>6. IsInjective(d.history)
      BY <2>9, <3>4 DEF Ordered, IsInjective
    <3>7. ASSUME NEW i \in 1..k, NEW j \in 1..k, i < j,
                 d.tag[d.history[j]] # Never, d.tag[d.history[i]] # Never
          PROVE  d.tag[d.history[i]] >= d.tag[d.history[j]]
      BY <2>9, <3>4, <3>5, <3>7 DEF Ordered
    <3>8. ASSUME NEW r \in Role, d.tag[r] # Never
          PROVE  r \in Listed(d) \/ (HistoryMinutes > 0 /\ Old(d, r))
      <4>1. c.tag[r] = d.tag[r] /\ c.tag[r] # Never
        BY <2>6, <3>8
      <4>2. r \in Listed(c) \/ Old(c, r)
        BY <2>9, <4>1 DEF Ordered
      <4>3. CASE Old(c, r)
        BY <2>1, <4>1, <4>3 DEF Old
      <4>4. CASE r \in Listed(c)
        <5>1. PICK m \in 1..n : r = c.history[m]
          BY <3>4, <4>4 DEF Listed, ToSet
        <5>2. CASE m <= k
          BY <3>4, <5>1, <5>2 DEF Listed, ToSet
        <5>3. CASE m > k
          <6>1. ~Fresh(c, r)
            BY <2>1, <3>2, <5>1, <5>3 DEF Keeps
          <6>2. ~Unknown(c, r)
            BY <4>1 DEF Unknown, IsCache
          <6> QED
            BY <2>1, <4>1, <6>1, <6>2 DEF Fresh, Old
        <5> QED
          BY <2>1, <5>2, <5>3
      <4> QED
        BY <4>2, <4>3, <4>4
    <3> QED
      BY <3>4, <3>6, <3>7, <3>8 DEF Ordered
  <2> QED
    BY <2>8, <2>9 DEF d
<1> QED
  BY <1>1, <1>2

(* AddHistory puts r in front of what is left of the list without it.      *)
LEMMA Added ==
  ASSUME NEW c \in Cache, NEW r \in Role, now \in Time
  PROVE  LET d == AddHistory(c, r)
             rest == RemoveFirst(c.history, r) IN
           /\ d \in Cache /\ d.roles = c.roles /\ d.expires = c.expires
           /\ Len(d.history) <= HistoryLimit /\ Len(d.history) <= Len(rest) + 1
           /\ \A i \in 1..Len(d.history) : d.history[i] = IF i = 1 THEN r ELSE rest[i - 1]
           /\ \A q \in Role : d.tag[q] = IF q \notin Listed(d) THEN Never
                                        ELSE IF q = r /\ r \in c.roles THEN now ELSE c.tag[q]
<1> DEFINE d == AddHistory(c, r)
           rest == RemoveFirst(c.history, r)
           m == IF Len(rest) + 1 > HistoryLimit THEN HistoryLimit ELSE Len(rest) + 1
           list == SubSeq(<<r>> \o rest, 1, m)
           tag == [q \in Role |-> IF q \notin ToSet(list) THEN Never
                                   ELSE IF q = r /\ r \in c.roles THEN now ELSE c.tag[q]]
<1>1. rest \in Seq(Role) /\ HistoryLimit \in Nat
  BY RemoveFirstTakes, CacheAssumption DEF Cache
<1>2. /\ list \in Seq(Role) /\ Len(list) = m /\ m <= HistoryLimit /\ m <= Len(rest) + 1
      /\ \A i \in 1..m : list[i] = IF i = 1 THEN r ELSE rest[i - 1]
  <2> HIDE DEF rest
  <2>1. m \in Nat /\ m <= HistoryLimit /\ m <= Len(rest) + 1
    BY <1>1
  <2> HIDE DEF m
  <2>2. <<r>> \o rest \in Seq(Role) /\ Len(<<r>> \o rest) = Len(rest) + 1
    BY <1>1
  <2>3. \A i \in 1..Len(rest) + 1 : (<<r>> \o rest)[i] = IF i = 1 THEN r ELSE rest[i - 1]
    BY <1>1
  <2> QED
    BY <1>1, <2>1, <2>2, <2>3
<1>3. d = [roles |-> c.roles, expires |-> c.expires, tag |-> tag, history |-> list]
  <2> HIDE DEF rest
  <2>1. Push(deleteHistoryItem(c, r), r) = [c EXCEPT !.history = list]
    BY DEF Push, deleteHistoryItem, Cache, rest
  <2> HIDE DEF list
  <2> DEFINE before == c.tag
             after == IF r \in c.roles THEN [before EXCEPT ![r] = now] ELSE before
             tagged == [roles |-> c.roles, expires |-> c.expires, tag |-> after, history |-> list]
  <2>2. Push(deleteHistoryItem(c, r), r)
          = [roles |-> c.roles, expires |-> c.expires, tag |-> before, history |-> list]
    BY <2>1 DEF Cache
  <2> HIDE DEF before
  <2>3. Tagged(Push(deleteHistoryItem(c, r), r), r) = tagged
    BY <2>2 DEF Tagged
  <2> HIDE DEF after
  <2>4. d = [tagged EXCEPT !.tag = [q \in Role |-> IF q \in ToSet(list) THEN after[q] ELSE Never]]
    BY <2>3 DEF AddHistory, OnlyListed, Listed
  <2>5. [q \in Role |-> IF q \in ToSet(list) THEN after[q] ELSE Never] = tag
    BY DEF after, before, Cache
  <2> HIDE DEF tag
  <2> QED
    BY <2>4, <2>5
<1>4. tag \in [Role -> Time \union {Never}]
  BY DEF Cache
<1> HIDE DEF list, rest, m, tag
<1>5. d \in Cache
  BY <1>2, <1>3, <1>4 DEF Cache
<1> QED
  BY <1>2, <1>3, <1>5 DEF tag, Listed, rest

(* AddHistory keeps a cache a cache, and in order.                         *)
LEMMA AddKeeps ==
  ASSUME NEW c, IsCache(c), NEW r \in Role, now \in Time
  PROVE  /\ IsCache(AddHistory(c, r))
         /\ Ordered(c) => Ordered(AddHistory(c, r))
<1> DEFINE d == AddHistory(c, r)
           h == c.history
           rest == RemoveFirst(h, r)
<1>1. c \in Cache /\ h \in Seq(Role) /\ Len(h) \in Nat /\ DOMAIN h = 1..Len(h)
  BY DEF IsCache, Cache
<1>2. /\ d \in Cache /\ d.roles = c.roles /\ d.expires = c.expires
      /\ Len(d.history) <= HistoryLimit /\ Len(d.history) <= Len(rest) + 1
      /\ \A i \in 1..Len(d.history) : d.history[i] = IF i = 1 THEN r ELSE rest[i - 1]
      /\ \A q \in Role : d.tag[q] = IF q \notin Listed(d) THEN Never
                                   ELSE IF q = r /\ r \in c.roles THEN now ELSE c.tag[q]
  BY <1>1, Added
<1>3. rest \in Seq(Role) /\ Len(rest) \in Nat /\ \E p \in 1..Len(h) + 1 : Taken(h, r, rest, p)
  <2> HIDE DEF h
  <2> QED
    BY <1>1, RemoveFirstTakes
<1>4. PICK p \in 1..Len(h) + 1 : Taken(h, r, rest, p)
  BY <1>3
<1> HIDE DEF d, rest, h
<1>5. now \in Nat /\ d.history \in Seq(Role) /\ Len(d.history) \in Nat
  BY <1>2 DEF Time, Cache
<1>6. /\ DOMAIN d.history = 1..Len(d.history)
      /\ \A i \in 1..Len(d.history) : d.history[i] \in Role /\ d.history[i] \in Listed(d)
  BY <1>5 DEF Listed, ToSet
<1>7. IsCache(d)
  <2>1. \A q \in Role : d.tag[q] \in 0..now
    BY <1>2, <1>5 DEF IsCache, Never
  <2>2. \A q \in Role \ d.roles : d.expires[q] = 0 /\ d.tag[q] = Never
    BY <1>2 DEF IsCache
  <2> QED
    BY <1>2, <2>1, <2>2 DEF IsCache
<1>8. ASSUME Ordered(c)
      PROVE  Ordered(d)
  <2> DEFINE at(i) == IF i - 1 < p THEN i - 1 ELSE i
  <2>1. ASSUME NEW i \in 2..Len(d.history)
        PROVE  /\ i \in 1..Len(d.history) /\ at(i) \in 1..Len(h) /\ d.history[i] = h[at(i)]
               /\ d.history[i] # r
    <3>1. i - 1 \in 1..Len(rest) /\ d.history[i] = rest[i - 1]
      BY <1>2, <1>3, <1>5
    <3>2. rest[i - 1] = h[at(i)] /\ at(i) \in 1..Len(h)
      <4>1. rest[i - 1] = IF i - 1 < p THEN h[i - 1] ELSE h[(i - 1) + 1]
        BY <1>4, <3>1 DEF Taken
      <4>2. Len(rest) = IF p <= Len(h) THEN Len(h) - 1 ELSE Len(h)
        BY <1>4 DEF Taken
      <4>3. i - 1 \in Nat /\ i - 1 >= 1 /\ i - 1 <= Len(rest) /\ (i - 1) + 1 = i
        BY <1>3, <3>1
      <4>4. CASE i - 1 < p
        <5>1. at(i) = i - 1 /\ rest[i - 1] = h[i - 1]
          BY <4>1, <4>4
        <5>2. Len(rest) <= Len(h)
          <6> DEFINE n == Len(h)
          <6>1. n \in Nat
            BY <1>1
          <6> HIDE DEF n
          <6>2. Len(rest) = IF p <= n THEN n - 1 ELSE n
            BY <4>2 DEF n
          <6>3. Len(rest) <= n
            BY <6>1, <6>2
          <6> QED
            BY <6>3 DEF n
        <5>3. i - 1 \in 1..Len(h)
          BY <1>1, <1>3, <4>3, <5>2
        <5> QED
          BY <5>1, <5>3
      <4>5. CASE ~ (i - 1 < p)
        <5>1. at(i) = i /\ rest[i - 1] = h[i]
          BY <4>1, <4>3, <4>5
        <5>2. CASE p <= Len(h)
          <6>1. Len(rest) = Len(h) - 1
            BY <4>2, <5>2
          <6>2. i \in 1..Len(h)
            BY <1>1, <4>3, <6>1
          <6> QED
            BY <5>1, <6>2
        <5>3. CASE p = Len(h) + 1
          <6>1. ~ (p <= Len(h))
            <7> DEFINE n == Len(h)
            <7>1. n \in Nat /\ p = n + 1
              BY <1>1, <5>3
            <7> HIDE DEF n
            <7>2. ~ (p <= n)
              BY <7>1
            <7> QED
              BY <7>2 DEF n
          <6>2. Len(rest) = Len(h)
            BY <4>2, <6>1
          <6>3. i - 1 <= Len(h) /\ i - 1 \in Nat /\ Len(h) \in Nat
            BY <1>1, <4>3, <6>2
          <6>4. i - 1 < p
            BY <5>3, <6>3
          <6> QED
            BY <4>5, <6>4
        <5> QED
          BY <1>1, <1>4, <5>2, <5>3
      <4> QED
        BY <4>4, <4>5
    <3>3. h[at(i)] # r
      <4>1. CASE p <= Len(h)
        <5>1. h[p] = r /\ p \in 1..Len(h) /\ at(i) # p
          BY <1>1, <1>4, <4>1 DEF Taken
        <5> QED
          BY <1>1, <1>8, <3>2, <5>1 DEF Ordered, IsInjective, h
      <4>2. CASE p = Len(h) + 1
        BY <1>4, <3>2, <4>2 DEF Taken
      <4> QED
        BY <1>1, <1>4, <4>1, <4>2
    <3> QED
      BY <1>5, <3>1, <3>2, <3>3
  <2>2. ASSUME NEW i \in 2..Len(d.history), NEW j \in 2..Len(d.history), i < j
        PROVE  at(i) < at(j)
    BY <2>2, <1>4
  <2> HIDE DEF at
  <2>3. ASSUME NEW i \in 1..Len(d.history), NEW j \in 1..Len(d.history), i < j
        PROVE  d.history[i] # d.history[j]
    <3>1. j \in 2..Len(d.history)
      BY <2>3
    <3>2. CASE i = 1
      BY <1>2, <2>1, <3>1, <3>2
    <3>3. CASE i # 1
      <4>1. i \in 2..Len(d.history)
        BY <3>3
      <4>2. at(i) < at(j) /\ at(i) \in 1..Len(h) /\ at(j) \in 1..Len(h)
        BY <2>1, <2>2, <2>3, <3>1, <4>1
      <4>3. h[at(i)] # h[at(j)]
        BY <1>1, <1>8, <4>2 DEF Ordered, IsInjective, h
      <4> QED
        BY <2>1, <3>1, <4>1, <4>3
    <3> QED
      BY <3>2, <3>3
  <2>4. ASSUME NEW i \in 1..Len(d.history), NEW j \in 1..Len(d.history), i < j,
               d.tag[d.history[j]] # Never, d.tag[d.history[i]] # Never
        PROVE  d.tag[d.history[i]] >= d.tag[d.history[j]]
    <3>1. j \in 2..Len(d.history)
      BY <2>4
    <3>2. d.tag[d.history[j]] = c.tag[h[at(j)]] /\ d.history[j] = h[at(j)] /\ h[at(j)] \in Role
      BY <1>2, <1>6, <2>1, <3>1
    <3>3. CASE i = 1
      <4>1. d.history[i] = r
        BY <1>2, <3>3
      <4>2. r \notin c.roles => c.tag[r] = Never
        BY DEF IsCache
      <4>3. d.tag[r] = now
        BY <1>2, <1>6, <2>4, <4>1, <4>2
      <4>4. c.tag[h[at(j)]] \in 0..now
        BY <3>2 DEF IsCache
      <4> QED
        BY <1>5, <3>2, <4>1, <4>3, <4>4
    <3>4. CASE i # 1
      <4>1. i \in 2..Len(d.history)
        BY <3>4
      <4>2. d.tag[d.history[i]] = c.tag[h[at(i)]]
        BY <1>2, <1>6, <2>1, <4>1
      <4>3. at(i) < at(j) /\ at(i) \in 1..Len(h) /\ at(j) \in 1..Len(h)
        BY <2>1, <2>2, <2>4, <3>1, <4>1
      <4>4. c.tag[h[at(i)]] # Never /\ c.tag[h[at(j)]] # Never
        BY <2>4, <3>2, <4>2
      <4>5. c.tag[h[at(i)]] >= c.tag[h[at(j)]]
        BY <1>1, <1>8, <4>3, <4>4 DEF Ordered, h
      <4> QED
        BY <3>2, <4>2, <4>5
    <3> QED
      BY <3>3, <3>4
  <2>5. IsInjective(d.history)
    <3> SUFFICES ASSUME NEW i \in 1..Len(d.history), NEW j \in 1..Len(d.history), i # j
                 PROVE  d.history[i] # d.history[j]
      BY <1>6 DEF IsInjective
    <3>1. i < j \/ j < i
      OBVIOUS
    <3> QED
      BY <2>3, <3>1
  <2>6. \A q \in Role : d.tag[q] # Never => q \in Listed(d)
    BY <1>2
  <2> QED
    BY <1>6, <2>4, <2>5, <2>6 DEF Ordered
<1> QED
  BY <1>7, <1>8 DEF d

(* A refresh: the roles AWS grants and config.yaml's, with what was known. *)
LEMMA RefreshGives ==
  ASSUME NEW c \in Cache, granted \subseteq Role, via \subseteq Role
  PROVE  LET d == Refreshed(c) IN
           /\ d \in Cache /\ d.roles = granted \union via /\ d.history = c.history
           /\ \A r \in Role :
                /\ d.expires[r] = IF r \in d.roles /\ c.expires[r] > now THEN c.expires[r] ELSE 0
                /\ d.tag[r] = IF r \in d.roles /\ r \in Listed(c) THEN c.tag[r] ELSE Never
<1> DEFINE roles == granted \union via
           none == [r \in Role |-> 0]
           expires == [r \in Role |-> IF r \in roles /\ c.expires[r] > now THEN c.expires[r] ELSE 0]
           tag == [r \in Role |-> IF r \in roles /\ r \in ToSet(c.history) /\ c.tag[r] # Never
                                  THEN c.tag[r] ELSE Never]
           fresh == [roles |-> granted, expires |-> none, tag |-> none, history |-> c.history]
           restored == [roles |-> roles, expires |-> none, tag |-> none, history |-> c.history]
<1>1. NewRoles(c) = fresh
  <2>1. c = [roles |-> c.roles, expires |-> c.expires, tag |-> c.tag, history |-> c.history]
    BY DEF Cache
  <2>2. NewRoles(c) = [c EXCEPT !.roles = granted, !.expires = none, !.tag = none]
    BY DEF NewRoles, Never
  <2> HIDE DEF none
  <2> QED
    BY <2>1, <2>2
<1>2. RestoreManualRoles(fresh) = restored
  <2>1. /\ [r \in Role |-> IF r \in via THEN 0 ELSE none[r]] = none
        /\ [r \in Role |-> IF r \in via THEN Never ELSE none[r]] = none
    BY DEF Never
  <2>2. RestoreManualRoles(fresh)
          = [fresh EXCEPT !.roles = @ \union via,
                          !.expires = [r \in Role |-> IF r \in via THEN 0 ELSE none[r]],
                          !.tag = [r \in Role |-> IF r \in via THEN Never ELSE none[r]]]
    BY DEF RestoreManualRoles
  <2>3. RestoreManualRoles(fresh) = [fresh EXCEPT !.roles = @ \union via, !.expires = none, !.tag = none]
    BY <2>1, <2>2
  <2> HIDE DEF none
  <2> QED
    BY <2>3
<1>3. RestoreMetadata(restored, c)
        = [roles |-> roles, expires |-> expires, tag |-> tag, history |-> c.history]
  <2>1. /\ [r \in Role |-> IF r \in roles /\ c.expires[r] > now THEN c.expires[r] ELSE none[r]] = expires
        /\ [r \in Role |-> IF r \in roles /\ r \in ToSet(c.history) /\ c.tag[r] # Never
                            THEN c.tag[r] ELSE none[r]] = tag
    BY DEF Never
  <2>2. RestoreMetadata(restored, c)
          = [restored EXCEPT
               !.expires = [r \in Role |-> IF r \in roles /\ c.expires[r] > now
                                          THEN c.expires[r] ELSE none[r]],
               !.tag = [r \in Role |-> IF r \in roles /\ r \in ToSet(c.history) /\ c.tag[r] # Never
                                      THEN c.tag[r] ELSE none[r]]]
    BY DEF RestoreMetadata
  <2>3. RestoreMetadata(restored, c) = [restored EXCEPT !.expires = expires, !.tag = tag]
    BY <2>1, <2>2
  <2> HIDE DEF none, expires, tag
  <2> QED
    BY <2>3
<1>4. expires \in [Role -> Nat] /\ tag \in [Role -> Time \union {Never}] /\ c.history \in Seq(Role)
  BY DEF Cache
<1>5. Refreshed(c) = [roles |-> roles, expires |-> expires, tag |-> tag, history |-> c.history]
  BY <1>1, <1>2, <1>3 DEF Refreshed
<1> HIDE DEF expires, tag
<1>6. Refreshed(c) \in Cache
  BY <1>4, <1>5 DEF Cache
<1> QED
  BY <1>5, <1>6 DEF expires, tag, Listed

(* So does a refresh.                                                      *)
LEMMA RefreshKeeps ==
  ASSUME NEW c, IsCache(c), granted \subseteq Role, via \subseteq Role, now \in Time
  PROVE  /\ IsCache(Refreshed(c))
         /\ Ordered(c) => Ordered(Refreshed(c))
<1> DEFINE d == Refreshed(c)
<1>1. /\ c \in Cache /\ d \in Cache /\ d.roles = granted \union via /\ d.history = c.history
      /\ \A r \in Role :
           /\ d.expires[r] = IF r \in d.roles /\ c.expires[r] > now THEN c.expires[r] ELSE 0
           /\ d.tag[r] = IF r \in d.roles /\ r \in Listed(c) THEN c.tag[r] ELSE Never
  BY RefreshGives DEF IsCache
<1> HIDE DEF d
<1>2. now \in Nat /\ c.history \in Seq(Role) /\ \A i \in DOMAIN c.history : c.history[i] \in Role
  BY <1>1 DEF Cache, Time
<1>3. IsCache(d)
  BY <1>1, <1>2 DEF IsCache, Never
<1>4. ASSUME Ordered(c)
      PROVE  Ordered(d)
  <2>1. \A i, j \in DOMAIN c.history :
          i < j /\ d.tag[c.history[j]] # Never /\ d.tag[c.history[i]] # Never =>
            d.tag[c.history[i]] >= d.tag[c.history[j]]
    BY <1>1, <1>2, <1>4 DEF Ordered
  <2>2. Listed(d) = Listed(c)
    BY <1>1 DEF Listed
  <2> QED
    BY <1>1, <1>4, <2>1, <2>2 DEF Ordered
<1> QED
  BY <1>3, <1>4 DEF d

-----------------------------------------------------------------------------
(* The inductive invariant: both copies are caches, in order as long as    *)
(* deleteOldHistory has met no stranger.                                   *)
IInv ==
  /\ now \in Time
  /\ granted \subseteq GrantRole /\ via \subseteq ViaRole
  /\ running \in BOOLEAN /\ refreshed \in BOOLEAN /\ strangers \in BOOLEAN
  /\ \A c \in {file, cache} : IsCache(c) /\ (strangers \/ Ordered(c))

(* The invariant has CacheInv in it.                                       *)
LEMMA InvImplies == IInv => CacheInv
<1> SUFFICES ASSUME IInv
             PROVE  TypeOK /\ HistoryInOrder
  BY DEF CacheInv
<1>1. ASSUME NEW c \in {file, cache}
      PROVE  /\ c.roles \subseteq Role
             /\ \A r \in Role : c.expires[r] \in Nat /\ c.tag[r] \in 0..now
             /\ c.history \in Seq(Role) /\ Len(c.history) <= HistoryLimit
             /\ \A r \in Role \ c.roles : c.expires[r] = 0 /\ c.tag[r] = Never
  BY DEF IInv, IsCache, Cache
<1>2. TypeOK
  BY <1>1 DEF TypeOK, IInv
<1>3. HistoryInOrder
  BY DEF HistoryInOrder, IInv, Ordered
<1> QED
  BY <1>2, <1>3

(* A cache that is new is in order.                                        *)
LEMMA NewIsCache == now \in Time => IsCache(NewCache) /\ Ordered(NewCache)
BY CacheAssumption DEF NewCache, IsCache, Ordered, IsInjective, Cache, Time, Never

(* The invariant holds at first.                                           *)
LEMMA InvInit == Init => IInv
<1> SUFFICES ASSUME Init
             PROVE  IInv
  OBVIOUS
<1>1. now \in Time
  BY CacheAssumption DEF Init, Time
<1> QED
  BY <1>1, NewIsCache DEF Init, IInv

(* An operation of the running execution that leaves two good caches.      *)
LEMMA InvSaved ==
  ASSUME IInv, now' = now, granted' \subseteq GrantRole, via' \subseteq ViaRole,
         running' \in BOOLEAN, refreshed' \in BOOLEAN, strangers' \in BOOLEAN,
         IsCache(file'), strangers' \/ Ordered(file'),
         IsCache(cache'), strangers' \/ Ordered(cache')
  PROVE  IInv'
<1>1. \A c \in {file', cache'} : IsCache(c) /\ (strangers' \/ Ordered(c))
  OBVIOUS
<1>2. now' \in Time
  BY DEF IInv
<1> QED
  BY <1>1, <1>2 DEF IInv, IsCache, Ordered, Old

(* The invariant holds after each step.                                    *)
LEMMA InvNext == IInv /\ [Next]_vars => IInv'
<1> SUFFICES ASSUME IInv, [Next]_vars
             PROVE  IInv'
  OBVIOUS
<1> USE DEF environment
<1>1. /\ now \in Time /\ now \in Nat
      /\ IsCache(file) /\ (strangers \/ Ordered(file))
      /\ IsCache(cache) /\ (strangers \/ Ordered(cache))
      /\ granted \subseteq GrantRole /\ via \subseteq ViaRole
      /\ running \in BOOLEAN /\ refreshed \in BOOLEAN /\ strangers \in BOOLEAN
  BY DEF IInv, Time
<1>2. IsCache(NewCache) /\ Ordered(NewCache)
  BY <1>1, NewIsCache
<1>3. granted \subseteq Role /\ via \subseteq Role
  BY <1>1, CacheAssumption
<1>4. ASSUME OpenCache
      PROVE  IInv'
  <2>1. IsCache(cache') /\ (strangers' \/ Ordered(cache'))
    BY <1>1, <1>4, OldDropped DEF OpenCache
  <2>2. HasStrangers(file) \in BOOLEAN
    BY DEF HasStrangers
  <2> QED
    BY <1>1, <1>4, <2>1, <2>2, InvSaved DEF OpenCache
<1>5. ASSUME MarkRolesExpired
      PROVE  IInv'
  <2> DEFINE none == [r \in Role |-> 0]
  <2>1. /\ cache' \in Cache /\ cache'.roles = cache.roles /\ cache'.expires = none
        /\ cache'.tag = cache.tag /\ cache'.history = cache.history
    BY <1>1, <1>5 DEF MarkRolesExpired, IsCache, Cache
  <2>2. IsCache(cache') /\ (Ordered(cache) => Ordered(cache'))
    BY <1>1, <2>1 DEF IsCache, Ordered, Old, Listed
  <2> QED
    BY <1>1, <1>5, <2>2, InvSaved DEF MarkRolesExpired, Save
<1>6. ASSUME Refresh
      PROVE  IInv'
  <2>1. IsCache(cache') /\ (Ordered(cache) => Ordered(cache'))
    BY <1>1, <1>3, <1>6, RefreshKeeps DEF Refresh
  <2> QED
    BY <1>1, <1>6, <2>1, InvSaved DEF Refresh, Save
<1>7. ASSUME SaveInterrupted
      PROVE  IInv'
  BY <1>1, <1>2, <1>7, InvSaved DEF SaveInterrupted
<1>8. ASSUME Exit
      PROVE  IInv'
  BY <1>1, <1>2, <1>8, InvSaved DEF Exit
<1>9. ASSUME NEW r \in Role, UseRole(r)
      PROVE  IInv'
  <2>1. IsCache(cache') /\ (Ordered(cache) => Ordered(cache'))
    BY <1>1, <1>9, AddKeeps DEF UseRole
  <2> QED
    BY <1>1, <1>9, <2>1, InvSaved DEF UseRole, Save
<1>10. ASSUME NEW r \in FetchRole, SetRoleExpires(r)
       PROVE  IInv'
  <2>1. PICK d \in Lifetimes : cache' = [cache EXCEPT !.expires[r] = now + d]
    BY <1>10 DEF SetRoleExpires
  <2>2. r \in Role /\ r \in cache.roles /\ now + d \in Nat
    BY <1>1, <1>10, CacheAssumption DEF SetRoleExpires
  <2>3. /\ cache' \in Cache /\ cache'.roles = cache.roles
        /\ \A q \in Role \ {r} : cache'.expires[q] = cache.expires[q]
        /\ cache'.tag = cache.tag /\ cache'.history = cache.history
    BY <1>1, <2>1, <2>2 DEF IsCache, Cache
  <2>4. IsCache(cache') /\ (Ordered(cache) => Ordered(cache'))
    BY <1>1, <2>2, <2>3 DEF IsCache, Ordered, Old, Listed
  <2> QED
    BY <1>1, <1>10, <2>4, InvSaved DEF SetRoleExpires, Save
<1>11. ASSUME Tick
       PROVE  IInv'
  <2>1. now' = now + 1 /\ now' \in Time
    BY <1>1, <1>11, CacheAssumption DEF Tick, Time
  <2>2. UNCHANGED <<granted, via, file, cache, running, refreshed, strangers>>
    BY <1>11 DEF Tick
  <2>3. ASSUME NEW c \in {file, cache}
        PROVE  /\ \A r \in Role : c.tag[r] \in 0..now'
               /\ \A r \in Role : Old(c, r) => now' - c.tag[r] >= HistoryMinutes
    <3>1. \A r \in Role : c.tag[r] \in 0..now
      BY <1>1 DEF IsCache
    <3>2. HistoryMinutes \in Nat
      BY CacheAssumption
    <3> QED
      BY <1>1, <2>1, <3>1, <3>2 DEF Old
  <2> QED
    BY <1>1, <2>1, <2>2, <2>3 DEF IInv, IsCache, Ordered, Old
<1>12. ASSUME Administer
       PROVE  IInv'
  BY <1>1, <1>12, InvSaved DEF Administer
<1>13. ASSUME EditConfig
       PROVE  IInv'
  BY <1>1, <1>13, InvSaved DEF EditConfig
<1>14. ASSUME UNCHANGED vars
       PROVE  IInv'
  BY <1>1, <1>14, InvSaved DEF vars
<1> QED
  BY <1>4, <1>5, <1>6, <1>7, <1>8, <1>9, <1>10, <1>11, <1>12, <1>13, <1>14
     DEF Next

(* It always holds.                                                        *)
LEMMA InvAlways == Spec => []IInv
<1> QED
  BY InvInit, InvNext, PTL DEF Spec

(* The history list and the tags agree, whatever AWS grants, config.yaml   *)
(* defines and executions use, for lists of every length.                  *)
THEOREM HistoryIsInOrder == Spec => []CacheInv
BY InvAlways, InvImplies, PTL

(* A refresh loses nothing that is known of a role that stays.             *)
THEOREM RefreshLosesNothing == Spec => RefreshKeepsMetadata
<1>1. ASSUME IInv, Refresh
      PROVE  \A r \in cache.roles \intersect cache'.roles :
               /\ cache.expires[r] > now => cache'.expires[r] = cache.expires[r]
               /\ r \in Listed(cache) => cache'.tag[r] = cache.tag[r]
  <2>1. cache \in Cache /\ granted \subseteq Role /\ via \subseteq Role
    BY <1>1, CacheAssumption DEF IInv, IsCache
  <2>2. cache' = Refreshed(cache) /\ cache.roles \subseteq Role
    BY <1>1, <2>1 DEF Refresh, Cache
  <2> QED
    BY <2>1, <2>2, RefreshGives
<1> QED
  BY <1>1, InvAlways, PTL DEF RefreshKeepsMetadata

(* What a refresh reports is what it does.                                 *)
THEOREM DiffAlwaysTrue == Spec => DiffIsTrue
<1>1. ASSUME IInv, Refresh
      PROVE  LET diff == CalculateDiff(cache) IN
               /\ diff.deleted \intersect (cache'.roles \union via) = {}
               /\ cache'.roles \ cache.roles \subseteq diff.added \union via
               /\ cache.roles \ cache'.roles \subseteq diff.deleted
  <2>1. cache \in Cache /\ granted \subseteq Role /\ via \subseteq Role
    BY <1>1, CacheAssumption DEF IInv, IsCache
  <2>2. cache'.roles = granted \union via
    BY <1>1, <2>1, RefreshGives DEF Refresh
  <2> QED
    BY <2>2 DEF CalculateDiff
<1> QED
  BY <1>1, InvAlways, PTL DEF DiffIsTrue

-----------------------------------------------------------------------------
(* The files of the user.  The lines are told apart by what they are.      *)
LEMMA LinesDiffer ==
  /\ \A s, t \in SSO : Prefix(s) = Prefix(t) => s = t
  /\ \A s, t \in SSO : Suffix(s) = Suffix(t) => s = t
  /\ \A s, t \in SSO : \A v, w \in Version : Body(s, v) = Body(t, w) => s = t /\ v = w
  /\ \A u, w \in UserLine : User(u) = User(w) => u = w
  /\ \A s, t \in SSO : Prefix(s) # Suffix(t)
  /\ \A s, t \in SSO : \A v \in Version : Prefix(s) # Body(t, v) /\ Suffix(s) # Body(t, v)
  /\ \A s \in SSO : \A u \in UserLine : User(u) # Prefix(s) /\ User(u) # Suffix(s)
  /\ \A s \in SSO : \A u \in UserLine : \A v \in Version : User(u) # Body(s, v)
BY DEF Prefix, Suffix, Body, User

(* Lines that no block goes on with.                                       *)
Starts(line) == (\E s \in SSO : line = Prefix(s)) \/ (\E u \in UserLine : line = User(u))

LEMMA LineKinds ==
  ASSUME NEW line \in Lines
  PROVE  /\ line[1] \in {"prefix", "user"} <=> Starts(line)
         /\ IsUser(line) <=> \E u \in UserLine : line = User(u)
         /\ Starts(line) \/ \E s \in SSO : line = Suffix(s) \/ \E v \in Version : line = Body(s, v)
<1>1. CASE \E s \in SSO : line = Prefix(s)
  BY <1>1 DEF Starts, IsUser, Prefix, User
<1>2. CASE \E s \in SSO : line = Suffix(s)
  BY <1>2 DEF Starts, IsUser, Prefix, Suffix, User
<1>3. CASE \E s \in SSO, v \in Version : line = Body(s, v)
  BY <1>3 DEF Starts, IsUser, Prefix, Body, User
<1>4. CASE \E u \in UserLine : line = User(u)
  BY <1>4 DEF Starts, IsUser, Prefix, User
<1> QED
  BY <1>1, <1>2, <1>3, <1>4 DEF Lines

(* What a file is made of, whatever has been lost: no line is there twice, *)
(* and a block is there from its beginning on.                             *)
Shape(l) ==
  /\ l \in Seq(Lines)
  /\ \A i, j \in 1..Len(l) : l[i] = l[j] => i = j
  /\ \A i \in 1..Len(l), s \in SSO :
       /\ \A v \in Version : l[i] = Body(s, v) => i > 1 /\ l[i - 1] = Prefix(s)
       /\ l[i] = Suffix(s) => /\ i > 2 /\ l[i - 2] = Prefix(s)
                              /\ \E v \in Version : l[i - 1] = Body(s, v)

(* The block of an instance is there as a whole, or no line of it is.      *)
Holds(l, s, v) ==
  IF v = 0 THEN \A i \in 1..Len(l) : ~OfBlock(l[i], s)
  ELSE \E i \in 1..Len(l) : /\ i + 2 <= Len(l) /\ v \in Version
                            /\ l[i] = Prefix(s)
                            /\ l[i + 1] = Body(s, v) /\ l[i + 2] = Suffix(s)

(* The lines from m + 1 to n are replaced by others.                       *)
Splice(l, m, B, n) == SubSeq(l, 1, m) \o B \o SubSeq(l, n + 1, Len(l))

(* That is in order where the others are none of those that stay, and      *)
(* those that stay do not begin in the middle of a block.                  *)
MaySplice(l, m, B, n) ==
  /\ l \in Seq(Lines) /\ B \in Seq(Lines)
  /\ m \in 0..n /\ n \in 0..Len(l)
  /\ \A i \in 1..Len(B), j \in 1..m \union n + 1..Len(l) : B[i] # l[j]
  /\ n < Len(l) => Starts(l[n + 1])

LEMMA SpliceIs ==
  ASSUME NEW l \in Seq(Lines), NEW B \in Seq(Lines), NEW n \in 0..Len(l), NEW m \in 0..n
  PROVE  LET g == Splice(l, m, B, n)
             d == m + Len(B) - n IN
         /\ g \in Seq(Lines) /\ Len(g) = Len(l) + d /\ d \in Int
         /\ \A i \in 1..m : g[i] = l[i]
         /\ \A i \in 1..Len(B) : g[m + i] = B[i]
         /\ \A i \in n + 1..Len(l) : g[d + i] = l[i]
         /\ \A i \in 1..Len(g) :
              \/ i \in 1..m /\ g[i] = l[i]
              \/ i - m \in 1..Len(B) /\ g[i] = B[i - m]
              \/ i - d \in n + 1..Len(l) /\ g[i] = l[i - d]
<1> DEFINE h == SubSeq(l, 1, m)
           t == SubSeq(l, n + 1, Len(l))
           g == Splice(l, m, B, n)
           d == m + Len(B) - n
<1>1. Len(l) \in Nat /\ Len(B) \in Nat /\ n \in Nat /\ m \in Nat /\ m <= n /\ n <= Len(l)
  OBVIOUS
<1>2. h \in Seq(Lines) /\ Len(h) = m /\ \A i \in 1..m : h[i] = l[i]
  BY <1>1
<1>3. t \in Seq(Lines) /\ Len(t) = Len(l) - n /\ \A i \in 1..Len(l) - n : t[i] = l[n + i]
  BY <1>1
<1>4. g = (h \o B) \o t
  BY DEF Splice
<1> HIDE DEF h, t, g
<1>5. /\ h \o B \in Seq(Lines) /\ Len(h \o B) = m + Len(B)
      /\ \A i \in 1..m + Len(B) : (h \o B)[i] = IF i <= m THEN h[i] ELSE B[i - m]
  BY <1>1, <1>2
<1> DEFINE hb == h \o B
<1> HIDE DEF hb
<1>6. /\ g \in Seq(Lines) /\ Len(g) = m + Len(B) + (Len(l) - n)
      /\ \A i \in 1..Len(g) : g[i] = IF i <= m + Len(B) THEN hb[i] ELSE t[i - (m + Len(B))]
  <2>1. hb \in Seq(Lines) /\ Len(hb) = m + Len(B) /\ g = hb \o t
    BY <1>4, <1>5 DEF hb
  <2> HIDE DEF d
  <2>2. g \in Seq(Lines) /\ Len(g) = Len(hb) + Len(t)
    <3>1. ASSUME NEW a \in Seq(Lines), NEW b \in Seq(Lines)
          PROVE  a \o b \in Seq(Lines) /\ Len(a \o b) = Len(a) + Len(b)
      OBVIOUS
    <3> QED
      BY <1>3, <2>1, <3>1
  <2>3. \A i \in 1..Len(g) : g[i] = IF i <= Len(hb) THEN hb[i] ELSE t[i - Len(hb)]
    BY <1>3, <2>1, <2>2
  <2> QED
    BY <1>3, <2>1, <2>2, <2>3
<1>7. Len(g) = Len(l) + d /\ d \in Int
  BY <1>1, <1>6
<1>8. ASSUME NEW i \in 1..m
      PROVE  g[i] = l[i]
  BY <1>1, <1>2, <1>5, <1>6 DEF hb
<1>9. ASSUME NEW i \in 1..Len(B)
      PROVE  g[m + i] = B[i]
  BY <1>1, <1>5, <1>6 DEF hb
<1>10. ASSUME NEW i \in n + 1..Len(l)
       PROVE  g[d + i] = l[i]
  <2>1. d + i \in 1..Len(g) /\ ~ (d + i <= m + Len(B)) /\ (d + i) - (m + Len(B)) = i - n
    BY <1>1, <1>6
  <2>2. i - n \in 1..Len(l) - n /\ n + (i - n) = i
    BY <1>1
  <2> QED
    BY <1>3, <1>6, <2>1, <2>2
<1>11. ASSUME NEW i \in 1..Len(g)
       PROVE  \/ i \in 1..m /\ g[i] = l[i]
              \/ i - m \in 1..Len(B) /\ g[i] = B[i - m]
              \/ i - d \in n + 1..Len(l) /\ g[i] = l[i - d]
  <2>1. CASE i <= m
    BY <1>1, <1>8, <2>1
  <2>2. CASE i > m /\ i <= m + Len(B)
    <3>1. i - m \in 1..Len(B) /\ m + (i - m) = i
      BY <1>1, <2>2
    <3> QED
      BY <1>9, <3>1
  <2>3. CASE i > m + Len(B)
    <3>1. i - d \in n + 1..Len(l) /\ d + (i - d) = i
      BY <1>1, <1>6, <2>3
    <3> QED
      BY <1>10, <3>1
  <2> QED
    BY <1>1, <2>1, <2>2, <2>3
<1> QED
  BY <1>6, <1>7, <1>8, <1>9, <1>10, <1>11 DEF g

(* Nothing that starts is the body or the end of a block.                  *)
LEMMA StartsNoBlock ==
  ASSUME NEW line, Starts(line), NEW s \in SSO
  PROVE  line # Suffix(s) /\ \A v \in Version : line # Body(s, v)
BY LinesDiffer DEF Starts

(* What the shape says of a body and of the end of a block.                *)
LEMMA ShapeBody ==
  ASSUME NEW l, Shape(l), NEW i \in 1..Len(l), NEW s \in SSO, NEW v \in Version,
         l[i] = Body(s, v)
  PROVE  i > 1 /\ i - 1 \in 1..Len(l) /\ l[i - 1] = Prefix(s)
<1>1. Len(l) \in Nat
  BY DEF Shape
<1>2. i > 1 /\ l[i - 1] = Prefix(s)
  BY DEF Shape
<1> QED
  BY <1>1, <1>2

LEMMA ShapeSuffix ==
  ASSUME NEW l, Shape(l), NEW i \in 1..Len(l), NEW s \in SSO, l[i] = Suffix(s)
  PROVE  /\ i > 2 /\ i - 1 \in 1..Len(l) /\ i - 2 \in 1..Len(l)
         /\ l[i - 2] = Prefix(s) /\ \E v \in Version : l[i - 1] = Body(s, v)
<1>1. Len(l) \in Nat
  BY DEF Shape
<1>2. i > 2 /\ l[i - 2] = Prefix(s) /\ \E v \in Version : l[i - 1] = Body(s, v)
  BY DEF Shape
<1> QED
  BY <1>1, <1>2

LEMMA SpliceShape ==
  ASSUME NEW l, NEW m, NEW B, NEW n, MaySplice(l, m, B, n), Shape(l), Shape(B)
  PROVE  Shape(Splice(l, m, B, n))
<1> DEFINE g == Splice(l, m, B, n)
           d == m + Len(B) - n
<1>1. /\ l \in Seq(Lines) /\ B \in Seq(Lines) /\ n \in 0..Len(l) /\ m \in 0..n
      /\ Len(l) \in Nat /\ Len(B) \in Nat /\ n \in Nat /\ m \in Nat
  BY DEF MaySplice
<1>2. /\ g \in Seq(Lines) /\ Len(g) = Len(l) + d
      /\ \A i \in 1..m : g[i] = l[i]
      /\ \A i \in 1..Len(B) : g[m + i] = B[i]
      /\ \A i \in n + 1..Len(l) : g[d + i] = l[i]
      /\ \A i \in 1..Len(g) :
           \/ i \in 1..m /\ g[i] = l[i]
           \/ i - m \in 1..Len(B) /\ g[i] = B[i - m]
           \/ i - d \in n + 1..Len(l) /\ g[i] = l[i - d]
  BY <1>1, SpliceIs
<1>d. d \in Int /\ d = m + Len(B) - n
  BY <1>1
<1> HIDE DEF g, d
<1>3. ASSUME NEW i \in 1..Len(g), NEW j \in 1..Len(g), g[i] = g[j]
      PROVE  i = j
  <2>1. \A a, b \in 1..m \union n + 1..Len(l) : l[a] = l[b] => a = b
    BY <1>1 DEF Shape
  <2>2. \A a, b \in 1..Len(B) : B[a] = B[b] => a = b
    BY <1>1 DEF Shape
  <2>3. \A a \in 1..Len(B), b \in 1..m \union n + 1..Len(l) : B[a] # l[b]
    BY DEF MaySplice
  <2>k. \A k \in 1..m : k \in 1..m \union n + 1..Len(l)
    OBVIOUS
  <2>4. CASE i - m \in 1..Len(B) /\ g[i] = B[i - m]
    <3>1. ~ (j \in 1..m /\ g[j] = l[j]) /\ ~ (j - d \in n + 1..Len(l) /\ g[j] = l[j - d])
      BY <1>3, <2>3, <2>4
    <3>2. j - m \in 1..Len(B) /\ g[j] = B[j - m]
      BY <1>2, <3>1
    <3>3. i - m = j - m
      BY <1>3, <2>2, <2>4, <3>2
    <3> QED
      BY <1>1, <3>3
  <2>5. CASE j - m \in 1..Len(B) /\ g[j] = B[j - m]
    <3>1. ~ (i \in 1..m /\ g[i] = l[i]) /\ ~ (i - d \in n + 1..Len(l) /\ g[i] = l[i - d])
      BY <1>3, <2>3, <2>5
    <3>2. i - m \in 1..Len(B) /\ g[i] = B[i - m]
      BY <1>2, <3>1
    <3>3. i - m = j - m
      BY <1>3, <2>2, <2>5, <3>2
    <3> QED
      BY <1>1, <3>3
  <2>6. CASE /\ \/ i \in 1..m /\ g[i] = l[i]
                \/ i - d \in n + 1..Len(l) /\ g[i] = l[i - d]
             /\ \/ j \in 1..m /\ g[j] = l[j]
                \/ j - d \in n + 1..Len(l) /\ g[j] = l[j - d]
    <3>1. PICK a \in 1..m \union n + 1..Len(l) :
            l[a] = g[i] /\ i = IF a <= m THEN a ELSE d + a
      BY <1>1, <1>d, <2>6
    <3>2. PICK b \in 1..m \union n + 1..Len(l) :
            l[b] = g[j] /\ j = IF b <= m THEN b ELSE d + b
      BY <1>1, <1>d, <2>6
    <3>3. a = b
      BY <1>3, <2>1, <3>1, <3>2
    <3> QED
      BY <3>1, <3>2, <3>3
  <2> QED
    BY <1>2, <2>4, <2>5, <2>6
<1>4. ASSUME NEW i \in 1..Len(g), NEW s \in SSO, NEW v \in Version, g[i] = Body(s, v)
      PROVE  i > 1 /\ g[i - 1] = Prefix(s)
  <2>1. CASE i \in 1..m /\ g[i] = l[i]
    <3>1. i > 1 /\ l[i - 1] = Prefix(s) /\ i - 1 \in 1..m
      <4>1. i \in 1..Len(l) /\ l[i] = Body(s, v)
        BY <1>1, <1>4, <2>1
      <4>2. i > 1 /\ l[i - 1] = Prefix(s)
        BY <4>1, ShapeBody
      <4> QED
        BY <1>1, <2>1, <4>2
    <3> QED
      BY <1>2, <3>1
  <2>2. CASE i - m \in 1..Len(B) /\ g[i] = B[i - m]
    <3>1. i - m > 1 /\ B[(i - m) - 1] = Prefix(s)
      BY <1>4, <2>2, ShapeBody
    <3>2. (i - m) - 1 \in 1..Len(B) /\ m + ((i - m) - 1) = i - 1 /\ i > 1
      BY <1>1, <2>2, <3>1
    <3> QED
      BY <1>2, <3>1, <3>2
  <2>3. CASE i - d \in n + 1..Len(l) /\ g[i] = l[i - d]
    <3>1. i - d \in 1..Len(l) /\ l[i - d] = Body(s, v)
      BY <1>1, <1>4, <2>3
    <3>2. l[(i - d) - 1] = Prefix(s)
      BY <3>1, ShapeBody
    <3>3. i - d # n + 1
      <4>1. CASE n < Len(l)
        BY <3>1, <4>1, StartsNoBlock DEF MaySplice
      <4>2. CASE ~ (n < Len(l))
        BY <1>1, <2>3, <4>2
      <4> QED
        BY <4>1, <4>2
    <3>4. PICK k \in n + 1..Len(l) : k = i - d
      BY <2>3
    <3>5. k \in Nat /\ k > n + 1 /\ i = d + k
      BY <1>1, <1>d, <3>3, <3>4
    <3>6. k - 1 \in n + 1..Len(l) /\ d + (k - 1) = i - 1 /\ i > 1
      BY <1>1, <1>d, <3>5
    <3> QED
      BY <1>2, <3>2, <3>4, <3>6
  <2> QED
    BY <1>2, <2>1, <2>2, <2>3
<1>5. ASSUME NEW i \in 1..Len(g), NEW s \in SSO, g[i] = Suffix(s)
      PROVE  i > 2 /\ g[i - 2] = Prefix(s) /\ \E v \in Version : g[i - 1] = Body(s, v)
  <2>1. CASE i \in 1..m /\ g[i] = l[i]
    <3>1. /\ i > 2 /\ l[i - 2] = Prefix(s) /\ \E v \in Version : l[i - 1] = Body(s, v)
          /\ i - 1 \in 1..m /\ i - 2 \in 1..m
      <4>1. i \in 1..Len(l) /\ l[i] = Suffix(s)
        BY <1>1, <1>5, <2>1
      <4>2. i > 2 /\ l[i - 2] = Prefix(s) /\ \E v \in Version : l[i - 1] = Body(s, v)
        BY <4>1, ShapeSuffix
      <4> QED
        BY <1>1, <2>1, <4>2
    <3> QED
      BY <1>2, <3>1
  <2>2. CASE i - m \in 1..Len(B) /\ g[i] = B[i - m]
    <3>1. PICK k \in 1..Len(B) : k = i - m /\ B[k] = Suffix(s)
      BY <1>5, <2>2
    <3>2. /\ k > 2 /\ k - 1 \in 1..Len(B) /\ k - 2 \in 1..Len(B)
          /\ B[k - 2] = Prefix(s) /\ \E v \in Version : B[k - 1] = Body(s, v)
      BY <3>1, ShapeSuffix
    <3>3. m + (k - 1) = i - 1 /\ m + (k - 2) = i - 2 /\ i > 2
      BY <1>1, <3>1, <3>2
    <3>4. g[m + (k - 1)] = B[k - 1] /\ g[m + (k - 2)] = B[k - 2]
      BY <1>2, <3>2
    <3> QED
      BY <3>2, <3>3, <3>4
  <2>3. CASE i - d \in n + 1..Len(l) /\ g[i] = l[i - d]
    <3>1. PICK k \in n + 1..Len(l) : k = i - d /\ l[k] = Suffix(s)
      BY <1>5, <2>3
    <3>2. /\ k \in 1..Len(l) /\ k > 2 /\ k - 1 \in 1..Len(l) /\ k - 2 \in 1..Len(l)
          /\ l[k - 2] = Prefix(s) /\ \E v \in Version : l[k - 1] = Body(s, v)
      <4>1. k \in 1..Len(l)
        BY <1>1
      <4> QED
        BY <3>1, <4>1, ShapeSuffix
    <3>3. k # n + 1 /\ k - 1 # n + 1
      <4>1. CASE n < Len(l)
        BY <3>1, <3>2, <4>1, StartsNoBlock DEF MaySplice
      <4>2. CASE ~ (n < Len(l))
        BY <1>1, <4>2
      <4> QED
        BY <4>1, <4>2
    <3>4. /\ k - 1 \in n + 1..Len(l) /\ d + (k - 1) = i - 1
          /\ k - 2 \in n + 1..Len(l) /\ d + (k - 2) = i - 2
      <4>1. i \in Int /\ k \in Int /\ k >= n + 1 /\ k <= Len(l) /\ k = i - d
        BY <1>1, <3>1
      <4> QED
        BY <1>1, <1>d, <3>3, <4>1
    <3>5. i > 2
      BY <1>1, <1>d, <3>1, <3>4
    <3>6. g[d + (k - 1)] = l[k - 1] /\ g[d + (k - 2)] = l[k - 2]
      BY <1>2, <3>4
    <3> QED
      BY <3>2, <3>4, <3>5, <3>6
  <2> QED
    BY <1>2, <2>1, <2>2, <2>3
<1> QED
  BY <1>2, <1>3, <1>4, <1>5 DEF Shape, g

(* A splice that has nothing to do with the block of t leaves it whole.    *)
LEMMA SpliceHolds ==
  ASSUME NEW l, NEW m, NEW B, NEW n, MaySplice(l, m, B, n),
         NEW t \in SSO, NEW w, Holds(l, t, w),
         \A i \in m + 1..n : ~OfBlock(l[i], t),
         \A i \in 1..Len(B) : ~OfBlock(B[i], t)
  PROVE  Holds(Splice(l, m, B, n), t, w)
<1> DEFINE g == Splice(l, m, B, n)
           d == m + Len(B) - n
<1>1. /\ l \in Seq(Lines) /\ B \in Seq(Lines) /\ n \in 0..Len(l) /\ m \in 0..n
      /\ Len(l) \in Nat /\ Len(B) \in Nat /\ n \in Nat /\ m \in Nat
  BY DEF MaySplice
<1>2. /\ g \in Seq(Lines) /\ Len(g) = Len(l) + d
      /\ \A i \in 1..m : g[i] = l[i]
      /\ \A i \in n + 1..Len(l) : g[d + i] = l[i]
      /\ \A i \in 1..Len(g) :
           \/ i \in 1..m /\ g[i] = l[i]
           \/ i - m \in 1..Len(B) /\ g[i] = B[i - m]
           \/ i - d \in n + 1..Len(l) /\ g[i] = l[i - d]
  BY <1>1, SpliceIs
<1>3. d \in Int /\ d = m + Len(B) - n
  BY <1>1
<1> HIDE DEF g, d
<1>4. CASE w = 0
  <2>1. \A i \in 1..Len(l) : ~OfBlock(l[i], t)
    BY <1>4 DEF Holds
  <2>2. \A i \in 1..m \union n + 1..Len(l) : ~OfBlock(l[i], t)
    BY <1>1, <2>1
  <2>3. \A i \in 1..Len(g) : ~OfBlock(g[i], t)
    BY <1>2, <2>2
  <2> QED
    BY <1>4, <2>3 DEF Holds, g
<1>5. CASE w # 0
  <2>1. PICK i \in 1..Len(l) : /\ i + 2 <= Len(l) /\ w \in Version
                               /\ l[i] = Prefix(t)
                               /\ l[i + 1] = Body(t, w) /\ l[i + 2] = Suffix(t)
    BY <1>5 DEF Holds
  <2>2. CASE i + 2 <= m
    <3>1. i \in 1..m /\ i + 1 \in 1..m /\ i + 2 \in 1..m
      BY <1>1, <2>2
    <3>2. i \in 1..Len(g) /\ i + 2 <= Len(g)
      BY <1>1, <1>2, <1>3, <2>2
    <3>3. g[i] = Prefix(t) /\ g[i + 1] = Body(t, w) /\ g[i + 2] = Suffix(t)
      BY <1>2, <2>1, <3>1
    <3> QED
      BY <1>5, <2>1, <3>2, <3>3 DEF Holds, g
  <2>3. CASE i > n
    <3>1. i \in n + 1..Len(l) /\ i + 1 \in n + 1..Len(l) /\ i + 2 \in n + 1..Len(l)
      BY <1>1, <2>1, <2>3
    <3>2. /\ d + i \in 1..Len(g) /\ (d + i) + 2 <= Len(g)
          /\ (d + i) + 1 = d + (i + 1) /\ (d + i) + 2 = d + (i + 2)
      BY <1>1, <1>2, <1>3, <2>1, <2>3
    <3>3. g[d + i] = Prefix(t) /\ g[d + (i + 1)] = Body(t, w) /\ g[d + (i + 2)] = Suffix(t)
      BY <1>2, <2>1, <3>1
    <3> QED
      BY <1>5, <2>1, <3>2, <3>3 DEF Holds, g
  <2>4. CASE ~ (i + 2 <= m) /\ ~ (i > n)
    <3>1. OfBlock(l[i], t) /\ OfBlock(l[i + 1], t) /\ OfBlock(l[i + 2], t)
      BY <2>1 DEF OfBlock
    <3>2. i \notin m + 1..n /\ i + 1 \notin m + 1..n /\ i + 2 \notin m + 1..n
      BY <3>1
    <3>3. n < Len(l) /\ (n + 1 = i + 1 \/ n + 1 = i + 2)
      BY <1>1, <2>1, <2>4, <3>2
    <3>4. Starts(l[n + 1])
      BY <3>3 DEF MaySplice
    <3> QED
      BY <2>1, <3>3, <3>4, StartsNoBlock
  <2> QED
    BY <2>2, <2>3, <2>4
<1> QED
  BY <1>4, <1>5

(* One that has nothing to do with the user's lines leaves their order.    *)
LEMMA SpliceOrder ==
  ASSUME NEW l, NEW m, NEW B, NEW n, MaySplice(l, m, B, n),
         \A i \in m + 1..n : \A u \in UserLine : l[i] # User(u),
         \A i \in 1..Len(B) : \A u \in UserLine : B[i] # User(u)
  PROVE  UserOrder(Splice(l, m, B, n)) = UserOrder(l)
<1> DEFINE g == Splice(l, m, B, n)
           d == m + Len(B) - n
<1>1. /\ l \in Seq(Lines) /\ B \in Seq(Lines) /\ n \in 0..Len(l) /\ m \in 0..n
      /\ Len(l) \in Nat /\ Len(B) \in Nat /\ n \in Nat /\ m \in Nat
  BY DEF MaySplice
<1>2. /\ g \in Seq(Lines) /\ Len(g) = Len(l) + d
      /\ \A i \in 1..m : g[i] = l[i]
      /\ \A i \in n + 1..Len(l) : g[d + i] = l[i]
      /\ \A i \in 1..Len(g) :
           \/ i \in 1..m /\ g[i] = l[i]
           \/ i - m \in 1..Len(B) /\ g[i] = B[i - m]
           \/ i - d \in n + 1..Len(l) /\ g[i] = l[i - d]
  BY <1>1, SpliceIs
<1>3. d \in Int /\ d = m + Len(B) - n
  BY <1>1
<1> HIDE DEF g, d
<1> DEFINE To(i) == IF i <= m THEN i ELSE d + i
           From(i) == IF i <= m THEN i ELSE i - d
<1>4. ASSUME NEW i \in 1..Len(l), NEW u \in UserLine, l[i] = User(u)
      PROVE  To(i) \in 1..Len(g) /\ g[To(i)] = User(u) /\ (i <= m \/ i > n)
  <2>1. i \notin m + 1..n
    BY <1>4
  <2>2. CASE i <= m
    <3>1. i \in 1..m /\ i \in 1..Len(g)
      BY <1>1, <1>2, <1>3, <2>2
    <3> QED
      BY <1>2, <1>4, <2>2, <3>1
  <2>3. CASE ~ (i <= m)
    <3>1. i \in n + 1..Len(l) /\ d + i \in 1..Len(g) /\ i > n
      BY <1>1, <1>2, <1>3, <2>1, <2>3
    <3> QED
      BY <1>2, <1>4, <2>3, <3>1
  <2> QED
    BY <2>2, <2>3
<1>5. ASSUME NEW i \in 1..Len(g), NEW u \in UserLine, g[i] = User(u)
      PROVE  /\ From(i) \in 1..Len(l) /\ l[From(i)] = User(u)
             /\ i <= m \/ i - d > n
  <2>1. CASE i \in 1..m /\ g[i] = l[i]
    BY <1>1, <1>5, <2>1
  <2>2. CASE i - m \in 1..Len(B) /\ g[i] = B[i - m]
    BY <1>5, <2>2
  <2>3. CASE i - d \in n + 1..Len(l) /\ g[i] = l[i - d]
    <3>1. i - d \in 1..Len(l) /\ i - d > n /\ ~ (i <= m)
      BY <1>1, <1>3, <2>3
    <3> QED
      BY <1>5, <2>3, <3>1
  <2> QED
    BY <1>2, <2>1, <2>2, <2>3
<1>6. ASSUME NEW uw \in UserLine \X UserLine,
             NEW i \in 1..Len(l), NEW j \in 1..Len(l),
             i <= j, l[i] = User(uw[1]), l[j] = User(uw[2])
      PROVE  \E a, b \in 1..Len(g) : a <= b /\ g[a] = User(uw[1]) /\ g[b] = User(uw[2])
  <2>1. uw[1] \in UserLine /\ uw[2] \in UserLine
    OBVIOUS
  <2>2. /\ To(i) \in 1..Len(g) /\ g[To(i)] = User(uw[1]) /\ (i <= m \/ i > n)
        /\ To(j) \in 1..Len(g) /\ g[To(j)] = User(uw[2]) /\ (j <= m \/ j > n)
    BY <1>4, <1>6, <2>1
  <2>3. To(i) <= To(j)
    BY <1>1, <1>3, <1>6, <2>2
  <2> QED
    BY <2>2, <2>3
<1>7. ASSUME NEW uw \in UserLine \X UserLine,
             NEW i \in 1..Len(g), NEW j \in 1..Len(g),
             i <= j, g[i] = User(uw[1]), g[j] = User(uw[2])
      PROVE  \E a, b \in 1..Len(l) : a <= b /\ l[a] = User(uw[1]) /\ l[b] = User(uw[2])
  <2>1. uw[1] \in UserLine /\ uw[2] \in UserLine
    OBVIOUS
  <2>2. /\ From(i) \in 1..Len(l) /\ l[From(i)] = User(uw[1]) /\ (i <= m \/ i - d > n)
        /\ From(j) \in 1..Len(l) /\ l[From(j)] = User(uw[2]) /\ (j <= m \/ j - d > n)
    BY <1>5, <1>7, <2>1
  <2>3. From(i) <= From(j)
    BY <1>1, <1>3, <1>7, <2>2
  <2> QED
    BY <2>2, <2>3
<1> QED
  BY <1>6, <1>7 DEF UserOrder, g

(* A file that is cut off keeps its shape.                                 *)
LEMMA CutShape ==
  ASSUME NEW l, Shape(l), NEW n \in 0..Len(l)
  PROVE  Shape(SubSeq(l, 1, n))
<1> DEFINE g == SubSeq(l, 1, n)
<1>1. l \in Seq(Lines) /\ Len(l) \in Nat /\ n \in Nat
  BY DEF Shape
<1>2. g \in Seq(Lines) /\ Len(g) = n /\ \A i \in 1..n : g[i] = l[i] /\ i \in 1..Len(l)
  BY <1>1
<1> HIDE DEF g
<1>3. \A i, j \in 1..n : g[i] = g[j] => i = j
  BY <1>2 DEF Shape
<1>4. ASSUME NEW i \in 1..n, NEW s \in SSO, NEW v \in Version, g[i] = Body(s, v)
      PROVE  i > 1 /\ g[i - 1] = Prefix(s)
  <2>1. i > 1 /\ l[i - 1] = Prefix(s)
    BY <1>2, <1>4, ShapeBody
  <2> QED
    BY <1>1, <1>2, <2>1
<1>5. ASSUME NEW i \in 1..n, NEW s \in SSO, g[i] = Suffix(s)
      PROVE  i > 2 /\ g[i - 2] = Prefix(s) /\ \E v \in Version : g[i - 1] = Body(s, v)
  <2>1. i > 2 /\ l[i - 2] = Prefix(s) /\ \E v \in Version : l[i - 1] = Body(s, v)
    BY <1>2, <1>5, ShapeSuffix
  <2>2. i - 1 \in 1..n /\ i - 2 \in 1..n
    BY <1>1, <2>1
  <2> QED
    BY <1>2, <2>1, <2>2
<1> QED
  BY <1>2, <1>3, <1>4, <1>5 DEF Shape, g

-----------------------------------------------------------------------------
(* What GenerateNewFile does is a splice.                                  *)

(* Ends of a sequence.                                                     *)
LEMMA WholeAndNothing ==
  ASSUME NEW l \in Seq(Lines)
  PROVE  /\ SubSeq(l, 1, Len(l)) = l
         /\ SubSeq(l, Len(l) + 1, Len(l)) = <<>>
         /\ l \o <<>> = l /\ <<>> \o l = l
         /\ l # <<>> => /\ Front(l) = SubSeq(l, 1, Len(l) - 1) /\ Last(l) = l[Len(l)]
                        /\ Len(l) \in Nat \ {0}
BY DEF Front, Last

LEMMA FindIs ==
  ASSUME NEW f, f.lines \in Seq(Lines), NEW i \in Nat \ {0}, NEW line
  PROVE  \/ /\ Find(f, i, line) = 0
            /\ \A j \in i..Len(f.lines) : ~IsLine(f, j, line)
         \/ /\ Find(f, i, line) \in i..Len(f.lines)
            /\ IsLine(f, Find(f, i, line), line)
            /\ \A j \in i..Len(f.lines) : IsLine(f, j, line) => Find(f, i, line) <= j
<1> DEFINE found == {k \in i..Len(f.lines) : IsLine(f, k, line)}
<1>1. CASE found = {}
  BY <1>1 DEF Find
<1>2. CASE found # {}
  <2>1. PICK k \in found : \A j \in found : k <= j
    <3>1. found \subseteq Nat
      OBVIOUS
    <3> HIDE DEF found
    <3> QED
      BY <1>2, <3>1, Least
  <2>2. Find(f, i, line) = CHOOSE x \in found : \A j \in found : x <= j
    BY <1>2 DEF Find
  <2> HIDE DEF found
  <2>3. Find(f, i, line) \in found /\ \A j \in found : Find(f, i, line) <= j
    BY <2>1, <2>2
  <2> QED
    BY <2>3 DEF found
<1> QED
  BY <1>1, <1>2

(* A file as it may be found.                                              *)
IsText(f) ==
  /\ Shape(f.lines) /\ f.ended \in BOOLEAN
  /\ f.lines = <<>> => f.ended

(* The lines of the block that an execution is to write.                   *)
LEMMA BlockIs ==
  ASSUME NEW s \in SSO, NEW v \in Version \union {0}
  PROVE  /\ Block(s, v) \in Seq(Lines) /\ Shape(Block(s, v))
         /\ v = 0 => Block(s, v) = <<>> /\ Len(Block(s, v)) = 0
         /\ v # 0 => /\ Len(Block(s, v)) = 3 /\ v \in Version
                     /\ Block(s, v)[1] = Prefix(s) /\ Block(s, v)[2] = Body(s, v)
                     /\ Block(s, v)[3] = Suffix(s)
         /\ \A i \in 1..Len(Block(s, v)) : OfBlock(Block(s, v)[i], s)
<1>1. CASE v = 0
  <2>1. Block(s, v) = <<>>
    BY <1>1 DEF Block
  <2>2. <<>> \in Seq(Lines) /\ Len(<<>>) = 0 /\ 1..0 = {}
    OBVIOUS
  <2>3. Shape(<<>>)
    BY <2>2 DEF Shape
  <2> QED
    BY <1>1, <2>1, <2>2, <2>3
<1>2. CASE v # 0
  <2> DEFINE b == Block(s, v)
  <2>0. v \in Version /\ b = <<Prefix(s), Body(s, v), Suffix(s)>>
    BY <1>2 DEF Block
  <2>1. Prefix(s) \in Lines /\ Body(s, v) \in Lines /\ Suffix(s) \in Lines
    BY <2>0 DEF Lines
  <2>2. /\ b \in Seq(Lines) /\ Len(b) = 3
        /\ b[1] = Prefix(s) /\ b[2] = Body(s, v) /\ b[3] = Suffix(s)
    BY <2>0, <2>1
  <2> HIDE DEF b
  <2>3. 1..Len(b) = {1, 2, 3}
    BY <2>2
  <2>4. \A i, j \in 1..Len(b) : b[i] = b[j] => i = j
    BY <2>0, <2>2, <2>3, LinesDiffer
  <2>5. ASSUME NEW i \in 1..Len(b), NEW t \in SSO, NEW w \in Version, b[i] = Body(t, w)
        PROVE  i > 1 /\ b[i - 1] = Prefix(t)
    <3>1. i = 2 /\ t = s
      BY <2>0, <2>2, <2>3, <2>5, LinesDiffer
    <3> QED
      BY <2>2, <3>1
  <2>6. ASSUME NEW i \in 1..Len(b), NEW t \in SSO, b[i] = Suffix(t)
        PROVE  i > 2 /\ b[i - 2] = Prefix(t) /\ \E w \in Version : b[i - 1] = Body(t, w)
    <3>1. i = 3 /\ t = s
      BY <2>0, <2>2, <2>3, <2>6, LinesDiffer
    <3> QED
      BY <2>0, <2>2, <3>1
  <2>7. Shape(b)
    BY <2>2, <2>4, <2>5, <2>6 DEF Shape
  <2>8. \A i \in 1..Len(b) : OfBlock(b[i], s)
    BY <2>0, <2>2, <2>3 DEF OfBlock
  <2> QED
    BY <1>2, <2>0, <2>2, <2>7, <2>8 DEF b
<1> QED
  BY <1>1, <1>2

(* Lines of one block are of no other, and are none of the user's.         *)
LEMMA BlocksApart ==
  ASSUME NEW line, NEW s \in SSO, OfBlock(line, s)
  PROVE  /\ \A t \in SSO : OfBlock(line, t) => s = t
         /\ \A u \in UserLine : line # User(u)
BY LinesDiffer DEF OfBlock

(* Where the prefix of s is, all its lines are; without it there are none. *)
LEMMA BlockPlaces ==
  ASSUME NEW l, Shape(l), NEW i \in 1..Len(l), NEW s \in SSO, OfBlock(l[i], s)
  PROVE  \E p \in 1..Len(l) :
           /\ l[p] = Prefix(s) /\ p <= i /\ i <= p + 2
           /\ l[i] = Prefix(s) => i = p
           /\ l[i] = Suffix(s) => i = p + 2
           /\ \A q \in 1..Len(l) : l[q] = Prefix(s) => q = p
<1>0. Len(l) \in Nat /\ \A a, b \in 1..Len(l) : l[a] = l[b] => a = b
  BY DEF Shape
<1>1. CASE l[i] = Prefix(s)
  BY <1>0, <1>1, LinesDiffer
<1>2. CASE l[i] = Suffix(s)
  <2>1. i > 2 /\ i - 2 \in 1..Len(l) /\ l[i - 2] = Prefix(s)
    BY <1>2, ShapeSuffix
  <2>2. i - 2 <= i /\ i <= (i - 2) + 2 /\ i = (i - 2) + 2
    BY <1>0
  <2> QED
    BY <1>0, <1>2, <2>1, <2>2, LinesDiffer
<1>3. CASE \E v \in Version : l[i] = Body(s, v)
  <2>1. i > 1 /\ i - 1 \in 1..Len(l) /\ l[i - 1] = Prefix(s)
    BY <1>3, ShapeBody
  <2>2. i - 1 <= i /\ i <= (i - 1) + 2
    BY <1>0
  <2> QED
    BY <1>0, <1>3, <2>1, <2>2, LinesDiffer
<1> QED
  BY <1>1, <1>2, <1>3 DEF OfBlock

(* GenerateNewFile takes out what there is of a block, all of it where the *)
(* block is whole, and puts another in.                                    *)
Generated(f, s, v, m, n) ==
  LET g == GenerateNewFile(f, s, v) IN
  /\ g.lines = Splice(f.lines, m, Block(s, v), n)
  /\ g.ended \in BOOLEAN /\ (g.lines = <<>> => g.ended)
  /\ MaySplice(f.lines, m, Block(s, v), n)
  /\ \A i \in 1..m \union n + 1..Len(f.lines) : ~OfBlock(f.lines[i], s)
  /\ \A w \in Version \union {0} :
       Holds(f.lines, s, w) => \A i \in m + 1..n : OfBlock(f.lines[i], s)

(* Where all of a block is taken out the other may be put in.              *)
LEMMA MayReplace ==
  ASSUME NEW l, Shape(l), NEW n \in 0..Len(l), NEW m \in 0..n,
         NEW s \in SSO, NEW v \in Version \union {0},
         \A i \in 1..m \union n + 1..Len(l) : ~OfBlock(l[i], s),
         n < Len(l) => Starts(l[n + 1])
  PROVE  MaySplice(l, m, Block(s, v), n)
<1>1. Block(s, v) \in Seq(Lines) /\ \A i \in 1..Len(Block(s, v)) : OfBlock(Block(s, v)[i], s)
  BY BlockIs
<1>2. \A i \in 1..Len(Block(s, v)), j \in 1..m \union n + 1..Len(l) : Block(s, v)[i] # l[j]
  BY <1>1
<1> QED
  BY <1>1, <1>2 DEF MaySplice, Shape

(* A file that is not empty, or has a block put in, is not without lines.  *)
LEMMA FileIs ==
  ASSUME NEW lines, NEW ended \in BOOLEAN
  PROVE  /\ File(lines, ended).lines = lines
         /\ File(lines, ended).ended \in BOOLEAN
         /\ File(lines, ended).lines = <<>> => File(lines, ended).ended
         /\ lines # <<>> => File(lines, ended) = [lines |-> lines, ended |-> ended]
BY DEF File, Empty

LEMMA AddBlockIs ==
  ASSUME NEW f, IsText(f), NEW s \in SSO, NEW v \in Version \union {0},
         Find(f, 1, Prefix(s)) = 0
  PROVE  \E n \in 0..Len(f.lines) : \E m \in 0..n :
           /\ Generated(f, s, v, m, n) /\ n = Len(f.lines)
           /\ GenerateNewFile(f, s, v) =
                File(SubSeq(f.lines, 1, m) \o Block(s, v), f.ended \/ m # n \/ v # 0)
           /\ m # n => f.lines[n] = Prefix(s) /\ m = n - 1
<1> DEFINE l == f.lines
           partial == ~f.ended /\ Last(l) = Prefix(s)
           m == IF partial THEN Len(l) - 1 ELSE Len(l)
           n == Len(l)
           g == GenerateNewFile(f, s, v)
<1>1. /\ Shape(l) /\ l \in Seq(Lines) /\ n \in Nat /\ f.ended \in BOOLEAN
      /\ \A i, j \in 1..n : l[i] = l[j] => i = j
  BY DEF IsText, Shape
<1>2. \A i \in 1..n : ~IsLine(f, i, Prefix(s))
  <2>1. f.lines \in Seq(Lines) /\ 1 \in Nat \ {0}
    BY <1>1
  <2>2. ASSUME NEW i \in 1..n, IsLine(f, i, Prefix(s))
        PROVE  Find(f, 1, Prefix(s)) \in 1..n
    BY <2>1, <2>2, FindIs
  <2>3. \A i \in 1..n : i # 0
    OBVIOUS
  <2> HIDE DEF n
  <2> QED
    BY <2>2, <2>3
<1>3. ASSUME NEW i \in 1..n, l[i] = Prefix(s)
      PROVE  i = n /\ partial
  <2>1. i = n /\ ~f.ended
    BY <1>1, <1>2, <1>3 DEF IsLine
  <2>2. Last(l) = l[n]
    BY DEF Last
  <2> QED
    BY <1>3, <2>1, <2>2
<1>4. partial => n # 0 /\ l # <<>> /\ l[n] = Prefix(s)
  <2>1. partial => l # <<>>
    BY DEF IsText
  <2> QED
    BY <1>1, <2>1, WholeAndNothing
<1>5. m \in 0..n /\ n \in 0..Len(l) /\ (m # n => partial /\ m = n - 1)
  BY <1>1, <1>4
<1>6. \A i \in 1..m \union n + 1..Len(l) : ~OfBlock(l[i], s)
  <2>1. SUFFICES ASSUME NEW i \in 1..m, OfBlock(l[i], s)
                 PROVE  FALSE
    BY <1>1
  <2>2. i \in 1..Len(l)
    BY <1>1, <1>5
  <2>3. PICK p \in 1..Len(l) : l[p] = Prefix(s) /\ p <= i
    BY <1>1, <2>1, <2>2, BlockPlaces
  <2>4. p = n /\ partial
    BY <1>3, <2>3
  <2> QED
    BY <1>1, <2>1, <2>3, <2>4
<1>7. MaySplice(l, m, Block(s, v), n)
  <2>1. ~ (n < Len(l))
    BY <1>1
  <2> HIDE DEF m, n
  <2> QED
    BY <1>1, <1>5, <1>6, <2>1, MayReplace
<1>8. g = File(SubSeq(l, 1, m) \o Block(s, v), f.ended \/ m # n \/ v # 0)
  <2>1. g = AddBlock(f, s, v)
    BY DEF GenerateNewFile
  <2>2. CASE partial
    <3>1. Front(l) = SubSeq(l, 1, m) /\ m # n
      BY <1>1, <1>4, <2>2, WholeAndNothing
    <3> QED
      BY <2>1, <2>2, <3>1 DEF AddBlock
  <2>3. CASE ~partial
    <3>1. l = SubSeq(l, 1, m) /\ m = n
      BY <1>1, <2>3, WholeAndNothing
    <3> QED
      BY <2>1, <2>3, <3>1 DEF AddBlock
  <2> QED
    BY <2>2, <2>3
<1>9. SubSeq(l, 1, m) \o Block(s, v) = Splice(l, m, Block(s, v), n)
  <2>1. SubSeq(l, n + 1, Len(l)) = <<>>
    BY <1>1, WholeAndNothing
  <2>2. SubSeq(l, 1, m) \in Seq(Lines) /\ Block(s, v) \in Seq(Lines)
    BY <1>1, <1>5, BlockIs
  <2>3. ASSUME NEW a \in Seq(Lines), NEW b \in Seq(Lines)
        PROVE  a \o b \in Seq(Lines)
    OBVIOUS
  <2>4. (SubSeq(l, 1, m) \o Block(s, v)) \o <<>> = SubSeq(l, 1, m) \o Block(s, v)
    BY <2>2, <2>3, WholeAndNothing
  <2> QED
    BY <2>1, <2>4 DEF Splice
<1>10. \A i \in m + 1..n : OfBlock(l[i], s)
  <2>1. SUFFICES ASSUME NEW i \in m + 1..n
                 PROVE  OfBlock(l[i], s)
    OBVIOUS
  <2>2. partial /\ i = n
    BY <1>1, <1>5, <2>1
  <2> QED
    BY <1>4, <2>2 DEF OfBlock
<1>11. Generated(f, s, v, m, n)
  <2>1. (f.ended \/ m # n \/ v # 0) \in BOOLEAN
    OBVIOUS
  <2> HIDE DEF m, n
  <2>2. /\ g.lines = Splice(l, m, Block(s, v), n)
        /\ g.ended \in BOOLEAN /\ (g.lines = <<>> => g.ended)
    <3> DEFINE x == SubSeq(l, 1, m) \o Block(s, v)
               b == f.ended \/ m # n \/ v # 0
    <3>1. g = File(x, b) /\ b \in BOOLEAN /\ x = Splice(l, m, Block(s, v), n)
      BY <1>8, <1>9, <2>1
    <3> HIDE DEF x, b, g
    <3> QED
      BY <3>1, FileIs
  <2> QED
    BY <1>6, <1>7, <1>10, <2>2 DEF Generated
<1> HIDE DEF g
<1>12. m # n => l[n] = Prefix(s) /\ m = n - 1
  BY <1>4, <1>5
<1> HIDE DEF m
<1> QED
  BY <1>5, <1>8, <1>11, <1>12 DEF g

(* The file has a prefix that ReadString finds.                            *)
LEMMA ReplaceBlockIs ==
  ASSUME NEW f, IsText(f), NEW s \in SSO, NEW v \in Version \union {0},
         Find(f, 1, Prefix(s)) # 0
  PROVE  LET p == Find(f, 1, Prefix(s))
             q == Find(f, p + 1, Suffix(s))
             n == IF q = 0 THEN Len(f.lines) ELSE q IN
           /\ Generated(f, s, v, p - 1, n)
           /\ p \in 1..Len(f.lines) /\ f.lines[p] = Prefix(s)
           /\ n \in 0..Len(f.lines) /\ p - 1 \in 0..n /\ n >= p
           /\ q # 0 => q = p + 2 /\ f.lines[q] = Suffix(s) /\ IsLine(f, q, Suffix(s))
           /\ q = 0 => \A j \in p + 1..Len(f.lines) : ~IsLine(f, j, Suffix(s))
           /\ GenerateNewFile(f, s, v) =
                File(Splice(f.lines, p - 1, Block(s, v), n), n = Len(f.lines) \/ f.ended)
<1> DEFINE l == f.lines
           p == Find(f, 1, Prefix(s))
           q == Find(f, p + 1, Suffix(s))
           n == IF q = 0 THEN Len(l) ELSE q
           tail == IF q = 0 THEN <<>> ELSE SubSeq(l, q + 1, Len(l))
           g == GenerateNewFile(f, s, v)
<1>1. /\ Shape(l) /\ l \in Seq(Lines) /\ Len(l) \in Nat /\ f.ended \in BOOLEAN
      /\ \A i, j \in 1..Len(l) : l[i] = l[j] => i = j
  BY DEF IsText, Shape
<1>2. p \in 1..Len(l) /\ l[p] = Prefix(s)
  BY <1>1, FindIs DEF IsLine
<1>3. \/ q = 0 /\ \A j \in p + 1..Len(l) : ~IsLine(f, j, Suffix(s))
      \/ q \in p + 1..Len(l) /\ IsLine(f, q, Suffix(s))
  <2> HIDE DEF p
  <2>1. p + 1 \in Nat \ {0}
    BY <1>1, <1>2
  <2> QED
    BY <1>1, <2>1, FindIs
<1>4. q # 0 => q = p + 2 /\ q \in 1..Len(l) /\ l[q] = Suffix(s) /\ IsLine(f, q, Suffix(s))
  <2>1. SUFFICES ASSUME q # 0
                 PROVE  q = p + 2 /\ q \in 1..Len(l) /\ l[q] = Suffix(s) /\ IsLine(f, q, Suffix(s))
    OBVIOUS
  <2>2. q \in p + 1..Len(l) /\ IsLine(f, q, Suffix(s))
    BY <1>3, <2>1
  <2> HIDE DEF p, q
  <2>3. q \in 1..Len(l) /\ l[q] = Suffix(s)
    BY <1>1, <1>2, <2>2 DEF IsLine
  <2>4. q > 2 /\ q - 2 \in 1..Len(l) /\ l[q - 2] = Prefix(s)
    BY <1>1, <2>3, ShapeSuffix
  <2>5. q - 2 = p
    BY <1>1, <1>2, <2>4
  <2> QED
    BY <1>1, <1>2, <2>2, <2>3, <2>5
<1> HIDE DEF p, q
<1>5. n \in 0..Len(l) /\ p - 1 \in 0..n /\ n >= p
  BY <1>1, <1>2, <1>4
<1>6. \A i \in 1..p - 1 \union n + 1..Len(l) : ~OfBlock(l[i], s)
  <2>1. SUFFICES ASSUME NEW i \in 1..p - 1 \union n + 1..Len(l), OfBlock(l[i], s)
                 PROVE  FALSE
    OBVIOUS
  <2>2. i \in 1..Len(l)
    BY <1>1, <1>2, <1>5
  <2>3. p <= i /\ i <= p + 2
    BY <1>1, <1>2, <2>1, <2>2, BlockPlaces
  <2>4. i \in n + 1..Len(l)
    BY <1>1, <1>2, <2>1, <2>3
  <2>5. q # 0 /\ n = q /\ q = p + 2
    BY <1>1, <1>4, <2>4
  <2> QED
    BY <1>1, <1>2, <2>3, <2>4, <2>5
<1>7. n < Len(l) => Starts(l[n + 1])
  <2>1. SUFFICES ASSUME n < Len(l), ~Starts(l[n + 1])
                 PROVE  FALSE
    OBVIOUS
  <2>2. q # 0 /\ n = q /\ l[n] = Suffix(s) /\ n + 1 \in 1..Len(l) /\ n \in Nat
    BY <1>1, <1>4, <1>5, <2>1
  <2> HIDE DEF n
  <2>3. l[n + 1] \in Lines
    BY <1>1, <2>2
  <2>4. (n + 1) - 1 = n
    BY <2>2
  <2>5. CASE \E t \in SSO : l[n + 1] = Suffix(t)
    BY <1>1, <2>2, <2>4, <2>5, ShapeSuffix, LinesDiffer
  <2>6. CASE \E t \in SSO : \E w \in Version : l[n + 1] = Body(t, w)
    BY <1>1, <2>2, <2>4, <2>6, ShapeBody, LinesDiffer
  <2> QED
    BY <2>1, <2>3, <2>5, <2>6, LineKinds
<1>8. MaySplice(l, p - 1, Block(s, v), n)
  <2> HIDE DEF n
  <2> QED
    BY <1>1, <1>5, <1>6, <1>7, MayReplace
<1>9. tail = SubSeq(l, n + 1, Len(l))
  BY <1>1, WholeAndNothing
<1>10. g = File(Splice(l, p - 1, Block(s, v), n), n = Len(l) \/ f.ended)
  <2>1. g = File(SubSeq(l, 1, p - 1) \o Block(s, v) \o tail, IF tail = <<>> THEN TRUE ELSE f.ended)
    BY DEF GenerateNewFile, ReplaceBlock, p, q
  <2> HIDE DEF tail, g, n
  <2>2. tail = <<>> <=> n = Len(l)
    <3>1. CASE n = Len(l)
      BY <1>1, <1>9, <3>1, WholeAndNothing
    <3>2. CASE n # Len(l)
      <4>1. n \in Nat /\ n < Len(l)
        BY <1>1, <1>5, <3>2
      <4>2. Len(SubSeq(l, n + 1, Len(l))) # 0
        BY <1>1, <4>1
      <4>3. Len(<<>>) = 0
        OBVIOUS
      <4>4. SubSeq(l, n + 1, Len(l)) # <<>>
        BY <4>2, <4>3, Zenon
      <4> QED
        BY <1>9, <3>2, <4>4, Zenon
    <3> QED
      BY <3>1, <3>2
  <2>3. (IF tail = <<>> THEN TRUE ELSE f.ended) = (n = Len(l) \/ f.ended)
    BY <1>1, <2>2
  <2> QED
    BY <1>9, <2>1, <2>3 DEF Splice
<1>11. ASSUME NEW w \in Version \union {0}, Holds(l, s, w), NEW i \in p - 1 + 1..n
       PROVE  OfBlock(l[i], s)
  <2>1. w # 0
    BY <1>2, <1>11 DEF Holds, OfBlock
  <2>2. PICK j \in 1..Len(l) : /\ j + 2 <= Len(l) /\ w \in Version
                               /\ l[j] = Prefix(s)
                               /\ l[j + 1] = Body(s, w) /\ l[j + 2] = Suffix(s)
    BY <1>11, <2>1 DEF Holds
  <2>3. j = p
    BY <1>1, <1>2, <2>2
  <2>4. n = p + 2
    <3>1. CASE q # 0
      BY <1>4, <3>1
    <3>2. CASE q = 0
      <4>1. p + 2 \in p + 1..Len(l) /\ l[p + 2] = Suffix(s)
        BY <1>1, <1>2, <2>2, <2>3
      <4>2. ~IsLine(f, p + 2, Suffix(s))
        BY <1>2, <1>3, <3>2, <4>1
      <4>3. p + 2 = Len(l)
        BY <1>1, <1>2, <4>1, <4>2 DEF IsLine
      <4> QED
        BY <3>2, <4>3
    <3> QED
      BY <3>1, <3>2
  <2>5. i = p \/ i = p + 1 \/ i = p + 2
    BY <1>1, <1>2, <1>11, <2>4
  <2> QED
    BY <1>2, <2>2, <2>3, <2>5 DEF OfBlock
<1>12. Generated(f, s, v, p - 1, n)
  <2> DEFINE x == Splice(l, p - 1, Block(s, v), n)
             b == n = Len(l) \/ f.ended
  <2>1. g = File(x, b) /\ b \in BOOLEAN
    BY <1>10
  <2> HIDE DEF x, b, g, n
  <2>2. g.lines = x /\ g.ended \in BOOLEAN /\ (g.lines = <<>> => g.ended)
    BY <2>1, FileIs
  <2> QED
    BY <1>6, <1>8, <1>11, <2>2 DEF Generated, x, g
<1>13. q = 0 => \A j \in p + 1..Len(l) : ~IsLine(f, j, Suffix(s))
  BY <1>2, <1>3
<1> QED
  BY <1>2, <1>4, <1>5, <1>10, <1>12, <1>13 DEF p, q

(* Where three lines are put in after m others.                            *)
LEMMA PlaceOfThree ==
  ASSUME NEW a \in Nat, NEW m \in Nat, NEW n \in Nat, m <= n, n <= a,
         NEW d, d = m + 3 - n, NEW x, x = a + d
  PROVE  /\ m + 3 <= x /\ (m + 3 = x => n = a)
         /\ m + 1 \in 1..x /\ (m + 1) + 2 <= x
OBVIOUS

LEMMA GenerateIs ==
  ASSUME NEW f, IsText(f), NEW s \in SSO, NEW v \in Version \union {0}
  PROVE  \E n \in 0..Len(f.lines) : \E m \in 0..n : Generated(f, s, v, m, n)
<1>1. CASE Find(f, 1, Prefix(s)) = 0
  BY <1>1, AddBlockIs
<1>2. CASE Find(f, 1, Prefix(s)) # 0
  BY <1>2, ReplaceBlockIs
<1> QED
  BY <1>1, <1>2

(* What it makes of a file is again one as it may be found.                *)
LEMMA GeneratedIsText ==
  ASSUME NEW f, IsText(f), NEW s \in SSO, NEW v \in Version \union {0}
  PROVE  IsText(GenerateNewFile(f, s, v))
<1>0. PICK n \in 0..Len(f.lines) : \E m \in 0..n : Generated(f, s, v, m, n)
  BY GenerateIs
<1>1. PICK m \in 0..n : Generated(f, s, v, m, n)
  BY <1>0
<1>2. Shape(Splice(f.lines, m, Block(s, v), n))
  BY <1>1, BlockIs, SpliceShape DEF Generated, IsText
<1> QED
  BY <1>1, <1>2 DEF Generated, IsText

(* Where all blocks are whole, it changes the block it is asked to change, *)
(* no other, and nothing of the user's.                                    *)
LEMMA GeneratedKeeps ==
  ASSUME NEW f, IsText(f), NEW s \in SSO, NEW v \in Version \union {0},
         NEW w \in [SSO -> Version \union {0}], \A t \in SSO : Holds(f.lines, t, w[t])
  PROVE  LET g == GenerateNewFile(f, s, v) IN
         /\ \A t \in SSO : Holds(g.lines, t, [w EXCEPT ![s] = v][t])
         /\ UserOrder(g.lines) = UserOrder(f.lines)
<1> DEFINE l == f.lines
           B == Block(s, v)
<1>0. PICK n \in 0..Len(l) : \E m \in 0..n : Generated(f, s, v, m, n)
  BY GenerateIs
<1>1. PICK m \in 0..n : Generated(f, s, v, m, n)
  BY <1>0
<1> DEFINE g == Splice(l, m, B, n)
<1>2. /\ MaySplice(l, m, B, n) /\ GenerateNewFile(f, s, v).lines = g
      /\ \A i \in 1..m \union n + 1..Len(l) : ~OfBlock(l[i], s)
      /\ \A i \in m + 1..n : OfBlock(l[i], s)
  BY <1>1 DEF Generated
<1>3. /\ l \in Seq(Lines) /\ B \in Seq(Lines) /\ Len(l) \in Nat /\ Len(B) \in Nat
      /\ m \in Nat /\ n \in Nat /\ m <= n /\ n <= Len(l)
  BY <1>2 DEF MaySplice
<1>4. \A i \in 1..Len(B) : OfBlock(B[i], s)
  BY BlockIs
<1>5. ASSUME NEW t \in SSO, t # s
      PROVE  Holds(g, t, w[t])
  <2>1. \A i \in m + 1..n : ~OfBlock(l[i], t)
    BY <1>2, <1>5, BlocksApart
  <2>2. \A i \in 1..Len(B) : ~OfBlock(B[i], t)
    BY <1>4, <1>5, BlocksApart
  <2> HIDE DEF B, l
  <2> QED
    BY <1>2, <2>1, <2>2, SpliceHolds DEF l
<1>6. Holds(g, s, v)
  <2> DEFINE d == m + Len(B) - n
  <2>1. /\ Len(g) = Len(l) + d /\ d \in Int
        /\ \A i \in 1..Len(B) : g[m + i] = B[i]
        /\ \A i \in 1..Len(g) :
             \/ i \in 1..m /\ g[i] = l[i]
             \/ i - m \in 1..Len(B) /\ g[i] = B[i - m]
             \/ i - d \in n + 1..Len(l) /\ g[i] = l[i - d]
    BY <1>3, SpliceIs
  <2>d. d = m + Len(B) - n
    OBVIOUS
  <2> HIDE DEF g, d
  <2>2. CASE v = 0
    <3>1. Len(B) = 0
      BY <2>2, BlockIs
    <3> HIDE DEF B, l
    <3>2. ASSUME NEW i \in 1..Len(g)
          PROVE  ~OfBlock(g[i], s)
      <4>1. i - m \notin 1..Len(B)
        BY <3>1
      <4>2. \E j \in 1..m \union n + 1..Len(l) : g[i] = l[j]
        BY <2>1, <4>1
      <4> QED
        BY <1>2, <4>2
    <3> QED
      BY <2>2, <3>2 DEF Holds
  <2>3. CASE v # 0
    <3>1. /\ Len(B) = 3 /\ v \in Version
          /\ B[1] = Prefix(s) /\ B[2] = Body(s, v) /\ B[3] = Suffix(s)
      BY <2>3, BlockIs
    <3> HIDE DEF B
    <3>2. g[m + 1] = Prefix(s) /\ g[(m + 1) + 1] = Body(s, v) /\ g[(m + 1) + 2] = Suffix(s)
      <4>1. 1 \in 1..Len(B) /\ 2 \in 1..Len(B) /\ 3 \in 1..Len(B)
        BY <3>1
      <4>2. (m + 1) + 1 = m + 2 /\ (m + 1) + 2 = m + 3
        BY <1>3
      <4> QED
        BY <2>1, <3>1, <4>1, <4>2
    <3>3. m + 1 \in 1..Len(g) /\ (m + 1) + 2 <= Len(g)
      <4>1. d = m + 3 - n /\ Len(g) = Len(l) + d
        BY <2>1, <2>d, <3>1
      <4> HIDE DEF l
      <4> QED
        BY <1>3, <4>1, PlaceOfThree
    <3> QED
      BY <2>3, <3>1, <3>2, <3>3 DEF Holds
  <2> QED
    BY <2>2, <2>3
<1>7. UserOrder(g) = UserOrder(l)
  <2>1. \A i \in m + 1..n : \A u \in UserLine : l[i] # User(u)
    BY <1>2, BlocksApart
  <2>2. \A i \in 1..Len(B) : \A u \in UserLine : B[i] # User(u)
    BY <1>4, BlocksApart
  <2> HIDE DEF B, l
  <2> QED
    BY <1>2, <2>1, <2>2, SpliceOrder
<1> HIDE DEF g
<1> QED
  BY <1>2, <1>5, <1>6, <1>7

-----------------------------------------------------------------------------
(* Writing a block again.                                                  *)

LEMMA SameLines ==
  ASSUME NEW a \in Seq(Lines), NEW b \in Seq(Lines), Len(a) = Len(b),
         \A i \in 1..Len(a) : a[i] = b[i]
  PROVE  a = b
OBVIOUS

(* Lines replaced by the same lines.                                       *)
LEMMA SpliceSame ==
  ASSUME NEW l \in Seq(Lines), NEW B \in Seq(Lines), NEW n \in 0..Len(l), NEW m \in 0..n,
         Len(B) = n - m, \A i \in 1..Len(B) : B[i] = l[m + i]
  PROVE  Splice(l, m, B, n) = l
<1> DEFINE g == Splice(l, m, B, n)
           d == m + Len(B) - n
<1>1. /\ g \in Seq(Lines) /\ Len(g) = Len(l) + d
      /\ \A i \in 1..Len(g) :
           \/ i \in 1..m /\ g[i] = l[i]
           \/ i - m \in 1..Len(B) /\ g[i] = B[i - m]
           \/ i - d \in n + 1..Len(l) /\ g[i] = l[i - d]
  BY SpliceIs
<1>2. m \in Nat /\ n \in Nat /\ Len(l) \in Nat /\ Len(B) \in Nat /\ d = 0
  OBVIOUS
<1> HIDE DEF g, d
<1>3. Len(g) = Len(l)
  BY <1>1, <1>2
<1>4. ASSUME NEW i \in 1..Len(g)
      PROVE  g[i] = l[i]
  <2>1. i - d = i /\ m + (i - m) = i
    BY <1>2
  <2>2. i - m \in 1..Len(B) => B[i - m] = l[i]
    BY <2>1
  <2> QED
    BY <1>1, <2>1, <2>2
<1> QED
  BY <1>1, <1>3, <1>4, SameLines DEF g

(* The new block ends the file, with its newline, or is followed by more.  *)
LEMMA BlockEnds ==
  ASSUME NEW f, IsText(f), NEW s \in SSO, NEW v \in Version, v # 0
  PROVE  LET g == GenerateNewFile(f, s, v) IN
         \E k \in Nat :
           /\ k >= 1 /\ k + 2 <= Len(g.lines)
           /\ g.lines[k] = Prefix(s) /\ g.lines[k + 1] = Body(s, v) /\ g.lines[k + 2] = Suffix(s)
           /\ k + 2 = Len(g.lines) => g.ended
           /\ g = [lines |-> g.lines, ended |-> g.ended]
<1> DEFINE l == f.lines
           B == Block(s, v)
           g == GenerateNewFile(f, s, v)
<1>0. v \in Version \union {0} /\ f.ended \in BOOLEAN /\ l \in Seq(Lines) /\ Len(l) \in Nat
  BY DEF IsText, Shape
<1>1. /\ Len(B) = 3 /\ B \in Seq(Lines)
      /\ B[1] = Prefix(s) /\ B[2] = Body(s, v) /\ B[3] = Suffix(s)
  BY <1>0, BlockIs
<1>2. \E n \in 0..Len(l) : \E m \in 0..n : \E e \in BOOLEAN :
        g = File(Splice(l, m, B, n), e) /\ (n = Len(l) => e)
  <2>1. CASE Find(f, 1, Prefix(s)) = 0
    <3>0. PICK n \in 0..Len(l) : \E m \in 0..n :
            /\ n = Len(l) /\ g.lines = Splice(l, m, B, n)
            /\ g = File(SubSeq(l, 1, m) \o B, f.ended \/ m # n \/ v # 0)
      BY <1>0, <2>1, AddBlockIs DEF Generated
    <3>1. PICK m \in 0..n :
            /\ n = Len(l) /\ g.lines = Splice(l, m, B, n)
            /\ g = File(SubSeq(l, 1, m) \o B, f.ended \/ m # n \/ v # 0)
      BY <3>0
    <3>2. (f.ended \/ m # n \/ v # 0) = TRUE
      BY <1>0
    <3>3. g = File(SubSeq(l, 1, m) \o B, TRUE)
      BY <3>1, <3>2
    <3>4. g.lines = SubSeq(l, 1, m) \o B
      BY <3>3, FileIs
    <3> QED
      BY <3>1, <3>3, <3>4
  <2>2. CASE Find(f, 1, Prefix(s)) # 0
    <3> DEFINE p == Find(f, 1, Prefix(s))
               q == Find(f, p + 1, Suffix(s))
               n == IF q = 0 THEN Len(l) ELSE q
    <3>1. /\ n \in 0..Len(l) /\ p - 1 \in 0..n
          /\ g = File(Splice(l, p - 1, B, n), n = Len(l) \/ f.ended)
      BY <1>0, <2>2, ReplaceBlockIs
    <3> DEFINE e == n = Len(l) \/ f.ended
    <3>2. e \in BOOLEAN /\ (n = Len(l) => e) /\ g = File(Splice(l, p - 1, B, n), e)
      BY <3>1
    <3> HIDE DEF e, n, p, g
    <3> QED
      BY <3>1, <3>2
  <2> QED
    BY <2>1, <2>2
<1>n. PICK n \in 0..Len(l) : \E m \in 0..n : \E e \in BOOLEAN :
        g = File(Splice(l, m, B, n), e) /\ (n = Len(l) => e)
  BY <1>2
<1>m. PICK m \in 0..n : \E e \in BOOLEAN :
        g = File(Splice(l, m, B, n), e) /\ (n = Len(l) => e)
  BY <1>n
<1>3. PICK e \in BOOLEAN : g = File(Splice(l, m, B, n), e) /\ (n = Len(l) => e)
  BY <1>m
<1> DEFINE x == Splice(l, m, B, n)
           d == m + Len(B) - n
<1>4. m \in Nat /\ n \in Nat /\ m <= n /\ n <= Len(l)
  BY <1>0
<1>5. /\ x \in Seq(Lines) /\ Len(x) = Len(l) + d /\ d \in Int
      /\ \A i \in 1..Len(B) : x[m + i] = B[i]
  BY <1>0, <1>1, SpliceIs
<1>d. d = m + Len(B) - n
  OBVIOUS
<1> HIDE DEF x, B, g, d
<1>6. x[m + 1] = Prefix(s) /\ x[m + 2] = Body(s, v) /\ x[m + 3] = Suffix(s)
  BY <1>1, <1>5
<1>7. m + 3 <= Len(x) /\ (m + 3 = Len(x) => n = Len(l))
  <2>1. d = m + 3 - n /\ Len(x) = Len(l) + d
    BY <1>1, <1>5, <1>d
  <2> HIDE DEF l
  <2> QED
    BY <1>0, <1>4, <2>1, PlaceOfThree
<1>8. x # <<>>
  <2>1. Len(x) # 0
    BY <1>4, <1>5, <1>7
  <2>2. Len(<<>>) = 0
    OBVIOUS
  <2> QED
    BY <2>1, <2>2, Zenon
<1>9. g = [lines |-> x, ended |-> e]
  BY <1>3, <1>8, FileIs DEF x
<1>10. g.lines = x /\ g.ended = e /\ (n = Len(l) => e)
  BY <1>3, <1>9
<1>11. m + 1 \in Nat /\ m + 1 >= 1 /\ (m + 1) + 1 = m + 2 /\ (m + 1) + 2 = m + 3
  BY <1>4
<1> QED
  BY <1>6, <1>7, <1>9, <1>10, <1>11 DEF g

LEMMA GenerateTwice ==
  ASSUME NEW f, IsText(f), NEW s \in SSO, NEW v \in Version, v # 0
  PROVE  LET g == GenerateNewFile(f, s, v) IN GenerateNewFile(g, s, v) = g
<1> DEFINE g == GenerateNewFile(f, s, v)
           x == g.lines
           B == Block(s, v)
<1>0. v \in Version \union {0}
  OBVIOUS
<1>1. IsText(g)
  BY <1>0, GeneratedIsText
<1>2. PICK k \in Nat :
        /\ k >= 1 /\ k + 2 <= Len(x)
        /\ x[k] = Prefix(s) /\ x[k + 1] = Body(s, v) /\ x[k + 2] = Suffix(s)
        /\ k + 2 = Len(x) => g.ended
        /\ g = [lines |-> x, ended |-> g.ended]
  BY BlockEnds
<1>3. /\ Len(B) = 3 /\ B \in Seq(Lines)
      /\ B[1] = Prefix(s) /\ B[2] = Body(s, v) /\ B[3] = Suffix(s)
  BY <1>0, BlockIs
<1> HIDE DEF g, B
<1>4. /\ x \in Seq(Lines) /\ Len(x) \in Nat /\ g.ended \in BOOLEAN
      /\ \A i, j \in 1..Len(x) : x[i] = x[j] => i = j
  BY <1>1 DEF IsText, Shape
<1>5. Find(g, 1, Prefix(s)) # 0
  <2>1. k \in 1..Len(x) /\ IsLine(g, k, Prefix(s))
    BY <1>2, <1>4 DEF IsLine
  <2> QED
    BY <1>4, <2>1, FindIs
<1> DEFINE p == Find(g, 1, Prefix(s))
           q == Find(g, p + 1, Suffix(s))
           n == IF q = 0 THEN Len(x) ELSE q
<1>6. /\ p \in 1..Len(x) /\ x[p] = Prefix(s)
      /\ n \in 0..Len(x) /\ p - 1 \in 0..n
      /\ q # 0 => q = p + 2
      /\ q = 0 => \A j \in p + 1..Len(x) : ~IsLine(g, j, Suffix(s))
      /\ GenerateNewFile(g, s, v) = File(Splice(x, p - 1, B, n), n = Len(x) \/ g.ended)
  BY <1>0, <1>1, <1>5, ReplaceBlockIs DEF B
<1> HIDE DEF p, q
<1>7. p = k
  BY <1>2, <1>4, <1>6
<1>8. q # 0 /\ n = k + 2
  <2>1. k + 2 \in p + 1..Len(x) /\ IsLine(g, k + 2, Suffix(s))
    BY <1>2, <1>4, <1>7 DEF IsLine
  <2>2. q # 0
    BY <1>6, <2>1
  <2> QED
    BY <1>6, <1>7, <2>2
<1> HIDE DEF n
<1>9. Splice(x, k - 1, B, k + 2) = x
  <2>1. /\ k + 2 \in 0..Len(x) /\ k - 1 \in 0..k + 2 /\ Len(B) = (k + 2) - (k - 1)
        /\ (k - 1) + 1 = k /\ (k - 1) + 2 = k + 1 /\ (k - 1) + 3 = k + 2
    BY <1>2, <1>3, <1>4
  <2>2. ASSUME NEW i \in 1..Len(B)
        PROVE  B[i] = x[(k - 1) + i]
    <3>1. i = 1 \/ i = 2 \/ i = 3
      BY <1>3
    <3> QED
      BY <1>2, <1>3, <2>1, <3>1
  <2> HIDE DEF x
  <2>3. PICK b \in 0..Len(x) : b = k + 2
    BY <2>1
  <2>4. PICK a \in 0..b : a = k - 1
    BY <2>1, <2>3
  <2>5. /\ x \in Seq(Lines) /\ B \in Seq(Lines)
        /\ Len(B) = b - a /\ \A i \in 1..Len(B) : B[i] = x[a + i]
    BY <1>3, <1>4, <2>1, <2>2, <2>3, <2>4
  <2>6. Splice(x, a, B, b) = x
    BY <2>5, SpliceSame
  <2> QED
    BY <2>3, <2>4, <2>6
<1>10. (k + 2 = Len(x) \/ g.ended) = g.ended
  BY <1>2, <1>4
<1>11. x # <<>>
  BY <1>2, <1>4
<1>12. GenerateNewFile(g, s, v) = File(x, g.ended)
  BY <1>6, <1>7, <1>8, <1>9, <1>10
<1> QED
  BY <1>2, <1>4, <1>11, <1>12, FileIs DEF g

-----------------------------------------------------------------------------
(* The scanner of removeBlock.                                             *)

Begun == [lines |-> <<>>, inBlock |-> FALSE]

IsScan(h, f, s, n) == h = [i \in 0..n |-> IF i = 0 THEN Begun ELSE Scan(h[i - 1], f.lines[i], s)]

(* There is such a function, so Scanned, which CHOOSEs it, is one.         *)
LEMMA ScanExists ==
  ASSUME NEW f, NEW s
  PROVE  \A n \in Nat : \E h : IsScan(h, f, s, n)
<1> DEFINE S == {n \in Nat : \E h : IsScan(h, f, s, n)}
<1>1. 0 \in S
  <2>1. IsScan([i \in 0..0 |-> Begun], f, s, 0)
    BY DEF IsScan
  <2> QED
    BY <2>1
<1>2. ASSUME NEW n \in S
      PROVE  n + 1 \in S
  <2>1. PICK h : IsScan(h, f, s, n)
    OBVIOUS
  <2> DEFINE g == [i \in 0..(n + 1) |-> IF i = n + 1 THEN Scan(h[n], f.lines[i], s) ELSE h[i]]
  <2>2. ASSUME NEW i \in 0..(n + 1)
        PROVE  g[i] = IF i = 0 THEN Begun ELSE Scan(g[i - 1], f.lines[i], s)
    <3>1. CASE i = 0
      BY <2>1, <3>1 DEF IsScan
    <3>2. CASE i # 0 /\ i # n + 1
      <4>1. i \in 0..n /\ i - 1 \in 0..n
        BY <3>2
      <4>2. h[i] = Scan(h[i - 1], f.lines[i], s)
        BY <2>1, <3>2, <4>1 DEF IsScan
      <4> QED
        BY <3>2, <4>1, <4>2
    <3>3. CASE i = n + 1
      <4>1. i - 1 = n /\ g[n] = h[n]
        BY <3>3
      <4> QED
        BY <3>3, <4>1
    <3> QED
      BY <3>1, <3>2, <3>3
  <2>3. IsScan(g, f, s, n + 1)
    <3>1. g = [i \in 0..(n + 1) |-> g[i]]
      OBVIOUS
    <3> HIDE DEF g
    <3> QED
      BY <2>2, <3>1 DEF IsScan
  <2> QED
    BY <2>3
<1>3. S = Nat
  <2> HIDE DEF S
  <2>1. S \subseteq Nat
    BY DEF S
  <2> QED
    BY <1>1, <1>2, <2>1, Induction
<1> QED
  BY <1>3

(* The scanner, line by line.                                              *)
LEMMA ScanSteps ==
  ASSUME NEW f, Len(f.lines) \in Nat, NEW s
  PROVE  /\ Scanned(f, s)[0] = Begun
         /\ \A i \in 1..Len(f.lines) :
              Scanned(f, s)[i] = Scan(Scanned(f, s)[i - 1], f.lines[i], s)
<1> DEFINE n == Len(f.lines)
<1>1. PICK h : IsScan(h, f, s, n)
  BY ScanExists
<1>2. Scanned(f, s) = CHOOSE g : IsScan(g, f, s, n)
  BY DEF Scanned, IsScan, Begun
<1>3. IsScan(Scanned(f, s), f, s, n)
  BY <1>1, <1>2
<1> HIDE DEF n
<1>4. n \in Nat
  BY DEF n
<1> DEFINE v == Scanned(f, s)
<1>5. v = [i \in 0..n |-> IF i = 0 THEN Begun ELSE Scan(v[i - 1], f.lines[i], s)]
  BY <1>3 DEF IsScan
<1> HIDE DEF v
<1>6. \A i \in 0..n : v[i] = IF i = 0 THEN Begun ELSE Scan(v[i - 1], f.lines[i], s)
  BY <1>5
<1>7. 0 \in 0..n /\ \A i \in 1..n : i \in 0..n /\ i # 0
  BY <1>4
<1> QED
  BY <1>6, <1>7 DEF n, v

(* What it does with a line.                                               *)
Scanner == [lines : Seq(Lines), inBlock : BOOLEAN]

LEMMA ScanIs ==
  ASSUME NEW acc \in Scanner, NEW line \in Lines, NEW s \in SSO
  PROVE  LET next == Scan(acc, line, s) IN
         /\ next \in Scanner
         /\ line = Prefix(s) => next.lines = acc.lines /\ next.inBlock
         /\ line = Suffix(s) => next.lines = acc.lines /\ ~next.inBlock
         /\ line # Prefix(s) /\ line # Suffix(s) =>
              /\ next.inBlock <=> acc.inBlock
              /\ next.lines = IF acc.inBlock THEN acc.lines ELSE Append(acc.lines, line)
<1>1. Prefix(s) # Suffix(s)
  BY LinesDiffer
<1>2. acc.lines \in Seq(Lines) /\ acc.inBlock \in BOOLEAN
  BY DEF Scanner
<1>3. ASSUME NEW t \in BOOLEAN
      PROVE  LET next == [acc EXCEPT !.inBlock = t] IN
             next \in Scanner /\ next.lines = acc.lines /\ (next.inBlock <=> t)
  BY DEF Scanner
<1>4. ASSUME NEW t \in Seq(Lines)
      PROVE  LET next == [acc EXCEPT !.lines = t] IN
             next \in Scanner /\ next.lines = t /\ (next.inBlock <=> acc.inBlock)
  BY DEF Scanner
<1>5. Append(acc.lines, line) \in Seq(Lines)
  BY <1>2
<1>6. CASE line = Prefix(s)
  <2>1. Scan(acc, line, s) = [acc EXCEPT !.inBlock = TRUE]
    BY <1>1, <1>6 DEF Scan
  <2> QED
    BY <1>1, <1>3, <1>6, <2>1
<1>7. CASE line = Suffix(s)
  <2>1. Scan(acc, line, s) = [acc EXCEPT !.inBlock = FALSE]
    BY <1>1, <1>7 DEF Scan
  <2> QED
    BY <1>1, <1>3, <1>7, <2>1
<1>8. CASE line # Prefix(s) /\ line # Suffix(s) /\ acc.inBlock
  <2>1. Scan(acc, line, s) = acc
    BY <1>8 DEF Scan
  <2> QED
    BY <1>8, <2>1
<1>9. CASE line # Prefix(s) /\ line # Suffix(s) /\ ~acc.inBlock
  <2>1. Scan(acc, line, s) = [acc EXCEPT !.lines = Append(acc.lines, line)]
    BY <1>9 DEF Scan
  <2> QED
    BY <1>4, <1>5, <1>9, <2>1
<1> QED
  BY <1>6, <1>7, <1>8, <1>9

LEMMA AppendBehind ==
  ASSUME NEW a \in Seq(Lines), NEW b \in Seq(Lines), NEW x \in Lines
  PROVE  Append(a \o b, x) = a \o Append(b, x)
<1> DEFINE ab == a \o b
           bx == Append(b, x)
           g == Append(ab, x)
           h == a \o bx
<1>1. Len(a) \in Nat /\ Len(b) \in Nat
  OBVIOUS
<1>2. /\ ab \in Seq(Lines) /\ Len(ab) = Len(a) + Len(b)
      /\ \A i \in 1..Len(a) + Len(b) : ab[i] = IF i <= Len(a) THEN a[i] ELSE b[i - Len(a)]
  BY <1>1
<1>a. ASSUME NEW c \in Seq(Lines)
      PROVE  /\ Append(c, x) \in Seq(Lines) /\ Len(Append(c, x)) = Len(c) + 1
             /\ \A i \in 1..Len(c) + 1 : Append(c, x)[i] = IF i = Len(c) + 1 THEN x ELSE c[i]
  OBVIOUS
<1>3. /\ bx \in Seq(Lines) /\ Len(bx) = Len(b) + 1
      /\ \A i \in 1..Len(b) + 1 : bx[i] = IF i = Len(b) + 1 THEN x ELSE b[i]
  BY <1>a
<1> HIDE DEF ab, bx
<1>4. /\ g \in Seq(Lines) /\ Len(g) = Len(ab) + 1
      /\ \A i \in 1..Len(ab) + 1 : g[i] = IF i = Len(ab) + 1 THEN x ELSE ab[i]
  BY <1>2, <1>a
<1>5. /\ h \in Seq(Lines) /\ Len(h) = Len(a) + Len(bx)
      /\ \A i \in 1..Len(a) + Len(bx) : h[i] = IF i <= Len(a) THEN a[i] ELSE bx[i - Len(a)]
  BY <1>1, <1>3
<1> HIDE DEF g, h
<1>6. Len(g) = Len(h)
  BY <1>1, <1>2, <1>3, <1>4, <1>5
<1>7. ASSUME NEW i \in 1..Len(g)
      PROVE  g[i] = h[i]
  <2>1. i \in 1..Len(ab) + 1 /\ i \in 1..Len(a) + Len(bx)
    BY <1>1, <1>2, <1>3, <1>4
  <2>2. CASE i <= Len(a)
    <3>1. i \in 1..Len(a) + Len(b) /\ i # Len(ab) + 1
      BY <1>1, <1>2, <2>1, <2>2
    <3> QED
      BY <1>2, <1>4, <1>5, <2>1, <2>2, <3>1
  <2>3. CASE Len(a) < i /\ i # Len(ab) + 1
    <3>1. /\ i \in 1..Len(a) + Len(b) /\ ~ (i <= Len(a))
          /\ i - Len(a) \in 1..Len(b) + 1 /\ i - Len(a) # Len(b) + 1
      <4>1. Len(ab) = Len(a) + Len(b) /\ i \in Nat /\ i <= Len(ab) /\ Len(a) < i
        <5>1. Len(ab) = Len(a) + Len(b)
          BY <1>2
        <5>2. i \in 1..Len(ab) + 1
          BY <2>1
        <5> QED
          BY <1>1, <2>3, <5>1, <5>2
      <4> QED
        BY <1>1, <4>1
    <3> QED
      BY <1>2, <1>3, <1>4, <1>5, <2>1, <2>3, <3>1
  <2>4. CASE i = Len(ab) + 1
    <3>1. i - Len(a) = Len(b) + 1 /\ i - Len(a) \in 1..Len(b) + 1 /\ ~ (i <= Len(a))
      BY <1>1, <1>2, <2>4
    <3> QED
      BY <1>3, <1>4, <1>5, <2>1, <2>4, <3>1
  <2> QED
    BY <1>1, <2>1, <2>2, <2>3, <2>4
<1>8. g = h
  BY <1>4, <1>5, <1>6, <1>7, SameLines
<1> QED
  BY <1>8 DEF g, h, ab, bx

(* What the scanner has kept after i lines, if it is to leave out those    *)
(* from m + 1 to n.                                                        *)
Kept(l, m, n, i) == SubSeq(l, 1, IF i <= m THEN i ELSE m) \o SubSeq(l, n + 1, i)

LEMMA KeptNext ==
  ASSUME NEW l \in Seq(Lines), NEW n \in 0..Len(l), NEW m \in 0..n, NEW i \in 0..Len(l) - 1
  PROVE  IF i < m \/ n <= i THEN Append(Kept(l, m, n, i), l[i + 1]) = Kept(l, m, n, i + 1)
                            ELSE Kept(l, m, n, i) = Kept(l, m, n, i + 1)
<1>1. Len(l) \in Nat /\ m \in Nat /\ n \in Nat /\ i \in Nat /\ m <= n /\ n <= Len(l) /\ i < Len(l)
  OBVIOUS
<1>2. ASSUME NEW j \in Nat, NEW k \in Nat, k < j
      PROVE  SubSeq(l, j, k) = <<>>
  BY <1>2
<1>3. ASSUME NEW j \in 1..i + 1
      PROVE  SubSeq(l, j, i) \in Seq(Lines) /\ Append(SubSeq(l, j, i), l[i + 1]) = SubSeq(l, j, i + 1)
  <2>1. SubSeq(l, j, i) \in Seq(Lines) /\ Len(SubSeq(l, j, i)) = (i + 1) - j
    BY <1>1
  <2>2. SubSeq(l, j, i + 1) \in Seq(Lines) /\ Len(SubSeq(l, j, i + 1)) = (i + 2) - j
    BY <1>1
  <2>3. l[i + 1] \in Lines
    BY <1>1
  <2> QED
    BY <1>1, <2>1, <2>2, <2>3
<1>4. CASE i < m
  <2>1. SubSeq(l, n + 1, i) = <<>> /\ SubSeq(l, n + 1, i + 1) = <<>>
    BY <1>1, <1>2, <1>4
  <2>2. /\ SubSeq(l, 1, i) \in Seq(Lines) /\ SubSeq(l, 1, i + 1) \in Seq(Lines)
        /\ Append(SubSeq(l, 1, i), l[i + 1]) = SubSeq(l, 1, i + 1)
    BY <1>1, <1>3
  <2>3. /\ Kept(l, m, n, i) = SubSeq(l, 1, i) \o <<>>
        /\ Kept(l, m, n, i + 1) = SubSeq(l, 1, i + 1) \o <<>>
    BY <1>1, <1>4, <2>1 DEF Kept
  <2> QED
    BY <1>4, <2>2, <2>3, WholeAndNothing
<1>5. CASE ~ (i < m) /\ i < n
  <2>1. SubSeq(l, n + 1, i) = <<>> /\ SubSeq(l, n + 1, i + 1) = <<>>
    BY <1>1, <1>2, <1>5
  <2>2. (IF i <= m THEN i ELSE m) = m /\ (IF i + 1 <= m THEN i + 1 ELSE m) = m
    BY <1>1, <1>5
  <2> QED
    BY <1>1, <1>5, <2>1, <2>2 DEF Kept
<1>6. CASE n <= i
  <2>1. (IF i <= m THEN i ELSE m) = m /\ (IF i + 1 <= m THEN i + 1 ELSE m) = m
    BY <1>1, <1>6
  <2>2. /\ SubSeq(l, n + 1, i) \in Seq(Lines)
        /\ Append(SubSeq(l, n + 1, i), l[i + 1]) = SubSeq(l, n + 1, i + 1)
    BY <1>1, <1>3, <1>6
  <2>3. SubSeq(l, 1, m) \in Seq(Lines) /\ l[i + 1] \in Lines
    BY <1>1
  <2> QED
    BY <1>6, <2>1, <2>2, <2>3, AppendBehind DEF Kept
<1> QED
  BY <1>1, <1>4, <1>5, <1>6

(* It leaves out what is between a prefix and a suffix, or the end.        *)
LEMMA ScanLeavesOut ==
  ASSUME NEW f, f.lines \in Seq(Lines), NEW s \in SSO,
         NEW n \in 0..Len(f.lines), NEW m \in 0..n,
         \A i \in 1..m \union n + 1..Len(f.lines) : ~OfBlock(f.lines[i], s),
         m < n => f.lines[m + 1] = Prefix(s) /\ (n < Len(f.lines) => f.lines[n] = Suffix(s)),
         \A i \in m + 1..n - 1 : f.lines[i] # Suffix(s)
  PROVE  Scanned(f, s)[Len(f.lines)].lines = Splice(f.lines, m, <<>>, n)
<1> DEFINE l == f.lines
           In(i) == m < i /\ i <= n /\ ~ (i = n /\ l[n] = Suffix(s))
           Is(acc, i) == /\ acc \in Scanner /\ acc.lines = Kept(l, m, n, i)
                         /\ acc.inBlock <=> In(i)
           S == {i \in Nat : i <= Len(l) => Is(Scanned(f, s)[i], i)}
<1>1. /\ l \in Seq(Lines) /\ Len(l) \in Nat /\ m \in Nat /\ n \in Nat
      /\ m <= n /\ n <= Len(l) /\ \A i \in 0..Len(l) - 1 : i + 1 \in 1..Len(l) /\ (i + 1) - 1 = i
  OBVIOUS
<1>2. 0 \in S
  <2>1. ~ In(0)
    BY <1>1
  <2>2. Kept(l, m, n, 0) = <<>>
    <3>1. SubSeq(l, 1, 0) = <<>> /\ SubSeq(l, n + 1, 0) = <<>>
      BY <1>1
    <3>2. (IF 0 <= m THEN 0 ELSE m) = 0
      BY <1>1
    <3>3. <<>> \o <<>> = <<>>
      OBVIOUS
    <3> QED
      BY <3>1, <3>2, <3>3 DEF Kept
  <2>3. Scanned(f, s)[0] = Begun
    BY <1>1, ScanSteps
  <2>4. Begun \in Scanner /\ Begun.lines = <<>> /\ ~Begun.inBlock
    <3>1. <<>> \in Seq(Lines) /\ FALSE \in BOOLEAN
      OBVIOUS
    <3> QED
      BY <3>1 DEF Begun, Scanner
  <2> QED
    BY <2>1, <2>2, <2>3, <2>4
<1>3. ASSUME NEW i \in S
      PROVE  i + 1 \in S
  <2>1. i \in Nat /\ i + 1 \in Nat
    OBVIOUS
  <2>2. SUFFICES ASSUME i + 1 <= Len(l)
                 PROVE  Is(Scanned(f, s)[i + 1], i + 1)
    BY <2>1
  <2>3. i \in 0..Len(l) - 1 /\ i + 1 \in 1..Len(l) /\ (i + 1) - 1 = i /\ i <= Len(l)
    BY <1>1, <2>1, <2>2
  <2>4. PICK acc : acc = Scanned(f, s)[i]
    OBVIOUS
  <2>5. Is(acc, i)
    BY <1>3, <2>3, <2>4
  <2>6. PICK next : next = Scan(acc, l[i + 1], s)
    OBVIOUS
  <2>7. Scanned(f, s)[i + 1] = next
    BY <1>1, <2>3, <2>4, <2>6, ScanSteps
  <2>8. l[i + 1] \in Lines
    BY <1>1, <2>3
  <2>9. IF i < m \/ n <= i THEN Append(Kept(l, m, n, i), l[i + 1]) = Kept(l, m, n, i + 1)
                           ELSE Kept(l, m, n, i) = Kept(l, m, n, i + 1)
    BY <1>1, <2>3, KeptNext
  <2>10. /\ next \in Scanner
         /\ l[i + 1] = Prefix(s) => next.lines = acc.lines /\ next.inBlock
         /\ l[i + 1] = Suffix(s) => next.lines = acc.lines /\ ~next.inBlock
         /\ l[i + 1] # Prefix(s) /\ l[i + 1] # Suffix(s) =>
              /\ next.inBlock <=> acc.inBlock
              /\ next.lines = IF acc.inBlock THEN acc.lines ELSE Append(acc.lines, l[i + 1])
    BY <2>5, <2>6, <2>8, ScanIs
  <2>11. CASE i < m \/ n <= i
    <3>1. i + 1 \in 1..m \union n + 1..Len(l)
      BY <1>1, <2>1, <2>3, <2>11
    <3>2. l[i + 1] # Prefix(s) /\ l[i + 1] # Suffix(s)
      BY <3>1 DEF OfBlock
    <3>3. ~In(i) /\ ~In(i + 1)
      BY <1>1, <2>1, <2>2, <2>11
    <3> HIDE DEF In, l
    <3> QED
      BY <2>5, <2>7, <2>9, <2>10, <2>11, <3>2, <3>3
  <2>12. CASE ~ (i < m \/ n <= i)
    <3>1. acc.lines = Kept(l, m, n, i + 1)
      BY <2>5, <2>9, <2>12
    <3>2. m < n /\ m <= i /\ i < n /\ l[m + 1] = Prefix(s) /\ Prefix(s) # Suffix(s)
      BY <1>1, <2>1, <2>12, LinesDiffer
    <3>3. CASE l[i + 1] = Prefix(s)
      <4>1. In(i + 1)
        BY <1>1, <2>1, <3>2, <3>3
      <4> HIDE DEF In, l
      <4> QED
        BY <2>7, <2>10, <3>1, <3>3, <4>1
    <3>4. CASE l[i + 1] = Suffix(s)
      <4>1. i + 1 \notin m + 1..n - 1
        BY <3>4
      <4>2. i + 1 = n
        BY <1>1, <2>1, <3>2, <4>1
      <4>3. ~In(i + 1)
        BY <3>4, <4>2
      <4> HIDE DEF In, l
      <4> QED
        BY <2>7, <2>10, <3>1, <3>4, <4>3
    <3>5. CASE l[i + 1] # Prefix(s) /\ l[i + 1] # Suffix(s)
      <4>1. i # m
        BY <3>2, <3>5
      <4>2. In(i) /\ In(i + 1)
        BY <1>1, <2>1, <3>2, <3>5, <4>1
      <4> HIDE DEF In, l
      <4> QED
        BY <2>5, <2>7, <2>10, <3>1, <3>5, <4>2
    <3> QED
      BY <3>3, <3>4, <3>5
  <2> QED
    BY <2>11, <2>12
<1>4. Len(l) \in S
  <2> HIDE DEF S
  <2>1. S \subseteq Nat
    BY DEF S
  <2>2. S = Nat
    BY <1>2, <1>3, <2>1, Induction
  <2> QED
    BY <1>1, <2>2
<1>5. Scanned(f, s)[Len(l)].lines = Kept(l, m, n, Len(l))
  BY <1>1, <1>4
<1>6. Kept(l, m, n, Len(l)) = SubSeq(l, 1, m) \o SubSeq(l, n + 1, Len(l))
  <2>1. (IF Len(l) <= m THEN Len(l) ELSE m) = m
    BY <1>1
  <2> QED
    BY <2>1 DEF Kept
<1>7. SubSeq(l, 1, m) \o <<>> = SubSeq(l, 1, m)
  <2>1. SubSeq(l, 1, m) \in Seq(Lines)
    BY <1>1
  <2> QED
    BY <2>1, WholeAndNothing
<1> QED
  BY <1>5, <1>6, <1>7 DEF Splice

(* The two removals agree on every file as it may be found.                *)
LEMMA RemovalsSame ==
  ASSUME NEW f, IsText(f), NEW s \in SSO
  PROVE  /\ removeBlock(f, s).lines = GenerateNewFile(f, s, 0).lines
         /\ IsText(removeBlock(f, s))
<1> DEFINE l == f.lines
           g == GenerateNewFile(f, s, 0)
<1>1. /\ Shape(l) /\ l \in Seq(Lines) /\ Len(l) \in Nat /\ f.ended \in BOOLEAN
      /\ 0 \in Version \union {0} /\ Block(s, 0) = <<>>
      /\ \A i, j \in 1..Len(l) : l[i] = l[j] => i = j
  BY DEF IsText, Shape, Block
<1>2. Scanned(f, s)[Len(l)].lines = g.lines
  <2>1. CASE Find(f, 1, Prefix(s)) = 0
    <3>1. PICK n \in 0..Len(l) : \E m \in 0..n :
            Generated(f, s, 0, m, n) /\ n = Len(l) /\ (m # n => l[n] = Prefix(s) /\ m = n - 1)
      BY <1>1, <2>1, AddBlockIs
    <3>2. PICK m \in 0..n :
            Generated(f, s, 0, m, n) /\ n = Len(l) /\ (m # n => l[n] = Prefix(s) /\ m = n - 1)
      BY <3>1
    <3>3. /\ g.lines = Splice(l, m, <<>>, n)
          /\ \A i \in 1..m \union n + 1..Len(l) : ~OfBlock(l[i], s)
      BY <1>1, <3>2 DEF Generated
    <3>4. m < n => l[m + 1] = Prefix(s) /\ (n < Len(l) => l[n] = Suffix(s))
      BY <1>1, <3>2
    <3>5. \A i \in m + 1..n - 1 : l[i] # Suffix(s)
      BY <1>1, <3>2
    <3> QED
      BY <1>1, <3>3, <3>4, <3>5, ScanLeavesOut
  <2>2. CASE Find(f, 1, Prefix(s)) # 0
    <3> DEFINE p == Find(f, 1, Prefix(s))
               q == Find(f, p + 1, Suffix(s))
               n == IF q = 0 THEN Len(l) ELSE q
               m == p - 1
    <3>1. /\ Generated(f, s, 0, m, n)
          /\ p \in 1..Len(l) /\ l[p] = Prefix(s)
          /\ n \in 0..Len(l) /\ m \in 0..n /\ n >= p
          /\ q # 0 => q = p + 2 /\ l[q] = Suffix(s)
          /\ q = 0 => \A j \in p + 1..Len(l) : ~IsLine(f, j, Suffix(s))
      BY <1>1, <2>2, ReplaceBlockIs
    <3>2. /\ g.lines = Splice(l, m, <<>>, n)
          /\ \A i \in 1..m \union n + 1..Len(l) : ~OfBlock(l[i], s)
      BY <1>1, <3>1 DEF Generated
    <3>3. q = 0 \/ n = q
      OBVIOUS
    <3>4. q = 0 => n = Len(l)
      OBVIOUS
    <3>5. m + 1 = p
      BY <3>1
    <3> HIDE DEF p, q, n, m
    <3>6. m < n => l[m + 1] = Prefix(s) /\ (n < Len(l) => l[n] = Suffix(s))
      BY <1>1, <3>1, <3>3, <3>4, <3>5
    <3>7. ASSUME NEW i \in m + 1..n - 1, l[i] = Suffix(s)
          PROVE  FALSE
      <4>1. i \in p..n - 1 /\ i \in 1..Len(l) /\ n \in Nat /\ i < n
        BY <1>1, <3>1, <3>5
      <4>2. i # p
        BY <3>1, <3>7, LinesDiffer
      <4>3. CASE q = 0
        <5>1. i \in p + 1..Len(l) /\ i < Len(l)
          BY <1>1, <3>1, <3>4, <4>1, <4>2, <4>3
        <5> QED
          BY <3>1, <3>7, <4>3, <5>1 DEF IsLine
      <4>4. CASE q # 0
        <5>1. n \in 1..Len(l) /\ l[n] = Suffix(s)
          BY <1>1, <3>1, <3>3, <4>1, <4>4
        <5> QED
          BY <1>1, <3>7, <4>1, <5>1
      <4> QED
        BY <4>3, <4>4
    <3>8. n \in 0..Len(l) /\ m \in 0..n
      BY <3>1
    <3> QED
      BY <1>1, <3>2, <3>6, <3>7, <3>8, ScanLeavesOut
  <2> QED
    BY <2>1, <2>2
<1> DEFINE ended == f.ended /\ ~Scanned(f, s)[Len(l)].inBlock
<1>3. removeBlock(f, s) = File(g.lines, ended) /\ ended \in BOOLEAN
  BY <1>2 DEF removeBlock
<1>4. Shape(g.lines)
  BY <1>1, GeneratedIsText DEF IsText
<1> HIDE DEF g, ended
<1> QED
  BY <1>3, <1>4, FileIs DEF IsText, g

-----------------------------------------------------------------------------
(* What the user does to the file.                                         *)

(* A line put in where no block is cut in two.                             *)
LEMMA UserPuts ==
  ASSUME NEW l, Shape(l), NEW i \in 1..Len(l) + 1, NEW u \in UserLine,
         i <= Len(l) => Starts(l[i]), \A j \in 1..Len(l) : l[j] # User(u)
  PROVE  LET g == InsertAt(l, i, User(u)) IN
         Shape(g) /\ \A t \in SSO : \A w : Holds(l, t, w) => Holds(g, t, w)
<1> DEFINE B == <<User(u)>>
<1>1. l \in Seq(Lines) /\ Len(l) \in Nat /\ i \in Nat
  BY DEF Shape
<1>2. B \in Seq(Lines) /\ Len(B) = 1 /\ B[1] = User(u)
  <2>1. User(u) \in Lines
    BY DEF Lines
  <2> QED
    BY <2>1
<1> HIDE DEF B
<1>3. PICK m \in 0..Len(l) : m = i - 1
  BY <1>1
<1>4. m \in Nat /\ m \in 0..m /\ m + 1 = i /\ (m < Len(l) => i <= Len(l))
  BY <1>1, <1>3
<1>5. InsertAt(l, i, User(u)) = Splice(l, m, B, m)
  BY <1>3, <1>4 DEF InsertAt, Splice, B
<1>6. \A j \in 1..Len(B) : B[j] = User(u)
  BY <1>2
<1>7. MaySplice(l, m, B, m)
  <2>1. \A j \in 1..Len(B), k \in 1..m \union m + 1..Len(l) : B[j] # l[k]
    BY <1>1, <1>4, <1>6
  <2> QED
    BY <1>1, <1>2, <1>3, <1>4, <2>1 DEF MaySplice
<1>8. Shape(B)
  <2>1. \A j, k \in 1..Len(B) : B[j] = B[k] => j = k
    BY <1>2
  <2>2. \A j \in 1..Len(B), s \in SSO :
          B[j] # Suffix(s) /\ \A v \in Version : B[j] # Body(s, v)
    BY <1>6, LinesDiffer
  <2> QED
    BY <1>2, <2>1, <2>2 DEF Shape
<1>9. Shape(Splice(l, m, B, m))
  BY <1>7, <1>8, SpliceShape
<1>10. ASSUME NEW t \in SSO, NEW w, Holds(l, t, w)
       PROVE  Holds(Splice(l, m, B, m), t, w)
  <2>1. \A j \in m + 1..m : ~OfBlock(l[j], t)
    BY <1>4
  <2>2. \A j \in 1..Len(B) : ~OfBlock(B[j], t)
    BY <1>6, BlocksApart
  <2> QED
    BY <1>7, <1>10, <2>1, <2>2, SpliceHolds
<1> QED
  BY <1>5, <1>9, <1>10

(* A line of the user's taken out.                                         *)
LEMMA UserTakes ==
  ASSUME NEW l, Shape(l), NEW i \in 1..Len(l), NEW u \in UserLine, l[i] = User(u)
  PROVE  LET g == RemoveAt(l, i) IN
         Shape(g) /\ \A t \in SSO : \A w : Holds(l, t, w) => Holds(g, t, w)
<1> DEFINE B == <<>>
<1>1. l \in Seq(Lines) /\ Len(l) \in Nat /\ i \in Nat
  BY DEF Shape
<1>2. /\ B \in Seq(Lines) /\ 1..Len(B) = {} /\ Shape(B)
      /\ \A a \in Seq(Lines) : a \o B = a
  <2>1. B \in Seq(Lines) /\ 1..Len(B) = {}
    OBVIOUS
  <2>2. Shape(B)
    BY <2>1 DEF Shape
  <2> QED
    BY <2>1, <2>2, WholeAndNothing
<1> HIDE DEF B
<1>3. PICK m \in 0..i : m = i - 1
  BY <1>1
<1>4. m \in Nat /\ m + 1 = i /\ i \in 0..Len(l)
  BY <1>1, <1>3
<1>5. RemoveAt(l, i) = Splice(l, m, B, i)
  <2>1. SubSeq(l, 1, m) \in Seq(Lines)
    BY <1>1, <1>4
  <2>2. SubSeq(l, 1, m) \o B = SubSeq(l, 1, m)
    BY <1>2, <2>1
  <2> QED
    BY <1>3, <2>2 DEF RemoveAt, Splice
<1>6. i < Len(l) => Starts(l[i + 1])
  <2>1. SUFFICES ASSUME i < Len(l), ~Starts(l[i + 1])
                 PROVE  FALSE
    OBVIOUS
  <2>2. i + 1 \in 1..Len(l) /\ (i + 1) - 1 = i /\ l[i + 1] \in Lines
    BY <1>1, <2>1
  <2>3. CASE \E t \in SSO : l[i + 1] = Suffix(t)
    BY <2>2, <2>3, ShapeSuffix, LinesDiffer
  <2>4. CASE \E t \in SSO : \E w \in Version : l[i + 1] = Body(t, w)
    BY <2>2, <2>4, ShapeBody, LinesDiffer
  <2> QED
    BY <2>1, <2>2, <2>3, <2>4, LineKinds
<1>7. MaySplice(l, m, B, i)
  BY <1>1, <1>2, <1>3, <1>4, <1>6 DEF MaySplice
<1>8. Shape(Splice(l, m, B, i))
  BY <1>2, <1>7, SpliceShape
<1>9. ASSUME NEW t \in SSO, NEW w, Holds(l, t, w)
      PROVE  Holds(Splice(l, m, B, i), t, w)
  <2>1. \A j \in m + 1..i : l[j] = User(u)
    BY <1>1, <1>4
  <2>2. \A j \in m + 1..i : ~OfBlock(l[j], t)
    BY <2>1, BlocksApart
  <2> QED
    BY <1>2, <1>7, <1>9, <2>2, SpliceHolds
<1> QED
  BY <1>5, <1>8, <1>9

-----------------------------------------------------------------------------
(* The inductive invariant.                                                *)

(* Every block is in the lines as a whole, in the version given.           *)
Whole(l, w) == \A s \in SSO : Holds(l, s, w[s])

FileTypes ==
  /\ kind \in Kinds
  /\ pc \in [Execution -> {"off", "reading", "generating", "asking", "writing", "truncated"}]
  /\ job \in [Execution -> Job]
  /\ DOMAIN old = Execution /\ DOMAIN new = Execution
  /\ user \subseteq UserLine \X UserLine
  /\ written \in [SSO -> Version \union {0}]
  /\ lost \in BOOLEAN /\ overlapped \in BOOLEAN

(* Whatever was lost, what is in the file is a file of the user's with     *)
(* blocks that begin at their prefix.                                      *)
Texts == IsText(configFile) /\ \A e \in Execution : IsText(old[e]) /\ IsText(new[e])

(* No two executions have been at the file.                                *)
OneAtATime ==
  ~overlapped => \A d, e \in Execution : pc[d] # "off" /\ pc[e] # "off" => d = e

(* Between a truncation and the write the contents are the execution's.    *)
FileStands ==
  ~lost /\ ~overlapped /\ (\A e \in Execution : pc[e] # "truncated") =>
    Whole(configFile.lines, written) /\ UserOrder(configFile.lines) = user

NewStands ==
  ~lost /\ ~overlapped =>
    \A e \in Execution :
      pc[e] \in {"asking", "writing", "truncated"} =>
        /\ Whole(new[e].lines, [written EXCEPT ![job[e].sso] = job[e].version])
        /\ UserOrder(new[e].lines) = user

FileIInv == FileTypes /\ Texts /\ OneAtATime /\ FileStands /\ NewStands

LEMMA EmptyIsText == IsText(Empty)
<1>1. <<>> \in Seq(Lines) /\ 1..Len(<<>>) = {}
  OBVIOUS
<1> QED
  BY <1>1 DEF IsText, Empty, Shape

(* A file that is cut off anywhere.                                        *)
LEMMA CutIsText ==
  ASSUME NEW f, IsText(f), NEW n \in 0..Len(f.lines), NEW ended \in BOOLEAN
  PROVE  IsText(File(SubSeq(f.lines, 1, n), ended))
BY CutShape, FileIs DEF IsText

LEMMA AnySSOIsOne == AnySSO \in SSO /\ Managed \subseteq SSO
BY ConfigFileAssumption DEF AnySSO, Managed

(* The file begins with a line of the user's.                              *)
LEMMA FileInitInv == FileInit => FileIInv
<1> SUFFICES ASSUME FileInit
             PROVE  FileIInv
  OBVIOUS
<1>1. PICK u \in UserLine, ended \in BOOLEAN :
        configFile = [lines |-> <<User(u)>>, ended |-> ended] /\ user = {<<u, u>>}
  BY DEF FileInit
<1> DEFINE l == <<User(u)>>
<1>2. User(u) \in Lines
  BY DEF Lines
<1>3. l \in Seq(Lines) /\ Len(l) = 1 /\ 1..Len(l) = {1} /\ l[1] = User(u) /\ l # <<>>
  BY <1>2
<1> HIDE DEF l
<1>4. Shape(l)
  <2>1. \A i \in 1..Len(l), s \in SSO : l[i] # Suffix(s) /\ \A v \in Version : l[i] # Body(s, v)
    BY <1>3, LinesDiffer
  <2> QED
    BY <1>3, <2>1 DEF Shape
<1>5. IsText(configFile)
  BY <1>1, <1>3, <1>4 DEF IsText, l
<1>6. FileTypes
  <2>1. NoJob \in Job
    BY AnySSOIsOne DEF NoJob, Job
  <2>2. job \in [Execution -> Job]
    BY <2>1 DEF FileInit
  <2>3. kind \in Kinds /\ lost \in BOOLEAN /\ overlapped \in BOOLEAN
    BY DEF FileInit
  <2>4. pc \in [Execution -> {"off", "reading", "generating", "asking", "writing", "truncated"}]
    BY DEF FileInit
  <2>5. written \in [SSO -> Version \union {0}]
    BY DEF FileInit
  <2>6. user \subseteq UserLine \X UserLine
    BY <1>1
  <2>7. DOMAIN old = Execution /\ DOMAIN new = Execution
    BY DEF FileInit
  <2> QED
    BY <2>2, <2>3, <2>4, <2>5, <2>6, <2>7 DEF FileTypes
<1>7. Whole(configFile.lines, written)
  <2>1. \A s \in SSO : \A i \in 1..Len(l) : ~OfBlock(l[i], s)
    BY <1>3, BlocksApart
  <2>2. \A s \in SSO : written[s] = 0
    BY DEF FileInit
  <2> QED
    BY <1>1, <2>1, <2>2 DEF Whole, Holds, l
<1>8. UserOrder(configFile.lines) = user
  <2>1. \A uw \in UserLine \X UserLine :
          (\E i, j \in 1..Len(l) : i <= j /\ l[i] = User(uw[1]) /\ l[j] = User(uw[2])) <=>
            uw = <<u, u>>
    BY <1>3, LinesDiffer
  <2>2. UserOrder(l) = {<<u, u>>}
    BY <2>1 DEF UserOrder
  <2> QED
    BY <1>1, <2>2 DEF l
<1>9. \A e \in Execution : pc[e] = "off" /\ old[e] = Empty /\ new[e] = Empty
  BY DEF FileInit
<1> QED
  BY <1>5, <1>6, <1>7, <1>8, <1>9, EmptyIsText
  DEF FileIInv, Texts, OneAtATime, FileStands, NewStands

-----------------------------------------------------------------------------
(* Each step keeps it.                                                     *)

(* What an execution leaves when it ends.                                  *)
LEMMA EndIs ==
  ASSUME FileTypes, Texts, NEW e \in Execution, End(e)
  PROVE  /\ pc' = [pc EXCEPT ![e] = "off"]
         /\ pc' \in [Execution -> {"off", "reading", "generating", "asking", "writing", "truncated"}]
         /\ pc'[e] = "off" /\ \A d \in Execution : d # e => pc'[d] = pc[d] /\ new'[d] = new[d]
         /\ job' \in [Execution -> Job]
         /\ DOMAIN old' = Execution /\ DOMAIN new' = Execution
         /\ \A d \in Execution : d # e => job'[d] = job[d]
         /\ \A d \in Execution : IsText(old[d])' /\ IsText(new[d])'
BY AnySSOIsOne, EmptyIsText DEF FileTypes, Texts, End, Goto, NoJob, Job

(* A step of an execution that leaves the file, and of the executions none *)
(* but this one, as they were; what it has to write stands.                *)
LEMMA OwnStep ==
  ASSUME FileIInv, NEW e \in Execution, pc[e] # "off", FileTypes', Texts',
         UNCHANGED <<configFile, user, written, lost, overlapped>>,
         pc'[e] # "truncated",
         \A d \in Execution : d # e => pc'[d] = pc[d] /\ new'[d] = new[d] /\ job'[d] = job[d],
         pc[e] # "truncated",
         ~lost /\ ~overlapped /\ pc'[e] \in {"asking", "writing"} =>
           /\ Whole(new'[e].lines, [written EXCEPT ![job'[e].sso] = job'[e].version])
           /\ UserOrder(new'[e].lines) = user
  PROVE  FileIInv'
<1>1. OneAtATime'
  BY DEF FileIInv, OneAtATime
<1>2. FileStands'
  <2>1. SUFFICES ASSUME ~lost, ~overlapped, \A d \in Execution : pc'[d] # "truncated"
                 PROVE  Whole(configFile.lines, written) /\ UserOrder(configFile.lines) = user
    BY DEF FileStands
  <2>2. \A d \in Execution : pc[d] # "truncated"
    BY <2>1
  <2> QED
    BY <2>1, <2>2 DEF FileIInv, FileStands
<1>3. NewStands'
  <2>1. SUFFICES ASSUME ~lost, ~overlapped, NEW d \in Execution,
                        pc'[d] \in {"asking", "writing", "truncated"}
                 PROVE  /\ Whole(new'[d].lines, [written EXCEPT ![job'[d].sso] = job'[d].version])
                        /\ UserOrder(new'[d].lines) = user
    BY DEF NewStands
  <2>2. d = e
    BY <2>1 DEF FileIInv, OneAtATime
  <2> QED
    BY <2>1, <2>2
<1> QED
  BY <1>1, <1>2, <1>3 DEF FileIInv

LEMMA StartInv ==
  ASSUME FileIInv, NEW e \in Execution, NEW s \in SSO, NEW v \in Version \union {0},
         NEW force \in BOOLEAN, Start(e, s, v, force)
  PROVE  FileIInv'
<1>1. /\ pc[e] = "off" /\ pc' = [pc EXCEPT ![e] = "reading"]
      /\ job' = [job EXCEPT ![e] = [sso |-> s, version |-> v, force |-> force]]
      /\ UNCHANGED <<kind, configFile, old, new, user, written, lost>>
      /\ overlapped' = (overlapped \/ \E d \in Execution \ {e} : pc[d] # "off")
  BY DEF Start, Goto, NotesOverlap
<1>2. FileTypes'
  <2>1. [sso |-> s, version |-> v, force |-> force] \in Job
    BY DEF Job
  <2>2. job' \in [Execution -> Job]
    BY <1>1, <2>1 DEF FileIInv, FileTypes
  <2>3. pc' \in [Execution -> {"off", "reading", "generating", "asking", "writing", "truncated"}]
    BY <1>1 DEF FileIInv, FileTypes
  <2>4. overlapped' \in BOOLEAN
    BY <1>1 DEF FileIInv, FileTypes
  <2> QED
    BY <1>1, <2>2, <2>3, <2>4 DEF FileIInv, FileTypes
<1>3. Texts'
  BY <1>1 DEF FileIInv, Texts
<1>4. \A d \in Execution : IF d = e THEN pc'[d] = "reading" ELSE pc'[d] = pc[d]
  BY <1>1 DEF FileIInv, FileTypes
<1>5. ~overlapped' => ~overlapped /\ \A d \in Execution : d # e => pc[d] = "off"
  BY <1>1
<1>6. OneAtATime'
  BY <1>4, <1>5 DEF OneAtATime
<1>7. FileStands'
  <2>1. SUFFICES ASSUME ~lost', ~overlapped'
                 PROVE  Whole(configFile'.lines, written') /\ UserOrder(configFile'.lines) = user'
    BY DEF FileStands
  <2>2. \A d \in Execution : pc[d] # "truncated"
    BY <1>1, <1>5, <2>1
  <2> QED
    BY <1>1, <1>5, <2>1, <2>2 DEF FileIInv, FileStands
<1>8. NewStands'
  <2>1. ~overlapped' => \A d \in Execution : pc'[d] \notin {"asking", "writing", "truncated"}
    BY <1>4, <1>5
  <2> QED
    BY <2>1 DEF NewStands
<1> QED
  BY <1>2, <1>3, <1>6, <1>7, <1>8 DEF FileIInv

LEMMA ReadFileInv ==
  ASSUME FileIInv, NEW e \in Execution, ReadFile(e)
  PROVE  FileIInv'
<1>1. /\ pc[e] = "reading" /\ pc' = [pc EXCEPT ![e] = "generating"]
      /\ old' = [old EXCEPT ![e] = configFile]
      /\ UNCHANGED <<kind, configFile, job, new, user, written, lost, overlapped>>
  BY DEF ReadFile, Goto, history
<1>2. /\ pc' \in [Execution -> {"off", "reading", "generating", "asking", "writing", "truncated"}]
      /\ pc'[e] = "generating" /\ \A d \in Execution : d # e => pc'[d] = pc[d]
  BY <1>1 DEF FileIInv, FileTypes
<1>3. FileTypes'
  BY <1>1, <1>2 DEF FileIInv, FileTypes
<1>4. Texts'
  <2>1. \A d \in Execution : old'[d] = old[d] \/ old'[d] = configFile
    BY <1>1
  <2> QED
    BY <1>1, <2>1 DEF FileIInv, Texts
<1> QED
  BY <1>1, <1>2, <1>3, <1>4, OwnStep

LEMMA GenerateInv ==
  ASSUME FileIInv, NEW e \in Execution, Generate(e)
  PROVE  FileIInv'
<1> DEFINE s == job[e].sso
           v == job[e].version
           f == GenerateNewFile(configFile, s, v)
<1>1. /\ pc[e] = "generating"
      /\ UNCHANGED <<kind, configFile, user, written, lost, overlapped>>
  BY DEF Generate, history
<1>2. /\ s \in SSO /\ v \in Version \union {0} /\ IsText(configFile)
      /\ written \in [SSO -> Version \union {0}]
  BY DEF FileIInv, FileTypes, Texts, Job
<1>3. CASE f \in {Empty, old[e]} /\ End(e)
  <2>1. FileTypes' /\ Texts'
    BY <1>1, <1>3, EndIs DEF FileIInv, FileTypes, Texts
  <2>2. pc'[e] = "off" /\ \A d \in Execution : d # e => /\ pc'[d] = pc[d] /\ new'[d] = new[d]
                                                        /\ job'[d] = job[d]
    BY <1>3, EndIs DEF FileIInv
  <2> QED
    BY <1>1, <2>1, <2>2, OwnStep
<1>4. CASE /\ new' = [new EXCEPT ![e] = f]
           /\ Goto(e, IF job[e].force THEN "writing" ELSE "asking")
           /\ UNCHANGED <<job, old>>
  <2> HIDE DEF f
  <2>1. /\ pc' \in [Execution -> {"off", "reading", "generating", "asking", "writing", "truncated"}]
        /\ pc'[e] \in {"asking", "writing"} /\ \A d \in Execution : d # e => pc'[d] = pc[d]
    BY <1>4 DEF FileIInv, FileTypes, Goto
  <2>2. FileTypes'
    BY <1>1, <1>4, <2>1 DEF FileIInv, FileTypes
  <2>3. IsText(f)
    BY <1>2, GeneratedIsText DEF f
  <2>4. Texts'
    <3>1. \A d \in Execution : new'[d] = new[d] \/ new'[d] = f
      BY <1>4
    <3> QED
      BY <1>1, <1>4, <2>3, <3>1 DEF FileIInv, Texts
  <2>5. ASSUME ~lost, ~overlapped
        PROVE  Whole(f.lines, [written EXCEPT ![s] = v]) /\ UserOrder(f.lines) = user
    <3>1. \A d \in Execution : pc[d] # "truncated"
      BY <1>1, <2>5 DEF FileIInv, OneAtATime
    <3>2. Whole(configFile.lines, written) /\ UserOrder(configFile.lines) = user
      BY <2>5, <3>1 DEF FileIInv, FileStands
    <3> QED
      BY <1>2, <3>2, GeneratedKeeps DEF Whole, f
  <2>6. \A d \in Execution : d # e => new'[d] = new[d] /\ job'[d] = job[d]
    BY <1>4
  <2>7. ~lost /\ ~overlapped =>
          /\ Whole(new'[e].lines, [written EXCEPT ![job'[e].sso] = job'[e].version])
          /\ UserOrder(new'[e].lines) = user
    <3>1. new'[e] = f /\ job' = job
      BY <1>4 DEF FileIInv, FileTypes
    <3> QED
      BY <2>5, <3>1
  <2> QED
    BY <1>1, <2>1, <2>2, <2>4, <2>6, <2>7, OwnStep
<1> QED
  BY <1>3, <1>4 DEF Generate

LEMMA AskInv ==
  ASSUME FileIInv, NEW e \in Execution, Ask(e)
  PROVE  FileIInv'
<1>1. /\ pc[e] = "asking"
      /\ UNCHANGED <<kind, configFile, user, written, lost, overlapped>>
  BY DEF Ask, history
<1>2. CASE Goto(e, "writing") /\ UNCHANGED <<job, old, new>>
  <2>1. /\ pc' \in [Execution -> {"off", "reading", "generating", "asking", "writing", "truncated"}]
        /\ pc'[e] = "writing" /\ \A d \in Execution : d # e => pc'[d] = pc[d]
    BY <1>2 DEF FileIInv, FileTypes, Goto
  <2>2. FileTypes' /\ Texts'
    BY <1>1, <1>2, <2>1 DEF FileIInv, FileTypes, Texts
  <2>3. ~lost /\ ~overlapped =>
          /\ Whole(new'[e].lines, [written EXCEPT ![job'[e].sso] = job'[e].version])
          /\ UserOrder(new'[e].lines) = user
    BY <1>1, <1>2 DEF FileIInv, NewStands
  <2> QED
    BY <1>1, <1>2, <2>1, <2>2, <2>3, OwnStep
<1>3. CASE End(e)
  <2>1. FileTypes' /\ Texts'
    BY <1>1, <1>3, EndIs DEF FileIInv, FileTypes, Texts
  <2>2. pc'[e] = "off" /\ \A d \in Execution : d # e => /\ pc'[d] = pc[d] /\ new'[d] = new[d]
                                                        /\ job'[d] = job[d]
    BY <1>3, EndIs DEF FileIInv
  <2> QED
    BY <1>1, <2>1, <2>2, OwnStep
<1> QED
  BY <1>2, <1>3 DEF Ask

LEMMA TruncateInv ==
  ASSUME FileIInv, NEW e \in Execution, Truncate(e)
  PROVE  FileIInv'
<1>1. /\ pc[e] = "writing" /\ pc' = [pc EXCEPT ![e] = "truncated"] /\ configFile' = Empty
      /\ UNCHANGED <<kind, job, old, new, user, written, lost, overlapped>>
  BY DEF Truncate, Goto, history
<1>2. /\ pc' \in [Execution -> {"off", "reading", "generating", "asking", "writing", "truncated"}]
      /\ pc'[e] = "truncated" /\ \A d \in Execution : d # e => pc'[d] = pc[d]
  BY <1>1 DEF FileIInv, FileTypes
<1>3. FileTypes'
  BY <1>1, <1>2 DEF FileIInv, FileTypes
<1>4. Texts'
  BY <1>1, EmptyIsText DEF FileIInv, Texts
<1>5. OneAtATime'
  BY <1>1, <1>2 DEF FileIInv, OneAtATime
<1>6. FileStands'
  BY <1>2 DEF FileStands
<1>7. NewStands'
  BY <1>1, <1>2 DEF FileIInv, NewStands
<1> QED
  BY <1>3, <1>4, <1>5, <1>6, <1>7 DEF FileIInv

(* An execution that was the only one at the file is done.                 *)
LEMMA DoneInv ==
  ASSUME FileIInv, NEW e \in Execution, pc[e] # "off", End(e),
         FileTypes', Texts', overlapped' = overlapped,
         ~lost' /\ ~overlapped =>
           Whole(configFile'.lines, written') /\ UserOrder(configFile'.lines) = user'
  PROVE  FileIInv'
<1>1. pc'[e] = "off" /\ \A d \in Execution : d # e => pc'[d] = pc[d]
  BY EndIs DEF FileIInv
<1>2. OneAtATime'
  BY <1>1 DEF FileIInv, OneAtATime
<1>3. FileStands'
  BY DEF FileStands
<1>4. ~overlapped => \A d \in Execution : pc'[d] = "off"
  BY <1>1 DEF FileIInv, OneAtATime
<1>5. NewStands'
  BY <1>4 DEF NewStands
<1> QED
  BY <1>2, <1>3, <1>5 DEF FileIInv

LEMMA WriteFileInv ==
  ASSUME FileIInv, NEW e \in Execution, WriteFile(e)
  PROVE  FileIInv'
<1>1. /\ pc[e] = "truncated" /\ End(e) /\ configFile' = new[e]
      /\ written' = [written EXCEPT ![job[e].sso] = job[e].version]
      /\ UNCHANGED <<kind, user, lost, overlapped>>
  BY DEF WriteFile
<1>2. FileTypes'
  <2>1. job[e].sso \in SSO /\ job[e].version \in Version \union {0}
    BY DEF FileIInv, FileTypes, Job
  <2>2. written' \in [SSO -> Version \union {0}]
    BY <1>1, <2>1 DEF FileIInv, FileTypes
  <2> QED
    BY <1>1, <2>2, EndIs DEF FileIInv, FileTypes
<1>3. Texts'
  BY <1>1, EndIs DEF FileIInv, Texts
<1>4. ~lost' /\ ~overlapped =>
        Whole(configFile'.lines, written') /\ UserOrder(configFile'.lines) = user'
  BY <1>1 DEF FileIInv, NewStands
<1> QED
  BY <1>1, <1>2, <1>3, <1>4, DoneInv

LEMMA WriteFailsInv ==
  ASSUME FileIInv, NEW e \in Execution, WriteFails(e)
  PROVE  FileIInv'
<1>1. /\ pc[e] = "truncated" /\ End(e) /\ lost'
      /\ lost' = TRUE
      /\ UNCHANGED <<kind, user, written, overlapped>>
  BY DEF WriteFails
<1>2. PICK n \in 0..Len(new[e].lines), ended \in BOOLEAN :
        configFile' = File(SubSeq(new[e].lines, 1, n), ended)
  BY DEF WriteFails
<1>3. FileTypes'
  BY <1>1, EndIs DEF FileIInv, FileTypes
<1>4. Texts'
  <2>1. IsText(configFile')
    BY <1>2, CutIsText DEF FileIInv, Texts
  <2> QED
    BY <1>1, <2>1, EndIs DEF FileIInv, Texts
<1> QED
  BY <1>1, <1>3, <1>4, DoneInv

LEMMA RemoveFishFileInv ==
  ASSUME FileIInv, NEW e \in Execution, RemoveFishFile(e)
  PROVE  FileIInv'
<1> DEFINE trimmed == removeBlock(configFile, AnySSO)
<1>1. /\ pc[e] = "off" /\ UNCHANGED <<kind, pc, job, old, new, user>>
      /\ overlapped' = (overlapped \/ \E d \in Execution \ {e} : pc[d] # "off")
  BY DEF RemoveFishFile, NotesOverlap
<1>2. ~overlapped' => ~overlapped /\ \A d \in Execution : pc[d] = "off"
  BY <1>1
<1>3. /\ IsText(trimmed) /\ trimmed.lines = GenerateNewFile(configFile, AnySSO, 0).lines
      /\ AnySSO \in SSO /\ 0 \in Version \union {0} /\ IsText(configFile)
      /\ written \in [SSO -> Version \union {0}]
  BY AnySSOIsOne, RemovalsSame DEF FileIInv, FileTypes, Texts
<1> HIDE DEF trimmed
<1>4. /\ IsText(configFile') /\ written' \in [SSO -> Version \union {0}] /\ lost' \in BOOLEAN
      /\ ~lost' /\ ~overlapped' =>
           Whole(configFile'.lines, written') /\ UserOrder(configFile'.lines) = user
  <2>1. CASE /\ configFile' = trimmed /\ written' = [written EXCEPT ![AnySSO] = 0]
             /\ UNCHANGED lost
    <3>1. ASSUME ~lost', ~overlapped'
          PROVE  Whole(configFile'.lines, written') /\ UserOrder(configFile'.lines) = user
      <4>1. Whole(configFile.lines, written) /\ UserOrder(configFile.lines) = user
        BY <1>2, <2>1, <3>1 DEF FileIInv, FileStands
      <4>2. /\ Whole(trimmed.lines, [written EXCEPT ![AnySSO] = 0])
            /\ UserOrder(trimmed.lines) = UserOrder(configFile.lines)
        BY <1>3, <4>1, GeneratedKeeps DEF Whole
      <4> QED
        BY <2>1, <4>1, <4>2
    <3>2. written' \in [SSO -> Version \union {0}]
      BY <1>3, <2>1
    <3> QED
      BY <1>3, <2>1, <3>1, <3>2 DEF FileIInv, FileTypes
  <2>2. CASE /\ \E n \in 0..Len(trimmed.lines), ended \in BOOLEAN :
                  configFile' = File(SubSeq(trimmed.lines, 1, n), ended)
             /\ lost' = TRUE
             /\ UNCHANGED written
    <3>1. IsText(configFile')
      BY <1>3, <2>2, CutIsText
    <3> QED
      BY <1>3, <2>2, <3>1
  <2> QED
    BY <2>1, <2>2 DEF RemoveFishFile, trimmed
<1>5. overlapped' \in BOOLEAN
  BY <1>1 DEF FileIInv, FileTypes
<1>6. FileTypes'
  BY <1>1, <1>4, <1>5 DEF FileIInv, FileTypes
<1>7. Texts'
  BY <1>1, <1>4 DEF FileIInv, Texts
<1>8. OneAtATime' /\ NewStands'
  BY <1>1, <1>2 DEF OneAtATime, NewStands
<1>9. FileStands'
  BY <1>1, <1>4 DEF FileStands
<1> QED
  BY <1>6, <1>7, <1>8, <1>9 DEF FileIInv

LEMMA UserEditsInv ==
  ASSUME FileIInv, UserEdits
  PROVE  FileIInv'
<1> DEFINE l == configFile.lines
           Good(f) == \E g, ended : /\ ended \in BOOLEAN /\ f = File(g, ended) /\ Shape(g)
                                   /\ \A t \in SSO : \A w : Holds(l, t, w) => Holds(g, t, w)
<1>1. /\ Idle /\ user' = UserOrder(configFile'.lines)
      /\ UNCHANGED <<kind, pc, job, old, new, written, lost, overlapped>>
  BY DEF UserEdits, local
<1>2. Shape(l) /\ IsText(configFile) /\ l \in Seq(Lines)
  BY DEF FileIInv, Texts, IsText, Shape
<1>3. Good(configFile')
  <2>1. PICK ended \in BOOLEAN :
       \/ \E u \in UserLine, i \in Outside :
            /\ ~Contains(l, User(u))
            /\ configFile' = File(InsertAt(l, i, User(u)), ended)
       \/ \E i \in 1..Len(l) :
            /\ IsUser(l[i])
            /\ configFile' = File(RemoveAt(l, i), ended)
       \/ configFile' = File(l, ended)
    BY DEF UserEdits
  <2>2. ASSUME NEW u \in UserLine, NEW i \in Outside, ~Contains(l, User(u)),
               configFile' = File(InsertAt(l, i, User(u)), ended)
        PROVE  Good(configFile')
    <3>1. i \in 1..Len(l) + 1 /\ (i <= Len(l) => l[i][1] \in {"prefix", "user"})
      BY DEF Outside
    <3>2. i <= Len(l) => l[i] \in Lines
      BY <1>2, <3>1
    <3>3. i <= Len(l) => Starts(l[i])
      BY <3>1, <3>2, LineKinds
    <3>4. \A j \in 1..Len(l) : l[j] # User(u)
      BY <2>2 DEF Contains
    <3> HIDE DEF l
    <3>5. /\ Shape(InsertAt(l, i, User(u)))
          /\ \A t \in SSO : \A w : Holds(l, t, w) => Holds(InsertAt(l, i, User(u)), t, w)
      BY <1>2, <3>1, <3>3, <3>4, UserPuts
    <3> QED
      BY <2>2, <3>5 DEF l
  <2>3. ASSUME NEW i \in 1..Len(l), IsUser(l[i]), configFile' = File(RemoveAt(l, i), ended)
        PROVE  Good(configFile')
    <3>1. PICK u \in UserLine : l[i] = User(u)
      BY <1>2, <2>3, LineKinds
    <3> HIDE DEF l
    <3>2. /\ Shape(RemoveAt(l, i))
          /\ \A t \in SSO : \A w : Holds(l, t, w) => Holds(RemoveAt(l, i), t, w)
      BY <1>2, <3>1, UserTakes
    <3> QED
      BY <2>3, <3>2 DEF l
  <2>4. CASE configFile' = File(l, ended)
    BY <1>2, <2>4
  <2> QED
    BY <2>1, <2>2, <2>3, <2>4
<1>4. PICK g, ended : /\ ended \in BOOLEAN /\ configFile' = File(g, ended)
                      /\ Shape(g) /\ \A t \in SSO : \A w : Holds(l, t, w) => Holds(g, t, w)
  BY <1>3
<1>5. configFile'.lines = g /\ IsText(configFile')
  BY <1>4, FileIs DEF IsText
<1>6. FileTypes'
  BY <1>1 DEF FileIInv, FileTypes, UserOrder
<1>7. Texts'
  BY <1>1, <1>5 DEF FileIInv, Texts
<1>8. OneAtATime' /\ NewStands'
  BY <1>1 DEF OneAtATime, NewStands, Idle
<1>9. FileStands'
  <2>1. ~lost /\ ~overlapped => Whole(configFile.lines, written)
    BY <1>1 DEF FileIInv, FileStands, Idle
  <2>2. ~lost /\ ~overlapped => Whole(g, written)
    BY <1>4, <2>1 DEF Whole
  <2> QED
    BY <1>1, <1>5, <2>2 DEF FileStands
<1> QED
  BY <1>6, <1>7, <1>8, <1>9 DEF FileIInv

-----------------------------------------------------------------------------
(* What the invariant says of the file.                                    *)

(* Where a block is whole, it is there once and in one piece.              *)
LEMMA WholeBlockStands ==
  ASSUME Shape(configFile.lines), NEW s \in SSO, written[s] \in Version \union {0},
         Holds(configFile.lines, s, written[s])
  PROVE  BlockStands(s)
<1> DEFINE l == configFile.lines
           v == written[s]
<1>1. /\ l \in Seq(Lines) /\ Len(l) \in Nat
      /\ \A i, j \in 1..Len(l) : l[i] = l[j] => i = j
  BY DEF Shape
<1>2. CASE v = 0
  BY <1>2 DEF Holds, BlockStands, LinesOf
<1>3. CASE v # 0
  <2>1. PICK i \in 1..Len(l) : /\ i + 2 <= Len(l) /\ v \in Version
                               /\ l[i] = Prefix(s)
                               /\ l[i + 1] = Body(s, v) /\ l[i + 2] = Suffix(s)
    BY <1>3 DEF Holds
  <2>2. i + 1 \in 1..Len(l) /\ i + 2 \in 1..Len(l) /\ i \in Nat
    BY <1>1, <2>1
  <2>3. ASSUME NEW j \in 1..Len(l), OfBlock(l[j], s)
        PROVE  j \in i..i + 2
    <3>1. PICK p \in 1..Len(l) : l[p] = Prefix(s) /\ p <= j /\ j <= p + 2
      BY <2>3, BlockPlaces
    <3>2. p = i
      BY <1>1, <2>1, <3>1
    <3> QED
      BY <1>1, <3>1, <3>2
  <2>4. \A j \in i..i + 2 : j = i \/ j = i + 1 \/ j = i + 2
    BY <2>2
  <2>5. OfBlock(l[i], s) /\ OfBlock(l[i + 1], s) /\ OfBlock(l[i + 2], s)
    BY <2>1 DEF OfBlock
  <2>6. LinesOf(s) = i..i + 2
    <3>1. i..i + 2 \subseteq 1..Len(l)
      BY <1>1, <2>1
    <3> QED
      BY <2>3, <2>4, <2>5, <3>1 DEF LinesOf
  <2>7. SubSeq(l, i, i + 2) = Block(s, v)
    <3>1. /\ Block(s, v) \in Seq(Lines) /\ Len(Block(s, v)) = 3
          /\ Block(s, v)[1] = Prefix(s) /\ Block(s, v)[2] = Body(s, v)
          /\ Block(s, v)[3] = Suffix(s)
      BY <1>3, BlockIs
    <3> DEFINE a == SubSeq(l, i, i + 2)
    <3>2. /\ a \in Seq(Lines) /\ Len(a) = 3
          /\ a[1] = l[i] /\ a[2] = l[i + 1] /\ a[3] = l[i + 2]
      BY <1>1, <2>1, <2>2
    <3> HIDE DEF a, l
    <3>3. \A k \in 1..Len(a) : k = 1 \/ k = 2 \/ k = 3
      BY <3>2
    <3>4. \A k \in 1..Len(a) : a[k] = Block(s, v)[k]
      BY <2>1, <3>1, <3>2, <3>3
    <3>5. Len(a) = Len(Block(s, v))
      BY <3>1, <3>2
    <3>6. a = Block(s, v)
      BY <3>1, <3>2, <3>4, <3>5, SameLines
    <3> QED
      BY <3>6 DEF a
  <2> QED
    BY <1>3, <2>6, <2>7 DEF BlockStands
<1> QED
  BY <1>2, <1>3

LEMMA TextIsFile ==
  ASSUME NEW f, IsText(f)
  PROVE  IsFile(f)
<1>1. f.lines \in Seq(Lines) /\ \A i, j \in 1..Len(f.lines) : f.lines[i] = f.lines[j] => i = j
  BY DEF IsText, Shape
<1>2. DOMAIN f.lines = 1..Len(f.lines)
  BY <1>1
<1> QED
  BY <1>1, <1>2 DEF IsFile, IsInjective, IsText

LEMMA FileInvImplies == FileIInv => FileInv
<1> SUFFICES ASSUME FileIInv
             PROVE  FileInv
  OBVIOUS
<1>1. FileTypes /\ Texts /\ IsText(configFile)
  BY DEF FileIInv, Texts
<1>2. FileTypeOK
  BY <1>1, TextIsFile DEF FileTypes, Texts, FileTypeOK
<1>3. Undisturbed => Whole(configFile.lines, written) /\ UserOrder(configFile.lines) = user
  BY DEF Undisturbed, Idle, FileIInv, FileStands
<1>4. UserLinesKept
  BY <1>3 DEF UserLinesKept
<1>5. BlocksAsWritten
  <2>1. SUFFICES ASSUME Undisturbed, NEW s \in Managed
                 PROVE  BlockStands(s)
    BY DEF BlocksAsWritten
  <2>2. s \in SSO /\ written[s] \in Version \union {0} /\ Shape(configFile.lines)
    BY <1>1, AnySSOIsOne DEF FileTypes, IsText
  <2>3. Holds(configFile.lines, s, written[s])
    BY <1>3, <2>1, <2>2 DEF Whole
  <2> QED
    BY <2>2, <2>3, WholeBlockStands
<1>6. Idempotent
  <2>1. \A v \in Version : v # 0
    BY ConfigFileAssumption
  <2> QED
    BY <1>1, <2>1, GenerateTwice DEF Idempotent
<1>7. RemovalsAgree
  BY <1>1, AnySSOIsOne, RemovalsSame DEF RemovalsAgree
<1> QED
  BY <1>2, <1>4, <1>5, <1>6, <1>7 DEF FileInv

LEMMA FileInvNext == FileIInv /\ [FileNext]_fileVars => FileIInv'
<1> SUFFICES ASSUME FileIInv, [FileNext]_fileVars
             PROVE  FileIInv'
  OBVIOUS
<1>1. CASE \E e \in Execution :
             \/ \E s \in SSO, v \in Version \union {0}, force \in BOOLEAN : Start(e, s, v, force)
             \/ ReadFile(e) \/ Generate(e) \/ Ask(e) \/ Truncate(e)
             \/ WriteFile(e) \/ WriteFails(e) \/ RemoveFishFile(e)
  BY <1>1, StartInv, ReadFileInv, GenerateInv, AskInv, TruncateInv, WriteFileInv,
     WriteFailsInv, RemoveFishFileInv
<1>2. CASE UserEdits
  BY <1>2, UserEditsInv
<1>3. CASE UNCHANGED fileVars
  <2>1. UNCHANGED <<kind, configFile, pc, job, old, new, user, written, lost, overlapped>>
    BY <1>3 DEF fileVars, local, history
  <2> QED
    BY <2>1 DEF FileIInv, FileTypes, Texts, OneAtATime, FileStands, NewStands
<1> QED
  BY <1>1, <1>2, <1>3 DEF FileNext

(* Whatever aws-sso does to a file of the user's, and whatever the user    *)
(* does to it in between: no line is there twice; where one execution at a *)
(* time was at the file and no write failed, the user's lines are all      *)
(* there in the user's order and each block stands as it was last written; *)
(* writing a block again changes nothing; and the two ways to remove a     *)
(* block leave the same lines.                                             *)
THEOREM UserFilesKept == FileSpec => []FileInv
<1>1. FileIInv /\ [FileNext]_fileVars => FileIInv'
  BY FileInvNext
<1> QED
  BY FileInitInv, <1>1, FileInvImplies, PTL DEF FileSpec
=============================================================================
