------------------------ MODULE StatementCacheProofs ------------------------
(***************************************************************************)
(* Safety of the statement cache for any number of threads, queries and    *)
(* handles and any capacity.  The argument: the three edits of the cache   *)
(* (erase, push, pop) keep list and map in step; every step of run() hands *)
(* statements around between the cache and one thread only (HandsOver), so *)
(* each keeps one owner (Transfer).  What run() answers, and with which    *)
(* plans, follows from that ownership (second part).                       *)
(***************************************************************************)
EXTENDS MCStatementCache, SequenceTheorems, TLAPS

\* RemoveAt keeps the other elements, in order.
LEMMA RemoveAtProperties ==
  ASSUME NEW S, NEW s \in Seq(S), NEW i \in 1 .. Len(s)
  PROVE  /\ RemoveAt(s, i) \in Seq(S)
         /\ Len(RemoveAt(s, i)) = Len(s) - 1
         /\ \A j \in 1 .. Len(s) - 1 :
              RemoveAt(s, i)[j] = IF j < i THEN s[j] ELSE s[j + 1]
<1> DEFINE a == SubSeq(s, 1, i - 1)
           b == SubSeq(s, i + 1, Len(s))
<1>1. /\ a \in Seq(S) /\ Len(a) = i - 1
      /\ \A j \in 1 .. i - 1 : a[j] = s[j]
  <2>1. \A j \in 1 .. i - 1 : s[j] \in S
    BY ElementOfSeq
  <2>2. QED  BY <2>1, SubSeqProperties
<1>2. /\ b \in Seq(S) /\ Len(b) = Len(s) - i
      /\ \A j \in 1 .. Len(s) - i : b[j] = s[i + j]
  <2>1. \A j \in i + 1 .. Len(s) : s[j] \in S
    BY ElementOfSeq
  <2>2. /\ b \in Seq(S)
        /\ Len(b) = IF i + 1 <= Len(s) THEN Len(s) - (i + 1) + 1 ELSE 0
        /\ \A j \in 1 .. Len(s) - (i + 1) + 1 : b[j] = s[(i + 1) + j - 1]
    BY <2>1, SubSeqProperties
  <2>3. QED  BY <2>2
<1>3. /\ a \o b \in Seq(S)
      /\ Len(a \o b) = Len(a) + Len(b)
      /\ \A j \in 1 .. Len(a) + Len(b) :
           (a \o b)[j] = IF j <= Len(a) THEN a[j] ELSE b[j - Len(a)]
  <2> HIDE DEF a, b
  <2>1. QED  BY <1>1, <1>2, ConcatProperties
<1>4. RemoveAt(s, i) = a \o b
  BY DEF RemoveAt
<1> HIDE DEF a, b
<1>5. Len(s) \in Nat /\ i \in Nat
  OBVIOUS
<1>6. ASSUME NEW j \in 1 .. Len(s) - 1
      PROVE  (a \o b)[j] = IF j < i THEN s[j] ELSE s[j + 1]
  <2>1. CASE j < i
    BY <2>1, <1>1, <1>2, <1>3, <1>5
  <2>2. CASE j >= i
    <3>1. j - Len(a) \in 1 .. Len(s) - i
      BY <2>2, <1>1, <1>5
    <3>2. (a \o b)[j] = b[j - Len(a)]
      BY <2>2, <1>1, <1>2, <1>3, <1>5
    <3>3. b[j - Len(a)] = s[i + (j - Len(a))]
      BY <3>1, <1>2
    <3>4. i + (j - Len(a)) = j + 1
      BY <1>1, <1>5
    <3>5. QED  BY <2>2, <3>2, <3>3, <3>4, <1>5
  <2>3. j \in Nat
    BY <1>5
  <2>4. j < i \/ j >= i
    BY <2>3, <1>5
  <2>5. QED  BY <2>1, <2>2, <2>4
<1>7. Len(a \o b) = Len(s) - 1
  BY <1>1, <1>2, <1>3, <1>5
<1>8. QED
  BY <1>3, <1>4, <1>6, <1>7

-----------------------------------------------------------------------------
(* The three edits of the cache, on any list and map that match. *)

Node     == [query : Queries, stmt : Stmts]
Slots    == Stmts \cup {None}
Cache(L, M) == L \in Seq(Node) /\ M \in [Queries -> Slots] /\ Matches(L, M)

\* stmt_cache_checkout: the node the iterator of q points at leaves both.
LEMMA EraseKeepsCache ==
  ASSUME NEW L, NEW M, Cache(L, M), NEW i \in 1 .. Len(L)
  PROVE  LET R == RemoveAt(L, i)  X == [M EXCEPT ![L[i].query] = None] IN
         /\ Cache(R, X)
         /\ Len(R) = Len(L) - 1
         /\ StmtsOf(R) = StmtsOf(L) \ {L[i].stmt}
<1> DEFINE R == RemoveAt(L, i)
           X == [M EXCEPT ![L[i].query] = None]
<1>1. /\ L \in Seq(Node) /\ Len(L) \in Nat /\ i \in Nat /\ DOMAIN L = 1 .. Len(L)
      /\ \A k \in 1 .. Len(L) : L[k] \in Node
  BY DEF Cache
<1>2. /\ R \in Seq(Node) /\ Len(R) = Len(L) - 1
      /\ \A j \in 1 .. Len(L) - 1 : R[j] = IF j < i THEN L[j] ELSE L[j + 1]
  BY <1>1, RemoveAtProperties
<1> DEFINE Old(j) == IF j < i THEN j ELSE j + 1
<1>3. DOMAIN R = 1 .. Len(L) - 1
  BY <1>1, <1>2
<1> HIDE DEF R
<1>4. \A j \in DOMAIN R : /\ Old(j) \in DOMAIN L /\ Old(j) # i
                           /\ R[j] = L[Old(j)]
  BY <1>1, <1>2, <1>3
<1>5. \A j, k \in DOMAIN R : Old(j) = Old(k) => j = k
  BY <1>1, <1>3
<1>6. \A k \in DOMAIN L : k # i => \E j \in DOMAIN R : Old(j) = k
  <2> SUFFICES ASSUME NEW k \in DOMAIN L, k # i
               PROVE  \E j \in DOMAIN R : Old(j) = k
    OBVIOUS
  <2>1. CASE k < i
    <3>1. k \in DOMAIN R /\ Old(k) = k
      BY <2>1, <1>1, <1>3
    <3>2. QED  BY <3>1
  <2>2. CASE k > i
    <3>1. k - 1 \in DOMAIN R /\ Old(k - 1) = k
      BY <2>2, <1>1, <1>3
    <3>2. QED  BY <3>1
  <2>3. QED  BY <2>1, <2>2, <1>1
<1> HIDE DEF Old
<1>7. X \in [Queries -> Slots]
  BY <1>1 DEF Cache, Slots, Node
<1>8. /\ L[i].query \in Queries
      /\ \A k \in DOMAIN L : L[k].query \in Queries
  BY <1>1 DEF Node
<1>9. \A j \in DOMAIN R : R[j].query # L[i].query /\ R[j].stmt # L[i].stmt
  BY <1>1, <1>4 DEF Cache, Matches
<1>10. Matches(R, X)
  <2>1. \A j, k \in DOMAIN R : R[j].query = R[k].query => j = k
    BY <1>4, <1>5 DEF Cache, Matches
  <2>2. \A j, k \in DOMAIN R : R[j].stmt = R[k].stmt => j = k
    BY <1>4, <1>5 DEF Cache, Matches
  <2>3. \A j \in DOMAIN R : X[R[j].query] = R[j].stmt
    BY <1>4, <1>8, <1>9 DEF Cache, Matches
  <2>4. ASSUME NEW q \in Queries, X[q] # None
        PROVE  \E j \in DOMAIN R : R[j].query = q
    <3>1. q # L[i].query /\ M[q] # None
      BY <2>4, <1>8 DEF Cache
    <3>2. PICK k \in DOMAIN L : L[k].query = q
      BY <3>1 DEF Cache, Matches
    <3>3. QED  BY <3>1, <3>2, <1>4, <1>6
  <2>5. QED  BY <2>1, <2>2, <2>3, <2>4 DEF Matches
<1>11. StmtsOf(R) = StmtsOf(L) \ {L[i].stmt}
  <2>1. \A h \in StmtsOf(R) : h \in StmtsOf(L) /\ h # L[i].stmt
    BY <1>4, <1>9 DEF StmtsOf
  <2>2. \A h \in StmtsOf(L) : h # L[i].stmt => h \in StmtsOf(R)
    BY <1>4, <1>6 DEF StmtsOf
  <2>3. QED  BY <2>1, <2>2
<1>12. QED
  BY <1>2, <1>7, <1>10, <1>11 DEF Cache, R

\* push_front and emplace of a query the cache does not hold.
LEMMA PushKeepsCache ==
  ASSUME NEW L, NEW M, Cache(L, M), NEW q \in Queries, M[q] = None,
         NEW h \in Stmts, h \notin StmtsOf(L)
  PROVE  LET R == <<[query |-> q, stmt |-> h]>> \o L  X == [M EXCEPT ![q] = h] IN
         /\ Cache(R, X)
         /\ Len(R) = Len(L) + 1
         /\ R[1].stmt = h
         /\ StmtsOf(R) = StmtsOf(L) \cup {h}
<1> DEFINE e == [query |-> q, stmt |-> h]
           R == <<e>> \o L
           X == [M EXCEPT ![q] = h]
<1>1. /\ L \in Seq(Node) /\ Len(L) \in Nat /\ DOMAIN L = 1 .. Len(L)
      /\ \A k \in 1 .. Len(L) : L[k] \in Node
  BY DEF Cache
<1>2. <<e>> \in Seq(Node) /\ Len(<<e>>) = 1 /\ <<e>>[1] = e
  BY DEF Node
<1>3. /\ R \in Seq(Node) /\ Len(R) = Len(L) + 1
      /\ \A i \in 1 .. Len(L) + 1 : R[i] = IF i <= 1 THEN <<e>>[i] ELSE L[i - 1]
  <2> HIDE DEF e
  <2>1. QED  BY <1>1, <1>2, ConcatProperties
<1>4. /\ DOMAIN R = 1 .. Len(L) + 1
      /\ R[1] = e
      /\ \A k \in DOMAIN L : k + 1 \in DOMAIN R /\ R[k + 1] = L[k]
  <2> HIDE DEF e, R
  <2>1. DOMAIN R = 1 .. Len(L) + 1
    BY <1>3
  <2>2. R[1] = e
    BY <1>1, <1>2, <1>3
  <2>3. ASSUME NEW k \in DOMAIN L
        PROVE  k + 1 \in 1 .. Len(L) + 1 /\ R[k + 1] = L[k]
    <3>1. k \in Nat /\ k >= 1 /\ k <= Len(L)
      BY <1>1
    <3>2. k + 1 \in 1 .. Len(L) + 1 /\ ~(k + 1 <= 1) /\ (k + 1) - 1 = k
      BY <3>1, <1>1
    <3>3. R[k + 1] = L[(k + 1) - 1]
      BY <3>2, <1>3
    <3>4. QED  BY <3>2, <3>3
  <2>4. QED  BY <2>1, <2>2, <2>3
<1>5. \A i \in DOMAIN R : i = 1 \/ \E k \in DOMAIN L : i = k + 1
  <2> SUFFICES ASSUME NEW i \in DOMAIN R, i # 1
               PROVE  \E k \in DOMAIN L : i = k + 1
    OBVIOUS
  <2>1. i - 1 \in DOMAIN L /\ i = (i - 1) + 1
    BY <1>1, <1>4
  <2>2. QED  BY <2>1
<1> HIDE DEF R
<1>6. X \in [Queries -> Slots]
  BY DEF Cache, Slots
<1>7. \A k \in DOMAIN L : L[k].query # q /\ L[k].stmt # h /\ L[k].query \in Queries
  <2> SUFFICES ASSUME NEW k \in DOMAIN L
               PROVE  L[k].query # q /\ L[k].stmt # h /\ L[k].query \in Queries
    OBVIOUS
  <2>1. L[k].query \in Queries /\ L[k].stmt \in Stmts
    BY <1>1 DEF Node
  <2>2. M[L[k].query] = L[k].stmt
    BY DEF Cache, Matches
  <2>3. None \notin Stmts
    BY NoneIsNoValue
  <2>4. QED  BY <2>1, <2>2, <2>3 DEF StmtsOf
<1>8. Matches(R, X)
  <2>1. ASSUME NEW i \in DOMAIN R, NEW j \in DOMAIN R, R[i].query = R[j].query
        PROVE  i = j
    BY <2>1, <1>4, <1>5, <1>7 DEF Cache, Matches
  <2>2. ASSUME NEW i \in DOMAIN R, NEW j \in DOMAIN R, R[i].stmt = R[j].stmt
        PROVE  i = j
    BY <2>2, <1>4, <1>5, <1>7 DEF Cache, Matches
  <2>3. ASSUME NEW i \in DOMAIN R
        PROVE  X[R[i].query] = R[i].stmt
    BY <1>4, <1>5, <1>7 DEF Cache, Matches
  <2>4. ASSUME NEW p \in Queries, X[p] # None
        PROVE  \E i \in DOMAIN R : R[i].query = p
    <3>1. CASE p = q
      <4>1. 1 \in DOMAIN R /\ R[1].query = p
        BY <3>1, <1>1, <1>4
      <4>2. QED  BY <4>1
    <3>2. CASE p # q
      <4>1. PICK k \in DOMAIN L : L[k].query = p
        BY <3>2, <2>4 DEF Cache, Matches
      <4>2. k + 1 \in DOMAIN R /\ R[k + 1].query = p
        BY <4>1, <1>4
      <4>3. QED  BY <4>2
    <3>3. QED  BY <3>1, <3>2
  <2>5. QED  BY <2>1, <2>2, <2>3, <2>4 DEF Matches
<1>9. StmtsOf(R) = StmtsOf(L) \cup {h}
  <2>1. \A g \in StmtsOf(R) : g \in StmtsOf(L) \/ g = h
    BY <1>4, <1>5 DEF StmtsOf
  <2>2. h \in StmtsOf(R)
    <3>1. 1 \in DOMAIN R /\ R[1].stmt = h
      BY <1>1, <1>4
    <3>2. QED  BY <3>1 DEF StmtsOf
  <2>3. \A g \in StmtsOf(L) : g \in StmtsOf(R)
    BY <1>4 DEF StmtsOf
  <2>4. QED  BY <2>1, <2>2, <2>3
<1>10. QED
  BY <1>3, <1>4, <1>6, <1>8, <1>9 DEF Cache, R

\* pop_back is an erase of the last node.
LEMMA FrontIsErase ==
  ASSUME NEW L \in Seq(Node), Len(L) > 0
  PROVE  Front(L) = RemoveAt(L, Len(L))
<1>1. Len(L) \in Nat
  OBVIOUS
<1>2. SubSeq(L, Len(L) + 1, Len(L)) = << >>
  BY <1>1, SubSeqEmpty
<1>3. SubSeq(L, 1, Len(L) - 1) \in Seq(Node)
  <2>1. \A i \in 1 .. Len(L) - 1 : L[i] \in Node
    BY <1>1, ElementOfSeq
  <2>2. QED  BY <2>1, <1>1, SubSeqProperties
<1>4. SubSeq(L, 1, Len(L) - 1) \o << >> = SubSeq(L, 1, Len(L) - 1)
  BY <1>3, ConcatEmptySeq
<1>5. QED
  BY <1>2, <1>4 DEF Front, RemoveAt

-----------------------------------------------------------------------------
(* The inductive invariant.                                                *)

\* A call that has no statement yet has nothing to destroy when it throws.
NothingHeldYet == \A t \in Threads : pc[t] = "prepare" => call[t].stmt = None

OwnInv ==
  /\ TypeOK
  /\ IndexMatchesList
  /\ WithinCapacity
  /\ SingleOwner
  /\ NothingHeldYet

\* In a state of run() the list and the map are a cache.
LEMMA CacheOfState == OwnInv => Cache(lru, index)
BY DEF OwnInv, TypeOK, IndexMatchesList, Cache, Node, Slots

\* The list holds statement handles only.
LEMMA CachedAreStmts == OwnInv => CachedStmts \subseteq Stmts
<1> SUFFICES ASSUME OwnInv, NEW i \in DOMAIN lru
             PROVE  lru[i].stmt \in Stmts
  BY DEF CachedStmts, StmtsOf
<1>1. lru \in Seq(Node) /\ i \in 1 .. Len(lru)
  BY DEF OwnInv, TypeOK, Node
<1>2. lru[i] \in Node
  BY <1>1, ElementOfSeq
<1>3. QED  BY <1>2 DEF Node

\* stmt_cache_.find(q) yields an iterator to q's own live node.
LEMMA IteratorPointsAtNode ==
  ASSUME OwnInv, NEW q \in Queries, index[q] # None
  PROVE  /\ NodeOf(q) \in 1 .. Len(lru)
         /\ lru[NodeOf(q)].query = q /\ lru[NodeOf(q)].stmt = index[q]
         /\ index[q] \in CachedStmts
<1>1. PICK i \in DOMAIN lru : lru[i].query = q
  BY DEF OwnInv, IndexMatchesList, Matches
<1>2. lru[i].stmt = index[q]
  BY <1>1 DEF OwnInv, IndexMatchesList, Matches
<1>3. NodeOf(q) \in DOMAIN lru /\ lru[NodeOf(q)].stmt = index[q]
  BY <1>2 DEF NodeOf
<1>4. NodeOf(q) = i
  BY <1>2, <1>3 DEF OwnInv, IndexMatchesList, Matches
<1>5. lru \in Seq(Node) /\ DOMAIN lru = 1 .. Len(lru)
  BY DEF OwnInv, TypeOK, Node
<1>6. QED
  BY <1>1, <1>2, <1>3, <1>4, <1>5 DEF CachedStmts, StmtsOf

\* stmt_cache_checkout keeps the cache a cache without the statement it hands out.
LEMMA CheckoutStep ==
  ASSUME OwnInv, NEW q \in Queries, index[q] # None, stmt_cache_checkout(q)
  PROVE  /\ Cache(lru', index')
         /\ WithinCapacity'
         /\ CachedStmts' = CachedStmts \ {index[q]}
<1>1. Cache(lru, index)
  BY CacheOfState
<1>2. /\ NodeOf(q) \in 1 .. Len(lru)
      /\ lru[NodeOf(q)].query = q /\ lru[NodeOf(q)].stmt = index[q]
  BY IteratorPointsAtNode
<1>3. lru' = RemoveAt(lru, NodeOf(q)) /\ index' = [index EXCEPT ![q] = None]
  BY DEF stmt_cache_checkout
<1>4. /\ Cache(lru', index')
      /\ Len(lru') = Len(lru) - 1
      /\ StmtsOf(lru') = StmtsOf(lru) \ {index[q]}
  BY <1>1, <1>2, <1>3, EraseKeepsCache, ZenonT(30)
<1>5. Len(lru) \in Nat /\ Len(lru) <= Capacity /\ Capacity \in Nat
  BY <1>1, CapacityIsPositive DEF Cache, OwnInv, WithinCapacity
<1>6. CachedStmts = StmtsOf(lru) /\ CachedStmts' = StmtsOf(lru')
  BY DEF CachedStmts, StmtsOf
<1>7. WithinCapacity'
  BY <1>4, <1>5 DEF WithinCapacity
<1>8. QED
  BY <1>4, <1>6, <1>7

\* stmt_cache_clear leaves an empty cache.
LEMMA ClearStep ==
  ASSUME NEW S, stmt_cache_clear(S)
  PROVE  /\ Cache(lru', index')
         /\ WithinCapacity'
         /\ CachedStmts' = {}
<1>1. lru' = << >> /\ index' = [q \in Queries |-> None]
  BY DEF stmt_cache_clear
<1>2. Len(lru') = 0 /\ DOMAIN lru' = {} /\ lru' \in Seq(Node)
  BY <1>1
<1>3. Cache(lru', index')
  BY <1>1, <1>2 DEF Cache, Matches, Slots
<1>4. QED
  BY <1>2, <1>3, CapacityIsPositive DEF WithinCapacity, CachedStmts, StmtsOf

\* A check-in destroys cached statements only, never the one it caches.
LEMMA CheckinStep ==
  ASSUME OwnInv, NEW q \in Queries, NEW h \in Stmts \ CachedStmts,
         stmt_cache_checkin(q, h)
  PROVE  /\ Cache(lru', index')
         /\ WithinCapacity'
         /\ \E D \in SUBSET CachedStmts :
              /\ CachedStmts' = (CachedStmts \cup {h}) \ D
              /\ prep' = Destroyed(D)
<1> DEFINE others == IF index[q] = None THEN lru ELSE RemoveAt(lru, NodeOf(q))
           without == [index EXCEPT ![q] = None]
           pushed == <<[query |-> q, stmt |-> h]>> \o others
           listed == [without EXCEPT ![q] = h]
           over   == Len(pushed) > Capacity
           victim == pushed[Len(pushed)]
           gone   == {index[q]} \cap Stmts
<1>1. Cache(lru, index)
  BY CacheOfState
<1>2. None \notin Stmts
  BY NoneIsNoValue
<1>3. index \in [Queries -> Stmts \cup {None}]
  BY DEF OwnInv, TypeOK
<1>4. /\ Cache(others, without)
      /\ Len(others) <= Capacity
      /\ StmtsOf(others) = CachedStmts \ gone
      /\ gone \subseteq CachedStmts
  <2>1. Len(lru) \in Nat /\ Len(lru) <= Capacity /\ Capacity \in Nat
    BY <1>1, CapacityIsPositive DEF Cache, OwnInv, WithinCapacity
  <2>2. CASE index[q] = None
    <3>1. without = index /\ others = lru /\ gone = {}
      BY <2>2, <1>2, <1>3
    <3>2. QED  BY <3>1, <2>1, <1>1 DEF CachedStmts
  <2>3. CASE index[q] # None
    <3>1. /\ NodeOf(q) \in 1 .. Len(lru)
          /\ lru[NodeOf(q)].query = q /\ lru[NodeOf(q)].stmt = index[q]
          /\ index[q] \in CachedStmts
      BY <2>3, IteratorPointsAtNode
    <3>2. gone = {index[q]}
      BY <2>3, <1>3
    <3>3. /\ Cache(RemoveAt(lru, NodeOf(q)), without)
          /\ Len(RemoveAt(lru, NodeOf(q))) = Len(lru) - 1
          /\ StmtsOf(RemoveAt(lru, NodeOf(q))) = StmtsOf(lru) \ {index[q]}
      BY <3>1, <1>1, EraseKeepsCache
    <3>4. QED  BY <2>1, <2>3, <3>1, <3>2, <3>3 DEF CachedStmts
  <2>4. QED  BY <2>2, <2>3
<1>5. without[q] = None /\ h \notin StmtsOf(others)
  BY <1>3, <1>4
<1> HIDE DEF others, without
<1>6. /\ Cache(pushed, listed)
      /\ Len(pushed) = Len(others) + 1
      /\ pushed[1].stmt = h
      /\ StmtsOf(pushed) = StmtsOf(others) \cup {h}
  BY <1>4, <1>5, PushKeepsCache
<1>7. /\ lru' = IF over THEN Front(pushed) ELSE pushed
      /\ index' = IF over THEN [index EXCEPT ![q] = h, ![victim.query] = None]
                          ELSE [index EXCEPT ![q] = h]
      /\ prep' = Destroyed({index[q]} \cup (IF over THEN {victim.stmt} ELSE {}))
  BY DEF stmt_cache_checkin, others
<1>8. listed = [index EXCEPT ![q] = h]
  BY <1>3 DEF without
<1> HIDE DEF pushed, listed
<1>9. Len(others) \in Nat /\ Capacity \in Nat /\ Capacity > 0 /\ h \notin CachedStmts
  BY <1>4, CapacityIsPositive DEF Cache
<1>10. CASE ~over
  <2>1. lru' = pushed /\ index' = listed /\ prep' = Destroyed({index[q]})
    BY <1>7, <1>8, <1>10
  <2>2. prep' = Destroyed(gone)
    BY <2>1 DEF Destroyed
  <2>3. CachedStmts' = (CachedStmts \cup {h}) \ gone
    <3>1. CachedStmts' = StmtsOf(pushed)
      BY <2>1 DEF CachedStmts, StmtsOf
    <3>2. QED  BY <3>1, <1>4, <1>6, <1>9
  <2>4. Len(lru') <= Capacity
    BY <2>1, <1>6, <1>9, <1>10
  <2>5. QED  BY <2>1, <2>2, <2>3, <2>4, <1>4, <1>6 DEF WithinCapacity
<1>11. CASE over
  <2>1. lru' = Front(pushed) /\ index' = [listed EXCEPT ![victim.query] = None]
        /\ prep' = Destroyed({index[q], victim.stmt})
    <3>1. index' = [[index EXCEPT ![q] = h] EXCEPT ![victim.query] = None]
      BY <1>7, <1>11
    <3>2. QED  BY <3>1, <1>7, <1>8, <1>11
  <2>2. Len(pushed) \in Nat /\ Len(pushed) > 1 /\ Len(pushed) = Capacity + 1
    BY <1>4, <1>6, <1>9, <1>11
  <2>3. pushed \in Seq(Node) /\ Front(pushed) = RemoveAt(pushed, Len(pushed))
    BY <2>2, <1>6, FrontIsErase DEF Cache
  <2>4. /\ Cache(lru', index')
        /\ Len(lru') = Len(pushed) - 1
        /\ StmtsOf(lru') = StmtsOf(pushed) \ {victim.stmt}
    <3>1. Len(pushed) \in 1 .. Len(pushed)
      BY <2>2
    <3>2. /\ Cache(RemoveAt(pushed, Len(pushed)), [listed EXCEPT ![victim.query] = None])
          /\ Len(RemoveAt(pushed, Len(pushed))) = Len(pushed) - 1
          /\ StmtsOf(RemoveAt(pushed, Len(pushed))) = StmtsOf(pushed) \ {victim.stmt}
      BY <3>1, <1>6, EraseKeepsCache
    <3>3. QED  BY <3>2, <2>1, <2>3
  <2>5. victim.stmt # h /\ victim.stmt \in StmtsOf(pushed)
    <3>1. 1 \in DOMAIN pushed /\ Len(pushed) \in DOMAIN pushed /\ Len(pushed) # 1
      BY <2>2, <2>3
    <3>2. QED  BY <3>1, <1>6 DEF Cache, Matches, StmtsOf
  <2>6. victim.stmt \in CachedStmts
    BY <2>5, <1>4, <1>6
  <2>7. prep' = Destroyed(gone \cup {victim.stmt})
    BY <2>1 DEF Destroyed
  <2>8. CachedStmts' = (CachedStmts \cup {h}) \ (gone \cup {victim.stmt})
    <3>1. CachedStmts' = StmtsOf(lru')
      BY DEF CachedStmts, StmtsOf
    <3>2. QED  BY <3>1, <2>4, <2>5, <1>4, <1>6, <1>9
  <2>9. Len(lru') <= Capacity
    BY <2>2, <2>4, <1>9
  <2>10. gone \cup {victim.stmt} \in SUBSET CachedStmts
    BY <2>6, <1>4
  <2>11. QED  BY <2>4, <2>7, <2>8, <2>9, <2>10 DEF WithinCapacity
<1>12. QED
  BY <1>10, <1>11

-----------------------------------------------------------------------------
(* Every step keeps the invariant. *)

\* What the invariant says of the list is what Cache says of it.
LEMMA CacheGivesList ==
  Cache(lru', index') => /\ lru' \in Seq([query : Queries, stmt : Stmts])
                         /\ index' \in [Queries -> Stmts \cup {None}]
                         /\ IndexMatchesList'
BY DEF Cache, Node, Slots, IndexMatchesList, Matches

\* A step that leaves list and map alone leaves the cache a cache.
LEMMA CacheUnchanged ==
  OwnInv /\ UNCHANGED cacheVars =>
    Cache(lru', index') /\ WithinCapacity' /\ CachedStmts' = CachedStmts
<1> SUFFICES ASSUME OwnInv, UNCHANGED cacheVars
             PROVE  Cache(lru', index') /\ WithinCapacity' /\ CachedStmts' = CachedStmts
  OBVIOUS
<1>1. lru' = lru /\ index' = index
  BY DEF cacheVars
<1>2. CachedStmts' = CachedStmts
  BY <1>1 DEF CachedStmts, StmtsOf
<1>3. WithinCapacity'
  BY <1>1 DEF OwnInv, WithinCapacity
<1>4. QED  BY <1>1, <1>2, <1>3, CacheOfState

\* The statement thread t owns.
Mine(t) == IF pc[t] \in Holding THEN {call[t].stmt} ELSE {}

\* A step hands around only what the cache and thread t own and what nobody owns,
\* and destroys exactly what it lets go of.
HandsOver(t) ==
  /\ \A u \in Threads : u # t => pc'[u] = pc[u] /\ call'[u] = call[u]
  /\ CachedStmts' \subseteq Stmts /\ Mine(t)' \subseteq Stmts
  /\ CachedStmts' \cap Mine(t)' = {}
  /\ \A h \in CachedStmts' \cup Mine(t)' :
       h \in CachedStmts \/ h \in Mine(t) \/ prep[h] = None
  /\ \A h \in Stmts :
       IF h \in CachedStmts \/ h \in Mine(t) \/ prep[h] = None
       THEN prep'[h] # None <=> h \in CachedStmts' \/ h \in Mine(t)'
       ELSE prep'[h] # None

\* Handing statements around that way leaves every statement one owner.
LEMMA Transfer ==
  ASSUME OwnInv, NEW t \in Threads, HandsOver(t)
  PROVE  SingleOwner'
<1> DEFINE New == CachedStmts' \cup Mine(t)'
           Own == CachedStmts \cup Mine(t)
<1>0. /\ \A u \in Threads : u # t => pc'[u] = pc[u] /\ call'[u] = call[u]
      /\ New \subseteq Stmts /\ CachedStmts' \cap Mine(t)' = {}
      /\ \A h \in New : (h \in Own \/ prep[h] = None) /\ prep'[h] # None
      /\ \A h \in Stmts \ New : h \in Own \/ prep[h] = None => prep'[h] = None
      /\ \A h \in Stmts \ Own : prep[h] # None => prep'[h] # None
  BY DEF HandsOver
<1> HIDE DEF New, Own
<1>1. pc'[t] \in Holding => Mine(t)' = {call'[t].stmt}
  BY DEF Mine, Holding
<1>2. pc[t] \in Holding => Mine(t) = {call[t].stmt}
  BY DEF Mine
<1>3. ASSUME NEW u \in Threads, u # t, pc[u] \in Holding
      PROVE  /\ call[u].stmt \in Stmts \ Own
             /\ prep[call[u].stmt] # None
             /\ call[u].stmt \notin New
             /\ prep'[call[u].stmt] # None
  <2>1. call[u].stmt \in Stmts \ CachedStmts /\ prep[call[u].stmt] # None
    BY <1>3 DEF OwnInv, SingleOwner
  <2>2. call[u].stmt \notin Mine(t)
    BY <1>3 DEF OwnInv, SingleOwner, Mine
  <2>3. QED  BY <2>1, <2>2, <1>0 DEF Own
<1>4. \A u \in Threads : pc'[u] \in Holding =>
        call'[u].stmt \in Stmts \ CachedStmts' /\ prep'[call'[u].stmt] # None
  <2> SUFFICES ASSUME NEW u \in Threads, pc'[u] \in Holding
               PROVE  call'[u].stmt \in Stmts \ CachedStmts' /\ prep'[call'[u].stmt] # None
    OBVIOUS
  <2>1. CASE u = t
    BY <2>1, <1>0, <1>1 DEF New
  <2>2. CASE u # t
    BY <2>2, <1>0, <1>3 DEF New
  <2>3. QED  BY <2>1, <2>2
<1>5. \A u, v \in Threads : pc'[u] \in Holding /\ pc'[v] \in Holding
                           /\ call'[u].stmt = call'[v].stmt => u = v
  <2> SUFFICES ASSUME NEW u \in Threads, NEW v \in Threads,
                      pc'[u] \in Holding, pc'[v] \in Holding,
                      call'[u].stmt = call'[v].stmt, u # v
               PROVE  FALSE
    OBVIOUS
  <2>1. CASE u # t /\ v # t
    BY <2>1, <1>0 DEF OwnInv, SingleOwner
  <2>2. CASE u = t
    BY <2>2, <1>0, <1>1, <1>3 DEF New
  <2>3. CASE v = t
    BY <2>3, <1>0, <1>1, <1>3 DEF New
  <2>4. QED  BY <2>1, <2>2, <2>3
<1>6. \A h \in CachedStmts' : prep'[h] # None
  BY <1>0 DEF New
<1>7. ASSUME NEW h \in Stmts, prep'[h] # None
      PROVE  h \in CachedStmts' \/ \E u \in Threads : pc'[u] \in Holding /\ call'[u].stmt = h
  <2>1. CASE h \in New
    <3>1. h \in CachedStmts' \/ h \in Mine(t)'
      BY <2>1 DEF New
    <3>2. h \in Mine(t)' => pc'[t] \in Holding /\ call'[t].stmt = h
      BY DEF Mine, Holding
    <3>3. QED  BY <3>1, <3>2
  <2>2. CASE h \notin New
    <3>1. h \notin CachedStmts /\ h \notin Mine(t) /\ prep[h] # None
      BY <2>2, <1>0, <1>7 DEF Own
    <3>2. PICK u \in Threads : pc[u] \in Holding /\ call[u].stmt = h
      BY <3>1 DEF OwnInv, SingleOwner
    <3>3. u # t
      BY <3>1, <3>2, <1>2
    <3>4. QED  BY <3>2, <3>3, <1>0
  <2>3. QED  BY <2>1, <2>2
<1>8. QED
  BY <1>4, <1>5, <1>6, <1>7 DEF SingleOwner, Holding

\* What a thread holds is alive and is not cached.
LEMMA MineAreStmts ==
  ASSUME OwnInv, NEW t \in Threads
  PROVE  /\ Mine(t) \subseteq Stmts
         /\ Mine(t) \cap CachedStmts = {}
         /\ \A h \in Mine(t) \cup CachedStmts : prep[h] # None
BY DEF OwnInv, SingleOwner, Mine

\* duckdb_destroy_prepare on a set of handles, read pointwise.
LEMMA DestroyedIsNone ==
  ASSUME NEW S, prep' = Destroyed(S)
  PROVE  \A h \in Stmts : prep'[h] = IF h \in S THEN None ELSE prep[h]
BY DEF Destroyed

\* An exception out of run() destroys the statement of the call, and only that.
LEMMA ThrowStep ==
  ASSUME OwnInv, NEW t \in Threads, pc[t] \in {"prepare"} \cup Holding, Throw(t)
  PROVE  OwnInv'
<1>1. Cache(lru', index') /\ WithinCapacity' /\ CachedStmts' = CachedStmts
  BY CacheUnchanged DEF Throw
<1>2. TypeOK'
  BY <1>1, CacheGivesList DEF OwnInv, TypeOK, Throw, Destroyed, worldVars, Holding
<1>3. NothingHeldYet'
  BY DEF OwnInv, NothingHeldYet, TypeOK, Throw
<1>4. /\ \A u \in Threads : u # t => pc'[u] = pc[u] /\ call'[u] = call[u]
      /\ Mine(t)' = {}
  BY DEF OwnInv, TypeOK, Throw, Mine, Holding
<1>5. \A h \in Stmts : prep'[h] = IF h \in Mine(t) THEN None ELSE prep[h]
  <2>1. \A h \in Stmts : h = call[t].stmt <=> h \in Mine(t)
    BY NoneIsNoValue DEF OwnInv, NothingHeldYet, Mine, Holding
  <2>2. QED  BY <2>1 DEF Throw, Destroyed
<1>6. SingleOwner'
  <2>1. /\ CachedStmts \subseteq Stmts /\ Mine(t) \cap CachedStmts = {}
        /\ \A h \in CachedStmts : prep[h] # None
    BY MineAreStmts, CachedAreStmts
  <2>2. \A h \in CachedStmts' : prep'[h] # None
    BY <2>1, <1>1, <1>5
  <2>3. \A h \in Stmts \ CachedStmts' :
          h \in CachedStmts \cup Mine(t) \/ prep[h] = None => prep'[h] = None
    BY <1>1, <1>5
  <2>4. \A h \in Stmts \ (CachedStmts \cup Mine(t)) : prep[h] # None => prep'[h] # None
    BY <1>5
  <2>5. HandsOver(t)
    BY <2>1, <2>2, <2>3, <2>4, <1>1, <1>4 DEF HandsOver
  <2>6. QED  BY <2>5, Transfer
<1>7. QED
  BY <1>1, <1>2, <1>3, <1>6, CacheGivesList DEF OwnInv

\* The three ways into run(): a miss, a hit, and a hit that cannot be reset.
LEMMA EnterStep ==
  ASSUME OwnInv, NEW t \in Threads, NEW q \in Queries, NEW p \in Bindings, NEW s \in BOOLEAN,
         Miss(t, q, p, s) \/ Hit(t, q, p, s) \/ UnusableHit(t, q, p, s)
  PROVE  OwnInv'
<1>1. /\ pc[t] = "idle" /\ Mine(t) = {}
      /\ \A u \in Threads : u # t => pc'[u] = pc[u] /\ call'[u] = call[u]
  BY DEF OwnInv, TypeOK, Miss, Hit, UnusableHit, Enter, Mine, Holding
<1>2. index[q] \in Stmts \cup {None} /\ Capacity \in Nat
  BY CapacityIsPositive DEF OwnInv, TypeOK
<1>3. CASE Miss(t, q, p, s)
  <2>1. Cache(lru', index') /\ WithinCapacity' /\ CachedStmts' = CachedStmts
    BY <1>3, CacheUnchanged DEF Miss
  <2>2. TypeOK' /\ NothingHeldYet'
    BY <1>3, <2>1, CacheGivesList
    DEF OwnInv, TypeOK, NothingHeldYet, Miss, Enter, Call, worldVars, Holding
  <2>3. prep' = prep /\ Mine(t)' = {}
    BY <1>3 DEF OwnInv, TypeOK, Miss, Enter, Mine, Holding
  <2>4. SingleOwner'
    <3>1. HandsOver(t)
      BY <1>1, <2>1, <2>3, MineAreStmts, CachedAreStmts DEF HandsOver
    <3>2. QED  BY <3>1, Transfer
  <2>5. QED  BY <2>1, <2>2, <2>4, CacheGivesList DEF OwnInv
<1>4. CASE Hit(t, q, p, s)
  <2>1. /\ Cache(lru', index') /\ WithinCapacity'
        /\ CachedStmts' = CachedStmts \ {index[q]}
        /\ index[q] \in CachedStmts
    BY <1>4, CheckoutStep, IteratorPointsAtNode DEF Hit
  <2>2. prep[index[q]] \in Prepared
    BY <2>1, CachedAreStmts DEF OwnInv, TypeOK, SingleOwner
  <2>3. /\ prep' \in [Stmts -> Prepared \cup {None}]
        /\ prep'[index[q]] # None
        /\ \A h \in Stmts : h # index[q] => prep'[h] = prep[h]
    <3>1. prep' = [prep EXCEPT ![index[q]].bound = None] /\ prep \in [Stmts -> Prepared \cup {None}]
      BY <1>4 DEF Hit, OwnInv, TypeOK
    <3>2. [prep[index[q]] EXCEPT !.bound = None] \in Prepared
      BY <2>2 DEF Prepared, Bindings
    <3>3. prep' = [prep EXCEPT ![index[q]] = [prep[index[q]] EXCEPT !.bound = None]]
      BY <3>1
    <3>4. QED  BY <3>1, <3>2, <3>3, <2>1, CachedAreStmts, NoneIsNoValue
  <2>4. TypeOK' /\ NothingHeldYet'
    BY <1>4, <2>1, <2>3, <1>2, CacheGivesList
    DEF OwnInv, TypeOK, NothingHeldYet, Hit, Enter, Call, worldVars, Holding
  <2>5. Mine(t)' = {index[q]}
    BY <1>4 DEF OwnInv, TypeOK, Hit, Enter, Mine, Holding
  <2>6. SingleOwner'
    <3>1. HandsOver(t)
      BY <1>1, <2>1, <2>3, <2>5, MineAreStmts, CachedAreStmts DEF HandsOver
    <3>2. QED  BY <3>1, Transfer
  <2>7. QED  BY <2>1, <2>4, <2>6, CacheGivesList DEF OwnInv
<1>5. CASE UnusableHit(t, q, p, s)
  <2>1. /\ Cache(lru', index') /\ WithinCapacity'
        /\ CachedStmts' = CachedStmts \ {index[q]}
        /\ index[q] \in CachedStmts
    BY <1>5, CheckoutStep, IteratorPointsAtNode DEF UnusableHit
  <2>2. TypeOK' /\ NothingHeldYet'
    BY <1>5, <2>1, CacheGivesList
    DEF OwnInv, TypeOK, NothingHeldYet, UnusableHit, Enter, Call, worldVars, Holding, Destroyed
  <2>3. Mine(t)' = {}
    BY <1>5 DEF OwnInv, TypeOK, UnusableHit, Enter, Mine, Holding
  <2>4. \A h \in Stmts : prep'[h] = IF h \in {index[q]} THEN None ELSE prep[h]
    BY <1>5, DestroyedIsNone DEF UnusableHit
  <2>5. SingleOwner'
    <3>1. HandsOver(t)
      BY <1>1, <2>1, <2>3, <2>4, MineAreStmts, CachedAreStmts DEF HandsOver
    <3>2. QED  BY <3>1, Transfer
  <2>6. QED  BY <2>1, <2>2, <2>5, CacheGivesList DEF OwnInv
<1>6. QED
  BY <1>3, <1>4, <1>5

\* A new statement belongs to the call that prepared it.
LEMMA PrepareStep ==
  ASSUME OwnInv, NEW t \in Threads, Prepare(t)
  PROVE  OwnInv'
<1>1. Cache(lru', index') /\ WithinCapacity' /\ CachedStmts' = CachedStmts
  BY CacheUnchanged DEF Prepare
<1>2. PICK h \in Stmts :
        /\ prep[h] = None
        /\ prep' = [prep EXCEPT ![h] = [sql |-> call[t].query, plan |-> Now, bound |-> None]]
        /\ call' = [call EXCEPT ![t].stmt = h]
  BY DEF Prepare
<1>3. call[t] \in Call /\ pc[t] = "prepare"
  BY DEF OwnInv, TypeOK, Prepare
<1>4. [sql |-> call[t].query, plan |-> Now, bound |-> None] \in Prepared
  BY <1>3 DEF OwnInv, TypeOK, Prepared, Call, Now, World, Bindings
<1>5. /\ prep' \in [Stmts -> Prepared \cup {None}] /\ prep'[h] # None
      /\ \A g \in Stmts : g # h => prep'[g] = prep[g]
  <2> DEFINE r == [sql |-> call[t].query, plan |-> Now, bound |-> None]
  <2>1. prep' = [prep EXCEPT ![h] = r] /\ r \in Prepared
    BY <1>2, <1>4
  <2> HIDE DEF r
  <2>2. QED  BY <2>1, NoneIsNoValue DEF OwnInv, TypeOK
<1>6. /\ call' \in [Threads -> Call \cup {None}]
      /\ call'[t] \in Call /\ call'[t].stmt = h
      /\ \A u \in Threads : u # t => call'[u] = call[u]
  BY <1>2, <1>3 DEF OwnInv, TypeOK, Call
<1>7. /\ pc' \in [Threads -> {"idle", "prepare", "sink", "fault"} \cup Holding]
      /\ pc'[t] = "bind"
      /\ \A u \in Threads : u # t => pc'[u] = pc[u]
  BY DEF OwnInv, TypeOK, Prepare, Holding
<1>8. TypeOK' /\ NothingHeldYet'
  <2>1. UNCHANGED <<status, result, settings, source, profile>>
    BY DEF Prepare, worldVars
  <2>2. TypeOK'
    BY <2>1, <1>1, <1>5, <1>6, <1>7, CacheGivesList DEF OwnInv, TypeOK, Holding
  <2>3. NothingHeldYet'
    BY <1>6, <1>7 DEF OwnInv, NothingHeldYet
  <2>4. QED  BY <2>2, <2>3
<1>9. Mine(t) = {} /\ Mine(t)' = {h}
  BY <1>3, <1>6, <1>7 DEF Mine, Holding
<1>10. SingleOwner'
  <2>1. CachedStmts \subseteq Stmts /\ \A g \in CachedStmts : prep[g] # None
    BY MineAreStmts, CachedAreStmts
  <2>2. h \notin CachedStmts
    BY <2>1, <1>2
  <2>3. HandsOver(t)
    BY <2>1, <2>2, <1>1, <1>2, <1>5, <1>6, <1>7, <1>9 DEF HandsOver
  <2>4. QED  BY <2>3, Transfer
<1>11. QED
  BY <1>1, <1>8, <1>10, CacheGivesList DEF OwnInv

\* Binding touches the call's own statement.
LEMMA BindStep ==
  ASSUME OwnInv, NEW t \in Threads, Bind(t)
  PROVE  OwnInv'
<1>1. Cache(lru', index') /\ WithinCapacity' /\ CachedStmts' = CachedStmts
  BY CacheUnchanged DEF Bind
<1> DEFINE h == call[t].stmt
<1>2. /\ pc[t] = "bind" /\ call[t] \in Call /\ call' = call
      /\ h \in Stmts /\ prep[h] # None /\ prep[h] \in Prepared
  BY DEF OwnInv, TypeOK, SingleOwner, Bind, Holding
<1>3. /\ prep' \in [Stmts -> Prepared \cup {None}] /\ prep'[h] # None
      /\ \A g \in Stmts : g # h => prep'[g] = prep[g]
  <2>1. CASE call[t].params = None
    BY <2>1, <1>2 DEF Bind, OwnInv, TypeOK
  <2>2. CASE call[t].params # None
    <3> DEFINE r == [prep[h] EXCEPT !.bound = call[t].params]
    <3>1. r \in Prepared
      BY <1>2 DEF Prepared, Call
    <3>2. prep' = [prep EXCEPT ![h] = r]
      BY <2>2 DEF Bind
    <3> HIDE DEF r
    <3>3. QED  BY <3>1, <3>2, <1>2, NoneIsNoValue DEF OwnInv, TypeOK
  <2>3. QED  BY <2>1, <2>2
<1> HIDE DEF h
<1>4. /\ pc' \in [Threads -> {"idle", "prepare", "sink", "fault"} \cup Holding]
      /\ pc'[t] = "run"
      /\ \A u \in Threads : u # t => pc'[u] = pc[u]
  BY DEF OwnInv, TypeOK, Bind, Holding
<1>5. TypeOK' /\ NothingHeldYet'
  <2>1. UNCHANGED <<status, call, result, settings, source, profile>>
    BY DEF Bind, worldVars
  <2>2. TypeOK'
    BY <2>1, <1>1, <1>2, <1>3, <1>4, CacheGivesList DEF OwnInv, TypeOK, Holding
  <2>3. NothingHeldYet'
    BY <2>1, <1>4 DEF OwnInv, NothingHeldYet
  <2>4. QED  BY <2>2, <2>3
<1>6. Mine(t) = {h} /\ Mine(t)' = {h}
  BY <1>2, <1>4 DEF Mine, Holding, h
<1>7. SingleOwner'
  <2>1. HandsOver(t)
    BY <1>1, <1>2, <1>3, <1>4, <1>6, MineAreStmts, CachedAreStmts DEF HandsOver
  <2>2. QED  BY <2>1, Transfer
<1>8. QED
  BY <1>1, <1>5, <1>7, CacheGivesList DEF OwnInv

\* Execution moves no statement.
LEMMA ExecuteStep ==
  ASSUME OwnInv, NEW t \in Threads, Execute(t)
  PROVE  OwnInv'
<1>1. Cache(lru', index') /\ WithinCapacity' /\ CachedStmts' = CachedStmts
  BY CacheUnchanged DEF Execute
<1>2. /\ pc[t] = "run" /\ call[t] \in Call /\ call' = call /\ prep' = prep
      /\ prep[call[t].stmt] \in Prepared
  BY DEF OwnInv, TypeOK, SingleOwner, Execute, Holding
<1>3. /\ pc' \in [Threads -> {"idle", "prepare", "sink", "fault"} \cup Holding]
      /\ pc'[t] = "ran"
      /\ \A u \in Threads : u # t => pc'[u] = pc[u]
  BY DEF OwnInv, TypeOK, Execute, Holding
<1>4. settings' \in SUBSET Options
  BY DEF OwnInv, TypeOK, Execute
<1>5. TypeOK' /\ NothingHeldYet'
  <2>1. /\ UNCHANGED <<status, prep, call, source, profile>>
        /\ result' = [result EXCEPT ![t] = prep[call[t].stmt]]
    BY DEF Execute
  <2>2. TypeOK'
    BY <2>1, <1>1, <1>2, <1>3, <1>4, CacheGivesList DEF OwnInv, TypeOK, Holding
  <2>3. NothingHeldYet'
    BY <2>1, <1>3 DEF OwnInv, NothingHeldYet
  <2>4. QED  BY <2>2, <2>3
<1>6. Mine(t)' = Mine(t)
  BY <1>2, <1>3 DEF Mine, Holding
<1>7. SingleOwner'
  <2>1. HandsOver(t)
    BY <1>1, <1>2, <1>3, <1>6, MineAreStmts, CachedAreStmts DEF HandsOver
  <2>2. QED  BY <2>1, Transfer
<1>8. QED
  BY <1>1, <1>5, <1>7, CacheGivesList DEF OwnInv

ThreadTypes ==
  /\ pc \in [Threads -> {"idle", "prepare", "sink", "fault"} \cup Holding]
  /\ call \in [Threads -> Call \cup {None}]
  /\ \A t \in Threads : pc[t] # "idle" => call[t] \in Call
  /\ result \in [Threads -> Prepared \cup {None}]
  /\ profile \in [sink : BOOLEAN, sample : Nat \ {0}, count : Nat]

\* The end of run(): the call lets its statement go.
LEMMA EmitStep ==
  ASSUME OwnInv, NEW t \in Threads, pc[t] = "ran", Emit(t)
  PROVE  /\ ThreadTypes'
         /\ NothingHeldYet'
         /\ Mine(t) = {call[t].stmt} /\ Mine(t)' = {}
         /\ call[t] \in Call /\ call[t].stmt \in Stmts \ CachedStmts
         /\ \A u \in Threads : u # t => pc'[u] = pc[u] /\ call'[u] = call[u]
<1> DEFINE counts == profile.sink /\ ~call[t].streaming
           fires  == counts /\ profile.count = 0
           next   == IF ~fires THEN "idle" ELSE IF status = "open" THEN "sink" ELSE "fault"
           after  == IF fires THEN [call[t] EXCEPT !.stmt = None] ELSE None
<1>1. /\ call[t] \in Call /\ call[t].stmt \in Stmts \ CachedStmts
      /\ Mine(t) = {call[t].stmt}
  BY DEF OwnInv, TypeOK, SingleOwner, Holding, Mine
<1>2. /\ profile' = IF counts THEN [profile EXCEPT !.count = (@ + 1) % profile.sample]
                    ELSE profile
      /\ pc' = [pc EXCEPT ![t] = next]
      /\ call' = [call EXCEPT ![t] = after]
      /\ result' = IF fires THEN result ELSE [result EXCEPT ![t] = None]
  <2>1. call' = [call EXCEPT ![t] = after]
    BY DEF Emit
  <2>2. QED  BY <2>1 DEF Emit
<1>3. profile' \in [sink : BOOLEAN, sample : Nat \ {0}, count : Nat]
  <2>1. profile \in [sink : BOOLEAN, sample : Nat \ {0}, count : Nat]
    BY DEF OwnInv, TypeOK
  <2>2. profile.sample \in Nat \ {0} /\ profile.count + 1 \in Nat
    BY <2>1
  <2>3. (profile.count + 1) % profile.sample \in Nat
    BY <2>2
  <2>4. QED  BY <2>1, <2>3, <1>2
<1>4. /\ next \in {"idle", "sink", "fault"}
      /\ next # "idle" => fires
  OBVIOUS
<1>5. after \in Call \cup {None} /\ (fires => after \in Call)
  <2>1. [call[t] EXCEPT !.stmt = None] \in Call
    BY <1>1 DEF Call
  <2>2. QED  BY <2>1
<1> HIDE DEF after, next, fires, counts
<1>6. /\ pc' \in [Threads -> {"idle", "prepare", "sink", "fault"} \cup Holding]
      /\ pc'[t] = next
      /\ call' \in [Threads -> Call \cup {None}]
      /\ call'[t] = after
      /\ \A u \in Threads : u # t => pc'[u] = pc[u] /\ call'[u] = call[u]
  BY <1>2, <1>4, <1>5 DEF OwnInv, TypeOK, Holding
<1>7. ThreadTypes'
  <2>1. \A u \in Threads : pc'[u] # "idle" => call'[u] \in Call
    BY <1>4, <1>5, <1>6 DEF OwnInv, TypeOK
  <2>2. result' \in [Threads -> Prepared \cup {None}]
    BY <1>2 DEF OwnInv, TypeOK
  <2>3. QED  BY <2>1, <2>2, <1>3, <1>6 DEF ThreadTypes, Holding
<1>8. NothingHeldYet'
  BY <1>4, <1>6 DEF OwnInv, NothingHeldYet
<1>9. Mine(t)' = {}
  BY <1>4, <1>6 DEF Mine, Holding
<1>10. QED
  BY <1>1, <1>6, <1>7, <1>8, <1>9

\* The types, from the parts that different lemmas speak of.
LEMMA TypesFromParts ==
  ASSUME Cache(lru', index'), ThreadTypes', prep' \in [Stmts -> Prepared \cup {None}],
         status' \in {"open", "closed", "gone"}, settings' \in SUBSET Options,
         source' \in Sources \cup {None}
  PROVE  TypeOK'
BY CacheGivesList DEF ThreadTypes, TypeOK

\* Destroying handles keeps prep's type.
LEMMA DestroyedTyped ==
  ASSUME OwnInv, NEW S
  PROVE  Destroyed(S) \in [Stmts -> Prepared \cup {None}]
BY DEF OwnInv, TypeOK, Destroyed

\* The return of a cached statement: from the call to the list.
LEMMA CheckInStep ==
  ASSUME OwnInv, NEW t \in Threads, CheckIn(t)
  PROVE  OwnInv'
<1> DEFINE h == call[t].stmt
<1>1. /\ ThreadTypes' /\ NothingHeldYet'
      /\ Mine(t) = {h} /\ Mine(t)' = {}
      /\ h \in Stmts \ CachedStmts /\ call[t].query \in Queries
      /\ \A u \in Threads : u # t => pc'[u] = pc[u] /\ call'[u] = call[u]
  BY EmitStep DEF CheckIn, Call
<1>2. stmt_cache_checkin(call[t].query, h)
  BY DEF CheckIn
<1> HIDE DEF h
<1>3. Cache(lru', index') /\ WithinCapacity'
  BY <1>1, <1>2, CheckinStep
<1>4. PICK D \in SUBSET CachedStmts : /\ CachedStmts' = (CachedStmts \cup {h}) \ D
                                      /\ prep' = Destroyed(D)
  BY <1>1, <1>2, CheckinStep
<1>5. TypeOK'
  <2>1. UNCHANGED <<status, settings, source>>
    BY DEF CheckIn, worldVars
  <2>2. prep' \in [Stmts -> Prepared \cup {None}]
    BY <1>4, DestroyedTyped
  <2>3. status' \in {"open", "closed", "gone"} /\ settings' \in SUBSET Options
        /\ source' \in Sources \cup {None}
    BY <2>1 DEF OwnInv, TypeOK
  <2>4. QED  BY <2>2, <2>3, <1>1, <1>3, TypesFromParts
<1>6. SingleOwner'
  <2>1. \A g \in Stmts : prep'[g] = IF g \in D THEN None ELSE prep[g]
    BY <1>4, DestroyedIsNone
  <2>2. /\ CachedStmts \subseteq Stmts
        /\ \A g \in CachedStmts \cup {h} : prep[g] # None
    BY <1>1, MineAreStmts, CachedAreStmts
  <2>3. HandsOver(t)
    BY <2>1, <2>2, <1>1, <1>4 DEF HandsOver
  <2>4. QED  BY <2>3, Transfer
<1>7. QED
  BY <1>1, <1>3, <1>5, <1>6, CacheGivesList DEF OwnInv

\* The return of a statement that flushes: it and all cached ones are destroyed.
LEMMA FlushStep ==
  ASSUME OwnInv, NEW t \in Threads, Flush(t)
  PROVE  OwnInv'
<1> DEFINE h == call[t].stmt
<1>1. /\ ThreadTypes' /\ NothingHeldYet'
      /\ Mine(t) = {h} /\ Mine(t)' = {}
      /\ \A u \in Threads : u # t => pc'[u] = pc[u] /\ call'[u] = call[u]
  BY EmitStep DEF Flush
<1>2. stmt_cache_clear({h})
  BY DEF Flush
<1> HIDE DEF h
<1>3. Cache(lru', index') /\ WithinCapacity' /\ CachedStmts' = {}
  BY <1>2, ClearStep
<1>4. prep' = Destroyed(CachedStmts \cup {h})
  BY <1>2 DEF stmt_cache_clear
<1>5. TypeOK'
  <2>1. UNCHANGED <<status, settings, source>>
    BY DEF Flush, worldVars
  <2>2. prep' \in [Stmts -> Prepared \cup {None}]
    BY <1>4, DestroyedTyped
  <2>3. status' \in {"open", "closed", "gone"} /\ settings' \in SUBSET Options
        /\ source' \in Sources \cup {None}
    BY <2>1 DEF OwnInv, TypeOK
  <2>4. QED  BY <2>2, <2>3, <1>1, <1>3, TypesFromParts
<1>6. SingleOwner'
  <2>1. \A g \in Stmts : prep'[g] = IF g \in CachedStmts \cup {h} THEN None ELSE prep[g]
    BY <1>4, DestroyedIsNone
  <2>2. HandsOver(t)
    BY <2>1, <1>1, <1>3 DEF HandsOver
  <2>3. QED  BY <2>2, Transfer
<1>7. QED
  BY <1>1, <1>3, <1>5, <1>6, CacheGivesList DEF OwnInv

\* The cache and the statements stay, and no thread starts or stops holding one.
LEMMA SameOwners ==
  ASSUME OwnInv, UNCHANGED <<cacheVars, prep>>,
         \A t \in Threads : pc[t] \in Holding \/ pc'[t] \in Holding =>
                             pc'[t] = pc[t] /\ call'[t] = call[t]
  PROVE  SingleOwner'
<1>1. CachedStmts' = CachedStmts /\ prep' = prep
  BY CacheUnchanged
<1>2. QED  BY <1>1 DEF OwnInv, SingleOwner, Holding

\* The profile sink returns: the call ends, holding nothing.
LEMMA SinkReturnsStep ==
  ASSUME OwnInv, NEW t \in Threads, SinkReturns(t)
  PROVE  OwnInv'
<1>1. Cache(lru', index') /\ WithinCapacity'
  BY CacheUnchanged DEF SinkReturns
<1>2. TypeOK' /\ NothingHeldYet'
  BY <1>1, CacheGivesList
  DEF OwnInv, TypeOK, NothingHeldYet, SinkReturns, worldVars, Holding
<1>3. SingleOwner'
  <2>1. ASSUME NEW u \in Threads, pc[u] \in Holding \/ pc'[u] \in Holding
        PROVE  pc'[u] = pc[u] /\ call'[u] = call[u]
    BY <2>1 DEF OwnInv, TypeOK, SinkReturns, Holding
  <2>2. UNCHANGED <<cacheVars, prep>>
    BY DEF SinkReturns
  <2>3. QED  BY <2>1, <2>2, SameOwners
<1>4. QED
  BY <1>1, <1>2, <1>3, CacheGivesList DEF OwnInv

\* stmt_cache_clear by a method that is not run(): what the calls hold stays theirs.
LEMMA ClearKeepsOwners ==
  ASSUME OwnInv, stmt_cache_clear({}), UNCHANGED threadVars
  PROVE  SingleOwner' /\ NothingHeldYet' /\ prep' \in [Stmts -> Prepared \cup {None}]
<1>1. CachedStmts' = {}
  BY ClearStep
<1>2. /\ prep' = Destroyed(CachedStmts)
      /\ \A h \in Stmts : prep'[h] = IF h \in CachedStmts THEN None ELSE prep[h]
  BY DEF stmt_cache_clear, Destroyed
<1>3. pc' = pc /\ call' = call
  BY DEF threadVars
<1>4. prep' \in [Stmts -> Prepared \cup {None}]
  BY <1>2, DestroyedTyped
<1>5. SingleOwner'
  BY <1>1, <1>2, <1>3 DEF OwnInv, SingleOwner, Holding
<1>6. QED
  BY <1>3, <1>4, <1>5 DEF OwnInv, NothingHeldYet

\* register_arrow, close and the destructor keep the invariant.
LEMMA ClearingMethod ==
  ASSUME OwnInv, stmt_cache_clear({}), UNCHANGED <<threadVars, settings, profile>>,
         status' \in {"open", "closed", "gone"}, source' \in Sources \cup {None}
  PROVE  OwnInv'
<1>1. Cache(lru', index') /\ WithinCapacity'
  BY ClearStep
<1>2. SingleOwner' /\ NothingHeldYet' /\ prep' \in [Stmts -> Prepared \cup {None}]
  BY ClearKeepsOwners
<1>3. ThreadTypes' /\ settings' \in SUBSET Options
  BY DEF OwnInv, TypeOK, ThreadTypes, threadVars, Holding
<1>4. TypeOK'
  BY <1>1, <1>2, <1>3, TypesFromParts
<1>5. QED
  BY <1>1, <1>2, <1>4, CacheGivesList DEF OwnInv

\* So do the methods that touch only settings and the profile sink.
LEMMA SinkMethod ==
  ASSUME OwnInv, UNCHANGED <<status, cacheVars, prep, threadVars, source>>,
         settings' \in SUBSET Options,
         profile' \in [sink : BOOLEAN, sample : Nat \ {0}, count : Nat]
  PROVE  OwnInv'
<1>1. Cache(lru', index') /\ WithinCapacity'
  BY CacheUnchanged
<1>2. TypeOK' /\ NothingHeldYet'
  BY <1>1, CacheGivesList DEF OwnInv, TypeOK, NothingHeldYet, threadVars, Holding
<1>3. SingleOwner'
  BY SameOwners DEF threadVars
<1>4. QED
  BY <1>1, <1>2, <1>3, CacheGivesList DEF OwnInv

\* The invariant holds of a new Connection.
LEMMA OwnInit == Init => OwnInv
<1> SUFFICES ASSUME Init
             PROVE  OwnInv
  OBVIOUS
<1>1. Len(lru) = 0 /\ DOMAIN lru = {} /\ lru \in Seq([query : Queries, stmt : Stmts])
  BY DEF Init
<1>2. TypeOK
  BY <1>1 DEF Init, TypeOK, NoSink, Holding
<1>3. IndexMatchesList /\ WithinCapacity
  BY <1>1, CapacityIsPositive DEF Init, IndexMatchesList, Matches, WithinCapacity
<1>4. SingleOwner /\ NothingHeldYet
  BY <1>1 DEF Init, SingleOwner, NothingHeldYet, CachedStmts, StmtsOf, Holding
<1>5. QED
  BY <1>2, <1>3, <1>4 DEF OwnInv

\* Every method, and every step of run(), keeps it.
LEMMA OwnStep == OwnInv /\ [Next]_vars => OwnInv'
<1> SUFFICES ASSUME OwnInv, [Next]_vars
             PROVE  OwnInv'
  OBVIOUS
<1>1. ASSUME NEW t \in Threads, Run(t)
      PROVE  OwnInv'
  <2>1. ASSUME NEW q \in Queries, NEW p \in Bindings, NEW s \in BOOLEAN,
               Miss(t, q, p, s) \/ Hit(t, q, p, s) \/ UnusableHit(t, q, p, s)
        PROVE  OwnInv'
    BY <2>1, EnterStep
  <2>2. CASE PrepareFails(t) \/ BindFails(t) \/ ExecuteFails(t) \/ Interrupted(t)
    BY <2>2, ThrowStep DEF PrepareFails, BindFails, ExecuteFails, Interrupted, Holding
  <2>3. QED
    BY <1>1, <2>1, <2>2, PrepareStep, BindStep, ExecuteStep, CheckInStep, FlushStep,
       SinkReturnsStep DEF Run
<1>2. ASSUME NEW obj \in Sources, register_arrow(obj)
      PROVE  OwnInv'
  BY <1>2, ClearingMethod DEF register_arrow, OwnInv, TypeOK, threadVars
<1>3. ASSUME NEW mode \in Modes, NEW n \in Samples, set_profile_sink(mode, n)
      PROVE  OwnInv'
  BY <1>3, SinkMethod, SamplesArePositive
  DEF set_profile_sink, ProfilingOptions, OwnInv, TypeOK
<1>4. ASSUME NEW mode \in Modes, SinkSetupFails(mode)
      PROVE  OwnInv'
  BY <1>4, SinkMethod
  DEF SinkSetupFails, ProfilingOptions, OwnInv, TypeOK
<1>5. CASE DetachSink
  BY <1>5, SinkMethod DEF DetachSink, NoSink, worldVars, OwnInv, TypeOK
<1>6. CASE close \/ Destruct
  BY <1>6, ClearingMethod DEF close, Destruct, worldVars, threadVars, OwnInv, TypeOK
<1>7. CASE UNCHANGED vars
  <2>1. UNCHANGED <<status, cacheVars, prep, threadVars, source>>
        /\ UNCHANGED <<settings, profile>>
    BY <1>7 DEF vars, cacheVars, threadVars
  <2>2. QED  BY <2>1, SinkMethod DEF OwnInv, TypeOK
<1>8. CASE RunsElsewhere
  BY <1>8, SinkMethod, ElsewhereAreOptions DEF RunsElsewhere, OwnInv, TypeOK
<1>9. QED
  BY <1>1, <1>2, <1>3, <1>4, <1>5, <1>6, <1>7, <1>8 DEF Next, Stopped

(* run() and every other method keep the cache a cache, whatever the number of    *)
(* threads and queries and wherever a call fails.                                *)
THEOREM OwnershipTheorem == Spec => []OwnInv
<1>1. QED
  BY OwnInit, OwnStep, PTL DEF Spec

(* Every variable of run() and of its cache keeps its type. *)
THEOREM TypeTheorem == Spec => []TypeOK
<1>1. OwnInv => TypeOK
  BY DEF OwnInv
<1>2. QED
  BY <1>1, OwnershipTheorem, PTL

(* stmt_cache_ and stmt_lru_ describe the same entries after every method: an   *)
(* iterator of the map never dangles and no list node is unreachable.           *)
THEOREM IndexTheorem == Spec => []IndexMatchesList
<1>1. OwnInv => IndexMatchesList
  BY DEF OwnInv
<1>2. QED
  BY <1>1, OwnershipTheorem, PTL

(* stmt_cache_checkin's single eviction is enough to bound the list. *)
THEOREM CapacityTheorem == Spec => []WithinCapacity
<1>1. OwnInv => WithinCapacity
  BY DEF OwnInv
<1>2. QED
  BY <1>1, OwnershipTheorem, PTL

(* A prepared statement is in the cache or in one call of run(), never in two   *)
(* places and never in none, on every path out of run().                        *)
THEOREM SingleOwnerTheorem == Spec => []SingleOwner
<1>1. OwnInv => SingleOwner
  BY DEF OwnInv
<1>2. QED
  BY <1>1, OwnershipTheorem, PTL

-----------------------------------------------------------------------------
(* What run() answers: every call its own query under its own parameters,  *)
(* with a plan of its own or one that was kept since the last flush.  It   *)
(* rests on the ownership above: no step of one thread touches a statement *)
(* of another call or of the cache but the one it takes or destroys.       *)


\* The statements' queries and bindings: a cached statement is for its query, one that a
\* call holds is for that call's, unbound until bind() and then bound as the call asked.
AnswerInv ==
  /\ \A q \in Queries : index[q] # None => prep[index[q]].sql = q
  /\ \A t \in Threads :
       /\ pc[t] \in Holding => prep[call[t].stmt].sql = call[t].query
       /\ pc[t] = "bind" => prep[call[t].stmt].bound = None
       /\ pc[t] \in {"run", "ran"} => prep[call[t].stmt].bound = call[t].params
       /\ pc[t] = "ran" => result[t] # None
       /\ result[t] # None =>
            /\ pc[t] \in {"ran", "sink", "fault"}
            /\ result[t].sql = call[t].query /\ result[t].bound = call[t].params

\* A Connection that is destructed has no cache and no call.
GoneInv == status = "gone" => lru = <<>> /\ \A t \in Threads : pc[t] = "idle"

-----------------------------------------------------------------------------
(* What a step leaves alone.                                               *)

\* The step leaves the call of thread u alone, and what it holds.
CallKept(u) ==
  /\ pc'[u] = pc[u] /\ call'[u] = call[u] /\ result'[u] = result[u]
  /\ pc[u] \in Holding => prep'[call[u].stmt] = prep[call[u].stmt]

\* What is cached for q after the step was cached for q before, if anything is.
EntryKept(q) ==
  index'[q] # None => index[q] # None /\ prep'[index'[q]] = prep[index[q]]

\* A statement that one thread holds is alive, not cached and no other thread's.
LEMMA HeldAlone ==
  ASSUME OwnInv, NEW u \in Threads, pc[u] \in Holding
  PROVE  /\ call[u].stmt \in Stmts /\ prep[call[u].stmt] # None
         /\ prep[call[u].stmt] \in Prepared
         /\ \A q \in Queries : index[q] # call[u].stmt
         /\ \A t \in Threads : t # u /\ pc[t] \in Holding => call[t].stmt # call[u].stmt
         /\ \A t \in Threads : pc[t] = "prepare" => call[t].stmt # call[u].stmt
<1>1. call[u].stmt \in Stmts \ CachedStmts /\ prep[call[u].stmt] # None
  BY DEF OwnInv, SingleOwner
<1>2. \A q \in Queries : index[q] # call[u].stmt
  BY <1>1, IteratorPointsAtNode, NoneIsNoValue
<1>3. prep[call[u].stmt] \in Prepared
  BY <1>1 DEF OwnInv, TypeOK
<1>4. \A t \in Threads : pc[t] = "prepare" => call[t].stmt # call[u].stmt
  BY <1>1, NoneIsNoValue DEF OwnInv, NothingHeldYet
<1>5. QED
  BY <1>1, <1>2, <1>3, <1>4 DEF OwnInv, SingleOwner

\* A statement that is cached is alive, and is cached for one query.
LEMMA CachedAlone ==
  ASSUME OwnInv, NEW q \in Queries, index[q] # None
  PROVE  /\ index[q] \in Stmts /\ index[q] \in CachedStmts
         /\ prep[index[q]] # None /\ prep[index[q]] \in Prepared
         /\ \A p \in Queries : p # q => index[p] # index[q]
<1>1. index[q] \in CachedStmts /\ index[q] \in Stmts
  BY IteratorPointsAtNode, CachedAreStmts
<1>2. prep[index[q]] # None /\ prep[index[q]] \in Prepared
  BY <1>1 DEF OwnInv, SingleOwner, TypeOK
<1>3. ASSUME NEW p \in Queries, index[p] = index[q]
      PROVE  p = q
  <2>1. /\ lru[NodeOf(q)].query = q /\ lru[NodeOf(p)].query = p
    BY <1>3, IteratorPointsAtNode
  <2>2. NodeOf(q) = NodeOf(p)
    BY <1>3 DEF NodeOf
  <2>3. QED
    BY <2>1, <2>2
<1>4. QED
  BY <1>1, <1>2, <1>3

\* A statement that is destroyed in a step is not alive after it.
LEMMA DestroyedOrKept ==
  ASSUME NEW S, prep' = Destroyed(S), NEW h \in Stmts, prep'[h] # None
  PROVE  prep'[h] = prep[h]
BY DestroyedIsNone

\* How a step of run() may change what is behind the handles: by destroying some, or by
\* writing to one that was nobody's, the call's own, or is taken out of the cache.
LEMMA RunWrites ==
  ASSUME OwnInv, NEW t \in Threads, Run(t)
  PROVE  /\ \A u \in Threads : u # t => /\ pc'[u] = pc[u] /\ call'[u] = call[u]
                                        /\ result'[u] = result[u]
         /\ \/ \E S : prep' = Destroyed(S)
            \/ \E h \in Stmts :
                 /\ \A g \in Stmts : g # h => prep'[g] = prep[g]
                 /\ \/ prep[h] = None
                    \/ pc[t] \in Holding /\ h = call[t].stmt
                    \/ \E q \in Queries : h = index[q] /\ index'[q] = None
<1>1. CASE \E q \in Queries, p \in Bindings, s \in BOOLEAN :
             Miss(t, q, p, s) \/ Hit(t, q, p, s) \/ UnusableHit(t, q, p, s)
  <2>1. PICK q \in Queries, p \in Bindings, s \in BOOLEAN :
          Miss(t, q, p, s) \/ Hit(t, q, p, s) \/ UnusableHit(t, q, p, s)
    BY <1>1
  <2>2. \A u \in Threads : u # t => /\ pc'[u] = pc[u] /\ call'[u] = call[u]
                                    /\ result'[u] = result[u]
    BY <2>1 DEF Miss, Hit, UnusableHit, Enter, OwnInv, TypeOK
  <2>3. CASE Miss(t, q, p, s)
    <3>1. prep' = Destroyed({})
      BY <2>3 DEF Miss, Destroyed, OwnInv, TypeOK
    <3>2. QED
      BY <2>2, <3>1
  <2>4. CASE Hit(t, q, p, s)
    <3>1. index[q] \in Stmts /\ index'[q] = None
      BY <2>4, CachedAlone DEF Hit, stmt_cache_checkout, OwnInv, TypeOK
    <3>2. \A g \in Stmts : g # index[q] => prep'[g] = prep[g]
      BY <2>4 DEF Hit, OwnInv, TypeOK
    <3>3. QED
      BY <2>2, <3>1, <3>2
  <2>5. CASE UnusableHit(t, q, p, s)
    BY <2>2, <2>5 DEF UnusableHit
  <2>6. QED
    BY <2>1, <2>3, <2>4, <2>5
<1>2. CASE PrepareFails(t) \/ BindFails(t) \/ ExecuteFails(t) \/ Interrupted(t)
  BY <1>2 DEF PrepareFails, BindFails, ExecuteFails, Interrupted, Throw, OwnInv, TypeOK
<1>3. CASE Prepare(t)
  <2>1. PICK h \in Stmts : prep[h] = None /\ \A g \in Stmts : g # h => prep'[g] = prep[g]
    BY <1>3 DEF Prepare, OwnInv, TypeOK
  <2>2. \A u \in Threads : u # t => /\ pc'[u] = pc[u] /\ call'[u] = call[u]
                                    /\ result'[u] = result[u]
    BY <1>3 DEF Prepare, OwnInv, TypeOK
  <2>3. QED
    BY <2>1, <2>2
<1>4. CASE Bind(t)
  <2>1. pc[t] \in Holding /\ call[t].stmt \in Stmts
    BY <1>4, HeldAlone DEF Bind, Holding
  <2>2. \A g \in Stmts : g # call[t].stmt => prep'[g] = prep[g]
    BY <1>4 DEF Bind, OwnInv, TypeOK
  <2>3. \A u \in Threads : u # t => /\ pc'[u] = pc[u] /\ call'[u] = call[u]
                                    /\ result'[u] = result[u]
    BY <1>4 DEF Bind, OwnInv, TypeOK
  <2>4. QED
    BY <2>1, <2>2, <2>3
<1>5. CASE Execute(t) \/ SinkReturns(t)
  <2>1. prep' = Destroyed({})
    BY <1>5 DEF Execute, SinkReturns, Destroyed, OwnInv, TypeOK
  <2>2. QED
    BY <1>5, <2>1 DEF Execute, SinkReturns, OwnInv, TypeOK
<1>6. CASE CheckIn(t) \/ Flush(t)
  <2>1. \E S : prep' = Destroyed(S)
    BY <1>6 DEF CheckIn, Flush, stmt_cache_checkin, stmt_cache_clear
  <2>2. pc[t] = "ran" /\ Emit(t)
    BY <1>6 DEF CheckIn, Flush
  <2>3. \A u \in Threads : u # t => result'[u] = result[u]
    BY <2>2 DEF Emit, OwnInv, TypeOK
  <2>4. QED
    BY <2>1, <2>2, <2>3, EmitStep
<1>7. QED
  BY <1>1, <1>2, <1>3, <1>4, <1>5, <1>6 DEF Run

\* A step of one thread leaves the others' calls alone.
LEMMA OtherCalls ==
  ASSUME OwnInv, OwnInv', NEW t \in Threads, NEW u \in Threads, u # t, Run(t)
  PROVE  CallKept(u)
<1>1. pc'[u] = pc[u] /\ call'[u] = call[u] /\ result'[u] = result[u]
  BY RunWrites
<1>2. ASSUME pc[u] \in Holding
      PROVE  prep'[call[u].stmt] = prep[call[u].stmt]
  <2>1. call[u].stmt \in Stmts /\ prep[call[u].stmt] # None
    BY <1>2, HeldAlone
  <2>2. prep'[call[u].stmt] # None
    BY <1>1, <1>2 DEF OwnInv, SingleOwner, Holding
  <2>3. CASE \E S : prep' = Destroyed(S)
    BY <2>1, <2>2, <2>3, DestroyedOrKept
  <2>4. ASSUME NEW h \in Stmts, \A g \in Stmts : g # h => prep'[g] = prep[g],
               \/ prep[h] = None
               \/ pc[t] \in Holding /\ h = call[t].stmt
               \/ \E q \in Queries : h = index[q]
        PROVE  prep'[call[u].stmt] = prep[call[u].stmt]
    BY <1>2, <2>1, <2>4, HeldAlone
  <2>5. QED
    BY <2>3, <2>4, RunWrites
<1>3. QED
  BY <1>1, <1>2 DEF CallKept

\* A step of run() caches at most the statement that the call checks in.
LEMMA CacheEntries ==
  ASSUME OwnInv, OwnInv', NEW t \in Threads, Run(t), NEW q \in Queries
  PROVE  \/ EntryKept(q)
         \/ /\ CheckIn(t) /\ q = call[t].query /\ index'[q] = call[t].stmt
            /\ prep'[index'[q]] = prep[call[t].stmt]
<1>1. SUFFICES ASSUME index'[q] # None
               PROVE  \/ index[q] # None /\ prep'[index'[q]] = prep[index[q]]
                      \/ /\ CheckIn(t) /\ q = call[t].query /\ index'[q] = call[t].stmt
                         /\ prep'[index'[q]] = prep[call[t].stmt]
  BY DEF EntryKept
<1>2. index'[q] \in Stmts /\ prep'[index'[q]] # None
  <2>1. index'[q] \in CachedStmts' /\ index'[q] \in Stmts
    <3>1. PICK i \in DOMAIN lru' : lru'[i].query = q
      BY <1>1 DEF OwnInv, IndexMatchesList, Matches
    <3>2. lru'[i].stmt = index'[q]
      BY <3>1 DEF OwnInv, IndexMatchesList, Matches
    <3>3. QED
      BY <1>1, <3>2 DEF OwnInv, TypeOK, CachedStmts, StmtsOf
  <2>2. QED
    BY <2>1 DEF OwnInv, SingleOwner
<1>3. CASE CheckIn(t)
  <2>1. \E S : prep' = Destroyed(S)
    BY <1>3 DEF CheckIn, stmt_cache_checkin
  <2>2. prep'[index'[q]] = prep[index'[q]]
    BY <1>2, <2>1, DestroyedOrKept
  <2>3. /\ q = call[t].query => index'[q] \in {None, call[t].stmt}
        /\ q # call[t].query => index'[q] \in {None, index[q]}
    BY <1>3 DEF CheckIn, stmt_cache_checkin, OwnInv, TypeOK
  <2>4. QED
    BY <1>1, <1>3, <2>2, <2>3
<1>4. CASE ~CheckIn(t)
  <2>1. index'[q] = index[q]
    BY <1>1, <1>4, ZenonT(30)
    DEF Run, Miss, Hit, UnusableHit, Enter, stmt_cache_checkout, Prepare, PrepareFails, Bind,
        BindFails, Execute, ExecuteFails, Interrupted, Flush, stmt_cache_clear, SinkReturns,
        Throw, cacheVars, OwnInv, TypeOK
  <2>2. CASE \E S : prep' = Destroyed(S)
    BY <1>1, <1>2, <2>1, <2>2, DestroyedOrKept
  <2>3. ASSUME NEW h \in Stmts, \A g \in Stmts : g # h => prep'[g] = prep[g],
               \/ prep[h] = None
               \/ pc[t] \in Holding /\ h = call[t].stmt
               \/ \E p \in Queries : h = index[p] /\ index'[p] = None
        PROVE  prep'[index'[q]] = prep[index[q]]
    <3>1. h # index[q]
      BY <1>1, <2>1, <2>3, CachedAlone, HeldAlone
    <3>2. QED
      BY <1>2, <2>1, <2>3, <3>1
  <2>4. QED
    BY <1>1, <2>1, <2>2, <2>3, RunWrites
<1>5. QED
  BY <1>3, <1>4

\* The methods other than run(), and stuttering.
Methods ==
  \/ \E obj \in Sources : register_arrow(obj)
  \/ \E mode \in Modes, n \in Samples : set_profile_sink(mode, n)
  \/ \E mode \in Modes : SinkSetupFails(mode)
  \/ DetachSink \/ RunsElsewhere \/ close \/ Destruct
  \/ UNCHANGED vars

\* What a method other than run() does to the calls and the cache: nothing, but that it may
\* flush the cache.
LEMMA MethodsKeep ==
  ASSUME OwnInv, Methods
  PROVE  (\A u \in Threads : CallKept(u)) /\ (\A q \in Queries : EntryKept(q))
<1>1. CASE stmt_cache_clear({}) /\ UNCHANGED threadVars
  <2>1. pc' = pc /\ call' = call /\ result' = result /\ prep' = Destroyed(CachedStmts)
        /\ \A q \in Queries : index'[q] = None
    BY <1>1 DEF stmt_cache_clear, threadVars
  <2>2. ASSUME NEW u \in Threads, pc[u] \in Holding
        PROVE  prep'[call[u].stmt] = prep[call[u].stmt]
    <3>1. call[u].stmt \in Stmts \ CachedStmts
      BY <2>2 DEF OwnInv, SingleOwner
    <3>2. QED
      BY <2>1, <3>1, DestroyedIsNone
  <2>3. QED
    BY <2>1, <2>2 DEF CallKept, EntryKept
<1>2. CASE UNCHANGED <<cacheVars, prep, threadVars>>
  BY <1>2 DEF CallKept, EntryKept, threadVars, cacheVars
<1>3. QED
  BY <1>1, <1>2
  DEF Methods, register_arrow, set_profile_sink, SinkSetupFails, DetachSink, RunsElsewhere,
      close, Destruct, vars, cacheVars, threadVars

\* Every step is one of run() on a thread or of another method.
LEMMA Steps == [Next]_vars => (\E t \in Threads : Run(t)) \/ Methods
BY DEF Next, Methods, Stopped

-----------------------------------------------------------------------------
(* No parameter leaks.                                                     *)

\* AnswerInv for the call of one thread.
AnswerOf(t) ==
  /\ pc[t] \in Holding => prep[call[t].stmt].sql = call[t].query
  /\ pc[t] = "bind" => prep[call[t].stmt].bound = None
  /\ pc[t] \in {"run", "ran"} => prep[call[t].stmt].bound = call[t].params
  /\ pc[t] = "ran" => result[t] # None
  /\ result[t] # None =>
       /\ pc[t] \in {"ran", "sink", "fault"}
       /\ result[t].sql = call[t].query /\ result[t].bound = call[t].params

\* A step of run() keeps the query and the parameters of its call, and what is bound to the
\* statement it holds is in step with where it is.
LEMMA OwnAnswer ==
  ASSUME OwnInv, OwnInv', AnswerInv, NEW t \in Threads, Run(t)
  PROVE  AnswerOf(t)'
<1>1. AnswerOf(t) /\ \A q \in Queries : index[q] # None => prep[index[q]].sql = q
  BY DEF AnswerInv, AnswerOf
<1>2. ASSUME NEW q \in Queries, NEW p \in Bindings, NEW s \in BOOLEAN,
             Miss(t, q, p, s) \/ UnusableHit(t, q, p, s)
      PROVE  AnswerOf(t)'
  <2>1. pc[t] = "idle" /\ pc'[t] = "prepare" /\ result'[t] = result[t]
    BY <1>2 DEF Miss, UnusableHit, Enter, OwnInv, TypeOK
  <2>2. QED
    BY <1>1, <2>1 DEF AnswerOf, Holding
<1>3. ASSUME NEW q \in Queries, NEW p \in Bindings, NEW s \in BOOLEAN, Hit(t, q, p, s)
      PROVE  AnswerOf(t)'
  <2>1. /\ pc[t] = "idle" /\ pc'[t] = "bind" /\ result'[t] = result[t]
        /\ call'[t] = [query |-> q, params |-> p, streaming |-> s, stmt |-> index[q]]
    BY <1>3 DEF Hit, Enter, OwnInv, TypeOK
  <2>2. /\ index[q] # None /\ index[q] \in Stmts /\ prep[index[q]] \in Prepared
        /\ prep[index[q]].sql = q
    BY <1>1, <1>3, CachedAlone DEF Hit
  <2>3. prep'[index[q]] = [prep[index[q]] EXCEPT !.bound = None]
    BY <1>3, <2>2 DEF Hit, OwnInv, TypeOK
  <2>4. prep'[index[q]].sql = q /\ prep'[index[q]].bound = None
    BY <2>2, <2>3 DEF Prepared
  <2>5. QED
    BY <1>1, <2>1, <2>4 DEF AnswerOf
<1>4. CASE Prepare(t)
  <2>1. PICK h \in Stmts :
          /\ prep' = [prep EXCEPT ![h] = [sql |-> call[t].query, plan |-> Now, bound |-> None]]
          /\ call' = [call EXCEPT ![t].stmt = h]
    BY <1>4 DEF Prepare
  <2>2. pc[t] = "prepare" /\ pc'[t] = "bind" /\ result' = result /\ call[t] \in Call
    BY <1>4 DEF Prepare, OwnInv, TypeOK
  <2>3. prep'[h] = [sql |-> call[t].query, plan |-> Now, bound |-> None]
    BY <2>1 DEF OwnInv, TypeOK
  <2>4. call'[t].stmt = h /\ call'[t].query = call[t].query
    BY <2>1, <2>2 DEF OwnInv, TypeOK, Call
  <2>5. QED
    BY <1>1, <2>2, <2>3, <2>4 DEF AnswerOf
<1>5. CASE Bind(t)
  <2>1. /\ pc[t] = "bind" /\ pc'[t] = "run" /\ call' = call /\ result' = result
        /\ call[t].stmt \in Stmts /\ prep[call[t].stmt] \in Prepared
    BY <1>5, HeldAlone DEF Bind, Holding, OwnInv, TypeOK
  <2>2. /\ prep'[call[t].stmt].sql = prep[call[t].stmt].sql
        /\ prep'[call[t].stmt].bound = call[t].params
    <3>1. CASE call[t].params = None
      BY <1>1, <1>5, <2>1, <3>1 DEF Bind, AnswerOf
    <3>2. CASE call[t].params # None
      <4>1. prep'[call[t].stmt] = [prep[call[t].stmt] EXCEPT !.bound = call[t].params]
        BY <1>5, <2>1, <3>2 DEF Bind, OwnInv, TypeOK
      <4>2. QED
        BY <2>1, <4>1 DEF Prepared
    <3>3. QED
      BY <3>1, <3>2
  <2>3. QED
    BY <1>1, <2>1, <2>2 DEF AnswerOf, Holding
<1>6. CASE Execute(t)
  <2>1. /\ pc[t] = "run" /\ pc'[t] = "ran" /\ call' = call /\ prep' = prep
        /\ result'[t] = prep[call[t].stmt] /\ prep[call[t].stmt] # None
    BY <1>6, HeldAlone DEF Execute, Holding, OwnInv, TypeOK
  <2>2. QED
    BY <1>1, <2>1 DEF AnswerOf, Holding
<1>7. CASE PrepareFails(t) \/ BindFails(t) \/ ExecuteFails(t) \/ Interrupted(t) \/ SinkReturns(t)
  <2>1. pc'[t] = "idle" /\ result'[t] = None
    BY <1>7
    DEF PrepareFails, BindFails, ExecuteFails, Interrupted, SinkReturns, Throw, OwnInv, TypeOK
  <2>2. QED
    BY <2>1 DEF AnswerOf, Holding
<1>8. CASE CheckIn(t) \/ Flush(t)
  <2>1. pc[t] = "ran" /\ Emit(t) /\ call[t] \in Call
    BY <1>8 DEF CheckIn, Flush, OwnInv, TypeOK
  <2>2. \/ /\ pc'[t] \in {"sink", "fault"} /\ result'[t] = result[t]
           /\ call'[t] = [call[t] EXCEPT !.stmt = None]
        \/ pc'[t] = "idle" /\ result'[t] = None
    BY <2>1 DEF Emit, OwnInv, TypeOK
  <2>3. [call[t] EXCEPT !.stmt = None].query = call[t].query
        /\ [call[t] EXCEPT !.stmt = None].params = call[t].params
    BY <2>1 DEF Call
  <2>4. QED
    BY <1>1, <2>1, <2>2, <2>3 DEF AnswerOf, Holding
<1>9. QED
  BY <1>2, <1>3, <1>4, <1>5, <1>6, <1>7, <1>8 DEF Run

\* Every step keeps every call's query and parameters with its statement and its answer.
LEMMA AnswerStep == OwnInv /\ OwnInv' /\ AnswerInv /\ [Next]_vars => AnswerInv'
<1> SUFFICES ASSUME OwnInv, OwnInv', AnswerInv, [Next]_vars
             PROVE  AnswerInv'
  OBVIOUS
<1>1. ASSUME NEW u \in Threads, CallKept(u)
      PROVE  AnswerOf(u)'
  BY <1>1 DEF CallKept, AnswerInv, AnswerOf, Holding
<1>2. ASSUME NEW q \in Queries, EntryKept(q), index'[q] # None
      PROVE  prep'[index'[q]].sql = q
  BY <1>2 DEF EntryKept, AnswerInv
<1>3. CASE Methods
  BY <1>1, <1>2, <1>3, MethodsKeep DEF AnswerInv, AnswerOf
<1>4. ASSUME NEW t \in Threads, Run(t)
      PROVE  AnswerInv'
  <2>1. \A u \in Threads : AnswerOf(u)'
    BY <1>1, <1>4, OwnAnswer, OtherCalls
  <2>2. ASSUME NEW q \in Queries, index'[q] # None
        PROVE  prep'[index'[q]].sql = q
    <3>1. CASE EntryKept(q)
      BY <1>2, <2>2, <3>1
    <3>2. CASE /\ CheckIn(t) /\ q = call[t].query
               /\ prep'[index'[q]] = prep[call[t].stmt]
      BY <1>4, <3>2 DEF CheckIn, AnswerInv, Holding
    <3>3. QED
      BY <1>4, <3>1, <3>2, CacheEntries
  <2>3. QED
    BY <2>1, <2>2 DEF AnswerInv, AnswerOf
<1>5. QED
  BY <1>3, <1>4, Steps

\* Queries, parameters and answers stay together on every path through run().
LEMMA AnswerHolds == Spec => []AnswerInv
<1>1. Init => AnswerInv
  BY DEF Init, AnswerInv, Holding
<1>2. QED
  BY <1>1, AnswerStep, OwnershipTheorem, PTL DEF Spec

\* What DuckDB runs for a call is the call's query under exactly its parameters: the
\* bindings of an earlier call with the same statement are never run again.
THEOREM NoParameterLeakTheorem == Spec => []NoParameterLeak
<1>1. AnswerInv => NoParameterLeak
  BY DEF AnswerInv, NoParameterLeak
<1>2. QED
  BY <1>1, AnswerHolds, PTL

-----------------------------------------------------------------------------
(* Nothing is left behind.                                                 *)

\* The destructor finds no call, and no call begins after it.
LEMMA GoneStep == OwnInv /\ GoneInv /\ [Next]_vars => GoneInv'
<1> SUFFICES ASSUME OwnInv, GoneInv, [Next]_vars, status' = "gone"
             PROVE  lru' = <<>> /\ \A t \in Threads : pc'[t] = "idle"
  BY DEF GoneInv
<1>1. ASSUME NEW t \in Threads, Run(t)
      PROVE  FALSE
  <2>1. CASE \E q \in Queries, p \in Bindings, s \in BOOLEAN :
               Miss(t, q, p, s) \/ Hit(t, q, p, s) \/ UnusableHit(t, q, p, s)
    BY <2>1 DEF Miss, Hit, UnusableHit, Enter
  <2>2. CASE ~\E q \in Queries, p \in Bindings, s \in BOOLEAN :
               Miss(t, q, p, s) \/ Hit(t, q, p, s) \/ UnusableHit(t, q, p, s)
    <3>1. status' = status /\ pc[t] # "idle"
      <4>1. CASE Prepare(t) \/ PrepareFails(t) \/ Bind(t) \/ BindFails(t)
        BY <4>1 DEF Prepare, PrepareFails, Bind, BindFails, Throw
      <4>2. CASE Execute(t) \/ ExecuteFails(t) \/ Interrupted(t)
        BY <4>2 DEF Execute, ExecuteFails, Interrupted, Throw
      <4>3. CASE CheckIn(t) \/ Flush(t) \/ SinkReturns(t)
        BY <4>3 DEF CheckIn, Flush, SinkReturns
      <4>4. QED
        BY <1>1, <2>2, <4>1, <4>2, <4>3 DEF Run
    <3>2. QED
      BY <3>1 DEF GoneInv
  <2>3. QED
    BY <2>1, <2>2
<1>2. CASE Destruct
  BY <1>2 DEF Destruct, stmt_cache_clear, threadVars
<1>3. CASE UNCHANGED vars
  BY <1>3 DEF vars, GoneInv
<1>4. CASE DetachSink \/ RunsElsewhere
  BY <1>4 DEF DetachSink, RunsElsewhere, GoneInv, threadVars, cacheVars
<1>6. CASE Methods /\ ~Destruct /\ ~RunsElsewhere /\ ~UNCHANGED vars
  BY <1>6
  DEF Methods, register_arrow, set_profile_sink, SinkSetupFails, DetachSink, close
<1>5. QED
  BY <1>1, <1>2, <1>3, <1>4, <1>6, Steps

\* When a Connection is destructed DuckDB holds no statement of it, whatever failed before.
THEOREM AllDestroyedTheorem == Spec => []AllDestroyed
<1>1. Init => GoneInv
  BY DEF Init, GoneInv
<1>2. OwnInv /\ GoneInv => AllDestroyed
  <2> SUFFICES ASSUME OwnInv, GoneInv, status = "gone", NEW h \in Stmts
               PROVE  prep[h] = None
    BY DEF AllDestroyed
  <2>1. CachedStmts = {} /\ \A t \in Threads : pc[t] \notin Holding
    BY EmptySeq DEF GoneInv, CachedStmts, StmtsOf, Holding
  <2>2. QED
    BY <2>1 DEF OwnInv, SingleOwner
<1>3. QED
  BY <1>1, <1>2, GoneStep, OwnershipTheorem, PTL DEF Spec

-----------------------------------------------------------------------------
(* run() keeps the promise of PlanningConnection.                          *)

\* The plans in a list are those behind the iterators of its map.
LEMMA PlansListed ==
  ASSUME NEW L, NEW M, NEW P, Cache(L, M)
  PROVE  {<<L[i].query, P[L[i].stmt].plan>> : i \in DOMAIN L}
         = {<<q, P[M[q]].plan>> : q \in {p \in Queries : M[p] # None}}
<1> DEFINE A == {<<L[i].query, P[L[i].stmt].plan>> : i \in DOMAIN L}
           B == {<<q, P[M[q]].plan>> : q \in {p \in Queries : M[p] # None}}
<1>1. ASSUME NEW i \in DOMAIN L
      PROVE  <<L[i].query, P[L[i].stmt].plan>> \in B
  <2>1. L[i] \in Node
    BY DEF Cache
  <2>2. L[i].query \in Queries /\ L[i].stmt \in Stmts
    BY <2>1 DEF Node
  <2>3. M[L[i].query] = L[i].stmt /\ M[L[i].query] # None
    BY <2>2, NoneIsNoValue DEF Cache, Matches
  <2>4. QED
    BY <2>2, <2>3
<1>2. ASSUME NEW q \in Queries, M[q] # None
      PROVE  <<q, P[M[q]].plan>> \in A
  <2>1. PICK i \in DOMAIN L : L[i].query = q
    BY <1>2 DEF Cache, Matches
  <2>2. M[q] = L[i].stmt
    BY <2>1 DEF Cache, Matches
  <2>3. QED
    BY <2>1, <2>2
<1>3. QED
  BY <1>1, <1>2

\* A kept plan is the one behind the statement that is cached for its query.
LEMMA KeptByQuery ==
  ASSUME OwnInv, OwnInv'
  PROVE  /\ KeptPlans = {<<q, prep[index[q]].plan>> : q \in {p \in Queries : index[p] # None}}
         /\ KeptPlans' = {<<q, prep'[index'[q]].plan>> :
                            q \in {p \in Queries : index'[p] # None}}
<1>1. Cache(lru, index)
  BY CacheOfState
<1>2. Cache(lru', index')
  BY DEF OwnInv, TypeOK, IndexMatchesList, Cache, Node, Slots, Matches
<1>3. QED
  BY <1>1, <1>2, PlansListed DEF KeptPlans

\* A step that caches nothing keeps no new plan, and drops none if it forgets no entry.
LEMMA KeptShrinks ==
  ASSUME OwnInv, OwnInv', \A q \in Queries : EntryKept(q)
  PROVE  /\ KeptPlans' \subseteq KeptPlans
         /\ index' = index => KeptPlans' = KeptPlans
<1>1. ASSUME NEW q \in Queries, index'[q] # None
      PROVE  index[q] # None /\ prep'[index'[q]].plan = prep[index[q]].plan
  BY <1>1 DEF EntryKept
<1>2. KeptPlans' \subseteq KeptPlans
  BY <1>1, KeptByQuery
<1>3. ASSUME index' = index
      PROVE  KeptPlans \subseteq KeptPlans'
  BY <1>1, <1>3, KeptByQuery
<1>4. QED
  BY <1>2, <1>3

\* A thread whose call is left alone asks for the same, under the same plan, and has the
\* same answer.
LEMMA KeptReadsTheSame ==
  ASSUME NEW u \in Threads, CallKept(u)
  PROVE  /\ Requests'[u] = Requests[u] /\ PlansOfCalls'[u] = PlansOfCalls[u]
         /\ Answers'[u] = Answers[u]
BY DEF CallKept, Requests, PlansOfCalls, Answers, Holding

\* A step that leaves all calls but one alone changes what is read off them at that one.
LEMMA OthersReadTheSame ==
  ASSUME NEW t \in Threads, \A u \in Threads : u # t => CallKept(u)
  PROVE  /\ Requests' = [Requests EXCEPT ![t] = Requests'[t]]
         /\ PlansOfCalls' = [PlansOfCalls EXCEPT ![t] = PlansOfCalls'[t]]
         /\ Answers' = [Answers EXCEPT ![t] = Answers'[t]]
         /\ Requests'[t] = Requests[t] => Requests' = Requests
         /\ PlansOfCalls'[t] = PlansOfCalls[t] => PlansOfCalls' = PlansOfCalls
         /\ Answers'[t] = Answers[t] => Answers' = Answers
<1>1. \A u \in Threads : u # t => /\ Requests'[u] = Requests[u]
                                  /\ PlansOfCalls'[u] = PlansOfCalls[u]
                                  /\ Answers'[u] = Answers[u]
  BY KeptReadsTheSame
<1>2. /\ Requests = [u \in Threads |-> Requests[u]]
      /\ Requests' = [u \in Threads |-> Requests'[u]]
  BY DEF Requests
<1>3. /\ PlansOfCalls = [u \in Threads |-> PlansOfCalls[u]]
      /\ PlansOfCalls' = [u \in Threads |-> PlansOfCalls'[u]]
  BY DEF PlansOfCalls
<1>4. /\ Answers = [u \in Threads |-> Answers[u]]
      /\ Answers' = [u \in Threads |-> Answers'[u]]
  BY DEF Answers
<1>5. Requests' = [Requests EXCEPT ![t] = Requests'[t]]
      /\ (Requests'[t] = Requests[t] => Requests' = Requests)
  BY <1>1, <1>2
<1>6. PlansOfCalls' = [PlansOfCalls EXCEPT ![t] = PlansOfCalls'[t]]
      /\ (PlansOfCalls'[t] = PlansOfCalls[t] => PlansOfCalls' = PlansOfCalls)
  BY <1>1, <1>3
<1>7. Answers' = [Answers EXCEPT ![t] = Answers'[t]]
      /\ (Answers'[t] = Answers[t] => Answers' = Answers)
  BY <1>1, <1>4
<1>8. QED
  BY <1>5, <1>6, <1>7

\* A call in progress has asked for something; one that is over, or only calls the profile
\* sink yet, reads as no call.
LEMMA AskedFor ==
  ASSUME OwnInv, NEW t \in Threads
  PROVE  /\ pc[t] \in {"prepare"} \cup Holding =>
              Requests[t] # None /\ Requests[t] = <<call[t].query, call[t].params>>
         /\ pc[t] \notin {"prepare"} \cup Holding => Requests[t] = None
         /\ pc[t] \notin Holding => PlansOfCalls[t] = None
         /\ pc[t] # "ran" => Answers[t] = None
<1>1. ASSUME pc[t] \in {"prepare"} \cup Holding
      PROVE  <<call[t].query, call[t].params>> # None
  <2>1. call[t] \in Call
    BY <1>1 DEF OwnInv, TypeOK, Holding
  <2>2. <<call[t].query, call[t].params>> \in Queries \X Bindings
    BY <2>1 DEF Call
  <2>3. QED
    BY <2>2, NoneIsNoValue
<1>2. QED
  BY <1>1 DEF Requests, PlansOfCalls, Answers

\* A call that begins asks: with no plan, or holding the one that was kept for its query.
LEMMA AskStep ==
  ASSUME OwnInv, OwnInv', NEW t \in Threads, Run(t),
         \A u \in Threads : u # t => CallKept(u), KeptPlans' \subseteq KeptPlans,
         NEW q \in Queries, NEW p \in Bindings, NEW s \in BOOLEAN,
         Miss(t, q, p, s) \/ Hit(t, q, p, s) \/ UnusableHit(t, q, p, s)
  PROVE  Promise!Ask(t)
<1>1. /\ status = "open" /\ status' = status /\ pc[t] = "idle" /\ pc'[t] \in {"prepare", "bind"}
      /\ call'[t].query = q /\ call'[t].params = p
      /\ settings' = settings /\ source' = source
  BY DEF Miss, Hit, UnusableHit, Enter, worldVars, OwnInv, TypeOK
<1>2. /\ Requests[t] = None /\ PlansOfCalls[t] = None /\ Answers[t] = None
      /\ Requests'[t] = <<q, p>> /\ Answers'[t] = None
  <2>1. pc'[t] \in {"prepare"} \cup Holding /\ pc'[t] # "ran"
    BY <1>1 DEF Holding
  <2>2. Requests'[t] = <<q, p>> /\ Answers'[t] = None
    BY <1>1, <2>1 DEF Requests, Answers
  <2>3. QED
    BY <1>1, <2>2, AskedFor DEF Holding
<1>3. \/ PlansOfCalls'[t] = None
      \/ PlansOfCalls'[t] \in World /\ <<q, PlansOfCalls'[t]>> \in KeptPlans
  <2>1. CASE Miss(t, q, p, s) \/ UnusableHit(t, q, p, s)
    <3>1. pc'[t] = "prepare"
      BY <2>1 DEF Miss, UnusableHit, Enter, OwnInv, TypeOK
    <3>2. QED
      BY <3>1 DEF PlansOfCalls, Holding
  <2>2. CASE Hit(t, q, p, s)
    <3>1. pc'[t] = "bind" /\ call'[t].stmt = index[q]
      BY <2>2 DEF Hit, Enter, OwnInv, TypeOK
    <3>2. index[q] # None /\ index[q] \in Stmts /\ prep[index[q]] \in Prepared
      BY <2>2, CachedAlone DEF Hit
    <3>3. prep'[index[q]] = [prep[index[q]] EXCEPT !.bound = None]
      BY <2>2, <3>2 DEF Hit, OwnInv, TypeOK
    <3>4. prep'[index[q]].plan = prep[index[q]].plan /\ prep[index[q]].plan \in World
      BY <3>2, <3>3 DEF Prepared
    <3>5. PlansOfCalls'[t] = prep[index[q]].plan
      BY <3>1, <3>4 DEF PlansOfCalls, Holding
    <3>6. <<q, prep[index[q]].plan>> \in KeptPlans
      BY <3>2, KeptByQuery
    <3>7. QED
      BY <3>4, <3>5, <3>6
  <2>3. QED
    BY <2>1, <2>2
<1>4. Requests' = [Requests EXCEPT ![t] = <<q, p>>] /\ Answers' = Answers
  BY <1>2, OthersReadTheSame
<1>5. \/ PlansOfCalls' = PlansOfCalls
      \/ \E w \in World : <<q, w>> \in KeptPlans
                          /\ PlansOfCalls' = [PlansOfCalls EXCEPT ![t] = w]
  BY <1>2, <1>3, OthersReadTheSame
<1>6. QED
  BY <1>1, <1>2, <1>4, <1>5
  DEF Promise!Ask, Promise!Bindings, Promise!World, Bindings, World

\* A prepare makes the plan of its call, against the world of now.
LEMMA PlanStep ==
  ASSUME OwnInv, NEW t \in Threads, \A u \in Threads : u # t => CallKept(u),
         KeptPlans' = KeptPlans, Prepare(t)
  PROVE  Promise!Plan(t)
<1>1. PICK h \in Stmts :
        /\ prep' = [prep EXCEPT ![h] = [sql |-> call[t].query, plan |-> Now, bound |-> None]]
        /\ call' = [call EXCEPT ![t].stmt = h]
  BY DEF Prepare
<1>2. /\ pc[t] = "prepare" /\ pc'[t] = "bind" /\ call[t] \in Call
      /\ status' = status /\ settings' = settings /\ source' = source
  BY DEF Prepare, OwnInv, TypeOK, worldVars
<1>3. call'[t].stmt = h /\ call'[t].query = call[t].query /\ call'[t].params = call[t].params
  BY <1>1, <1>2 DEF OwnInv, TypeOK, Call
<1>4. prep'[h] = [sql |-> call[t].query, plan |-> Now, bound |-> None]
  BY <1>1 DEF OwnInv, TypeOK
<1>5. Requests[t] # None /\ PlansOfCalls[t] = None
  BY <1>2, AskedFor DEF Holding
<1>6. Requests'[t] = Requests[t] /\ PlansOfCalls'[t] = Now /\ Answers'[t] = Answers[t]
  BY <1>2, <1>3, <1>4 DEF Requests, PlansOfCalls, Answers, Holding
<1>7. /\ PlansOfCalls' = [PlansOfCalls EXCEPT ![t] = Now]
      /\ Requests' = Requests /\ Answers' = Answers
  BY <1>6, OthersReadTheSame
<1>8. QED
  BY <1>2, <1>5, <1>7 DEF Promise!Plan, Promise!Now, Now

\* Binding is not visible in the promise: the plan and the request stay.
LEMMA BindStutters ==
  ASSUME OwnInv, NEW t \in Threads, \A u \in Threads : u # t => CallKept(u),
         KeptPlans' = KeptPlans, Bind(t)
  PROVE  UNCHANGED Promise!vars
<1>1. /\ pc[t] = "bind" /\ pc'[t] = "run" /\ call' = call /\ result' = result
      /\ status' = status /\ settings' = settings /\ source' = source
      /\ call[t].stmt \in Stmts /\ prep[call[t].stmt] \in Prepared
  BY HeldAlone DEF Bind, Holding, OwnInv, TypeOK, worldVars
<1>2. prep'[call[t].stmt].plan = prep[call[t].stmt].plan
  <2>1. CASE call[t].params = None
    BY <2>1 DEF Bind
  <2>2. CASE call[t].params # None
    <3>1. prep'[call[t].stmt] = [prep[call[t].stmt] EXCEPT !.bound = call[t].params]
      BY <1>1, <2>2 DEF Bind, OwnInv, TypeOK
    <3>2. QED
      BY <1>1, <3>1 DEF Prepared
  <2>3. QED
    BY <2>1, <2>2
<1>3. Requests'[t] = Requests[t] /\ PlansOfCalls'[t] = PlansOfCalls[t]
      /\ Answers'[t] = Answers[t]
  BY <1>1, <1>2 DEF Requests, PlansOfCalls, Answers, Holding
<1>4. Requests' = Requests /\ PlansOfCalls' = PlansOfCalls /\ Answers' = Answers
  BY <1>3, OthersReadTheSame
<1>5. QED
  BY <1>1, <1>4 DEF Promise!vars

\* The execution answers: the call's query, under its parameters, with its plan.
LEMMA AnswerIsPromised ==
  ASSUME OwnInv, AnswerInv, NEW t \in Threads, \A u \in Threads : u # t => CallKept(u),
         KeptPlans' = KeptPlans, Execute(t)
  PROVE  Promise!Answer(t)
<1>1. /\ pc[t] = "run" /\ pc'[t] = "ran" /\ call' = call /\ prep' = prep
      /\ result'[t] = prep[call[t].stmt]
      /\ status' = status /\ source' = source
  BY DEF Execute, OwnInv, TypeOK
<1>2. settings' \in IF call[t].query \in Flushing THEN SUBSET Options ELSE {settings}
  BY ZenonT(20) DEF Execute
<1>3. /\ prep[call[t].stmt] \in Prepared
      /\ prep[call[t].stmt].sql = call[t].query /\ prep[call[t].stmt].bound = call[t].params
  BY <1>1, HeldAlone DEF Holding, AnswerInv
<1>4. Requests[t] = <<call[t].query, call[t].params>> /\ Answers[t] = None
  BY <1>1, AskedFor DEF Holding
<1>5. PlansOfCalls[t] = prep[call[t].stmt].plan
  BY <1>1 DEF PlansOfCalls, Holding
<1>6. PlansOfCalls[t] # None
  <2>1. prep[call[t].stmt].plan \in World
    BY <1>3 DEF Prepared
  <2>2. QED
    BY <1>5, <2>1, NoneIsNoValue
<1>7. prep[call[t].stmt] =
        [sql |-> Requests[t][1], plan |-> PlansOfCalls[t], bound |-> Requests[t][2]]
  <2>1. Requests[t][1] = prep[call[t].stmt].sql /\ Requests[t][2] = prep[call[t].stmt].bound
    BY <1>3, <1>4
  <2>2. prep[call[t].stmt] =
          [sql |-> prep[call[t].stmt].sql, plan |-> prep[call[t].stmt].plan,
           bound |-> prep[call[t].stmt].bound]
    BY <1>3 DEF Prepared
  <2>3. QED
    BY <1>5, <2>1, <2>2
<1>8. /\ Requests'[t] = Requests[t] /\ PlansOfCalls'[t] = PlansOfCalls[t]
      /\ Answers'[t] = prep[call[t].stmt]
  BY <1>1 DEF Requests, PlansOfCalls, Answers, Holding
<1>9. /\ Requests' = Requests /\ PlansOfCalls' = PlansOfCalls
      /\ Answers' = [Answers EXCEPT ![t] = prep[call[t].stmt]]
  BY <1>8, OthersReadTheSame
<1>10. Requests[t][1] = call[t].query
  BY <1>4
<1>11. Answers' = [Answers EXCEPT ![t] =
         [sql |-> Requests[t][1], plan |-> PlansOfCalls[t], bound |-> Requests[t][2]]]
  BY <1>7, <1>9
<1>12. QED
  BY <1>1, <1>2, <1>4, <1>6, <1>9, <1>10, <1>11 DEF Promise!Answer

\* A call whose statement is gone, back to the cache or destroyed, reads as no call.
LEMMA EndStep ==
  ASSUME OwnInv, NEW t \in Threads, \A u \in Threads : u # t => CallKept(u),
         pc'[t] \in {"idle", "sink", "fault"},
         status' = status, settings' = settings, source' = source
  PROVE  Promise!Ends(t)
<1>1. Requests'[t] = None /\ PlansOfCalls'[t] = None /\ Answers'[t] = None
  BY DEF Requests, PlansOfCalls, Answers, Holding
<1>2. /\ Requests' = [Requests EXCEPT ![t] = None]
      /\ PlansOfCalls' = [PlansOfCalls EXCEPT ![t] = None]
      /\ Answers' = [Answers EXCEPT ![t] = None]
  BY <1>1, OthersReadTheSame
<1>3. QED
  BY <1>2 DEF Promise!Ends

\* The statement's way back, or the flush, is the return; what a check-in leaves behind is at
\* most the plan of its call.
LEMMA ReturnStep ==
  ASSUME OwnInv, OwnInv', AnswerInv, NEW t \in Threads, Run(t),
         \A u \in Threads : u # t => CallKept(u), CheckIn(t) \/ Flush(t)
  PROVE  Promise!Return(t)
<1>1. /\ pc[t] = "ran" /\ pc'[t] \in {"idle", "sink", "fault"}
      /\ status' = status /\ settings' = settings /\ source' = source
  BY DEF CheckIn, Flush, Emit, worldVars, OwnInv, TypeOK
<1>2. Promise!Ends(t)
  BY <1>1, EndStep
<1>3. Answers[t] # None /\ Requests[t] = <<call[t].query, call[t].params>>
      /\ PlansOfCalls[t] = prep[call[t].stmt].plan
  BY <1>1, AskedFor DEF AnswerInv, Answers, PlansOfCalls, Holding
<1>4. Requests[t][1] = call[t].query
  BY <1>3
<1>5. CASE Flush(t)
  <2>1. lru' = <<>> /\ call[t].query \in Flushing
    BY <1>5 DEF Flush, stmt_cache_clear
  <2>2. KeptPlans' = {}
    BY <2>1, EmptySeq DEF KeptPlans
  <2>3. QED
    BY <1>2, <1>3, <1>4, <2>1, <2>2 DEF Promise!Return
<1>6. CASE CheckIn(t)
  <2>1. call[t].query \notin Flushing
    BY <1>6 DEF CheckIn
  <2>2. ASSUME NEW q \in Queries, index'[q] # None
        PROVE  <<q, prep'[index'[q]].plan>>
                 \in KeptPlans \cup {<<Requests[t][1], PlansOfCalls[t]>>}
    <3>1. CASE EntryKept(q)
      <4>1. index[q] # None /\ prep'[index'[q]].plan = prep[index[q]].plan
        BY <2>2, <3>1 DEF EntryKept
      <4>2. QED
        BY <4>1, KeptByQuery
    <3>2. CASE q = call[t].query /\ prep'[index'[q]] = prep[call[t].stmt]
      BY <1>3, <1>4, <3>2
    <3>3. QED
      BY <3>1, <3>2, CacheEntries
  <2>3. KeptPlans' \subseteq KeptPlans \cup {<<Requests[t][1], PlansOfCalls[t]>>}
    BY <2>2, KeptByQuery
  <2>4. QED
    BY <1>2, <1>3, <1>4, <2>1, <2>3 DEF Promise!Return
<1>7. QED
  BY <1>5, <1>6

\* Every step of run() is a step of the promise, or none.
LEMMA RunRefines ==
  ASSUME OwnInv, OwnInv', AnswerInv, NEW t \in Threads, Run(t)
  PROVE  [Promise!Next]_(Promise!vars)
<1>1. \A u \in Threads : u # t => CallKept(u)
  BY OtherCalls
<1>2. ~CheckIn(t) => KeptPlans' \subseteq KeptPlans /\ (index' = index => KeptPlans' = KeptPlans)
  BY CacheEntries, KeptShrinks
<1>3. CASE \E q \in Queries, p \in Bindings, s \in BOOLEAN :
             Miss(t, q, p, s) \/ Hit(t, q, p, s) \/ UnusableHit(t, q, p, s)
  <2>1. PICK q \in Queries, p \in Bindings, s \in BOOLEAN :
          Miss(t, q, p, s) \/ Hit(t, q, p, s) \/ UnusableHit(t, q, p, s)
    BY <1>3
  <2>2. ~CheckIn(t)
    BY <2>1 DEF Miss, Hit, UnusableHit, Enter, CheckIn
  <2>3. Promise!Ask(t)
    BY <1>1, <1>2, <2>1, <2>2, AskStep
  <2>4. QED
    BY <2>3 DEF Promise!Next
<1>4. CASE Prepare(t) \/ Bind(t) \/ Execute(t)
  <2>1. index' = index /\ ~CheckIn(t)
    BY <1>4 DEF Prepare, Bind, Execute, CheckIn, cacheVars
  <2>2. KeptPlans' = KeptPlans
    BY <1>2, <2>1
  <2>3. CASE Prepare(t)
    BY <1>1, <2>2, <2>3, PlanStep DEF Promise!Next
  <2>4. CASE Bind(t)
    BY <1>1, <2>2, <2>4, BindStutters
  <2>5. CASE Execute(t)
    BY <1>1, <2>2, <2>5, AnswerIsPromised DEF Promise!Next
  <2>6. QED
    BY <1>4, <2>3, <2>4, <2>5
<1>5. CASE PrepareFails(t) \/ BindFails(t) \/ ExecuteFails(t) \/ Interrupted(t) \/ SinkReturns(t)
  <2>1. /\ pc[t] \in {"prepare", "sink"} \cup Holding /\ pc'[t] = "idle"
        /\ status' = status /\ settings' = settings /\ source' = source /\ index' = index
    BY <1>5
    DEF PrepareFails, BindFails, ExecuteFails, Interrupted, SinkReturns, Throw, OwnInv, TypeOK,
        worldVars, cacheVars, Holding
  <2>2. \A q \in Queries : EntryKept(q)
    <3> SUFFICES ASSUME NEW q \in Queries, ~EntryKept(q)
                 PROVE  FALSE
      OBVIOUS
    <3>1. pc[t] = "ran" /\ index'[q] = call[t].stmt
      BY CacheEntries DEF CheckIn
    <3>2. index[q] # call[t].stmt
      BY <3>1, HeldAlone DEF Holding
    <3>3. QED
      BY <2>1, <3>1, <3>2
  <2>3. KeptPlans' = KeptPlans
    BY <2>1, <2>2, KeptShrinks
  <2>4. Promise!Ends(t)
    BY <1>1, <2>1, EndStep
  <2>5. CASE pc[t] = "sink"
    <3>1. /\ Requests'[t] = Requests[t] /\ PlansOfCalls'[t] = PlansOfCalls[t]
          /\ Answers'[t] = Answers[t]
      BY <2>1, <2>5 DEF Requests, PlansOfCalls, Answers, Holding
    <3>2. Requests' = Requests /\ PlansOfCalls' = PlansOfCalls /\ Answers' = Answers
      BY <1>1, <3>1, OthersReadTheSame
    <3>3. QED
      BY <2>1, <2>3, <3>2 DEF Promise!vars
  <2>6. CASE pc[t] # "sink"
    <3>1. Requests[t] # None
      BY <2>1, <2>6, AskedFor
    <3>2. Answers[t] = None \/ t = MainThread
      BY <1>5, AskedFor
      DEF PrepareFails, BindFails, ExecuteFails, Interrupted, SinkReturns
    <3>3. Promise!Throw(t)
      BY <2>3, <2>4, <3>1, <3>2 DEF Promise!Throw
    <3>4. QED
      BY <3>3 DEF Promise!Next
  <2>7. QED
    BY <2>5, <2>6
<1>6. CASE CheckIn(t) \/ Flush(t)
  BY <1>1, <1>6, ReturnStep DEF Promise!Next
<1>7. QED
  BY <1>3, <1>4, <1>5, <1>6 DEF Run

\* Every other method registers, changes settings or closes.
LEMMA MethodsRefine ==
  ASSUME OwnInv, OwnInv', Methods
  PROVE  [Promise!Next]_(Promise!vars)
<1>1. \A u \in Threads : CallKept(u)
  BY MethodsKeep
<1>2. Requests' = Requests /\ PlansOfCalls' = PlansOfCalls /\ Answers' = Answers
  <2>1. \A u \in Threads : /\ Requests'[u] = Requests[u] /\ PlansOfCalls'[u] = PlansOfCalls[u]
                           /\ Answers'[u] = Answers[u]
    BY <1>1, KeptReadsTheSame
  <2>2. Requests' = Requests
    BY <2>1 DEF Requests
  <2>3. PlansOfCalls' = PlansOfCalls
    BY <2>1 DEF PlansOfCalls
  <2>4. Answers' = Answers
    BY <2>1 DEF Answers
  <2>5. QED
    BY <2>2, <2>3, <2>4
<1>3. stmt_cache_clear({}) => KeptPlans' = {}
  BY EmptySeq DEF stmt_cache_clear, KeptPlans
<1>4. UNCHANGED <<cacheVars, prep>> => KeptPlans' = KeptPlans
  BY DEF KeptPlans, cacheVars
<1>5. ASSUME NEW obj \in Sources, register_arrow(obj)
      PROVE  Promise!Register
  BY <1>2, <1>3, <1>5 DEF register_arrow, Promise!Register
<1>6. ASSUME \/ RunsElsewhere
             \/ \E mode \in Modes : SinkSetupFails(mode)
             \/ \E mode \in Modes, n \in Samples : set_profile_sink(mode, n)
      PROVE  Promise!Configure
  <2>1. status' = status /\ source' = source /\ UNCHANGED <<cacheVars, prep>>
    BY <1>6 DEF RunsElsewhere, SinkSetupFails, set_profile_sink
  <2>2. settings' \in SUBSET Options
    BY DEF OwnInv, TypeOK
  <2>3. QED
    BY <1>2, <1>4, <2>1, <2>2 DEF Promise!Configure
<1>7. CASE DetachSink \/ UNCHANGED vars
  <2>1. status' = status /\ settings' = settings /\ source' = source
        /\ UNCHANGED <<cacheVars, prep>>
    BY <1>7 DEF DetachSink, vars, worldVars, cacheVars
  <2>2. QED
    BY <1>2, <1>4, <2>1 DEF Promise!vars
<1>8. CASE close \/ Destruct
  BY <1>2, <1>3, <1>8 DEF close, Destruct, worldVars, Promise!Close, Promise!Next
<1>9. QED
  BY <1>5, <1>6, <1>7, <1>8 DEF Methods, Promise!Next

\* Behind its cache run() keeps its promise, on any number of threads, whatever fails and
\* whatever changes the settings: a call is answered with its own query under its own
\* parameters, and with a plan that it made itself or that was kept since the last flush.
THEOREM RunsAsPromisedTheorem == Spec => RunsAsPromised
<1>1. Init => Promise!Init
  BY EmptySeq DEF Init, Promise!Init, Requests, PlansOfCalls, Answers, KeptPlans, Holding
<1>2. OwnInv /\ OwnInv' /\ AnswerInv /\ [Next]_vars => [Promise!Next]_(Promise!vars)
  BY Steps, RunRefines, MethodsRefine
<1>3. Spec => [](OwnInv) /\ [](AnswerInv)
  BY OwnershipTheorem, AnswerHolds, PTL
<1>4. QED
  BY <1>1, <1>2, <1>3, PTL DEF Spec, RunsAsPromised, Promise!Spec
=============================================================================
