------------------------- MODULE ResultCursorProofs -------------------------
(***************************************************************************)
(* The rows of a Result, for any number of chunks, any sizes of them and   *)
(* any mix of calls: every row once, in order, nothing left after the end. *)
(* The argument is about Ahead, the rows past the cursor and the chunks    *)
(* fetched: a step takes rows out of it only to put them into the list of  *)
(* the call under way, the caller's rows or the lost ones (Moves), and the *)
(* rows returned never exceed the rows that have left it (Counts).         *)
(***************************************************************************)
EXTENDS ResultCursor, SequenceTheorems, FiniteSetTheorems, TLAPS

-----------------------------------------------------------------------------
(* The inductive invariant.                                                *)

Cursors == [chunk : Nat, cursor : Nat, fetched : 0 .. reach, returned : Nat]
Calls   == [kind : RowCalls \cup Draining \cup {"none"}, left : Nat]

\* Types of the variables, and where the cursor may be.
Types ==
  /\ chunks \in Seq(0 .. MaxRows)
  /\ streaming \in BOOLEAN /\ single \in BOOLEAN /\ fast \in BOOLEAN /\ end \in BOOLEAN
  /\ reach \in 0 .. Len(chunks)
  /\ cur \in Cursors
  /\ cur.chunk <= cur.fetched
  /\ cur.chunk # 0 => cur.cursor <= chunks[cur.chunk]
  /\ stream \in {"none", "open", "done"}
  /\ call \in Calls
  /\ built \in Seq(Rows) /\ given \in Seq(Rows)
  /\ lost \subseteq Rows /\ used \subseteq {"rows", "chunks"}

\* The call under way: only a call has rows built, fetchitem asks for one row, and a
\* caller that was told the end is told so by a cursor that has no chunk left.
CallInv ==
  /\ call.kind = "none" => call = NoCall /\ built = <<>>
  /\ call.kind = "fetchitem" => call.left \in 0 .. 1
  /\ end => call = NoCall /\ cur.chunk = 0 /\ cur.fetched = reach

\* t, l and a hold every row once between them.
Parted(t, l, a) ==
  /\ Range(t) \cup l \cup a = Rows
  /\ \A i, j \in DOMAIN t : i # j => t[i] # t[j]
  /\ Range(t) \cap l = {}
  /\ (Range(t) \cup l) \cap a = {}

Sorted(s) == \A i, j \in DOMAIN s : i < j => Before(s[i], s[j])
AllBefore(s, t) == \A i \in DOMAIN s, j \in DOMAIN t : Before(s[i], t[j])
UpTo(s, c) == \A i \in DOMAIN s : s[i][1] <= c

\* The order of the rows built and given.  Row calls build no row past the chunk of the
\* cursor; while the caller keeps to one kind of call, what it got comes before what is
\* being built.
Order ==
  /\ Sorted(built)
  /\ used # {"rows", "chunks"} => Sorted(given)
  /\ cur.chunk # 0 /\ "chunks" \notin used => UpTo(given, cur.chunk)
  /\ cur.chunk # 0 /\ call.kind \in RowCalls => UpTo(built, cur.chunk)
  /\ call.kind \in RowCalls /\ "chunks" \notin used => AllBefore(given, built)
  /\ call.kind \in Draining /\ "rows" \notin used => AllBefore(given, built)

\* The rows returned have left Ahead, and a fetchall that counts its rounds has one left
\* for each row that was not returned.
Counts ==
  /\ cur.returned <= Cardinality(Rows \ Ahead)
  /\ call.kind = "fetchall" => call.left + cur.returned = Cardinality(Rows)

\* Without a failing engine every chunk can be fetched.
Reaches == ~EngineFails => reach = Len(chunks)

CursorInv == Types /\ CallInv /\ Parted(given \o built, lost, Ahead) /\ Order /\ Counts /\ Reaches

-----------------------------------------------------------------------------
(* Sequences of rows.                                                      *)

\* The elements of a sequence, and those of two joined.
LEMMA PlacesOfSeq ==
  ASSUME NEW S, NEW s \in Seq(S)
  PROVE  /\ Len(s) \in Nat
         /\ DOMAIN s = 1 .. Len(s)
         /\ Range(s) \subseteq S
<1>1. Len(s) \in Nat /\ DOMAIN s = 1 .. Len(s)
  BY LenProperties
<1>2. \A i \in 1 .. Len(s) : s[i] \in S
  BY ElementOfSeq
<1>3. Range(s) \subseteq S
  BY <1>1, <1>2, Zenon DEF Range
<1>4. QED
  BY <1>1, <1>3

\* Joining two sequences joins their elements and keeps their places.
LEMMA RangeOfConcat ==
  ASSUME NEW S, NEW s \in Seq(S), NEW t \in Seq(S)
  PROVE  /\ s \o t \in Seq(S)
         /\ Len(s \o t) = Len(s) + Len(t)
         /\ \A i \in DOMAIN (s \o t) :
              \/ i \in DOMAIN s /\ (s \o t)[i] = s[i]
              \/ i > Len(s) /\ i - Len(s) \in DOMAIN t /\ (s \o t)[i] = t[i - Len(s)]
         /\ Range(s \o t) = Range(s) \cup Range(t)
<1> DEFINE m == Len(s)
           n == Len(t)
<1>0. m \in Nat /\ n \in Nat /\ DOMAIN s = 1 .. m /\ DOMAIN t = 1 .. n
  BY PlacesOfSeq
<1>1. /\ s \o t \in Seq(S)
      /\ Len(s \o t) = m + n
      /\ \A i \in 1 .. m + n : (s \o t)[i] = IF i <= m THEN s[i] ELSE t[i - m]
  BY ConcatProperties
<1> HIDE DEF m, n
<1>2. DOMAIN (s \o t) = 1 .. m + n
  BY <1>1, PlacesOfSeq
<1>3. \A i \in DOMAIN (s \o t) :
        \/ i \in DOMAIN s /\ (s \o t)[i] = s[i]
        \/ i > m /\ i - m \in DOMAIN t /\ (s \o t)[i] = t[i - m]
  BY <1>0, <1>1, <1>2
<1>4. Range(s \o t) \subseteq Range(s) \cup Range(t)
  BY <1>3 DEF Range
<1>5. ASSUME NEW i \in DOMAIN s PROVE s[i] \in Range(s \o t)
  <2>1. i \in DOMAIN (s \o t) /\ (s \o t)[i] = s[i]
    BY <1>0, <1>1, <1>2
  <2>2. QED
    BY <2>1 DEF Range
<1>6. ASSUME NEW i \in DOMAIN t PROVE t[i] \in Range(s \o t)
  <2>1. i + m \in 1 .. m + n /\ ~(i + m <= m) /\ (i + m) - m = i
    BY <1>0
  <2>2. (s \o t)[i + m] = t[i]
    BY <2>1, <1>1
  <2>3. QED
    BY <2>1, <2>2, <1>2 DEF Range
<1>7. Range(s) \cup Range(t) \subseteq Range(s \o t)
  BY <1>5, <1>6 DEF Range
<1>8. QED
  BY <1>1, <1>3, <1>4, <1>7 DEF m

\* A row more at the end of the list of a call.
LEMMA AppendRow ==
  ASSUME NEW S, NEW s \in Seq(S), NEW t \in Seq(S), NEW r \in S
  PROVE  /\ Append(t, r) \in Seq(S)
         /\ Range(Append(t, r)) = Range(t) \cup {r}
         /\ Append(t, r) = t \o <<r>>
         /\ s \o Append(t, r) = (s \o t) \o <<r>>
         /\ <<r>> \in Seq(S) /\ Range(<<r>>) = {r} /\ Len(<<r>>) = 1
<1>1. <<r>> \in Seq(S) /\ Len(<<r>>) = 1 /\ DOMAIN <<r>> = {1} /\ <<r>>[1] = r
  OBVIOUS
<1>2. Range(<<r>>) = {r}
  BY <1>1 DEF Range
<1>3. Append(t, r) = t \o <<r>>
  BY AppendIsConcat
<1>4. t \o <<r>> \in Seq(S) /\ Range(t \o <<r>>) = Range(t) \cup Range(<<r>>)
  <2> DEFINE u == <<r>>
  <2>1. u \in Seq(S)
    BY <1>1
  <2> HIDE DEF u
  <2>2. t \o u \in Seq(S) /\ Range(t \o u) = Range(t) \cup Range(u)
    BY <2>1, RangeOfConcat
  <2>3. QED
    BY <2>2 DEF u
<1>5. s \o (t \o <<r>>) = (s \o t) \o <<r>>
  BY <1>1, ConcatAssociative
<1>6. QED
  BY <1>1, <1>2, <1>3, <1>4, <1>5

-----------------------------------------------------------------------------
(* Sharing out the rows.                                                   *)

\* Rows that join the list of the call leave what is still ahead.
LEMMA PartedTake ==
  ASSUME NEW t \in Seq(Rows), NEW u \in Seq(Rows), NEW l, NEW a, Parted(t, l, a),
         Range(u) \subseteq a, \A i, j \in DOMAIN u : i # j => u[i] # u[j]
  PROVE  Parted(t \o u, l, a \ Range(u))
<1>1. /\ Range(t) \cup l \cup a = Rows
      /\ \A i, j \in DOMAIN t : i # j => t[i] # t[j]
      /\ Range(t) \cap l = {}
      /\ (Range(t) \cup l) \cap a = {}
  BY DEF Parted
<1>2. Range(t \o u) = Range(t) \cup Range(u)
  BY RangeOfConcat
<1>3. ASSUME NEW i \in DOMAIN (t \o u), NEW j \in DOMAIN (t \o u), i # j
      PROVE  (t \o u)[i] # (t \o u)[j]
  <2>0. Len(t) \in Nat /\ DOMAIN t \subseteq Int /\ DOMAIN u \subseteq Int /\ DOMAIN (t \o u) \subseteq Int
    BY PlacesOfSeq, RangeOfConcat
  <2>1. \A k \in DOMAIN (t \o u) :
          \/ k \in DOMAIN t /\ (t \o u)[k] = t[k]
          \/ k > Len(t) /\ k - Len(t) \in DOMAIN u /\ (t \o u)[k] = u[k - Len(t)]
    BY RangeOfConcat
  <2>2. \A k \in DOMAIN t, n \in DOMAIN u : t[k] # u[n]
    BY <1>1 DEF Range
  <2>3. CASE i \in DOMAIN t /\ (t \o u)[i] = t[i]
    <3>1. CASE j \in DOMAIN t /\ (t \o u)[j] = t[j]
      BY <2>3, <3>1, <1>1, <1>3
    <3>2. CASE j - Len(t) \in DOMAIN u /\ (t \o u)[j] = u[j - Len(t)]
      BY <2>3, <3>2, <2>2
    <3>3. QED
      BY <3>1, <3>2, <2>1
  <2>4. CASE i - Len(t) \in DOMAIN u /\ (t \o u)[i] = u[i - Len(t)]
    <3>1. CASE j \in DOMAIN t /\ (t \o u)[j] = t[j]
      BY <2>4, <3>1, <2>2
    <3>2. CASE j - Len(t) \in DOMAIN u /\ (t \o u)[j] = u[j - Len(t)]
      <4>1. i - Len(t) # j - Len(t)
        BY <2>0, <1>3
      <4>2. QED
        BY <2>4, <3>2, <4>1
    <3>3. QED
      BY <3>1, <3>2, <2>1
  <2>5. QED
    BY <2>1, <2>3, <2>4
<1>4. QED
  BY <1>1, <1>2, <1>3 DEF Parted

\* Rows of the list of a call that throws, and rows it took without listing them, are lost.
LEMMA PartedLose ==
  ASSUME NEW t \in Seq(Rows), NEW u \in Seq(Rows), NEW l, NEW a, Parted(t \o u, l, a),
         NEW S \in SUBSET a
  PROVE  Parted(t, l \cup Range(u) \cup S, a \ S)
<1>1. /\ Range(t \o u) \cup l \cup a = Rows
      /\ \A i, j \in DOMAIN (t \o u) : i # j => (t \o u)[i] # (t \o u)[j]
      /\ Range(t \o u) \cap l = {}
      /\ (Range(t \o u) \cup l) \cap a = {}
  BY DEF Parted
<1>2. Range(t \o u) = Range(t) \cup Range(u)
  BY RangeOfConcat
<1>3. /\ Len(t) \in Nat /\ DOMAIN t = 1 .. Len(t)
      /\ Len(u) \in Nat /\ DOMAIN u = 1 .. Len(u)
      /\ Len(t \o u) = Len(t) + Len(u) /\ DOMAIN (t \o u) = 1 .. Len(t) + Len(u)
  BY PlacesOfSeq, RangeOfConcat
<1>4. \A i \in DOMAIN t : i \in DOMAIN (t \o u) /\ (t \o u)[i] = t[i]
  BY <1>3, ConcatProperties
<1>5. \A n \in DOMAIN u : Len(t) + n \in DOMAIN (t \o u) /\ (t \o u)[Len(t) + n] = u[n]
  <2>1. TAKE n \in DOMAIN u
  <2>2. Len(t) + n \in 1 .. Len(t) + Len(u) /\ ~(Len(t) + n <= Len(t)) /\ (Len(t) + n) - Len(t) = n
    BY <1>3
  <2>3. QED
    BY <2>2, <1>3, ConcatProperties
<1>6. \A i, j \in DOMAIN t : i # j => t[i] # t[j]
  BY <1>1, <1>4
<1>7. Range(t) \cap Range(u) = {}
  <2>1. ASSUME NEW i \in DOMAIN t, NEW n \in DOMAIN u PROVE t[i] # u[n]
    <3>1. i # Len(t) + n
      BY <1>3
    <3>2. QED
      BY <3>1, <1>1, <1>4, <1>5
  <2>2. QED
    BY <2>1 DEF Range
<1>8. QED
  BY <1>1, <1>2, <1>6, <1>7 DEF Parted

\* Two ordered sequences, one all before the other, joined.
LEMMA SortedConcat ==
  ASSUME NEW t \in Seq(Rows), NEW u \in Seq(Rows), Sorted(t), Sorted(u), AllBefore(t, u)
  PROVE  Sorted(t \o u)
<1>0. Len(t) \in Nat /\ DOMAIN t = 1 .. Len(t) /\ DOMAIN u \subseteq Int /\ DOMAIN (t \o u) \subseteq Int
  BY PlacesOfSeq, RangeOfConcat
<1>1. \A k \in DOMAIN (t \o u) :
        \/ k \in DOMAIN t /\ (t \o u)[k] = t[k]
        \/ k > Len(t) /\ k - Len(t) \in DOMAIN u /\ (t \o u)[k] = u[k - Len(t)]
  BY RangeOfConcat
<1>2. SUFFICES ASSUME NEW i \in DOMAIN (t \o u), NEW j \in DOMAIN (t \o u), i < j
               PROVE  Before((t \o u)[i], (t \o u)[j])
  BY DEF Sorted
<1>3. CASE i \in DOMAIN t /\ (t \o u)[i] = t[i]
  <2>1. CASE j \in DOMAIN t /\ (t \o u)[j] = t[j]
    BY <1>2, <1>3, <2>1 DEF Sorted
  <2>2. CASE j - Len(t) \in DOMAIN u /\ (t \o u)[j] = u[j - Len(t)]
    BY <1>3, <2>2 DEF AllBefore
  <2>3. QED
    BY <2>1, <2>2, <1>1
<1>4. CASE i > Len(t) /\ i - Len(t) \in DOMAIN u /\ (t \o u)[i] = u[i - Len(t)]
  <2>1. j \notin DOMAIN t
    BY <1>0, <1>2, <1>4
  <2>2. j - Len(t) \in DOMAIN u /\ (t \o u)[j] = u[j - Len(t)]
    BY <2>1, <1>1
  <2>3. i - Len(t) < j - Len(t)
    BY <1>0, <1>2
  <2>4. QED
    BY <1>4, <2>2, <2>3 DEF Sorted
<1>5. QED
  BY <1>1, <1>3, <1>4

-----------------------------------------------------------------------------
(* The rows ahead.                                                         *)

\* The rows of a result are finitely many, and each is a place in one of its chunks.
LEMMA RowsAreFinite ==
  ASSUME Types
  PROVE  /\ IsFiniteSet(Rows) /\ Cardinality(Rows) \in Nat
         /\ Len(chunks) \in Nat /\ DOMAIN chunks = 1 .. Len(chunks)
         /\ \A i \in 1 .. Len(chunks) : chunks[i] \in 0 .. MaxRows
         /\ \A r \in Rows : /\ r = <<r[1], r[2]>>
                            /\ r[1] \in 1 .. Len(chunks) /\ r[2] \in 1 .. chunks[r[1]]
         /\ \A i \in 1 .. Len(chunks) : \A j \in 1 .. chunks[i] : <<i, j>> \in Rows
<1>1. Len(chunks) \in Nat /\ DOMAIN chunks = 1 .. Len(chunks)
  BY LenProperties DEF Types
<1>2. \A i \in 1 .. Len(chunks) : chunks[i] \in 0 .. MaxRows
  BY ElementOfSeq DEF Types
<1>3. IsFiniteSet((1 .. Len(chunks)) \X (1 .. MaxRows))
  <2>1. IsFiniteSet(1 .. Len(chunks)) /\ IsFiniteSet(1 .. MaxRows)
    BY <1>1, BoundsAreNat, FS_Interval
  <2>2. QED
    BY <2>1, FS_Product
<1>4. Rows \subseteq (1 .. Len(chunks)) \X (1 .. MaxRows)
  BY DEF Rows
<1>5. IsFiniteSet(Rows) /\ Cardinality(Rows) \in Nat
  BY <1>3, <1>4, FS_Subset, FS_CardinalityType
<1>6. \A r \in Rows : /\ r = <<r[1], r[2]>>
                      /\ r[1] \in 1 .. Len(chunks) /\ r[2] \in 1 .. chunks[r[1]]
  <2>1. TAKE r \in Rows
  <2>2. r \in (1 .. Len(chunks)) \X (1 .. MaxRows) /\ r[2] <= chunks[r[1]]
    BY DEF Rows
  <2>3. r = <<r[1], r[2]>> /\ r[1] \in 1 .. Len(chunks) /\ r[2] \in 1 .. MaxRows
    BY <2>2
  <2>4. QED
    BY <2>2, <2>3, <1>2, BoundsAreNat
<1>7. \A i \in 1 .. Len(chunks) : \A j \in 1 .. chunks[i] : <<i, j>> \in Rows
  <2>1. TAKE i \in 1 .. Len(chunks)
  <2>2. TAKE j \in 1 .. chunks[i]
  <2>3. j \in 1 .. MaxRows /\ j <= chunks[i]
    BY <1>2, BoundsAreNat
  <2>4. <<i, j>> \in (1 .. Len(chunks)) \X (1 .. MaxRows)
    BY <2>3
  <2>5. QED
    BY <2>3, <2>4 DEF Rows
<1>8. QED
  BY <1>1, <1>2, <1>5, <1>6, <1>7

\* The rows of one chunk, as fetched: each once, in order.
LEMMA RowsOfChunk ==
  ASSUME Types, NEW i \in 1 .. Len(chunks)
  PROVE  /\ RowsOf(i) \in Seq(Rows)
         /\ DOMAIN RowsOf(i) = 1 .. chunks[i]
         /\ \A j \in 1 .. chunks[i] : RowsOf(i)[j] = <<i, j>>
         /\ Range(RowsOf(i)) = {r \in Rows : r[1] = i}
         /\ \A j, k \in DOMAIN RowsOf(i) : j # k => RowsOf(i)[j] # RowsOf(i)[k]
         /\ Sorted(RowsOf(i))
<1>1. /\ chunks[i] \in Nat
      /\ \A j \in 1 .. chunks[i] : <<i, j>> \in Rows
      /\ \A r \in Rows : r = <<r[1], r[2]>> /\ r[2] \in 1 .. chunks[r[1]]
  BY RowsAreFinite, BoundsAreNat
<1>2. DOMAIN RowsOf(i) = 1 .. chunks[i] /\ \A j \in 1 .. chunks[i] : RowsOf(i)[j] = <<i, j>>
  BY DEF RowsOf
<1>3. RowsOf(i) \in [1 .. chunks[i] -> Rows]
  BY <1>1 DEF RowsOf
<1>4. RowsOf(i) \in Seq(Rows)
  BY <1>1, <1>3
<1>5. Range(RowsOf(i)) \subseteq {r \in Rows : r[1] = i}
  <2>1. ASSUME NEW j \in DOMAIN RowsOf(i) PROVE RowsOf(i)[j] \in {r \in Rows : r[1] = i}
    <3>1. RowsOf(i)[j] = <<i, j>> /\ <<i, j>> \in Rows /\ <<i, j>>[1] = i
      BY <1>1, <1>2
    <3>2. QED
      BY <3>1
  <2>2. QED
    BY <2>1, Zenon DEF Range
<1>6. ASSUME NEW r \in Rows, r[1] = i PROVE r \in Range(RowsOf(i))
  <2>1. r = <<i, r[2]>> /\ r[2] \in 1 .. chunks[i]
    BY <1>1, <1>6
  <2>2. r[2] \in DOMAIN RowsOf(i) /\ RowsOf(i)[r[2]] = r
    BY <1>2, <2>1
  <2>3. QED
    BY <2>2 DEF Range
<1>7. \A j, k \in DOMAIN RowsOf(i) : j # k => RowsOf(i)[j] # RowsOf(i)[k]
  BY <1>2
<1>8. Sorted(RowsOf(i))
  BY <1>1, <1>2 DEF Sorted, Before
<1>9. QED
  BY <1>2, <1>4, <1>5, <1>6, <1>7, <1>8

\* The rows depend on the chunks alone, those ahead on the cursor too.
LEMMA RowsStay ==
  ASSUME UNCHANGED chunks
  PROVE  Rows' = Rows /\ (UNCHANGED cur => Ahead' = Ahead)
  BY DEF Rows, Ahead

\* ensure_row passes no row when it fetches the next chunk, drops an empty one, or gives
\* its last chunk back at the end.
LEMMA NextChunkPassesNone ==
  ASSUME Types, UNCHANGED chunks, ~HasRow,
         \/ /\ cur.fetched < reach
            /\ cur'.chunk = IF chunks[cur.fetched + 1] > 0 THEN cur.fetched + 1 ELSE 0
            /\ cur'.fetched = cur.fetched + 1
         \/ cur'.chunk = 0 /\ cur'.fetched = cur.fetched,
         cur'.cursor = 0
  PROVE  Ahead' = Ahead
<1>1. Rows' = Rows
  BY RowsStay
<1>2. /\ cur.fetched \in Nat /\ cur.chunk \in Nat /\ cur.cursor \in Nat /\ cur.chunk <= cur.fetched
      /\ cur.fetched <= reach /\ reach \in Nat /\ reach <= Len(chunks)
      /\ cur.chunk # 0 => cur.cursor <= chunks[cur.chunk]
  BY RowsAreFinite DEF Types, Cursors
<1>3. \A r \in Rows : r[1] \in Nat \ {0} /\ r[1] <= Len(chunks) /\ r[2] \in Nat \ {0} /\ r[2] <= chunks[r[1]] /\ chunks[r[1]] \in Nat
  BY RowsAreFinite, BoundsAreNat
<1>4. cur.chunk # 0 => cur.cursor >= chunks[cur.chunk] /\ chunks[cur.chunk] \in Nat
  BY <1>2, RowsAreFinite DEF HasRow
<1>5. \A r \in Rows : (r[1] = cur.chunk /\ r[2] > cur.cursor) = FALSE
  BY <1>2, <1>3, <1>4
<1>6. \A r \in Rows : r \in Ahead <=> r[1] > cur.fetched
  BY <1>5 DEF Ahead
<1>7. \A r \in Rows : r \in Ahead' <=> r[1] > cur'.fetched \/ (r[1] = cur'.chunk /\ r[2] > 0)
  BY <1>1 DEF Ahead
<1>8. \A r \in Rows : r \in Ahead' <=> r[1] > cur.fetched
  <2>1. CASE cur'.chunk = 0 /\ cur'.fetched = cur.fetched
    BY <1>3, <1>7, <2>1
  <2>2. CASE /\ cur.fetched < reach
             /\ cur'.chunk = IF chunks[cur.fetched + 1] > 0 THEN cur.fetched + 1 ELSE 0
             /\ cur'.fetched = cur.fetched + 1
    <3>1. CASE chunks[cur.fetched + 1] > 0
      BY <1>2, <1>3, <1>7, <2>2, <3>1
    <3>2. CASE ~(chunks[cur.fetched + 1] > 0)
      <4>1. \A r \in Rows : r[1] # cur.fetched + 1
        BY <1>2, <1>3, <3>2
      <4>2. QED
        BY <1>2, <1>3, <1>7, <2>2, <3>2, <4>1
    <3>3. QED
      BY <3>1, <3>2
  <2>3. QED
    BY <2>1, <2>2
<1>9. Ahead \subseteq Rows /\ Ahead' \subseteq Rows
  BY <1>1 DEF Ahead
<1>10. QED
  BY <1>6, <1>8, <1>9

\* build_row takes one row, the one after the cursor.
LEMMA BuildTakesOne ==
  ASSUME Types, UNCHANGED chunks, HasRow,
         cur'.chunk = cur.chunk, cur'.cursor = cur.cursor + 1, cur'.fetched = cur.fetched
  PROVE  LET row == <<cur.chunk, cur.cursor + 1>> IN
         /\ row \in Ahead
         /\ Ahead' = Ahead \ {row}
         /\ cur.cursor + 1 <= chunks[cur.chunk]
<1> DEFINE row == <<cur.chunk, cur.cursor + 1>>
<1>1. Rows' = Rows
  BY RowsStay
<1>2. /\ cur.fetched \in Nat /\ cur.chunk \in Nat /\ cur.cursor \in Nat /\ cur.chunk <= cur.fetched
      /\ cur.fetched <= reach /\ reach \in Nat /\ reach <= Len(chunks)
      /\ cur.chunk # 0 /\ cur.cursor < chunks[cur.chunk]
  BY RowsAreFinite DEF Types, Cursors, HasRow
<1>3. \A r \in Rows : r = <<r[1], r[2]>> /\ r[1] \in Nat /\ r[2] \in Nat
  BY RowsAreFinite, BoundsAreNat
<1>4. cur.chunk \in 1 .. Len(chunks) /\ chunks[cur.chunk] \in Nat
  BY <1>2, RowsAreFinite, BoundsAreNat
<1>5. cur.cursor + 1 \in 1 .. chunks[cur.chunk]
  BY <1>2, <1>4
<1>6. row \in Rows
  BY <1>4, <1>5, RowsAreFinite
<1>7. row[1] = cur.chunk /\ row[2] = cur.cursor + 1
  OBVIOUS
<1>8. row \in Ahead
  BY <1>2, <1>6, <1>7 DEF Ahead
<1>9. \A r \in Rows : r \in Ahead' <=> r[1] > cur.fetched \/ (r[1] = cur.chunk /\ r[2] > cur.cursor + 1)
  BY <1>1 DEF Ahead
<1>10. \A r \in Rows : r = row <=> r[1] = cur.chunk /\ r[2] = cur.cursor + 1
  BY <1>3, <1>7
<1>11. \A r \in Rows : r \in Ahead' <=> r \in Ahead /\ r # row
  BY <1>2, <1>3, <1>9, <1>10 DEF Ahead
<1>12. Ahead \subseteq Rows /\ Ahead' \subseteq Rows
  BY <1>1 DEF Ahead
<1>13. QED
  BY <1>5, <1>8, <1>11, <1>12

\* A chunk that is fetched whole takes its rows, and no other.
LEMMA FetchTakesChunk ==
  ASSUME Types, UNCHANGED chunks, cur.fetched < reach,
         cur'.chunk = cur.chunk, cur'.cursor = cur.cursor, cur'.fetched = cur.fetched + 1
  PROVE  /\ cur.fetched + 1 \in 1 .. Len(chunks)
         /\ Range(RowsOf(cur.fetched + 1)) \subseteq Ahead
         /\ Ahead' = Ahead \ Range(RowsOf(cur.fetched + 1))
<1>1. Rows' = Rows
  BY RowsStay
<1>2. /\ cur.fetched \in Nat /\ cur.chunk \in Nat /\ cur.chunk <= cur.fetched
      /\ reach \in Nat /\ reach <= Len(chunks)
  BY RowsAreFinite DEF Types, Cursors
<1>3. \A r \in Rows : r[1] \in Nat
  BY RowsAreFinite
<1>4. cur.fetched + 1 \in 1 .. Len(chunks)
  BY <1>2, RowsAreFinite
<1>5. Range(RowsOf(cur.fetched + 1)) = {r \in Rows : r[1] = cur.fetched + 1}
  BY <1>4, RowsOfChunk
<1>6. \A r \in Rows : r \in Ahead' <=> r[1] > cur.fetched + 1 \/ (r[1] = cur.chunk /\ r[2] > cur.cursor)
  BY <1>1 DEF Ahead
<1>7. \A r \in Rows : r[1] = cur.fetched + 1 => r \in Ahead /\ r[1] # cur.chunk
  BY <1>2, <1>3 DEF Ahead
<1>8. \A r \in Rows : r \in Ahead' <=> r \in Ahead /\ r[1] # cur.fetched + 1
  BY <1>2, <1>3, <1>6, <1>7 DEF Ahead
<1>9. Ahead \subseteq Rows /\ Ahead' \subseteq Rows
  BY <1>1 DEF Ahead
<1>10. QED
  BY <1>4, <1>5, <1>7, <1>8, <1>9

-----------------------------------------------------------------------------
(* The moves of Next, by what they do to the rows.                         *)

\* A call that loops begins: fetchitem for one row, a fetchall that counts for all the
\* rows not returned.
Start ==
  \E k \in RowCalls \cup Draining, n \in Nat :
    /\ Begins(k, n)
    /\ k = "fetchitem" => n = 1
    /\ k = "fetchall" => n + cur.returned = Cardinality(Rows)
    /\ stream' \in {"none", "open", "done"}

\* The Arrow stream comes or goes.
OnStream ==
  /\ Idle /\ end' = FALSE
  /\ stream' \in {"none", "open", "done"}
  /\ UNCHANGED <<fixedVars, cur, call, built, given, lost, used>>

\* A chunk goes to the caller, or down, whole.
Whole ==
  /\ Idle /\ Fetch1
  /\ \/ Returns("chunks", RowsOf(cur.fetched + 1), FALSE)
     \/ Throws(Range(RowsOf(cur.fetched + 1)))

\* A call ends: its rows are the caller's or lost, and no other row moves.
GivesBack ==
  /\ ~HasRow /\ cur.fetched = reach
  /\ cur' = [cur EXCEPT !.chunk = 0, !.cursor = 0]
Settle ==
  /\ cur' = cur \/ GivesBack
  /\ \/ Throws({})
     \/ \E k \in {"rows", "chunks"}, e \in BOOLEAN :
          /\ Returns(k, built, e)
          /\ k = "rows" => call.kind \in RowCalls
          /\ k = "chunks" => call.kind \in Draining \/ built = <<>>
          /\ e => GivesBack

\* Every step of the result is one of seven moves.
LEMMA Moves ==
  ASSUME Types, CallInv, Counts, Next
  PROVE  Start \/ OnStream \/ Whole \/ Settle \/ next_chunk \/ build_row \/ pull_chunk
<1>1. ASSUME ByRows
      PROVE  Start \/ Settle \/ next_chunk \/ build_row
  <2>1. CASE fetchone
    BY <2>1 DEF fetchone, Start, Types, RowCalls, Counted
  <2>2. CASE \E n \in 0 .. MaxSize : fetchmany(n)
    <3>1. PICK n \in 0 .. MaxSize : fetchmany(n)
      BY <2>2
    <3>2. n \in Nat
      BY BoundsAreNat
    <3>3. QED
      BY <3>1, <3>2 DEF fetchmany, Start, Types, RowCalls, Counted
  <2>3. CASE fetchall
    <3>1. cur.returned \in Nat /\ Total \in Nat /\ (Total > cur.returned => Total = Cardinality(Rows))
      BY RowsAreFinite DEF Types, Cursors, Total
    <3>2. CASE Total > cur.returned
      <4>1. Total - cur.returned \in Nat
        BY <3>1, <3>2
      <4>2. (Total - cur.returned) + cur.returned = Cardinality(Rows)
        BY <3>1, <3>2
      <4>3. Begins("fetchall", Total - cur.returned) /\ stream' \in {"none", "open", "done"}
        BY <2>3, <3>2 DEF fetchall, Types
      <4>4. QED
        BY <4>1, <4>2, <4>3 DEF Start, RowCalls, Counted
    <3>3. CASE ~(Total > cur.returned)
      <4>1. Begins("fetchrest", 0) /\ stream' \in {"none", "open", "done"}
        BY <2>3, <3>3 DEF fetchall, Types
      <4>2. QED
        BY <4>1 DEF Start, RowCalls
    <3>4. QED
      BY <3>2, <3>3
  <2>4. CASE fetchitem
    BY <2>4 DEF fetchitem, Start, Types, RowCalls
  <2>5. CASE refused
    BY <2>5 DEF refused, Settle
  <2>6. CASE no_more_rows
    <3>1. GivesBack /\ call.kind \in RowCalls
      BY <2>6 DEF no_more_rows, GivesBack, Asks, RowCalls
    <3>2. Throws({}) \/ Returns("rows", built, TRUE)
      BY <2>6 DEF no_more_rows
    <3>3. QED
      BY <3>1, <3>2 DEF Settle
  <2>7. CASE rounds_done
    BY <2>7 DEF rounds_done, Settle, RowCalls
  <2>8. CASE second_row
    BY <2>8 DEF second_row, Settle
  <2>9. QED
    BY <1>1, <2>1, <2>2, <2>3, <2>4, <2>5, <2>6, <2>7, <2>8 DEF ByRows
<1>2. ASSUME ByChunks
      PROVE  Start \/ OnStream \/ Whole \/ Settle \/ pull_chunk
  <2>1. ASSUME fetch_chunk PROVE Whole \/ Settle
    <3>1. CASE Fetch1 /\ Returns("chunks", RowsOf(cur.fetched + 1), FALSE)
      BY <2>1, <3>1 DEF fetch_chunk, Whole
    <3>2. CASE cur' = cur /\ Returns("chunks", <<>>, FALSE)
      <4>1. built = <<>>
        BY <2>1 DEF fetch_chunk, CallInv, Idle, NoCall
      <4>2. QED
        BY <3>2, <4>1 DEF Settle
    <3>3. QED
      BY <2>1, <3>1, <3>2 DEF fetch_chunk
  <2>2. CASE to_numpy
    BY <2>2 DEF to_numpy, Start, Types, Draining
  <2>3. CASE ExportStream \/ ReleaseStream
    BY <2>3 DEF ExportStream, ReleaseStream, OnStream
  <2>4. CASE get_next_fast
    BY <2>4 DEF get_next_fast, Start, Draining
  <2>5. CASE get_next_chunk
    BY <2>1, <2>5 DEF get_next_chunk, Whole
  <2>6. CASE copy_out
    BY <2>6 DEF copy_out, Settle
  <2>7. QED
    BY <1>2, <2>1, <2>2, <2>3, <2>4, <2>5, <2>6 DEF ByChunks
<1>3. QED
  BY <1>1, <1>2 DEF Next

\* The result itself never changes.
LEMMA ResultIsFixed ==
  ASSUME [Next]_vars
  PROVE  UNCHANGED fixedVars
  BY DEF vars, fixedVars, Next, ByRows, ByChunks, fetchone, fetchmany, fetchall, fetchitem, refused,
     next_chunk, build_row, no_more_rows, rounds_done, second_row, fetch_chunk, to_numpy,
     ExportStream, ReleaseStream, get_next_fast, get_next_chunk, pull_chunk, copy_out, Begins,
     Returns, Throws

\* What a move does to the cursor and to the rows ahead.
LEMMA CursorMoves ==
  ASSUME Types, CallInv, UNCHANGED fixedVars,
         Start \/ OnStream \/ Whole \/ Settle \/ next_chunk \/ build_row \/ pull_chunk
  PROVE  /\ cur' \in [chunk : Nat, cursor : Nat, fetched : 0 .. reach, returned : Nat]
         /\ cur'.chunk <= cur'.fetched
         /\ cur'.chunk # 0 => cur'.cursor <= chunks[cur'.chunk]
         /\ Start \/ OnStream => cur' = cur
         /\ Start \/ OnStream \/ Settle \/ next_chunk =>
              Ahead' = Ahead /\ cur'.returned = cur.returned
         /\ build_row => /\ <<cur.chunk, cur.cursor + 1>> \in Ahead
                         /\ Ahead' = Ahead \ {<<cur.chunk, cur.cursor + 1>>}
                         /\ cur'.chunk = cur.chunk /\ cur'.returned = cur.returned + 1
         /\ Whole \/ pull_chunk =>
              /\ cur.fetched + 1 \in 1 .. Len(chunks)
              /\ Range(RowsOf(cur.fetched + 1)) \subseteq Ahead
              /\ Ahead' = Ahead \ Range(RowsOf(cur.fetched + 1))
              /\ cur'.chunk = cur.chunk /\ cur'.returned = cur.returned
         /\ Settle => cur' = cur \/ (cur'.chunk = 0 /\ cur'.fetched = cur.fetched)
         /\ next_chunk => cur'.fetched = cur.fetched + 1 /\ cur'.chunk \in {0, cur.fetched + 1}
<1>0. UNCHANGED chunks
  BY DEF fixedVars
<1> DEFINE T(c) == /\ c \in [chunk : Nat, cursor : Nat, fetched : 0 .. reach, returned : Nat]
                   /\ c.chunk <= c.fetched
                   /\ c.chunk # 0 => c.cursor <= chunks[c.chunk]
<1>t. /\ T(cur) /\ reach \in Nat
      /\ cur.chunk \in Nat /\ cur.cursor \in Nat /\ cur.fetched \in Nat /\ cur.returned \in Nat
      /\ cur.fetched <= reach /\ reach <= Len(chunks)
      /\ cur = [chunk |-> cur.chunk, cursor |-> cur.cursor, fetched |-> cur.fetched, returned |-> cur.returned]
      /\ \A i \in 1 .. Len(chunks) : chunks[i] \in Nat
  BY RowsAreFinite, BoundsAreNat DEF Types, Cursors
<1> HIDE DEF T
<1>1. (Start \/ OnStream) => cur' = cur
  BY DEF Start, OnStream, Begins
<1>2. cur' = cur => T(cur') /\ Ahead' = Ahead /\ cur'.returned = cur.returned
  BY <1>0, <1>t, RowsStay DEF T
<1>3. ASSUME GivesBack
      PROVE  T(cur') /\ Ahead' = Ahead /\ cur'.returned = cur.returned /\ cur'.chunk = 0 /\ cur'.fetched = cur.fetched
  <2>1. cur' = [chunk |-> 0, cursor |-> 0, fetched |-> cur.fetched, returned |-> cur.returned]
    BY <1>3, <1>t DEF GivesBack
  <2>2. ~HasRow
    BY <1>3 DEF GivesBack
  <2>3. cur'.chunk = 0 /\ cur'.cursor = 0 /\ cur'.fetched = cur.fetched /\ cur'.returned = cur.returned
    BY <2>1
  <2>4. Ahead' = Ahead
    BY <1>0, <2>2, <2>3, NextChunkPassesNone
  <2>5. T(cur')
    BY <1>t, <2>1, <2>3 DEF T
  <2>6. QED
    BY <2>3, <2>4, <2>5
<1>4. ASSUME next_chunk
      PROVE  T(cur') /\ Ahead' = Ahead /\ cur'.returned = cur.returned
             /\ cur'.fetched = cur.fetched + 1 /\ cur'.chunk \in {0, cur.fetched + 1}
  <2>1. PICK c : c = IF chunks[cur.fetched + 1] > 0 THEN cur.fetched + 1 ELSE 0
    OBVIOUS
  <2>2. cur' = [chunk |-> c, cursor |-> 0, fetched |-> cur.fetched + 1, returned |-> cur.returned]
    BY <1>4, <1>t, <2>1 DEF next_chunk
  <2>3. ~HasRow /\ cur.fetched < reach
    BY <1>4 DEF next_chunk
  <2>4. cur'.chunk = c /\ cur'.cursor = 0 /\ cur'.fetched = cur.fetched + 1 /\ cur'.returned = cur.returned
    BY <2>2
  <2>5. Ahead' = Ahead
    BY <1>0, <2>1, <2>3, <2>4, NextChunkPassesNone
  <2>6. c \in Nat /\ c \in {0, cur.fetched + 1} /\ c <= cur.fetched + 1
    BY <1>t, <2>1
  <2>7. c # 0 => 0 <= chunks[c]
    BY <1>t, <2>1, <2>3
  <2>8. cur.fetched + 1 \in 0 .. reach
    BY <1>t, <2>3
  <2>9. T(cur')
    BY <1>t, <2>2, <2>4, <2>6, <2>7, <2>8 DEF T
  <2>10. QED
    BY <2>4, <2>5, <2>6, <2>9
<1>5. ASSUME build_row
      PROVE  /\ T(cur')
             /\ <<cur.chunk, cur.cursor + 1>> \in Ahead
             /\ Ahead' = Ahead \ {<<cur.chunk, cur.cursor + 1>>}
             /\ cur'.chunk = cur.chunk /\ cur'.returned = cur.returned + 1
  <2>1. cur' = [chunk |-> cur.chunk, cursor |-> cur.cursor + 1, fetched |-> cur.fetched, returned |-> cur.returned + 1]
    BY <1>5, <1>t DEF build_row
  <2>2. HasRow
    BY <1>5 DEF build_row
  <2>3. cur'.chunk = cur.chunk /\ cur'.cursor = cur.cursor + 1 /\ cur'.fetched = cur.fetched /\ cur'.returned = cur.returned + 1
    BY <2>1
  <2>4. /\ <<cur.chunk, cur.cursor + 1>> \in Ahead
        /\ Ahead' = Ahead \ {<<cur.chunk, cur.cursor + 1>>}
        /\ cur.cursor + 1 <= chunks[cur.chunk]
    BY <1>0, <2>2, <2>3, BuildTakesOne
  <2>5. T(cur')
    BY <1>t, <2>1, <2>3, <2>4 DEF T
  <2>6. QED
    BY <2>3, <2>4, <2>5
<1>6. ASSUME Fetch1
      PROVE  /\ T(cur')
             /\ cur.fetched + 1 \in 1 .. Len(chunks)
             /\ Range(RowsOf(cur.fetched + 1)) \subseteq Ahead
             /\ Ahead' = Ahead \ Range(RowsOf(cur.fetched + 1))
             /\ cur'.chunk = cur.chunk /\ cur'.returned = cur.returned
  <2>1. cur' = [chunk |-> cur.chunk, cursor |-> cur.cursor, fetched |-> cur.fetched + 1, returned |-> cur.returned]
    BY <1>6, <1>t DEF Fetch1
  <2>2. cur.fetched < reach
    BY <1>6 DEF Fetch1
  <2>3. cur'.chunk = cur.chunk /\ cur'.cursor = cur.cursor /\ cur'.fetched = cur.fetched + 1 /\ cur'.returned = cur.returned
    BY <2>1
  <2>4. /\ cur.fetched + 1 \in 1 .. Len(chunks)
        /\ Range(RowsOf(cur.fetched + 1)) \subseteq Ahead
        /\ Ahead' = Ahead \ Range(RowsOf(cur.fetched + 1))
    BY <1>0, <2>2, <2>3, FetchTakesChunk
  <2>5. T(cur')
    BY <1>t, <2>1, <2>2, <2>3 DEF T
  <2>6. QED
    BY <2>3, <2>4, <2>5
<1>7. (Whole \/ pull_chunk) => Fetch1
  BY DEF Whole, pull_chunk
<1>8. Settle => cur' = cur \/ GivesBack
  BY DEF Settle
<1>9. T(cur')
  BY <1>1, <1>2, <1>3, <1>4, <1>5, <1>6, <1>7, <1>8
<1>10. QED
  BY <1>1, <1>2, <1>3, <1>4, <1>5, <1>6, <1>7, <1>8, <1>9 DEF T

-----------------------------------------------------------------------------
(* Each part of the invariant is kept.                                     *)

\* The lists of rows after each move, as joins of those before.
LEMMA ListMoves ==
  ASSUME CursorInv, UNCHANGED fixedVars,
         Start \/ OnStream \/ Whole \/ Settle \/ next_chunk \/ build_row \/ pull_chunk
  PROVE  /\ built' \in Seq(Rows) /\ given' \in Seq(Rows)
         /\ lost' \subseteq Rows
         /\ Parted(given' \o built', lost', Ahead')
<1> DEFINE row   == <<cur.chunk, cur.cursor + 1>>
           fresh == RowsOf(cur.fetched + 1)
<1>1. /\ built \in Seq(Rows) /\ given \in Seq(Rows) /\ lost \subseteq Rows
      /\ Types /\ CallInv /\ Parted(given \o built, lost, Ahead)
      /\ given \o built \in Seq(Rows)
      /\ Ahead \subseteq Rows
      /\ <<>> \in Seq(Rows)
  BY RangeOfConcat, EmptySeq DEF CursorInv, Types, Ahead
<1>2. /\ Start \/ OnStream \/ Settle \/ next_chunk => Ahead' = Ahead
      /\ build_row => row \in Ahead /\ Ahead' = Ahead \ {row}
      /\ Whole \/ pull_chunk =>
           /\ cur.fetched + 1 \in 1 .. Len(chunks)
           /\ Range(fresh) \subseteq Ahead
           /\ Ahead' = Ahead \ Range(fresh)
  BY <1>1, CursorMoves
<1>3. Whole \/ pull_chunk =>
        fresh \in Seq(Rows) /\ \A i, j \in DOMAIN fresh : i # j => fresh[i] # fresh[j]
  BY <1>1, <1>2, RowsOfChunk
<1>4. \A s \in Seq(Rows) : s \o <<>> = s
  BY ConcatEmptySeq
<1> HIDE DEF row, fresh
<1>5. ASSUME NEW S \in SUBSET Ahead, Throws(S), Ahead' = Ahead \ S
      PROVE  /\ built' \in Seq(Rows) /\ given' \in Seq(Rows) /\ lost' \subseteq Rows
             /\ Parted(given' \o built', lost', Ahead')
  <2>1. Parted(given, lost \cup Range(built) \cup S, Ahead \ S)
    BY <1>1, PartedLose
  <2>2. given' = given /\ built' = <<>> /\ lost' = lost \cup Range(built) \cup S
    BY <1>5 DEF Throws
  <2>3. given' \o built' = given
    BY <1>1, <1>4, <2>2
  <2>4. lost' \subseteq Rows
    BY <1>1, <2>2, PlacesOfSeq
  <2>5. QED
    BY <1>1, <1>5, <2>1, <2>2, <2>3, <2>4
<1>6. CASE Start \/ OnStream \/ next_chunk
  <2>1. built' = built /\ given' = given /\ lost' = lost
    BY <1>6 DEF Start, Begins, OnStream, next_chunk
  <2>2. QED
    BY <1>1, <1>2, <1>6, <2>1
<1>7. CASE Settle
  <2>1. CASE Throws({})
    BY <1>2, <1>5, <1>7, <2>1
  <2>2. CASE \E k \in {"rows", "chunks"}, e \in BOOLEAN : Returns(k, built, e)
    <3>1. given' = given \o built /\ built' = <<>> /\ lost' = lost
      BY <2>2 DEF Returns
    <3>2. given' \o built' = given \o built
      BY <1>1, <1>4, <3>1
    <3>3. QED
      BY <1>1, <1>2, <1>7, <3>1, <3>2
  <2>3. QED
    BY <1>7, <2>1, <2>2 DEF Settle
<1>8. CASE Whole
  <2>0. built = <<>>
    BY <1>1, <1>8 DEF Whole, Idle, CallInv, NoCall
  <2>1. CASE Returns("chunks", fresh, FALSE)
    <3>1. given' = given \o fresh /\ built' = <<>> /\ lost' = lost
      BY <2>1 DEF Returns
    <3>2. given \o built = given
      BY <1>1, <1>4, <2>0
    <3>3. Parted(given \o fresh, lost, Ahead \ Range(fresh)) /\ given \o fresh \in Seq(Rows)
      BY <1>1, <1>2, <1>3, <1>8, <3>2, PartedTake, RangeOfConcat
    <3>4. given' \o built' = given \o fresh
      BY <1>4, <3>1, <3>3
    <3>5. QED
      BY <1>1, <1>2, <1>8, <3>1, <3>3, <3>4
  <2>2. CASE Throws(Range(fresh))
    BY <1>2, <1>5, <1>8, <2>2
  <2>3. QED
    BY <1>8, <2>1, <2>2 DEF Whole, fresh
<1>9. CASE pull_chunk
  <2>1. given' = given /\ built' = built \o fresh /\ lost' = lost
    BY <1>9 DEF pull_chunk, fresh
  <2>2. Parted((given \o built) \o fresh, lost, Ahead \ Range(fresh))
    BY <1>1, <1>2, <1>3, <1>9, PartedTake
  <2>3. (given \o built) \o fresh = given \o (built \o fresh)
    BY <1>1, <1>3, <1>9, ConcatAssociative
  <2>4. built \o fresh \in Seq(Rows)
    BY <1>1, <1>3, <1>9, RangeOfConcat
  <2>5. QED
    BY <1>1, <1>2, <1>9, <2>1, <2>2, <2>3, <2>4
<1>10. CASE build_row
  <2>1. CASE Throws({row})
    BY <1>2, <1>5, <1>10, <2>1
  <2>2. CASE built' = Append(built, row) /\ UNCHANGED <<given, lost>>
    <3>1. PICK one : one = <<row>>
      OBVIOUS
    <3>2. /\ one \in Seq(Rows) /\ Range(one) = {row} /\ Len(one) = 1
          /\ Append(built, row) \in Seq(Rows)
          /\ given \o Append(built, row) = (given \o built) \o one
      BY <1>1, <1>2, <1>10, <3>1, AppendRow
    <3>3. \A i, j \in DOMAIN one : i # j => one[i] # one[j]
      BY <3>2, PlacesOfSeq
    <3>4. Parted((given \o built) \o one, lost, Ahead \ Range(one))
      BY <1>1, <1>2, <1>10, <3>2, <3>3, PartedTake
    <3>5. QED
      BY <1>1, <1>2, <1>10, <2>2, <3>2, <3>4
  <2>3. QED
    BY <1>10, <2>1, <2>2 DEF build_row, row
<1>11. QED
  BY <1>6, <1>7, <1>8, <1>9, <1>10

\* The types of the other variables, and the call under way.
LEMMA CallMoves ==
  ASSUME CursorInv, UNCHANGED fixedVars,
         Start \/ OnStream \/ Whole \/ Settle \/ next_chunk \/ build_row \/ pull_chunk
  PROVE  /\ stream' \in {"none", "open", "done"} /\ call' \in Calls
         /\ end' \in BOOLEAN /\ used' \subseteq {"rows", "chunks"}
         /\ CallInv'
<1>1. /\ Types /\ CallInv
      /\ stream \in {"none", "open", "done"} /\ call \in Calls /\ call = [kind |-> call.kind, left |-> call.left]
      /\ call.kind \in RowCalls \cup Draining \cup {"none"} /\ call.left \in Nat
      /\ end \in BOOLEAN /\ used \subseteq {"rows", "chunks"} /\ UNCHANGED reach
  BY DEF CursorInv, Types, Calls, fixedVars
<1>2. NoCall \in Calls /\ NoCall.kind = "none" /\ "none" \notin RowCalls \cup Draining
  BY DEF NoCall, Calls, RowCalls, Counted, Draining
<1>3. ASSUME NEW S, Throws(S)
      PROVE  /\ stream' \in {"none", "open", "done"} /\ call' \in Calls
             /\ end' \in BOOLEAN /\ used' \subseteq {"rows", "chunks"} /\ CallInv'
  BY <1>1, <1>2, <1>3 DEF Throws, CallInv
<1>4. ASSUME NEW k \in {"rows", "chunks"}, NEW rows, NEW e \in BOOLEAN, Returns(k, rows, e), e => GivesBack
      PROVE  /\ stream' \in {"none", "open", "done"} /\ call' \in Calls
             /\ end' \in BOOLEAN /\ used' \subseteq {"rows", "chunks"} /\ CallInv'
  <2>1. /\ stream' = stream /\ call' = NoCall /\ built' = <<>> /\ end' = e
        /\ used' = used \/ used' = used \cup {k}
    BY <1>4 DEF Returns
  <2>2. e => cur'.chunk = 0 /\ cur'.fetched = reach
    BY <1>1, <1>4 DEF GivesBack, Types, Cursors
  <2>3. CallInv'
    BY <1>1, <1>2, <2>1, <2>2 DEF CallInv
  <2>4. QED
    BY <1>1, <1>2, <2>1, <2>3
<1>5. CASE Start
  <2>1. PICK k \in RowCalls \cup Draining, n \in Nat :
          /\ Begins(k, n) /\ stream' \in {"none", "open", "done"}
          /\ k = "fetchitem" => n = 1
    BY <1>5 DEF Start
  <2>2. call' = [kind |-> k, left |-> n] /\ end' = FALSE /\ used' = used
    BY <2>1 DEF Begins
  <2>3. call' \in Calls /\ call'.kind = k /\ call'.left = n
    BY <2>2 DEF Calls
  <2>4. CallInv'
    BY <1>2, <2>1, <2>2, <2>3 DEF CallInv
  <2>5. QED
    BY <1>1, <2>1, <2>2, <2>3, <2>4
<1>6. CASE OnStream
  BY <1>1, <1>6 DEF OnStream, CallInv
<1>7. CASE Whole
  BY <1>3, <1>4, <1>7 DEF Whole
<1>8. CASE Settle
  BY <1>3, <1>4, <1>8 DEF Settle
<1>9. ASSUME next_chunk \/ build_row \/ pull_chunk PROVE call # NoCall /\ call.kind # "none" /\ ~end
  BY <1>1, <1>2, <1>9 DEF next_chunk, build_row, pull_chunk, Asks, Counted, Draining, CallInv
<1>10. CASE next_chunk \/ pull_chunk
  BY <1>1, <1>9, <1>10 DEF next_chunk, pull_chunk, CallInv
<1>11. CASE build_row
  <2>1. CASE Throws({<<cur.chunk, cur.cursor + 1>>})
    BY <1>3, <2>1
  <2>2. CASE /\ call' = [call EXCEPT !.left = IF @ > 0 THEN @ - 1 ELSE 0]
             /\ UNCHANGED <<fixedVars, stream, given, lost, used, end>>
    <3>1. PICK n : n = IF call.left > 0 THEN call.left - 1 ELSE 0
      OBVIOUS
    <3>2. n \in Nat /\ (call.left \in 0 .. 1 => n \in 0 .. 1)
      BY <1>1, <3>1
    <3>3. call' = [kind |-> call.kind, left |-> n]
      BY <1>1, <2>2, <3>1
    <3>4. call' \in Calls /\ call'.kind = call.kind /\ call'.left = n
      BY <1>1, <3>2, <3>3 DEF Calls
    <3>5. CallInv'
      BY <1>1, <1>9, <1>11, <2>2, <3>2, <3>4 DEF CallInv
    <3>6. QED
      BY <1>1, <2>2, <3>4, <3>5
  <2>3. QED
    BY <1>11, <2>1, <2>2 DEF build_row
<1>12. QED
  BY <1>5, <1>6, <1>7, <1>8, <1>10, <1>11

\* A row that is built or given is not ahead: it is in a chunk that was fetched, and not
\* past the cursor.
LEMMA TakenIsBehind ==
  ASSUME CursorInv
  PROVE  /\ UpTo(given, cur.fetched) /\ UpTo(built, cur.fetched)
         /\ \A i \in DOMAIN given : given[i] \in Rows /\ given[i] \notin Ahead
         /\ \A i \in DOMAIN built : built[i] \in Rows /\ built[i] \notin Ahead
<1>1. /\ built \in Seq(Rows) /\ given \in Seq(Rows) /\ Types
      /\ Parted(given \o built, lost, Ahead)
  BY DEF CursorInv, Types
<1>2. Range(given \o built) = Range(given) \cup Range(built)
  BY <1>1, RangeOfConcat
<1>3. \A r \in Range(given) \cup Range(built) : r \in Rows /\ r \notin Ahead
  BY <1>1, <1>2 DEF Parted
<1>4. \A r \in Rows : r \notin Ahead => r[1] <= cur.fetched
  BY <1>1, RowsAreFinite DEF Ahead, Types, Cursors
<1>5. /\ \A i \in DOMAIN given : given[i] \in Range(given)
      /\ \A i \in DOMAIN built : built[i] \in Range(built)
  BY DEF Range
<1>6. QED
  BY <1>3, <1>4, <1>5 DEF UpTo

\* The next row of the cursor comes after every row behind it, in the cursor's chunk.
LEMMA NextRowIsLater ==
  ASSUME CursorInv, NEW r \in Rows, r \notin Ahead, r[1] <= cur.chunk
  PROVE  Before(r, <<cur.chunk, cur.cursor + 1>>)
<1>1. cur.chunk \in Nat /\ cur.cursor \in Nat /\ r[1] \in Nat /\ r[2] \in Nat
  BY RowsAreFinite DEF CursorInv, Types, Cursors
<1>2. r[1] = cur.chunk => r[2] <= cur.cursor
  BY <1>1 DEF Ahead
<1>3. QED
  BY <1>1, <1>2 DEF Before

\* The rows of the next chunk come after every row behind the cursor.
LEMMA NextChunkIsLater ==
  ASSUME CursorInv, cur.fetched + 1 \in 1 .. Len(chunks), NEW s \in Seq(Rows), UpTo(s, cur.fetched)
  PROVE  AllBefore(s, RowsOf(cur.fetched + 1))
<1>1. cur.fetched \in Nat /\ Types
  BY DEF CursorInv, Types, Cursors
<1>2. /\ DOMAIN RowsOf(cur.fetched + 1) = 1 .. chunks[cur.fetched + 1]
      /\ \A j \in 1 .. chunks[cur.fetched + 1] : RowsOf(cur.fetched + 1)[j] = <<cur.fetched + 1, j>>
  BY <1>1, RowsOfChunk
<1>3. ASSUME NEW i \in DOMAIN s PROVE s[i][1] \in Nat
  <2>1. s[i] \in Rows
    OBVIOUS
  <2>2. QED
    BY <1>1, <2>1, RowsAreFinite
<1>4. ASSUME NEW i \in DOMAIN s, NEW j \in DOMAIN RowsOf(cur.fetched + 1)
      PROVE  Before(s[i], RowsOf(cur.fetched + 1)[j])
  <2>1. RowsOf(cur.fetched + 1)[j][1] = cur.fetched + 1
    <3>1. RowsOf(cur.fetched + 1)[j] = <<cur.fetched + 1, j>>
      BY <1>2
    <3>2. QED
      BY <3>1
  <2>2. s[i][1] \in Nat /\ s[i][1] <= cur.fetched
    BY <1>3 DEF UpTo
  <2>3. s[i][1] < cur.fetched + 1
    BY <1>1, <2>2
  <2>4. QED
    BY <2>1, <2>3 DEF Before
<1>5. QED
  BY <1>4 DEF AllBefore

\* Lists that are joined stay within a chunk both stay within.
LEMMA UpToConcat ==
  ASSUME NEW s \in Seq(Rows), NEW t \in Seq(Rows), NEW c, UpTo(s, c), UpTo(t, c)
  PROVE  UpTo(s \o t, c)
  BY RangeOfConcat DEF UpTo

\* A list that comes before two others comes before them joined.
LEMMA AllBeforeConcat ==
  ASSUME NEW g \in Seq(Rows), NEW s \in Seq(Rows), NEW t \in Seq(Rows), AllBefore(g, s), AllBefore(g, t)
  PROVE  AllBefore(g, s \o t)
  BY RangeOfConcat DEF AllBefore

\* An empty list is in order, and before and after every other.
LEMMA EmptyInOrder ==
  ASSUME NEW s, NEW c
  PROVE  Sorted(<<>>) /\ AllBefore(s, <<>>) /\ AllBefore(<<>>, s) /\ UpTo(<<>>, c)
  BY DEF Sorted, AllBefore, UpTo

\* The rows built and given stay in order.
LEMMA OrderMoves ==
  ASSUME CursorInv, UNCHANGED fixedVars,
         Start \/ OnStream \/ Whole \/ Settle \/ next_chunk \/ build_row \/ pull_chunk
  PROVE  Order'
<1> DEFINE row   == <<cur.chunk, cur.cursor + 1>>
           fresh == RowsOf(cur.fetched + 1)
<1>1. /\ Types /\ CallInv /\ Order
      /\ built \in Seq(Rows) /\ given \in Seq(Rows) /\ used \subseteq {"rows", "chunks"}
      /\ cur.fetched \in Nat /\ cur.chunk \in Nat /\ cur.chunk <= cur.fetched
  BY DEF CursorInv, Types, Cursors
<1>2. /\ UpTo(given, cur.fetched) /\ UpTo(built, cur.fetched)
      /\ \A i \in DOMAIN given : given[i] \in Rows /\ given[i] \notin Ahead
      /\ \A i \in DOMAIN built : built[i] \in Rows /\ built[i] \notin Ahead
  BY TakenIsBehind
<1>3. RowCalls \cap Draining = {} /\ "none" \notin RowCalls \cup Draining /\ NoCall.kind = "none"
  BY DEF RowCalls, Counted, Draining, NoCall
<1>4. Whole \/ pull_chunk =>
        /\ fresh \in Seq(Rows) /\ Sorted(fresh)
        /\ AllBefore(given, fresh) /\ AllBefore(built, fresh)
        /\ cur'.chunk = cur.chunk
  <2>1. Whole \/ pull_chunk => cur.fetched + 1 \in 1 .. Len(chunks) /\ cur'.chunk = cur.chunk
    BY <1>1, CursorMoves
  <2>2. QED
    BY <1>1, <1>2, <2>1, RowsOfChunk, NextChunkIsLater
<1> HIDE DEF row, fresh
<1>5. ASSUME NEW S, Throws(S), cur'.chunk \in {0, cur.chunk}
      PROVE  Order'
  <2>1. built' = <<>> /\ given' = given /\ used' = used /\ call' = NoCall
    BY <1>5 DEF Throws
  <2>2. QED
    BY <1>1, <1>3, <1>5, <2>1, EmptyInOrder DEF Order
<1>6. CASE Start \/ OnStream
  <2>1. built' = built /\ given' = given /\ used' = used /\ cur' = cur
    BY <1>6 DEF Start, Begins, OnStream
  <2>2. CASE Start
    <3>1. built = <<>>
      BY <1>1, <2>2 DEF Start, Begins, Idle, CallInv, NoCall
    <3>2. QED
      BY <1>1, <2>1, <3>1, EmptyInOrder DEF Order
  <2>3. CASE OnStream
    BY <1>1, <2>1, <2>3 DEF Order, OnStream
  <2>4. QED
    BY <1>6, <2>2, <2>3
<1>7. CASE Settle
  <2>1. cur'.chunk \in {0, cur.chunk}
    BY <1>1, <1>7, CursorMoves
  <2>2. CASE Throws({})
    BY <1>5, <2>1, <2>2
  <2>3. CASE \E k \in {"rows", "chunks"}, e \in BOOLEAN :
               /\ Returns(k, built, e)
               /\ k = "rows" => call.kind \in RowCalls
               /\ k = "chunks" => call.kind \in Draining \/ built = <<>>
    <3>1. PICK k \in {"rows", "chunks"} :
            /\ given' = given \o built /\ built' = <<>> /\ call' = NoCall
            /\ used' = IF built = <<>> THEN used ELSE used \cup {k}
            /\ k = "rows" => call.kind \in RowCalls
            /\ k = "chunks" => call.kind \in Draining \/ built = <<>>
      BY <2>3 DEF Returns
    <3>2. CASE built = <<>>
      <4>1. given' = given /\ used' = used
        BY <1>1, <3>1, <3>2, ConcatEmptySeq
      <4>2. QED
        BY <1>1, <1>3, <2>1, <3>1, <4>1, EmptyInOrder DEF Order
    <3>3. CASE built # <<>>
      <4>1. used' = used \cup {k}
        BY <3>1, <3>3
      <4>2. used' # {"rows", "chunks"} => Sorted(given')
        <5>1. SUFFICES ASSUME used' # {"rows", "chunks"} PROVE Sorted(given \o built)
          BY <3>1
        <5>2. used # {"rows", "chunks"}
          BY <1>1, <4>1, <5>1
        <5>3. AllBefore(given, built)
          <6>1. CASE k = "rows"
            BY <1>1, <3>1, <4>1, <5>1, <6>1 DEF Order
          <6>2. CASE k = "chunks"
            BY <1>1, <3>1, <3>3, <4>1, <5>1, <6>2 DEF Order
          <6>3. QED
            BY <6>1, <6>2
        <5>4. QED
          BY <1>1, <5>2, <5>3, SortedConcat DEF Order
      <4>3. cur'.chunk # 0 /\ "chunks" \notin used' => UpTo(given', cur'.chunk)
        <5>1. SUFFICES ASSUME cur'.chunk # 0, "chunks" \notin used' PROVE UpTo(given \o built, cur.chunk)
          BY <2>1, <3>1
        <5>2. cur.chunk # 0 /\ "chunks" \notin used /\ call.kind \in RowCalls
          BY <2>1, <3>1, <4>1, <5>1
        <5>3. QED
          BY <1>1, <5>2, UpToConcat DEF Order
      <4>4. QED
        BY <1>3, <3>1, <4>2, <4>3, EmptyInOrder DEF Order
    <3>4. QED
      BY <3>2, <3>3
  <2>4. QED
    BY <1>7, <2>2, <2>3 DEF Settle
<1>8. CASE Whole
  <2>0. built = <<>>
    BY <1>1, <1>8 DEF Whole, Idle, CallInv, NoCall
  <2>1. CASE Returns("chunks", fresh, FALSE)
    <3>1. /\ given' = given \o fresh /\ built' = <<>> /\ call' = NoCall
          /\ used' = IF fresh = <<>> THEN used ELSE used \cup {"chunks"}
      BY <2>1 DEF Returns
    <3>2. used' # {"rows", "chunks"} => Sorted(given')
      <4>1. used' # {"rows", "chunks"} => used # {"rows", "chunks"}
        BY <3>1
      <4>2. QED
        BY <1>1, <1>4, <1>8, <3>1, <4>1, SortedConcat DEF Order
    <3>3. cur'.chunk # 0 /\ "chunks" \notin used' => UpTo(given', cur'.chunk)
      <4>1. SUFFICES ASSUME cur'.chunk # 0, "chunks" \notin used' PROVE UpTo(given', cur.chunk)
        BY <1>4, <1>8
      <4>2. fresh = <<>> /\ used' = used
        BY <3>1, <4>1
      <4>3. given' = given
        BY <1>1, <3>1, <4>2, ConcatEmptySeq
      <4>4. QED
        BY <1>1, <1>4, <1>8, <4>1, <4>2, <4>3 DEF Order
    <3>4. QED
      BY <1>3, <3>1, <3>2, <3>3, EmptyInOrder DEF Order
  <2>2. CASE Throws(Range(fresh))
    BY <1>4, <1>5, <1>8, <2>2
  <2>3. QED
    BY <1>8, <2>1, <2>2 DEF Whole, fresh
<1>9. CASE pull_chunk
  <2>1. /\ given' = given /\ built' = built \o fresh /\ used' = used /\ call' = call
        /\ call.kind \in Draining
    BY <1>9 DEF pull_chunk, fresh
  <2>2. Sorted(built \o fresh)
    BY <1>1, <1>4, <1>9, SortedConcat DEF Order
  <2>3. "rows" \notin used => AllBefore(given, built \o fresh)
    BY <1>1, <1>4, <1>9, <2>1, AllBeforeConcat DEF Order
  <2>4. QED
    BY <1>1, <1>3, <1>4, <1>9, <2>1, <2>2, <2>3 DEF Order
<1>10. CASE next_chunk
  <2>1. /\ given' = given /\ built' = built /\ used' = used /\ call' = call
        /\ cur'.chunk \in {0, cur.fetched + 1}
    BY <1>1, <1>10, CursorMoves DEF next_chunk
  <2>2. UpTo(given, cur.fetched + 1) /\ UpTo(built, cur.fetched + 1)
    <3>1. \A r \in Rows : r[1] \in Nat
      BY <1>1, RowsAreFinite
    <3>2. QED
      BY <1>1, <1>2, <3>1 DEF UpTo
  <2>3. QED
    BY <1>1, <2>1, <2>2 DEF Order
<1>11. CASE build_row
  <2>0. call.kind \in RowCalls /\ cur.chunk # 0
    BY <1>11 DEF build_row, Asks, HasRow, RowCalls
  <2>1. row \in Ahead /\ cur'.chunk = cur.chunk /\ row \in Rows /\ row[1] = cur.chunk
    BY <1>1, <1>11, CursorMoves DEF row, Ahead
  <2>2. CASE Throws({row})
    BY <1>5, <2>1, <2>2
  <2>3. CASE built' = Append(built, row) /\ call'.kind = call.kind /\ UNCHANGED <<given, used>>
    <3>1. PICK one : one = <<row>>
      OBVIOUS
    <3>2. one \in Seq(Rows) /\ Len(one) = 1 /\ DOMAIN one = {1} /\ one[1] = row /\ Append(built, row) = built \o one
      BY <1>1, <2>1, <3>1, AppendRow
    <3>3. \A r \in Rows : r \notin Ahead /\ r[1] <= cur.chunk => Before(r, row)
      BY NextRowIsLater DEF row
    <3>4. Sorted(one) /\ UpTo(one, cur.chunk)
      BY <1>1, <2>1, <3>2 DEF Sorted, UpTo
    <3>5. UpTo(built, cur.chunk)
      BY <1>1, <2>0 DEF Order
    <3>6. AllBefore(built, one)
      BY <1>2, <3>2, <3>3, <3>5 DEF AllBefore, UpTo
    <3>7. Sorted(built')
      BY <1>1, <2>3, <3>2, <3>4, <3>6, SortedConcat DEF Order
    <3>8. UpTo(built', cur.chunk)
      BY <1>1, <2>3, <3>2, <3>4, <3>5, UpToConcat
    <3>9. "chunks" \notin used => AllBefore(given, built')
      <4>1. SUFFICES ASSUME "chunks" \notin used PROVE AllBefore(given, built \o one)
        BY <2>3, <3>2
      <4>2. AllBefore(given, built) /\ UpTo(given, cur.chunk)
        BY <1>1, <2>0, <4>1 DEF Order
      <4>3. AllBefore(given, one)
        BY <1>2, <3>2, <3>3, <4>2 DEF AllBefore, UpTo
      <4>4. QED
        BY <1>1, <3>2, <4>2, <4>3, AllBeforeConcat
    <3>10. QED
      BY <1>1, <1>3, <2>0, <2>1, <2>3, <3>7, <3>8, <3>9 DEF Order
  <2>4. QED
    <3>1. call' = [call EXCEPT !.left = IF @ > 0 THEN @ - 1 ELSE 0] => call'.kind = call.kind
      BY <1>1 DEF Types, Calls
    <3>2. QED
      BY <1>11, <2>2, <2>3, <3>1 DEF build_row, row
<1>12. QED
  BY <1>6, <1>7, <1>8, <1>9, <1>10, <1>11

\* The count of the rows returned: a row is returned when it leaves Ahead, once.
LEMMA CountMoves ==
  ASSUME CursorInv, UNCHANGED fixedVars,
         Start \/ OnStream \/ Whole \/ Settle \/ next_chunk \/ build_row \/ pull_chunk
  PROVE  Counts'
<1>1. /\ Types /\ CallInv /\ Counts /\ UNCHANGED chunks /\ Ahead \subseteq Rows
      /\ cur.returned \in Nat /\ call.kind \in RowCalls \cup Draining \cup {"none"} /\ call.left \in Nat
      /\ call = [kind |-> call.kind, left |-> call.left]
  BY DEF CursorInv, fixedVars, Types, Cursors, Calls, Ahead
<1>2. /\ IsFiniteSet(Rows) /\ Cardinality(Rows) \in Nat /\ Rows' = Rows
      /\ IsFiniteSet(Rows \ Ahead) /\ Cardinality(Rows \ Ahead) \in Nat
  BY <1>1, RowsAreFinite, RowsStay, FS_Subset, FS_CardinalityType
<1>3. Whole \/ Settle => (call'.kind = "none" \/ call' = call)
  BY DEF Whole, Settle, Returns, Throws, NoCall
<1>4. CASE Start \/ OnStream \/ Settle \/ next_chunk
  <2>1. Ahead' = Ahead /\ cur'.returned = cur.returned
    BY <1>1, <1>4, CursorMoves
  <2>2. call'.kind = "fetchall" => call'.left + cur.returned = Cardinality(Rows)
    <3>1. CASE Start
      <4>1. PICK k \in RowCalls \cup Draining, n \in Nat :
              Begins(k, n) /\ (k = "fetchall" => n + cur.returned = Cardinality(Rows))
        BY <3>1 DEF Start
      <4>2. QED
        BY <4>1 DEF Begins
    <3>2. CASE OnStream \/ next_chunk
      BY <1>1, <3>2 DEF OnStream, next_chunk, Counts
    <3>3. CASE Settle
      <4>1. call'.kind = "none"
        BY <3>3 DEF Settle, Returns, Throws, NoCall
      <4>2. QED
        BY <4>1
    <3>4. QED
      BY <1>4, <3>1, <3>2, <3>3
  <2>3. QED
    BY <1>1, <1>2, <2>1, <2>2 DEF Counts
<1>5. CASE Whole \/ pull_chunk
  <2>1. /\ Ahead' \subseteq Ahead /\ cur'.returned = cur.returned
    BY <1>1, <1>5, CursorMoves
  <2>2. Cardinality(Rows \ Ahead) <= Cardinality(Rows \ Ahead') /\ Cardinality(Rows \ Ahead') \in Nat
    <3>1. Rows \ Ahead \subseteq Rows \ Ahead' /\ Rows \ Ahead' \subseteq Rows
      BY <2>1
    <3>2. IsFiniteSet(Rows \ Ahead')
      BY <1>2, <3>1, FS_Subset
    <3>3. QED
      BY <3>1, <3>2, FS_Subset, FS_CardinalityType
  <2>3. call'.kind # "fetchall"
    BY <1>5 DEF Whole, Returns, Throws, NoCall, pull_chunk, Draining
  <2>4. QED
    BY <1>1, <1>2, <2>1, <2>2, <2>3 DEF Counts
<1>6. CASE build_row
  <2> DEFINE row == <<cur.chunk, cur.cursor + 1>>
  <2>1. row \in Ahead /\ Ahead' = Ahead \ {row} /\ cur'.returned = cur.returned + 1
    BY <1>1, <1>6, CursorMoves
  <2> HIDE DEF row
  <2>2. Rows \ Ahead' = (Rows \ Ahead) \cup {row} /\ row \notin Rows \ Ahead
    BY <1>1, <2>1
  <2>3. Cardinality(Rows \ Ahead') = Cardinality(Rows \ Ahead) + 1
    BY <1>2, <2>2, FS_AddElement
  <2>4. call'.kind = "fetchall" => call'.left + (cur.returned + 1) = Cardinality(Rows)
    <3>1. CASE call' = [call EXCEPT !.left = IF @ > 0 THEN @ - 1 ELSE 0]
      <4>1. PICK n : n = IF call.left > 0 THEN call.left - 1 ELSE 0
        OBVIOUS
      <4>2. call' = [kind |-> call.kind, left |-> n]
        BY <1>1, <3>1, <4>1
      <4>3. call'.kind = call.kind /\ call'.left = n
        BY <4>2
      <4>4. call.kind = "fetchall" => call.left > 0
        BY <1>6 DEF build_row, Asks
      <4>5. QED
        BY <1>1, <1>2, <4>1, <4>3, <4>4 DEF Counts
    <3>2. CASE Throws({row})
      BY <3>2 DEF Throws, NoCall
    <3>3. QED
      BY <1>6, <3>1, <3>2 DEF build_row, row
  <2>5. QED
    BY <1>1, <1>2, <2>1, <2>3, <2>4 DEF Counts
<1>7. QED
  BY <1>4, <1>5, <1>6

-----------------------------------------------------------------------------
(* Theorems.                                                               *)

\* A new Result: all its rows are ahead, none is built, given or lost.
LEMMA InitEstablishes == Init => CursorInv
<1> SUFFICES ASSUME Init PROVE CursorInv
  OBVIOUS
<1>1. /\ chunks \in UNION {[1 .. n -> 0 .. MaxRows] : n \in 0 .. MaxChunks}
      /\ streaming \in BOOLEAN
      /\ reach \in IF EngineFails /\ streaming THEN 0 .. Len(chunks) ELSE {Len(chunks)}
      /\ single \in BOOLEAN /\ fast \in BOOLEAN
      /\ cur = [chunk |-> 0, cursor |-> 0, fetched |-> 0, returned |-> 0]
      /\ stream = "none" /\ call = NoCall
      /\ built = <<>> /\ given = <<>> /\ lost = {} /\ used = {} /\ end = FALSE
  BY DEF Init
<1>2. chunks \in Seq(0 .. MaxRows) /\ Len(chunks) \in Nat
  <2>1. PICK n \in 0 .. MaxChunks : chunks \in [1 .. n -> 0 .. MaxRows]
    BY <1>1
  <2>2. n \in Nat
    BY BoundsAreNat
  <2>3. chunks \in Seq(0 .. MaxRows)
    BY <2>1, <2>2, SeqDef
  <2>4. QED
    BY <2>3, LenProperties
<1>3. reach \in 0 .. Len(chunks) /\ Reaches
  BY <1>1, <1>2, EngineFailsIsBoolean DEF Reaches
<1>4. cur \in Cursors /\ cur.chunk = 0 /\ cur.cursor = 0 /\ cur.fetched = 0 /\ cur.returned = 0
  BY <1>1, <1>3, <1>2 DEF Cursors
<1>5. Types /\ CallInv
  <2>1. call \in Calls /\ call.kind = "none"
    BY <1>1 DEF Calls, NoCall
  <2>2. <<>> \in Seq(Rows)
    BY EmptySeq
  <2>3. QED
    <3>1. CallInv
      BY <1>1, <2>1 DEF CallInv
    <3>2. built \in Seq(Rows) /\ given \in Seq(Rows) /\ lost \subseteq Rows /\ used \subseteq {"rows", "chunks"}
      BY <1>1, <2>2
    <3>3. cur.chunk <= cur.fetched
      BY <1>4
    <3>4. stream \in {"none", "open", "done"} /\ streaming \in BOOLEAN /\ single \in BOOLEAN /\ fast \in BOOLEAN /\ end \in BOOLEAN
      BY <1>1
    <3>5. QED
      BY <1>2, <1>3, <1>4, <2>1, <3>1, <3>2, <3>3, <3>4 DEF Types
<1>6. Ahead = Rows
  <2>1. \A r \in Rows : r[1] > 0
    BY <1>5, RowsAreFinite
  <2>2. QED
    BY <1>4, <2>1 DEF Ahead
<1>7. Parted(given \o built, lost, Ahead)
  <2>1. given \o built = <<>> /\ DOMAIN (<<>>) = {} /\ Range(<<>>) = {}
    <3>1. <<>> \o <<>> = <<>>
      OBVIOUS
    <3>2. QED
      BY <1>1, <3>1 DEF Range
  <2>2. QED
    BY <1>1, <1>6, <2>1 DEF Parted
<1>8. Order
  BY <1>1, EmptyInOrder DEF Order
<1>9. Counts
  <2>1. Rows \ Ahead = {} /\ Cardinality({}) = 0
    BY <1>6, FS_EmptySet
  <2>2. Cardinality(Rows \ Ahead) = 0
    BY <2>1
  <2>3. call.kind # "fetchall"
    BY <1>1 DEF NoCall
  <2>4. QED
    BY <1>4, <2>2, <2>3 DEF Counts
<1>10. QED
  BY <1>3, <1>5, <1>7, <1>8, <1>9 DEF CursorInv

\* Every step keeps the invariant.
LEMMA StepKeeps == CursorInv /\ [Next]_vars => CursorInv'
<1> SUFFICES ASSUME CursorInv, [Next]_vars PROVE CursorInv'
  OBVIOUS
<1>1. CASE Next
  <2>1. UNCHANGED fixedVars
    BY ResultIsFixed
  <2>2. Start \/ OnStream \/ Whole \/ Settle \/ next_chunk \/ build_row \/ pull_chunk
    BY <1>1, Moves DEF CursorInv
  <2>3. /\ cur' \in [chunk : Nat, cursor : Nat, fetched : 0 .. reach, returned : Nat]
        /\ cur'.chunk <= cur'.fetched
        /\ cur'.chunk # 0 => cur'.cursor <= chunks[cur'.chunk]
    BY <2>1, <2>2, CursorMoves DEF CursorInv
  <2>4. /\ built' \in Seq(Rows) /\ given' \in Seq(Rows) /\ lost' \subseteq Rows
        /\ Parted(given' \o built', lost', Ahead')
    BY <2>1, <2>2, ListMoves
  <2>5. /\ stream' \in {"none", "open", "done"} /\ call' \in Calls
        /\ end' \in BOOLEAN /\ used' \subseteq {"rows", "chunks"} /\ CallInv'
    BY <2>1, <2>2, CallMoves
  <2>6. UNCHANGED <<chunks, reach, streaming, single, fast>> /\ Rows' = Rows
    BY <2>1, RowsStay DEF fixedVars
  <2>7. Types'
    BY <2>3, <2>4, <2>5, <2>6 DEF CursorInv, Types, Cursors, Calls
  <2>8. Parted(given \o built, lost, Ahead)'
    BY <2>4, <2>6 DEF Parted
  <2>9. Reaches'
    BY <2>6 DEF CursorInv, Reaches
  <2>10. Order' /\ Counts'
    BY <2>1, <2>2, OrderMoves, CountMoves
  <2>11. QED
    BY <2>5, <2>7, <2>8, <2>9, <2>10 DEF CursorInv
<1>2. CASE UNCHANGED vars
  <2>1. UNCHANGED chunks /\ UNCHANGED cur /\ Rows' = Rows /\ Ahead' = Ahead
    BY <1>2, RowsStay DEF vars, fixedVars
  <2>2. QED
    BY <1>2, <2>1 DEF CursorInv, vars, fixedVars, Types, Cursors, CallInv, Parted, Order, Counts, Reaches
<1>3. QED
  BY <1>1, <1>2

\* The rows, the cursor and the call under way fit together in every state.
THEOREM CursorTheorem == Spec => []CursorInv
  BY InitEstablishes, StepKeeps, PTL DEF Spec

\* Type correctness; no call returns more rows than there are.
THEOREM TypeTheorem == Spec => []TypeOK
<1>1. CursorInv => TypeOK
  <2> SUFFICES ASSUME CursorInv PROVE TypeOK
    OBVIOUS
  <2>2. /\ Types /\ cur.returned \in Nat /\ cur.returned <= Cardinality(Rows \ Ahead)
        /\ cur \in Cursors
    <3>1. Types /\ Counts /\ cur \in Cursors
      BY DEF CursorInv, Types
    <3>2. QED
      BY <3>1 DEF Cursors, Counts
  <2>3. /\ IsFiniteSet(Rows) /\ Cardinality(Rows) \in Nat
        /\ Cardinality(Rows \ Ahead) <= Cardinality(Rows) /\ Cardinality(Rows \ Ahead) \in Nat
    BY <2>2, RowsAreFinite, FS_Subset, FS_CardinalityType
  <2>4. cur.returned \in 0 .. Cardinality(Rows)
    BY <2>2, <2>3
  <2>5. cur \in [chunk : Nat, cursor : Nat, fetched : 0 .. reach, returned : 0 .. Cardinality(Rows)]
    BY <2>2, <2>4 DEF Cursors
  <2>6. QED
    BY <2>2, <2>5 DEF Types, TypeOK, Calls
<1>2. QED
  BY <1>1, CursorTheorem, PTL

\* However row calls, chunk calls and streams are mixed, and whichever of them throw, every
\* row is given once, or lost once, or can still be fetched.
THEOREM EveryRowOnceTheorem == Spec => []EveryRowOnce
<1>1. CursorInv => EveryRowOnce
  BY DEF CursorInv, Parted, EveryRowOnce
<1>2. QED
  BY <1>1, CursorTheorem, PTL

\* A caller that keeps to one kind of call gets the rows in the result's order.
THEOREM InOrderTheorem == Spec => []InOrder
<1>1. CursorInv => InOrder
  BY DEF CursorInv, Order, Sorted, InOrder
<1>2. QED
  BY <1>1, CursorTheorem, PTL

\* With every chunk fetched and none under the cursor no row is ahead.
LEMMA NothingAhead ==
  ASSUME CursorInv, ~EngineFails, cur.chunk = 0, cur.fetched = reach
  PROVE  Ahead = {}
<1>1. \A r \in Rows : r[1] \in Nat /\ r[1] # 0 /\ r[1] <= Len(chunks)
  BY RowsAreFinite DEF CursorInv
<1>2. cur.fetched = Len(chunks) /\ Len(chunks) \in Nat
  BY RowsAreFinite DEF CursorInv, Reaches
<1>3. QED
  BY <1>1, <1>2 DEF Ahead

\* While the engine does not fail, a row call that reports the end is right.
THEOREM EndIsTheEndTheorem == ASSUME ~EngineFails PROVE Spec => []EndIsTheEnd
<1>1. CursorInv => EndIsTheEnd
  BY NothingAhead DEF CursorInv, CallInv, EndIsTheEnd
<1>2. QED
  BY <1>1, CursorTheorem, PTL

\* A fetchall that returns leaves no row: its row count, less the rows returned, is never
\* too short, and the loop that does not count runs to the end.
THEOREM FetchAllTheorem == ASSUME ~EngineFails PROVE Spec => FetchAllTakesAll
<1>1. ASSUME CursorInv, CursorInv', [Next]_vars,
             call.kind \in {"fetchall", "fetchrest"}, rounds_done \/ no_more_rows
      PROVE  Ahead' = {}
  <2>1. UNCHANGED chunks /\ UNCHANGED reach
    BY <1>1, ResultIsFixed DEF fixedVars
  <2>2. CASE rounds_done
    <3>1. call.kind = "fetchall" /\ call.left = 0 /\ cur' = cur
      BY <1>1, <2>2 DEF rounds_done, Counted
    <3>2. /\ cur.returned = Cardinality(Rows) /\ cur.returned <= Cardinality(Rows \ Ahead)
          /\ cur.returned \in Nat /\ Types
      BY <1>1, <3>1 DEF CursorInv, Counts, Types, Cursors
    <3>3. IsFiniteSet(Rows) /\ Cardinality(Rows) \in Nat
      BY <3>2, RowsAreFinite
    <3>4. IsFiniteSet(Rows \ Ahead) /\ Cardinality(Rows \ Ahead) \in Nat
          /\ Cardinality(Rows \ Ahead) <= Cardinality(Rows)
      BY <3>3, FS_Subset, FS_CardinalityType
    <3>5. Rows \ Ahead = Rows
      BY <3>2, <3>3, <3>4, FS_Subset
    <3>6. Ahead = {}
      BY <3>5 DEF Ahead
    <3>7. QED
      BY <2>1, <3>1, <3>6, RowsStay
  <2>3. CASE no_more_rows
    <3>1. cur'.chunk = 0 /\ cur'.fetched = reach'
      BY <1>1, <2>1, <2>3 DEF no_more_rows, CursorInv, Types, Cursors
    <3>2. \A r \in Rows' : r[1] \in Nat /\ r[1] # 0 /\ r[1] <= Len(chunks)
      BY <1>1, <2>1, RowsAreFinite, RowsStay DEF CursorInv
    <3>3. cur'.fetched = Len(chunks) /\ Len(chunks) \in Nat
      BY <1>1, <2>1, <3>1, RowsAreFinite DEF CursorInv, Reaches
    <3>4. QED
      BY <3>1, <3>2, <3>3 DEF Ahead
  <2>4. QED
    BY <1>1, <2>2, <2>3
<1>2. CursorInv /\ CursorInv' /\ [Next]_vars
        => [call.kind \in {"fetchall", "fetchrest"} /\ (rounds_done \/ no_more_rows) => Ahead' = {}]_vars
  BY <1>1
<1>3. QED
  BY <1>2, CursorTheorem, PTL DEF Spec, FetchAllTakesAll

=============================================================================
