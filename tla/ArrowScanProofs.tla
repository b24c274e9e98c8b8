--------------------------- MODULE ArrowScanProofs ---------------------------
(***************************************************************************)
(* Every row of an Arrow scan is emitted once, for any sources, batches,   *)
(* vector size, plans and number of workers.  The argument: the windows    *)
(* tile the chunks (PulledSchedule); the cursor gives each window to one   *)
(* worker; what was emitted is what is behind the cursor and in nobody's   *)
(* hands (Progress).                                                       *)
(***************************************************************************)
EXTENDS ArrowScan, Integers, SequenceTheorems, FiniteSetTheorems, TLAPS

\* Division, as the window count uses it.
LEMMA DivProperties ==
  ASSUME NEW a \in Nat
  PROVE  /\ a \div VecSize \in Nat
         /\ (a \div VecSize) * VecSize <= a
         /\ a < (a \div VecSize) * VecSize + VecSize
<1>1. \A V \in Nat \ {0} : a \div V \in Nat /\ (a \div V) * V <= a /\ a < (a \div V) * V + V
  BY SMT
<1>2. QED  BY <1>1, VecSizeIsPositive

\* A multiple of the vector size is a whole vector below the next one.
LEMMA Multiples ==
  ASSUME NEW a \in Int, NEW b \in Int, a < b
  PROVE  /\ a * VecSize \in Int /\ b * VecSize \in Int
         /\ a * VecSize + VecSize <= b * VecSize
<1>1. \A V \in Nat \ {0} : a * V \in Int /\ b * V \in Int /\ a * V + V <= b * V
  BY SMT
<1>2. QED  BY <1>1, VecSizeIsPositive

\* The windows of a chunk of size rows are its rows, cut into pieces of VecSize.
LEMMA WindowsTile ==
  ASSUME NEW c \in Nat, NEW size \in Nat \ {0}
  PROVE  LET W == WindowsOf(c, size) IN
         /\ W \in Seq(Window)
         /\ \A k \in DOMAIN W : /\ W[k].chunk = c
                                 /\ W[k].offset + W[k].count <= size
                                 /\ W[k].count \in 1 .. VecSize
         /\ \A j, k \in DOMAIN W : j # k => Offsets(W[j]) \cap Offsets(W[k]) = {}
         /\ UNION {Offsets(W[k]) : k \in DOMAIN W} = 0 .. size - 1
<1> DEFINE m == (size + VecSize - 1) \div VecSize
           Begin(k) == (k - 1) * VecSize
           Count(k) == IF size - Begin(k) < VecSize THEN size - Begin(k) ELSE VecSize
           W == WindowsOf(c, size)
<1>1. VecSize \in Nat /\ VecSize > 0 /\ size \in Nat /\ size > 0
  BY VecSizeIsPositive
<1>2. m \in Nat /\ m * VecSize <= size + VecSize - 1 /\ size - 1 < m * VecSize
  <2>1. size + VecSize - 1 \in Nat
    BY <1>1
  <2>2. m * VecSize \in Int
    BY <1>1, <2>1, DivProperties
  <2>3. QED  BY <1>1, <2>1, <2>2, DivProperties
<1>3. /\ DOMAIN W = 1 .. m
      /\ \A k \in 1 .. m : W[k] = [chunk |-> c, offset |-> Begin(k), count |-> Count(k)]
  BY DEF WindowsOf
<1> HIDE DEF m
<1>4. ASSUME NEW k \in 1 .. m
      PROVE  /\ Begin(k) \in Nat /\ Begin(k) < size
             /\ Count(k) \in 1 .. VecSize /\ Begin(k) + Count(k) <= size
             /\ Begin(k) + Count(k) <= Begin(k) + VecSize
  <2>1. Begin(k) \in Int /\ Begin(k) >= 0
    BY <1>1, <1>2
  <2>2. Begin(k) + VecSize <= m * VecSize
    <3>1. k - 1 \in Int /\ m \in Int /\ k - 1 < m
      BY <1>2
    <3>2. QED  BY <3>1, Multiples
  <2>3. m * VecSize \in Int
    BY <1>1, <1>2
  <2>4. Begin(k) < size
    BY <2>1, <2>2, <2>3, <1>1, <1>2
  <2> HIDE DEF Begin
  <2>5. QED  BY <2>1, <2>4, <1>1
<1>5. W \in Seq(Window)
  <2>1. ASSUME NEW k \in 1 .. m PROVE W[k] \in Window
    <3>1. Begin(k) \in Nat /\ Count(k) \in Nat
      BY <1>1, <1>4
    <3> HIDE DEF Begin, Count
    <3>2. QED  BY <3>1, <1>3 DEF Window
  <2>2. W = [k \in 1 .. m |-> W[k]]
    BY <1>3 DEF WindowsOf, m
  <2>3. QED  BY <2>1, <2>2, <1>2
<1>6. ASSUME NEW j \in 1 .. m, NEW k \in 1 .. m, j < k
      PROVE  Begin(j) + Count(j) <= Begin(k)
  <2>1. Begin(j) + VecSize <= Begin(k) /\ Begin(j) \in Int /\ Begin(k) \in Int
    <3>1. j - 1 \in Int /\ k - 1 \in Int /\ j - 1 < k - 1
      BY <1>2, <1>6
    <3>2. QED  BY <3>1, Multiples
  <2> HIDE DEF Begin
  <2>2. QED  BY <2>1, <1>1, <1>4
<1>7. \A j, k \in 1 .. m : j # k => Offsets(W[j]) \cap Offsets(W[k]) = {}
  <2>1. \A j, k \in 1 .. m : j < k => Offsets(W[j]) \cap Offsets(W[k]) = {}
    <3> SUFFICES ASSUME NEW j \in 1 .. m, NEW k \in 1 .. m, j < k,
                        NEW r \in Offsets(W[j]) \cap Offsets(W[k])
                 PROVE  FALSE
      OBVIOUS
    <3>1. r \in Begin(j) .. Begin(j) + Count(j) - 1 /\ r \in Begin(k) .. Begin(k) + Count(k) - 1
      BY <1>3 DEF Offsets
    <3>2. Begin(j) + Count(j) <= Begin(k) /\ Begin(j) \in Nat /\ Begin(k) \in Nat /\ Count(j) \in Nat
      BY <1>1, <1>4, <1>6
    <3> HIDE DEF Begin, Count
    <3>3. QED  BY <3>1, <3>2
  <2>2. QED  BY <2>1, <1>2
<1>8. UNION {Offsets(W[k]) : k \in 1 .. m} = 0 .. size - 1
  <2>1. ASSUME NEW k \in 1 .. m PROVE Offsets(W[k]) \subseteq 0 .. size - 1
    <3>1. Offsets(W[k]) = Begin(k) .. Begin(k) + Count(k) - 1
      BY <1>3 DEF Offsets
    <3>2. Begin(k) \in Nat /\ Count(k) \in Nat /\ Begin(k) + Count(k) <= size
      BY <1>1, <1>4
    <3> HIDE DEF Begin, Count
    <3>3. QED  BY <3>1, <3>2, <1>1
  <2>2. ASSUME NEW r \in 0 .. size - 1 PROVE \E k \in 1 .. m : r \in Offsets(W[k])
    <3> DEFINE k == (r \div VecSize) + 1
    <3>1. r \div VecSize \in Nat /\ (r \div VecSize) * VecSize <= r
          /\ r < (r \div VecSize) * VecSize + VecSize
      BY <1>1, DivProperties
    <3>2. k \in Nat /\ Begin(k) = (r \div VecSize) * VecSize
      BY <3>1
    <3>3. k <= m
      <4>1. ASSUME m < k PROVE FALSE
        <5>1. m <= k - 1 /\ k - 1 = r \div VecSize
          BY <4>1, <3>1, <1>2
        <5>2. m * VecSize <= Begin(k)
          <6>1. CASE m = k - 1
            BY <6>1, <1>1, <1>2, <3>2, <5>1
          <6>2. CASE m < k - 1
            <7>1. m \in Int /\ k - 1 \in Int
              BY <1>2, <3>2
            <7>2. m * VecSize + VecSize <= (k - 1) * VecSize /\ m * VecSize \in Int
                  /\ (k - 1) * VecSize \in Int
              BY <6>2, <7>1, Multiples
            <7>3. QED  BY <7>2, <1>1
          <6>3. QED  BY <5>1, <6>1, <6>2, <1>2, <3>2
        <5>3. m * VecSize \in Int /\ Begin(k) \in Int
          BY <1>1, <1>2, <3>2
        <5>4. Begin(k) <= r /\ r \in Nat /\ r <= size - 1
          BY <3>1, <3>2, <1>1
        <5> HIDE DEF Begin, k
        <5>5. QED  BY <5>2, <5>3, <5>4, <1>1, <1>2
      <4>2. QED  BY <4>1, <1>2, <3>2
    <3>4. k \in 1 .. m
      BY <3>1, <3>3, <1>2
    <3>5. Begin(k) <= r /\ r < Begin(k) + VecSize /\ r < size /\ Begin(k) \in Nat
      BY <3>1, <3>2, <1>1
    <3>6. r \in Begin(k) .. Begin(k) + Count(k) - 1
      <4> HIDE DEF k, Begin
      <4>1. QED  BY <3>5, <1>1
    <3>7. r \in Offsets(W[k])
      BY <3>4, <3>6, <1>3 DEF Offsets
    <3>8. QED  BY <3>4, <3>7
  <2>3. QED  BY <2>1, <2>2
<1>9. QED
  <2>1. \A k \in 1 .. m : /\ W[k].chunk = c
                          /\ W[k].offset + W[k].count <= size
                          /\ W[k].count \in 1 .. VecSize
    BY <1>3, <1>4
  <2>2. QED  BY <2>1, <1>3, <1>5, <1>7, <1>8

-----------------------------------------------------------------------------
(* The schedule of one execution: Rows(st, i) are those of its i-th window. *)

Rows(st, i) == {st.windows[i].chunk} \X Offsets(st.windows[i])
Chunk(st, c) == {c} \X (0 .. st.chunks[c] - 1)

\* The windows tile the chunks.
Schedule(st) ==
  /\ \A i \in DOMAIN st.windows :
       /\ st.windows[i].chunk \in DOMAIN st.chunks
       /\ st.windows[i].offset + st.windows[i].count <= st.chunks[st.windows[i].chunk]
       /\ st.windows[i].count \in 1 .. VecSize
  /\ \A i, j \in DOMAIN st.windows : i # j => Rows(st, i) \cap Rows(st, j) = {}
  /\ UNION {Rows(st, i) : i \in DOMAIN st.windows} = UNION {Chunk(st, c) : c \in DOMAIN st.chunks}

\* One more batch keeps the schedule complete.
LEMMA PulledSchedule ==
  ASSUME NEW st \in State, Schedule(st), NEW n \in Nat
  PROVE  Pulled(st, n) \in State /\ Schedule(Pulled(st, n))
<1>1. /\ st.pulled \in Nat /\ st.chunks \in Seq(Nat) /\ st.windows \in Seq(Window)
      /\ st.next \in Nat /\ st.src \in Sources \cup {None}
      /\ st = [src |-> st.src, pulled |-> st.pulled, chunks |-> st.chunks,
               windows |-> st.windows, next |-> st.next]
  BY DEF State
<1>2. CASE n = 0
  <2>1. Pulled(st, n) = [st EXCEPT !.pulled = @ + 1]
    BY <1>2 DEF Pulled
  <2>2. Pulled(st, n).chunks = st.chunks /\ Pulled(st, n).windows = st.windows
    BY <2>1, <1>1
  <2>3. Pulled(st, n) \in State
    BY <2>1, <1>1 DEF State
  <2>4. QED  BY <2>2, <2>3 DEF Schedule, Rows, Chunk
<1>3. CASE n # 0
  <2> DEFINE L == Len(st.windows)
             C == Len(st.chunks)
             W == WindowsOf(C + 1, n)
             new == Pulled(st, n)
  <2>1. /\ new.chunks = Append(st.chunks, n) /\ new.windows = st.windows \o W
        /\ new.pulled = st.pulled + 1 /\ new.next = st.next /\ new.src = st.src
        /\ new = [src |-> new.src, pulled |-> new.pulled, chunks |-> new.chunks,
                  windows |-> new.windows, next |-> new.next]
    BY <1>1, <1>3 DEF Pulled
  <2>2. C \in Nat /\ L \in Nat /\ C + 1 \in Nat
    BY <1>1
  <2>3. /\ W \in Seq(Window)
        /\ \A k \in DOMAIN W : /\ W[k].chunk = C + 1
                                /\ W[k].offset + W[k].count <= n
                                /\ W[k].count \in 1 .. VecSize
        /\ \A j, k \in DOMAIN W : j # k => Offsets(W[j]) \cap Offsets(W[k]) = {}
        /\ UNION {Offsets(W[k]) : k \in DOMAIN W} = 0 .. n - 1
    BY <2>2, <1>3, WindowsTile
  <2> HIDE DEF W, new
  <2>4. /\ new.chunks \in Seq(Nat) /\ Len(new.chunks) = C + 1
        /\ DOMAIN new.chunks = 1 .. C + 1 /\ DOMAIN st.chunks = 1 .. C
        /\ new.chunks[C + 1] = n
        /\ \A c \in 1 .. C : new.chunks[c] = st.chunks[c]
    BY <2>1, <1>1
  <2>5. /\ new.windows \in Seq(Window) /\ Len(W) \in Nat
        /\ DOMAIN new.windows = 1 .. L + Len(W)
        /\ DOMAIN st.windows = 1 .. L /\ DOMAIN W = 1 .. Len(W)
        /\ \A i \in 1 .. L : new.windows[i] = st.windows[i]
        /\ \A k \in 1 .. Len(W) : new.windows[L + k] = W[k]
    BY <2>1, <2>3, <1>1, SMTT(30)
  <2>6. new \in State
    <3>1. /\ new.src \in Sources \cup {None} /\ new.pulled \in Nat /\ new.next \in Nat
          /\ new.chunks \in Seq(Nat) /\ new.windows \in Seq(Window)
      BY <2>1, <2>4, <2>5, <1>1
    <3>2. QED  BY <2>1, <3>1 DEF State
  <2>7. ASSUME NEW i \in DOMAIN new.windows
        PROVE  i \in 1 .. L \/ (i \notin 1 .. L /\ i - L \in 1 .. Len(W) /\ i = L + (i - L))
    BY <2>2, <2>5, SMTT(30)
  <2>8. \A i \in 1 .. L : Rows(new, i) = Rows(st, i) /\ st.windows[i].chunk \in 1 .. C
    BY <2>4, <2>5 DEF Rows, Schedule
  <2>9. \A k \in 1 .. Len(W) : Rows(new, L + k) = {C + 1} \X Offsets(W[k])
    BY <2>3, <2>5, SMTT(30) DEF Rows
  <2>10. ASSUME NEW i \in DOMAIN new.windows
         PROVE  /\ new.windows[i].chunk \in DOMAIN new.chunks
                /\ new.windows[i].offset + new.windows[i].count
                     <= new.chunks[new.windows[i].chunk]
                /\ new.windows[i].count \in 1 .. VecSize
    <3>1. CASE i \in 1 .. L
      <4>1. new.windows[i] = st.windows[i] /\ st.windows[i].chunk \in 1 .. C
        BY <3>1, <2>5, <2>8
      <4>2. /\ st.windows[i].offset + st.windows[i].count <= st.chunks[st.windows[i].chunk]
            /\ st.windows[i].count \in 1 .. VecSize
        BY <3>1, <2>5 DEF Schedule
      <4>3. st.windows[i].chunk \in 1 .. C + 1
        BY <4>1, <2>2
      <4>4. QED  BY <4>1, <4>2, <4>3, <2>4
    <3>2. CASE i - L \in 1 .. Len(W) /\ i = L + (i - L)
      <4>1. new.windows[i] = W[i - L]
        BY <3>2, <2>5
      <4>2. C + 1 \in 1 .. C + 1
        BY <2>2
      <4>3. /\ W[i - L].chunk = C + 1 /\ W[i - L].offset + W[i - L].count <= n
            /\ W[i - L].count \in 1 .. VecSize
        BY <3>2, <2>3, <2>5
      <4>4. C + 1 \in DOMAIN new.chunks /\ new.chunks[C + 1] = n
        BY <4>2, <2>4
      <4>5. QED  BY <4>1, <4>3, <4>4
    <3>3. QED  BY <3>1, <3>2, <2>7
  <2>11. ASSUME NEW i \in DOMAIN new.windows, NEW j \in DOMAIN new.windows, i # j
         PROVE  Rows(new, i) \cap Rows(new, j) = {}
    <3>1. CASE i \in 1 .. L /\ j \in 1 .. L
      BY <3>1, <2>5, <2>8, <2>11 DEF Schedule
    <3>2. CASE i \in 1 .. L /\ j \notin 1 .. L
      <4>1. j - L \in 1 .. Len(W) /\ Rows(new, j) = {C + 1} \X Offsets(W[j - L])
        BY <3>2, <2>7, <2>9
      <4>2. st.windows[i].chunk # C + 1
        BY <3>2, <2>2, <2>8
      <4>3. QED  BY <3>2, <4>1, <4>2, <2>8 DEF Rows
    <3>3. CASE i \notin 1 .. L /\ j \in 1 .. L
      <4>1. i - L \in 1 .. Len(W) /\ Rows(new, i) = {C + 1} \X Offsets(W[i - L])
        BY <3>3, <2>7, <2>9
      <4>2. st.windows[j].chunk # C + 1
        BY <3>3, <2>2, <2>8
      <4>3. QED  BY <3>3, <4>1, <4>2, <2>8 DEF Rows
    <3>4. CASE i \notin 1 .. L /\ j \notin 1 .. L
      <4>1. /\ i - L \in 1 .. Len(W) /\ Rows(new, i) = {C + 1} \X Offsets(W[i - L])
            /\ j - L \in 1 .. Len(W) /\ Rows(new, j) = {C + 1} \X Offsets(W[j - L])
        BY <3>4, <2>7, <2>9
      <4>2. i - L # j - L
        BY <2>2, <2>5, <2>11
      <4>3. Offsets(W[i - L]) \cap Offsets(W[j - L]) = {}
        BY <4>1, <4>2, <2>3, <2>5
      <4>4. QED  BY <4>1, <4>3
    <3>5. QED  BY <3>1, <3>2, <3>3, <3>4
  <2>12. UNION {Rows(new, i) : i \in DOMAIN new.windows}
           = UNION {Chunk(new, c) : c \in DOMAIN new.chunks}
    <3> DEFINE NewRows == UNION {Rows(new, i) : i \in DOMAIN new.windows}
               OldRows == UNION {Rows(st, i) : i \in 1 .. L}
               Added   == {C + 1} \X (0 .. n - 1)
               Chunks  == UNION {Chunk(new, c) : c \in DOMAIN new.chunks}
               OldChunks == UNION {Chunk(st, c) : c \in 1 .. C}
    <3>1. NewRows = OldRows \cup Added
      <4>1. ASSUME NEW i \in DOMAIN new.windows, NEW r \in Rows(new, i)
            PROVE  r \in OldRows \cup Added
        <5>1. CASE i \in 1 .. L
          BY <5>1, <4>1, <2>8
        <5>2. CASE i - L \in 1 .. Len(W) /\ i = L + (i - L)
          <6>1. r \in {C + 1} \X Offsets(W[i - L])
            BY <5>2, <4>1, <2>9
          <6>2. Offsets(W[i - L]) \subseteq 0 .. n - 1
            BY <5>2, <2>3, <2>5
          <6>3. PICK o \in Offsets(W[i - L]) : r = <<C + 1, o>>
            BY <6>1
          <6>4. o \in 0 .. n - 1
            BY <6>2, <6>3
          <6>5. r \in {C + 1} \X (0 .. n - 1)
            BY <6>3, <6>4
          <6>6. QED  BY <6>5
        <5>3. QED  BY <5>1, <5>2, <2>7
      <4>2. ASSUME NEW i \in 1 .. L
            PROVE  i \in DOMAIN new.windows /\ Rows(st, i) = Rows(new, i)
        BY <2>2, <2>5, <2>8
      <4>3. ASSUME NEW r \in {C + 1} \X (0 .. n - 1)
            PROVE  \E i \in DOMAIN new.windows : r \in Rows(new, i)
        <5>1. PICK k \in 1 .. Len(W) : r[2] \in Offsets(W[k])
          BY <2>3, <2>5
        <5>2. r = <<C + 1, r[2]>>
          OBVIOUS
        <5>3. r \in {C + 1} \X Offsets(W[k])
          BY <5>1, <5>2
        <5>4. L + k \in DOMAIN new.windows
          BY <2>2, <2>5
        <5>5. QED  BY <5>3, <5>4, <2>9
      <4>4. NewRows \subseteq OldRows \cup Added
        BY <4>1
      <4>5. OldRows \subseteq NewRows
        BY <4>2
      <4>6. Added \subseteq NewRows
        BY <4>3
      <4> HIDE DEF NewRows, OldRows, Added
      <4>7. QED  BY <4>4, <4>5, <4>6
    <3>2. Chunks = OldChunks \cup Added
      <4>1. \A c \in 1 .. C : c \in DOMAIN new.chunks /\ Chunk(new, c) = Chunk(st, c)
        <5> SUFFICES ASSUME NEW c \in 1 .. C
                     PROVE  c \in DOMAIN new.chunks /\ Chunk(new, c) = Chunk(st, c)
          OBVIOUS
        <5>1. c \in DOMAIN new.chunks
          BY <2>2, <2>4
        <5>2. new.chunks[c] = st.chunks[c]
          BY <2>4
        <5>3. Chunk(new, c) = Chunk(st, c)
          BY <5>2 DEF Chunk
        <5>4. QED  BY <5>1, <5>3
      <4>2. C + 1 \in DOMAIN new.chunks /\ Chunk(new, C + 1) = Added
        <5>1. C + 1 \in DOMAIN new.chunks
          BY <2>2, <2>4
        <5>2. new.chunks[C + 1] = n
          BY <2>4
        <5>3. QED  BY <5>1, <5>2 DEF Chunk
      <4>3. ASSUME NEW c \in DOMAIN new.chunks PROVE c \in 1 .. C \/ c = C + 1
        BY <2>2, <2>4
      <4>4. Chunks \subseteq OldChunks \cup Added
        <5> SUFFICES ASSUME NEW c \in DOMAIN new.chunks, NEW r \in Chunk(new, c)
                     PROVE  r \in OldChunks \cup Added
          OBVIOUS
        <5>1. CASE c \in 1 .. C
          BY <5>1, <4>1
        <5>2. CASE c = C + 1
          BY <5>2, <4>2
        <5>3. QED  BY <5>1, <5>2, <4>3
      <4>5. OldChunks \subseteq Chunks
        BY <4>1
      <4>6. Added \subseteq Chunks
        BY <4>2
      <4> HIDE DEF Chunks, OldChunks, Added
      <4>7. QED  BY <4>4, <4>5, <4>6
    <3>3. OldRows = OldChunks
      BY <2>4, <2>5 DEF Schedule
    <3> HIDE DEF NewRows, OldRows, Added, Chunks, OldChunks
    <3>4. NewRows = Chunks
      BY <3>1, <3>2, <3>3
    <3>5. QED  BY <3>4 DEF NewRows, Chunks
  <2>13. Schedule(new)
    BY <2>10, <2>11, <2>12 DEF Schedule
  <2>14. QED  BY <2>6, <2>13 DEF new
<1>4. QED  BY <1>2, <1>3

-----------------------------------------------------------------------------
(* The invariant. *)

\* A plan was made from a source, and sources are replaced but never removed.
SourceKnown(s) ==
  /\ bound[s] # None => registered # None
  /\ phase[s] = "draining" => scan[s].src \in Sources

\* The windows the cursor has passed and no worker has.
Done(s) == {i \in DOMAIN scan[s].windows :
              i < scan[s].next /\ \A w \in Working : work[w].scan = s => work[w].win # i}

Progress(s) ==
  /\ scan[s].next > 0
  /\ phase[s] # "scanning" => scan[s].next = 1 /\ emitted[s] = {}
  /\ emitted[s] = UNION {Rows(scan[s], i) : i \in Done(s)}

\* A worker slices with its own selection vector, and has a window the cursor has passed.
WorkerOK(w) ==
  /\ work[w].pc = "off" => work[w] = Off
  /\ work[w].pc # "off" => work[w].vec = w
  /\ w \in Working => work[w].win < scan[work[w].scan].next
  /\ work[w].pc = "full" /\ WindowOf(w).offset # 0 => sel[w] = Offsets(WindowOf(w))

\* No two workers have the same window.
Distinct ==
  \A v, w \in Working : v # w /\ work[v].scan = work[w].scan => work[v].win # work[w].win

Inv ==
  /\ TypeOK
  /\ \A s \in Scans : SourceKnown(s) /\ Schedule(scan[s]) /\ Progress(s)
  /\ \A w \in Workers : WorkerOK(w)
  /\ Distinct

\* Until an execution is drained no worker is on it.
LEMMA NoWorkers ==
  ASSUME Inv, NEW s \in Scans, phase[s] # "scanning", NEW w \in Workers
  PROVE  work[w].scan # s
<1>1. CASE work[w].pc = "off"
  BY <1>1, NoneIsNothing DEF Inv, WorkerOK, Off
<1>2. CASE work[w].pc # "off"
  BY <1>2 DEF Inv, TypeOK
<1>3. QED  BY <1>1, <1>2

\* At first nothing is drained and no worker is on.
LEMMA InitInv == Init => Inv
<1> SUFFICES ASSUME Init PROVE Inv
  OBVIOUS
<1>1. NoState \in State /\ NoState.windows = <<>> /\ NoState.chunks = <<>> /\ NoState.next = 1
  BY DEF NoState, State
<1>2. TypeOK
  BY <1>1 DEF Init, TypeOK, Off, Working
<1>3. ASSUME NEW s \in Scans PROVE SourceKnown(s) /\ Schedule(scan[s]) /\ Progress(s)
  <2>1. scan[s] = NoState /\ DOMAIN NoState.windows = {} /\ DOMAIN NoState.chunks = {}
    BY <1>1 DEF Init
  <2>2. SourceKnown(s)
    BY DEF Init, SourceKnown
  <2>3. Schedule(NoState)
    BY <2>1 DEF Schedule
  <2>4. Done(s) = {}
    BY <2>1 DEF Done
  <2>5. Progress(s)
    BY <1>1, <2>1, <2>4 DEF Init, Progress
  <2>6. QED  BY <2>1, <2>2, <2>3, <2>5
<1>4. \A w \in Workers : WorkerOK(w)
  BY DEF Init, WorkerOK, Off, Working
<1>5. Distinct
  BY DEF Init, Distinct, Off, Working
<1>6. QED  BY <1>2, <1>3, <1>4, <1>5 DEF Inv

\* Registering, planning and the end of draining leave windows and workers alone.
LEMMA PlanningInv ==
  ASSUME Inv, NEW s \in Scans,
         Planning(s) \/ InitEnds(s) \/ (\E src \in Sources : Register(src))
  PROVE  Inv'
<1>1. UNCHANGED <<scan, work, sel, emitted>>
  BY DEF Planning, Bind, Unbind, InitEnds, Register
<1>2. \A t \in Scans : phase[t] = "scanning" => phase'[t] = "scanning"
  BY DEF Planning, Bind, Unbind, InitEnds, Register, Inv, TypeOK
<1>3. TypeOK'
  <2>1. /\ registered' \in Sources \cup {None}
        /\ bound' \in [Scans -> {Schema[src] : src \in Sources} \cup {None}]
        /\ phase' \in [Scans -> {"none", "draining", "scanning"}]
    BY DEF Planning, Bind, Unbind, InitEnds, Register, Inv, TypeOK
  <2>2. Working' = Working
    BY <1>1 DEF Working
  <2>3. QED  BY <1>1, <1>2, <2>1, <2>2 DEF Inv, TypeOK
<1>4. ASSUME NEW t \in Scans PROVE SourceKnown(t)'
  <2>1. bound'[t] # None => registered' # None
    BY NoneIsNothing DEF Planning, Bind, Unbind, InitEnds, Register, Inv, TypeOK, SourceKnown
  <2>2. phase'[t] = "draining" => phase[t] = "draining"
    BY DEF Planning, Bind, Unbind, InitEnds, Register, Inv, TypeOK
  <2>3. QED  BY <1>1, <2>1, <2>2 DEF Inv, SourceKnown
<1>5. ASSUME NEW t \in Scans PROVE Schedule(scan[t])' /\ Progress(t)'
  <2>1. Done(t)' = Done(t)
    BY <1>1 DEF Done, Working
  <2>2. QED  BY <1>1, <1>2, <2>1 DEF Inv, Schedule, Rows, Chunk, Progress
<1>6. ASSUME NEW w \in Workers PROVE WorkerOK(w)'
  BY <1>1 DEF Inv, WorkerOK, WindowOf, Working
<1>7. Distinct'
  BY <1>1 DEF Inv, Distinct, Working
<1>8. QED  BY <1>3, <1>4, <1>5, <1>6, <1>7 DEF Inv

\* arrow_scan_init builds the state of s while no worker is on it.
LEMMA DrainingInv ==
  ASSUME Inv, NEW s \in Scans, InitOpens(s) \/ InitPulls(s) \/ InitFails(s)
  PROVE  Inv'
<1>1. /\ UNCHANGED <<registered, bound, work, sel, emitted>>
      /\ phase[s] # "scanning" /\ phase'[s] # "scanning"
      /\ \A t \in Scans : t # s => phase'[t] = phase[t] /\ scan'[t] = scan[t]
  BY DEF InitOpens, InitPulls, InitFails, Inv, TypeOK
<1>2. NoState \in State /\ Schedule(NoState)
  BY DEF NoState, State, Schedule
<1>3. /\ scan'[s] \in State /\ Schedule(scan'[s]) /\ scan'[s].next = 1
      /\ phase'[s] \in {"none", "draining"}
      /\ phase'[s] = "draining" => scan'[s].src \in Sources
  <2>1. CASE InitOpens(s)
    <3>1. scan'[s] = [NoState EXCEPT !.src = registered] /\ phase'[s] = "draining"
      BY <2>1 DEF InitOpens, Inv, TypeOK
    <3>2. registered \in Sources
      BY <2>1 DEF InitOpens, Inv, TypeOK, SourceKnown
    <3>3. /\ scan'[s].windows = <<>> /\ scan'[s].chunks = <<>> /\ scan'[s].next = 1
          /\ scan'[s].src = registered /\ scan'[s] \in State
      <4>1. scan'[s] = [src |-> registered, pulled |-> 0, chunks |-> <<>>,
                        windows |-> <<>>, next |-> 1]
        BY <3>1 DEF NoState
      <4>2. QED  BY <3>2, <4>1 DEF State
    <3>4. Schedule(scan'[s])
      BY <3>3 DEF Schedule
    <3>5. QED  BY <3>1, <3>2, <3>3, <3>4
  <2>2. CASE InitPulls(s)
    <3> DEFINE n == Batches[scan[s].src][scan[s].pulled + 1]
    <3>1. scan'[s] = Pulled(scan[s], n) /\ phase'[s] = "draining"
      BY <2>2 DEF InitPulls, Inv, TypeOK
    <3>2. scan[s] \in State /\ Schedule(scan[s]) /\ scan[s].src \in Sources /\ scan[s].next = 1
      BY <2>2 DEF InitPulls, Inv, TypeOK, SourceKnown, Progress
    <3>3. n \in Nat
      <4>1. Batches[scan[s].src] \in Seq(Nat) /\ scan[s].pulled \in Nat
        BY <3>2, BatchesAreSizes DEF State
      <4>2. scan[s].pulled + 1 \in 1 .. Len(Batches[scan[s].src])
        BY <2>2, <4>1 DEF InitPulls
      <4>3. QED  BY <4>1, <4>2, ElementOfSeq
    <3>4. scan'[s] \in State /\ Schedule(scan'[s])
      BY <3>1, <3>2, <3>3, PulledSchedule
    <3>5. scan'[s].next = 1 /\ scan'[s].src = scan[s].src
      BY <3>1, <3>2 DEF Pulled, State
    <3>6. QED  BY <3>1, <3>2, <3>4, <3>5
  <2>3. CASE InitFails(s)
    BY <1>2, <2>3 DEF InitFails, Inv, TypeOK, NoState
  <2>4. QED  BY <2>1, <2>2, <2>3
<1>4. \A w \in Workers : work[w].scan # s
  BY <1>1, NoWorkers
<1>5. Working' = Working
  BY <1>1 DEF Working
<1>6. \A w \in Workers : work[w].pc # "off" =>
        /\ work[w].scan \in Scans
        /\ scan'[work[w].scan] = scan[work[w].scan]
        /\ phase'[work[w].scan] = "scanning"
  BY <1>1, <1>4 DEF Inv, TypeOK
<1>7. TypeOK'
  <2>1. scan' \in [Scans -> State] /\ phase' \in [Scans -> {"none", "draining", "scanning"}]
    <3>1. scan' = [scan EXCEPT ![s] = scan'[s]] /\ phase' = [phase EXCEPT ![s] = phase'[s]]
      BY DEF InitOpens, InitPulls, InitFails, Inv, TypeOK
    <3>2. QED  BY <1>3, <3>1 DEF Inv, TypeOK
  <2>2. \A w \in Working : work[w].pc # "off"
    BY DEF Working
  <2>3. QED  BY <1>1, <1>5, <1>6, <2>1, <2>2 DEF Inv, TypeOK, Working
<1>8. ASSUME NEW t \in Scans PROVE SourceKnown(t)'
  BY <1>1, <1>3 DEF Inv, SourceKnown
<1>9. ASSUME NEW t \in Scans PROVE Schedule(scan[t])'
  <2>1. CASE t = s
    BY <2>1, <1>3
  <2>2. CASE t # s
    BY <2>2, <1>1 DEF Inv
  <2>3. QED  BY <2>1, <2>2
<1>10. ASSUME NEW t \in Scans PROVE Progress(t)'
  <2>1. CASE t = s
    <3>1. scan[s]' \in State /\ scan[s]'.next = 1
      BY <1>3
    <3>2. Done(s)' = {}
      <4>1. DOMAIN scan'[s].windows \subseteq Nat \ {0}
        BY <1>3 DEF State
      <4>2. QED  BY <3>1, <4>1 DEF Done
    <3>3. emitted'[s] = {}
      BY <1>1 DEF Inv, Progress
    <3>4. QED  BY <2>1, <3>1, <3>2, <3>3 DEF Progress
  <2>2. CASE t # s
    <3>1. Done(t)' = Done(t)
      BY <2>2, <1>1, <1>5 DEF Done
    <3>2. QED  BY <2>2, <1>1, <3>1 DEF Inv, Progress, Rows
  <2>3. QED  BY <2>1, <2>2
<1>11. ASSUME NEW w \in Workers PROVE WorkerOK(w)'
  BY <1>1, <1>6 DEF Inv, WorkerOK, WindowOf, Working
<1>12. Distinct'
  BY <1>1, <1>5 DEF Inv, Distinct
<1>13. QED  BY <1>7, <1>8, <1>9, <1>10, <1>11, <1>12 DEF Inv

\* The state is destroyed with every local state of its workers.
LEMMA StateDestroyInv ==
  ASSUME Inv, NEW s \in Scans, StateDestroy(s)
  PROVE  Inv'
<1>1. /\ UNCHANGED <<registered, bound>>
      /\ phase'[s] = "none" /\ scan'[s] = NoState /\ emitted'[s] = {}
      /\ \A t \in Scans : t # s =>
           phase'[t] = phase[t] /\ scan'[t] = scan[t] /\ emitted'[t] = emitted[t]
  BY DEF StateDestroy, Inv, TypeOK
<1>2. /\ NoState \in State /\ Schedule(NoState) /\ NoState.next = 1
      /\ DOMAIN NoState.windows = {}
  BY DEF NoState, State, Schedule
<1>3. \A w \in Workers : IF work[w].scan = s
                         THEN work'[w] = Off /\ sel'[w] = {}
                         ELSE work'[w] = work[w] /\ sel'[w] = sel[w]
  BY DEF StateDestroy, WorkersOn
<1>4. Off.pc = "off" /\ Off.scan = None /\ Off.vec = None /\ Off.win = 0
      /\ Off = [pc |-> "off", scan |-> None, win |-> 0, vec |-> None]
  BY DEF Off
<1>5. Working' = {w \in Working : work[w].scan # s}
  BY <1>3, <1>4 DEF Working
<1>6. \A w \in Workers : work'[w].pc # "off" =>
        /\ work'[w] = work[w] /\ sel'[w] = sel[w]
        /\ work[w].scan \in Scans /\ work[w].scan # s
  BY <1>3, <1>4 DEF Inv, TypeOK
<1>7. TypeOK'
  <2>1. scan' \in [Scans -> State] /\ phase' \in [Scans -> {"none", "draining", "scanning"}]
        /\ emitted' \in [Scans -> SUBSET (Nat \X Nat)]
    BY <1>2 DEF StateDestroy, Inv, TypeOK
  <2>2. sel' \in [Workers -> SUBSET Nat]
    BY DEF StateDestroy, Inv, TypeOK
  <2>3. work' \in [Workers -> [pc : {"off", "ready", "claimed", "full", "done"},
                              scan : Scans \cup {None}, win : Nat, vec : Workers \cup {None}]]
    BY <1>4 DEF StateDestroy, Inv, TypeOK
  <2>4. ASSUME NEW w \in Workers, work'[w].pc # "off"
        PROVE  /\ work'[w].scan \in Scans /\ work'[w].vec \in Workers
               /\ phase'[work'[w].scan] = "scanning"
    BY <2>4, <1>1, <1>6 DEF Inv, TypeOK
  <2>5. ASSUME NEW w \in Working'
        PROVE  work'[w].win \in DOMAIN scan'[work'[w].scan].windows
    <3>1. w \in Working /\ work'[w] = work[w] /\ work[w].scan # s /\ work[w].scan \in Scans
      BY <1>3, <1>5 DEF Working, Inv, TypeOK
    <3>2. QED  BY <3>1, <1>1 DEF Inv, TypeOK
  <2>6. QED  BY <1>1, <2>1, <2>2, <2>3, <2>4, <2>5 DEF Inv, TypeOK
<1>8. ASSUME NEW t \in Scans PROVE SourceKnown(t)'
  BY <1>1 DEF Inv, SourceKnown
<1>9. ASSUME NEW t \in Scans PROVE Schedule(scan[t])'
  <2>1. CASE t = s
    BY <2>1, <1>1, <1>2
  <2>2. CASE t # s
    BY <2>2, <1>1 DEF Inv
  <2>3. QED  BY <2>1, <2>2
<1>10. ASSUME NEW t \in Scans PROVE Progress(t)'
  <2>1. CASE t = s
    <3>1. Done(s)' = {}
      BY <1>1, <1>2 DEF Done
    <3>2. QED  BY <2>1, <1>1, <1>2, <3>1 DEF Progress
  <2>2. CASE t # s
    <3>1. \A w \in Working' : w \in Working /\ work'[w] = work[w]
      BY <1>3, <1>5 DEF Working
    <3>2. \A w \in Working : work[w].scan = t => w \in Working'
      BY <2>2, <1>5
    <3>3. Done(t)' = Done(t)
      BY <2>2, <1>1, <3>1, <3>2 DEF Done
    <3>4. QED  BY <2>2, <1>1, <3>3 DEF Inv, Progress, Rows
  <2>3. QED  BY <2>1, <2>2
<1>11. ASSUME NEW w \in Workers PROVE WorkerOK(w)'
  <2>1. CASE work'[w].pc = "off"
    <3>1. work'[w] = Off
      BY <2>1, <1>3 DEF Inv, WorkerOK
    <3>2. QED  BY <3>1, <1>4 DEF WorkerOK, Working, Off
  <2>2. CASE work'[w].pc # "off"
    <3>1. scan'[work[w].scan] = scan[work[w].scan]
      BY <2>2, <1>1, <1>6
    <3>2. QED  BY <2>2, <3>1, <1>6 DEF Inv, WorkerOK, WindowOf, Working
  <2>3. QED  BY <2>1, <2>2
<1>12. Distinct'
  <2>1. \A w \in Working' : w \in Working /\ work'[w] = work[w]
    BY <1>3, <1>5 DEF Working
  <2>2. QED  BY <2>1 DEF Inv, Distinct
<1>13. QED  BY <1>7, <1>8, <1>9, <1>10, <1>11, <1>12 DEF Inv

\* Local init, claims, emission and consumption leave all but their scan alone.
LEMMA WorkerTypes ==
  ASSUME Inv, NEW w \in Workers, Scanning(w) \/ (\E s \in Scans : LocalInit(w, s))
  PROVE  /\ TypeOK'
         /\ UNCHANGED <<registered, bound, phase>>
         /\ \A v \in Workers : v # w => work'[v] = work[v]
         /\ \A t \in Scans : /\ scan'[t].windows = scan[t].windows
                             /\ scan'[t].chunks = scan[t].chunks
                             /\ scan'[t].src = scan[t].src
                             /\ scan'[t].next >= scan[t].next
<1> DEFINE Record == [pc : {"off", "ready", "claimed", "full", "done"},
                      scan : Scans \cup {None}, win : Nat, vec : Workers \cup {None}]
<1>rec. work[w] \in Record /\ work \in [Workers -> Record]
  BY DEF Inv, TypeOK
<1>nat. \A t \in Scans : scan[t] \in State /\ scan[t].next \in Nat /\ scan[t].next >= scan[t].next
  BY DEF Inv, TypeOK, State
<1>1. CASE Claim(w)
  <2> DEFINE s == work[w].scan
             n == scan[s].next
             pc == IF n <= Len(scan[s].windows) THEN "claimed" ELSE "done"
             win == IF n <= Len(scan[s].windows) THEN n ELSE 0
             rec == [work[w] EXCEPT !.pc = pc, !.win = win]
  <2>1. s \in Scans /\ n \in Nat /\ phase[s] = "scanning"
    BY <1>1 DEF Claim, Inv, TypeOK, State
  <2>2. /\ scan' = [scan EXCEPT ![s] = [scan[s] EXCEPT !.next = n + 1]]
        /\ [scan[s] EXCEPT !.next = n + 1] \in State
    <3>1. n + 1 \in Nat
      BY <2>1
    <3>2. [scan[s] EXCEPT !.next = n + 1] \in State
      BY <1>nat, <2>1, <3>1 DEF State
    <3>3. QED  BY <1>1, <3>2 DEF Claim
  <2>3. \A t \in Scans : /\ scan'[t].windows = scan[t].windows
                         /\ scan'[t].chunks = scan[t].chunks
                         /\ scan'[t].src = scan[t].src
                         /\ scan'[t].next >= scan[t].next
    BY <2>1, <2>2, SMTT(30) DEF Inv, TypeOK, State
  <2>4. /\ \A v \in Workers : v # w => work'[v] = work[v]
        /\ work'[w].scan = s /\ work'[w].vec = work[w].vec
        /\ work'[w].pc \in {"claimed", "done"}
        /\ work'[w].pc = "claimed" => n <= Len(scan[s].windows) /\ work'[w].win = n
        /\ work'[w].win \in Nat
        /\ work' \in [Workers -> Record]
    <3>1. work' = [work EXCEPT ![w] = rec]
      BY <1>1 DEF Claim
    <3>2. pc \in {"claimed", "done"} /\ win \in Nat /\ (pc = "claimed" => n <= Len(scan[s].windows) /\ win = n)
      BY <2>1
    <3> HIDE DEF pc, win
    <3>3. /\ rec \in Record /\ rec.pc = pc /\ rec.win = win
          /\ rec.scan = s /\ rec.vec = work[w].vec
      BY <1>rec, <3>2
    <3> HIDE DEF rec, Record
    <3>4. work'[w] = rec /\ work' \in [Workers -> Record]
          /\ \A v \in Workers : v # w => work'[v] = work[v]
      BY <1>rec, <3>1, <3>3
    <3>5. QED  BY <3>2, <3>3, <3>4
  <2>5. n \in 1 .. Len(scan[s].windows) \/ n > Len(scan[s].windows)
    BY <2>1 DEF Inv, Progress, TypeOK, State
  <2>6. DOMAIN scan[s].windows = 1 .. Len(scan[s].windows)
    BY <2>1 DEF Inv, TypeOK, State
  <2>7. \A v \in Workers : work'[v].pc \in {"claimed", "full"}
          => work'[v].win \in DOMAIN scan'[work'[v].scan].windows
    <3> SUFFICES ASSUME NEW v \in Workers, work'[v].pc \in {"claimed", "full"}
                 PROVE  work'[v].win \in DOMAIN scan'[work'[v].scan].windows
      OBVIOUS
    <3>1. CASE v = w
      <4>1. work'[w].win \in DOMAIN scan[s].windows
        BY <3>1, <2>1, <2>4, <2>5, <2>6 DEF Inv, TypeOK, State
      <4>2. QED  BY <3>1, <4>1, <2>1, <2>3, <2>4
    <3>2. CASE v # w
      <4>1. work[v].scan \in Scans /\ work[v].win \in DOMAIN scan[work[v].scan].windows
        BY <3>2, <2>4 DEF Inv, TypeOK, Working
      <4>2. QED  BY <3>2, <4>1, <2>3, <2>4
    <3>3. QED  BY <3>1, <3>2
  <2>8. scan' \in [Scans -> State]
    BY <2>1, <2>2 DEF Inv, TypeOK
  <2>9. UNCHANGED <<registered, bound, phase, sel, emitted>>
    BY <1>1 DEF Claim
  <2>10. \A v \in Workers : work'[v].pc # "off" =>
           work'[v].scan \in Scans /\ work'[v].vec \in Workers /\ phase'[work'[v].scan] = "scanning"
    <3>1. work[w].pc # "off" /\ work[w].vec \in Workers
      BY <1>1 DEF Claim, Inv, TypeOK
    <3>2. \A v \in Workers : work[v].pc # "off" =>
            work[v].scan \in Scans /\ work[v].vec \in Workers /\ phase[work[v].scan] = "scanning"
      BY DEF Inv, TypeOK
    <3>3. ASSUME NEW v \in Workers, work'[v].pc # "off", v # w
          PROVE  /\ work'[v].scan \in Scans /\ work'[v].vec \in Workers
                 /\ phase'[work'[v].scan] = "scanning"
      BY <2>4, <2>9, <3>2, <3>3
    <3>4. work'[w].scan \in Scans /\ work'[w].vec \in Workers /\ phase'[work'[w].scan] = "scanning"
      BY <2>1, <2>4, <2>9, <3>1
    <3>5. QED  BY <3>3, <3>4
  <2>11. TypeOK'
    BY <2>4, <2>7, <2>8, <2>9, <2>10 DEF Inv, TypeOK, Working
  <2>12. QED  BY <2>3, <2>4, <2>9, <2>11
<1>2. CASE Emit(w)
  <2>1. /\ UNCHANGED <<registered, bound, phase, scan, emitted>>
        /\ work' = [work EXCEPT ![w] = [work[w] EXCEPT !.pc = "full"]]
        /\ w \in Working
    BY <1>2 DEF Emit, Working, Inv, TypeOK
  <2>2. WindowOf(w) \in Window
    BY <2>1 DEF WindowOf, Inv, TypeOK, State, Working
  <2>3. Offsets(WindowOf(w)) \subseteq Nat
    BY <2>2 DEF Offsets, Window
  <2>4. sel' \in [Workers -> SUBSET Nat]
    BY <1>2, <2>3 DEF Emit, Inv, TypeOK
  <2>5. Working' = Working /\ \A v \in Workers :
          /\ work'[v].scan = work[v].scan /\ work'[v].win = work[v].win
          /\ work'[v].vec = work[v].vec /\ (work'[v].pc = "off" <=> work[v].pc = "off")
          /\ v # w => work'[v] = work[v]
    BY <2>1 DEF Working, Inv, TypeOK
  <2>6. work' \in [Workers -> Record]
    BY <2>1, <1>rec
  <2>7. TypeOK'
    BY <2>1, <2>4, <2>5, <2>6 DEF Inv, TypeOK, Working
  <2>8. QED  BY <2>1, <2>5, <2>7, <1>nat
<1>3. CASE Consumed(w)
  <2>1. /\ UNCHANGED <<registered, bound, phase, scan, sel>>
        /\ work' = [work EXCEPT ![w] = [work[w] EXCEPT !.pc = "ready", !.win = 0]]
        /\ w \in Working /\ work[w].pc = "full"
    BY <1>3 DEF Consumed, Working, Inv, TypeOK
  <2>2. WindowOf(w) \in Window /\ work[w].vec \in Workers
    BY <2>1 DEF WindowOf, Inv, TypeOK, State, Working
  <2>3. OutputOf(w) \subseteq Nat \X Nat
    <3>1. Offsets(WindowOf(w)) \subseteq Nat /\ WindowOf(w).chunk \in Nat
      BY <2>2 DEF Offsets, Window
    <3>2. sel[work[w].vec] \subseteq Nat
      BY <2>2 DEF Inv, TypeOK
    <3>3. QED  BY <3>1, <3>2 DEF OutputOf
  <2>4. emitted' \in [Scans -> SUBSET (Nat \X Nat)]
    BY <1>3, <2>3 DEF Consumed, Inv, TypeOK
  <2>5. Working' \subseteq Working /\ \A v \in Workers :
          /\ work'[v].scan = work[v].scan
          /\ work'[v].vec = work[v].vec /\ (work'[v].pc = "off" <=> work[v].pc = "off")
          /\ v # w => work'[v] = work[v]
          /\ v \in Working' => v # w
    BY <2>1 DEF Working, Inv, TypeOK
  <2>6. work' \in [Workers -> Record]
    <3>1. [work[w] EXCEPT !.pc = "ready", !.win = 0] \in Record
      BY <1>rec
    <3> HIDE DEF Record
    <3>2. QED  BY <2>1, <3>1, <1>rec
  <2>7. TypeOK'
    BY <2>1, <2>4, <2>5, <2>6 DEF Inv, TypeOK, Working
  <2>8. QED  BY <2>1, <2>5, <2>7, <1>nat
<1>4. ASSUME NEW s \in Scans, LocalInit(w, s)
      PROVE  /\ TypeOK'
             /\ UNCHANGED <<registered, bound, phase, scan>>
             /\ \A v \in Workers : v # w => work'[v] = work[v]
  <2>1. /\ UNCHANGED <<registered, bound, phase, scan, sel, emitted>>
        /\ work' = [work EXCEPT ![w] = [pc |-> "ready", scan |-> s, win |-> 0, vec |-> w]]
        /\ phase[s] = "scanning"
    BY <1>4 DEF LocalInit, Starts
  <2>2. Working' \subseteq Working /\ \A v \in Workers :
          /\ v # w => work'[v] = work[v]
          /\ v \in Working' => v # w
    BY <2>1 DEF Working, Inv, TypeOK
  <2>3. work' \in [Workers -> Record]
    BY <2>1, <1>rec
  <2>4. TypeOK'
    BY <2>1, <2>2, <2>3 DEF Inv, TypeOK, Working
  <2>5. QED  BY <2>1, <2>2, <2>4
<1>5. ASSUME NEW s \in Scans, LocalInit(w, s)
      PROVE  \A t \in Scans : scan'[t].next >= scan[t].next
  BY <1>nat, <1>4, <1>5
<1>6. QED  BY <1>1, <1>2, <1>3, <1>4, <1>5 DEF Scanning

\* What downstream reads from a worker is the window it has.
LEMMA OutputIsWindow ==
  ASSUME Inv, NEW w \in Workers, work[w].pc = "full"
  PROVE  OutputOf(w) = Rows(scan[work[w].scan], work[w].win)
BY DEF Inv, WorkerOK, OutputOf, WindowOf, Rows

\* A worker's step takes a window from ahead of the cursor, or adds one it had to what was
\* emitted, and leaves every other worker's window alone.
LEMMA WorkerInv ==
  ASSUME Inv, NEW w \in Workers, Scanning(w) \/ (\E s \in Scans : LocalInit(w, s))
  PROVE  Inv'
<1>1. /\ TypeOK'
      /\ UNCHANGED <<registered, bound, phase>>
      /\ \A v \in Workers : v # w => work'[v] = work[v]
      /\ \A t \in Scans : /\ scan'[t].windows = scan[t].windows
                          /\ scan'[t].chunks = scan[t].chunks
                          /\ scan'[t].src = scan[t].src
                          /\ scan'[t].next >= scan[t].next
  BY WorkerTypes
<1>2. \A t \in Scans : /\ scan[t].next \in Nat /\ scan'[t].next \in Nat
                      /\ DOMAIN scan[t].windows = 1 .. Len(scan[t].windows)
                      /\ Len(scan[t].windows) \in Nat
  BY <1>1 DEF Inv, TypeOK, State
<1>3. \A v \in Workers : v # w => (v \in Working' <=> v \in Working) /\ sel'[v] = sel[v]
  <2>1. \A v \in Workers : v # w => (v \in Working' <=> v \in Working)
    BY <1>1 DEF Working
  <2>2. \A v \in Workers : v # w => sel'[v] = sel[v]
    BY DEF Scanning, Claim, Emit, Consumed, LocalInit, Starts, Inv, TypeOK, WorkerOK
  <2>3. QED  BY <2>1, <2>2
<1>4. \A v \in Working : /\ v \in Workers /\ work[v].scan \in Scans /\ work[v].win \in Nat
                        /\ work[v].win \in DOMAIN scan[work[v].scan].windows
                        /\ work[v].win < scan[work[v].scan].next
  BY DEF Inv, TypeOK, WorkerOK, Working
<1>5. ASSUME NEW t \in Scans PROVE SourceKnown(t)' /\ Schedule(scan[t])'
  BY <1>1 DEF Inv, SourceKnown, Schedule, Rows, Chunk
<1>6. ASSUME NEW v \in Workers, v # w PROVE WorkerOK(v)'
  <2>1. work'[v] = work[v] /\ sel'[v] = sel[v] /\ (v \in Working' <=> v \in Working)
    BY <1>1, <1>3, <1>6
  <2>2. WorkerOK(v)
    BY DEF Inv
  <2>3. v \in Working => work[v].win < scan'[work[v].scan].next
    BY <1>1, <1>2, <1>4
  <2>4. work[v].pc = "full" => WindowOf(v)' = WindowOf(v)
    BY <1>1, <1>4, <2>1 DEF WindowOf, Working
  <2>5. QED  BY <2>1, <2>2, <2>3, <2>4 DEF WorkerOK
<1>7. \A t \in Scans : \A i \in DOMAIN scan[t].windows : Rows(scan[t], i)' = Rows(scan[t], i)
  BY <1>1 DEF Rows
\* It remains to see what the step does to w and to its scan.
<1>8. ASSUME WorkerOK(w)',
             \A t \in Scans : Progress(t)',
             \A v \in Working : v # w /\ w \in Working' /\ work[v].scan = work'[w].scan
                              => work[v].win # work'[w].win
      PROVE  Inv'
  <2>1. Distinct'
    <3> SUFFICES ASSUME NEW u \in Working', NEW v \in Working', u # v,
                        work'[u].scan = work'[v].scan
                 PROVE  work'[u].win # work'[v].win
      BY DEF Distinct
    <3>1. u \in Workers /\ v \in Workers
      BY DEF Working
    <3>2. CASE u # w /\ v # w
      BY <3>1, <3>2, <1>1, <1>3 DEF Inv, Distinct
    <3>3. CASE u = w /\ v # w
      BY <3>1, <3>3, <1>1, <1>3, <1>8
    <3>4. CASE u # w /\ v = w
      BY <3>1, <3>4, <1>1, <1>3, <1>8
    <3>5. QED  BY <3>2, <3>3, <3>4
  <2>2. QED  BY <1>1, <1>5, <1>6, <1>8, <2>1 DEF Inv
\* When no window goes from one side to the other, what is done stays the same.
<1>9. ASSUME NEW t \in Scans, Done(t)' = Done(t), emitted'[t] = emitted[t]
      PROVE  phase[t] = "scanning" \/ scan'[t].next = scan[t].next => Progress(t)'
  <2>1. UNION {Rows(scan[t], i)' : i \in Done(t)} = UNION {Rows(scan[t], i) : i \in Done(t)}
    BY <1>7 DEF Done
  <2>2. QED  BY <1>1, <1>2, <1>9, <2>1 DEF Inv, Progress
<1>10. CASE Claim(w)
  <2> DEFINE s == work[w].scan  n == scan[s].next
  <2>1. /\ s \in Scans /\ work[w].pc = "ready" /\ w \notin Working /\ phase[s] = "scanning"
        /\ UNCHANGED <<sel, emitted>>
    BY <1>10 DEF Claim, Inv, TypeOK, Working
  <2>2. /\ scan'[s].next = n + 1 /\ work'[w].scan = s /\ work'[w].vec = work[w].vec
        /\ work'[w].pc = IF n <= Len(scan[s].windows) THEN "claimed" ELSE "done"
        /\ n <= Len(scan[s].windows) => work'[w].win = n
        /\ \A t \in Scans : t # s => scan'[t].next = scan[t].next
    BY <1>10, <2>1 DEF Claim, Inv, TypeOK, State
  <2>3. w \in Working' <=> n <= Len(scan[s].windows)
    BY <2>2 DEF Working
  <2>4. WorkerOK(w)'
    BY <1>2, <2>1, <2>2, <2>3 DEF Inv, WorkerOK
  <2>5. ASSUME NEW t \in Scans PROVE Done(t)' = Done(t)
    <3>1. ASSUME NEW i \in DOMAIN scan[t].windows
          PROVE  i \in Done(t)' <=> i \in Done(t)
      <4>1. /\ i \in Nat /\ i <= Len(scan[t].windows)
        BY <1>2
      <4>2. (\A v \in Working' : work'[v].scan = t => work'[v].win # i)
              <=> /\ \A v \in Working : work[v].scan = t => work[v].win # i
                  /\ w \in Working' /\ s = t => n # i
        <5>1. \A v \in Working' : v \in Workers
          BY DEF Working
        <5>2. QED  BY <5>1, <1>1, <1>3, <1>4, <2>1, <2>2, <2>3
      <4>3. CASE t # s
        BY <4>2, <4>3, <1>1, <2>2 DEF Done
      <4>4. CASE t = s
        <5>1. i < n + 1 /\ (n <= Len(scan[s].windows) => n # i) <=> i < n
          BY <4>1, <4>4, <1>2
        <5>2. QED  BY <4>2, <4>4, <5>1, <1>1, <2>2, <2>3 DEF Done
      <4>5. QED  BY <4>3, <4>4
    <3>2. QED  BY <3>1, <1>1 DEF Done
  <2>6. \A t \in Scans : Progress(t)'
    BY <1>9, <2>1, <2>2, <2>5
  <2>7. \A v \in Working : v # w /\ w \in Working' /\ work[v].scan = work'[w].scan
                         => work[v].win # work'[w].win
    BY <1>2, <1>4, <2>1, <2>2, <2>3
  <2>8. QED  BY <1>8, <2>4, <2>6, <2>7
<1>11. CASE Emit(w)
  <2>1. /\ UNCHANGED <<scan, emitted>> /\ w \in Working
        /\ work'[w] = [work[w] EXCEPT !.pc = "full"]
        /\ work[w].vec = w
    BY <1>11 DEF Emit, Working, Inv, TypeOK, WorkerOK
  <2>2. /\ Working' = Working /\ work'[w].pc = "full"
        /\ work'[w].win = work[w].win /\ work'[w].scan = work[w].scan /\ work'[w].vec = w
    BY <1>3, <2>1 DEF Working, Inv, TypeOK
  <2>3. WorkerOK(w)'
    <3>1. WindowOf(w)' = WindowOf(w)
      BY <2>1, <2>2 DEF WindowOf
    <3>2. WindowOf(w).offset # 0 => sel'[w] = Offsets(WindowOf(w))
      BY <1>11, <2>1 DEF Emit, Inv, TypeOK
    <3>3. work'[w].win < scan'[work'[w].scan].next
      BY <1>4, <2>1, <2>2
    <3>4. QED  BY <2>2, <3>1, <3>2, <3>3 DEF WorkerOK
  <2>4. \A v \in Working : work'[v].scan = work[v].scan /\ work'[v].win = work[v].win
    BY <1>1, <1>4, <2>2
  <2>5. \A t \in Scans : Done(t)' = Done(t)
    BY <2>1, <2>2, <2>4 DEF Done
  <2>6. \A t \in Scans : Progress(t)'
    BY <1>9, <2>1, <2>5
  <2>7. \A v \in Working : v # w /\ w \in Working' /\ work[v].scan = work'[w].scan
                         => work[v].win # work'[w].win
    BY <2>1, <2>2 DEF Inv, Distinct
  <2>8. QED  BY <1>8, <2>3, <2>6, <2>7
<1>12. CASE Consumed(w)
  <2>1. w \in Working /\ work[w].pc = "full"
    BY <1>12 DEF Consumed, Working
  <2>2. PICK s \in Scans, n \in Nat : s = work[w].scan /\ n = work[w].win
    BY <1>4, <2>1
  <2>3. /\ UNCHANGED <<scan, sel>>
        /\ work'[w].pc = "ready" /\ work'[w].vec = work[w].vec
        /\ emitted'[s] = emitted[s] \cup OutputOf(w)
        /\ \A t \in Scans : t # s => emitted'[t] = emitted[t]
    BY <1>12, <2>2 DEF Consumed, Inv, TypeOK
  <2>4. w \notin Working'
    BY <2>3 DEF Working
  <2>5. WorkerOK(w)'
    BY <2>1, <2>3, <2>4 DEF Inv, WorkerOK
  <2>6. \A v \in Working : v # w => v \in Working' /\ work'[v] = work[v]
    BY <1>1, <1>3, <1>4
  <2>7. \A v \in Working' : v \in Working /\ v # w /\ work'[v] = work[v]
    BY <1>1, <1>3, <2>4 DEF Working
  <2>8. \A v \in Working : v # w /\ work[v].scan = s => work[v].win # n
    BY <2>1, <2>2 DEF Inv, Distinct
  <2>9. n \in DOMAIN scan[s].windows /\ n < scan[s].next
    BY <1>4, <2>1, <2>2
  <2>10. ASSUME NEW t \in Scans, t # s PROVE Done(t)' = Done(t)
    <3>1. ASSUME NEW i
          PROVE  (\A v \in Working' : work'[v].scan = t => work'[v].win # i)
                   <=> (\A v \in Working : work[v].scan = t => work[v].win # i)
      BY <2>2, <2>6, <2>7, <2>10
    <3>2. QED  BY <2>3, <3>1 DEF Done
  <2>11. Done(s)' = Done(s) \cup {n}
    <3>1. ASSUME NEW i
          PROVE  (\A v \in Working' : work'[v].scan = s => work'[v].win # i)
                   <=> i = n \/ (\A v \in Working : work[v].scan = s => work[v].win # i)
      BY <2>1, <2>2, <2>6, <2>7, <2>8
    <3>2. ASSUME NEW i PROVE i \in Done(s)' <=> i \in Done(s) \/ i = n
      BY <2>3, <2>9, <3>1 DEF Done
    <3>3. QED  BY <3>2
  <2>12. Progress(s)'
    <3>1. OutputOf(w) = Rows(scan[s], n)
      BY <2>1, <2>2, OutputIsWindow
    <3>2. emitted[s] = UNION {Rows(scan[s], i) : i \in Done(s)}
      BY DEF Inv, Progress
    <3>3. emitted'[s] = UNION {Rows(scan[s], i) : i \in Done(s) \cup {n}}
      <4> DEFINE All == UNION {Rows(scan[s], i) : i \in Done(s) \cup {n}}
                 Before == UNION {Rows(scan[s], i) : i \in Done(s)}
      <4>1. All \subseteq Before \cup Rows(scan[s], n)
        OBVIOUS
      <4>2. Before \subseteq All /\ Rows(scan[s], n) \subseteq All
        OBVIOUS
      <4> HIDE DEF All, Before
      <4>3. All = Before \cup Rows(scan[s], n)
        BY <4>1, <4>2
      <4>4. QED  BY <2>3, <3>1, <3>2, <4>3 DEF All, Before
    <3>4. phase[s] = "scanning"
      BY <2>1, <2>2 DEF Inv, TypeOK
    <3>5. scan' = scan /\ phase' = phase
      BY <1>1, <2>3
    <3>6. emitted'[s] = UNION {Rows(scan'[s], i) : i \in Done(s)'}
      BY <2>11, <3>3, <3>5
    <3>7. scan[s].next > 0
      BY DEF Inv, Progress
    <3>8. QED  BY <3>4, <3>5, <3>6, <3>7 DEF Progress
  <2>13. ASSUME NEW t \in Scans PROVE Progress(t)'
    <3>1. CASE t # s
      BY <1>9, <2>3, <2>10, <3>1
    <3>2. QED  BY <2>12, <3>1
  <2>14. QED  BY <1>8, <2>4, <2>5, <2>13
<1>13. ASSUME NEW s \in Scans, LocalInit(w, s) PROVE Inv'
  <2>1. /\ UNCHANGED <<scan, sel, emitted>> /\ work[w] = Off
        /\ work'[w] = [pc |-> "ready", scan |-> s, win |-> 0, vec |-> w]
    BY <1>13 DEF LocalInit, Starts, Inv, TypeOK
  <2>2. w \notin Working /\ w \notin Working'
    BY <2>1 DEF Working, Off
  <2>3. WorkerOK(w)'
    BY <2>1, <2>2 DEF WorkerOK
  <2>4. Working' = Working /\ \A v \in Working : work'[v] = work[v]
    BY <1>1, <1>3, <1>4, <2>2 DEF Working
  <2>5. \A t \in Scans : Done(t)' = Done(t)
    BY <2>1, <2>4 DEF Done
  <2>6. \A t \in Scans : Progress(t)'
    BY <1>9, <2>1, <2>5
  <2>7. QED  BY <1>8, <2>2, <2>3, <2>6
<1>14. QED  BY <1>10, <1>11, <1>12, <1>13 DEF Scanning

-----------------------------------------------------------------------------
\* The schedule of every execution tiles what was drained, and what was emitted is what
\* lies behind the cursor and in no worker's hands.
THEOREM Invariant == Spec => []Inv
<1>1. Inv /\ [Next]_vars => Inv'
  <2> SUFFICES ASSUME Inv, [Next]_vars PROVE Inv'
    OBVIOUS
  <2>1. CASE UNCHANGED vars
    <3>1. Working' = Working
      BY <2>1 DEF vars, Working
    <3>2. ASSUME NEW s \in Scans PROVE (SourceKnown(s) /\ Schedule(scan[s]) /\ Progress(s))'
      <4>1. Done(s)' = Done(s)
        BY <2>1, <3>1 DEF vars, Done
      <4>2. QED  BY <2>1, <4>1 DEF vars, Inv, SourceKnown, Schedule, Progress, Rows, Chunk
    <3>3. ASSUME NEW w \in Workers PROVE WorkerOK(w)'
      BY <2>1, <3>1 DEF vars, Inv, WorkerOK, WindowOf
    <3>4. Distinct' /\ TypeOK'
      BY <2>1, <3>1 DEF vars, Inv, Distinct, TypeOK
    <3>5. QED  BY <3>2, <3>3, <3>4 DEF Inv
  <2>2. CASE \E src \in Sources : Register(src)
    <3>1. CASE Scans = {}
      BY <2>2, <3>1 DEF Register, Inv, TypeOK, WorkerOK, Distinct, Working, WindowOf
    <3>2. CASE Scans # {}
      BY <2>2, <3>2, PlanningInv
    <3>3. QED  BY <3>1, <3>2
  <2>3. ASSUME NEW s \in Scans, Planning(s) \/ Draining(s) PROVE Inv'
    BY <2>3, PlanningInv, DrainingInv, StateDestroyInv DEF Draining
  <2>4. ASSUME NEW w \in Workers, Scanning(w) \/ \E s \in Scans : LocalInit(w, s) PROVE Inv'
    BY <2>4, WorkerInv
  <2>5. QED  BY <2>1, <2>2, <2>3, <2>4 DEF Next
<1>2. QED  BY <1>1, InitInv, PTL DEF Spec

\* Types; a worker inside arrow_scan_function has a window of the scan it is on.
THEOREM TypeTheorem == Spec => []TypeOK
<1>1. Inv => TypeOK
  BY DEF Inv
<1>2. QED  BY <1>1, Invariant, PTL

\* No window reaches past its chunk or past the output vector.
THEOREM WindowsFitTheorem == Spec => []WindowsFit
<1>1. Inv => WindowsFit
  BY DEF Inv, WindowsFit, Schedule
<1>2. QED  BY <1>1, Invariant, PTL

\* No row is emitted twice in an execution, however many workers claim windows.
THEOREM NoRowTwiceTheorem == Spec => []NoRowTwice
<1>1. Inv => NoRowTwice
  <2> SUFFICES ASSUME Inv, NEW w \in Workers, work[w].pc = "full"
               PROVE /\ OutputOf(w) = {WindowOf(w).chunk} \X Offsets(WindowOf(w))
                     /\ OutputOf(w) \cap emitted[work[w].scan] = {}
                     /\ \A v \in WorkersOn(work[w].scan) \ {w} :
                          work[v].pc = "full" => OutputOf(v) \cap OutputOf(w) = {}
    BY DEF NoRowTwice
  <2> DEFINE s == work[w].scan  n == work[w].win
  <2>1. /\ w \in Working /\ s \in Scans /\ n \in DOMAIN scan[s].windows
        /\ OutputOf(w) = Rows(scan[s], n)
    BY OutputIsWindow DEF Inv, TypeOK, Working
  <2>2. \A i \in DOMAIN scan[s].windows : i # n => Rows(scan[s], i) \cap Rows(scan[s], n) = {}
    BY <2>1 DEF Inv, Schedule
  <2>3. OutputOf(w) = {WindowOf(w).chunk} \X Offsets(WindowOf(w))
    BY <2>1 DEF Rows, WindowOf
  <2>4. OutputOf(w) \cap emitted[s] = {}
    <3>1. n \notin Done(s) /\ Done(s) \subseteq DOMAIN scan[s].windows
      BY <2>1 DEF Done
    <3>2. emitted[s] = UNION {Rows(scan[s], i) : i \in Done(s)}
      BY <2>1 DEF Inv, Progress
    <3>3. QED  BY <2>1, <2>2, <3>1, <3>2
  <2>5. ASSUME NEW v \in WorkersOn(s) \ {w}, work[v].pc = "full"
        PROVE  OutputOf(v) \cap OutputOf(w) = {}
    <3>1. v \in Workers /\ v # w /\ work[v].scan = s /\ v \in Working
      BY <2>5 DEF WorkersOn, Working
    <3>2. OutputOf(v) = Rows(scan[s], work[v].win) /\ work[v].win \in DOMAIN scan[s].windows
      BY <3>1, <2>5, OutputIsWindow DEF Inv, TypeOK
    <3>3. work[v].win # n
      BY <3>1, <2>1 DEF Inv, Distinct
    <3>4. QED  BY <2>1, <2>2, <3>2, <3>3
  <2>6. QED  BY <2>3, <2>4, <2>5
<1>2. QED  BY <1>1, Invariant, PTL

\* No row is missed: at the end of the schedule every row that was drained is emitted.
THEOREM NoRowMissedTheorem == Spec => []NoRowMissed
<1>1. Inv => NoRowMissed
  <2> SUFFICES ASSUME Inv, NEW s \in Scans, scan[s].next > Len(scan[s].windows),
                      WorkersOn(s) \cap Working = {}
               PROVE  emitted[s] = RowsOf(s)
    BY DEF NoRowMissed
  <2>1. DOMAIN scan[s].windows = 1 .. Len(scan[s].windows) /\ scan[s].next \in Nat
        /\ Len(scan[s].windows) \in Nat
    BY DEF Inv, TypeOK, State
  <2>2. Done(s) = DOMAIN scan[s].windows
    BY <2>1 DEF Done, WorkersOn, Working
  <2>3. emitted[s] = UNION {Rows(scan[s], i) : i \in DOMAIN scan[s].windows}
    BY <2>2 DEF Inv, Progress
  <2>4. RowsOf(s) = UNION {Chunk(scan[s], c) : c \in DOMAIN scan[s].chunks}
    BY DEF RowsOf, Chunk
  <2>5. QED  BY <2>3, <2>4 DEF Inv, Schedule
<1>2. QED  BY <1>1, Invariant, PTL

-----------------------------------------------------------------------------
(* What was drained is what the source streams.                            *)

\* The first batches of the stream, as far as it was pulled, are the chunks.
DrainedTo(st) ==
  /\ st.src \in Sources /\ st.pulled <= Len(Batches[st.src])
  /\ Len(st.chunks) = Cardinality(Filled(st.src, st.pulled))
  /\ \A k \in Filled(st.src, st.pulled) :
       st.chunks[Cardinality(Filled(st.src, k))] = Batches[st.src][k]

\* A plan that is executed has the schema of every chunk it has converted.
DrainInv(s) ==
  /\ phase[s] = "none" => scan[s].chunks = <<>>
  /\ phase[s] # "none" => DrainedTo(scan[s])
  /\ phase[s] = "scanning" => scan[s].pulled = Len(Batches[scan[s].src])
  /\ scan[s].chunks # <<>> => Schema[scan[s].src] = bound[s]

\* The batches with rows are numbered by their rank.
LEMMA FilledRanks ==
  ASSUME NEW src \in Sources, NEW n \in Nat, n <= Len(Batches[src])
  PROVE  /\ Cardinality(Filled(src, n)) \in Nat
         /\ \A k \in Filled(src, n) :
              Cardinality(Filled(src, k)) \in 1 .. Cardinality(Filled(src, n))
         /\ n < Len(Batches[src]) =>
              IF Batches[src][n + 1] > 0
              THEN /\ Filled(src, n + 1) = Filled(src, n) \cup {n + 1}
                   /\ Cardinality(Filled(src, n + 1)) = Cardinality(Filled(src, n)) + 1
              ELSE Filled(src, n + 1) = Filled(src, n)
<1>1. Batches[src] \in Seq(Nat)
  BY BatchesAreSizes
<1>2. \A m \in Nat : IsFiniteSet(Filled(src, m)) /\ Cardinality(Filled(src, m)) \in Nat
  <2>1. SUFFICES ASSUME NEW m \in Nat
                 PROVE  IsFiniteSet(Filled(src, m)) /\ Cardinality(Filled(src, m)) \in Nat
    OBVIOUS
  <2>2. IsFiniteSet(1 .. m) /\ Filled(src, m) \in SUBSET (1 .. m)
    BY FS_Interval DEF Filled
  <2>3. QED
    BY <2>2, FS_Subset, FS_CardinalityType
<1>3. ASSUME NEW k \in Filled(src, n)
      PROVE  Cardinality(Filled(src, k)) \in 1 .. Cardinality(Filled(src, n))
  <2>1. k \in Nat /\ k \in Filled(src, k) /\ Filled(src, k) \in SUBSET Filled(src, n)
    BY <1>3 DEF Filled
  <2>2. Cardinality(Filled(src, k)) <= Cardinality(Filled(src, n))
    BY <1>2, <2>1, FS_Subset
  <2>3. Cardinality(Filled(src, k)) # 0
    BY <1>2, <2>1, FS_EmptySet
  <2>4. QED
    BY <1>2, <2>1, <2>2, <2>3
<1>4. ASSUME n < Len(Batches[src]), Batches[src][n + 1] > 0
      PROVE  /\ Filled(src, n + 1) = Filled(src, n) \cup {n + 1}
             /\ Cardinality(Filled(src, n + 1)) = Cardinality(Filled(src, n)) + 1
  <2>1. Filled(src, n + 1) = Filled(src, n) \cup {n + 1} /\ n + 1 \notin Filled(src, n)
    BY <1>4 DEF Filled
  <2>2. QED
    BY <1>2, <2>1, FS_AddElement
<1>5. ASSUME n < Len(Batches[src]), ~(Batches[src][n + 1] > 0)
      PROVE  Filled(src, n + 1) = Filled(src, n)
  BY <1>5 DEF Filled
<1>6. QED
  BY <1>2, <1>3, <1>4, <1>5

\* One more batch is one more chunk, at the end, or none when it is empty.
LEMMA PulledDrains ==
  ASSUME NEW st \in State, DrainedTo(st), st.pulled < Len(Batches[st.src])
  PROVE  DrainedTo(Pulled(st, Batches[st.src][st.pulled + 1]))
<1> DEFINE src == st.src
           p == st.pulled
           n == Batches[src][p + 1]
<1>1. /\ src \in Sources /\ p \in Nat /\ p + 1 <= Len(Batches[src]) /\ st.chunks \in Seq(Nat)
      /\ Batches[src] \in Seq(Nat) /\ n \in Nat
  BY BatchesAreSizes DEF State, DrainedTo
<1>2. st = [src |-> st.src, pulled |-> st.pulled, chunks |-> st.chunks,
            windows |-> st.windows, next |-> st.next]
  BY DEF State
<1>3. /\ Cardinality(Filled(src, p)) \in Nat
      /\ \A k \in Filled(src, p) : Cardinality(Filled(src, k)) \in 1 .. Cardinality(Filled(src, p))
      /\ IF n > 0
         THEN /\ Filled(src, p + 1) = Filled(src, p) \cup {p + 1}
              /\ Cardinality(Filled(src, p + 1)) = Cardinality(Filled(src, p)) + 1
         ELSE Filled(src, p + 1) = Filled(src, p)
  BY <1>1, FilledRanks
<1>4. PICK after : after = Pulled(st, n)
  OBVIOUS
<1>5. CASE n = 0
  <2>1. after.src = src /\ after.pulled = p + 1 /\ after.chunks = st.chunks
    BY <1>2, <1>4, <1>5 DEF Pulled
  <2>2. QED
    BY <1>1, <1>3, <1>4, <1>5, <2>1, SMTT(30) DEF DrainedTo
<1>6. CASE n # 0
  <2>1. PICK more : more = Append(st.chunks, n)
    OBVIOUS
  <2>2. after.src = src /\ after.pulled = p + 1 /\ after.chunks = more
    BY <1>2, <1>4, <1>6, <2>1 DEF Pulled
  <2>3. /\ Len(more) = Len(st.chunks) + 1 /\ more[Len(st.chunks) + 1] = n
        /\ \A i \in 1 .. Len(st.chunks) : more[i] = st.chunks[i]
    BY <1>1, <2>1
  <2>4. Len(st.chunks) = Cardinality(Filled(src, p))
    BY DEF DrainedTo
  <2>5. n > 0
    BY <1>1, <1>6
  <2>6. Len(more) = Cardinality(Filled(src, p + 1))
    BY <1>3, <2>3, <2>4, <2>5
  <2>7. ASSUME NEW k \in Filled(src, p + 1)
        PROVE  more[Cardinality(Filled(src, k))] = Batches[src][k]
    <3>1. CASE k = p + 1
      BY <1>3, <2>3, <2>4, <2>5, <3>1
    <3>2. CASE k \in Filled(src, p)
      BY <1>3, <2>3, <2>4, <3>2 DEF DrainedTo
    <3>3. QED
      BY <1>3, <2>5, <3>1, <3>2
  <2>8. QED
    BY <1>1, <1>4, <2>2, <2>6, <2>7 DEF DrainedTo
<1>7. QED
  BY <1>5, <1>6

\* Init looks at the source once, and takes a batch only when it has the plan's schema.
LEMMA DrainStep ==
  ASSUME Inv, [Next]_vars, NEW s \in Scans, DrainInv(s)
  PROVE  DrainInv(s)'
<1>1. /\ phase \in [Scans -> {"none", "draining", "scanning"}] /\ scan \in [Scans -> State]
      /\ bound \in [Scans -> {Schema[src] : src \in Sources} \cup {None}]
  BY DEF Inv, TypeOK
<1>2. ASSUME scan'[s].src = scan[s].src, scan'[s].pulled = scan[s].pulled,
             scan'[s].chunks = scan[s].chunks, phase'[s] = phase[s],
             scan[s].chunks # <<>> => bound'[s] = bound[s]
      PROVE  DrainInv(s)'
  BY <1>2 DEF DrainInv, DrainedTo
<1>3. CASE UNCHANGED vars
  BY <1>2, <1>3 DEF vars
<1>4. ASSUME NEW src \in Sources, Register(src)
      PROVE  DrainInv(s)'
  <2>1. scan' = scan /\ phase' = phase
    BY <1>4 DEF Register
  <2>2. scan[s].chunks # <<>> => bound'[s] = bound[s]
    BY <1>4 DEF Register, DrainInv
  <2>3. QED
    BY <1>2, <2>1, <2>2
<1>5. ASSUME NEW t \in Scans, Planning(t)
      PROVE  DrainInv(s)'
  <2>1. scan' = scan /\ phase' = phase
    BY <1>5 DEF Planning, Bind, Unbind
  <2>2. CASE Bind(t)
    <3>1. scan[s].chunks # <<>> => bound[s] # None
      <4>1. phase[s] # "none" => Schema[scan[s].src] # None
        BY NoneIsNothing DEF DrainInv, DrainedTo
      <4>2. QED
        BY <4>1 DEF DrainInv
    <3>2. scan[s].chunks # <<>> => bound'[s] = bound[s]
      BY <1>1, <2>2, <3>1 DEF Bind
    <3>3. QED
      BY <1>2, <2>1, <3>2
  <2>3. CASE Unbind(t)
    <3>1. scan[s].chunks # <<>> => bound'[s] = bound[s]
      BY <1>1, <2>3 DEF Unbind, DrainInv
    <3>2. QED
      BY <1>2, <2>1, <3>1
  <2>4. QED
    BY <1>5, <2>2, <2>3 DEF Planning
<1>6. ASSUME NEW t \in Scans, Draining(t), t # s
      PROVE  DrainInv(s)'
  <2>1. bound' = bound /\ scan'[s] = scan[s] /\ phase'[s] = phase[s]
    BY <1>1, <1>6 DEF Draining, InitOpens, InitPulls, InitFails, InitEnds, StateDestroy
  <2>2. QED
    BY <1>2, <2>1
<1>7. CASE InitOpens(s)
  <2>1. registered \in Sources
    BY <1>7 DEF InitOpens, Inv, TypeOK, SourceKnown
  <2>2. phase'[s] = "draining" /\ scan'[s] = [NoState EXCEPT !.src = registered]
    BY <1>1, <1>7 DEF InitOpens
  <2>3. scan'[s].src = registered /\ scan'[s].pulled = 0 /\ scan'[s].chunks = <<>>
    BY <2>2 DEF NoState
  <2>4. Filled(registered, 0) = {} /\ Cardinality({}) = 0
    BY FS_EmptySet DEF Filled
  <2>5. Len(Batches[registered]) \in Nat
    BY <2>1, BatchesAreSizes
  <2>6. DrainedTo(scan'[s])
    <3>1. PICK st : st = scan'[s]
      OBVIOUS
    <3>2. st.src = registered /\ st.pulled = 0 /\ st.chunks = <<>> /\ Len(<<>>) = 0
      BY <2>3, <3>1
    <3>3. Filled(st.src, st.pulled) = {}
      BY <2>4, <3>2
    <3>4. st.src \in Sources /\ st.pulled <= Len(Batches[st.src])
      BY <2>1, <2>5, <3>2
    <3>5. Len(st.chunks) = Cardinality(Filled(st.src, st.pulled))
      <4>1. Len(st.chunks) = 0
        BY <3>2
      <4>2. QED
        BY <2>4, <3>3, <4>1
    <3>6. DrainedTo(st)
      BY <3>3, <3>4, <3>5 DEF DrainedTo
    <3>7. QED
      BY <3>1, <3>6
  <2>7. QED
    BY <2>2, <2>3, <2>6 DEF DrainInv, DrainedTo
<1>8. CASE InitPulls(s)
  <2>1. /\ phase[s] = "draining" /\ phase'[s] = "draining" /\ bound' = bound
        /\ scan[s].pulled < Len(Batches[scan[s].src]) /\ Schema[scan[s].src] = bound[s]
        /\ scan'[s] = Pulled(scan[s], Batches[scan[s].src][scan[s].pulled + 1])
    BY <1>1, <1>8 DEF InitPulls
  <2>2. scan[s] \in State /\ DrainedTo(scan[s])
    BY <1>1, <2>1 DEF DrainInv
  <2>3. DrainedTo(scan'[s])
    BY <2>1, <2>2, PulledDrains
  <2>4. scan'[s].src = scan[s].src
    BY <2>1, <2>2 DEF Pulled, State
  <2>5. QED
    BY <2>1, <2>3, <2>4 DEF DrainInv, DrainedTo
<1>9. CASE InitFails(s) \/ StateDestroy(s)
  <2>1. phase'[s] = "none" /\ scan'[s] = NoState
    BY <1>1, <1>9 DEF InitFails, StateDestroy
  <2>2. QED
    BY <2>1 DEF DrainInv, NoState
<1>10. CASE InitEnds(s)
  <2>1. /\ phase[s] = "draining" /\ phase'[s] = "scanning" /\ scan' = scan /\ bound' = bound
        /\ scan[s].pulled = Len(Batches[scan[s].src])
    BY <1>1, <1>10 DEF InitEnds
  <2>2. QED
    BY <2>1 DEF DrainInv, DrainedTo
<1>11. ASSUME NEW w \in Workers, Scanning(w) \/ \E t \in Scans : LocalInit(w, t)
       PROVE  DrainInv(s)'
  <2>1. /\ bound' = bound /\ phase' = phase
        /\ scan' = scan \/ \E t \in Scans : \E n : scan' = [scan EXCEPT ![t].next = n]
    <3>1. CASE Claim(w)
      <4>1. work[w].scan \in Scans
        BY <3>1 DEF Claim, Inv, TypeOK
      <4>2. QED
        BY <3>1, <4>1 DEF Claim
    <3>2. QED
      BY <1>11, <3>1 DEF Scanning, Emit, Consumed, LocalInit, Starts
  <2>2. /\ scan'[s].src = scan[s].src /\ scan'[s].pulled = scan[s].pulled
        /\ scan'[s].chunks = scan[s].chunks
    <3>1. CASE scan' = scan
      BY <3>1
    <3>2. ASSUME NEW t \in Scans, NEW n, scan' = [scan EXCEPT ![t].next = n]
          PROVE  /\ scan'[s].src = scan[s].src /\ scan'[s].pulled = scan[s].pulled
                 /\ scan'[s].chunks = scan[s].chunks
      <4>1. scan'[s] = IF s = t THEN [scan[s] EXCEPT !.next = n] ELSE scan[s]
        BY <1>1, <3>2
      <4>2. scan[s] = [src |-> scan[s].src, pulled |-> scan[s].pulled, chunks |-> scan[s].chunks,
                       windows |-> scan[s].windows, next |-> scan[s].next]
        BY <1>1 DEF State
      <4>3. QED
        BY <4>1, <4>2
    <3>3. QED
      BY <2>1, <3>1, <3>2
  <2>3. QED
    BY <1>2, <2>1, <2>2
<1>12. QED
  BY <1>3, <1>4, <1>5, <1>6, <1>7, <1>8, <1>9, <1>10, <1>11 DEF Next, Draining

\* An execution scans every batch of the source it opened, in order, and has converted all
\* of them with the schema its plan was bound with, whatever is registered meanwhile.
THEOREM DrainedAsBoundTheorem == Spec => []DrainedAsBound
<1> DEFINE Drained == \A s \in Scans : DrainInv(s)
<1>1. Init => Drained
  BY DEF Init, DrainInv, NoState
<1>2. Inv /\ Drained /\ [Next]_vars => Drained'
  BY DrainStep
<1>3. Inv /\ Drained => DrainedAsBound
  <2> SUFFICES ASSUME Inv, NEW s \in Scans, DrainInv(s)
               PROVE  LET src == scan[s].src IN
                      /\ scan[s].chunks # <<>> => Schema[src] = bound[s]
                      /\ phase[s] = "scanning" =>
                           /\ Len(scan[s].chunks) = Cardinality(Filled(src, Len(Batches[src])))
                           /\ \A k \in Filled(src, Len(Batches[src])) :
                                scan[s].chunks[Cardinality(Filled(src, k))] = Batches[src][k]
    BY DEF DrainedAsBound
  <2>1. QED
    BY DEF DrainInv, DrainedTo
<1>4. QED
  BY <1>1, <1>2, <1>3, Invariant, PTL DEF Spec
=============================================================================
