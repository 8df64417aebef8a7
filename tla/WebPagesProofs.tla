---------------------------- MODULE WebPagesProofs ----------------------------
(***************************************************************************)
(* The pages around the page of a test, for any identifiers, sizes of page *)
(* and numbers of calls, clicks and faults.  First what the dashboard      *)
(* makes of any rows; then that the rows it shows are some the server      *)
(* listed, whichever answer brought them, and that what turns is waited    *)
(* for; and that the pages are clients of the server.                      *)
(***************************************************************************)
EXTENDS WebPages, NodeServerProofs, WellFoundedInduction

-----------------------------------------------------------------------------
(* Rates and averages.                                                     *)

\* A row of the list.
Row == [id : Ids, created : Nat, score : 0 .. 100, grade : Letters,
        dmarc : {"pass", "neutral"}, source : {"received", "uploaded"}]

\* Rate rounds to the nearest.
LEMMA Rounded ==
  ASSUME NEW n \in Nat, NEW of \in Nat \ {0}
  PROVE /\ Rate(n, of) \in Nat
        /\ (2 * of) * Rate(n, of) <= 200 * n + of
        /\ 200 * n + of < (2 * of) * Rate(n, of) + 2 * of
<1> DEFINE x == 200 * n + of
           d == 2 * of
           r == x \div d
<1>1. x \in Nat /\ d \in Nat \ {0}
  OBVIOUS
<1>2. Rate(n, of) = r
  BY DEF Rate
<1> HIDE DEF x, d
<1>3. r \in Int /\ x = d * r + (x % d) /\ x % d \in 0 .. (d - 1)
  BY <1>1
<1>4. r \in Nat
  <2>1. r + 1 <= 0 => d * (r + 1) <= 0
    BY <1>1, <1>3
  <2>2. d * (r + 1) = d * r + d
    BY <1>1, <1>3
  <2>3. QED
    BY <1>1, <1>3, <2>1, <2>2
<1>5. d * r <= x /\ x < d * r + d
  <2> DEFINE y == d * r
             m == x % d
  <2>1. y \in Int
    BY <1>1, <1>3
  <2>2. x = y + m /\ m \in 0 .. (d - 1)
    BY <1>3
  <2> HIDE DEF y, m
  <2>3. y <= x /\ x < y + d
    BY <1>1, <2>1, <2>2
  <2>4. QED
    BY <2>3 DEF y
<1>6. QED
  BY <1>2, <1>4, <1>5 DEF x, d

\* As long as there are fewer than 200, 100 % is all of them.
LEMMA FullRate ==
  ASSUME NEW of \in 1 .. 199, NEW n \in 0 .. of
  PROVE Rate(n, of) = 100 <=> n = of
<1> DEFINE r == Rate(n, of)
           y == (2 * of) * r
<1>1. r \in Nat /\ y <= 200 * n + of /\ 200 * n + of < y + 2 * of
  <2>1. of \in Nat \ {0} /\ n \in Nat
    OBVIOUS
  <2>2. QED
    BY <2>1, Rounded
<1>2. ASSUME r = 100 PROVE n = of
  <2>1. y = 200 * of
    BY <1>2
  <2> HIDE DEF y
  <2>2. QED
    BY <1>1, <2>1
<1>3. ASSUME n = of PROVE r = 100
  <2>1. r >= 101 => (2 * of) * r >= (2 * of) * 101
    BY <1>1
  <2>2. r <= 99 => (2 * of) * r <= (2 * of) * 99
    BY <1>1
  <2> HIDE DEF r
  <2>3. QED
    BY <1>1, <1>3, <2>1, <2>2
<1>4. QED
  BY <1>2, <1>3

LEMMA OneToN == \A n \in Nat : IsFiniteSet(1 .. n) /\ Cardinality(1 .. n) = n
<1>1. ASSUME NEW n \in Nat PROVE IsFiniteSet(1 .. n) /\ Cardinality(1 .. n) = n
  <2>1. IsFiniteSet(1 .. n) /\ Cardinality(1 .. n) = IF 1 > n THEN 0 ELSE n - 1 + 1
    BY FS_Interval
  <2>2. QED
    BY <2>1
<1>2. QED
  BY <1>1

LEMMA RowOK ==
  ASSUME NEW rows \in Seq(Row)
  PROVE /\ Len(rows) \in Nat /\ DOMAIN rows = 1 .. Len(rows)
        /\ \A i \in DOMAIN rows :
             /\ rows[i] \in Row
             /\ rows[i].score \in Nat /\ rows[i].score <= 100 /\ rows[i].grade \in Letters
             /\ rows[i].source \in {"received", "uploaded"} /\ rows[i].created \in Nat
<1>1. Len(rows) \in Nat /\ DOMAIN rows = 1 .. Len(rows) /\ \A i \in DOMAIN rows : rows[i] \in Row
  OBVIOUS
<1>2. \A row \in Row : /\ row.score \in Nat /\ row.score <= 100 /\ row.grade \in Letters
                        /\ row.source \in {"received", "uploaded"} /\ row.created \in Nat
  <2>1. \A row \in Row : /\ row.score \in 0 .. 100 /\ row.grade \in Letters
                          /\ row.source \in {"received", "uploaded"} /\ row.created \in Nat
    BY DEF Row
  <2>2. \A n \in 0 .. 100 : n \in Nat /\ n <= 100
    OBVIOUS
  <2>3. QED
    BY <2>1, <2>2
<1>3. QED
  BY <1>1, <1>2

\* The points of rows whose scores have a bound, from below and from above.
LEMMA PointsBound ==
  ASSUME NEW rows \in Seq(Row), NEW m \in Nat
  PROVE /\ Cardinality(Points(rows)) \in Nat
        /\ (\A i \in DOMAIN rows : m <= rows[i].score) => Len(rows) * m <= Cardinality(Points(rows))
        /\ (\A i \in DOMAIN rows : rows[i].score <= m) => Cardinality(Points(rows)) <= Len(rows) * m
<1> DEFINE D == DOMAIN rows
           P == Points(rows)
           N == Len(rows)
<1>1. N \in Nat /\ D = 1 .. N /\ \A i \in D : rows[i].score \in Nat /\ rows[i].score <= 100
  BY RowOK
<1>2. P = UNION {{i} \X (1 .. rows[i].score) : i \in D}
  BY DEF Points
<1> HIDE DEF D, P, N
<1>3. ASSUME NEW k \in Nat
      PROVE IsFiniteSet(D \X (1 .. k)) /\ Cardinality(D \X (1 .. k)) = N * k
  <2>1. IsFiniteSet(1 .. k) /\ Cardinality(1 .. k) = k /\ IsFiniteSet(D) /\ Cardinality(D) = N
    BY <1>1, OneToN
  <2>2. QED
    BY <2>1, FS_Product
<1>4. ASSUME NEW k \in Nat, \A i \in D : rows[i].score <= k PROVE P \subseteq D \X (1 .. k)
  <2>1. ASSUME NEW i \in D PROVE 1 .. rows[i].score \subseteq 1 .. k
    <3>1. rows[i].score \in Int /\ rows[i].score <= k
      BY <1>1, <1>4
    <3>2. QED
      BY <3>1
  <2>2. QED
    BY <1>2, <2>1
<1>5. ASSUME NEW k \in Nat, \A i \in D : k <= rows[i].score PROVE D \X (1 .. k) \subseteq P
  <2>1. ASSUME NEW i \in D PROVE 1 .. k \subseteq 1 .. rows[i].score
    <3>1. rows[i].score \in Int /\ k <= rows[i].score
      BY <1>1, <1>5
    <3>2. QED
      BY <3>1
  <2>2. ASSUME NEW i \in D, NEW j \in 1 .. k PROVE <<i, j>> \in P
    <3>1. <<i, j>> \in {i} \X (1 .. rows[i].score)
      BY <2>1
    <3>2. QED
      BY <1>2, <3>1
  <2>3. QED
    BY <2>2
<1>6. IsFiniteSet(P)
  <2>1. \A i \in D : rows[i].score <= 100
    BY <1>1
  <2>2. P \subseteq D \X (1 .. 100) /\ IsFiniteSet(D \X (1 .. 100))
    BY <1>3, <1>4, <2>1
  <2>3. QED
    BY <2>2, FS_Subset
<1>7. Cardinality(P) \in Nat
  BY <1>6, FS_CardinalityType
<1>8. ASSUME \A i \in D : m <= rows[i].score PROVE N * m <= Cardinality(P)
  <2>1. D \X (1 .. m) \subseteq P /\ Cardinality(D \X (1 .. m)) = N * m
    BY <1>3, <1>5, <1>8
  <2>2. Cardinality(D \X (1 .. m)) <= Cardinality(P)
    BY <1>6, <2>1, FS_Subset
  <2>3. QED
    BY <2>1, <2>2
<1>9. ASSUME \A i \in D : rows[i].score <= m PROVE Cardinality(P) <= N * m
  <2>1. /\ P \subseteq D \X (1 .. m) /\ IsFiniteSet(D \X (1 .. m))
        /\ Cardinality(D \X (1 .. m)) = N * m
    BY <1>3, <1>4, <1>9
  <2>2. Cardinality(P) <= Cardinality(D \X (1 .. m))
    BY <2>1, FS_Subset
  <2>3. QED
    BY <2>1, <2>2
<1>10. QED
  BY <1>7, <1>8, <1>9 DEF P, D, N

\* The average of some rows is a score that one of them has or exceeds and one has
\* or falls short of.
LEMMA AverageBetween ==
  ASSUME NEW rows \in Seq(Row), rows # <<>>
  PROVE \E i, j \in DOMAIN rows : AverageScore(rows) \in rows[i].score .. rows[j].score
<1> DEFINE N == Len(rows)
           S == Cardinality(Points(rows))
           r == AverageScore(rows)
<1>1. N \in Nat \ {0} /\ 1 \in DOMAIN rows /\ \A i \in DOMAIN rows : rows[i].score \in Nat /\ rows[i].score <= 100
  <2>1. N # 0
    OBVIOUS
  <2>2. QED
    BY <2>1, RowOK
<1>2. S \in Nat
  BY PointsBound
<1>3. r = Rate(S, 100 * N)
  BY DEF AverageScore
<1>4. /\ r \in Nat
      /\ (2 * (100 * N)) * r <= 200 * S + 100 * N
      /\ 200 * S + 100 * N < (2 * (100 * N)) * r + 2 * (100 * N)
  <2>1. 100 * N \in Nat \ {0}
    BY <1>1
  <2> HIDE DEF N, S, r
  <2>2. QED
    BY <1>2, <1>3, <2>1, Rounded
<1> DEFINE y == N * r
<1>5. y \in Nat /\ (2 * (100 * N)) * r = 200 * y
  <2> HIDE DEF N, S, r
  <2>1. QED
    BY <1>1, <1>4
<1>6. /\ 200 * y <= 200 * S + 100 * N
      /\ 200 * S + 100 * N < 200 * y + 200 * N
  <2> DEFINE z == (2 * (100 * N)) * r
  <2>1. z = 200 * y /\ z <= 200 * S + 100 * N /\ 200 * S + 100 * N < z + 2 * (100 * N)
    BY <1>4, <1>5
  <2> HIDE DEF N, S, r, y, z
  <2>2. QED
    BY <1>1, <2>1
<1>7. \E i \in DOMAIN rows : rows[i].score <= r
  <2>1. SUFFICES ASSUME \A i \in DOMAIN rows : r + 1 <= rows[i].score PROVE FALSE
    <3> HIDE DEF r
    <3>1. QED
      BY <1>1, <1>4
  <2>2. N * (r + 1) <= S
    <3>1. r + 1 \in Nat
      BY <1>4
    <3>2. QED
      BY <2>1, <3>1, PointsBound
  <2>3. N * (r + 1) = y + N
    <3> HIDE DEF N, S, r
    <3>1. QED
      BY <1>1, <1>4 DEF y
  <2> HIDE DEF N, S, r, y
  <2>4. QED
    BY <1>1, <1>2, <1>5, <1>6, <2>2, <2>3
<1>8. \E i \in DOMAIN rows : r <= rows[i].score
  <2>1. SUFFICES ASSUME \A i \in DOMAIN rows : rows[i].score <= r - 1 PROVE FALSE
    <3> HIDE DEF r
    <3>1. QED
      BY <1>1, <1>4
  <2>2. r - 1 \in Nat
    <3> HIDE DEF r
    <3>1. rows[1].score \in Nat /\ rows[1].score <= r - 1
      BY <1>1, <2>1
    <3>2. QED
      BY <1>4, <3>1
  <2>3. S <= N * (r - 1)
    BY <2>1, <2>2, PointsBound
  <2>4. N * (r - 1) = y - N
    <3> HIDE DEF N, S, r
    <3>1. QED
      BY <1>1, <1>4 DEF y
  <2> HIDE DEF N, S, r, y
  <2>5. QED
    BY <1>1, <1>2, <1>5, <1>6, <2>3, <2>4
<1>9. QED
  <2> HIDE DEF r
  <2>1. PICK i \in DOMAIN rows : rows[i].score <= r
    BY <1>7
  <2>2. PICK j \in DOMAIN rows : r <= rows[j].score
    BY <1>8
  <2>3. r \in rows[i].score .. rows[j].score
    BY <1>1, <1>4, <2>1, <2>2
  <2>4. QED
    BY <2>3 DEF r

-----------------------------------------------------------------------------
(* Filters and orders.                                                     *)

\* Every order of the rows is strict and total.
Orders == {"date_desc", "date_asc", "score_desc", "score_asc"}

LEMMA AheadOrder ==
  ASSUME NEW rows \in Seq(Row), NEW by \in Orders
  PROVE /\ \A i \in DOMAIN rows : ~Ahead(rows, by, i, i)
        /\ \A i, j \in DOMAIN rows : i # j => Ahead(rows, by, i, j) \/ Ahead(rows, by, j, i)
        /\ \A i, j, k \in DOMAIN rows :
             Ahead(rows, by, i, j) /\ Ahead(rows, by, j, k) => Ahead(rows, by, i, k)
<1>1. \A i \in DOMAIN rows : i \in Int /\ rows[i].score \in Int /\ rows[i].created \in Int
  <2>1. DOMAIN rows \subseteq Int
    BY RowOK
  <2>2. \A i \in DOMAIN rows : rows[i].score \in Nat /\ rows[i].created \in Nat
    BY RowOK
  <2>3. QED
    BY <2>1, <2>2
<1>2. CASE by = "score_desc"
  BY <1>1, <1>2 DEF Ahead
<1>3. CASE by = "score_asc"
  BY <1>1, <1>3 DEF Ahead
<1>4. CASE by = "date_asc"
  BY <1>1, <1>4 DEF Ahead
<1>5. CASE by = "date_desc"
  BY <1>1, <1>5 DEF Ahead
<1>6. QED
  BY <1>2, <1>3, <1>4, <1>5 DEF Orders

\* How many of L are ahead of i.
RankIn(rows, by, L, i) == Cardinality({j \in L : Ahead(rows, by, j, i)})

\* Every rank is somebody's, and nobody else's.
LEMMA Ranked ==
  ASSUME NEW rows \in Seq(Row), NEW by \in Orders, NEW L \in SUBSET DOMAIN rows
  PROVE /\ Cardinality(L) \in Nat
        /\ \A i \in L : RankIn(rows, by, L, i) + 1 \in 1 .. Cardinality(L)
        /\ \A i, k \in L : RankIn(rows, by, L, i) = RankIn(rows, by, L, k) => i = k
        /\ \A n \in 1 .. Cardinality(L) : \E i \in L : RankIn(rows, by, L, i) = n - 1
<1> DEFINE Before(i) == {j \in L : Ahead(rows, by, j, i)}
           rank == [i \in L |-> RankIn(rows, by, L, i)]
           N == Cardinality(L)
<1>1. IsFiniteSet(L) /\ N \in Nat
  <2>1. IsFiniteSet(DOMAIN rows)
    BY RowOK, OneToN
  <2>2. IsFiniteSet(L)
    BY <2>1, FS_Subset
  <2>3. QED
    BY <2>2, FS_CardinalityType
<1>2. ASSUME NEW i \in L PROVE IsFiniteSet(Before(i)) /\ rank[i] = Cardinality(Before(i))
  <2>1. IsFiniteSet(Before(i))
    BY <1>1, FS_Subset
  <2>2. QED
    BY <2>1 DEF RankIn
<1>3. \A i \in L : RankIn(rows, by, L, i) = rank[i]
  OBVIOUS
<1> HIDE DEF rank
<1>4. \A i \in L : rank[i] \in Nat
  BY <1>2, FS_CardinalityType
<1>5. ASSUME NEW i \in L PROVE rank[i] < N
  <2>1. i \notin Before(i)
    BY AheadOrder
  <2>2. Before(i) \in SUBSET L /\ Before(i) # L
    BY <2>1
  <2>3. Cardinality(Before(i)) <= N /\ Cardinality(Before(i)) # N
    BY <1>1, <2>2, FS_Subset
  <2>4. rank[i] <= N /\ rank[i] # N
    BY <1>2, <2>3
  <2> HIDE DEF N
  <2>5. QED
    BY <1>1, <1>4, <2>4
<1>6. ASSUME NEW i \in L, NEW k \in L, Ahead(rows, by, i, k) PROVE rank[i] < rank[k]
  <2>1. Before(i) \subseteq Before(k)
    BY <1>6, AheadOrder
  <2>2. i \in Before(k) /\ i \notin Before(i)
    BY <1>6, AheadOrder
  <2>3. Before(i) \in SUBSET Before(k) /\ Before(i) # Before(k)
    BY <2>1, <2>2
  <2>4. /\ Cardinality(Before(i)) <= Cardinality(Before(k))
        /\ Cardinality(Before(i)) # Cardinality(Before(k))
    BY <1>2, <2>3, FS_Subset
  <2>5. rank[i] <= rank[k] /\ rank[i] # rank[k]
    BY <1>2, <2>4
  <2>6. QED
    BY <1>4, <2>5
<1> HIDE DEF N
<1>7. ASSUME NEW i \in L, NEW k \in L, rank[i] = rank[k] PROVE i = k
  <2>1. SUFFICES ASSUME i # k PROVE FALSE
    OBVIOUS
  <2>2. Ahead(rows, by, i, k) \/ Ahead(rows, by, k, i)
    BY <2>1, AheadOrder
  <2>3. rank[i] < rank[k] \/ rank[k] < rank[i]
    BY <1>6, <2>2
  <2>4. rank[i] \in Nat
    BY <1>4
  <2>5. QED
    BY <1>7, <2>3, <2>4
<1>8. \A i \in L : rank[i] + 1 \in 1 .. N
  <2>1. ASSUME NEW i \in L PROVE rank[i] + 1 \in 1 .. N
    <3>1. rank[i] \in Nat /\ rank[i] < N
      BY <1>4, <1>5
    <3>2. QED
      BY <1>1, <3>1
  <2>2. QED
    BY <2>1
<1> DEFINE f == [i \in L |-> rank[i] + 1]
<1>9. f \in Injection(L, 1 .. N)
  <2>1. f \in [L -> 1 .. N]
    BY <1>8
  <2>2. ASSUME NEW a \in L, NEW b \in L, f[a] = f[b] PROVE a = b
    <3>1. rank[a] \in Nat /\ rank[b] \in Nat /\ rank[a] + 1 = rank[b] + 1
      BY <1>4, <2>2
    <3>2. rank[a] = rank[b]
      BY <3>1
    <3>3. QED
      BY <1>7, <3>2
  <2>3. QED
    BY <2>1, <2>2 DEF Injection, IsInjective
<1>10. f \in Surjection(L, 1 .. N)
  <2>1. IsFiniteSet(1 .. N) /\ Cardinality(1 .. N) = N
    BY <1>1, OneToN
  <2>2. QED
    BY <1>1, <1>9, <2>1, FS_Injection DEF N
<1>11. ASSUME NEW n \in 1 .. N PROVE \E i \in L : rank[i] = n - 1
  <2>1. PICK i \in L : f[i] = n
    BY <1>10 DEF Surjection
  <2>2. rank[i] \in Nat /\ rank[i] + 1 = n
    BY <1>4, <2>1
  <2>3. rank[i] = n - 1
    BY <2>2
  <2>4. QED
    BY <2>3
<1>12. QED
  BY <1>1, <1>3, <1>7, <1>8, <1>11 DEF N

\* The rows shown are those selected, once each.
LEMMA Filtered ==
  ASSUME NEW rows \in Seq(Row), NEW choice, NEW source, NEW by \in Orders
  PROVE LET shown == FilteredTests(rows, choice, source, by)
            left  == Selected(rows, choice, source) IN
        /\ Len(shown) = Cardinality(left)
        /\ Range(shown) = {rows[i] : i \in left}
<1> DEFINE shown == FilteredTests(rows, choice, source, by)
           left == Selected(rows, choice, source)
           N == Cardinality(left)
           Place(k) == CHOOSE i \in left : RankIn(rows, by, left, i) = k - 1
<1>1. left \in SUBSET DOMAIN rows
  BY DEF Selected
<1>2. shown = [k \in 1 .. N |-> rows[Place(k)]]
  BY DEF FilteredTests, RankIn
<1> HIDE DEF left, shown, N
<1>3. ASSUME NEW k \in 1 .. N
      PROVE Place(k) \in left /\ RankIn(rows, by, left, Place(k)) = k - 1
  <2>1. \E i \in left : RankIn(rows, by, left, i) = k - 1
    BY <1>1, Ranked DEF N
  <2>2. QED
    BY <2>1
<1>4. ASSUME NEW i \in left PROVE \E k \in 1 .. N : Place(k) = i
  <2> DEFINE k == RankIn(rows, by, left, i) + 1
  <2>1. k \in 1 .. N /\ RankIn(rows, by, left, i) = k - 1
    <3>1. k \in 1 .. N
      BY <1>1, Ranked DEF N
    <3>2. RankIn(rows, by, left, i) \in Nat
      <4>1. IsFiniteSet(left)
        <5>1. IsFiniteSet(DOMAIN rows)
          BY RowOK, OneToN
        <5>2. QED
          BY <1>1, <5>1, FS_Subset
      <4>2. QED
        BY <4>1, FS_Subset, FS_CardinalityType DEF RankIn
    <3>3. QED
      BY <3>1, <3>2
  <2> HIDE DEF k
  <2>2. Place(k) = i
    BY <1>1, <1>3, <2>1, Ranked
  <2>3. QED
    BY <2>1, <2>2
<1> HIDE DEF Place
<1>5. Len(shown) = N
  <2>1. N \in Nat
    BY <1>1, Ranked DEF N
  <2>2. QED
    BY <1>2, <2>1
<1>6. Range(shown) = {rows[i] : i \in left}
  BY <1>2, <1>3, <1>4 DEF Range
<1>7. QED
  BY <1>5, <1>6 DEF shown, left, N

\* What the dates of a list from the server are: row b stands below row a.
Below(a, b) == IF a.id \in SeedSet THEN b.id \in SeedSet /\ a.created < b.created
               ELSE b.created <= a.created
RowsDated(rows) == \A i, j \in DOMAIN rows : i < j => Below(rows[i], rows[j])

\* By their dates, those ahead of a row made since the start are the rows above it, and
\* those ahead of a seed are the rows made and the seeds below it.
LEMMA AheadByDate ==
  ASSUME NEW rows \in Seq(Row), RowsDated(rows), NEW i \in DOMAIN rows
  PROVE {j \in DOMAIN rows : Ahead(rows, "date_desc", j, i)}
          = IF i \in Made(rows) THEN 1 .. i - 1 ELSE Made(rows) \cup (i + 1) .. Len(rows)
<1>1. /\ Len(rows) \in Nat /\ DOMAIN rows = 1 .. Len(rows)
      /\ \A j \in DOMAIN rows : rows[j].created \in Int /\ j \in Int
  <2>1. /\ Len(rows) \in Nat /\ DOMAIN rows = 1 .. Len(rows)
        /\ \A j \in DOMAIN rows : rows[j].created \in Nat
    BY RowOK
  <2>2. QED
    BY <2>1
<1>2. \A j \in DOMAIN rows : Ahead(rows, "date_desc", j, i) <=>
        rows[j].created > rows[i].created \/ (rows[j].created = rows[i].created /\ j < i)
  BY DEF Ahead
<1>3. \A j, k \in DOMAIN rows : j < k =>
        IF j \in Made(rows) THEN rows[k].created <= rows[j].created
        ELSE k \notin Made(rows) /\ rows[j].created < rows[k].created
  BY DEF RowsDated, Below, Made
<1>4. Made(rows) \subseteq DOMAIN rows
  BY DEF Made
<1>5. ASSUME i \in Made(rows), NEW j \in DOMAIN rows
      PROVE Ahead(rows, "date_desc", j, i) <=> j < i
  BY <1>1, <1>2, <1>3, <1>5
<1>6. ASSUME i \notin Made(rows), NEW j \in DOMAIN rows
      PROVE Ahead(rows, "date_desc", j, i) <=> j \in Made(rows) \/ i < j
  BY <1>1, <1>2, <1>3, <1>6
<1>7. CASE i \in Made(rows)
  BY <1>1, <1>5, <1>7
<1>8. CASE i \notin Made(rows)
  BY <1>1, <1>4, <1>6, <1>8
<1>9. QED
  BY <1>7, <1>8

\* So each row is shown where ByDate has it.
LEMMA ShownByDate ==
  ASSUME NEW rows \in Seq(Row), RowsDated(rows), NEW i \in DOMAIN rows
  PROVE FilteredTests(rows, "all", "all", "date_desc")[ByDate(rows, i)] = rows[i]
<1> DEFINE D == DOMAIN rows
           N == Len(rows)
           M == Made(rows)
           Rank(k) == RankIn(rows, "date_desc", D, k)
<1>1. N \in Nat /\ D = 1 .. N /\ i \in 1 .. N /\ IsFiniteSet(D) /\ Cardinality(D) = N
  BY RowOK, OneToN
<1>2. Selected(rows, "all", "all") = D
  <2>1. \A k \in D : rows[k].grade \in Letters
    BY RowOK
  <2>2. QED
    BY <2>1 DEF Selected, Passing
<1>3. /\ Rank(i) + 1 \in 1 .. N
      /\ \A k \in D : Rank(k) = Rank(i) => k = i
  BY <1>1, Ranked DEF Orders
<1>4. Rank(i) + 1 = ByDate(rows, i) /\ Rank(i) \in Int
  <2>1. M \in SUBSET D
    BY DEF Made
  <2>2. CASE i \in M
    <3>1. Rank(i) = Cardinality(1 .. i - 1)
      BY <2>2, AheadByDate DEF RankIn
    <3> HIDE DEF N, Rank
    <3>2. i - 1 \in Nat /\ Cardinality(1 .. i - 1) = i - 1
      BY <1>1, OneToN
    <3>3. QED
      BY <1>1, <2>2, <3>1, <3>2 DEF ByDate
  <2>3. CASE i \notin M
    <3> DEFINE B == (i + 1) .. N
    <3>1. Rank(i) = Cardinality(M \cup B)
      BY <2>3, AheadByDate DEF RankIn
    <3>2. IsFiniteSet(M) /\ Cardinality(M) \in Nat
      BY <1>1, <2>1, FS_Subset, FS_CardinalityType
    <3>3. \A j \in M : j < i
      <4>1. \A j \in M : j \in 1 .. N /\ j # i
        BY <1>1, <2>1, <2>3
      <4>2. \A j \in D : i < j => j \notin M
        BY <2>3 DEF RowsDated, Below, Made
      <4> HIDE DEF M, N, D
      <4>3. QED
        BY <1>1, <4>1, <4>2
    <3> HIDE DEF M, N, Rank
    <3>4. IsFiniteSet(B) /\ Cardinality(B) = N - i
      <4>1. i + 1 \in Int /\ N \in Int
        BY <1>1
      <4>2. IsFiniteSet(B) /\ Cardinality(B) = IF i + 1 > N THEN 0 ELSE N - (i + 1) + 1
        BY <4>1, FS_Interval, Zenon
      <4>3. QED
        BY <1>1, <4>2
    <3>5. M \cap B = {}
      BY <1>1, <3>3
    <3> HIDE DEF B
    <3>6. Cardinality(M \cup B) = Cardinality(M) + Cardinality(B) - 0
      BY <3>2, <3>4, <3>5, FS_Union, FS_EmptySet
    <3>7. Rank(i) = Cardinality(M) + (N - i)
      BY <1>1, <3>1, <3>2, <3>4, <3>6
    <3>8. ByDate(rows, i) = N + Cardinality(M) + 1 - i
      BY <2>3 DEF ByDate, M, N
    <3>9. QED
      BY <1>1, <3>2, <3>7, <3>8
  <2>4. QED
    BY <2>2, <2>3
<1>5. FilteredTests(rows, "all", "all", "date_desc")
        = [k \in 1 .. N |-> rows[CHOOSE j \in D : Rank(j) = k - 1]]
  <2>1. FilteredTests(rows, "all", "all", "date_desc")
          = LET left == Selected(rows, "all", "all") IN
            [k \in 1 .. Cardinality(left) |->
               rows[CHOOSE j \in left : RankIn(rows, "date_desc", left, j) = k - 1]]
    BY DEF FilteredTests, RankIn
  <2> HIDE DEF D, N
  <2>2. QED
    BY <1>1, <1>2, <2>1
<1> HIDE DEF D, N, Rank
<1>6. FilteredTests(rows, "all", "all", "date_desc")[Rank(i) + 1]
        = rows[CHOOSE j \in D : Rank(j) = (Rank(i) + 1) - 1]
  BY <1>3, <1>5
<1>7. (CHOOSE j \in D : Rank(j) = (Rank(i) + 1) - 1) = i
  <2>1. (Rank(i) + 1) - 1 = Rank(i)
    BY <1>4
  <2>2. i \in D
    BY <1>1
  <2>3. QED
    BY <1>3, <2>1, <2>2
<1>8. QED
  BY <1>4, <1>6, <1>7

-----------------------------------------------------------------------------
(* The numbers and the rows.                                               *)

\* What FiltersAgree says of the rows of the dashboard.
Agree(rows) ==
  LET Shown(choice) == Len(FilteredTests(rows, choice, "all", "date_desc")) IN
  /\ \A g \in Letters : Shown(g) = GradeCounts(rows)[g]
  /\ Shown("high") + Shown("medium") + Shown("low") = Len(rows)
  /\ (HighGradeRate(rows) = 100) = (rows # <<>> /\ Shown("high") = Len(rows))
  /\ (DmarcPassRate(rows) = 100) = (rows # <<>> /\ \A i \in DOMAIN rows : rows[i].dmarc = "pass")
  /\ rows # <<>> =>
       \E i, j \in DOMAIN rows : AverageScore(rows) \in rows[i].score .. rows[j].score
  /\ \A by \in Orders :
       Range(FilteredTests(rows, "all", "received", by))
         \cup Range(FilteredTests(rows, "all", "uploaded", by)) = Range(rows)
  /\ \A i \in DOMAIN rows :
       FilteredTests(rows, "all", "all", "date_desc")[ByDate(rows, i)] = rows[i]

\* The rows a choice leaves are those its letters count.
LEMMA ShownIsCounted ==
  ASSUME NEW rows \in Seq(Row), NEW choice
  PROVE Len(FilteredTests(rows, choice, "all", "date_desc")) = Among(rows, Passing(choice))
<1>1. Selected(rows, choice, "all") = {i \in DOMAIN rows : rows[i].grade \in Passing(choice)}
  BY DEF Selected
<1>2. "date_desc" \in Orders
  BY DEF Orders
<1>3. Len(FilteredTests(rows, choice, "all", "date_desc")) = Cardinality(Selected(rows, choice, "all"))
  BY <1>2, Filtered
<1>4. QED
  BY <1>1, <1>3 DEF Among

\* Among counts some of the rows.
LEMMA AmongSome ==
  ASSUME NEW rows \in Seq(Row), NEW T \in SUBSET DOMAIN rows
  PROVE Cardinality(T) \in 0 .. Len(rows) /\ (Cardinality(T) = Len(rows) <=> T = DOMAIN rows)
<1> DEFINE D == DOMAIN rows
           N == Len(rows)
<1>1. IsFiniteSet(D) /\ Cardinality(D) = N /\ N \in Nat
  BY RowOK, OneToN
<1>2. IsFiniteSet(T) /\ Cardinality(T) <= Cardinality(D) /\ (Cardinality(D) = Cardinality(T) => D = T)
  BY <1>1, FS_Subset
<1>3. Cardinality(T) \in Nat
  BY <1>2, FS_CardinalityType
<1> HIDE DEF D, N
<1>4. QED
  BY <1>1, <1>2, <1>3 DEF D, N

\* A rate of 100 % leaves out none of at most 100 rows.
LEMMA WholeRate ==
  ASSUME NEW rows \in Seq(Row), Len(rows) <= 100, NEW T \in SUBSET DOMAIN rows
  PROVE Rate(Cardinality(T), Len(rows)) = 100 <=> rows # <<>> /\ T = DOMAIN rows
<1> DEFINE n == Cardinality(T)
           N == Len(rows)
<1>1. n \in 0 .. N /\ (n = N <=> T = DOMAIN rows)
  BY AmongSome
<1>2. N \in Nat /\ N <= 100 /\ (N = 0 <=> rows = <<>>)
  OBVIOUS
<1> HIDE DEF n, N
<1>3. CASE N = 0
  <2>1. Rate(n, N) = 0
    BY <1>3 DEF Rate
  <2>2. QED
    BY <1>2, <1>3, <2>1 DEF n, N
<1>4. CASE N # 0
  <2>1. N \in 1 .. 199
    BY <1>2, <1>4
  <2>2. Rate(n, N) = 100 <=> n = N
    <3>1. n \in 0 .. N
      BY <1>1
    <3>2. QED
      BY <2>1, <3>1, FullRate, Zenon
  <2>3. QED
    BY <1>1, <1>2, <1>4, <2>2 DEF n, N
<1>5. QED
  BY <1>3, <1>4

\* No letter is under two pills, and none under none.
LEMMA Pills ==
  ASSUME NEW rows \in Seq(Row)
  PROVE Among(rows, Passing("high")) + Among(rows, Passing("medium")) + Among(rows, Passing("low"))
          = Len(rows)
<1> DEFINE D == DOMAIN rows
           N == Len(rows)
           H == {i \in D : rows[i].grade \in {"A+", "A"}}
           M == {i \in D : rows[i].grade \in {"B", "C"}}
           L == {i \in D : rows[i].grade \in {"D", "E", "F"}}
<1>1. /\ Among(rows, Passing("high")) = Cardinality(H)
      /\ Among(rows, Passing("medium")) = Cardinality(M)
      /\ Among(rows, Passing("low")) = Cardinality(L)
  BY DEF Among, Passing, High
<1>2. H \cup M \cup L = D /\ H \cap M = {} /\ (H \cup M) \cap L = {}
  <2>1. \A i \in D : rows[i].grade \in Letters
    BY RowOK
  <2>2. QED
    BY <2>1 DEF Letters
<1>3. IsFiniteSet(D) /\ Cardinality(D) = N
  BY RowOK, OneToN
<1>4. IsFiniteSet(H) /\ IsFiniteSet(M) /\ IsFiniteSet(L)
  BY <1>3, FS_Subset
<1> HIDE DEF H, M, L, D, N
<1>5. /\ Cardinality(H) \in Nat /\ Cardinality(M) \in Nat /\ Cardinality(L) \in Nat
      /\ Cardinality({}) = 0
  BY <1>4, FS_CardinalityType, FS_EmptySet
<1>6. /\ IsFiniteSet(H \cup M)
      /\ Cardinality(H \cup M) = Cardinality(H) + Cardinality(M) - Cardinality(H \cap M)
  BY <1>4, FS_Union
<1>7. Cardinality((H \cup M) \cup L)
        = Cardinality(H \cup M) + Cardinality(L) - Cardinality((H \cup M) \cap L)
  BY <1>4, <1>6, FS_Union
<1>8. /\ Cardinality(H \cup M) = Cardinality(H) + Cardinality(M) - 0
      /\ N = Cardinality(H \cup M) + Cardinality(L) - 0
  BY <1>2, <1>3, <1>5, <1>6, <1>7
<1>9. Cardinality(H) + Cardinality(M) + Cardinality(L) = N
  BY <1>5, <1>8
<1>10. QED
  BY <1>1, <1>9 DEF N

LEMMA RowsAgree ==
  ASSUME NEW rows \in Seq(Row), Len(rows) <= 100, RowsDated(rows)
  PROVE Agree(rows)
<1> DEFINE Shown(choice) == Len(FilteredTests(rows, choice, "all", "date_desc"))
           D == DOMAIN rows
<1>1. ASSUME NEW g \in Letters PROVE Shown(g) = GradeCounts(rows)[g]
  <2>1. Passing(g) = {g}
    BY DEF Passing, Letters
  <2>2. QED
    BY <2>1, ShownIsCounted DEF GradeCounts
<1>2. Shown("high") + Shown("medium") + Shown("low") = Len(rows)
  BY ShownIsCounted, Pills
<1>3. (HighGradeRate(rows) = 100) = (rows # <<>> /\ Shown("high") = Len(rows))
  <2> DEFINE T == {i \in D : rows[i].grade \in High}
  <2>1. Shown("high") = Cardinality(T) /\ HighGradeRate(rows) = Rate(Cardinality(T), Len(rows))
    <3>1. Passing("high") = High
      BY DEF Passing
    <3>2. Shown("high") = Among(rows, High)
      BY <3>1, ShownIsCounted
    <3>3. Among(rows, High) = Cardinality(T)
      BY DEF Among
    <3>4. QED
      BY <3>2, <3>3 DEF HighGradeRate
  <2>2. T \in SUBSET D
    OBVIOUS
  <2> HIDE DEF T
  <2>3. /\ Rate(Cardinality(T), Len(rows)) = 100 <=> rows # <<>> /\ T = D
        /\ Cardinality(T) = Len(rows) <=> T = D
    BY <2>2, WholeRate, AmongSome
  <2> HIDE DEF Shown
  <2>4. HighGradeRate(rows) = 100 <=> rows # <<>> /\ Shown("high") = Len(rows)
    BY <2>1, <2>3
  <2>5. QED
    BY <2>4
<1>4. (DmarcPassRate(rows) = 100) = (rows # <<>> /\ \A i \in D : rows[i].dmarc = "pass")
  <2> DEFINE T == {i \in D : rows[i].dmarc = "pass"}
  <2>1. DmarcPassRate(rows) = Rate(Cardinality(T), Len(rows))
    BY DEF DmarcPassRate
  <2>2. T \in SUBSET D /\ (T = D <=> \A i \in D : rows[i].dmarc = "pass")
    OBVIOUS
  <2> HIDE DEF T
  <2>3. DmarcPassRate(rows) = 100 <=> rows # <<>> /\ \A i \in D : rows[i].dmarc = "pass"
    BY <2>1, <2>2, WholeRate
  <2>4. QED
    BY <2>3
<1>5. rows # <<>> => \E i, j \in D : AverageScore(rows) \in rows[i].score .. rows[j].score
  BY AverageBetween
<1>6. ASSUME NEW by \in Orders
      PROVE Range(FilteredTests(rows, "all", "received", by))
              \cup Range(FilteredTests(rows, "all", "uploaded", by)) = Range(rows)
  <2>1. Selected(rows, "all", "received") \cup Selected(rows, "all", "uploaded") = D
    <3>1. \A i \in D : rows[i].grade \in Letters /\ rows[i].source \in {"received", "uploaded"}
      BY RowOK
    <3>2. QED
      BY <3>1 DEF Selected, Passing
  <2>2. ASSUME NEW source
        PROVE Range(FilteredTests(rows, "all", source, by))
                = {rows[i] : i \in Selected(rows, "all", source)}
    BY <1>6, Filtered
  <2>3. Range(rows) = {rows[i] : i \in D}
    BY DEF Range
  <2>4. QED
    BY <2>1, <2>2, <2>3
<1>7. \A i \in D : FilteredTests(rows, "all", "all", "date_desc")[ByDate(rows, i)] = rows[i]
  BY ShownByDate
<1>8. QED
  BY <1>1, <1>2, <1>3, <1>4, <1>5, <1>6, <1>7 DEF Agree

-----------------------------------------------------------------------------
(* The tab: the open page, what it shows and the calls in flight.          *)

UIFields == {"tests", "total", "offset", "loading", "refreshing", "error", "creating",
             "uploading", "uploadError", "result"}
\* Some rows of the list, as many as one page of it may have.
Listing(rows, total) ==
  rows \in Seq(Row) /\ Len(rows) <= 100 /\ RowsDated(rows) /\ total \in Nat
UIOK(u) == /\ DOMAIN u = UIFields
           /\ Listing(u.tests, u.total)
           /\ u.offset \in Nat

CallFields == {"sent", "op", "answer", "mine"}
Outliving  == {"createTest", "uploadEml"}
CallOK(k) ==
  /\ DOMAIN k = CallFields
  /\ k.op \in {"listTests", "testDomain", "checkBlacklist"} \cup Outliving
  /\ k.sent.op = k.op
  /\ k.op = "uploadEml" => k.sent.args \in Files
  /\ k.op = "listTests" =>
       /\ k.sent.args.offset \in Nat /\ k.sent.args.limit \in Nat
       /\ k.answer.kind = "data" => Listing(k.answer.data.rows, k.answer.data.total)
CallsIn(cs) == DOMAIN cs = Slots /\ \A c \in Slots : cs[c] = NoCall \/ CallOK(cs[c])

\* What is in flight is what page r loads with, or outlives its page.
Belongs(r, cs) == \A c \in Slots : cs[c] # NoCall =>
                    cs[c].op \in Outliving \/ (cs[c].op = LoadOp(r) /\ cs[c].mine)
\* Which pages have the spinners.
Idle(r, u) == /\ r \in {"home", "test"} => ~u.loading
              /\ u.refreshing => r = "dashboard"
Waited(cs, op) == \E c \in Slots : cs[c] # NoCall /\ cs[c].op = op /\ cs[c].mine
Spin(r, u, cs) == /\ u.loading \/ u.refreshing => Waited(cs, LoadOp(r))
                  /\ u.uploading => Waited(cs, "uploadEml")

TabOK(r, u, cs) == /\ r \in Routes
                   /\ UIOK(u)
                   /\ CallsIn(cs)
                   /\ Belongs(r, cs)
                   /\ Idle(r, u)
                   /\ Spin(r, u, cs)

LEMMA LoadOps ==
  /\ \A r : LoadOp(r) \in {"listTests", "testDomain", "checkBlacklist", "none"}
  /\ \A r : LoadOp(r) \notin Outliving
<1>1. ASSUME NEW r PROVE LoadOp(r) \in {"listTests", "testDomain", "checkBlacklist", "none"}
  BY DEF LoadOp
<1>2. QED
  BY <1>1 DEF Outliving

LEMMA CallIsThere == ASSUME NEW k, CallOK(k) PROVE k # NoCall
<1>1. k.op # "none"
  BY DEF CallOK, Outliving
<1>2. QED
  BY <1>1 DEF NoCall

\* A set of numbers that is not empty has a least one.
LEMMA LeastOf ==
  ASSUME NEW S \in SUBSET Nat, S # {}
  PROVE  \E k \in S : \A j \in S : k <= j
<1>1. PICK k \in S : \A j \in S : ~(<<j, k>> \in OpToRel(<, Nat))
  BY NatLessThanWellFounded, WFMin
<1>2. \A j \in Nat : j < k => <<j, k>> \in OpToRel(<, Nat)
  BY Zenon DEF OpToRel
<1>3. \A j \in S : ~(j < k)
  BY <1>1, <1>2
<1>4. \A j \in S : k <= j
  BY <1>3
<1>5. QED
  BY <1>4

LEMMA FirstFree == ASSUME NEW cs, Free(cs) # {} PROVE First(cs) \in Free(cs)
<1>1. Free(cs) \in SUBSET Nat
  BY SizesAssumption DEF Free, Slots
<1>2. \E c \in Free(cs) : \A d \in Free(cs) : c <= d
  BY <1>1, LeastOf
<1>3. QED
  BY <1>2 DEF First

\* A call put into a free slot leaves the others where they are.
LEMMA WithOK ==
  ASSUME NEW cs, CallsIn(cs), Free(cs) # {}, NEW k, CallOK(k)
  PROVE /\ CallsIn(With(cs, k))
        /\ First(cs) \in Slots /\ With(cs, k)[First(cs)] = k /\ k # NoCall
        /\ \A c \in Slots \ {First(cs)} : With(cs, k)[c] = cs[c]
        /\ \A c \in Slots : cs[c] # NoCall => With(cs, k)[c] = cs[c]
        /\ Free(With(cs, k)) = Free(cs) \ {First(cs)}
<1> DEFINE f == First(cs)
           new == With(cs, k)
<1>1. f \in Slots /\ cs[f] = NoCall
  BY FirstFree DEF Free
<1>2. new = [cs EXCEPT ![f] = k]
  BY DEF With
<1> HIDE DEF f, new
<1>3. DOMAIN new = Slots /\ new[f] = k /\ \A c \in Slots \ {f} : new[c] = cs[c]
  BY <1>1, <1>2 DEF CallsIn
<1>4. CallsIn(new)
  BY <1>3 DEF CallsIn
<1>5. k # NoCall
  BY CallIsThere
<1>6. \A c \in Slots : cs[c] # NoCall => new[c] = cs[c]
  BY <1>1, <1>3
<1>7. Free(new) = Free(cs) \ {f}
  BY <1>1, <1>3, <1>5 DEF Free
<1>8. QED
  BY <1>1, <1>3, <1>4, <1>5, <1>6, <1>7 DEF f, new

\* A page asks.
LEMMA AskTab ==
  ASSUME NEW r, NEW u, NEW cs, TabOK(r, u, cs), Free(cs) # {},
         NEW k, CallOK(k), k.mine, k.op \in Outliving \cup {LoadOp(r)},
         NEW v, UIOK(v), Idle(r, v),
         v.loading \/ v.refreshing => u.loading \/ u.refreshing \/ k.op = LoadOp(r),
         v.uploading => u.uploading \/ k.op = "uploadEml"
  PROVE TabOK(r, v, With(cs, k))
<1> DEFINE new == With(cs, k)
           f == First(cs)
<1>1. /\ CallsIn(new) /\ f \in Slots /\ new[f] = k /\ k # NoCall
      /\ \A c \in Slots \ {f} : new[c] = cs[c]
      /\ \A c \in Slots : cs[c] # NoCall => new[c] = cs[c]
  BY WithOK DEF TabOK
<1> HIDE DEF new, f
<1>2. Belongs(r, new)
  BY <1>1 DEF TabOK, Belongs
<1>3. \A op : Waited(cs, op) => Waited(new, op)
  BY <1>1 DEF Waited
<1>4. Waited(new, k.op)
  BY <1>1 DEF Waited
<1>5. Spin(r, v, new)
  BY <1>3, <1>4 DEF TabOK, Spin
<1>6. QED
  BY <1>1, <1>2, <1>5 DEF TabOK, new

\* A page stops waiting.
LEMMA SettleTab ==
  ASSUME TabOK(route, ui, calls), NEW c \in Slots, calls[c] # NoCall,
         NEW v, UIOK(v), Idle(route, v),
         v.loading \/ v.refreshing =>
           (ui.loading \/ ui.refreshing) /\ calls[c].op # LoadOp(route),
         v.uploading => ui.uploading /\ ~(calls[c].op = "uploadEml" /\ calls[c].mine)
  PROVE TabOK(route, v, Gone(c))
<1> DEFINE new == Gone(c)
<1>1. DOMAIN new = Slots /\ new[c] = NoCall /\ \A d \in Slots \ {c} : new[d] = calls[d]
  BY DEF Gone, TabOK, CallsIn
<1> HIDE DEF new
<1>2. CallsIn(new) /\ Belongs(route, new)
  BY <1>1 DEF TabOK, CallsIn, Belongs
<1>3. \A op : Waited(calls, op) /\ ~(calls[c].op = op /\ calls[c].mine) => Waited(new, op)
  BY <1>1 DEF Waited
<1>4. Spin(route, v, new)
  BY <1>3 DEF TabOK, Spin
<1>5. QED
  BY <1>2, <1>4 DEF TabOK, new

-----------------------------------------------------------------------------
(* Pages that come and go.                                                 *)

LEMMA FreshUI ==
  ASSUME NEW r
  PROVE /\ UIOK(Fresh(r))
        /\ Fresh(r).loading = (r \notin {"home", "test"})
        /\ ~Fresh(r).refreshing /\ ~Fresh(r).uploading /\ ~Fresh(r).creating
<1>1. <<>> \in Seq(Row) /\ Len(<<>>) = 0 /\ RowsDated(<<>>)
  BY DEF RowsDated
<1>2. QED
  BY <1>1 DEF Fresh, UIOK, UIFields, Listing

\* A list is asked for with numbers, and everything else with what its page has.
LEMMA CallMade ==
  /\ \A offset, limit \in Nat :
       /\ CallOK(ListCall(offset, limit)) /\ ListCall(offset, limit).mine
       /\ ListCall(offset, limit).op = "listTests"
  /\ \A op \in {"testDomain", "checkBlacklist", "createTest"} : \A args :
       /\ CallOK(Call(op, args)) /\ Call(op, args).mine
       /\ Call(op, args).op = op
  /\ \A file \in Files :
       /\ CallOK(Call("uploadEml", file)) /\ Call("uploadEml", file).mine
       /\ Call("uploadEml", file).op = "uploadEml"
<1>1. \A op, args : /\ Sent(op, args).op = op /\ Sent(op, args).args = args
                   /\ Call(op, args).sent = Sent(op, args) /\ Call(op, args).op = op
                   /\ Call(op, args).answer = Asked /\ Call(op, args).mine
                   /\ DOMAIN Call(op, args) = CallFields
  BY DEF Sent, Call, CallFields
<1>2. Asked.kind # "data"
  BY DEF Asked
<1>3. \A offset, limit : [offset |-> offset, limit |-> limit].offset = offset
                        /\ [offset |-> offset, limit |-> limit].limit = limit
  OBVIOUS
<1> HIDE DEF Call
<1>4. ASSUME NEW offset \in Nat, NEW limit \in Nat
      PROVE CallOK(ListCall(offset, limit)) /\ ListCall(offset, limit).mine
            /\ ListCall(offset, limit).op = "listTests"
  BY <1>1, <1>2, <1>3 DEF CallOK, ListCall
<1>5. ASSUME NEW op \in {"testDomain", "checkBlacklist", "createTest"}, NEW args
      PROVE CallOK(Call(op, args))
  BY <1>1 DEF CallOK, Outliving
<1>6. ASSUME NEW file \in Files PROVE CallOK(Call("uploadEml", file))
  BY <1>1 DEF CallOK, Outliving
<1>7. QED
  BY <1>1, <1>4, <1>5, <1>6

LEMMA FirstCallMade ==
  ASSUME NEW r \in Routes \ {"test"}, NEW a
  PROVE CallOK(FirstCall(r, a)) /\ FirstCall(r, a).mine /\ FirstCall(r, a).op = LoadOp(r)
<1>1. PageSize \in Nat /\ RecentSize \in Nat /\ DashboardSize \in Nat /\ 0 \in Nat
  BY SizesAssumption DEF DashboardSize
<1>2. CASE r = "home"
  <2>1. FirstCall(r, a) = ListCall(0, RecentSize) /\ LoadOp(r) = "listTests"
    BY <1>2 DEF FirstCall, LoadOp, Lists
  <2>2. QED
    BY <1>1, <2>1, CallMade
<1>3. CASE r = "history"
  <2>1. FirstCall(r, a) = ListCall(0, PageSize) /\ LoadOp(r) = "listTests"
    BY <1>3 DEF FirstCall, LoadOp, Lists
  <2>2. QED
    BY <1>1, <2>1, CallMade
<1>4. CASE r = "dashboard"
  <2>1. FirstCall(r, a) = ListCall(0, DashboardSize) /\ LoadOp(r) = "listTests"
    BY <1>4 DEF FirstCall, LoadOp, Lists
  <2>2. QED
    BY <1>1, <2>1, CallMade
<1>5. CASE r = "domain"
  <2>1. FirstCall(r, a) = Call("testDomain", a) /\ LoadOp(r) = "testDomain"
    BY <1>5 DEF FirstCall, LoadOp, Lists
  <2>2. QED
    BY <2>1, CallMade
<1>6. CASE r = "blacklist"
  <2>1. FirstCall(r, a) = Call("checkBlacklist", a) /\ LoadOp(r) = "checkBlacklist"
    BY <1>6 DEF FirstCall, LoadOp, Lists
  <2>2. QED
    BY <2>1, CallMade
<1>7. QED
  BY <1>2, <1>3, <1>4, <1>5, <1>6 DEF Routes

\* Whatever was in flight, a page just opened waits for its own call only.
LEMMA MountedTab ==
  ASSUME NEW r \in Routes, NEW a, NEW cs, CallsIn(cs), Mounted(r, a, cs)
  PROVE TabOK(route', ui', calls')
<1> DEFINE left == Left(cs)
           u == Fresh(r)
<1>1. route' = r /\ ui' = u
  BY DEF Mounted
<1>2. /\ UIOK(u) /\ u.loading = (r \notin {"home", "test"})
      /\ ~u.refreshing /\ ~u.uploading
  BY FreshUI
<1>3. DOMAIN left = Slots
  BY DEF Left
<1>4. ASSUME NEW c \in Slots, left[c] # NoCall
      PROVE CallOK(left[c]) /\ left[c].op \in Outliving
  <2>1. left[c] = [cs[c] EXCEPT !.mine = FALSE] /\ cs[c] # NoCall /\ cs[c].op \in Outliving
    BY <1>4 DEF Left, Outliving
  <2>2. CallOK(cs[c])
    BY <2>1 DEF CallsIn
  <2>3. /\ DOMAIN left[c] = CallFields
        /\ left[c].op = cs[c].op /\ left[c].sent = cs[c].sent
    BY <2>1, <2>2 DEF CallOK, CallFields
  <2>4. QED
    BY <2>1, <2>2, <2>3 DEF CallOK, Outliving
<1> HIDE DEF left, u
<1>5. CallsIn(left) /\ Belongs(r, left)
  BY <1>3, <1>4 DEF CallsIn, Belongs
<1>6. CASE r = "test"
  <2>1. calls' = left
    BY <1>6 DEF Mounted, left
  <2>2. QED
    BY <1>1, <1>2, <1>5, <1>6, <2>1 DEF TabOK, Idle, Spin
<1>7. CASE r # "test"
  <2> DEFINE still == [u EXCEPT !.loading = FALSE]
             k == FirstCall(r, a)
  <2>1. Free(left) # {} /\ calls' = With(left, k)
    BY <1>7 DEF Mounted, left
  <2>2. CallOK(k) /\ k.mine /\ k.op = LoadOp(r)
    BY <1>7, FirstCallMade
  <2>3. UIOK(still) /\ ~still.loading /\ ~still.refreshing /\ ~still.uploading
    BY <1>2 DEF UIOK, UIFields
  <2> HIDE DEF still, k
  <2>4. TabOK(r, still, left)
    BY <1>5, <2>3 DEF TabOK, Idle, Spin
  <2>5. Idle(r, u)
    BY <1>2 DEF Idle
  <2>6. TabOK(r, u, With(left, k))
    BY <1>2, <2>1, <2>2, <2>4, <2>5, AskTab
  <2>7. QED
    BY <1>1, <2>1, <2>6
<1>8. QED
  BY <1>6, <1>7

-----------------------------------------------------------------------------
(* Answers.                                                                *)

\* What GET /api/tests gives.
LEMMA ListedRows ==
  ASSUME ServerTypeOK, KeysOK, Dated, NEW offset \in Nat, NEW limit \in Nat
  PROVE Listing(ListPage(offset, limit).rows, ListPage(offset, limit).total)
<1> DEFINE most == IF limit > MaxLimit THEN MaxLimit ELSE limit
           first == offset + 1
           last == IF offset + most > Len(Rows) THEN Len(Rows) ELSE offset + most
           page == SubSeq(Rows, first, last)
<1>1. ListPage(offset, limit).rows = page /\ ListPage(offset, limit).total = Len(Rows)
  BY DEF ListPage, Slice
<1>2. Len(Rows) \in Nat /\ Len(Rows) = Len(order)
  BY RowsOK
<1>3. first \in Int /\ last \in Int /\ first >= 1 /\ last <= Len(Rows) /\ last - first + 1 <= 100
  <2>1. most \in Nat /\ most <= 100
    BY DEF MaxLimit
  <2> HIDE DEF most
  <2>2. QED
    BY <1>2, <2>1
<1>4. ASSUME NEW i \in 1 .. Len(Rows) PROVE Rows[i] \in Row
  <2> DEFINE n == Len(order) - i + 1
             id == order[n]
  <2>1. i \in 1 .. Len(order) /\ n \in DOMAIN order
    <3>1. i \in 1 .. Len(order)
      BY <1>2
    <3>2. Len(order) \in Nat /\ DOMAIN order = 1 .. Len(order)
      BY RowsOK
    <3>3. QED
      BY <3>1, <3>2
  <2>2. id \in Ids /\ Rows[i] = Summary(tests[id])
    BY <2>1, RowsOK
  <2>3. Known(id)
    BY <2>1, <2>2 DEF KeysOK
  <2>4. tests[id] \in Test
    BY <2>2, <2>3 DEF ServerTypeOK, Known
  <2>5. Summary(tests[id]) \in Row
    <3>1. \A t \in Test : Summary(t) \in Row
      BY DEF Test, Summary, Row
    <3>2. QED
      BY <2>4, <3>1
  <2>6. QED
    BY <2>2, <2>5
<1> HIDE DEF first, last
<1>5. \A i \in first .. last : Rows[i] \in Row
  <2>1. \A i \in first .. last : i \in 1 .. Len(Rows)
    BY <1>2, <1>3
  <2>2. QED
    BY <1>4, <2>1
<1>6. page \in Seq(Row) /\ Len(page) = IF first <= last THEN last - first + 1 ELSE 0
  BY <1>3, <1>5, SubSeqProperties
<1>7. Len(page) <= 100
  BY <1>3, <1>6
<1>8. ASSUME NEW i \in 1 .. Len(Rows), NEW j \in 1 .. Len(Rows), i < j
      PROVE Below(Rows[i], Rows[j])
  <2> DEFINE n == Len(order) - i + 1
             m == Len(order) - j + 1
             a == order[m]
             b == order[n]
  <2>1. n \in DOMAIN order /\ m \in DOMAIN order /\ m < n
    <3>1. i \in 1 .. Len(order) /\ j \in 1 .. Len(order) /\ Len(order) \in Nat
      BY <1>2
    <3>2. DOMAIN order = 1 .. Len(order)
      BY RowsOK
    <3>3. QED
      BY <1>8, <3>1, <3>2
  <2>2. /\ a \in Ids /\ Rows[j] = Summary(tests[a]) /\ Rows[j].id = a
        /\ b \in Ids /\ Rows[i] = Summary(tests[b]) /\ Rows[i].id = b
    BY <1>2, RowsOK
  <2>3. InOrder(a, b) /\ Known(a) /\ Known(b)
    BY <2>1, <2>2 DEF Dated, KeysOK
  <2>4. Rows[j].created = tests[a].created /\ Rows[i].created = tests[b].created
    BY <2>2 DEF Summary
  <2>5. /\ tests[a].created < Len(Seeds) <=> a \in SeedSet
        /\ tests[b].created < Len(Seeds) <=> b \in SeedSet
    BY <2>2, <2>3 DEF Dated
  <2>6. tests[a].created \in Nat /\ tests[b].created \in Nat
    <3>1. tests[a] \in Test /\ tests[b] \in Test
      BY <2>2, <2>3 DEF ServerTypeOK, Known
    <3>2. QED
      BY <3>1 DEF Test
  <2> HIDE DEF a, b
  <2>7. QED
    BY <2>2, <2>3, <2>4, <2>5, <2>6, SeedsAre DEF InOrder, Below
<1>9. RowsDated(page)
  <2>1. \A i \in DOMAIN page :
          i \in Int /\ page[i] = Rows[first + i - 1] /\ first + i - 1 \in 1 .. Len(Rows)
    <3>1. page = [i \in 1 .. last - first + 1 |-> Rows[first + i - 1]]
      BY <1>3, <1>5, SubSeqIs
    <3> HIDE DEF page
    <3>2. QED
      BY <1>2, <1>3, <3>1
  <2> HIDE DEF page
  <2>2. ASSUME NEW i \in DOMAIN page, NEW j \in DOMAIN page, i < j
        PROVE Below(page[i], page[j])
    <3>1. first + i - 1 < first + j - 1
      BY <1>3, <2>1, <2>2
    <3>2. Below(Rows[first + i - 1], Rows[first + j - 1])
      BY <1>8, <2>1, <3>1
    <3>3. QED
      BY <2>1, <3>2
  <2>3. QED
    BY <2>2 DEF RowsDated
<1>10. QED
  BY <1>1, <1>2, <1>6, <1>7, <1>9 DEF Listing

\* What the client makes of responses.
LEMMA Outcomes ==
  /\ \A body : LET a == Outcome(Response(200, "json", body)) IN a.kind = "data" /\ a.data = body
  /\ \A body : Outcome(Response(500, "html", body)).kind # "data"
  /\ \A status, code : status \notin 200 .. 299 => Outcome(Refusal(status, code)).kind # "data"
  /\ NetworkFailure.kind # "data"
<1>1. ASSUME NEW body
      PROVE LET a == Outcome(Response(200, "json", body)) IN a.kind = "data" /\ a.data = body
  <2> DEFINE p == Response(200, "json", body)
             r == CustomFetch(p)
  <2>1. /\ p.status = 200 /\ p.type = "json" /\ r.status = 200 /\ r.type = "json"
        /\ r.body = body
    BY DEF Response, CustomFetch
  <2> HIDE DEF p, r
  <2>2. ~Misread(p) /\ ~Expired(p) /\ Ok(r) /\ Readable(r)
    BY <2>1 DEF Misread, Expired, Ok, Readable
  <2>3. Outcome(p) = GaveData(body)
    BY <2>1, <2>2 DEF Outcome, r
  <2>4. QED
    BY <2>3 DEF GaveData, p
<1>2. ASSUME NEW p, ~Ok(CustomFetch(p)) PROVE Outcome(p).kind # "data"
  <2>1. Outcome(p) \in {Threw("not JSON"), Threw("session"), Threw("body already read"),
                        GaveError(CustomFetch(p).body)}
    BY <1>2 DEF Outcome
  <2>2. /\ \A text : Threw(text).kind = "thrown"
        /\ \A e : GaveError(e).kind = "error"
    BY DEF Threw, GaveError
  <2>3. QED
    BY <2>1, <2>2
<1>3. ASSUME NEW status, status \notin 200 .. 299, NEW type, NEW body
      PROVE Outcome(Response(status, type, body)).kind # "data"
  <2>1. CustomFetch(Response(status, type, body)).status = status
    BY DEF Response, CustomFetch
  <2>2. ~Ok(CustomFetch(Response(status, type, body)))
    BY <1>3, <2>1 DEF Ok
  <2>3. QED
    BY <1>2, <2>2
<1>4. \A body : Outcome(Response(500, "html", body)).kind # "data"
  <2>1. 500 \notin 200 .. 299
    OBVIOUS
  <2>2. QED
    BY <1>3, <2>1
<1>5. \A status, code : status \notin 200 .. 299 => Outcome(Refusal(status, code)).kind # "data"
  BY <1>3 DEF Refusal
<1>6. NetworkFailure.kind # "data"
  BY DEF NetworkFailure, Threw
<1>7. QED
  BY <1>1, <1>4, <1>5, <1>6

-----------------------------------------------------------------------------
(* The steps of the tab.                                                   *)

Tab == TabOK(route, ui, calls)

\* A call that waits gets an answer.
LEMMA DeliveredTab ==
  ASSUME Tab, NEW c \in Slots, calls[c] # NoCall, NEW a,
         calls' = [calls EXCEPT ![c].answer = a],
         calls[c].op = "listTests" /\ a.kind = "data" => Listing(a.data.rows, a.data.total)
  PROVE TabOK(route, ui, calls')
<1> DEFINE k == [calls[c] EXCEPT !.answer = a]
<1>1. DOMAIN calls = Slots /\ CallOK(calls[c])
  BY DEF Tab, TabOK, CallsIn
<1>2. /\ DOMAIN k = CallFields /\ k.op = calls[c].op /\ k.sent = calls[c].sent
      /\ k.mine = calls[c].mine /\ k.answer = a
  BY <1>1 DEF CallOK, CallFields
<1>3. calls' = [calls EXCEPT ![c] = k]
  OBVIOUS
<1> HIDE DEF k
<1>4. CallOK(k)
  BY <1>1, <1>2 DEF CallOK
<1>5. k # NoCall
  BY <1>4, CallIsThere
<1>6. DOMAIN calls' = Slots /\ calls'[c] = k /\ \A d \in Slots \ {c} : calls'[d] = calls[d]
  BY <1>1, <1>3
<1>7. CallsIn(calls')
  BY <1>4, <1>6 DEF Tab, TabOK, CallsIn
<1>8. Belongs(route, calls')
  BY <1>2, <1>6 DEF Tab, TabOK, Belongs
<1>9. ASSUME NEW op, Waited(calls, op) PROVE Waited(calls', op)
  <2>1. PICK d \in Slots : calls[d] # NoCall /\ calls[d].op = op /\ calls[d].mine
    BY <1>9 DEF Waited
  <2>2. CASE d = c
    BY <1>2, <1>5, <1>6, <2>1, <2>2 DEF Waited
  <2>3. CASE d # c
    BY <1>6, <2>1, <2>3 DEF Waited
  <2>4. QED
    BY <2>2, <2>3
<1>10. Spin(route, ui, calls')
  BY <1>9 DEF Tab, TabOK, Spin
<1>11. QED
  BY <1>7, <1>8, <1>10 DEF Tab, TabOK

LEMMA ServeTab ==
  ASSUME ServerTypeOK, KeysOK, Dated, Tab, NEW c \in Slots, Serve(c)
  PROVE Tab'
<1>1. calls[c] # NoCall /\ UNCHANGED <<route, ui>>
  BY DEF Serve
<1>2. CallOK(calls[c])
  BY <1>1 DEF Tab, TabOK, CallsIn
<1>3. ASSUME calls[c].op \in {"listTests", "checkBlacklist", "testDomain"},
             NEW r \in Reply(calls[c].sent), Delivered(c, r)
      PROVE Tab'
  <2>1. calls[c].op = "listTests" /\ Outcome(r).kind = "data" =>
          Listing(Outcome(r).data.rows, Outcome(r).data.total)
    <3>1. SUFFICES ASSUME calls[c].op = "listTests"
                   PROVE Listing(Outcome(r).data.rows, Outcome(r).data.total)
      OBVIOUS
    <3> DEFINE args == calls[c].sent.args
    <3>2. calls[c].sent.op = "listTests" /\ args.offset \in Nat /\ args.limit \in Nat
      BY <1>2, <3>1 DEF CallOK
    <3>3. r = Response(200, "json", ListPage(args.offset, args.limit))
      BY <1>3, <3>2 DEF Reply
    <3>4. Outcome(r).data = ListPage(args.offset, args.limit)
      BY <3>3, Outcomes
    <3>5. QED
      BY <3>2, <3>4, ListedRows
  <2>2. QED
    BY <1>1, <1>3, <2>1, DeliveredTab DEF Delivered, Tab
<1>4. ASSUME calls[c].op \in Outliving, NEW r, Delivered(c, r) PROVE Tab'
  <2>1. calls[c].op # "listTests"
    BY <1>4 DEF Outliving
  <2>2. QED
    BY <1>1, <1>4, <2>1, DeliveredTab DEF Delivered, Tab
<1>5. QED
  BY <1>3, <1>4 DEF Serve, Outliving

LEMMA DisturbTab == ASSUME Tab, NEW c \in Slots, Disturb(c) PROVE Tab'
<1>1. calls[c] # NoCall /\ UNCHANGED <<route, ui>>
  BY DEF Disturb
<1>2. ASSUME NEW a, a.kind # "data", calls' = [calls EXCEPT ![c].answer = a] PROVE Tab'
  BY <1>1, <1>2, DeliveredTab DEF Tab
<1>3. ASSUME NEW r \in Refusals, Delivered(c, Refusal(r.status, r.code)) PROVE Tab'
  <2>1. Outcome(Refusal(r.status, r.code)).kind # "data"
    BY Outcomes, RefusalsAssumption
  <2>2. QED
    BY <1>2, <1>3, <2>1 DEF Delivered
<1>4. CASE Delivered(c, Response(500, "html", [page |-> "html"]))
  <2> DEFINE p == Response(500, "html", [page |-> "html"])
  <2>1. Outcome(p).kind # "data"
    BY Outcomes
  <2>2. calls' = [calls EXCEPT ![c].answer = Outcome(p)]
    BY <1>4 DEF Delivered
  <2> HIDE DEF p
  <2>3. QED
    BY <1>2, <2>1, <2>2
<1>5. CASE calls' = [calls EXCEPT ![c].answer = NetworkFailure]
  BY <1>2, <1>5, Outcomes
<1>6. QED
  BY <1>3, <1>4, <1>5 DEF Disturb

LEMMA ListTab == ASSUME Tab, NEW c \in Slots, ListAnswered(c) PROVE Tab'
<1> DEFINE done == [ui EXCEPT !.loading = FALSE, !.refreshing = FALSE]
           a == Answer(c)
<1>1. /\ calls[c] # NoCall /\ calls[c].op = "listTests" /\ a = calls[c].answer
      /\ route' = route /\ calls' = Gone(c)
  BY DEF ListAnswered, Got, Settle, Answer
<1>2. a.kind = "data" => Listing(a.data.rows, a.data.total)
  BY <1>1 DEF Tab, TabOK, CallsIn, CallOK
<1>3. UIOK(ui) /\ Idle(route, ui)
  BY DEF Tab, TabOK
<1>4. /\ UIOK(done) /\ ~done.loading /\ ~done.refreshing /\ done.uploading = ui.uploading
  BY <1>3 DEF UIOK, UIFields
<1>5. ASSUME NEW v, UIOK(v), ~v.loading, ~v.refreshing, v.uploading = ui.uploading, ui' = v
      PROVE Tab'
  <2>1. Idle(route, v)
    BY <1>5 DEF Idle
  <2>2. TabOK(route, v, Gone(c))
    BY <1>1, <1>5, <2>1, SettleTab DEF Tab
  <2>3. QED
    BY <1>1, <1>5, <2>2 DEF Tab
<1> HIDE DEF done, a
<1>6. CASE a.kind = "data"
  <2> DEFINE v == [done EXCEPT !.tests = a.data.rows, !.total = a.data.total]
  <2>1. ui' = v
    BY <1>6 DEF ListAnswered, done, a
  <2>2. UIOK(v) /\ ~v.loading /\ ~v.refreshing /\ v.uploading = ui.uploading
    BY <1>2, <1>4, <1>6 DEF UIOK, UIFields
  <2> HIDE DEF v
  <2>3. QED
    BY <1>5, <2>1, <2>2
<1>7. CASE a.kind # "data" /\ route = "home"
  <2>1. ui' = ui
    BY <1>7 DEF ListAnswered, a
  <2>2. ~ui.loading /\ ~ui.refreshing
    BY <1>3, <1>7 DEF Idle
  <2>3. QED
    BY <1>3, <1>5, <2>1, <2>2
<1>8. CASE a.kind # "data" /\ route # "home"
  <2> DEFINE v == [done EXCEPT !.error = IF Disabled(a) THEN "disabled" ELSE "failed"]
  <2>1. ui' = v
    BY <1>8 DEF ListAnswered, done, a
  <2>2. UIOK(v) /\ ~v.loading /\ ~v.refreshing /\ v.uploading = ui.uploading
    BY <1>4 DEF UIOK, UIFields
  <2> HIDE DEF v
  <2>3. QED
    BY <1>5, <2>1, <2>2
<1>9. QED
  BY <1>6, <1>7, <1>8

LEMMA CreateTab == ASSUME Tab, NEW c \in Slots, CreateAnswered(c) PROVE Tab'
<1> DEFINE a == Answer(c)
           settled == CASE a.kind = "thrown" -> [ui EXCEPT !.creating = FALSE, !.error = a.text]
                        [] a.kind = "error" /\ route = "history" -> [ui EXCEPT !.creating = FALSE]
                        [] OTHER -> ui
           v == IF calls[c].mine THEN settled ELSE ui
<1>1. calls[c] # NoCall /\ calls[c].op = "createTest"
  BY DEF CreateAnswered, Got
<1>2. /\ UIOK(ui) /\ Idle(route, ui) /\ CallsIn(calls) /\ Belongs(route, calls)
  BY DEF Tab, TabOK
<1>3. CASE a.kind = "data"
  <2>1. Mounted("test", a.data.id, Gone(c))
    BY <1>3 DEF CreateAnswered
  <2>2. CallsIn(Gone(c))
    BY <1>2 DEF CallsIn, Gone
  <2>3. QED
    BY <2>1, <2>2, MountedTab DEF Tab, Routes
<1>4. CASE a.kind # "data"
  <2>1. ui' = v /\ route' = route /\ calls' = Gone(c)
    BY <1>4 DEF CreateAnswered, Settle
  <2>2. settled \in {ui, [ui EXCEPT !.creating = FALSE, !.error = a.text],
                     [ui EXCEPT !.creating = FALSE]}
    OBVIOUS
  <2>3. \A w \in {ui, [ui EXCEPT !.creating = FALSE, !.error = a.text],
                  [ui EXCEPT !.creating = FALSE]} :
          /\ UIOK(w) /\ w.loading = ui.loading /\ w.refreshing = ui.refreshing
          /\ w.uploading = ui.uploading
    BY <1>2 DEF UIOK, UIFields
  <2> HIDE DEF settled
  <2>4. /\ UIOK(v) /\ v.loading = ui.loading /\ v.refreshing = ui.refreshing
        /\ v.uploading = ui.uploading
    BY <1>2, <2>2, <2>3
  <2> HIDE DEF v
  <2>5. calls[c].op # LoadOp(route)
    BY <1>1, LoadOps
  <2>6. Idle(route, v)
    BY <1>2, <2>4 DEF Idle
  <2>7. TabOK(route, v, Gone(c))
    BY <1>1, <2>4, <2>5, <2>6, SettleTab DEF Tab
  <2>8. QED
    BY <2>1, <2>7 DEF Tab
<1>5. QED
  BY <1>3, <1>4

LEMMA UploadTab == ASSUME Tab, NEW c \in Slots, UploadAnswered(c) PROVE Tab'
<1> DEFINE a == Answer(c)
           settled == [ui EXCEPT !.uploading = FALSE, !.uploadError = Message(a)]
           v == IF calls[c].mine THEN settled ELSE ui
<1>1. calls[c] # NoCall /\ calls[c].op = "uploadEml"
  BY DEF UploadAnswered, Got
<1>2. UIOK(ui) /\ Idle(route, ui) /\ CallsIn(calls)
  BY DEF Tab, TabOK
<1>3. CASE a.kind = "data"
  <2>1. Mounted("test", a.data.id, Gone(c))
    BY <1>3 DEF UploadAnswered
  <2>2. CallsIn(Gone(c))
    BY <1>2 DEF CallsIn, Gone
  <2>3. QED
    BY <2>1, <2>2, MountedTab DEF Tab, Routes
<1>4. CASE a.kind # "data"
  <2>1. ui' = v /\ route' = route /\ calls' = Gone(c)
    BY <1>4 DEF UploadAnswered, Settle
  <2>2. /\ UIOK(settled) /\ settled.loading = ui.loading /\ settled.refreshing = ui.refreshing
        /\ ~settled.uploading
    BY <1>2 DEF UIOK, UIFields
  <2> HIDE DEF settled
  <2>3. /\ UIOK(v) /\ v.loading = ui.loading /\ v.refreshing = ui.refreshing
        /\ v.uploading => ui.uploading /\ ~calls[c].mine
    BY <1>2, <2>2
  <2> HIDE DEF v
  <2>4. calls[c].op # LoadOp(route)
    BY <1>1, LoadOps
  <2>5. Idle(route, v)
    BY <1>2, <2>3 DEF Idle
  <2>6. TabOK(route, v, Gone(c))
    BY <1>1, <2>3, <2>4, <2>5, SettleTab DEF Tab
  <2>7. QED
    BY <2>1, <2>6 DEF Tab
<1>5. QED
  BY <1>3, <1>4

LEMMA LookupTab == ASSUME Tab, NEW c \in Slots, LookupAnswered(c) PROVE Tab'
<1> DEFINE a == Answer(c)
           found == [ui EXCEPT !.result = a.data, !.loading = FALSE]
           failed == [ui EXCEPT !.error = Message(a), !.loading = FALSE]
<1>1. calls[c] # NoCall /\ calls[c].op \in {"testDomain", "checkBlacklist"}
  BY DEF LookupAnswered, Got
<1>2. UIOK(ui) /\ Idle(route, ui) /\ Belongs(route, calls)
  BY DEF Tab, TabOK
<1>3. route # "dashboard"
  <2>1. calls[c].op = LoadOp(route)
    BY <1>1, <1>2 DEF Belongs, Outliving
  <2>2. LoadOp("dashboard") = "listTests"
    BY DEF LoadOp, Lists
  <2>3. QED
    BY <1>1, <2>1, <2>2
<1>4. ASSUME NEW v \in {found, failed}
      PROVE /\ UIOK(v) /\ ~v.loading /\ v.refreshing = ui.refreshing
            /\ v.uploading = ui.uploading
  BY <1>2, <1>4 DEF UIOK, UIFields
<1>5. route' = route /\ calls' = Gone(c) /\ ui' \in {found, failed}
  BY DEF LookupAnswered, Settle
<1> HIDE DEF found, failed
<1>6. /\ UIOK(ui') /\ ~ui'.loading /\ ~ui'.refreshing
      /\ ui'.uploading = ui.uploading
  BY <1>2, <1>3, <1>4, <1>5 DEF Idle
<1>7. Idle(route, ui')
  BY <1>6 DEF Idle
<1>8. TabOK(route, ui', Gone(c))
  BY <1>1, <1>6, <1>7, SettleTab DEF Tab
<1>9. QED
  BY <1>5, <1>8 DEF Tab

-----------------------------------------------------------------------------
(* The user's steps.                                                       *)

LEMMA VisitTab == ASSUME Tab, NEW r \in Routes, NEW a, Visit(r, a) PROVE Tab'
<1>1. Mounted(r, a, calls) /\ CallsIn(calls)
  BY DEF Visit, Tab, TabOK
<1>2. QED
  BY <1>1, MountedTab DEF Tab

\* Both requests of a turned page find a slot.
LEMMA TurnTab ==
  ASSUME Tab, route = "history", NEW offset \in Nat, GoToPage(offset), route' = route
  PROVE Tab'
<1> DEFINE v == Reload(offset)
           k == ListCall(offset, PageSize)
           once == With(calls, k)
<1>1. /\ Cardinality(Free(calls)) >= 2
      /\ ui' = v /\ calls' = With(once, k)
  BY DEF GoToPage
<1>2. UIOK(ui) /\ Idle(route, ui) /\ CallsIn(calls)
  BY DEF Tab, TabOK
<1>3. /\ UIOK(v) /\ v.refreshing = ui.refreshing /\ v.uploading = ui.uploading
  BY <1>2 DEF Reload, UIOK, UIFields
<1>4. CallOK(k) /\ k.mine /\ k.op = LoadOp(route)
  <2>1. LoadOp(route) = "listTests"
    BY DEF LoadOp, Lists
  <2>2. PageSize \in Nat
    BY SizesAssumption
  <2>3. QED
    BY <2>1, <2>2, CallMade
<1> HIDE DEF v, k
<1>5. Idle(route, v)
  BY <1>2, <1>3 DEF Idle
<1>6. Free(calls) # {}
  <2>1. ~(0 >= 2)
    OBVIOUS
  <2>2. QED
    BY <1>1, <2>1, FS_EmptySet
<1>7. TabOK(route, v, once)
  BY <1>3, <1>4, <1>5, <1>6, AskTab DEF Tab
<1>8. Free(once) # {}
  <2>1. Free(once) = Free(calls) \ {First(calls)}
    BY <1>2, <1>4, <1>6, WithOK
  <2>2. Free(calls) # {First(calls)}
    <3>1. Cardinality({First(calls)}) = 1
      BY FS_Singleton
    <3>2. ~(1 >= 2)
      OBVIOUS
    <3>3. QED
      BY <1>1, <3>1, <3>2
  <2>3. QED
    BY <1>6, <2>1, <2>2
<1> HIDE DEF once
<1>9. TabOK(route, v, With(once, k))
  BY <1>3, <1>4, <1>5, <1>7, <1>8, AskTab
<1>10. QED
  BY <1>1, <1>9 DEF Tab

LEMMA TurnPageTab == ASSUME Tab, TurnPage PROVE Tab'
<1>1. route = "history" /\ route' = route
  BY DEF TurnPage, InPage
<1>2. ui.offset \in Nat /\ PageSize \in Nat
  BY SizesAssumption DEF Tab, TabOK, UIOK
<1>3. (IF ui.offset > PageSize THEN ui.offset - PageSize ELSE 0) \in Nat /\ ui.offset + PageSize \in Nat
  BY <1>2
<1>4. CASE PreviousPage
  BY <1>1, <1>3, <1>4, TurnTab DEF PreviousPage
<1>5. CASE NextPage
  BY <1>1, <1>3, <1>5, TurnTab DEF NextPage
<1>6. QED
  BY <1>4, <1>5 DEF TurnPage

LEMMA RefreshTab == ASSUME Tab, Refresh PROVE Tab'
<1> DEFINE v == [ui EXCEPT !.refreshing = TRUE, !.error = "none"]
           args == [offset |-> 0, limit |-> DashboardSize]
           k == Call("listTests", args)
<1>1. /\ route = "dashboard" /\ route' = route
      /\ ui' = v /\ Free(calls) # {} /\ calls' = With(calls, k)
  BY DEF Refresh, InPage, Send
<1>2. UIOK(ui) /\ Idle(route, ui)
  BY DEF Tab, TabOK
<1>3. UIOK(v) /\ v.loading = ui.loading /\ v.uploading = ui.uploading
  BY <1>2 DEF UIOK, UIFields
<1>4. CallOK(k) /\ k.mine /\ k.op = LoadOp(route)
  <2>1. LoadOp(route) = "listTests"
    BY <1>1 DEF LoadOp, Lists
  <2>2. k = ListCall(0, DashboardSize) /\ DashboardSize \in Nat /\ 0 \in Nat
    BY DEF ListCall, DashboardSize
  <2>3. QED
    BY <2>1, <2>2, CallMade
<1> HIDE DEF v, k
<1>5. Idle(route, v)
  BY <1>1, <1>2, <1>3 DEF Idle
<1>6. TabOK(route, v, With(calls, k))
  BY <1>1, <1>3, <1>4, <1>5, AskTab DEF Tab
<1>7. QED
  BY <1>1, <1>6 DEF Tab

LEMMA TryTab == ASSUME Tab, TryAgain PROVE Tab'
<1> DEFINE v == [Reload(0) EXCEPT !.result = NoResult]
           k == FirstCall(route, arg)
<1>1. /\ route \in {"dashboard", "domain", "blacklist"} /\ route' = route
      /\ ui' = v /\ Free(calls) # {} /\ calls' = With(calls, k)
  BY DEF TryAgain, InPage, Lookups
<1>2. UIOK(ui) /\ Idle(route, ui)
  BY DEF Tab, TabOK
<1>3. UIOK(v) /\ v.refreshing = ui.refreshing /\ v.uploading = ui.uploading
  BY <1>2 DEF Reload, UIOK, UIFields
<1>4. CallOK(k) /\ k.mine /\ k.op = LoadOp(route)
  BY <1>1, FirstCallMade DEF Routes
<1> HIDE DEF v, k
<1>5. Idle(route, v)
  BY <1>1, <1>2, <1>3 DEF Idle
<1>6. TabOK(route, v, With(calls, k))
  BY <1>1, <1>3, <1>4, <1>5, AskTab DEF Tab
<1>7. QED
  BY <1>1, <1>6 DEF Tab

LEMMA ClickCreateTab == ASSUME Tab, ClickCreate PROVE Tab'
<1> DEFINE message == IF route = "history" THEN ui.error ELSE "none"
           v == [ui EXCEPT !.creating = TRUE, !.error = message]
           k == Call("createTest", "none")
<1>1. /\ route' = route
      /\ ui' = v /\ Free(calls) # {} /\ calls' = With(calls, k)
  BY DEF ClickCreate, InPage, Send
<1>2. UIOK(ui) /\ Idle(route, ui)
  BY DEF Tab, TabOK
<1>3. /\ UIOK(v) /\ v.loading = ui.loading /\ v.refreshing = ui.refreshing
      /\ v.uploading = ui.uploading
  BY <1>2 DEF UIOK, UIFields
<1>4. CallOK(k) /\ k.mine /\ k.op \in Outliving
  BY CallMade DEF Outliving
<1> HIDE DEF v, k
<1>5. Idle(route, v)
  BY <1>2, <1>3 DEF Idle
<1>6. TabOK(route, v, With(calls, k))
  BY <1>1, <1>3, <1>4, <1>5, AskTab DEF Tab
<1>7. QED
  BY <1>1, <1>6 DEF Tab

LEMMA ClickUploadTab == ASSUME Tab, NEW file \in Files, ClickUpload(file) PROVE Tab'
<1> DEFINE v == [ui EXCEPT !.uploading = TRUE, !.uploadError = "none"]
           k == Call("uploadEml", file)
<1>1. /\ route' = route
      /\ ui' = v /\ Free(calls) # {} /\ calls' = With(calls, k)
  BY DEF ClickUpload, InPage, Send
<1>2. UIOK(ui) /\ Idle(route, ui)
  BY DEF Tab, TabOK
<1>3. UIOK(v) /\ v.loading = ui.loading /\ v.refreshing = ui.refreshing
  BY <1>2 DEF UIOK, UIFields
<1>4. CallOK(k) /\ k.mine /\ k.op = "uploadEml" /\ k.op \in Outliving
  BY CallMade DEF Outliving
<1> HIDE DEF v, k
<1>5. Idle(route, v)
  BY <1>2, <1>3 DEF Idle
<1>6. TabOK(route, v, With(calls, k))
  BY <1>1, <1>3, <1>4, <1>5, AskTab DEF Tab
<1>7. QED
  BY <1>1, <1>6 DEF Tab

LEMMA CloseTab == ASSUME Tab, CloseError PROVE Tab'
<1> DEFINE v == [ui EXCEPT !.uploadError = "none"]
<1>1. route' = route /\ calls' = calls /\ ui' = v
  BY DEF CloseError, InPage
<1>2. /\ UIOK(v) /\ v.loading = ui.loading /\ v.refreshing = ui.refreshing
      /\ v.uploading = ui.uploading
  BY DEF Tab, TabOK, UIOK, UIFields
<1> HIDE DEF v
<1>3. TabOK(route, v, calls)
  BY <1>2 DEF Tab, TabOK, Idle, Spin
<1>4. QED
  BY <1>1, <1>3 DEF Tab

-----------------------------------------------------------------------------
(* The pages over the server.                                              *)

\* A call that reaches the server is one of its operations; all else leaves it alone.
LEMMA PagesStep == Tab /\ [Next]_vars => [ServerNext]_serverVars
<1>1. SUFFICES ASSUME Tab, [Next]_vars, ~UNCHANGED serverVars PROVE ServerNext
  OBVIOUS
<1>2. ASSUME NEW c \in Slots, Serve(c) PROVE ServerNext
  <2>1. CallOK(calls[c])
    BY <1>1, <1>2 DEF Serve, Tab, TabOK, CallsIn
  <2>2. ASSUME NEW id \in Ids, CreateTest(id) PROVE ServerNext
    BY <2>2 DEF ServerNext, ServerOp
  <2>3. ASSUME NEW id \in Ids, calls[c].op = "uploadEml", UploadTest(id, calls[c].sent.args)
        PROVE ServerNext
    BY <2>1, <2>3 DEF ServerNext, ServerOp, CallOK
  <2>4. QED
    BY <1>1, <1>2, <2>2, <2>3 DEF Serve
<1>3. ASSUME NEW c \in Slots, Disturb(c) PROVE FALSE
  BY <1>1, <1>3 DEF Disturb, serverVars
<1>4. ASSUME NEW c \in Slots, AnyAnswer(c) PROVE FALSE
  BY <1>1, <1>4 DEF AnyAnswer, ListAnswered, CreateAnswered, UploadAnswered, LookupAnswered, Settle,
                    serverVars
<1>5. ASSUME User PROVE ServerNext
  <2>1. CASE Elsewhere
    BY <2>1 DEF Elsewhere, ServerNext
  <2>2. CASE ~Elsewhere
    BY <1>1, <1>5, <2>2 DEF User, Visit, Jump, TurnPage, Refresh, TryAgain, ClickCreate, ClickUpload,
                            CloseError, InPage, serverVars
  <2>3. QED
    BY <2>1, <2>2
<1>6. CASE UNCHANGED vars
  BY <1>1, <1>6 DEF vars, serverVars
<1>7. QED
  BY <1>1, <1>2, <1>3, <1>4, <1>5, <1>6 DEF Next

LEMMA TabStep == ServerTypeOK /\ KeysOK /\ Dated /\ Tab /\ [Next]_vars => Tab'
<1>1. SUFFICES ASSUME ServerTypeOK, KeysOK, Dated, Tab, [Next]_vars PROVE Tab'
  OBVIOUS
<1>2. ASSUME NEW c \in Slots, Serve(c) \/ Disturb(c) \/ AnyAnswer(c) PROVE Tab'
  BY <1>1, <1>2, ServeTab, DisturbTab, ListTab, CreateTab, UploadTab, LookupTab DEF AnyAnswer
<1>3. CASE User
  <2>1. ASSUME NEW link \in Links, Visit(link[1], link[2]) PROVE Tab'
    <3>1. link[1] \in Routes
      BY DEF Links, Lists, Lookups, Routes
    <3>2. QED
      BY <1>1, <2>1, <3>1, VisitTab
  <2>2. ASSUME NEW a, Jump(a) PROVE Tab'
    BY <1>1, <2>2 DEF Jump, Tab
  <2>3. CASE Elsewhere
    BY <1>1, <2>3 DEF Elsewhere, Tab
  <2>4. QED
    BY <1>1, <1>3, <2>1, <2>2, <2>3, TurnPageTab, RefreshTab, TryTab, ClickCreateTab, ClickUploadTab,
       CloseTab DEF User
<1>4. CASE UNCHANGED vars
  BY <1>1, <1>4 DEF vars, tabVars, Tab
<1>5. QED
  BY <1>1, <1>2, <1>3, <1>4 DEF Next

LEMMA TabInit == Init => Tab
<1>1. SUFFICES ASSUME Init PROVE Tab
  OBVIOUS
<1> DEFINE k == FirstCall("home", "none")
<1>2. CallOK(k) /\ k.mine /\ k.op = LoadOp("home")
  BY FirstCallMade DEF Routes
<1>3. UIOK(Fresh("home")) /\ ~Fresh("home").loading /\ ~Fresh("home").refreshing /\ ~Fresh("home").uploading
  BY FreshUI
<1> HIDE DEF k
<1>4. calls = [c \in Slots |-> IF c = 1 THEN k ELSE NoCall] /\ route = "home" /\ ui = Fresh("home")
  BY <1>1 DEF Init, k
<1>5. CallsIn(calls) /\ Belongs("home", calls)
  BY <1>2, <1>4 DEF CallsIn, Belongs
<1>6. QED
  BY <1>3, <1>4, <1>5 DEF Tab, TabOK, Idle, Spin, Routes

PagesInv == ServerTypeOK /\ KeysOK /\ Dated /\ Tab

LEMMA PagesKept == Spec => []PagesInv
<1>1. Init => PagesInv
  BY InitOK, KeysInit, DatesInit, TabInit DEF Init, PagesInv
<1>2. PagesInv /\ [Next]_vars => PagesInv'
  <2>1. ServerTypeOK /\ KeysOK /\ Dated /\ [ServerNext]_serverVars
          => ServerTypeOK' /\ KeysOK' /\ Dated'
    BY MapsStep, KeysStep, DatesStep
  <2>2. QED
    BY <2>1, PagesStep, TabStep DEF PagesInv
<1>3. QED
  BY <1>1, <1>2, PTL DEF Spec

-----------------------------------------------------------------------------
(* The theorems.                                                           *)

\* To the Node server the pages are clients like any other: what a tab makes it do,
\* whatever is clicked, refused, lost or answered late, it might do for anybody.
THEOREM PagesAreClients == Spec => ServerSpec
<1>1. Init => ServerInit
  BY DEF Init
<1>2. PagesInv /\ [Next]_vars => [ServerNext]_serverVars
  BY PagesStep DEF PagesInv
<1>3. QED
  BY <1>1, <1>2, PagesKept, PTL DEF Spec, ServerSpec

\* So the server keeps its promises under them: the Maps hold what they may, every
\* test is on a page of the list, once and in order (Paged), an analyzed test has its
\* report and its raw email, and the raw email is the one the report is about.
THEOREM ServerBehindPages ==
  Spec => [](ServerTypeOK /\ Paged /\ AnalyzedIsFiled /\ RawIsOfReport)
BY PagesAreClients, KeysKept, EveryTestIsListed, AnalyzedFiled, ReportsFiled, PTL

\* A spinner of a page always has a call of that page to wait for, for any number of
\* calls in flight, answered in any order, refused or lost, and any pages left in
\* between (SpinnersHaveCalls).  With the answers of the server and the browser, no
\* page loads for ever.
THEOREM SpinnersWait == Spec => []SpinnersHaveCalls
<1>1. PagesInv => SpinnersHaveCalls
  BY DEF PagesInv, Tab, TabOK, Spin, Waited, SpinnersHaveCalls, UnderWay
<1>2. QED
  BY <1>1, PagesKept, PTL

\* The numbers of the dashboard are those of the rows its filters show, and by date
\* the rows stand where the list has them, but for the seeds (FiltersAgree), whatever
\* tests there are and whichever answer brought the rows.
THEOREM NumbersOfTheRows == Spec => []FiltersAgree
<1>1. PagesInv => FiltersAgree
  <2>1. SUFFICES ASSUME PagesInv PROVE FiltersAgree
    OBVIOUS
  <2>2. ui.tests \in Seq(Row) /\ Len(ui.tests) <= 100 /\ RowsDated(ui.tests)
    BY <2>1 DEF PagesInv, Tab, TabOK, UIOK, Listing
  <2>3. Agree(ui.tests)
    BY <2>2, RowsAgree
  <2>4. QED
    BY <2>3 DEF Agree, FiltersAgree, Orders
<1>2. QED
  BY <1>1, PagesKept, PTL

===============================================================================
