--------------------------- MODULE RagIndexProofs ----------------------------
(***************************************************************************)
(* Theorems about RagIndex, for any number of indexings and OCR jobs, any  *)
(* text, and any settings of the windows.                                  *)
(***************************************************************************)
EXTENDS RagIndex, WellFoundedInduction, TLAPS

-----------------------------------------------------------------------------
(* Numbers                                                                 *)

\* A set of numbers has a smallest one.
LEMMA Smallest ==
    ASSUME NEW S \in SUBSET Nat, S # {}
    PROVE  \E m \in S : \A n \in S : m <= n
<1>1. PICK m \in S : \A n \in S : <<n, m>> \notin OpToRel(<, Nat)
  BY NatLessThanWellFounded, WFMin
<1>2. \A n \in S : ~ (n < m)
  BY <1>1 DEF OpToRel
<1> QED
  BY <1>2

\* What holds of 0, and of k + 1 when it holds of k, holds of all numbers up to n.
LEMMA Upwards ==
    ASSUME NEW n \in Nat, NEW S, 0 \in S, \A k \in 0..n : k \in S /\ k < n => k + 1 \in S
    PROVE  n \in S
<1> SUFFICES ASSUME n \notin S PROVE FALSE
  OBVIOUS
<1> DEFINE Out == {k \in 0..n : k \notin S}
<1>1. PICK m \in Out : \A k \in Out : m <= k
  <2>1. Out \in SUBSET Nat /\ Out # {}
    OBVIOUS
  <2> HIDE DEF Out
  <2> QED
    BY <2>1, Smallest
<1>2. m # 0 /\ m - 1 \in 0..n /\ m - 1 < n /\ m - 1 \in S
  BY <1>1
<1> QED
  BY <1>1, <1>2

\* Max and Min of two numbers.
LEMMA MaxOfTwo ==
    ASSUME NEW a \in Int, NEW b \in Int
    PROVE  Max({a, b}) = IF a >= b THEN a ELSE b
<1>1. \E x \in {a, b} : \A y \in {a, b} : x >= y
  OBVIOUS
<1>2. Max({a, b}) \in {a, b} /\ \A y \in {a, b} : Max({a, b}) >= y
  BY <1>1, Zenon DEF Max
<1> QED
  BY <1>2

LEMMA MinOfTwo ==
    ASSUME NEW a \in Int, NEW b \in Int
    PROVE  Min({a, b}) = IF a <= b THEN a ELSE b
<1>1. \E x \in {a, b} : \A y \in {a, b} : x <= y
  OBVIOUS
<1>2. Min({a, b}) \in {a, b} /\ \A y \in {a, b} : Min({a, b}) <= y
  BY <1>1, Zenon DEF Min
<1> QED
  BY <1>2

\* The configured windows overlap by less than their size.
LEMMA Windows ==
    /\ Size \in Nat \ {0} /\ Lap \in 0..(Size - 1) /\ Stride = Size - Lap
<1>1. MinSize \in Nat \ {0} /\ ChunkSize \in Int /\ Overlap \in Int
  BY ConstantsAssumption DEF ConstantsAssumption
<1>2. Size \in Nat \ {0}
  BY <1>1, MaxOfTwo DEF Size
<1>3. Lap \in 0..(Size - 1)
  <2>1. Min({Overlap, Size - 1}) \in Int /\ Min({Overlap, Size - 1}) <= Size - 1
    BY <1>1, <1>2, MinOfTwo
  <2> QED
    BY <1>2, <2>1, MaxOfTwo DEF Lap
<1>4. Stride = Size - Lap
  BY <1>2, <1>3, MaxOfTwo DEF Stride
<1> QED
  BY <1>2, <1>3, <1>4

\* The first and the last of the letters of a passage.
LEMMA Extremes ==
    ASSUME NEW a \in Nat, NEW b \in Nat, NEW S \in SUBSET (a..b), S # {}
    PROVE  /\ Min(S) \in S /\ Max(S) \in S
           /\ \A p \in S : Min(S) <= p /\ p <= Max(S)
<1>1. S \in SUBSET Nat
  OBVIOUS
<1>2. \E m \in S : \A n \in S : m <= n
  BY <1>1, Smallest
<1>3. Min(S) \in S /\ \A p \in S : Min(S) <= p
  BY <1>2, Zenon DEF Min
<1>4. \E m \in S : \A n \in S : m >= n
  <2> DEFINE T == {b - p : p \in S}
  <2>1. T \in SUBSET Nat /\ T # {}
    OBVIOUS
  <2>2. PICK t \in T : \A u \in T : t <= u
    <3> HIDE DEF T
    <3> QED
      BY <2>1, Smallest
  <2>3. PICK m \in S : t = b - m
    BY <2>2
  <2>4. ASSUME NEW n \in S PROVE m >= n
    <3>1. b - n \in T
      OBVIOUS
    <3> QED
      BY <2>2, <2>3, <3>1
  <2> QED
    BY <2>4
<1>5. Max(S) \in S /\ \A p \in S : Max(S) >= p
  BY <1>4, Zenon DEF Max
<1> QED
  BY <1>1, <1>3, <1>5

\* Where the letters of a passage are.
Letters(txt, a, b) == {p \in a..b : txt[p]}

\* What is left of a passage begins and ends with its first and last letter.
LEMMA StrippedIs ==
    ASSUME NEW txt, NEW a \in Nat, NEW b \in Nat
    PROVE  /\ Letters(txt, a, b) = {} => Stripped(txt, a, b) = <<>>
           /\ Letters(txt, a, b) # {} =>
                \E f, t \in Letters(txt, a, b) :
                    /\ Stripped(txt, a, b) = <<[from |-> f, to |-> t]>>
                    /\ \A p \in Letters(txt, a, b) : f <= p /\ p <= t
<1> DEFINE S == Letters(txt, a, b)
<1>1. S \in SUBSET (a..b)
  BY DEF Letters
<1>2. Stripped(txt, a, b) = IF S = {} THEN <<>> ELSE <<[from |-> Min(S), to |-> Max(S)]>>
  BY Zenon DEF Stripped, Letters
<1>3. S # {} => Min(S) \in S /\ Max(S) \in S /\ \A p \in S : Min(S) <= p /\ p <= Max(S)
  <2> HIDE DEF S
  <2> QED
    BY <1>1, Extremes
<1> QED
  BY <1>2, <1>3, Zenon

-----------------------------------------------------------------------------
(* The windows of chunk_text                                               *)

\* The window at a start, and those after it, of a text whose last letter is last.
WindowAt(w, txt, last, start) ==
    LET end == Min({last, start + Size - 1})
    IN  Stripped(txt, start, end) \o IF end >= last THEN <<>> ELSE w[start + Stride]

WindowsFrom(lo, w, txt, last) == [start \in lo..Len(txt) |-> WindowAt(w, txt, last, start)]

\* The recursion of chunk_text is over: a window refers to later ones only.
LEMMA WindowLater ==
    ASSUME NEW txt \in Seq(BOOLEAN), NEW last \in 0..Len(txt), NEW start \in 1..Len(txt),
           NEW v, NEW w, \A k \in (start + 1)..Len(txt) : v[k] = w[k]
    PROVE  WindowAt(v, txt, last, start) = WindowAt(w, txt, last, start)
<1> DEFINE end == Min({last, start + Size - 1})
<1>1. Size \in Nat \ {0} /\ Stride \in 1..Size
  BY Windows
<1>2. end = IF last <= start + Size - 1 THEN last ELSE start + Size - 1
  BY <1>1, MinOfTwo
<1> HIDE DEF end
<1>3. end < last => v[start + Stride] = w[start + Stride]
  BY <1>1, <1>2
<1>4. end \in Int /\ (~ (end >= last) => end < last)
  BY <1>1, <1>2
<1>5. /\ WindowAt(v, txt, last, start)
           = Stripped(txt, start, end) \o IF end >= last THEN <<>> ELSE v[start + Stride]
      /\ WindowAt(w, txt, last, start)
           = Stripped(txt, start, end) \o IF end >= last THEN <<>> ELSE w[start + Stride]
  BY Zenon DEF WindowAt, end
<1>6. CASE end >= last
  BY <1>5, <1>6, Zenon
<1>7. CASE ~ (end >= last)
  BY <1>3, <1>4, <1>5, <1>7, Zenon
<1> QED
  BY <1>6, <1>7

\* So the recursion defines a function: from the last start down, one value at a time.
LEMMA WindowsExist ==
    ASSUME NEW txt \in Seq(BOOLEAN), NEW last \in 0..Len(txt)
    PROVE  \E w : w = WindowsFrom(1, w, txt, last)
<1> DEFINE N == Len(txt)
           S == {k \in 0..N : \E w : w = WindowsFrom(N + 1 - k, w, txt, last)}
<1>1. N \in Nat
  OBVIOUS
<1>2. 0 \in S
  <2> DEFINE w == [k \in {} |-> k]
  <2>1. (N + 1 - 0)..N = {}
    BY <1>1
  <2>2. w = WindowsFrom(N + 1 - 0, w, txt, last)
    <3> DEFINE d == (N + 1 - 0)..N
    <3>1. WindowsFrom(N + 1 - 0, w, txt, last) = [start \in d |-> WindowAt(w, txt, last, start)]
      BY DEF WindowsFrom
    <3>2. d = {}
      BY <2>1
    <3> HIDE DEF d
    <3> QED
      BY <3>1, <3>2
  <2> HIDE DEF w
  <2> QED
    BY <1>1, <2>2
<1>3. ASSUME NEW k \in 0..N, k \in S, k < N
      PROVE  k + 1 \in S
  <2> DEFINE lo == N - k
  <2>1. PICK v : v = WindowsFrom(N + 1 - k, v, txt, last)
    BY <1>3
  <2>2. lo \in 1..N /\ N + 1 - k = lo + 1 /\ N + 1 - (k + 1) = lo
    BY <1>1, <1>3
  <2> DEFINE w == [start \in lo..N |-> IF start = lo THEN WindowAt(v, txt, last, lo) ELSE v[start]]
  <2> HIDE DEF lo
  <2>3. v = WindowsFrom(lo + 1, v, txt, last)
    BY <2>1, <2>2
  <2>4. ASSUME NEW start \in lo..N
        PROVE  w[start] = WindowAt(w, txt, last, start)
    <3>1. \A i \in (start + 1)..N : v[i] = w[i]
      BY <1>1, <2>2
    <3>2. start \in 1..N
      BY <1>1, <2>2
    <3>3. WindowAt(v, txt, last, start) = WindowAt(w, txt, last, start)
      <4> HIDE DEF w
      <4> QED
        BY <3>1, <3>2, WindowLater
    <3>4. CASE start = lo
      BY <3>3, <3>4
    <3>5. CASE start # lo
      <4>1. start \in (lo + 1)..N
        BY <1>1, <2>2, <3>5
      <4>2. v[start] = WindowAt(v, txt, last, start)
        BY <2>3, <4>1, Zenon DEF WindowsFrom
      <4> QED
        BY <3>3, <3>5, <4>2
    <3> QED
      BY <3>4, <3>5
  <2>5. w = WindowsFrom(lo, w, txt, last)
    <3>1. w = [start \in lo..N |-> w[start]]
      OBVIOUS
    <3> HIDE DEF w
    <3> QED
      BY <2>4, <3>1 DEF WindowsFrom
  <2> HIDE DEF w
  <2> QED
    BY <1>1, <1>3, <2>2, <2>5
<1>4. N \in S
  <2> HIDE DEF S
  <2> QED
    BY <1>1, <1>2, <1>3, Upwards
<1>5. N + 1 - N = 1
  BY <1>1
<1> QED
  BY <1>4, <1>5

-----------------------------------------------------------------------------
(* What chunk_text cuts                                                    *)

Passages(a, b) == [from : a..b, to : a..b]

\* The passages of a list hold every short passage between two letters.
Covered(txt, a, b, list) ==
    \A p, q \in Letters(txt, a, b) :
        p <= q /\ q - p <= Lap => \E n \in DOMAIN list : list[n].from <= p /\ q <= list[n].to

\* What the windows from a start leave of the text: no more passages than characters, and
\* among them every passage that is no longer than the overlap.
Cuts(txt, start, last, list) ==
    /\ list \in Seq(Passages(start, last))
    /\ Len(list) <= last + 1 - start
    /\ Covered(txt, start, last, list)

\* One window and the passages after it.
LEMMA OneWindow ==
    ASSUME NEW txt \in Seq(BOOLEAN), NEW last \in 0..Len(txt), NEW start \in 1..last, NEW w,
           \A k \in (start + 1)..last : Cuts(txt, k, last, w[k])
    PROVE  Cuts(txt, start, last, WindowAt(w, txt, last, start))
<1> DEFINE end == Min({last, start + Size - 1})
           head == Stripped(txt, start, end)
           rest == IF end >= last THEN <<>> ELSE w[start + Stride]
<1>1. Size \in Nat \ {0} /\ Stride \in 1..Size /\ Stride = Size - Lap /\ Lap \in Nat
  BY Windows
<1>2. end = IF last <= start + Size - 1 THEN last ELSE start + Size - 1
  BY <1>1, MinOfTwo
<1>3. WindowAt(w, txt, last, start) = head \o rest
  BY Zenon DEF WindowAt
<1> HIDE DEF end
<1>4. end \in start..last
  BY <1>1, <1>2
<1>5. /\ Letters(txt, start, end) = {} => head = <<>>
      /\ Letters(txt, start, end) # {} =>
           \E f, t \in Letters(txt, start, end) :
               /\ head = <<[from |-> f, to |-> t]>>
               /\ \A p \in Letters(txt, start, end) : f <= p /\ p <= t
  <2>1. start \in Nat /\ end \in Nat
    BY <1>4
  <2> QED
    BY <2>1, StrippedIs, Zenon
<1>6. Letters(txt, start, end) \subseteq start..last
  BY <1>4 DEF Letters
<1> DEFINE P == Passages(start, last)
<1>7. head \in Seq(P) /\ Len(head) <= 1
  <2> HIDE DEF head
  <2>1. CASE head = <<>>
    BY <2>1
  <2>2. CASE head # <<>>
    <3>1. PICK f, t \in Letters(txt, start, end) : head = <<[from |-> f, to |-> t]>>
      BY <1>5, <2>2, Zenon
    <3>2. [from |-> f, to |-> t] \in P
      BY <1>6 DEF Passages
    <3> HIDE DEF P
    <3> QED
      BY <3>1, <3>2
  <2> QED
    BY <2>1, <2>2
<1>8. /\ rest \in Seq(P) /\ Len(rest) <= last - start
      /\ end < last => Covered(txt, start + Stride, last, rest)
  <2>1. CASE end >= last
    BY <1>4, <2>1
  <2>2. CASE ~ (end >= last)
    <3>1. start + Stride \in (start + 1)..last /\ rest = w[start + Stride]
      BY <1>1, <1>2, <2>2
    <3>2. Cuts(txt, start + Stride, last, rest)
      BY <3>1
    <3>3. Passages(start + Stride, last) \subseteq P
      BY <1>1 DEF Passages
    <3> HIDE DEF P, rest
    <3>4. rest \in Seq(P) /\ Len(rest) <= last + 1 - (start + Stride)
      BY <3>2, <3>3 DEF Cuts
    <3> QED
      BY <1>1, <3>1, <3>2, <3>4 DEF Cuts
  <2> QED
    BY <2>1, <2>2
<1> HIDE DEF head, rest, P
<1>9. /\ head \o rest \in Seq(P) /\ Len(head \o rest) = Len(head) + Len(rest)
      /\ \A n \in 1..Len(head) : (head \o rest)[n] = head[n]
      /\ \A n \in 1..Len(rest) : (head \o rest)[Len(head) + n] = rest[n]
  BY <1>7, <1>8
<1>10. Len(head \o rest) <= last + 1 - start
  BY <1>7, <1>8, <1>9
<1>11. ASSUME NEW p \in Letters(txt, start, last), NEW q \in Letters(txt, start, last),
              p <= q, q - p <= Lap
       PROVE  \E n \in DOMAIN (head \o rest) :
                 (head \o rest)[n].from <= p /\ q <= (head \o rest)[n].to
  <2>1. p \in start..last /\ q \in start..last /\ txt[p] /\ txt[q]
    BY DEF Letters
  <2>2. CASE q <= end
    <3>1. p \in Letters(txt, start, end) /\ q \in Letters(txt, start, end)
      BY <1>4, <1>11, <2>1, <2>2 DEF Letters
    <3>2. PICK f, t \in Letters(txt, start, end) :
              /\ head = <<[from |-> f, to |-> t]>>
              /\ \A r \in Letters(txt, start, end) : f <= r /\ r <= t
      BY <1>5, <3>1
    <3>3. Len(head) = 1 /\ head[1].from = f /\ head[1].to = t
      BY <3>2
    <3>4. 1 \in DOMAIN (head \o rest) /\ (head \o rest)[1] = head[1]
      BY <1>7, <1>8, <1>9, <3>3
    <3> QED
      BY <3>1, <3>2, <3>3, <3>4
  <2>3. CASE ~ (q <= end)
    <3>1. end < last /\ end = start + Size - 1
      BY <1>1, <1>2, <2>1, <2>3
    <3>2. p >= start + Stride
      BY <1>1, <1>11, <2>1, <2>3, <3>1
    <3>3. p \in Letters(txt, start + Stride, last) /\ q \in Letters(txt, start + Stride, last)
      BY <1>1, <1>11, <2>1, <3>2 DEF Letters
    <3>4. PICK n \in DOMAIN rest : rest[n].from <= p /\ q <= rest[n].to
      BY <1>8, <1>11, <3>1, <3>3 DEF Covered
    <3>5. n \in 1..Len(rest)
      BY <1>8
    <3>6. Len(head) + n \in DOMAIN (head \o rest) /\ (head \o rest)[Len(head) + n] = rest[n]
      BY <1>7, <1>8, <1>9, <3>5
    <3> QED
      BY <3>4, <3>6
  <2> QED
    BY <2>2, <2>3
<1>12. Covered(txt, start, last, head \o rest)
  BY <1>11 DEF Covered
<1> QED
  BY <1>3, <1>9, <1>10, <1>12 DEF Cuts, P

\* And so does every window with those after it, from the last start down.
LEMMA WindowsCut ==
    ASSUME NEW txt \in Seq(BOOLEAN), NEW last \in 0..Len(txt), NEW w,
           w = WindowsFrom(1, w, txt, last)
    PROVE  \A start \in 1..last : Cuts(txt, start, last, w[start])
<1> DEFINE S == {k \in 0..last : \A start \in 1..last : last - start < k
                                     => Cuts(txt, start, last, w[start])}
<1>1. last \in Nat
  OBVIOUS
<1>2. 0 \in S
  BY <1>1
<1>3. ASSUME NEW k \in 0..last, k \in S, k < last
      PROVE  k + 1 \in S
  <2>1. ASSUME NEW start \in 1..last, last - start < k + 1
        PROVE  Cuts(txt, start, last, w[start])
    <3>1. \A i \in (start + 1)..last : Cuts(txt, i, last, w[i])
      BY <1>1, <1>3, <2>1
    <3>2. w[start] = WindowAt(w, txt, last, start)
      <4>1. start \in 1..Len(txt)
        OBVIOUS
      <4> QED
        BY <4>1, Zenon DEF WindowsFrom
    <3> QED
      BY <3>1, <3>2, OneWindow
  <2> QED
    BY <1>1, <1>3, <2>1
<1>4. last \in S
  <2> HIDE DEF S
  <2> QED
    BY <1>1, <1>2, <1>3, Upwards
<1> QED
  BY <1>1, <1>4

\* The pieces of a text: each lies in it, they are no more than its characters, and every
\* passage between two letters that is no longer than the overlap lies in one of them.
LEMMA PiecesCut ==
    ASSUME NEW txt \in Seq(BOOLEAN)
    PROVE  Cuts(txt, 1, Len(txt), Pieces(txt))
<1> DEFINE N == Len(txt)
           cleaned == Stripped(txt, 1, N)
<1>1. N \in Nat
  OBVIOUS
<1>2. CASE Letters(txt, 1, N) = {}
  <2>1. Pieces(txt) = <<>>
    <3>1. cleaned = <<>>
      BY <1>1, <1>2, StrippedIs
    <3> QED
      BY <3>1, Zenon DEF Pieces
  <2> QED
    BY <1>1, <1>2, <2>1 DEF Cuts, Covered
<1>3. CASE Letters(txt, 1, N) # {}
  <2>1. PICK first, last \in Letters(txt, 1, N) :
            /\ cleaned = <<[from |-> first, to |-> last]>>
            /\ \A p \in Letters(txt, 1, N) : first <= p /\ p <= last
    BY <1>1, <1>3, StrippedIs
  <2>2. first \in 1..N /\ last \in 1..N /\ first <= last
    BY <2>1 DEF Letters
  <2>3. cleaned # <<>> /\ cleaned[1].from = first /\ cleaned[1].to = last
    BY <2>1
  <2> DEFINE w == CHOOSE v : v = WindowsFrom(1, v, txt, last)
  <2>4. w = WindowsFrom(1, w, txt, last)
    BY <1>1, <2>2, WindowsExist
  <2>5. Pieces(txt) = w[first]
    <3>1. Pieces(txt) = (CHOOSE v : v = WindowsFrom(1, v, txt, cleaned[1].to))[cleaned[1].from]
      BY <2>3, Zenon DEF Pieces, WindowsFrom, WindowAt
    <3> QED
      BY <2>3, <3>1
  <2> HIDE DEF w
  <2>6. Cuts(txt, first, last, Pieces(txt))
    BY <1>1, <2>2, <2>4, <2>5, WindowsCut
  <2>7. Passages(first, last) \subseteq Passages(1, N)
    BY <1>1, <2>2 DEF Passages
  <2>8. Letters(txt, 1, N) \subseteq Letters(txt, first, last)
    BY <1>1, <2>1, <2>2 DEF Letters
  <2>9. Pieces(txt) \in Seq(Passages(1, N)) /\ Len(Pieces(txt)) <= N
    BY <1>1, <2>2, <2>6, <2>7 DEF Cuts
  <2>10. Covered(txt, 1, N, Pieces(txt))
    BY <2>6, <2>8 DEF Cuts, Covered
  <2> QED
    BY <1>1, <2>9, <2>10 DEF Cuts
<1> QED
  BY <1>2, <1>3

-----------------------------------------------------------------------------
(* Type correctness                                                        *)

\* The rows that indexing i of a job inserts.
Rows(txt, i, job) ==
    {[by |-> i, job |-> job, index |-> n, from |-> Pieces(txt)[n].from, to |-> Pieces(txt)[n].to] :
        n \in DOMAIN Pieces(txt)}

\* RowsOf in terms of the text and the job alone.
LEMMA RowsAre == \A i : RowsOf(i) = Rows(text, i, run[i].job)
  BY Zenon DEF RowsOf, Rows

\* Texts are sequences, of a bounded length.
LEMMA TextsAre ==
    ASSUME NEW txt \in Texts
    PROVE  txt \in Seq(BOOLEAN) /\ Len(txt) \in 0..MaxLength /\ DOMAIN txt = 1..Len(txt)
<1>1. MaxLength \in Nat
  BY ConstantsAssumption, Zenon DEF ConstantsAssumption
<1>2. PICK n \in 0..MaxLength : txt \in [1..n -> BOOLEAN]
  BY DEF Texts
<1> QED
  BY <1>1, <1>2

\* The rows of an indexing are rows of the table.
LEMMA RowsType ==
    ASSUME NEW txt \in Texts, NEW i \in Indexings, NEW job \in 1..MaxJobs
    PROVE  Rows(txt, i, job) \subseteq Chunk
<1>1. txt \in Seq(BOOLEAN) /\ Len(txt) \in 0..MaxLength
  BY TextsAre
<1> DEFINE list == Pieces(txt)
<1>2. list \in Seq(Passages(1, Len(txt))) /\ Len(list) <= Len(txt) + 1 - 1
  BY <1>1, PiecesCut DEF Cuts
<1> HIDE DEF list
<1>3. MaxLength \in Nat
  BY ConstantsAssumption, Zenon DEF ConstantsAssumption
<1>4. ASSUME NEW n \in DOMAIN list
      PROVE  n \in 1..MaxLength /\ list[n].from \in 1..MaxLength /\ list[n].to \in 1..MaxLength
  <2>1. n \in 1..Len(list) /\ list[n] \in Passages(1, Len(txt))
    BY <1>2
  <2>2. Passages(1, Len(txt)) \subseteq Passages(1, MaxLength)
    BY <1>1, <1>3 DEF Passages
  <2> QED
    BY <1>1, <1>2, <1>3, <2>1, <2>2 DEF Passages
<1> QED
  BY <1>4 DEF Rows, Chunk, list

\* An indexing that has begun knows its job.
HasJob == \A i \in Indexings : run[i].pc # "new" => run[i].job \in 1..MaxJobs

Typed == TypeOK /\ HasJob

\* A step of one indexing, all else unchanged.
LEMMA BecomesType ==
    ASSUME Typed, NEW i \in Indexings, NEW r \in Run, Becomes(i, r), r.job \in 1..MaxJobs
    PROVE  Typed'
  BY DEF Typed, TypeOK, HasJob, Becomes

\* What Begin makes of the indexings.
LEMMA BeginDoes ==
    ASSUME Typed, NEW i \in Indexings, NEW job, Begin(i, job)
    PROVE  /\ run[i].pc = "new" /\ job \in 1..MaxJobs
           /\ run'[i] \in Run /\ run'[i].pc \in {"failed", "embedding"} /\ run'[i].job = job
           /\ run'[i].todo = {} /\ run'[i].off = {} /\ run'[i].met = Others(i)
           /\ \A j \in Indexings \ {i} :
                 run'[j] = [run[j] EXCEPT !.met = IF Open(j) THEN @ \cup {i} ELSE @]
           /\ DOMAIN run' = Indexings
           /\ UNCHANGED <<text, latest, there, chunks, search>>
<1>1. run[i].pc = "new" /\ job \in 1..MaxJobs
  <2>1. latest \in 0..MaxJobs /\ MaxJobs \in Nat /\ job \in 1..latest
    BY ConstantsAssumption DEF ConstantsAssumption, Begin, Typed, TypeOK
  <2> QED
    BY <2>1 DEF Begin
<1>2. Others(i) \subseteq Indexings
  BY DEF Others
<1>3. PICK p \in {"failed", "embedding"} :
            run' = [j \in Indexings |->
                      IF j = i THEN [New EXCEPT !.pc = p, !.job = job, !.met = Others(i)]
                      ELSE [run[j] EXCEPT !.met = IF Open(j) THEN @ \cup {i} ELSE @]]
  BY DEF Begin
<1>4. PICK M : M = Others(i)
  OBVIOUS
<1>5. PICK r : r = [New EXCEPT !.pc = p, !.job = job, !.met = M]
  OBVIOUS
<1>6. p \in PC /\ job \in 0..MaxJobs /\ M \in SUBSET Indexings
  BY <1>1, <1>2, <1>4 DEF PC
<1>7. r \in Run /\ r.pc = p /\ r.job = job /\ r.todo = {} /\ r.off = {} /\ r.met = Others(i)
  BY <1>4, <1>5, <1>6 DEF New, Run
<1>8. run' = [j \in Indexings |->
                IF j = i THEN r ELSE [run[j] EXCEPT !.met = IF Open(j) THEN @ \cup {i} ELSE @]]
  BY <1>3, <1>4, <1>5
<1>9. UNCHANGED <<text, latest, there, chunks, search>>
  BY DEF Begin
<1> QED
  BY <1>1, <1>3, <1>7, <1>8, <1>9

\* Every step keeps the types.
LEMMA TypedStep ==
    ASSUME Typed, [Next]_vars
    PROVE  Typed'
<1> USE DEF Typed
<1>1. CASE UNCHANGED vars
  BY <1>1 DEF vars, TypeOK, HasJob
<1>2. CASE JobSucceeds
  BY <1>2, ConstantsAssumption DEF ConstantsAssumption, JobSucceeds, TypeOK, HasJob
<1>3. ASSUME NEW i \in Indexings, NEW job, Begin(i, job)
      PROVE  Typed'
  <2>1. \A j \in Indexings \ {i} : run'[j] \in Run /\ run'[j].job = run[j].job
                                                   /\ run'[j].pc = run[j].pc
    <3> TAKE j \in Indexings \ {i}
    <3>1. run[j] \in Run /\ run'[j] = [run[j] EXCEPT !.met = IF Open(j) THEN @ \cup {i} ELSE @]
      BY <1>3, BeginDoes DEF TypeOK
    <3>2. CASE Open(j)
      BY <3>1, <3>2 DEF Run
    <3>3. CASE ~ Open(j)
      BY <3>1, <3>3 DEF Run
    <3> QED
      BY <3>2, <3>3
  <2>2. run' \in [Indexings -> Run]
    <3>1. run' = [j \in Indexings |-> run'[j]]
      BY <1>3, Zenon DEF Begin
    <3> QED
      BY <1>3, <2>1, <3>1, BeginDoes
  <2>3. UNCHANGED <<text, latest, there, chunks, search>>
    BY <1>3 DEF Begin
  <2>4. TypeOK'
    BY <2>2, <2>3 DEF TypeOK
  <2>5. HasJob'
    BY <1>3, <2>1, BeginDoes DEF HasJob
  <2> QED
    BY <2>4, <2>5
<1>4. ASSUME NEW i \in Indexings, Embedded(i) \/ Delete(i) \/ Insert(i) \/ Fault(i)
      PROVE  Typed'
  <2>1. /\ run[i] \in Run /\ run[i].pc # "new" /\ run[i].job \in 1..MaxJobs
        /\ chunks \in SUBSET Chunk /\ run[i].todo \in SUBSET Chunk
    <3>1. run[i].pc # "new"
      BY <1>4 DEF Embedded, Delete, Insert, Fault, Open
    <3> QED
      BY <3>1 DEF TypeOK, HasJob, Run
  <2>2. \E r \in Run : Becomes(i, r) /\ r.job = run[i].job
    <3>1. CASE Embedded(i)
      <4> DEFINE r == [run[i] EXCEPT !.pc = "deleting", !.todo = chunks]
      <4>1. r \in Run /\ r.job = run[i].job
        BY <2>1 DEF Run, PC
      <4> QED
        BY <3>1, <4>1 DEF Embedded
    <3>2. CASE Delete(i)
      <4> DEFINE r == [run[i] EXCEPT !.pc = "insert", !.todo = {}, !.off = run[i].todo \cap chunks]
      <4>1. r \in Run /\ r.job = run[i].job
        BY <2>1 DEF Run, PC
      <4> QED
        BY <3>2, <4>1 DEF Delete
    <3>3. CASE Fail(i)
      <4> DEFINE r == [run[i] EXCEPT !.pc = "failed", !.todo = {}, !.off = {}]
      <4>1. r \in Run /\ r.job = run[i].job
        BY <2>1 DEF Run, PC
      <4> QED
        BY <3>3, <4>1 DEF Fail
    <3>4. CASE Insert(i) /\ ~ Fail(i)
      <4> DEFINE r == [run[i] EXCEPT !.pc = "commit"]
      <4>1. r \in Run /\ r.job = run[i].job
        BY <2>1 DEF Run, PC
      <4> QED
        BY <3>4, <4>1 DEF Insert
    <3> QED
      BY <1>4, <3>1, <3>2, <3>3, <3>4 DEF Fault
  <2> QED
    BY <2>1, <2>2, BecomesType
<1>5. ASSUME NEW i \in Indexings, Commit(i)
      PROVE  Typed'
  <2>1. run[i].job \in 1..MaxJobs /\ text \in Texts
    BY <1>5 DEF Commit, HasJob, TypeOK
  <2>2. chunks' \subseteq Chunk
    BY <1>5, <2>1, RowsAre, RowsType DEF Commit, TypeOK
  <2>3. /\ run' = [run EXCEPT ![i] = [run[i] EXCEPT !.pc = "done", !.off = {}]]
        /\ UNCHANGED <<text, latest, there>>
    BY <1>5 DEF Commit, TypeOK
  <2> DEFINE r == [run[i] EXCEPT !.pc = "done", !.off = {}]
  <2>4. r \in Run /\ r.job = run[i].job
    <3>1. run[i] \in Run
      BY DEF TypeOK
    <3> QED
      BY <3>1 DEF Run, PC
  <2> HIDE DEF r
  <2>5. run' = [run EXCEPT ![i] = r]
    BY <2>3 DEF r
  <2>6. search' \in [listed : SUBSET Chunk, late : SUBSET Indexings, cited : SUBSET Chunk]
    <3>1. CASE search.listed = {}
      BY <1>5, <3>1 DEF Commit, TypeOK
    <3>2. CASE search.listed # {}
      BY <1>5, <3>2 DEF Commit, TypeOK
    <3> QED
      BY <3>1, <3>2
  <2>7. TypeOK'
    BY <2>2, <2>3, <2>4, <2>5, <2>6 DEF TypeOK
  <2>8. HasJob'
    BY <2>1, <2>4, <2>5 DEF HasJob, TypeOK
  <2> QED
    BY <2>7, <2>8
<1>6. CASE List \/ ListAgain
  BY <1>6 DEF List, ListAgain, TypeOK, HasJob
<1>7. CASE Cite
  <2>1. PICK best \in SUBSET search.listed :
            /\ search' = [search EXCEPT !.listed = {}, !.cited = best]
            /\ UNCHANGED <<text, latest, there, chunks, run>>
    BY <1>7, Zenon DEF Cite, kSubset
  <2> QED
    BY <2>1 DEF TypeOK, HasJob
<1>8. CASE Purge
  <2>1. 0 \in 0..MaxJobs /\ FALSE \in BOOLEAN
    BY ConstantsAssumption DEF ConstantsAssumption
  <2> QED
    BY <1>8, <2>1 DEF Purge, TypeOK, HasJob
<1>9. \/ UNCHANGED vars \/ JobSucceeds \/ List \/ ListAgain \/ Cite \/ Purge
      \/ \E i \in Indexings : \/ \E job : Begin(i, job)
                              \/ Embedded(i) \/ Delete(i) \/ Insert(i) \/ Fault(i) \/ Commit(i)
  BY Zenon DEF Next, IndexJob, IndexDocument
<1> HIDE DEF Typed
<1> QED
  BY <1>1, <1>2, <1>3, <1>4, <1>5, <1>6, <1>7, <1>8, <1>9, Zenon

\* In the beginning no indexing has a job.
LEMMA TypedInit == Init => Typed
<1> SUFFICES ASSUME Init PROVE Typed
  OBVIOUS
<1>1. New \in Run /\ New.pc = "new" /\ MaxJobs \in Nat
  BY ConstantsAssumption DEF ConstantsAssumption, New, Run, PC
<1> HIDE DEF New
<1> QED
  BY <1>1 DEF Init, Typed, TypeOK, HasJob

\* Types and jobs hold throughout.
LEMMA TypedHolds == Spec => []Typed
  BY TypedInit, TypedStep, PTL DEF Spec

\* Every variable keeps its type.  In particular the pieces of a text are in the text and
\* no more than its characters, so that the windows of chunk_text always move on.
THEOREM TypeCorrect == Spec => []TypeOK
<1>1. Typed => TypeOK
  BY DEF Typed
<1> QED
  BY <1>1, TypedHolds, PTL

-----------------------------------------------------------------------------
(* Whole indexings                                                         *)

\* The chunks of S are those of indexings that are done, each of which has all of its
\* chunks in S.
Whole(S, txt, r) ==
    \A c \in S : /\ r[c.by].pc = "done"
                 /\ c \in Rows(txt, c.by, r[c.by].job)
                 /\ Rows(txt, c.by, r[c.by].job) \subseteq S

Done(S, r) == \A c \in S : r[c.by].pc = "done"

\* What is committed, found by a DELETE, or deleted, is whole; what is listed or cited was
\* once committed.
AllWhole ==
    /\ Whole(chunks, text, run)
    /\ \A i \in Indexings : Whole(run[i].todo, text, run) /\ Whole(run[i].off, text, run)
    /\ Done(search.listed, run) /\ Done(search.cited, run)

\* Rows are of one indexing, so that what is left of whole sets is whole.
LEMMA WholeParts ==
    ASSUME NEW txt, NEW r, NEW S, NEW T, Whole(S, txt, r), Whole(T, txt, r)
    PROVE  /\ Whole(S \cap T, txt, r) /\ Whole(S \ T, txt, r)
           /\ Whole({}, txt, r) /\ Done(S, r)
<1>1. \A i, job : \A d \in Rows(txt, i, job) : d.by = i
  BY DEF Rows
<1>2. ASSUME NEW c \in S \ T, NEW d \in Rows(txt, c.by, r[c.by].job), d \in T
      PROVE  FALSE
  <2>1. d.by = c.by
    BY <1>1
  <2>2. Rows(txt, d.by, r[d.by].job) \subseteq T
    BY <1>2 DEF Whole
  <2>3. c \in Rows(txt, c.by, r[c.by].job)
    BY DEF Whole
  <2> QED
    BY <2>1, <2>2, <2>3
<1>3. Whole(S \ T, txt, r)
  BY <1>2, Zenon DEF Whole
<1>4. Whole(S \cap T, txt, r) /\ Whole({}, txt, r) /\ Done(S, r)
  BY Zenon DEF Whole, Done
<1> QED
  BY <1>3, <1>4

\* What a statement of an indexing makes of it: its DELETE begins, or has ended; its rows
\* are inserted, or committed; or it fails.
Found(i)    == /\ run[i].pc = "embedding" /\ run'[i].pc = "deleting"
               /\ run'[i].todo = chunks /\ run'[i].off = run[i].off
Deleted(i)  == /\ run[i].pc = "deleting" /\ run'[i].pc = "insert"
               /\ run'[i].todo = {} /\ run'[i].off = run[i].todo \cap chunks
Inserted(i) == /\ run[i].pc = "insert" /\ run'[i].pc = "commit"
               /\ run'[i].todo = run[i].todo /\ run'[i].off = run[i].off
Failed(i)   == /\ Open(i) /\ run'[i].pc = "failed"
               /\ run'[i].todo = {} /\ run'[i].off = {}
Ended(i)    == /\ run[i].pc = "commit" /\ run'[i].pc = "done"
               /\ run'[i].todo = run[i].todo /\ run'[i].off = {}

Statement(i) == Embedded(i) \/ Delete(i) \/ Insert(i) \/ Fault(i) \/ Commit(i)

LEMMA StatementDoes ==
    ASSUME Typed, NEW i \in Indexings, Statement(i)
    PROVE  /\ run[i].pc \notin {"new", "done"} /\ text' = text
           /\ search'.listed = search.listed /\ search'.cited = search.cited
           /\ ~ Commit(i) => search' = search
           /\ \A j \in Indexings \ {i} : run'[j] = run[j]
           /\ run'[i].job = run[i].job /\ run'[i].met = run[i].met
           /\ \/ (Found(i) \/ Deleted(i) \/ Inserted(i) \/ Failed(i)) /\ chunks' = chunks
              \/ Ended(i) /\ Commit(i) /\ chunks' = (chunks \ run[i].off) \cup RowsOf(i)
<1>1. run[i] \in Run /\ run \in [Indexings -> Run]
  BY DEF Typed, TypeOK
<1>2. ASSUME NEW r, Becomes(i, r)
      PROVE  /\ run'[i] = r /\ \A j \in Indexings \ {i} : run'[j] = run[j]
             /\ UNCHANGED <<text, chunks, search>>
  BY <1>1, <1>2 DEF Becomes
<1>3. CASE Embedded(i)
  <2>1. /\ run[i].pc = "embedding"
        /\ Becomes(i, [run[i] EXCEPT !.pc = "deleting", !.todo = chunks])
    BY <1>3 DEF Embedded
  <2>2. run'[i] = [run[i] EXCEPT !.pc = "deleting", !.todo = chunks]
    BY <1>2, <2>1
  <2> QED
    BY <1>1, <1>2, <2>1, <2>2 DEF Run, Found
<1>4. CASE Delete(i)
  <2>1. /\ run[i].pc = "deleting"
        /\ Becomes(i, [run[i] EXCEPT !.pc = "insert", !.todo = {}, !.off = run[i].todo \cap chunks])
    BY <1>4 DEF Delete
  <2>2. run'[i] = [run[i] EXCEPT !.pc = "insert", !.todo = {}, !.off = run[i].todo \cap chunks]
    BY <1>2, <2>1
  <2> QED
    BY <1>1, <1>2, <2>1, <2>2 DEF Run, Deleted
<1>5. CASE Fail(i) /\ (Insert(i) \/ Fault(i))
  <2>1. /\ Open(i) /\ run[i].pc \notin {"new", "done"}
        /\ Becomes(i, [run[i] EXCEPT !.pc = "failed", !.todo = {}, !.off = {}])
    BY <1>5 DEF Insert, Fault, Open, Fail
  <2>2. run'[i] = [run[i] EXCEPT !.pc = "failed", !.todo = {}, !.off = {}]
    BY <1>2, <2>1
  <2> QED
    BY <1>1, <1>2, <2>1, <2>2 DEF Run, Failed
<1>6. CASE Insert(i) /\ ~ Fail(i)
  <2>1. run[i].pc = "insert" /\ Becomes(i, [run[i] EXCEPT !.pc = "commit"])
    BY <1>6 DEF Insert
  <2>2. run'[i] = [run[i] EXCEPT !.pc = "commit"]
    BY <1>2, <2>1
  <2> QED
    BY <1>1, <1>2, <2>1, <2>2 DEF Run, Inserted
<1>7. CASE Commit(i)
  <2>1. /\ run[i].pc = "commit" /\ chunks' = (chunks \ run[i].off) \cup RowsOf(i)
        /\ run' = [run EXCEPT ![i] = [run[i] EXCEPT !.pc = "done", !.off = {}]]
        /\ text' = text /\ search'.listed = search.listed /\ search'.cited = search.cited
    BY <1>1, <1>7 DEF Commit, Typed, TypeOK
  <2>2. /\ run'[i] = [run[i] EXCEPT !.pc = "done", !.off = {}]
        /\ \A j \in Indexings \ {i} : run'[j] = run[j]
    BY <1>1, <2>1
  <2> QED
    BY <1>1, <1>7, <2>1, <2>2 DEF Run, Ended
<1> QED
  BY <1>3, <1>4, <1>5, <1>6, <1>7 DEF Statement, Fault

\* What another indexing that begins makes of one: it meets it.
LEMMA BeginMeets ==
    ASSUME Typed, NEW i \in Indexings, NEW job, Begin(i, job), NEW j \in Indexings \ {i}
    PROVE  /\ run'[j].pc = run[j].pc /\ run'[j].job = run[j].job
           /\ run'[j].todo = run[j].todo /\ run'[j].off = run[j].off
           /\ run'[j].met = IF Open(j) THEN run[j].met \cup {i} ELSE run[j].met
<1>1. run[j] \in Run /\ run'[j] = [run[j] EXCEPT !.met = IF Open(j) THEN @ \cup {i} ELSE @]
  BY BeginDoes DEF Typed, TypeOK
<1>2. CASE Open(j)
  BY <1>1, <1>2 DEF Run
<1>3. CASE ~ Open(j)
  BY <1>1, <1>3 DEF Run
<1> QED
  BY <1>2, <1>3

\* The steps.
LEMMA StepsAre ==
    ASSUME [Next]_vars
    PROVE  \/ UNCHANGED vars \/ JobSucceeds \/ List \/ ListAgain \/ Cite \/ Purge
           \/ \E i \in Indexings : Statement(i) \/ \E job : Begin(i, job)
  BY Zenon DEF Next, IndexJob, IndexDocument, Statement

\* An indexing that is done stays so, and one that is open stays in the same job; who it
\* has met is not forgotten.
LEMMA RunsGoOn ==
    ASSUME Typed, [Next]_vars, NEW i \in Indexings, run[i].pc # "new"
    PROVE  /\ text' = text
           /\ run'[i].job = run[i].job /\ run[i].met \subseteq run'[i].met
           /\ run[i].pc = "done" => run'[i].pc = "done"
<1> USE DEF Typed, TypeOK
<1>1. CASE UNCHANGED vars \/ JobSucceeds \/ List \/ ListAgain \/ Cite \/ Purge
  BY <1>1 DEF vars, JobSucceeds, List, ListAgain, Cite, Purge
<1>2. ASSUME NEW j \in Indexings, NEW job, Begin(j, job)
      PROVE  /\ text' = text
             /\ run'[i].job = run[i].job /\ run[i].met \subseteq run'[i].met
             /\ run[i].pc = "done" => run'[i].pc = "done"
  <2>1. i # j /\ text' = text
    BY <1>2, BeginDoes
  <2> HIDE DEF Typed, TypeOK
  <2>2. /\ run'[i].pc = run[i].pc /\ run'[i].job = run[i].job
        /\ run'[i].met = IF Open(i) THEN run[i].met \cup {j} ELSE run[i].met
    BY <1>2, <2>1, BeginMeets, Zenon
  <2> QED
    BY <2>1, <2>2
<1>3. ASSUME NEW j \in Indexings, Statement(j)
      PROVE  /\ text' = text
             /\ run'[i].job = run[i].job /\ run[i].met \subseteq run'[i].met
             /\ run[i].pc = "done" => run'[i].pc = "done"
  BY <1>3, StatementDoes
<1> HIDE DEF Typed
<1> QED
  BY <1>1, <1>2, <1>3, StepsAre, Zenon

\* So what was whole or done stays so.
LEMMA WholeStays ==
    ASSUME Typed, [Next]_vars, NEW S \in SUBSET Chunk
    PROVE  /\ Whole(S, text, run) => Whole(S, text', run')
           /\ Done(S, run) => Done(S, run')
<1>1. ASSUME NEW c \in S, run[c.by].pc = "done"
      PROVE  /\ run'[c.by].pc = "done" /\ text' = text
             /\ Rows(text, c.by, run[c.by].job) = Rows(text', c.by, run'[c.by].job)
  <2>1. c.by \in Indexings /\ run[c.by].pc # "new"
    BY <1>1 DEF Chunk
  <2> QED
    BY <1>1, <2>1, RunsGoOn
<1> QED
  BY <1>1, Zenon DEF Whole, Done

\* All chunks are rows of the table.
LEMMA ChunkSets ==
    ASSUME Typed
    PROVE  /\ chunks \in SUBSET Chunk
           /\ search.listed \in SUBSET Chunk /\ search.cited \in SUBSET Chunk
           /\ \A i \in Indexings : run[i].todo \in SUBSET Chunk /\ run[i].off \in SUBSET Chunk
  BY DEF Typed, TypeOK, Run

\* What a step makes of the sets of chunks.
LEMMA SetsStep ==
    ASSUME Typed, [Next]_vars
    PROVE  /\ \/ chunks' \in {chunks, {}}
              \/ \E i \in Indexings : Commit(i) /\ chunks' = (chunks \ run[i].off) \cup RowsOf(i)
           /\ \A i \in Indexings :
                 /\ run'[i].todo \in {run[i].todo, {}, chunks}
                 /\ run'[i].off \in {run[i].off, {}, run[i].todo \cap chunks}
           /\ search'.listed \in {search.listed, {}, chunks, search.listed \cup chunks}
           /\ search'.cited \subseteq search.listed \/ search'.cited = search.cited
<1> USE DEF Typed, TypeOK
<1>1. CASE UNCHANGED vars \/ JobSucceeds \/ Purge
  BY <1>1 DEF vars, JobSucceeds, Purge
<1>2. CASE List \/ ListAgain
  BY <1>2 DEF List, ListAgain
<1>3. CASE Cite
  <2>1. PICK best \in SUBSET search.listed :
            /\ search' = [search EXCEPT !.listed = {}, !.cited = best]
            /\ UNCHANGED <<text, latest, there, chunks, run>>
    BY <1>3, Zenon DEF Cite, kSubset
  <2> QED
    BY <2>1
<1>4. ASSUME NEW j \in Indexings, NEW job, Begin(j, job)
      PROVE  /\ UNCHANGED <<chunks, search>>
             /\ \A i \in Indexings : /\ run'[i].todo \in {run[i].todo, {}}
                                     /\ run'[i].off \in {run[i].off, {}}
  <2>1. UNCHANGED <<chunks, search>> /\ run'[j].todo = {} /\ run'[j].off = {}
    BY <1>4, BeginDoes, Zenon
  <2>2. \A i \in Indexings \ {j} : run'[i].todo = run[i].todo /\ run'[i].off = run[i].off
    BY <1>4, BeginMeets, Zenon
  <2> QED
    BY <2>1, <2>2
<1>5. ASSUME NEW j \in Indexings, Statement(j)
      PROVE  /\ search'.listed = search.listed /\ search'.cited = search.cited
             /\ \/ chunks' = chunks
                \/ Commit(j) /\ chunks' = (chunks \ run[j].off) \cup RowsOf(j)
             /\ \A i \in Indexings : /\ run'[i].todo \in {run[i].todo, {}, chunks}
                                     /\ run'[i].off \in {run[i].off, {}, run[i].todo \cap chunks}
  BY <1>5, StatementDoes DEF Found, Deleted, Inserted, Failed, Ended
<1>6. CASE \E j \in Indexings : \E job : Begin(j, job)
  BY <1>4, <1>6
<1>7. CASE \E j \in Indexings : Statement(j)
  BY <1>5, <1>7
<1> HIDE DEF Typed
<1> QED
  BY <1>1, <1>2, <1>3, <1>6, <1>7, StepsAre, Zenon

\* Commits leave whole indexings, and DELETEs find and remove whole ones.
LEMMA AllWholeStep ==
    ASSUME Typed, AllWhole, [Next]_vars
    PROVE  AllWhole'
<1>1. /\ chunks \in SUBSET Chunk
      /\ search.listed \in SUBSET Chunk /\ search.cited \in SUBSET Chunk
      /\ \A i \in Indexings : run[i].todo \in SUBSET Chunk /\ run[i].off \in SUBSET Chunk
  BY ChunkSets
<1>2. /\ Whole(chunks, text', run') /\ Done(chunks, run') /\ Whole({}, text', run')
      /\ Done(search.listed, run') /\ Done(search.cited, run')
      /\ \A i \in Indexings : /\ Whole(run[i].todo, text', run')
                              /\ Whole(run[i].off, text', run')
                              /\ Whole(run[i].todo \cap chunks, text', run')
                              /\ Whole(chunks \ run[i].off, text', run')
  BY <1>1, WholeStays, WholeParts, Zenon DEF AllWhole
<1>3. /\ \/ chunks' \in {chunks, {}}
         \/ \E i \in Indexings : Commit(i) /\ chunks' = (chunks \ run[i].off) \cup RowsOf(i)
      /\ \A i \in Indexings :
            /\ run'[i].todo \in {run[i].todo, {}, chunks}
            /\ run'[i].off \in {run[i].off, {}, run[i].todo \cap chunks}
      /\ search'.listed \in {search.listed, {}, chunks, search.listed \cup chunks}
      /\ search'.cited \subseteq search.listed \/ search'.cited = search.cited
  BY SetsStep
<1>4. Whole(chunks', text', run')
  <2>1. CASE chunks' \in {chunks, {}}
    BY <1>2, <2>1
  <2>2. ASSUME NEW i \in Indexings, Commit(i), chunks' = (chunks \ run[i].off) \cup RowsOf(i)
        PROVE  Whole(chunks', text', run')
    <3>1. run'[i].pc = "done" /\ run'[i].job = run[i].job /\ text' = text
      BY <2>2 DEF Commit, Typed, TypeOK, Run
    <3>2. RowsOf(i) = Rows(text', i, run'[i].job)
      BY <3>1, RowsAre
    <3>3. \A c \in RowsOf(i) : c.by = i
      BY <3>2 DEF Rows
    <3> DEFINE S == chunks \ run[i].off
               T == RowsOf(i)
    <3>4. Whole(S, text', run') /\ chunks' = S \cup T
      BY <1>2, <2>2
    <3> HIDE DEF S, T
    <3>5. \A c \in T : c.by = i /\ run'[c.by].pc = "done" /\ Rows(text', c.by, run'[c.by].job) = T
      BY <3>1, <3>2, <3>3 DEF T
    <3> QED
      BY <3>4, <3>5 DEF Whole
  <2> QED
    BY <1>3, <2>1, <2>2
<1>5. \A i \in Indexings : Whole(run'[i].todo, text', run') /\ Whole(run'[i].off, text', run')
  BY <1>2, <1>3
<1>6. Done(search'.listed, run') /\ Done(search'.cited, run')
  <2>1. Done({}, run')
    BY DEF Done
  <2> QED
    BY <1>2, <1>3, <2>1 DEF Done
<1> QED
  BY <1>4, <1>5, <1>6 DEF AllWhole

\* Whole indexings are all there ever is.
LEMMA AllWholeHolds == Spec => []AllWhole
<1>1. Init => AllWhole
  <2> SUFFICES ASSUME Init PROVE AllWhole
    OBVIOUS
  <2>1. /\ chunks = {} /\ search.listed = {} /\ search.cited = {}
        /\ \A i \in Indexings : run[i].todo = {} /\ run[i].off = {}
    BY DEF Init, New
  <2> QED
    BY <2>1 DEF AllWhole, Whole, Done
<1> QED
  BY <1>1, AllWholeStep, TypedHolds, PTL DEF Spec

\* Whatever is indexed is indexed whole: searches see all chunks of an indexing or none,
\* and each passage no longer than the overlap is in one of them.
THEOREM Indexed == Spec => []IndexedWhole
<1>1. Typed /\ AllWhole => IndexedWhole
  <2> SUFFICES ASSUME Typed, AllWhole, NEW c \in chunks,
                      NEW a \in DOMAIN text, NEW b \in DOMAIN text,
                      text[a], text[b], a <= b, b - a <= Lap
               PROVE  \E d \in chunks : d.by = c.by /\ d.from <= a /\ b <= d.to
    BY DEF IndexedWhole
  <2>1. text \in Seq(BOOLEAN) /\ DOMAIN text = 1..Len(text)
    BY TextsAre DEF Typed, TypeOK
  <2>2. a \in Letters(text, 1, Len(text)) /\ b \in Letters(text, 1, Len(text))
    BY <2>1 DEF Letters
  <2>3. PICK n \in DOMAIN Pieces(text) : Pieces(text)[n].from <= a /\ b <= Pieces(text)[n].to
    BY <2>1, <2>2, PiecesCut DEF Cuts, Covered
  <2> DEFINE d == [by |-> c.by, job |-> run[c.by].job, index |-> n,
                   from |-> Pieces(text)[n].from, to |-> Pieces(text)[n].to]
  <2>4. d \in Rows(text, c.by, run[c.by].job)
    BY DEF Rows
  <2>5. d \in chunks
    BY <2>4 DEF AllWhole, Whole
  <2>6. d.by = c.by /\ d.from <= a /\ b <= d.to
    BY <2>3
  <2> QED
    BY <2>5, <2>6
<1> QED
  BY <1>1, TypedHolds, AllWholeHolds, PTL

-----------------------------------------------------------------------------
(* Mixed answers                                                           *)

\* Indexings that are open at once have met.
Acquainted ==
    \A i, j \in Indexings : i # j /\ Open(i) /\ Open(j) => j \in run[i].met

\* What an indexing neither has found nor will delete is by one that it has met.
Beside(i) ==
    /\ run[i].pc = "deleting" => \A c \in chunks \ run[i].todo : c.by \in run[i].met
    /\ run[i].pc \in {"insert", "commit"} => \A c \in chunks \ run[i].off : c.by \in run[i].met

\* Any two indexings with chunks in S have met.
Mixed(S, r) ==
    \A c, d \in S : c.by # d.by => d.by \in r[c.by].met \/ c.by \in r[d.by].met

\* Any indexing with chunks in S and any with chunks in T have met, or one of them is late.
MixedBut(S, T, late, r) ==
    \A c \in S, d \in T :
        \/ c.by = d.by
        \/ d.by \in r[c.by].met \/ c.by \in r[d.by].met
        \/ {c.by, d.by} \cap late # {}

\* What a search has listed goes with what it would list now, but for what was committed
\* in between.
Overlaps ==
    /\ Acquainted
    /\ \A i \in Indexings : Beside(i)
    /\ Mixed(chunks, run)
    /\ MixedBut(search.listed, search.listed, search.late, run)
    /\ MixedBut(search.listed, chunks, search.late, run)
    /\ MixedBut(search.cited, search.cited, search.late, run)

\* Who is open when an indexing begins meets it.
LEMMA AcquaintedStep ==
    ASSUME Typed, Acquainted, [Next]_vars
    PROVE  Acquainted'
<1>1. CASE UNCHANGED run
  BY <1>1 DEF Acquainted, Open
<1>2. ASSUME NEW k \in Indexings, NEW job, Begin(k, job)
      PROVE  Acquainted'
  <2>1. ASSUME NEW i \in Indexings, NEW j \in Indexings, i # j, Open(i)', Open(j)'
        PROVE  j \in run'[i].met
    <3>1. CASE i = k
      <4>1. run'[j].pc = run[j].pc /\ run'[i].met = Others(i)
        BY <1>2, <2>1, <3>1, BeginMeets, BeginDoes
      <4> QED
        BY <2>1, <4>1 DEF Open, Others
    <3>2. CASE i # k
      <4>1. run'[i].pc = run[i].pc
            /\ run'[i].met = IF Open(i) THEN run[i].met \cup {k} ELSE run[i].met
        BY <1>2, <3>2, BeginMeets, Zenon
      <4>2. j # k => run'[j].pc = run[j].pc
        BY <1>2, BeginMeets, Zenon
      <4> QED
        BY <2>1, <4>1, <4>2 DEF Open, Acquainted
    <3> QED
      BY <3>1, <3>2
  <2> QED
    BY <2>1 DEF Acquainted
<1>3. ASSUME NEW k \in Indexings, Statement(k)
      PROVE  Acquainted'
  <2>1. /\ \A j \in Indexings \ {k} : run'[j] = run[j]
        /\ run'[k].met = run[k].met
    BY <1>3, StatementDoes
  <2>2. Open(k)' => Open(k)
    BY <1>3, StatementDoes DEF Found, Deleted, Inserted, Failed, Ended, Open
  <2> QED
    BY <2>1, <2>2 DEF Acquainted, Open
<1>4. CASE UNCHANGED vars \/ JobSucceeds \/ List \/ ListAgain \/ Cite \/ Purge
  BY <1>1, <1>4 DEF vars, JobSucceeds, List, ListAgain, Cite, Purge
<1> QED
  BY <1>2, <1>3, <1>4, StepsAre, Zenon

\* What is committed beside an indexing is by one that was open beside it.
LEMMA BesideStep ==
    ASSUME Typed, Acquainted, NEW i \in Indexings, Beside(i), [Next]_vars
    PROVE  Beside(i)'
<1>1. CASE UNCHANGED run /\ chunks' \in {chunks, {}}
  BY <1>1 DEF Beside
<1>2. ASSUME NEW k \in Indexings, NEW job, Begin(k, job)
      PROVE  Beside(i)'
  <2>1. CASE i = k
    BY <1>2, <2>1, BeginDoes DEF Beside
  <2>2. CASE i # k
    <3>1. /\ run'[i].pc = run[i].pc /\ run'[i].todo = run[i].todo /\ run'[i].off = run[i].off
          /\ run'[i].met = IF Open(i) THEN run[i].met \cup {k} ELSE run[i].met
      BY <1>2, <2>2, BeginMeets, Zenon
    <3>2. chunks' = chunks
      BY <1>2 DEF Begin
    <3> QED
      BY <3>1, <3>2 DEF Beside
  <2> QED
    BY <2>1, <2>2
<1>3. ASSUME NEW k \in Indexings, Statement(k)
      PROVE  Beside(i)'
  <2>1. /\ \A j \in Indexings \ {k} : run'[j] = run[j]
        /\ run'[k].met = run[k].met
        /\ \/ (Found(k) \/ Deleted(k) \/ Inserted(k) \/ Failed(k)) /\ chunks' = chunks
           \/ Ended(k) /\ Commit(k) /\ chunks' = (chunks \ run[k].off) \cup RowsOf(k)
    BY <1>3, StatementDoes, Zenon
  <2>2. CASE chunks' = chunks
    <3>1. CASE i = k
      BY <2>1, <2>2, <3>1 DEF Beside, Found, Deleted, Inserted, Failed, Ended
    <3>2. CASE i # k
      BY <2>1, <2>2, <3>2 DEF Beside
    <3> QED
      BY <3>1, <3>2
  <2>3. CASE Ended(k) /\ chunks' = (chunks \ run[k].off) \cup RowsOf(k)
    <3>1. CASE i = k
      BY <2>3, <3>1 DEF Beside, Ended
    <3>2. CASE i # k
      <4>1. \A c \in RowsOf(k) : c.by = k
        BY RowsAre DEF Rows
      <4>2. Open(i) => k \in run[i].met
        BY <2>3, <3>2 DEF Acquainted, Open, Ended
      <4> QED
        BY <2>1, <2>3, <3>2, <4>1, <4>2 DEF Beside, Open
    <3> QED
      BY <3>1, <3>2
  <2> QED
    BY <2>1, <2>2, <2>3
<1>4. CASE UNCHANGED vars \/ JobSucceeds \/ List \/ ListAgain \/ Cite \/ Purge
  BY <1>1, <1>4 DEF vars, JobSucceeds, List, ListAgain, Cite, Purge
<1> QED
  BY <1>2, <1>3, <1>4, StepsAre, Zenon

\* Nothing that an indexing has met is forgotten.
LEMMA MixedStays ==
    ASSUME Typed, [Next]_vars, NEW S \in SUBSET Chunk, Done(S, run), Mixed(S, run)
    PROVE  Mixed(S, run')
<1>1. \A c \in S : run[c.by].met \subseteq run'[c.by].met
  <2> TAKE c \in S
  <2>1. c.by \in Indexings /\ run[c.by].pc # "new"
    BY DEF Chunk, Done
  <2> QED
    BY <2>1, RunsGoOn
<1> QED
  BY <1>1 DEF Mixed

LEMMA MixedButStays ==
    ASSUME Typed, [Next]_vars, NEW S \in SUBSET Chunk, NEW T \in SUBSET Chunk, NEW late,
           Done(S, run), Done(T, run), MixedBut(S, T, late, run)
    PROVE  MixedBut(S, T, late, run')
<1>1. \A c \in S \cup T : run[c.by].met \subseteq run'[c.by].met
  <2> TAKE c \in S \cup T
  <2>1. c.by \in Indexings /\ run[c.by].pc # "new"
    BY DEF Chunk, Done
  <2> QED
    BY <2>1, RunsGoOn
<1> QED
  BY <1>1 DEF MixedBut

\* What an indexing commits stands beside nothing that it has not met.
LEMMA ChunksMixed ==
    ASSUME Typed, AllWhole, Overlaps, [Next]_vars
    PROVE  Mixed(chunks', run')
<1>1. chunks \in SUBSET Chunk /\ Done(chunks, run)
  BY ChunkSets DEF AllWhole, Whole, Done
<1>2. Mixed(chunks, run')
  BY <1>1, MixedStays, Zenon DEF Overlaps
<1>3. ASSUME NEW i \in Indexings, Commit(i), chunks' = (chunks \ run[i].off) \cup RowsOf(i)
      PROVE  Mixed(chunks', run')
  <2>1. \A c \in RowsOf(i) : c.by = i
    BY RowsAre DEF Rows
  <2>2. run[i].pc = "commit" /\ run'[i].met = run[i].met
    BY <1>3, StatementDoes DEF Statement, Commit
  <2>3. \A c \in chunks \ run[i].off : c.by \in run'[i].met
    BY <2>2 DEF Overlaps, Beside
  <2> QED
    BY <1>2, <1>3, <2>1, <2>3 DEF Mixed
<1>4. Mixed({}, run')
  BY DEF Mixed
<1> QED
  BY <1>2, <1>3, <1>4, SetsStep

\* Who is late stays so until the next search, and a commit during a search is late.
LEMMA LateStep ==
    ASSUME Typed, [Next]_vars, ~ List
    PROVE  /\ search.late \subseteq search'.late
           /\ search.listed # {} =>
                 \A c \in chunks' \ chunks : c.by \in search'.late
<1> USE DEF Typed, TypeOK
<1>1. CASE UNCHANGED vars \/ JobSucceeds \/ ListAgain \/ Purge
  BY <1>1 DEF vars, JobSucceeds, ListAgain, Purge
<1>2. CASE Cite
  <2>1. chunks' = chunks /\ search'.late = search.late
    BY <1>2 DEF Cite
  <2> QED
    BY <2>1
<1>3. ASSUME NEW i \in Indexings, NEW job, Begin(i, job)
      PROVE  UNCHANGED <<chunks, search>>
  BY <1>3 DEF Begin
<1>4. ASSUME NEW i \in Indexings, Commit(i)
      PROVE  /\ search.late \subseteq search'.late
             /\ search.listed # {} =>
                   \A c \in chunks' \ chunks : c.by \in search'.late
  <2>1. \A c \in RowsOf(i) : c.by = i
    <3> HIDE DEF Typed, TypeOK
    <3> QED
      BY RowsAre DEF Rows
  <2>2. chunks' = (chunks \ run[i].off) \cup RowsOf(i)
    BY <1>4 DEF Commit
  <2>3. CASE search.listed = {}
    BY <1>4, <2>3 DEF Commit
  <2>4. CASE search.listed # {}
    <3>1. search'.late = search.late \cup {i}
      BY <1>4, <2>4 DEF Commit
    <3> QED
      BY <2>1, <2>2, <3>1
  <2> QED
    BY <2>3, <2>4
<1>5. ASSUME NEW i \in Indexings, Statement(i), ~ Commit(i)
      PROVE  UNCHANGED <<chunks, search>>
  <2> HIDE DEF Typed, TypeOK
  <2> QED
    BY <1>5, StatementDoes
<1> HIDE DEF Typed
<1>6. CASE \E i \in Indexings : Statement(i) \/ \E job : Begin(i, job)
  BY <1>3, <1>4, <1>5, <1>6
<1> QED
  BY <1>1, <1>2, <1>6, StepsAre, Zenon

\* Only a SELECT adds to what is listed.
LEMMA ListedStep ==
    ASSUME Typed, [Next]_vars, ~ List
    PROVE  search'.listed \in {search.listed, {}} \/ (ListAgain /\ chunks' = chunks)
<1> USE DEF Typed, TypeOK
<1>1. CASE UNCHANGED vars \/ JobSucceeds \/ Purge
  BY <1>1 DEF vars, JobSucceeds, Purge
<1>2. CASE ListAgain
  BY <1>2 DEF ListAgain
<1>3. CASE Cite
  BY <1>3 DEF Cite
<1>4. ASSUME NEW i \in Indexings, Statement(i) \/ \E job : Begin(i, job)
      PROVE  search'.listed = search.listed
  <2> HIDE DEF Typed, TypeOK
  <2> QED
    BY <1>4, StatementDoes DEF Begin
<1> HIDE DEF Typed
<1> QED
  BY <1>1, <1>2, <1>3, <1>4, StepsAre, Zenon

\* Every step keeps the record of the overlaps.
LEMMA OverlapsStep ==
    ASSUME Typed, AllWhole, Overlaps, [Next]_vars
    PROVE  Overlaps'
<1>1. Acquainted' /\ \A i \in Indexings : Beside(i)'
  BY AcquaintedStep, BesideStep DEF Overlaps
<1>2. Mixed(chunks', run')
  BY ChunksMixed
<1>3. CASE List
  <2>1. chunks' = chunks /\ search' = [listed |-> chunks, late |-> {}, cited |-> {}]
    BY <1>3 DEF List
  <2>2. search'.listed = chunks' /\ search'.late = {} /\ search'.cited = {}
    BY <2>1
  <2> QED
    BY <1>1, <1>2, <2>2 DEF Overlaps, Mixed, MixedBut
<1>4. CASE ~ List
  <2>1. /\ chunks \in SUBSET Chunk /\ Done(chunks, run)
        /\ search.listed \in SUBSET Chunk /\ Done(search.listed, run)
        /\ search.cited \in SUBSET Chunk /\ Done(search.cited, run)
    BY ChunkSets DEF AllWhole, Whole, Done
  <2>2. /\ MixedBut(search.listed, search.listed, search.late, run')
        /\ MixedBut(search.listed, chunks, search.late, run')
        /\ MixedBut(search.cited, search.cited, search.late, run')
    BY <2>1, MixedButStays, Zenon DEF Overlaps
  <2>3. /\ search.late \subseteq search'.late
        /\ search.listed # {} => \A c \in chunks' \ chunks : c.by \in search'.late
    BY <1>4, LateStep
  <2>4. /\ MixedBut(search.listed, search.listed, search'.late, run')
        /\ MixedBut(search.listed, chunks, search'.late, run')
        /\ MixedBut(search.listed, chunks', search'.late, run')
        /\ MixedBut(search.cited, search.cited, search'.late, run')
        /\ MixedBut(chunks', chunks', search'.late, run')
    BY <1>2, <2>2, <2>3 DEF MixedBut, Mixed
  <2>5. search'.listed \in {search.listed, {}} \/ (ListAgain /\ chunks' = chunks)
    BY <1>4, ListedStep
  <2>6. search'.cited \subseteq search.listed \/ search'.cited = search.cited
    BY SetsStep
  <2>7. ListAgain => search'.listed = search.listed \cup chunks
    BY DEF ListAgain, Typed, TypeOK
  <2>8. /\ MixedBut(search'.listed, search'.listed, search'.late, run')
        /\ MixedBut(search'.listed, chunks', search'.late, run')
    <3>1. CASE search'.listed = search.listed
      BY <2>4, <3>1
    <3>2. CASE search'.listed = {}
      BY <3>2 DEF MixedBut
    <3>3. CASE search'.listed = search.listed \cup chunks /\ chunks' = chunks
      BY <2>4, <3>3 DEF MixedBut
    <3> QED
      BY <2>5, <2>7, <3>1, <3>2, <3>3
  <2>9. MixedBut(search'.cited, search'.cited, search'.late, run')
    BY <2>4, <2>6 DEF MixedBut
  <2> QED
    BY <1>1, <1>2, <2>8, <2>9 DEF Overlaps
<1> QED
  BY <1>3, <1>4

\* However indexings of a document interleave, fail and race with its erasure, what is
\* searched is by one of them, or by some that overlapped; and so is what is cited, but
\* for an indexing committed between two SELECTs of the search.
THEOREM OnlyOverlapsMix == Spec => []MixedOverlapped
<1>1. Init => Overlaps
  <2> SUFFICES ASSUME Init PROVE Overlaps
    OBVIOUS
  <2>1. /\ chunks = {} /\ search.listed = {} /\ search.cited = {}
        /\ \A i \in Indexings : run[i].pc = "new"
    BY DEF Init, New
  <2> QED
    BY <2>1 DEF Overlaps, Acquainted, Open, Beside, Mixed, MixedBut
<1>2. Overlaps => MixedOverlapped
  BY DEF Overlaps, Mixed, MixedBut, MixedOverlapped, Overlapped
<1>3. Typed /\ AllWhole /\ Overlaps /\ [Next]_vars => Overlaps'
  BY OverlapsStep
<1> QED
  BY <1>1, <1>2, <1>3, TypedHolds, AllWholeHolds, PTL DEF Spec
==============================================================================
