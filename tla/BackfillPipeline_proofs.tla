---------------------- MODULE BackfillPipeline_proofs ----------------------
(***************************************************************************)
(* Theorems about the backfill pipeline, for any records, windows, page    *)
(* size, limits of messages, waves and workers, and any number of faults.  *)
(*                                                                         *)
(*  1. IngestInv: what a worker has fetched is what HCC showed when it     *)
(*     began, what a watermark's window showed is stored, and rows that    *)
(*     the statistics lack are marked.                                     *)
(*  2. ClosedInv: every window of a message under way is done, was split,  *)
(*     or is before one of the message's workers, so that a message is     *)
(*     only acknowledged when none of its windows is left.                 *)
(*  3. PassInv: the chunks before the one a pass continues from are sent   *)
(*     or ingested, and it continues at a chunk of the whole range.        *)
(*  4. ProgressInv: every window under way is a chunk that a wave sent, or *)
(*     a day of one that was split, and what may still be counted is no    *)
(*     more than the wave has.                                             *)
(***************************************************************************)
EXTENDS BackfillPipeline, ParkingStore_proofs

-----------------------------------------------------------------------------
(* Division                                                                *)

LEMMA Products ==
    ASSUME NEW a \in Nat, NEW b \in Nat, NEW c \in Nat
    PROVE  /\ a * b \in Nat
           /\ a <= b => c * a <= c * b
           /\ a <= b => a * c <= b * c
           /\ a < b => a * c + c <= b * c
OBVIOUS

LEMMA Quotient ==
    ASSUME NEW a \in Nat, NEW b \in Nat \ {0}
    PROVE  /\ a \div b \in Nat
           /\ b * (a \div b) <= a /\ a < b * (a \div b) + b
OBVIOUS

\* How many groups of b hold a: none is empty, the last may be short.
LEMMA Groups ==
    ASSUME NEW a \in Nat, NEW b \in Nat \ {0}
    PROVE  LET n == (a + b - 1) \div b
           IN  /\ n \in Nat
               /\ a <= n * b /\ n * b < a + b
               /\ \A i \in 1 .. n : (i - 1) * b \in Nat /\ (i - 1) * b < a /\ i * b = (i - 1) * b + b
<1> DEFINE n == (a + b - 1) \div b
<1>1. n \in Nat /\ b * n <= a + b - 1 /\ a + b - 1 < b * n + b
    OBVIOUS
<1>2. a <= n * b /\ n * b < a + b
    BY <1>1
<1>3. ASSUME NEW i \in 1 .. n
      PROVE  (i - 1) * b \in Nat /\ (i - 1) * b < a /\ i * b = (i - 1) * b + b
    <2>1. i - 1 \in Nat /\ i - 1 < n
        BY <1>1
    <2>2. i * b = (i - 1) * b + b
        BY <2>1
    <2>3. (i - 1) * b + b <= n * b /\ (i - 1) * b \in Nat
        BY <2>1, <1>1, Products
    <2> QED BY <2>2, <2>3, <1>2, <1>1
<1> QED BY <1>1, <1>2, <1>3

\* A part of a sequence, after the first a elements and up to b.
LEMMA PartOf ==
    ASSUME NEW S, NEW s \in Seq(S), NEW a \in Nat, NEW b \in Nat, a <= b, b <= Len(s)
    PROVE  /\ SubSeq(s, a + 1, b) \in Seq(S)
           /\ Len(SubSeq(s, a + 1, b)) = b - a
           /\ \A k \in 1 .. b - a : SubSeq(s, a + 1, b)[k] = s[a + k]
<1>1. Len(s) \in Nat /\ \A i \in 1 .. Len(s) : s[i] \in S
    BY RangeOf
<1>2. \A m, n, l \in Nat : m <= n /\ n <= l =>
          /\ \A i \in m + 1 .. n : i \in 1 .. l
          /\ (IF m + 1 <= n THEN n - (m + 1) + 1 ELSE 0) = n - m
          /\ n - (m + 1) + 1 = n - m
          /\ \A k \in 1 .. n - m : m + 1 + k - 1 = m + k
    OBVIOUS
<1>3. \A i \in a + 1 .. b : s[i] \in S
    BY <1>1, <1>2
<1>4. /\ SubSeq(s, a + 1, b) \in Seq(S)
      /\ Len(SubSeq(s, a + 1, b)) = IF a + 1 <= b THEN b - (a + 1) + 1 ELSE 0
      /\ \A k \in 1 .. b - (a + 1) + 1 : SubSeq(s, a + 1, b)[k] = s[a + 1 + k - 1]
    BY <1>3, SubSeqProperties
<1> QED BY <1>1, <1>2, <1>4

-----------------------------------------------------------------------------
(* Windows and messages                                                    *)

LEMMA WindowPairs ==
    /\ \A w \in Windows : w = <<w[1], w[2]>> /\ w[1] \in Days /\ w[2] \in Days /\ w[1] <= w[2]
    /\ \A a, b \in Days : a <= b => <<a, b>> \in Windows
BY DEF Windows

\* The chunks of a range are windows, one after the other, that end with it.
LEMMA Chunks ==
    ASSUME NEW start \in Days, NEW end \in Days, start <= end, NEW span \in Nat \ {0}
    PROVE  LET chunks == SplitDateRange(start, end, span)
           IN  /\ chunks \in Seq(Windows)
               /\ \A i, j \in DOMAIN chunks : i < j => chunks[i][2] < chunks[j][1]
               /\ \A i \in DOMAIN chunks : start <= chunks[i][1] /\ chunks[i][2] <= end
<1> DEFINE n == (end - start + span) \div span
           chunks == SplitDateRange(start, end, span)
           First(i) == start + (i - 1) * span
           Final(i) == IF First(i) + span - 1 > end THEN end ELSE First(i) + span - 1
<1>1. start \in Nat /\ end \in Nat /\ LastDay \in Nat /\ 1 <= start /\ end <= LastDay
    BY StoreAssumption DEF Days
<1>3. chunks = [i \in 1 .. n |-> <<First(i), Final(i)>>]
    BY DEF SplitDateRange
<1>4. /\ n \in Nat
      /\ \A i \in 1 .. n : (i - 1) * span \in Nat /\ (i - 1) * span < end - start + 1
                           /\ i * span = (i - 1) * span + span
    <2>1. end - start + 1 \in Nat /\ end - start + span = (end - start + 1) + span - 1
        BY <1>1
    <2> QED BY <2>1, Groups
<1> HIDE DEF n, chunks
<1>5. \A i \in 1 .. n : /\ First(i) \in Nat /\ Final(i) \in Nat
                        /\ start <= First(i) /\ First(i) <= Final(i) /\ Final(i) <= end
    <2> TAKE i \in 1 .. n
    <2> DEFINE k == (i - 1) * span
    <2>1. k \in Nat /\ k < end - start + 1
        BY <1>4
    <2>2. First(i) = start + k
        OBVIOUS
    <2> HIDE DEF k
    <2> QED BY <2>1, <2>2, <1>1
<1>6. \A i \in 1 .. n : <<First(i), Final(i)>> \in Windows
    BY <1>5, <1>1, WindowPairs DEF Days
<1>7. chunks \in Seq(Windows) /\ DOMAIN chunks = 1 .. n
    <2> HIDE DEF First, Final
    <2> QED BY <1>3, <1>4, <1>6
<1>8. ASSUME NEW i \in 1 .. n, NEW j \in 1 .. n, i < j
      PROVE  Final(i) < First(j)
    <2>1. (i - 1) * span + span <= (j - 1) * span
        <3>1. i - 1 \in Nat /\ j - 1 \in Nat /\ i - 1 < j - 1
            BY <1>4, <1>8
        <3> QED BY <3>1, Products
    <2>2. (i - 1) * span \in Nat /\ (j - 1) * span \in Nat
        BY <1>4
    <2> DEFINE k == (i - 1) * span
               m == (j - 1) * span
    <2>3. First(i) = start + k /\ First(j) = start + m /\ k + span <= m /\ k \in Nat /\ m \in Nat
        BY <2>1, <2>2
    <2> HIDE DEF k, m
    <2>4. First(i) + span - 1 < First(j)
        BY <2>3, <1>1
    <2> HIDE DEF First
    <2> QED BY <2>4, <1>5
<1> HIDE DEF First, Final
<1>9. \A i \in 1 .. n : chunks[i][1] = First(i) /\ chunks[i][2] = Final(i)
    BY <1>3
<1> QED BY <1>5, <1>7, <1>8, <1>9 DEF chunks

\* The days of a window.
LEMMA DaysOfWindow ==
    ASSUME NEW w \in Windows
    PROVE  /\ DailyWindows(w) \in Seq(Windows)
           /\ Range(DailyWindows(w)) = {<<d, d>> : d \in w[1] .. w[2]}
<1>1. w[1] \in Nat /\ w[2] \in Nat /\ w[1] <= w[2] /\ w[1] \in Days /\ w[2] \in Days
    BY WindowPairs DEF Days
<1>2. DailyWindows(w) \in Seq(Windows)
    BY <1>1, Chunks DEF DailyWindows
<1>3. (w[2] - w[1] + 1) \div 1 = w[2] - w[1] + 1
    BY <1>1
<1> DEFINE n == w[2] - w[1] + 1
           Day(i) == w[1] + i - 1
<1>4. \A i \in 1 .. n : /\ w[1] + (i - 1) * 1 = Day(i)
                        /\ (IF Day(i) + 1 - 1 > w[2] THEN w[2] ELSE Day(i) + 1 - 1) = Day(i)
    BY <1>1
<1>5. DailyWindows(w) = [i \in 1 .. n |-> <<Day(i), Day(i)>>]
    BY <1>3, <1>4 DEF DailyWindows, SplitDateRange
<1>6. {Day(i) : i \in 1 .. n} = w[1] .. w[2]
    <2>1. \A i \in 1 .. n : Day(i) \in w[1] .. w[2]
        BY <1>1
    <2>2. ASSUME NEW d \in w[1] .. w[2]
          PROVE  \E i \in 1 .. n : Day(i) = d
        <3>1. d - w[1] + 1 \in 1 .. n /\ Day(d - w[1] + 1) = d
            BY <1>1
        <3> QED BY <3>1
    <2> QED BY <2>1, <2>2
<1>7. Range(DailyWindows(w)) = {<<Day(i), Day(i)>> : i \in 1 .. n}
    BY <1>5 DEF Range
<1> HIDE DEF Day, n
<1>8. {<<Day(i), Day(i)>> : i \in 1 .. n} = {<<d, d>> : d \in {Day(i) : i \in 1 .. n}}
    OBVIOUS
<1> QED BY <1>2, <1>6, <1>7, <1>8

\* A pass that is repeated leaves out what is ingested, and only that.
LEMMA PendingChunks ==
    ASSUME NEW chunks \in Seq(Windows),
           \A i, j \in DOMAIN chunks : i < j => chunks[i][2] < chunks[j][1]
    PROVE  LET pending == FilterPendingChunks(store, chunks)
           IN  /\ pending \in Seq(Windows)
               /\ Range(pending) = Range(chunks) \ store.marks
               /\ \A i, j \in DOMAIN pending : i < j => pending[i][2] < pending[j][1]
<1> DEFINE is == {i \in DOMAIN chunks : ~IsWindowIngested(store, chunks[i])}
           left == InOrder(is)
           pending == FilterPendingChunks(store, chunks)
<1>1. DOMAIN chunks = 1 .. Len(chunks) /\ Len(chunks) \in Nat
      /\ \A i \in DOMAIN chunks : chunks[i] \in Windows
    BY RangeOf
<1>2. is \subseteq Nat /\ IsFiniteSet(is) /\ is \subseteq DOMAIN chunks
    <2>1. IsFiniteSet(1 .. Len(chunks)) /\ is \subseteq 1 .. Len(chunks)
        BY <1>1, FS_Interval
    <2> QED BY <2>1, <1>1, FS_Subset
<1>3. /\ left \in Seq(is) /\ DOMAIN left = 1 .. Cardinality(is) /\ Cardinality(is) \in Nat
      /\ Range(left) = is
      /\ \A i, j \in DOMAIN left : i < j => left[i] < left[j]
    BY <1>2, InOrderLists
<1>4. pending = [k \in 1 .. Cardinality(is) |-> chunks[left[k]]]
    BY <1>3 DEF FilterPendingChunks
<1> HIDE DEF left, pending
<1>5. \A k \in 1 .. Cardinality(is) : left[k] \in is
    BY <1>3, RangeOf
<1>6. pending \in Seq(Windows) /\ DOMAIN pending = 1 .. Cardinality(is)
    BY <1>1, <1>3, <1>4, <1>5
<1>7. \A i, j \in DOMAIN pending : i < j => pending[i][2] < pending[j][1]
    BY <1>3, <1>4, <1>5, <1>6
<1>8. Range(pending) = {chunks[i] : i \in is}
    <2>1. Range(pending) = {chunks[left[k]] : k \in DOMAIN left}
        BY <1>3, <1>4 DEF Range
    <2>2. is = {left[k] : k \in DOMAIN left}
        BY <1>3 DEF Range
    <2> HIDE DEF is
    <2> QED BY <2>1, <2>2
<1>9. {chunks[i] : i \in is} = Range(chunks) \ store.marks
    BY DEF Range, IsWindowIngested
<1> QED BY <1>6, <1>7, <1>8, <1>9 DEF pending

\* The messages of a list of windows carry each of them, and no other.
LEMMA PackedMessages ==
    ASSUME NEW windows \in Seq(Windows), NEW force \in BOOLEAN
    PROVE  LET messages == PackMessages(windows, force)
           IN  /\ messages \in Seq(Messages)
               /\ \A w \in Range(windows) : \E m \in Range(messages) : w \in Range(m.windows)
               /\ \A m \in Range(messages) : Range(m.windows) \subseteq Range(windows)
<1> DEFINE n == (Len(windows) + WindowsPerMessage - 1) \div WindowsPerMessage
           First(i) == (i - 1) * WindowsPerMessage
           Final(i) == IF i * WindowsPerMessage < Len(windows)
                       THEN i * WindowsPerMessage ELSE Len(windows)
           messages == PackMessages(windows, force)
<1>1. /\ Len(windows) \in Nat /\ WindowsPerMessage \in Nat \ {0} /\ 0 \in 0 .. MaxRetries
      /\ DOMAIN windows = 1 .. Len(windows)
    BY RangeOf, BackfillAssumption
<1>2. /\ n \in Nat /\ Len(windows) <= n * WindowsPerMessage
      /\ \A i \in 1 .. n : First(i) \in Nat /\ First(i) < Len(windows)
                           /\ i * WindowsPerMessage = First(i) + WindowsPerMessage
    BY <1>1, Groups
<1>3. messages = [i \in 1 .. n |-> [windows |-> SubSeq(windows, First(i) + 1, Final(i)),
                                    force |-> force, tries |-> 0]]
    BY DEF PackMessages
<1>4. \A i \in 1 .. n : /\ First(i) \in Nat /\ Final(i) \in Nat /\ Final(i) <= Len(windows)
                        /\ First(i) < Final(i) /\ Final(i) <= First(i) + WindowsPerMessage
    <2> SUFFICES ASSUME NEW i \in 1 .. n
                 PROVE  /\ First(i) \in Nat /\ Final(i) \in Nat /\ Final(i) <= Len(windows)
                        /\ First(i) < Final(i) /\ Final(i) <= First(i) + WindowsPerMessage
        OBVIOUS
    <2>1. /\ First(i) \in Nat /\ First(i) < Len(windows)
          /\ i * WindowsPerMessage = First(i) + WindowsPerMessage
        BY <1>2
    <2>2. Final(i) = IF First(i) + WindowsPerMessage < Len(windows)
                     THEN First(i) + WindowsPerMessage ELSE Len(windows)
        BY <2>1
    <2> HIDE DEF First, Final
    <2> QED BY <2>1, <2>2, <1>1
<1>5. /\ DOMAIN messages = 1 .. n
      /\ \A i \in 1 .. n : /\ messages[i].windows = SubSeq(windows, First(i) + 1, Final(i))
                           /\ messages[i].force = force /\ messages[i].tries = 0
    <2> HIDE DEF First, Final, n, messages
    <2> QED BY <1>3
<1>6. \A i \in 1 .. n :
         /\ SubSeq(windows, First(i) + 1, Final(i)) \in Seq(Windows)
         /\ Len(SubSeq(windows, First(i) + 1, Final(i))) = Final(i) - First(i)
         /\ \A k \in 1 .. Final(i) - First(i) :
               SubSeq(windows, First(i) + 1, Final(i))[k] = windows[First(i) + k]
    <2> HIDE DEF First, Final, n
    <2> SUFFICES ASSUME NEW i \in 1 .. n
                 PROVE  /\ SubSeq(windows, First(i) + 1, Final(i)) \in Seq(Windows)
                        /\ Len(SubSeq(windows, First(i) + 1, Final(i))) = Final(i) - First(i)
                        /\ \A k \in 1 .. Final(i) - First(i) :
                              SubSeq(windows, First(i) + 1, Final(i))[k] = windows[First(i) + k]
        OBVIOUS
    <2>1. First(i) \in Nat /\ Final(i) \in Nat /\ First(i) <= Final(i) /\ Final(i) <= Len(windows)
        BY <1>4
    <2> QED BY <2>1, PartOf
<1>7. ASSUME NEW i \in 1 .. n
      PROVE  messages[i] \in Messages
    <2> HIDE DEF First, Final, n
    <2> DEFINE ws == SubSeq(windows, First(i) + 1, Final(i))
    <2>1. Len(ws) \in 1 .. WindowsPerMessage /\ ws \in Seq(Windows)
        BY <1>1, <1>4, <1>6
    <2>2. messages[i] = [windows |-> ws, force |-> force, tries |-> 0]
        BY <1>3
    <2> HIDE DEF ws, messages
    <2> QED BY <1>1, <2>1, <2>2 DEF Messages
<1>8. messages \in Seq(Messages)
    <2> HIDE DEF First, Final, n
    <2>1. messages = [i \in 1 .. n |-> messages[i]]
        BY <1>3
    <2> HIDE DEF messages
    <2> QED BY <1>2, <1>7, <2>1
<1>9. ASSUME NEW w \in Range(windows)
      PROVE  \E m \in Range(messages) : w \in Range(m.windows)
    <2>1. PICK k \in 1 .. Len(windows) : windows[k] = w
        BY RangeOf
    <2> DEFINE q == (k - 1) \div WindowsPerMessage
    <2>2. /\ q \in Nat /\ WindowsPerMessage * q <= k - 1
          /\ k - 1 < WindowsPerMessage * q + WindowsPerMessage
        BY <1>1, <2>1, Quotient
    <2>3. First(q + 1) = WindowsPerMessage * q
          /\ (q + 1) * WindowsPerMessage = WindowsPerMessage * q + WindowsPerMessage
        BY <1>1, <2>2
    <2>4. q + 1 \in 1 .. n
        <3>1. q < n
            <4> SUFFICES ASSUME n <= q PROVE FALSE
                BY <1>2, <2>2
            <4>1. WindowsPerMessage * n <= WindowsPerMessage * q
                BY <1>1, <1>2, <2>2, Products
            <4>2. n * WindowsPerMessage = WindowsPerMessage * n
                BY <1>1, <1>2
            <4> HIDE DEF n, q
            <4> QED BY <4>1, <4>2, <1>1, <1>2, <2>1, <2>2
        <3> QED BY <3>1, <1>2, <2>2
    <2>5. k - First(q + 1) \in 1 .. Final(q + 1) - First(q + 1)
        <3>1. First(q + 1) < k /\ k <= Final(q + 1)
            BY <1>1, <2>1, <2>2, <2>3
        <3> HIDE DEF First, Final
        <3> QED BY <3>1, <1>4, <2>1, <2>4
    <2> HIDE DEF q
    <2>6. windows[First(q + 1) + (k - First(q + 1))] = w
        <3>1. First(q + 1) + (k - First(q + 1)) = k
            BY <1>2, <2>1, <2>4
        <3> QED BY <2>1, <3>1
    <2> HIDE DEF First, Final, n, messages
    <2>7. w \in Range(messages[q + 1].windows)
        <3>1. messages[q + 1].windows[k - First(q + 1)] = w
            BY <1>5, <1>6, <2>4, <2>5, <2>6
        <3>2. k - First(q + 1) \in 1 .. Len(messages[q + 1].windows)
              /\ messages[q + 1].windows \in Seq(Windows)
            BY <1>5, <1>6, <2>4, <2>5
        <3> QED BY <3>1, <3>2, RangeOf
    <2>8. messages[q + 1] \in Range(messages)
        BY <1>5, <2>4 DEF Range
    <2> QED BY <2>7, <2>8
<1>10. ASSUME NEW m \in Range(messages), NEW w \in Range(m.windows)
       PROVE  w \in Range(windows)
    <2>1. PICK i \in 1 .. n : m = messages[i]
        BY <1>5 DEF Range
    <2> HIDE DEF First, Final, n, messages
    <2>2. m.windows \in Seq(Windows) /\ Len(m.windows) = Final(i) - First(i)
          /\ \A k \in 1 .. Len(m.windows) : m.windows[k] = windows[First(i) + k]
        BY <2>1, <1>5, <1>6
    <2>3. PICK k \in 1 .. Len(m.windows) : m.windows[k] = w
        BY <2>2, RangeOf
    <2>4. First(i) + k \in 1 .. Len(windows)
        BY <2>1, <2>2, <2>3, <1>1, <1>4
    <2> QED BY <2>2, <2>3, <2>4, RangeOf
<1> QED BY <1>8, <1>9, <1>10

-----------------------------------------------------------------------------
(* The queue                                                               *)

IsQueue(q) == q \in [DOMAIN q -> Nat \ {0}]

LEMMA SumOfQueues ==
    ASSUME NEW q, NEW b, IsQueue(q), IsQueue(b)
    PROVE  /\ DOMAIN (q (+) b) = DOMAIN q \cup DOMAIN b
           /\ IsQueue(q (+) b)
<1> DEFINE s == [e \in DOMAIN q \cup DOMAIN b |->
                    (IF e \in DOMAIN q THEN q[e] ELSE 0) + (IF e \in DOMAIN b THEN b[e] ELSE 0)]
<1>1. q (+) b = s
    BY DEF (+)
<1>2. \A e \in DOMAIN q : q[e] \in Nat \ {0}
    BY DEF IsQueue
<1>3. \A e \in DOMAIN b : b[e] \in Nat \ {0}
    BY DEF IsQueue
<1>4. \A e \in DOMAIN q \cup DOMAIN b :
          (IF e \in DOMAIN q THEN q[e] ELSE 0) + (IF e \in DOMAIN b THEN b[e] ELSE 0) \in Nat \ {0}
    BY <1>2, <1>3
<1>5. DOMAIN s = DOMAIN q \cup DOMAIN b /\ s \in [DOMAIN q \cup DOMAIN b -> Nat \ {0}]
    BY <1>4
<1> HIDE DEF s
<1> QED BY <1>1, <1>5 DEF IsQueue

LEMMA RestOfQueue ==
    ASSUME NEW q, NEW b, IsQueue(q), IsQueue(b)
    PROVE  /\ DOMAIN (q (-) b) \subseteq DOMAIN q
           /\ \A e \in DOMAIN q : e \in DOMAIN b \/ e \in DOMAIN (q (-) b)
           /\ IsQueue(q (-) b)
<1> DEFINE s == [e \in DOMAIN q |-> IF e \in DOMAIN b THEN q[e] - b[e] ELSE q[e]]
           t == [e \in {d \in DOMAIN s : s[d] > 0} |-> s[e]]
<1>1. q (-) b = t
    BY DEF (-)
<1>2. \A e \in DOMAIN q : q[e] \in Nat \ {0}
    BY DEF IsQueue
<1>3. \A e \in DOMAIN b : b[e] \in Nat \ {0}
    BY DEF IsQueue
<1>4. DOMAIN s = DOMAIN q /\ \A e \in DOMAIN q : s[e] \in Int /\ (e \notin DOMAIN b => s[e] > 0)
    BY <1>2, <1>3
<1> HIDE DEF s
<1>5. /\ DOMAIN t \subseteq DOMAIN q
      /\ \A e \in DOMAIN q : e \in DOMAIN b \/ e \in DOMAIN t
      /\ t \in [DOMAIN t -> Nat \ {0}]
    BY <1>4
<1> HIDE DEF t
<1> QED BY <1>1, <1>5 DEF IsQueue

\* A bag of listed messages holds each of them.
LEMMA BagOfListed ==
    ASSUME NEW messages, IsFiniteSet(DOMAIN messages)
    PROVE  DOMAIN BagOf(messages) = Range(messages) /\ IsQueue(BagOf(messages))
<1> DEFINE At(m) == {i \in DOMAIN messages : messages[i] = m}
<1>1. ASSUME NEW m \in Range(messages)
      PROVE  Cardinality(At(m)) \in Nat \ {0}
    <2>1. IsFiniteSet(At(m)) /\ At(m) # {}
        BY <1>1, FS_Subset DEF Range
    <2> HIDE DEF At
    <2> QED BY <2>1, FS_CardinalityType, FS_EmptySet
<1>2. BagOf(messages) = [m \in Range(messages) |-> Cardinality(At(m))]
    BY DEF BagOf
<1> HIDE DEF At
<1> QED BY <1>1, <1>2 DEF IsQueue

LEMMA BagOfSet ==
    ASSUME NEW S
    PROVE  DOMAIN SetToBag(S) = S /\ IsQueue(SetToBag(S))
BY DEF SetToBag, IsQueue

-----------------------------------------------------------------------------
(* The workers of a message                                                *)

LEMMA SomeWorkers ==
    ASSUME NEW n \in Nat
    PROVE  /\ Workers(n) \in Nat /\ Workers(n) <= n
           /\ n > 0 => Workers(n) \in 1 .. n
BY BackfillAssumption DEF Workers

AtRest(l) == l.pc \in {"check", "page1"} /\ l.first = {} /\ l.got = <<>>

\* The workers a message is handed to have windows of the message, each of its windows
\* is with one of them, and each worker has some.
LEMMA LanesOfMessage ==
    ASSUME NEW i, NEW message \in Messages
    PROVE  /\ \A l \in LanesOf(i, message) :
                 /\ l \in [message : {i}, pc : LaneStages, todo : Seq(Windows) \ {<<>>},
                           first : SUBSET Records, got : Seq(Records)]
                 /\ AtRest(l)
                 /\ Range(l.todo) \subseteq Range(message.windows)
           /\ \A w \in Range(message.windows) :
                 \E l \in LanesOf(i, message) : w \in Range(l.todo)
<1> DEFINE n == Len(message.windows)
           limit == Workers(n)
           Todo(k) == [j \in 1 .. (n - k) \div limit + 1 |-> message.windows[k + (j - 1) * limit]]
           Lane(k) == [message |-> i, pc |-> FirstStage(message.force), first |-> {},
                       got |-> <<>>, todo |-> Todo(k)]
<1>1. /\ message.windows \in Seq(Windows) /\ n \in Nat \ {0} /\ limit \in 1 .. n
      /\ \A j \in 1 .. n : message.windows[j] \in Windows
    <2>1. message.windows \in Seq(Windows) /\ n \in 1 .. WindowsPerMessage /\ WindowsPerMessage \in Nat
        BY BackfillAssumption DEF Messages
    <2>2. n \in Nat \ {0} /\ \A j \in 1 .. n : message.windows[j] \in Windows
        BY <2>1, RangeOf
    <2> HIDE DEF n
    <2> QED BY <2>1, <2>2, SomeWorkers
<1>2. FirstStage(message.force) \in {"check", "page1"}
    BY DEF FirstStage
<1>3. LanesOf(i, message) = {Lane(k) : k \in 1 .. limit}
    BY DEF LanesOf
<1>4. ASSUME NEW k \in 1 .. limit
      PROVE  Todo(k) \in Seq(Windows) \ {<<>>}
             /\ DOMAIN Todo(k) = 1 .. (n - k) \div limit + 1 /\ (n - k) \div limit \in Nat
             /\ Range(Todo(k)) \subseteq Range(message.windows)
    <2> HIDE DEF n, limit
    <2>1. k \in Nat /\ n - k \in Nat /\ limit \in Nat \ {0}
        BY <1>1
    <2> DEFINE q == (n - k) \div limit
    <2>2. q \in Nat /\ limit * q <= n - k
        BY <2>1, Quotient
    <2>3. \A j \in 1 .. q + 1 : k + (j - 1) * limit \in 1 .. n
        <3> TAKE j \in 1 .. q + 1
        <3>1. j - 1 \in Nat /\ j - 1 <= q
            BY <2>2
        <3>2. (j - 1) * limit \in Nat /\ (j - 1) * limit <= limit * q
            BY <3>1, <2>1, <2>2, Products
        <3> DEFINE p == (j - 1) * limit
                   r == limit * q
        <3>3. p \in Nat /\ p <= r /\ r <= n - k /\ r \in Nat
            BY <3>2, <2>2, <2>1, Products
        <3> HIDE DEF p, r
        <3>4. k + p \in 1 .. n
            BY <3>3, <2>1, <1>1
        <3> QED BY <3>4 DEF p
    <2>4. Todo(k) = [j \in 1 .. q + 1 |-> message.windows[k + (j - 1) * limit]]
        OBVIOUS
    <2> HIDE DEF q, Todo
    <2>5. /\ Todo(k) \in Seq(Windows) /\ DOMAIN Todo(k) = 1 .. q + 1
          /\ Range(Todo(k)) \subseteq Range(message.windows)
        <3> DEFINE Place(j) == k + (j - 1) * limit
        <3>1. \A j \in 1 .. q + 1 : Place(j) \in 1 .. n
            BY <2>3
        <3>2. Todo(k) = [j \in 1 .. q + 1 |-> message.windows[Place(j)]]
            BY <2>4
        <3> HIDE DEF Place
        <3>3. \A j \in 1 .. q + 1 : message.windows[Place(j)] \in Windows
            BY <3>1, <1>1
        <3>4. Range(Todo(k)) \subseteq Range(message.windows)
            <4>1. \A j \in 1 .. q + 1 : message.windows[Place(j)] \in Range(message.windows)
                BY <3>1, <1>1, RangeOf DEF n
            <4>2. Range(Todo(k)) = {message.windows[Place(j)] : j \in 1 .. q + 1}
                BY <3>2 DEF Range
            <4> QED BY <4>1, <4>2
        <3> QED BY <3>2, <3>3, <3>4, <2>2
    <2>6. Todo(k) # <<>>
        BY <2>5, <2>2
    <2> QED BY <2>2, <2>5, <2>6 DEF q
<1>5. ASSUME NEW l \in LanesOf(i, message)
      PROVE  /\ l \in [message : {i}, pc : LaneStages, todo : Seq(Windows) \ {<<>>},
                       first : SUBSET Records, got : Seq(Records)]
             /\ AtRest(l)
             /\ Range(l.todo) \subseteq Range(message.windows)
    <2>1. PICK k \in 1 .. limit : l = Lane(k)
        BY <1>3
    <2> HIDE DEF Todo, n, limit
    <2>2. Todo(k) \in Seq(Windows) \ {<<>>} /\ Range(Todo(k)) \subseteq Range(message.windows)
        BY <1>4
    <2> QED BY <1>2, <2>1, <2>2 DEF AtRest, LaneStages
<1>6. ASSUME NEW w \in Range(message.windows)
      PROVE  \E l \in LanesOf(i, message) : w \in Range(l.todo)
    <2>1. PICK p \in 1 .. n : message.windows[p] = w
        BY <1>1, RangeOf
    <2> DEFINE q == (p - 1) \div limit
               k == p - limit * q
    <2>2. q \in Nat /\ limit * q <= p - 1 /\ p - 1 < limit * q + limit /\ limit * q \in Nat
        <3> HIDE DEF n, limit
        <3>1. p - 1 \in Nat /\ limit \in Nat \ {0}
            BY <1>1
        <3> QED BY <3>1, Quotient, Products
    <2>3. k \in 1 .. limit /\ n - k \in Nat /\ limit * q <= n - k
        <3> HIDE DEF n, limit
        <3> DEFINE r == limit * q
        <3> HIDE DEF q
        <3>1. r \in Nat /\ r <= p - 1 /\ p - 1 < r + limit /\ limit \in Nat /\ p \in 1 .. n /\ n \in Nat
            BY <1>1, <2>2
        <3> HIDE DEF r
        <3>2. p - r \in 1 .. limit /\ n - (p - r) \in Nat /\ r <= n - (p - r)
            BY <3>1
        <3> QED BY <3>2 DEF r
    <2> HIDE DEF n, limit, k
    <2>4. q <= (n - k) \div limit
        <3> DEFINE s == (n - k) \div limit
        <3>1. s \in Nat /\ n - k < limit * s + limit /\ limit \in Nat \ {0}
            BY <1>1, <2>3, Quotient
        <3> SUFFICES ASSUME s < q PROVE FALSE
            BY <2>2, <3>1
        <3>2. limit * s + limit <= limit * q
            <4>1. s * limit + limit <= q * limit
                BY <2>2, <3>1, Products
            <4> HIDE DEF s, q
            <4>2. s * limit = limit * s /\ q * limit = limit * q
                BY <2>2, <3>1
            <4> QED BY <4>1, <4>2
        <3> DEFINE a == limit * s
                   b == limit * q
        <3>3. a \in Nat /\ b \in Nat /\ n - k < a + limit /\ a + limit <= b /\ b <= n - k
            BY <3>1, <3>2, <2>2, <2>3, Products
        <3> HIDE DEF a, b, s, q
        <3> QED BY <3>3, <3>1, <2>3
    <2>5. k + ((q + 1) - 1) * limit = p
        <3>1. k + limit * q = p
            BY <1>1, <2>2 DEF k
        <3>2. ((q + 1) - 1) * limit = limit * q
            <4> HIDE DEF q
            <4> QED BY <1>1, <2>2
        <3> QED BY <3>1, <3>2
    <2> HIDE DEF q
    <2>6. q + 1 \in 1 .. (n - k) \div limit + 1 /\ k \in 1 .. limit
        <3> DEFINE s == (n - k) \div limit
        <3>1. s \in Nat /\ q <= s
            BY <2>3, <2>4, <1>4
        <3> HIDE DEF s
        <3>2. q + 1 \in 1 .. s + 1
            BY <2>2, <3>1
        <3> QED BY <3>2, <2>3 DEF s
    <2>7. Todo(k)[q + 1] = w
        BY <2>1, <2>5, <2>6
    <2>8. w \in Range(Todo(k))
        BY <1>4, <2>6, <2>7 DEF Range
    <2>9. Lane(k).todo = Todo(k)
        OBVIOUS
    <2> HIDE DEF Todo, Lane
    <2> QED BY <1>3, <2>6, <2>8, <2>9
<1> QED BY <1>5, <1>6

-----------------------------------------------------------------------------
(* What the steps of a worker leave                                        *)

LEMMA BatchEntries ==
    ASSUME TypeOK
    PROVE  /\ DOMAIN batch = 1 .. Len(batch) /\ Len(batch) \in Nat
           /\ IsFiniteSet(DOMAIN batch)
           /\ \A i \in DOMAIN batch :
                 /\ batch[i] = [message |-> batch[i].message, state |-> batch[i].state]
                 /\ batch[i].message \in Messages
                 /\ batch[i].state \in {"waiting", "running", "acked", "retried"}
<1>1. batch \in Seq(Entries)
    BY DEF TypeOK
<1>2. /\ DOMAIN batch = 1 .. Len(batch) /\ Len(batch) \in Nat
      /\ \A i \in DOMAIN batch : batch[i] \in Entries
    BY <1>1, RangeOf
<1>3. IsFiniteSet(1 .. Len(batch))
    BY <1>2, FS_Interval
<1> QED BY <1>2, <1>3 DEF Entries

\* Settling a message changes no message and no other that has been settled.
LEMMA SettledBatch ==
    ASSUME TypeOK, NEW i \in DOMAIN batch, NEW how \in {"acked", "retried"}
    PROVE  /\ Settled(i, how) \in Seq(Entries)
           /\ DOMAIN Settled(i, how) = DOMAIN batch /\ Len(Settled(i, how)) = Len(batch)
           /\ Settled(i, how)[i] = [message |-> batch[i].message, state |-> how]
           /\ \A j \in DOMAIN batch :
                 /\ Settled(i, how)[j].message = batch[j].message
                 /\ j # i => Settled(i, how)[j].state =
                                IF j = i + Workers(Len(batch)) THEN "running" ELSE batch[j].state
<1>1. /\ DOMAIN batch = 1 .. Len(batch) /\ Len(batch) \in Nat
      /\ \A j \in DOMAIN batch :
                 /\ batch[j] = [message |-> batch[j].message, state |-> batch[j].state]
                 /\ batch[j].message \in Messages
                 /\ batch[j].state \in {"waiting", "running", "acked", "retried"}
    BY BatchEntries
<1> DEFINE State(j) == CASE j = i -> how
                         [] j = i + Workers(Len(batch)) -> "running"
                         [] OTHER -> batch[j].state
<1>2. Workers(Len(batch)) \in Nat /\ (Len(batch) > 0 => Workers(Len(batch)) > 0)
    BY <1>1, SomeWorkers
<1>3. i # i + Workers(Len(batch))
    BY <1>1, <1>2
<1>4. \A j \in DOMAIN batch :
          /\ State(j) \in {"waiting", "running", "acked", "retried"}
          /\ j # i => State(j) = IF j = i + Workers(Len(batch)) THEN "running" ELSE batch[j].state
    BY <1>1, <1>3
<1>5. State(i) = how
    BY <1>3
<1>6. \A j \in DOMAIN batch :
          Settled(i, how)[j] = [message |-> batch[j].message, state |-> State(j)]
    <2> SUFFICES ASSUME NEW j \in DOMAIN batch
                 PROVE  Settled(i, how)[j] = [message |-> batch[j].message, state |-> State(j)]
        OBVIOUS
    <2>1. batch[j] = [message |-> batch[j].message, state |-> batch[j].state]
        BY <1>1
    <2>2. CASE j = i
        <3>1. Settled(i, how)[j] = [batch[j] EXCEPT !.state = how]
            BY <2>2, <1>3 DEF Settled
        <3> QED BY <3>1, <2>1, <2>2, <1>5
    <2>3. CASE j # i /\ j = i + Workers(Len(batch))
        <3>1. Settled(i, how)[j] = [batch[j] EXCEPT !.state = "running"]
            BY <2>3 DEF Settled
        <3>2. State(j) = "running"
            BY <2>3
        <3> QED BY <3>1, <3>2, <2>1
    <2>4. CASE j # i /\ j # i + Workers(Len(batch))
        <3>1. Settled(i, how)[j] = batch[j]
            BY <2>4 DEF Settled
        <3>2. State(j) = batch[j].state
            BY <2>4
        <3> QED BY <3>1, <3>2, <2>1
    <2> QED BY <2>2, <2>3, <2>4
<1>7. DOMAIN Settled(i, how) = DOMAIN batch
      /\ Settled(i, how) = [j \in 1 .. Len(batch) |-> Settled(i, how)[j]]
    BY <1>1 DEF Settled
<1>8. \A j \in 1 .. Len(batch) : Settled(i, how)[j] \in Entries
    <2> HIDE DEF State
    <2>1. \A j \in DOMAIN batch : [message |-> batch[j].message, state |-> State(j)] \in Entries
        BY <1>1, <1>4 DEF Entries
    <2> QED BY <1>1, <1>6, <2>1
<1> HIDE DEF State
<1>9. Settled(i, how) \in Seq(Entries) /\ Len(Settled(i, how)) = Len(batch)
    <2> DEFINE b == Settled(i, how)
    <2>1. b = [j \in 1 .. Len(batch) |-> b[j]] /\ \A j \in 1 .. Len(batch) : b[j] \in Entries
        BY <1>7, <1>8
    <2> HIDE DEF b
    <2>2. b \in Seq(Entries) /\ Len(b) = Len(batch)
        BY <1>1, <2>1
    <2> QED BY <2>2 DEF b
<1>10. \A j \in DOMAIN batch : /\ Settled(i, how)[j].message = batch[j].message
                               /\ Settled(i, how)[j].state = State(j)
    <2> SUFFICES ASSUME NEW j \in DOMAIN batch
                 PROVE  /\ Settled(i, how)[j].message = batch[j].message
                        /\ Settled(i, how)[j].state = State(j)
        OBVIOUS
    <2>1. Settled(i, how)[j] = [message |-> batch[j].message, state |-> State(j)]
        BY <1>6
    <2> QED BY <2>1
<1> QED BY <1>4, <1>5, <1>6, <1>7, <1>9, <1>10

LEMMA LanesThatFollow ==
    ASSUME TypeOK, NEW i \in DOMAIN batch
    PROVE  /\ NextLanes(i) \subseteq Lanes
           /\ \A x \in NextLanes(i) :
                 /\ AtRest(x)
                 /\ \E j \in DOMAIN batch : Range(x.todo) \subseteq Range(batch[j].message.windows)
<1> DEFINE next == i + Workers(Len(batch))
<1>1. CASE next \in DOMAIN batch
    <2>1. NextLanes(i) = LanesOf(next, batch[next].message)
        BY <1>1 DEF NextLanes
    <2> HIDE DEF next
    <2>2. batch[next].message \in Messages
        BY <1>1, BatchEntries
    <2>3. NextLanes(i) \subseteq Lanes
        BY <2>1, <2>2, <1>1, LanesOfMessage DEF Lanes
    <2>4. \A x \in NextLanes(i) : AtRest(x) /\ Range(x.todo) \subseteq Range(batch[next].message.windows)
        BY <2>1, <2>2, LanesOfMessage
    <2> QED BY <2>3, <2>4, <1>1
<1>2. CASE next \notin DOMAIN batch
    <2>1. NextLanes(i) = {}
        BY <1>2 DEF NextLanes
    <2> QED BY <2>1
<1> QED BY <1>1, <1>2

\* A worker that has fetched something of its window.
Fetching(l) == l.pc \in {"rest", "split", "apply"}

SameMessages ==
    /\ DOMAIN batch' = DOMAIN batch
    /\ \A i \in DOMAIN batch : batch'[i].message = batch[i].message

\* What a step of a worker that leaves its window, or restarts it, keeps.
Quiet ==
    /\ batch' \in Seq(Entries) /\ Len(batch') <= BatchSize /\ SameMessages
    /\ lanes' \subseteq Lanes
    /\ \A x \in lanes' : x \in lanes \/ ~Fetching(x)
    /\ excused \subseteq excused' /\ excused' \subseteq Windows

LEMMA LaneTypes ==
    ASSUME TypeOK, NEW l \in lanes
    PROVE  /\ l = [message |-> l.message, pc |-> l.pc, todo |-> l.todo, first |-> l.first,
                   got |-> l.got]
           /\ l.message \in DOMAIN batch /\ l.pc \in LaneStages
           /\ l.todo \in Seq(Windows) /\ l.todo # <<>> /\ Len(l.todo) \in Nat \ {0}
           /\ Range(l.todo) \subseteq Windows
           /\ Window(l) \in Windows /\ Window(l) = l.todo[1]
           /\ l.first \subseteq Records /\ l.got \in Seq(Records)
<1>1. l \in Lanes
    BY DEF TypeOK
<1>2. /\ l = [message |-> l.message, pc |-> l.pc, todo |-> l.todo, first |-> l.first,
              got |-> l.got]
      /\ l.message \in DOMAIN batch /\ l.pc \in LaneStages
      /\ l.todo \in Seq(Windows) /\ l.todo # <<>>
      /\ l.first \subseteq Records /\ l.got \in Seq(Records)
    BY <1>1 DEF Lanes
<1>3. Len(l.todo) \in Nat \ {0} /\ Range(l.todo) \subseteq Windows
    BY <1>2, RangeOf, EmptySeq, LenProperties
<1>4. Head(l.todo) = l.todo[1] /\ Head(l.todo) \in Windows
    BY <1>2, HeadTailProperties, <1>3, RangeOf
<1> QED BY <1>2, <1>3, <1>4 DEF Window

Turned(l, stage, first, got) == [l EXCEPT !.pc = stage, !.first = first, !.got = got]

LEMMA MovedLane ==
    ASSUME TypeOK, NEW l \in lanes, NEW stage \in LaneStages,
           NEW first \in SUBSET Records, NEW got \in Seq(Records)
    PROVE  LET x == Turned(l, stage, first, got)
           IN  /\ x = [message |-> l.message, pc |-> stage, todo |-> l.todo, first |-> first,
                       got |-> got]
               /\ x \in Lanes /\ Window(x) = Window(l)
<1> DEFINE x == Turned(l, stage, first, got)
<1>1. x = [message |-> l.message, pc |-> stage, todo |-> l.todo, first |-> first, got |-> got]
    <2>1. PICK m, p, t, f, g :
              l = [message |-> m, pc |-> p, todo |-> t, first |-> f, got |-> g]
        BY LaneTypes
    <2>2. l.message = m /\ l.todo = t
        BY <2>1
    <2>3. x \in [message : {m}, pc : {stage}, todo : {t}, first : {first}, got : {got}]
        BY <2>1 DEF Turned
    <2> HIDE DEF x
    <2>4. x = [message |-> m, pc |-> stage, todo |-> t, first |-> first, got |-> got]
        BY <2>3
    <2> QED BY <2>2, <2>4
<1>2. x \in Lanes
    BY <1>1, LaneTypes DEF Lanes
<1> QED BY <1>1, <1>2 DEF Window

LEMMA SameBatchIsQuiet ==
    ASSUME TypeOK, UNCHANGED <<batch, excused>>
    PROVE  /\ batch' \in Seq(Entries) /\ Len(batch') <= BatchSize /\ SameMessages
           /\ excused \subseteq excused' /\ excused' \subseteq Windows
BY DEF TypeOK, SameMessages

LEMMA SettledIsQuiet ==
    ASSUME TypeOK, NEW l \in lanes, NEW how \in {"acked", "retried"},
           lanes' = (lanes \ {l}) \cup NextLanes(l.message),
           batch' = Settled(l.message, how)
    PROVE  /\ batch' \in Seq(Entries) /\ Len(batch') <= BatchSize /\ SameMessages
           /\ lanes' \subseteq Lanes
           /\ \A x \in lanes' : x \in lanes \/ ~Fetching(x)
<1>1. l.message \in DOMAIN batch
    BY LaneTypes
<1>2. Len(batch) <= BatchSize /\ lanes \subseteq Lanes
    BY DEF TypeOK
<1>3. /\ NextLanes(l.message) \subseteq Lanes
      /\ \A x \in NextLanes(l.message) : ~Fetching(x)
    BY <1>1, LanesThatFollow DEF AtRest, Fetching
<1> QED BY <1>1, <1>2, <1>3, SettledBatch DEF SameMessages

LEMMA GoToIsQuiet ==
    ASSUME TypeOK, NEW l \in lanes, NEW stage \in LaneStages \ {"rest", "split", "apply"},
           GoTo(l, stage)
    PROVE  Quiet
<1> DEFINE x == Turned(l, stage, {}, <<>>)
<1>1. <<>> \in Seq(Records) /\ {} \in SUBSET Records /\ stage \in LaneStages
    OBVIOUS
<1>2. /\ x = [message |-> l.message, pc |-> stage, todo |-> l.todo, first |-> {}, got |-> <<>>]
      /\ x \in Lanes
    BY <1>1, MovedLane
<1>3. lanes' = (lanes \ {l}) \cup {x} /\ UNCHANGED <<batch, excused>>
    BY DEF GoTo, Moved, Turned
<1> HIDE DEF x
<1>4. ~Fetching(x)
    BY <1>2 DEF Fetching
<1>5. lanes' \subseteq Lanes /\ \A y \in lanes' : y \in lanes \/ ~Fetching(y)
    BY <1>2, <1>3, <1>4 DEF TypeOK
<1> QED BY <1>3, <1>5, SameBatchIsQuiet DEF Quiet

\* The worker that is left when a window of its list is over.
LEMMA NextWindow ==
    ASSUME TypeOK, NEW l \in lanes, Len(l.todo) > 1,
           NEW force
    PROVE  LET x == [l EXCEPT !.todo = Tail(@), !.first = {}, !.got = <<>>,
                              !.pc = FirstStage(force)]
           IN  /\ x \in Lanes /\ AtRest(x) /\ x.message = l.message
               /\ Range(l.todo) = {Window(l)} \cup Range(x.todo)
<1> DEFINE x == [l EXCEPT !.todo = Tail(@), !.first = {}, !.got = <<>>, !.pc = FirstStage(force)]
<1>1. PICK m, p, t, f, g : l = [message |-> m, pc |-> p, todo |-> t, first |-> f, got |-> g]
    BY LaneTypes
<1>2. l.message = m /\ l.todo = t
    BY <1>1
<1>3. t \in Seq(Windows) /\ t # <<>> /\ Len(t) > 1 /\ m \in DOMAIN batch /\ Window(l) = t[1]
    BY <1>2, LaneTypes
<1>4. /\ Tail(t) \in Seq(Windows) /\ Len(Tail(t)) = Len(t) - 1
      /\ \A i \in 1 .. Len(Tail(t)) : Tail(t)[i] = t[i + 1]
    BY <1>3, HeadTailProperties
<1>5. Len(t) \in Nat
    BY <1>3, RangeOf
<1>6. Tail(t) # <<>>
    BY <1>3, <1>4, <1>5, EmptySeq
<1>7. x \in [message : {m}, pc : {FirstStage(force)}, todo : {Tail(t)}, first : {{}}, got : {<<>>}]
    BY <1>1
<1> HIDE DEF x
<1>8. x = [message |-> m, pc |-> FirstStage(force), todo |-> Tail(t), first |-> {}, got |-> <<>>]
    BY <1>7
<1>9. FirstStage(force) \in {"check", "page1"}
    BY DEF FirstStage
<1>10. x \in Lanes /\ AtRest(x) /\ x.message = l.message
    BY <1>2, <1>3, <1>4, <1>6, <1>8, <1>9 DEF Lanes, AtRest, LaneStages
<1>11. Range(t) = {t[1]} \cup Range(Tail(t))
    <2>1. ASSUME NEW w \in Range(t)
          PROVE  w \in {t[1]} \cup Range(Tail(t))
        <3>1. PICK i \in 1 .. Len(t) : t[i] = w
            BY <1>3, RangeOf
        <3>2. CASE i = 1
            BY <3>1, <3>2
        <3>3. CASE i # 1
            <4>1. i - 1 \in 1 .. Len(Tail(t)) /\ (i - 1) + 1 = i
                BY <3>1, <3>3, <1>4, <1>5
            <4>2. Tail(t)[i - 1] = w
                BY <4>1, <3>1, <1>4
            <4> DEFINE u == Tail(t)
            <4>3. u \in Seq(Windows) /\ i - 1 \in 1 .. Len(u) /\ u[i - 1] = w
                BY <4>1, <4>2, <1>4
            <4> HIDE DEF u
            <4>4. w \in Range(u)
                BY <4>3, RangeOf
            <4> QED BY <4>4 DEF u
        <3> QED BY <3>2, <3>3
    <2>2. ASSUME NEW w \in Range(Tail(t))
          PROVE  w \in Range(t)
        <3>1. PICK i \in 1 .. Len(Tail(t)) : Tail(t)[i] = w
            BY <1>4, RangeOf
        <3>2. i + 1 \in 1 .. Len(t) /\ t[i + 1] = w
            BY <3>1, <1>4, <1>5
        <3> QED BY <3>2, <1>3, RangeOf
    <2>3. t[1] \in Range(t)
        <3>1. 1 \in 1 .. Len(t)
            BY <1>3, <1>5
        <3> QED BY <3>1, <1>3, RangeOf
    <2> QED BY <2>1, <2>2, <2>3
<1>12. x.todo = Tail(t)
    BY <1>8
<1> QED BY <1>2, <1>3, <1>10, <1>11, <1>12 DEF x

LEMMA FinishIsQuiet ==
    ASSUME TypeOK, NEW l \in lanes, Finish(l)
    PROVE  Quiet
<1>1. UNCHANGED excused /\ lanes \subseteq Lanes
    BY DEF Finish, TypeOK
<1>2. CASE Len(l.todo) > 1
    <2> DEFINE x == [l EXCEPT !.todo = Tail(@), !.first = {}, !.got = <<>>,
                              !.pc = FirstStage(batch[l.message].message.force)]
    <2>1. x \in Lanes /\ AtRest(x)
        BY <1>2, NextWindow
    <2>2. lanes' = (lanes \ {l}) \cup {x} /\ UNCHANGED batch
        BY <1>2 DEF Finish
    <2> HIDE DEF x
    <2>3. lanes' \subseteq Lanes /\ \A y \in lanes' : y \in lanes \/ ~Fetching(y)
        BY <1>1, <2>1, <2>2 DEF AtRest, Fetching
    <2> QED BY <1>1, <2>2, <2>3, SameBatchIsQuiet DEF Quiet
<1>3. CASE ~(Len(l.todo) > 1) /\ Others(l) = {} /\ batch[l.message].state = "running"
    <2>1. lanes' = (lanes \ {l}) \cup NextLanes(l.message) /\ batch' = Settled(l.message, "acked")
        BY <1>3 DEF Finish
    <2> QED BY <1>1, <2>1, SettledIsQuiet DEF Quiet, TypeOK
<1>4. CASE ~(Len(l.todo) > 1) /\ ~(Others(l) = {} /\ batch[l.message].state = "running")
    <2>1. lanes' = lanes \ {l} /\ UNCHANGED batch
        BY <1>4 DEF Finish
    <2> QED BY <1>1, <2>1, SameBatchIsQuiet DEF Quiet
<1> QED BY <1>2, <1>3, <1>4

LEMMA EscapeIsQuiet ==
    ASSUME TypeOK, NEW l \in lanes, Escape(l)
    PROVE  Quiet
<1>1. lanes \subseteq Lanes /\ excused \subseteq Windows
    BY DEF TypeOK
<1>2. CASE batch[l.message].state # "running"
    <2>1. lanes' = lanes \ {l} /\ UNCHANGED <<batch, excused>>
        BY <1>2 DEF Escape
    <2> QED BY <1>1, <2>1, SameBatchIsQuiet DEF Quiet
<1>3. CASE batch[l.message].state = "running"
    <2>1. /\ lanes' = (lanes \ {l}) \cup NextLanes(l.message)
          /\ \/ batch' = Settled(l.message, "retried") /\ UNCHANGED excused
             \/ /\ batch' = Settled(l.message, "acked")
                /\ excused' = excused \cup UNION {Range(x.todo) : x \in Others(l) \cup {l}}
        BY <1>3 DEF Escape
    <2>2. \A x \in Others(l) \cup {l} : Range(x.todo) \subseteq Windows
        BY LaneTypes DEF Others
    <2>3. excused \subseteq excused' /\ excused' \subseteq Windows
        BY <1>1, <2>1, <2>2
    <2> QED BY <2>1, <2>3, SettledIsQuiet DEF Quiet
<1> QED BY <1>2, <1>3

-----------------------------------------------------------------------------
(* Calls of the store                                                      *)

\* What no call takes away: rows and watermarks stay, and error runs.
Grows(s, t) == s.rows \subseteq t.rows /\ s.marks \subseteq t.marks /\ s.errors \subseteq t.errors

LEMMA CountRange ==
    /\ Cardinality(Records) \in Nat /\ CountCap \in Nat /\ NoCount \in Int
    /\ \A rs \in SUBSET Records : IsFiniteSet(rs) /\ Cardinality(rs) \in NoCount .. CountCap
<1>1. IsFiniteSet(Records)
    BY StoreAssumption
<1>2. Cardinality(Records) \in Nat
    BY <1>1, FS_CardinalityType
<1>3. ASSUME NEW rs \in SUBSET Records
      PROVE  IsFiniteSet(rs) /\ Cardinality(rs) \in NoCount .. CountCap
    <2>1. IsFiniteSet(rs) /\ Cardinality(rs) \in Nat /\ Cardinality(rs) <= Cardinality(Records)
        BY <1>1, FS_Subset, FS_CardinalityType
    <2> QED BY <1>2, <2>1 DEF NoCount, CountCap
<1> QED BY <1>2, <1>3 DEF NoCount, CountCap

LEMMA StoreParts ==
    ASSUME NEW s \in StoreStates
    PROVE  /\ s = [rows |-> s.rows, marks |-> s.marks, errors |-> s.errors, count |-> s.count,
                   dirty |-> s.dirty, stats |-> s.stats]
           /\ s.rows \subseteq Records /\ s.marks \subseteq Windows /\ s.errors \subseteq Windows
           /\ s.count \in NoCount .. CountCap /\ s.dirty \in BOOLEAN /\ s.stats \subseteq Records
BY DEF StoreStates

LEMMA UpsertedStore ==
    ASSUME NEW s \in StoreStates, NEW rs \in SUBSET Records
    PROVE  LET t == Upserted(s, rs)
           IN  /\ t \in StoreStates /\ t.rows = s.rows \cup rs /\ t.marks = s.marks
               /\ t.errors = s.errors /\ t.dirty = s.dirty /\ t.stats = s.stats
BY StoreParts DEF Upserted, StoreStates

LEMMA BumpedStore ==
    ASSUME NEW s \in StoreStates, NEW n \in Nat
    PROVE  LET t == Bumped(s, n)
           IN  /\ t \in StoreStates /\ t.rows = s.rows /\ t.marks = s.marks
               /\ t.errors = s.errors /\ t.dirty = s.dirty /\ t.stats = s.stats
<1> DEFINE current == IF s.count = NoCount THEN 0 ELSE s.count
           count == IF current + n > CountCap THEN CountCap ELSE current + n
<1>1. count \in NoCount .. CountCap
    <2>1. s.count \in NoCount .. CountCap
        BY StoreParts
    <2> QED BY <2>1, CountRange DEF NoCount
<1>2. Bumped(s, n) = s \/ Bumped(s, n) = [s EXCEPT !.count = count]
    BY DEF Bumped
<1> HIDE DEF count
<1>3. CASE Bumped(s, n) = s
    BY <1>3
<1>4. CASE Bumped(s, n) = [s EXCEPT !.count = count]
    BY <1>1, <1>4, StoreParts DEF StoreStates
<1> QED BY <1>2, <1>3, <1>4

LEMMA RecordedStore ==
    ASSUME NEW s \in StoreStates, NEW w \in Windows
    PROVE  /\ LET t == Watermarked(s, w)
              IN  /\ t \in StoreStates /\ t.rows = s.rows /\ t.marks = s.marks \cup {w}
                  /\ t.errors = s.errors /\ t.dirty = s.dirty /\ t.stats = s.stats
           /\ LET t == FailureRecorded(s, w)
              IN  /\ t \in StoreStates /\ t.rows = s.rows /\ t.marks = s.marks
                  /\ t.errors = s.errors \cup {w} /\ t.dirty = s.dirty /\ t.stats = s.stats
BY StoreParts DEF Watermarked, FailureRecorded, StoreStates

LEMMA DerivedStore ==
    ASSUME NEW s \in StoreStates
    PROVE  /\ LET t == Recomputed(s)
              IN  /\ t \in StoreStates /\ t.rows = s.rows /\ t.marks = s.marks
                  /\ t.errors = s.errors /\ t.dirty = s.dirty /\ t.stats = s.rows
           /\ LET t == MarkedDirty(s)
              IN  /\ t \in StoreStates /\ t.rows = s.rows /\ t.marks = s.marks
                  /\ t.errors = s.errors /\ t.dirty = TRUE /\ t.stats = s.stats
           /\ LET t == Flushed(s)
              IN  /\ t \in StoreStates /\ t.rows = s.rows /\ t.marks = s.marks
                  /\ t.errors = s.errors /\ (s.dirty => t.stats = s.rows) /\ (~s.dirty => t = s)
<1>1. LET t == Recomputed(s)
      IN  /\ t \in StoreStates /\ t.rows = s.rows /\ t.marks = s.marks
          /\ t.errors = s.errors /\ t.dirty = s.dirty /\ t.stats = s.rows
    BY StoreParts DEF Recomputed, StoreStates
<1>2. LET t == MarkedDirty(s)
      IN  /\ t \in StoreStates /\ t.rows = s.rows /\ t.marks = s.marks
          /\ t.errors = s.errors /\ t.dirty = TRUE /\ t.stats = s.stats
    BY StoreParts DEF MarkedDirty, StoreStates
<1>3. CASE s.dirty
    <2> DEFINE r == Recomputed(s)
    <2>1. Flushed(s) = [r EXCEPT !.dirty = FALSE]
        BY <1>3 DEF Flushed
    <2>2. /\ r \in StoreStates /\ r.rows = s.rows /\ r.marks = s.marks
          /\ r.errors = s.errors /\ r.stats = s.rows
        BY <1>1
    <2> HIDE DEF r
    <2>3. [r EXCEPT !.dirty = FALSE] \in StoreStates
        BY <2>2 DEF StoreStates
    <2>4. LET t == [r EXCEPT !.dirty = FALSE]
          IN  t.rows = r.rows /\ t.marks = r.marks /\ t.errors = r.errors /\ t.stats = r.stats
        BY <2>2, StoreParts
    <2> QED BY <1>1, <1>2, <1>3, <2>1, <2>2, <2>3, <2>4
<1>4. CASE ~s.dirty
    BY <1>1, <1>2, <1>4 DEF Flushed
<1> QED BY <1>3, <1>4

LEMMA IngestedStore ==
    ASSUME NEW s \in StoreStates, NEW fetched \in Seq(Records), NEW runType
    PROVE  LET t == Ingested(s, fetched, runType)
           IN  /\ t \in StoreStates /\ t.rows = s.rows \cup Range(fetched) /\ t.marks = s.marks
               /\ t.errors = s.errors
               /\ runType = "backfill" => t.dirty = TRUE /\ t.stats = s.stats
               /\ runType # "backfill" => t.dirty = s.dirty /\ t.stats = t.rows
<1> DEFINE u == Upserted(s, Range(fetched))
           b == Bumped(u, Len(fetched))
<1>1. Range(fetched) \in SUBSET Records /\ Len(fetched) \in Nat
    BY RangeOf
<1>2. /\ u \in StoreStates /\ u.rows = s.rows \cup Range(fetched) /\ u.marks = s.marks
      /\ u.errors = s.errors /\ u.dirty = s.dirty /\ u.stats = s.stats
    BY <1>1, UpsertedStore
<1> HIDE DEF u
<1>3. /\ b \in StoreStates /\ b.rows = u.rows /\ b.marks = u.marks
      /\ b.errors = u.errors /\ b.dirty = u.dirty /\ b.stats = u.stats
    BY <1>1, <1>2, BumpedStore
<1>4. Ingested(s, fetched, runType) =
          IF runType = "backfill" THEN MarkedDirty(b) ELSE Recomputed(b)
    BY DEF Ingested, u
<1> HIDE DEF b
<1> DEFINE t == Ingested(s, fetched, runType)
<1>5. CASE runType = "backfill"
    <2>1. t = MarkedDirty(b)
        BY <1>4, <1>5
    <2> HIDE DEF t
    <2>2. /\ t \in StoreStates /\ t.rows = b.rows /\ t.marks = b.marks
          /\ t.errors = b.errors /\ t.dirty = TRUE /\ t.stats = b.stats
        BY <1>3, <2>1, DerivedStore
    <2> QED BY <1>2, <1>3, <1>5, <2>2 DEF t
<1>6. CASE runType # "backfill"
    <2>1. t = Recomputed(b)
        BY <1>4, <1>6
    <2> HIDE DEF t
    <2>2. /\ t \in StoreStates /\ t.rows = b.rows /\ t.marks = b.marks
          /\ t.errors = b.errors /\ t.dirty = b.dirty /\ t.stats = b.rows
        BY <1>3, <2>1, DerivedStore
    <2> QED BY <1>2, <1>3, <1>6, <2>2 DEF t
<1> QED BY <1>5, <1>6

\* A call that ends well has stored what was fetched, and marked the window.
StoredAll(s, w, fetched, runType, t) ==
    /\ t \in StoreStates /\ t.rows = s.rows \cup Range(fetched)
    /\ t.marks = s.marks \cup {w} /\ t.errors = s.errors
    /\ runType = "backfill" => t.dirty = TRUE /\ t.stats = s.stats
    /\ runType # "backfill" => t.dirty = s.dirty /\ t.stats = t.rows

LEMMA AppliedStore ==
    ASSUME NEW s \in StoreStates, NEW w \in Windows, NEW fetched \in Seq(Records), NEW runType
    PROVE  StoredAll(s, w, fetched, runType, AppliedWindow(s, w, fetched, runType))
<1> DEFINE t == AppliedWindow(s, w, fetched, runType)
<1> DEFINE i == Ingested(s, fetched, runType)
<1>1. /\ i \in StoreStates /\ i.rows = s.rows \cup Range(fetched) /\ i.marks = s.marks
      /\ i.errors = s.errors
      /\ runType = "backfill" => i.dirty = TRUE /\ i.stats = s.stats
      /\ runType # "backfill" => i.dirty = s.dirty /\ i.stats = i.rows
    BY IngestedStore
<1>2. t = Watermarked(i, w)
    BY DEF AppliedWindow
<1> HIDE DEF i, t
<1>3. /\ t \in StoreStates /\ t.rows = i.rows /\ t.marks = i.marks \cup {w}
      /\ t.errors = i.errors /\ t.dirty = i.dirty /\ t.stats = i.stats
    BY <1>1, <1>2, RecordedStore
<1>4. StoredAll(s, w, fetched, runType, t)
    BY <1>1, <1>3 DEF StoredAll
<1> QED BY <1>4 DEF t

\* A call that throws halfway has stored some of what was fetched, all of it when it has
\* marked the window, and leaves an error run.
LEMMA TornStore ==
    ASSUME NEW s \in StoreStates, NEW w \in Windows, NEW fetched \in Seq(Records), NEW runType,
           NEW t \in TornWindow(s, w, fetched, runType)
    PROVE  /\ t \in StoreStates
           /\ s.rows \subseteq t.rows /\ t.rows \subseteq s.rows \cup Range(fetched)
           /\ s.marks \subseteq t.marks /\ t.marks \subseteq s.marks \cup {w}
           /\ t.errors = s.errors \cup {w}
           /\ w \in t.marks => w \in s.marks \/ t.rows = s.rows \cup Range(fetched)
           /\ s.dirty => t.dirty
           /\ t.stats = s.stats \/ t.stats = t.rows
<1> DEFINE Part(n) == Upserted(s, {fetched[k] : k \in 1 .. n})
           u == Upserted(s, Range(fetched))
           b == Bumped(u, Len(fetched))
           i == Ingested(s, fetched, runType)
           m == Watermarked(i, w)
           Half(x) == /\ x \in StoreStates
                      /\ s.rows \subseteq x.rows /\ x.rows \subseteq s.rows \cup Range(fetched)
                      /\ s.marks \subseteq x.marks /\ x.marks \subseteq s.marks \cup {w}
                      /\ x.errors = s.errors
                      /\ w \in x.marks => w \in s.marks \/ x.rows = s.rows \cup Range(fetched)
                      /\ s.dirty => x.dirty
                      /\ x.stats = s.stats \/ x.stats = x.rows
<1>1. /\ Range(fetched) \in SUBSET Records /\ Len(fetched) \in Nat
      /\ \A k \in 1 .. Len(fetched) : fetched[k] \in Range(fetched)
    BY RangeOf
<1>2. PICK x : /\ x \in {Part(n) : n \in 0 .. Len(fetched)} \cup {b, i, m}
               /\ t = FailureRecorded(x, w)
    BY DEF TornWindow
<1>3. ASSUME NEW n \in 0 .. Len(fetched)
      PROVE  Half(Part(n))
    <2> DEFINE rs == {fetched[k] : k \in 1 .. n}
    <2>1. rs \subseteq Range(fetched)
        BY <1>1
    <2>2. rs \in SUBSET Records /\ Part(n) = Upserted(s, rs)
        BY <1>1, <2>1
    <2> HIDE DEF rs, Part
    <2> QED BY <2>1, <2>2, UpsertedStore
<1>4. /\ u \in StoreStates /\ u.rows = s.rows \cup Range(fetched) /\ u.marks = s.marks
      /\ u.errors = s.errors /\ u.dirty = s.dirty /\ u.stats = s.stats
    BY <1>1, UpsertedStore
<1>5. Half(b)
    <2> HIDE DEF u
    <2>1. /\ b \in StoreStates /\ b.rows = u.rows /\ b.marks = u.marks
          /\ b.errors = u.errors /\ b.dirty = u.dirty /\ b.stats = u.stats
        BY <1>1, <1>4, BumpedStore
    <2> HIDE DEF b
    <2> QED BY <1>4, <2>1
<1>6. /\ i \in StoreStates /\ i.rows = s.rows \cup Range(fetched) /\ i.marks = s.marks
      /\ i.errors = s.errors
      /\ (s.dirty => i.dirty) /\ (i.stats = s.stats \/ i.stats = i.rows)
    BY IngestedStore
<1> HIDE DEF i
<1>7. Half(i)
    BY <1>6
<1>8. Half(m)
    BY <1>6, RecordedStore
<1>9. Half(x)
    <2> HIDE DEF Half, Part, b, m
    <2> QED BY <1>2, <1>3, <1>5, <1>7, <1>8
<1> HIDE DEF Part, b, m
<1>10. /\ t \in StoreStates /\ t.rows = x.rows /\ t.marks = x.marks
       /\ t.errors = x.errors \cup {w} /\ t.dirty = x.dirty /\ t.stats = x.stats
    BY <1>2, <1>9, RecordedStore
<1> QED BY <1>9, <1>10

-----------------------------------------------------------------------------
(* What HCC lists                                                          *)

LEMMA Listing ==
    ASSUME NEW rs \in SUBSET Records
    PROVE  /\ InOrder(rs) \in Seq(Records) /\ Range(InOrder(rs)) = rs
           /\ DOMAIN InOrder(rs) = 1 .. Cardinality(rs) /\ Len(InOrder(rs)) = Cardinality(rs)
           /\ Cardinality(rs) \in Nat /\ IsFiniteSet(rs)
           /\ \A r \in rs : /\ NumberRank(rs, r) \in Nat
                            /\ NumberRank(rs, r) < Cardinality(rs)
                            /\ InOrder(rs)[NumberRank(rs, r) + 1] = r
<1>1. rs \subseteq Nat /\ IsFiniteSet(rs)
    BY StoreAssumption, FS_Subset
<1>2. /\ InOrder(rs) \in Seq(rs) /\ Range(InOrder(rs)) = rs
      /\ DOMAIN InOrder(rs) = 1 .. Cardinality(rs) /\ Cardinality(rs) \in Nat
    BY <1>1, InOrderLists
<1>3. InOrder(rs) \in Seq(Records)
    <2> DEFINE s == InOrder(rs)
    <2>1. s \in Seq(rs)
        BY <1>2
    <2> HIDE DEF s
    <2>2. Len(s) \in Nat /\ s \in [1 .. Len(s) -> rs]
        BY <2>1, LenProperties
    <2>3. s \in Seq(Records)
        BY <2>2
    <2> QED BY <2>3 DEF s
<1>4. Len(InOrder(rs)) = Cardinality(rs)
    <2>1. Len(InOrder(rs)) \in Nat /\ DOMAIN InOrder(rs) = 1 .. Len(InOrder(rs))
        BY <1>2, RangeOf
    <2> QED BY <2>1, <1>2
<1>5. /\ \A r \in rs : NumberRank(rs, r) \in Nat /\ NumberRank(rs, r) < Cardinality(rs)
      /\ \A k \in Nat : k < Cardinality(rs) => \E r \in rs : NumberRank(rs, r) = k
      /\ \A q, r \in rs : q < r => NumberRank(rs, q) < NumberRank(rs, r)
    BY <1>1, NumberRanks
<1>6. ASSUME NEW r \in rs
      PROVE  InOrder(rs)[NumberRank(rs, r) + 1] = r
    <2> DEFINE k == NumberRank(rs, r)
    <2>1. k \in Nat /\ k + 1 \in 1 .. Cardinality(rs) /\ (k + 1) - 1 = k
        BY <1>2, <1>5
    <2>2. InOrder(rs)[k + 1] = CHOOSE q \in rs : NumberRank(rs, q) = k
        BY <2>1 DEF InOrder
    <2>3. ASSUME NEW q \in rs, NumberRank(rs, q) = k
          PROVE  q = r
        <3>1. q \in Nat /\ r \in Nat
            BY <1>1
        <3>2. ~(q < r) /\ ~(r < q)
            BY <1>5, <2>1, <2>3
        <3> QED BY <3>1, <3>2
    <2> QED BY <2>2, <2>3
<1> QED BY <1>1, <1>2, <1>3, <1>4, <1>5, <1>6

\* A record only moves back in the listing when others come.
LEMMA RecordsMoveBack ==
    ASSUME NEW rs \in SUBSET Records, NEW more \in SUBSET Records, rs \subseteq more, NEW r
    PROVE  NumberRank(rs, r) <= NumberRank(more, r)
<1> DEFINE a == {q \in rs : q < r}
           b == {q \in more : q < r}
<1>1. a \subseteq b /\ b \subseteq Records /\ IsFiniteSet(Records)
    BY StoreAssumption
<1> HIDE DEF a, b
<1>2. IsFiniteSet(b) /\ Cardinality(a) <= Cardinality(b)
    BY <1>1, FS_Subset
<1> QED BY <1>2 DEF a, b, NumberRank

LEMMA WindowOfRecords ==
    ASSUME NEW rs, NEW more, rs \subseteq more, NEW w
    PROVE  /\ InWindow(rs, w) \subseteq rs /\ InWindow(rs, w) \subseteq InWindow(more, w)
BY DEF InWindow

\* The first page has the records of the lowest ranks.
LEMMA FirstPage ==
    ASSUME NEW rs \in SUBSET Records
    PROVE  LET page == Page(InOrder(rs), 1)
           IN  /\ page \in Seq(Records) /\ Range(page) \subseteq rs
               /\ \A r \in rs : NumberRank(rs, r) < PageSize => r \in Range(page)
<1> DEFINE s == InOrder(rs)
           n == IF PageSize < Len(s) THEN PageSize ELSE Len(s)
           page == SubSeq(s, 0 + 1, n)
<1>1. /\ s \in Seq(Records) /\ Range(s) = rs /\ Len(s) = Cardinality(rs) /\ Cardinality(rs) \in Nat
      /\ \A r \in rs : /\ NumberRank(rs, r) \in Nat /\ NumberRank(rs, r) < Cardinality(rs)
                       /\ s[NumberRank(rs, r) + 1] = r
    BY Listing
<1>2. PageSize \in Nat \ {0}
    BY BackfillAssumption
<1>3. 1 * PageSize = PageSize /\ (1 - 1) * PageSize + 1 = 0 + 1
    BY <1>2
<1>4. Page(s, 1) = page
    BY <1>3 DEF Page
<1> HIDE DEF s
<1>5. n \in Nat /\ n <= Len(s) /\ 0 <= n
    BY <1>1, <1>2
<1>6. /\ page \in Seq(Records) /\ Len(page) = n - 0
      /\ \A k \in 1 .. n - 0 : page[k] = s[0 + k]
    <2> HIDE DEF n
    <2> QED BY <1>1, <1>5, PartOf
<1> HIDE DEF page
<1>7. Len(page) = n /\ \A k \in 1 .. n : page[k] = s[k]
    <2> HIDE DEF n
    <2> QED BY <1>5, <1>6
<1>8. ASSUME NEW x \in Range(page)
      PROVE  x \in rs
    <2>1. PICK k \in 1 .. Len(page) : page[k] = x
        BY <1>6, RangeOf
    <2>2. k \in 1 .. Len(s) /\ s[k] = x
        BY <2>1, <1>1, <1>5, <1>7
    <2> QED BY <2>2, <1>1, RangeOf
<1>9. ASSUME NEW r \in rs, NumberRank(rs, r) < PageSize
      PROVE  r \in Range(page)
    <2> DEFINE k == NumberRank(rs, r) + 1
    <2>1. k \in 1 .. n /\ s[k] = r
        BY <1>1, <1>2, <1>9
    <2> HIDE DEF k, n
    <2>2. page[k] = r /\ k \in 1 .. Len(page)
        BY <2>1, <1>7
    <2> QED BY <2>2, <1>6, RangeOf
<1> QED BY <1>4, <1>6, <1>8, <1>9 DEF s

LEMMA PageCounts ==
    ASSUME NEW rs \in SUBSET Records
    PROVE  /\ PageCount(rs) \in Nat
           /\ PageCount(rs) * PageSize < Cardinality(rs) + PageSize
           /\ PageCount(rs) <= 1 => Cardinality(rs) <= PageSize
<1>1. Cardinality(rs) \in Nat /\ PageSize \in Nat \ {0}
    BY Listing, BackfillAssumption
<1> DEFINE n == PageCount(rs)
<1>2. /\ n \in Nat /\ Cardinality(rs) <= n * PageSize
      /\ n * PageSize < Cardinality(rs) + PageSize
    BY <1>1, Groups DEF PageCount
<1>3. n <= 1 => n * PageSize <= PageSize
    <2> HIDE DEF n
    <2>1. n <= 1 => n * PageSize <= 1 * PageSize
        BY <1>1, <1>2, Products
    <2> QED BY <2>1, <1>1
<1>4. n * PageSize \in Nat
    <2> HIDE DEF n
    <2> QED BY <1>1, <1>2, Products
<1> DEFINE p == n * PageSize
<1> HIDE DEF n
<1>5. p \in Nat /\ Cardinality(rs) <= p /\ (n <= 1 => p <= PageSize)
    BY <1>2, <1>3, <1>4
<1> HIDE DEF p
<1>6. n <= 1 => Cardinality(rs) <= PageSize
    BY <1>1, <1>5
<1> QED BY <1>2, <1>6 DEF n

\* A page that is not full is the end of the listing.
LEMMA ShortPage ==
    ASSUME NEW s \in Seq(Records), NEW count \in Nat \ {0},
           count * PageSize < Len(s) + PageSize + 1, ~IsFullPage(Page(s, count))
    PROVE  Len(s) < count * PageSize
<1>1. Len(s) \in Nat /\ PageSize \in Nat \ {0}
    BY RangeOf, BackfillAssumption
<1> DEFINE a == (count - 1) * PageSize
           n == IF a + PageSize < Len(s) THEN a + PageSize ELSE Len(s)
<1>2. count * PageSize = a + PageSize
    BY <1>1
<1>3. a \in Nat
    <2>1. count - 1 \in Nat
        OBVIOUS
    <2> QED BY <1>1, <2>1, Products
<1>4. Page(s, count) = SubSeq(s, a + 1, n)
    BY <1>2 DEF Page
<1> SUFFICES ASSUME a + PageSize <= Len(s) PROVE FALSE
    <2> HIDE DEF a
    <2> QED BY <1>1, <1>2, <1>3
<1> HIDE DEF a
<1>5. n = a + PageSize /\ n \in Nat /\ a <= n /\ n <= Len(s) /\ n - a = PageSize
    BY <1>1, <1>3
<1> HIDE DEF n
<1> DEFINE page == SubSeq(s, a + 1, n)
<1>6. page \in Seq(Records) /\ Len(page) = n - a
    <2>1. a \in Nat /\ n \in Nat /\ a <= n /\ n <= Len(s)
        BY <1>3, <1>5
    <2> QED BY <2>1, PartOf
<1>7. page = Page(s, count)
    BY <1>4
<1> HIDE DEF page
<1>8. Len(Page(s, count)) = PageSize
    BY <1>5, <1>6, <1>7
<1> QED BY <1>1, <1>8 DEF IsFullPage

LEMMA LaterPagesOf ==
    ASSUME NEW rs \in SUBSET Records, NEW count \in Nat
    PROVE  LET rest == LaterPages(InOrder(rs), count)
           IN  /\ rest \in Seq(Records) /\ Range(rest) \subseteq rs
               /\ \A r \in rs : PageSize <= NumberRank(rs, r) /\ NumberRank(rs, r) < count * PageSize
                                   => r \in Range(rest)
<1> DEFINE s == InOrder(rs)
           last == count * PageSize
           n == IF last < Len(s) THEN last ELSE Len(s)
           rest == SubSeq(s, PageSize + 1, n)
<1>1. /\ s \in Seq(Records) /\ Range(s) = rs /\ Len(s) = Cardinality(rs) /\ Cardinality(rs) \in Nat
      /\ \A r \in rs : /\ NumberRank(rs, r) \in Nat /\ NumberRank(rs, r) < Cardinality(rs)
                       /\ s[NumberRank(rs, r) + 1] = r
    BY Listing
<1>2. PageSize \in Nat \ {0} /\ last \in Nat
    BY BackfillAssumption, Products
<1>3. LaterPages(s, count) = rest
    BY DEF LaterPages
<1> HIDE DEF s, last
<1>4. n \in Nat /\ n <= Len(s)
    BY <1>1, <1>2
<1>5. \A i \in 1 .. Len(s) : s[i] \in rs /\ s[i] \in Records
    BY <1>1, RangeOf
<1>6. /\ rest \in Seq(Records)
      /\ Len(rest) = IF PageSize + 1 <= n THEN n - (PageSize + 1) + 1 ELSE 0
      /\ \A k \in 1 .. n - (PageSize + 1) + 1 : rest[k] = s[PageSize + 1 + k - 1]
    <2>1. \A i \in PageSize + 1 .. n : i \in 1 .. Len(s)
        BY <1>1, <1>2, <1>4
    <2>2. \A i \in PageSize + 1 .. n : s[i] \in Records
        BY <1>5, <2>1
    <2> HIDE DEF n
    <2> QED BY <2>2, <1>2, <1>4, SubSeqProperties
<1> HIDE DEF rest
<1>7. ASSUME NEW x \in Range(rest)
      PROVE  x \in rs
    <2>1. PICK k \in 1 .. Len(rest) : rest[k] = x
        BY <1>6, RangeOf
    <2> HIDE DEF n
    <2>2. k \in 1 .. n - (PageSize + 1) + 1 /\ PageSize + 1 + k - 1 \in 1 .. Len(s)
        BY <2>1, <1>1, <1>2, <1>4, <1>6
    <2>3. s[PageSize + 1 + k - 1] = x
        BY <2>1, <2>2, <1>6
    <2> QED BY <2>2, <2>3, <1>5
<1>8. ASSUME NEW r \in rs, PageSize <= NumberRank(rs, r), NumberRank(rs, r) < last
      PROVE  r \in Range(rest)
    <2> DEFINE k == NumberRank(rs, r)
    <2>1. k \in Nat /\ k < Len(s) /\ s[k + 1] = r /\ PageSize <= k /\ k < last
        BY <1>1, <1>8
    <2> HIDE DEF k
    <2>2. k < n
        BY <2>1, <1>1, <1>2
    <2> HIDE DEF n
    <2> DEFINE j == k - PageSize + 1
    <2>3. j \in 1 .. n - (PageSize + 1) + 1 /\ PageSize + 1 + j - 1 = k + 1
          /\ j \in 1 .. (IF PageSize + 1 <= n THEN n - (PageSize + 1) + 1 ELSE 0)
        BY <2>1, <2>2, <1>2, <1>4
    <2> HIDE DEF j
    <2>4. j \in 1 .. Len(rest) /\ rest[j] = r
        BY <2>1, <2>3, <1>6
    <2> QED BY <2>4, <1>6, RangeOf
<1> QED BY <1>3, <1>6, <1>7, <1>8 DEF s, last

\* What the pages show together is all that the window had when the first was read.
LEMMA AllPages ==
    ASSUME NEW first \in SUBSET Records, NEW now \in SUBSET Records, first \subseteq now,
           PageCount(first) > 1,
           ~IsFullPage(Page(InOrder(now), PageCount(first)))
    PROVE  first \subseteq Range(Page(InOrder(first), 1))
                           \cup Range(LaterPages(InOrder(now), PageCount(first)))
<1> DEFINE count == PageCount(first)
           s == InOrder(now)
           last == count * PageSize
<1>1. /\ s \in Seq(Records) /\ Len(s) = Cardinality(now) /\ Cardinality(now) \in Nat
      /\ \A r \in now : NumberRank(now, r) \in Nat /\ NumberRank(now, r) < Cardinality(now)
    BY Listing
<1>2. /\ Cardinality(first) \in Nat /\ PageSize \in Nat \ {0}
      /\ \A r \in first : NumberRank(first, r) \in Nat
    BY Listing, BackfillAssumption
<1>3. count \in Nat \ {0} /\ last < Cardinality(first) + PageSize /\ last \in Nat
    BY <1>2, PageCounts, Products
<1>4. Cardinality(first) <= Cardinality(now)
    BY Listing, FS_Subset
<1>5. Len(s) < last
    <2> HIDE DEF s, count, last
    <2>1. last < Len(s) + PageSize + 1
        BY <1>1, <1>2, <1>3, <1>4
    <2>2. ~IsFullPage(Page(s, count))
        BY DEF s, count
    <2> QED BY <2>1, <2>2, <1>1, <1>3, ShortPage DEF last
<1> HIDE DEF s, count, last
<1> SUFFICES ASSUME NEW r \in first
             PROVE  r \in Range(Page(InOrder(first), 1)) \/ r \in Range(LaterPages(s, count))
    BY DEF s, count
<1>6. CASE NumberRank(first, r) < PageSize
    BY <1>6, FirstPage
<1>7. CASE ~(NumberRank(first, r) < PageSize)
    <2>1. NumberRank(first, r) <= NumberRank(now, r)
        BY RecordsMoveBack
    <2>2. NumberRank(now, r) < last /\ PageSize <= NumberRank(now, r) /\ r \in now
        BY <1>1, <1>2, <1>3, <1>5, <1>7, <2>1
    <2> QED BY <2>2, <1>3, LaterPagesOf DEF s, last
<1> QED BY <1>6, <1>7

-----------------------------------------------------------------------------
(* Fetching a window                                                       *)

\* What a worker has fetched of its window, when HCC shows rs: between the pages, the first
\* page of what it showed at first; before the call of the store, all of that, and
\* nothing from elsewhere. A window that is split has several days.
FetchedFrom(x, rs) ==
    /\ x.pc = "rest" =>
          /\ x.first \subseteq InWindow(rs, Window(x))
          /\ x.got = Page(InOrder(x.first), 1)
          /\ PageCount(x.first) > 1
    /\ x.pc = "split" => Window(x)[1] # Window(x)[2]
    /\ x.pc = "apply" =>
          /\ x.first \subseteq Range(x.got)
          /\ Range(x.got) \subseteq InWindow(Records, Window(x))

LEMMA NothingFetched ==
    ASSUME NEW x, ~Fetching(x), NEW rs
    PROVE  FetchedFrom(x, rs)
BY DEF Fetching, FetchedFrom

LEMMA AfterFetchStages ==
    ASSUME NEW w \in Windows, NEW page
    PROVE  /\ AfterFetch(w, page) \in {"apply", "split", "report"}
           /\ AfterFetch(w, page) = "apply" <=> ~IsFullPage(page)
           /\ AfterFetch(w, page) = "split" => w[1] # w[2]
<1>1. CASE ~IsFullPage(page)
    BY <1>1 DEF AfterFetch
<1>2. CASE IsFullPage(page) /\ w[1] # w[2]
    BY <1>2 DEF AfterFetch
<1>3. CASE IsFullPage(page) /\ w[1] = w[2]
    BY <1>3 DEF AfterFetch
<1> QED BY <1>1, <1>2, <1>3

OneMoved(l, stage, first, got) ==
    \E x \in Lanes : /\ lanes' = (lanes \ {l}) \cup {x}
                     /\ x.pc = stage /\ x.first = first /\ x.got = got
                     /\ x.todo = l.todo /\ x.message = l.message
                     /\ Window(x) = Window(l)

LEMMA MovedIsTyped ==
    ASSUME TypeOK, NEW l \in lanes, NEW stage \in LaneStages,
           NEW first \in SUBSET Records, NEW got \in Seq(Records),
           Moved(l, stage, first, got)
    PROVE  OneMoved(l, stage, first, got)
<1> DEFINE x == Turned(l, stage, first, got)
<1>1. /\ x = [message |-> l.message, pc |-> stage, todo |-> l.todo, first |-> first, got |-> got]
      /\ x \in Lanes /\ Window(x) = Window(l)
    BY MovedLane
<1>2. lanes' = (lanes \ {l}) \cup {x}
    BY DEF Moved, Turned
<1> HIDE DEF x
<1>3. x.pc = stage /\ x.first = first /\ x.got = got /\ x.todo = l.todo /\ x.message = l.message
    BY <1>1
<1> QED BY <1>1, <1>2, <1>3 DEF OneMoved

LEMMA FetchedLane ==
    ASSUME TypeOK, NEW l \in lanes, NEW stage \in {"apply", "split", "report"},
           NEW first \in SUBSET Records, NEW got \in Seq(Records),
           Fetched(l, stage, first, got),
           stage = "apply" => /\ first \subseteq Range(got)
                              /\ Range(got) \subseteq InWindow(Records, Window(l)),
           stage = "split" => Window(l)[1] # Window(l)[2]
    PROVE  \E x \in Lanes : /\ lanes' = (lanes \ {l}) \cup {x}
                            /\ x.todo = l.todo /\ x.message = l.message /\ x.pc = stage
                            /\ FetchedFrom(x, published)
<1>1. CASE stage = "apply"
    <2>1. Moved(l, stage, first, got) /\ stage \in LaneStages
        BY <1>1 DEF Fetched, LaneStages
    <2>2. OneMoved(l, stage, first, got)
        BY <2>1, MovedIsTyped
    <2>3. PICK x \in Lanes : /\ lanes' = (lanes \ {l}) \cup {x}
                             /\ x.pc = stage /\ x.first = first /\ x.got = got
                             /\ x.todo = l.todo /\ x.message = l.message
                             /\ Window(x) = Window(l)
        BY <2>2 DEF OneMoved
    <2> QED BY <1>1, <2>3 DEF FetchedFrom
<1>2. CASE stage # "apply"
    <2>1. Moved(l, stage, {}, <<>>) /\ stage \in LaneStages
          /\ {} \in SUBSET Records /\ <<>> \in Seq(Records)
        BY <1>2 DEF Fetched, LaneStages
    <2>2. OneMoved(l, stage, {}, <<>>)
        BY <2>1, MovedIsTyped
    <2>3. PICK x \in Lanes : /\ lanes' = (lanes \ {l}) \cup {x}
                             /\ x.pc = stage /\ x.todo = l.todo /\ x.message = l.message
        BY <2>2 DEF OneMoved
    <2>4. Window(x) = Window(l)
        BY <2>3 DEF Window
    <2> QED BY <1>2, <2>3, <2>4 DEF FetchedFrom
<1> QED BY <1>1, <1>2

\* The steps of a fetch, where HCC answers.
FirstAnswer(l) ==
    /\ l.pc = "page1"
    /\ \E first \in {InWindow(published, Window(l))} :
       \E page \in {Page(InOrder(first), 1)} :
           IF PageCount(first) <= 1
           THEN Fetched(l, AfterFetch(Window(l), page), first, page)
           ELSE Moved(l, "rest", first, page)

RestAnswer(l) ==
    /\ l.pc = "rest"
    /\ \E listing \in {InOrder(InWindow(published, Window(l)))} :
       LET count == PageCount(l.first)
       IN  Fetched(l, AfterFetch(Window(l), Page(listing, count)), l.first,
                   l.got \o LaterPages(listing, count))

LEMMA FirstAnswerFetches ==
    ASSUME TypeOK, NEW l \in lanes, FirstAnswer(l)
    PROVE  \E x \in Lanes : /\ lanes' = (lanes \ {l}) \cup {x}
                            /\ x.todo = l.todo /\ x.message = l.message
                            /\ FetchedFrom(x, published)
<1> DEFINE first == InWindow(published, Window(l))
           page == Page(InOrder(first), 1)
           stage == AfterFetch(Window(l), page)
<1>1. Window(l) \in Windows
    BY LaneTypes
<1>2. first \in SUBSET Records /\ first \subseteq InWindow(Records, Window(l))
    BY WindowOfRecords DEF TypeOK
<1>3. IF PageCount(first) <= 1 THEN Fetched(l, stage, first, page)
                               ELSE Moved(l, "rest", first, page)
    BY DEF FirstAnswer
<1> HIDE DEF first
<1>4. /\ page \in Seq(Records) /\ Range(page) \subseteq first
      /\ \A r \in first : NumberRank(first, r) < PageSize => r \in Range(page)
    BY <1>2, FirstPage
<1> HIDE DEF page
<1>5. stage \in {"apply", "split", "report"} /\ (stage = "split" => Window(l)[1] # Window(l)[2])
    BY <1>1, AfterFetchStages
<1> HIDE DEF stage
<1>6. CASE PageCount(first) <= 1
    <2>1. Cardinality(first) <= PageSize
        BY <1>2, <1>6, PageCounts
    <2>2. \A r \in first : NumberRank(first, r) < PageSize
        <3>1. \A r \in first : NumberRank(first, r) \in Nat /\ NumberRank(first, r) < Cardinality(first)
            BY <1>2, Listing
        <3>2. Cardinality(first) \in Nat /\ PageSize \in Nat
            BY <1>2, Listing, BackfillAssumption
        <3> QED BY <2>1, <3>1, <3>2
    <2>3. first \subseteq Range(page) /\ Range(page) \subseteq InWindow(Records, Window(l))
        BY <1>2, <1>4, <2>2
    <2>4. Fetched(l, stage, first, page)
        BY <1>3, <1>6
    <2>5. PICK x \in Lanes : /\ lanes' = (lanes \ {l}) \cup {x}
                             /\ x.todo = l.todo /\ x.message = l.message /\ x.pc = stage
                             /\ FetchedFrom(x, published)
        BY <1>2, <1>4, <1>5, <2>3, <2>4, FetchedLane
    <2> QED BY <2>5
<1>7. CASE ~(PageCount(first) <= 1)
    <2>1. Moved(l, "rest", first, page) /\ "rest" \in LaneStages
        BY <1>3, <1>7 DEF LaneStages
    <2>2. PageCount(first) > 1
        BY <1>2, <1>7, PageCounts
    <2>3. PICK x \in Lanes : /\ lanes' = (lanes \ {l}) \cup {x}
                             /\ x.pc = "rest" /\ x.first = first /\ x.got = page
                             /\ x.todo = l.todo /\ x.message = l.message
                             /\ Window(x) = Window(l)
        BY <1>2, <1>4, <2>1, MovedIsTyped DEF OneMoved
    <2>4. FetchedFrom(x, published)
        BY <2>2, <2>3 DEF FetchedFrom, first, page
    <2> QED BY <2>3, <2>4
<1> QED BY <1>6, <1>7

LEMMA RestAnswerFetches ==
    ASSUME TypeOK, NEW l \in lanes, FetchedFrom(l, published), RestAnswer(l)
    PROVE  \E x \in Lanes : /\ lanes' = (lanes \ {l}) \cup {x}
                            /\ x.todo = l.todo /\ x.message = l.message
                            /\ FetchedFrom(x, published)
<1> DEFINE now == InWindow(published, Window(l))
           count == PageCount(l.first)
           later == LaterPages(InOrder(now), count)
           got == l.got \o later
           page == Page(InOrder(now), count)
           stage == AfterFetch(Window(l), page)
<1>1. Window(l) \in Windows /\ l.first \in SUBSET Records /\ l.got \in Seq(Records)
    BY LaneTypes
<1>2. now \in SUBSET Records /\ now \subseteq InWindow(Records, Window(l))
    BY WindowOfRecords DEF TypeOK
<1>3. l.first \subseteq now /\ l.got = Page(InOrder(l.first), 1) /\ count > 1
    BY DEF RestAnswer, FetchedFrom
<1>4. Fetched(l, stage, l.first, got)
    BY DEF RestAnswer
<1> HIDE DEF now
<1>5. count \in Nat
    BY <1>1, PageCounts
<1>6. Range(l.got) \subseteq l.first
    BY <1>1, <1>3, FirstPage
<1>7. later \in Seq(Records) /\ Range(later) \subseteq now
    BY <1>2, <1>5, LaterPagesOf
<1>8. got \in Seq(Records) /\ Range(got) = Range(l.got) \cup Range(later)
    BY <1>1, <1>7, JoinedLines
<1>9. stage \in {"apply", "split", "report"} /\ (stage = "split" => Window(l)[1] # Window(l)[2])
      /\ (stage = "apply" => ~IsFullPage(page))
    BY <1>1, AfterFetchStages
<1>10. ASSUME stage = "apply"
       PROVE  l.first \subseteq Range(got) /\ Range(got) \subseteq InWindow(Records, Window(l))
    <2>1. l.first \subseteq Range(l.got) \cup Range(later)
        <3>1. ~IsFullPage(page)
            BY <1>9, <1>10
        <3>2. l.first \subseteq Range(Page(InOrder(l.first), 1))
                               \cup Range(LaterPages(InOrder(now), PageCount(l.first)))
            BY <3>1, <1>1, <1>2, <1>3, AllPages
        <3> QED BY <3>2, <1>3
    <2> HIDE DEF got, later
    <2> QED BY <2>1, <1>2, <1>3, <1>6, <1>7, <1>8
<1> HIDE DEF got, stage
<1>11. PICK x \in Lanes : /\ lanes' = (lanes \ {l}) \cup {x}
                          /\ x.todo = l.todo /\ x.message = l.message /\ x.pc = stage
                          /\ FetchedFrom(x, published)
    BY <1>1, <1>4, <1>8, <1>9, <1>10, FetchedLane
<1> QED BY <1>11

-----------------------------------------------------------------------------
(* The statistics                                                          *)

\* LagIsMarked, of any state of the store.
LagOf(s) ==
    \A r \in s.rows \ s.stats :
        s.dirty \/ \E w \in s.errors : w[1] <= DayOf[r] /\ DayOf[r] <= w[2]

\* What every call of the store keeps.
Kept(s, t) == t \in StoreStates /\ Grows(s, t) /\ (LagOf(s) => LagOf(t))

LEMMA KeptByApplied ==
    ASSUME NEW s \in StoreStates, NEW w \in Windows, NEW fetched \in Seq(Records), NEW runType
    PROVE  Kept(s, AppliedWindow(s, w, fetched, runType))
<1> DEFINE t == AppliedWindow(s, w, fetched, runType)
<1>1. StoredAll(s, w, fetched, runType, t)
    BY AppliedStore
<1> HIDE DEF t
<1>2. LagOf(t)
    BY <1>1 DEF LagOf, StoredAll
<1>3. Kept(s, t)
    BY <1>1, <1>2 DEF Kept, Grows, StoredAll
<1> QED BY <1>3 DEF t

LEMMA KeptByTorn ==
    ASSUME NEW s \in StoreStates, NEW w \in Windows, NEW fetched \in Seq(Records), NEW runType,
           Range(fetched) \subseteq InWindow(Records, w),
           NEW t \in TornWindow(s, w, fetched, runType)
    PROVE  Kept(s, t)
<1>1. /\ t \in StoreStates
      /\ s.rows \subseteq t.rows /\ t.rows \subseteq s.rows \cup Range(fetched)
      /\ s.marks \subseteq t.marks /\ t.errors = s.errors \cup {w}
      /\ s.dirty => t.dirty
      /\ t.stats = s.stats \/ t.stats = t.rows
    BY TornStore
<1>2. ASSUME LagOf(s), NEW r \in t.rows \ t.stats
      PROVE  t.dirty \/ \E v \in t.errors : v[1] <= DayOf[r] /\ DayOf[r] <= v[2]
    <2>1. CASE r \in Range(fetched)
        <3>1. w[1] <= DayOf[r] /\ DayOf[r] <= w[2]
            BY <2>1 DEF InWindow
        <3> QED BY <3>1, <1>1
    <2>2. CASE r \notin Range(fetched)
        <3>1. r \in s.rows \ s.stats
            BY <2>2, <1>1, <1>2
        <3> QED BY <3>1, <1>1, <1>2 DEF LagOf
    <2> QED BY <2>1, <2>2
<1> QED BY <1>1, <1>2 DEF Kept, Grows, LagOf

LEMMA KeptByOthers ==
    ASSUME NEW s \in StoreStates
    PROVE  /\ Kept(s, s) /\ Kept(s, Flushed(s))
           /\ \A w \in Windows : Kept(s, FailureRecorded(s, w))
<1>1. Kept(s, s)
    BY DEF Kept, Grows
<1>2. Kept(s, Flushed(s))
    <2> DEFINE t == Flushed(s)
    <2>1. /\ t \in StoreStates /\ t.rows = s.rows /\ t.marks = s.marks
          /\ t.errors = s.errors /\ (s.dirty => t.stats = s.rows) /\ (~s.dirty => t = s)
        BY DerivedStore
    <2> HIDE DEF t
    <2>2. Kept(s, t)
        BY <2>1 DEF Kept, Grows, LagOf
    <2> QED BY <2>2 DEF t
<1>3. ASSUME NEW w \in Windows
      PROVE  Kept(s, FailureRecorded(s, w))
    <2> DEFINE t == FailureRecorded(s, w)
    <2>1. /\ t \in StoreStates /\ t.rows = s.rows /\ t.marks = s.marks
          /\ t.errors = s.errors \cup {w} /\ t.dirty = s.dirty /\ t.stats = s.stats
        BY RecordedStore
    <2> HIDE DEF t
    <2>2. Kept(s, t)
        BY <2>1 DEF Kept, Grows, LagOf
    <2> QED BY <2>2 DEF t
<1> QED BY <1>1, <1>2, <1>3

-----------------------------------------------------------------------------
(* The inductive invariant of the ingestion                                *)

FetchInv == \A x \in lanes : FetchedFrom(x, published)

\* What HCC showed for a watermark is stored, even where no watermark is.
RowsShown == \A w \in Windows : shown[w] \subseteq store.rows

IngestInv == TypeOK /\ FetchInv /\ RowsShown /\ LagOf(store)

\* What the steps of the workers keep of the messages and of each other.
Steady ==
    /\ batch' \in Seq(Entries) /\ Len(batch') <= BatchSize /\ SameMessages
    /\ lanes' \subseteq Lanes
    /\ \A x \in lanes' : x \in lanes \/ FetchedFrom(x, published)
    /\ excused \subseteq excused' /\ excused' \subseteq Windows

LEMMA QuietIsSteady ==
    ASSUME Quiet
    PROVE  Steady
BY NothingFetched DEF Quiet, Steady

QueueOK(q) == DOMAIN q \subseteq Messages /\ IsQueue(q)

LEMMA SentQueue ==
    ASSUME QueueOK(queue), NEW messages \in Seq(Messages)
    PROVE  /\ QueueOK(Sent(messages))
           /\ DOMAIN Sent(messages) = DOMAIN queue \cup Range(messages)
           /\ \A q \in PartlySent(messages) :
                 /\ QueueOK(q) /\ DOMAIN queue \subseteq DOMAIN q
                 /\ DOMAIN q \subseteq DOMAIN queue \cup Range(messages)
<1>1. Range(messages) \subseteq Messages /\ IsFiniteSet(DOMAIN messages)
    <2>1. Len(messages) \in Nat /\ DOMAIN messages = 1 .. Len(messages)
        BY RangeOf
    <2>2. Range(messages) \subseteq Messages
        BY RangeOf
    <2>3. IsFiniteSet(1 .. Len(messages))
        BY <2>1, FS_Interval
    <2> QED BY <2>1, <2>2, <2>3
<1>2. DOMAIN BagOf(messages) = Range(messages) /\ IsQueue(BagOf(messages))
    BY <1>1, BagOfListed
<1>3. DOMAIN Sent(messages) = DOMAIN queue \cup Range(messages) /\ IsQueue(Sent(messages))
    BY <1>2, SumOfQueues DEF Sent, QueueOK
<1>4. ASSUME NEW q \in PartlySent(messages)
      PROVE  /\ QueueOK(q) /\ DOMAIN queue \subseteq DOMAIN q
             /\ DOMAIN q \subseteq DOMAIN queue \cup Range(messages)
    <2>1. PICK part \in SUBSET Range(messages) : q = queue (+) SetToBag(part)
        BY DEF PartlySent
    <2>2. DOMAIN SetToBag(part) = part /\ IsQueue(SetToBag(part))
        BY BagOfSet
    <2>3. DOMAIN q = DOMAIN queue \cup part /\ IsQueue(q)
        BY <2>1, <2>2, SumOfQueues DEF QueueOK
    <2> QED BY <2>3, <1>1 DEF QueueOK
<1> QED BY <1>1, <1>3, <1>4 DEF QueueOK

\* A message that is delivered again is the same but for the count.
LEMMA AgainIsMessage ==
    ASSUME NEW m \in Messages, m.tries < MaxRetries
    PROVE  Again(m) \in Messages /\ Again(m).windows = m.windows
<1>1. m.tries \in 0 .. MaxRetries /\ MaxRetries \in Nat
    BY BackfillAssumption DEF Messages
<1>2. m.tries + 1 \in 0 .. MaxRetries
    BY <1>1
<1> QED BY <1>2 DEF Again, Messages

LEMMA RequeuedQueue ==
    ASSUME TypeOK, NEW is \in SUBSET DOMAIN batch
    PROVE  /\ QueueOK(Requeued(is)) /\ DOMAIN queue \subseteq DOMAIN Requeued(is)
           /\ \A i \in is : batch[i].message.tries < MaxRetries =>
                               Again(batch[i].message) \in DOMAIN Requeued(is)
           /\ \A m \in DOMAIN Requeued(is) :
                 m \in DOMAIN queue \/ \E i \in is : m.windows = batch[i].message.windows
           /\ Dropped(is) \subseteq Windows
<1> DEFINE js == {i \in is : batch[i].message.tries < MaxRetries}
           f == [i \in js |-> Again(batch[i].message)]
<1>1. js \subseteq DOMAIN batch /\ IsFiniteSet(DOMAIN f) /\ DOMAIN f = js
    BY BatchEntries, FS_Subset
<1>2. \A i \in js : /\ f[i] = Again(batch[i].message) /\ f[i] \in Messages
                     /\ f[i].windows = batch[i].message.windows
    BY BatchEntries, AgainIsMessage
<1>3. Range(f) \subseteq Messages /\ \A i \in js : f[i] \in Range(f)
    BY <1>1, <1>2 DEF Range
<1>4. Requeued(is) = queue (+) BagOf(f)
    BY DEF Requeued
<1> HIDE DEF f, js
<1>5. DOMAIN BagOf(f) = Range(f) /\ IsQueue(BagOf(f))
    BY <1>1, BagOfListed
<1>6. IsQueue(queue) /\ DOMAIN queue \subseteq Messages
    BY DEF TypeOK, IsQueue
<1>7. DOMAIN Requeued(is) = DOMAIN queue \cup Range(f) /\ IsQueue(Requeued(is))
    BY <1>4, <1>5, <1>6, SumOfQueues
<1>8. Dropped(is) \subseteq Windows
    <2>1. ASSUME NEW i \in DOMAIN batch
          PROVE  Range(batch[i].message.windows) \subseteq Windows
        <3>1. batch[i].message.windows \in Seq(Windows)
            BY BatchEntries DEF Messages
        <3> QED BY <3>1, RangeOf
    <2> QED BY <2>1 DEF Dropped
<1>9. ASSUME NEW m \in Range(f)
      PROVE  \E i \in is : m.windows = batch[i].message.windows
    <2>1. PICK i \in js : m = f[i]
        BY <1>1 DEF Range
    <2> QED BY <2>1, <1>2 DEF js
<1> QED BY <1>2, <1>3, <1>6, <1>7, <1>8, <1>9 DEF QueueOK, js

-----------------------------------------------------------------------------
(* The steps of the workers                                                *)

\* What HCC showed for the watermarks is still stored.
ShownOK == shown' \in [Windows -> SUBSET Records] /\ \A w \in Windows : shown'[w] \subseteq store'.rows

LaneEffect == Steady /\ QueueOK(queue') /\ Kept(store, store') /\ ShownOK

LEMMA SameShown ==
    ASSUME IngestInv, Kept(store, store'), UNCHANGED shown
    PROVE  ShownOK
BY DEF IngestInv, TypeOK, RowsShown, Kept, Grows, ShownOK

LEMMA QueueIsOK ==
    ASSUME TypeOK
    PROVE  QueueOK(queue) /\ (UNCHANGED queue => QueueOK(queue'))
BY DEF TypeOK, QueueOK, IsQueue

\* A step that changes nothing but its worker, and perhaps messages.
LEMMA SteadyAlone ==
    ASSUME IngestInv, Steady, UNCHANGED <<store, queue, shown>>
    PROVE  LaneEffect
<1>1. TypeOK /\ store \in StoreStates /\ store' = store
    BY DEF IngestInv, TypeOK
<1>2. Kept(store, store')
    BY <1>1, KeptByOthers
<1> QED BY <1>1, <1>2, SameShown, QueueIsOK DEF LaneEffect

LEMMA CheckEffect ==
    ASSUME IngestInv, NEW l \in lanes, Check(l)
    PROVE  LaneEffect
<1>1. TypeOK
    BY DEF IngestInv
<1>2. UNCHANGED <<store, queue, shown>> /\ (Finish(l) \/ GoTo(l, "page1") \/ GoTo(l, "rescue"))
    BY DEF Check
<1>3. Quiet
    BY <1>1, <1>2, FinishIsQuiet, GoToIsQuiet DEF LaneStages
<1> QED BY <1>2, <1>3, QuietIsSteady, SteadyAlone

LEMMA AnswerIsSteady ==
    ASSUME TypeOK, NEW l \in lanes, UNCHANGED <<batch, excused>>,
           NEW x \in Lanes, lanes' = (lanes \ {l}) \cup {x}, FetchedFrom(x, published)
    PROVE  Steady
<1>1. lanes' \subseteq Lanes /\ \A y \in lanes' : y \in lanes \/ FetchedFrom(y, published)
    BY DEF TypeOK
<1> QED BY <1>1, SameBatchIsQuiet DEF Steady

LEMMA FetchFirstEffect ==
    ASSUME IngestInv, NEW l \in lanes, FetchFirst(l)
    PROVE  LaneEffect
<1>1. TypeOK
    BY DEF IngestInv
<1>2. /\ UNCHANGED <<store, queue, shown>>
      /\ (FirstAnswer(l) /\ UNCHANGED <<batch, excused>>) \/ GoTo(l, "report")
    BY DEF FetchFirst, FirstAnswer
<1>3. CASE FirstAnswer(l) /\ UNCHANGED <<batch, excused>>
    <2>1. PICK x \in Lanes : lanes' = (lanes \ {l}) \cup {x} /\ FetchedFrom(x, published)
        BY <1>1, <1>3, FirstAnswerFetches
    <2>2. Steady
        BY <1>1, <1>3, <2>1, AnswerIsSteady
    <2> QED BY <1>2, <2>2, SteadyAlone
<1>4. CASE GoTo(l, "report")
    <2>1. Quiet
        BY <1>1, <1>4, GoToIsQuiet DEF LaneStages
    <2> QED BY <1>2, <2>1, QuietIsSteady, SteadyAlone
<1> QED BY <1>2, <1>3, <1>4

LEMMA FetchRestEffect ==
    ASSUME IngestInv, NEW l \in lanes, FetchRest(l)
    PROVE  LaneEffect
<1>1. TypeOK /\ FetchedFrom(l, published)
    BY DEF IngestInv, FetchInv
<1>2. /\ UNCHANGED <<store, queue, shown>>
      /\ (RestAnswer(l) /\ UNCHANGED <<batch, excused>>) \/ GoTo(l, "report")
    BY DEF FetchRest, RestAnswer
<1>3. CASE RestAnswer(l) /\ UNCHANGED <<batch, excused>>
    <2>1. PICK x \in Lanes : lanes' = (lanes \ {l}) \cup {x} /\ FetchedFrom(x, published)
        BY <1>1, <1>3, RestAnswerFetches
    <2>2. Steady
        BY <1>1, <1>3, <2>1, AnswerIsSteady
    <2> QED BY <1>2, <2>2, SteadyAlone
<1>4. CASE GoTo(l, "report")
    <2>1. Quiet
        BY <1>1, <1>4, GoToIsQuiet DEF LaneStages
    <2> QED BY <1>2, <2>1, QuietIsSteady, SteadyAlone
<1> QED BY <1>2, <1>3, <1>4

LEMMA SplitEffect ==
    ASSUME IngestInv, NEW l \in lanes, SplitWindow(l)
    PROVE  LaneEffect
<1> DEFINE messages == PackMessages(DaysToEnqueue(Window(l)), batch[l.message].message.force)
<1>1. TypeOK /\ QueueOK(queue)
    BY QueueIsOK DEF IngestInv
<1>2. messages \in Seq(Messages)
    <2>1. Window(l) \in Windows /\ batch[l.message].message \in Messages
        BY <1>1, LaneTypes, BatchEntries
    <2>2. DaysToEnqueue(Window(l)) \in Seq(Windows) /\ batch[l.message].message.force \in BOOLEAN
        BY <2>1, DaysOfWindow DEF DaysToEnqueue, Messages
    <2> QED BY <2>2, PackedMessages
<1>3. /\ UNCHANGED <<store, shown>>
      /\ \/ queue' = Sent(messages) /\ Finish(l)
         \/ queue' \in PartlySent(messages) /\ GoTo(l, "rescue")
    BY DEF SplitWindow
<1> HIDE DEF messages
<1>4. QueueOK(queue')
    BY <1>1, <1>2, <1>3, SentQueue
<1>5. Quiet
    BY <1>1, <1>3, FinishIsQuiet, GoToIsQuiet DEF LaneStages
<1>6. Kept(store, store')
    BY <1>1, <1>3, KeptByOthers DEF TypeOK
<1> QED BY <1>3, <1>4, <1>5, <1>6, QuietIsSteady, SameShown DEF LaneEffect

LEMMA ApplyEffect ==
    ASSUME IngestInv, NEW l \in lanes, ApplyWindow(l)
    PROVE  LaneEffect
<1> DEFINE w == Window(l)
           applied == AppliedWindow(store, w, l.got, "backfill")
           torn == TornWindow(store, w, l.got, "backfill")
<1>1. TypeOK /\ FetchedFrom(l, published) /\ l.pc = "apply" /\ store \in StoreStates
    BY DEF IngestInv, FetchInv, ApplyWindow, TypeOK
<1>2. /\ w \in Windows /\ l.got \in Seq(Records) /\ l.first \subseteq Records
      /\ l.first \subseteq Range(l.got) /\ Range(l.got) \subseteq InWindow(Records, w)
    BY <1>1, LaneTypes DEF FetchedFrom
<1>3. /\ UNCHANGED queue
      /\ \/ UNCHANGED faults /\ store' = applied /\ Finish(l)
         \/ store' \in {store, applied} \cup torn /\ GoTo(l, "rescue") /\ faults' = faults + 1
      /\ shown' = IF w \in store'.marks /\ (faults' = faults \/ w \notin store.marks)
                  THEN [shown EXCEPT ![w] = @ \cup l.first] ELSE shown
    BY DEF ApplyWindow, NoFault, Fault
<1>4. Quiet
    BY <1>1, <1>3, FinishIsQuiet, GoToIsQuiet DEF LaneStages
<1>5. QueueOK(queue')
    BY <1>1, <1>3, QueueIsOK
<1> HIDE DEF w
<1>6. StoredAll(store, w, l.got, "backfill", applied) /\ Kept(store, applied)
    BY <1>1, <1>2, AppliedStore, KeptByApplied
<1>7. \A t \in torn : /\ Kept(store, t)
                      /\ w \in t.marks =>
                            w \in store.marks \/ t.rows = store.rows \cup Range(l.got)
    BY <1>1, <1>2, KeptByTorn, TornStore
<1>8. Kept(store, store)
    BY <1>1, KeptByOthers
<1> HIDE DEF applied, torn
<1>9. Kept(store, store')
    BY <1>3, <1>6, <1>7, <1>8
<1>10. ASSUME w \in store'.marks, faults' = faults \/ w \notin store.marks
       PROVE  Range(l.got) \subseteq store'.rows
    <2>1. faults \in Nat
        BY <1>1, BackfillAssumption DEF TypeOK
    <2>2. store' = applied \/ (store' \in {store} \cup torn /\ w \notin store.marks)
        BY <1>3, <1>10, <2>1
    <2>3. CASE store' = applied
        BY <2>3, <1>6 DEF StoredAll
    <2>4. CASE store' \in {store} \cup torn /\ w \notin store.marks
        BY <2>4, <1>7, <1>10
    <2> QED BY <2>2, <2>3, <2>4
<1>11. ShownOK
    <2>1. /\ shown \in [Windows -> SUBSET Records] /\ store.rows \subseteq store'.rows
          /\ \A v \in Windows : shown[v] \subseteq store.rows
        BY <1>9 DEF IngestInv, TypeOK, RowsShown, Kept, Grows
    <2>2. CASE w \in store'.marks /\ (faults' = faults \/ w \notin store.marks)
        <3>1. shown' = [shown EXCEPT ![w] = @ \cup l.first]
            BY <2>2, <1>3
        <3>2. l.first \subseteq store'.rows
            BY <2>2, <1>2, <1>10
        <3> QED BY <3>1, <3>2, <2>1, <1>2 DEF ShownOK
    <2>3. CASE ~(w \in store'.marks /\ (faults' = faults \/ w \notin store.marks))
        <3>1. shown' = shown
            BY <2>3, <1>3
        <3> QED BY <3>1, <2>1 DEF ShownOK
    <2> QED BY <2>2, <2>3
<1> QED BY <1>4, <1>5, <1>9, <1>11, QuietIsSteady DEF LaneEffect

LEMMA ReportEffect ==
    ASSUME IngestInv, NEW l \in lanes, Report(l) \/ Rescue(l)
    PROVE  LaneEffect
<1>1. TypeOK /\ store \in StoreStates
    BY DEF IngestInv, TypeOK
<1>2. /\ UNCHANGED <<queue, shown>>
      /\ store' \in {store, FailureRecorded(store, Window(l))}
      /\ Finish(l) \/ GoTo(l, "rescue") \/ Escape(l)
    BY DEF Report, Rescue, Rescued
<1>3. Quiet
    BY <1>1, <1>2, FinishIsQuiet, GoToIsQuiet, EscapeIsQuiet DEF LaneStages
<1>4. Kept(store, store')
    BY <1>1, <1>2, KeptByOthers, LaneTypes
<1> QED BY <1>1, <1>2, <1>3, <1>4, QuietIsSteady, SameShown, QueueIsOK DEF LaneEffect

LEMMA LaneStepEffect ==
    ASSUME IngestInv, LaneSteps
    PROVE  LaneEffect
<1>1. PICK l \in lanes :
          \/ Check(l) \/ FetchFirst(l) \/ FetchRest(l) \/ SplitWindow(l)
          \/ ApplyWindow(l) \/ Report(l) \/ Rescue(l)
    BY DEF LaneSteps
<1> QED BY <1>1, CheckEffect, FetchFirstEffect, FetchRestEffect, SplitEffect, ApplyEffect,
           ReportEffect

-----------------------------------------------------------------------------
(* The steps of the script and of the queue                                *)

LEMMA HeadOfList ==
    ASSUME NEW S, NEW s \in Seq(S), NEW most \in Nat \ {0}
    PROVE  LET part == SubSeq(s, 1, IF Len(s) < most THEN Len(s) ELSE most)
           IN  /\ part \in Seq(S) /\ Len(part) \in Nat /\ Len(part) <= Len(s) /\ Len(part) <= most
               /\ \A i \in 1 .. Len(part) : part[i] = s[i]
               /\ Len(s) > Len(part) => Len(part) = most
<1> DEFINE n == IF Len(s) < most THEN Len(s) ELSE most
           part == SubSeq(s, 0 + 1, n)
<1>1. Len(s) \in Nat
    BY RangeOf
<1>2. n \in Nat /\ 0 <= n /\ n <= Len(s) /\ n <= most /\ (Len(s) > n => n = most)
    BY <1>1
<1> HIDE DEF n
<1>3. part \in Seq(S) /\ Len(part) = n - 0 /\ \A k \in 1 .. n - 0 : part[k] = s[0 + k]
    BY <1>2, PartOf
<1>4. 0 + 1 = 1 /\ part = SubSeq(s, 1, n)
    OBVIOUS
<1> HIDE DEF part
<1>5. Len(part) = n /\ \A k \in 1 .. n : part[k] = s[k]
    BY <1>2, <1>3
<1>6. /\ part \in Seq(S) /\ Len(part) \in Nat /\ Len(part) <= Len(s) /\ Len(part) <= most
      /\ \A i \in 1 .. Len(part) : part[i] = s[i]
      /\ Len(s) > Len(part) => Len(part) = most
    BY <1>2, <1>3, <1>5
<1> QED BY <1>4, <1>6 DEF n

LEMMA PlannedWave ==
    ASSUME TypeOK, PlanWave
    PROVE  wave' \in WaveStates /\ wave'.next \in 0 .. LastDay /\ wave'.pc = "sending"
<1>1. wave \in WaveStates /\ wave.pc \in {"idle", "post"} /\ wave.next \in Days
    <2>1. wave \in WaveStates /\ (wave.next = 0 => wave.pc = "sending") /\ wave.pc \in {"idle", "post"}
        BY DEF TypeOK, PlanWave
    <2>2. wave.next \in 0 .. LastDay /\ wave.next # 0 /\ LastDay \in Nat
        BY <2>1, StoreAssumption DEF WaveStates
    <2> QED BY <2>1, <2>2 DEF Days
<1>2. PICK force \in IF wave.pc = "idle" THEN Forces ELSE {wave.force} :
          LET chunks  == SplitDateRange(wave.next, LastDay, ChunkDays)
              pending == IF force THEN chunks ELSE FilterPendingChunks(store, chunks)
              planned == SubSeq(pending, 1,
                                IF Len(pending) < MaxEnqueuePerWave
                                THEN Len(pending) ELSE MaxEnqueuePerWave)
          IN  wave' = [pc |-> "sending", force |-> force, plan |-> planned, from |-> wave.next,
                       any |-> wave.any \/ planned # <<>>, base |-> 0,
                       alone |-> taken \subseteq store.marks,
                       next |-> IF Len(pending) > Len(planned)
                                THEN NextStart(Last(planned)) ELSE 0]
    BY DEF PlanWave
<1> DEFINE chunks  == SplitDateRange(wave.next, LastDay, ChunkDays)
           pending == IF force THEN chunks ELSE FilterPendingChunks(store, chunks)
           planned == SubSeq(pending, 1, IF Len(pending) < MaxEnqueuePerWave
                                         THEN Len(pending) ELSE MaxEnqueuePerWave)
           next == IF Len(pending) > Len(planned) THEN NextStart(Last(planned)) ELSE 0
<1>3. wave' = [pc |-> "sending", force |-> force, plan |-> planned, from |-> wave.next,
               any |-> wave.any \/ planned # <<>>, base |-> 0,
               alone |-> taken \subseteq store.marks, next |-> next]
    BY <1>2
<1>4. force \in BOOLEAN /\ wave.any \in BOOLEAN
    BY <1>1, BackfillAssumption DEF WaveStates
<1>5. LastDay \in Days /\ ChunkDays \in Nat \ {0} /\ wave.next <= LastDay
      /\ MaxEnqueuePerWave \in Nat \ {0} /\ LastDay \in Nat
    BY <1>1, StoreAssumption, BackfillAssumption DEF Days
<1>6. /\ chunks \in Seq(Windows)
      /\ \A i, j \in DOMAIN chunks : i < j => chunks[i][2] < chunks[j][1]
    BY <1>1, <1>5, Chunks
<1> HIDE DEF chunks
<1>7. /\ pending \in Seq(Windows)
      /\ \A i, j \in DOMAIN pending : i < j => pending[i][2] < pending[j][1]
    BY <1>6, PendingChunks
<1> HIDE DEF pending
<1>8. /\ planned \in Seq(Windows) /\ Len(planned) \in Nat /\ Len(planned) <= Len(pending)
      /\ \A i \in 1 .. Len(planned) : planned[i] = pending[i]
      /\ Len(pending) > Len(planned) => Len(planned) = MaxEnqueuePerWave
    BY <1>5, <1>7, HeadOfList
<1> HIDE DEF planned
<1>9. next \in 0 .. LastDay
    <2>1. CASE Len(pending) > Len(planned)
        <3> DEFINE k == Len(planned)
        <3>1. k \in Nat /\ k > 0 /\ Last(planned) = pending[k] /\ next = NextStart(pending[k])
            BY <2>1, <1>5, <1>8 DEF Last
        <3>2. Len(pending) \in Nat /\ DOMAIN pending = 1 .. Len(pending)
            BY <1>7, RangeOf
        <3>3. k \in DOMAIN pending /\ k + 1 \in DOMAIN pending /\ k < k + 1
            BY <3>1, <3>2, <2>1
        <3>4. pending[k][2] < pending[k + 1][1]
            BY <3>3, <1>7
        <3>5. pending[k] \in Windows /\ pending[k + 1] \in Windows
            BY <3>3, <3>2, <1>7, RangeOf
        <3>6. pending[k][2] \in 1 .. LastDay /\ pending[k + 1][1] \in 1 .. LastDay
            BY <3>5, WindowPairs DEF Days
        <3> HIDE DEF next
        <3> QED BY <3>1, <3>4, <3>6, <1>5 DEF NextStart
    <2>2. CASE ~(Len(pending) > Len(planned))
        BY <2>2, <1>5
    <2> QED BY <2>1, <2>2
<1> HIDE DEF next
<1>10. wave' \in WaveStates
    BY <1>1, <1>3, <1>4, <1>8, <1>9 DEF WaveStates
<1> QED BY <1>3, <1>9, <1>10

LEMMA NoWaveIsTyped == NoWave \in WaveStates /\ NoWave.next # 0
BY StoreAssumption DEF NoWave, WaveStates, Days

\* The script moves on.
LEMMA ScriptWave ==
    ASSUME TypeOK,
           SendWave \/ SendWaveFails \/ ReadBaseline \/ WaveDrained \/ WaveTimesOut
           \/ TrackerCompletes \/ TrackerPauses \/ ScriptFails
    PROVE  wave' \in WaveStates /\ (wave'.next = 0 => wave'.pc = "sending")
<1>1. wave \in WaveStates /\ (wave.next = 0 => wave.pc = "sending")
    BY DEF TypeOK
<1>2. CASE wave' = NoWave
    BY <1>2, NoWaveIsTyped
<1>3. CASE wave' # NoWave
    <2>1. CASE SendWave
        <3>1. \/ wave.next # 0 /\ wave' = [wave EXCEPT !.pc = "baseline"]
              \/ wave' = [NoWave EXCEPT !.pc = "track", !.from = wave.from]
            BY <2>1, <1>3 DEF SendWave
        <3>2. CASE wave.next # 0 /\ wave' = [wave EXCEPT !.pc = "baseline"]
            BY <3>2, <1>1 DEF WaveStates
        <3>3. CASE wave' = [NoWave EXCEPT !.pc = "track", !.from = wave.from]
            <4>1. wave.from \in Days
                BY <1>1 DEF WaveStates
            <4>2. NoWave \in WaveStates /\ NoWave.next # 0
                BY NoWaveIsTyped
            <4> QED BY <3>3, <4>1, <4>2 DEF WaveStates
        <3> QED BY <3>1, <3>2, <3>3
    <2>2. CASE ReadBaseline
        <3>1. wave' = [wave EXCEPT !.pc = "drain", !.base = Completed(1)] /\ wave.pc = "baseline"
            BY <2>2 DEF ReadBaseline
        <3>2. Completed(1) \in Nat
            <4> DEFINE S == {w \in store.marks :
                                1 <= w[1] /\ w[2] <= LastDay /\ (w[1] = w[2] <=> ChunkDays = 1)}
            <4>1. S \subseteq Windows
                BY DEF TypeOK, StoreStates
            <4>2. Completed(1) = Cardinality(S)
                BY DEF Completed, CountIngestWatermarksInRange
            <4> HIDE DEF S
            <4>3. IsFiniteSet(S)
                BY <4>1, WindowsFinite, FS_Subset
            <4> QED BY <4>2, <4>3, FS_CardinalityType
        <3> HIDE DEF Completed
        <3> QED BY <3>1, <3>2, <1>1 DEF WaveStates
    <2>3. CASE WaveDrained \/ WaveTimesOut
        <3>1. /\ wave' = [wave EXCEPT !.pc = "post", !.plan = <<>>, !.base = 0, !.alone = TRUE]
              /\ wave.pc = "drain"
            BY <2>3 DEF WaveDrained, WaveTimesOut
        <3>2. <<>> \in Seq(Windows) /\ 0 \in Nat
            OBVIOUS
        <3> QED BY <3>1, <3>2, <1>1 DEF WaveStates
    <2> QED BY <1>3, <2>1, <2>2, <2>3
            DEF SendWaveFails, TrackerCompletes, TrackerPauses, ScriptFails
<1> QED BY <1>2, <1>3

-----------------------------------------------------------------------------
(* The invariant is inductive                                              *)

BoundsOK == faults \in 0 .. MaxFaults /\ waves \in 0 .. MaxWaves /\ hours \in 0 .. MaxHourly

LEMMA Assembled ==
    ASSUME published' \subseteq Records, store' \in StoreStates, QueueOK(queue'),
           batch' \in Seq(Entries), Len(batch') <= BatchSize,
           lanes' \subseteq [message : DOMAIN batch', pc : LaneStages,
                             todo : Seq(Windows) \ {<<>>}, first : SUBSET Records,
                             got : Seq(Records)],
           wave' \in WaveStates, wave'.next = 0 => wave'.pc = "sending",
           ShownOK, taken' \subseteq Windows, excused' \subseteq Windows, BoundsOK',
           \A x \in lanes' : FetchedFrom(x, published'),
           LagOf(store')
    PROVE  IngestInv'
<1>1. TypeOK'
    BY DEF TypeOK, Lanes, QueueOK, IsQueue, ShownOK, BoundsOK
<1>2. FetchInv' /\ RowsShown'
    BY DEF FetchInv, RowsShown, ShownOK
<1> QED BY <1>1, <1>2 DEF IngestInv

LEMMA Parts ==
    ASSUME IngestInv
    PROVE  /\ TypeOK /\ published \subseteq Records /\ store \in StoreStates /\ QueueOK(queue)
           /\ batch \in Seq(Entries) /\ Len(batch) <= BatchSize
           /\ lanes \subseteq [message : DOMAIN batch, pc : LaneStages,
                               todo : Seq(Windows) \ {<<>>}, first : SUBSET Records,
                               got : Seq(Records)]
           /\ wave \in WaveStates /\ (wave.next = 0 => wave.pc = "sending")
           /\ taken \subseteq Windows /\ excused \subseteq Windows /\ BoundsOK
           /\ \A x \in lanes : FetchedFrom(x, published)
           /\ LagOf(store)
<1>1. TypeOK
    BY DEF IngestInv
<1>2. /\ published \subseteq Records /\ store \in StoreStates
      /\ batch \in Seq(Entries) /\ Len(batch) <= BatchSize
      /\ wave \in WaveStates /\ (wave.next = 0 => wave.pc = "sending")
      /\ taken \subseteq Windows /\ excused \subseteq Windows /\ BoundsOK
    BY <1>1 DEF TypeOK, BoundsOK
<1>3. lanes \subseteq [message : DOMAIN batch, pc : LaneStages,
                       todo : Seq(Windows) \ {<<>>}, first : SUBSET Records,
                       got : Seq(Records)]
    BY <1>1 DEF TypeOK, Lanes
<1>4. (\A x \in lanes : FetchedFrom(x, published)) /\ LagOf(store)
    BY DEF IngestInv, FetchInv
<1> QED BY <1>1, <1>2, <1>3, <1>4, QueueIsOK

LEMMA IngestInit ==
    ASSUME Init
    PROVE  IngestInv
<1>1. EmptyStore \in StoreStates /\ EmptyStore.rows = {}
    BY CountRange DEF EmptyStore, StoreStates, NoCount
<1>2. published \subseteq Records
    BY BackfillAssumption DEF Init
<1>3. DOMAIN queue \subseteq Messages /\ queue \in [DOMAIN queue -> Nat \ {0}]
    BY DEF Init, EmptyBag, SetToBag
<1>4. batch \in Seq(Entries) /\ Len(batch) <= BatchSize
    <2>1. batch = <<>>
        BY DEF Init
    <2> QED BY <2>1, EmptySeq, BackfillAssumption
<1>5. wave \in WaveStates /\ wave.next # 0
    BY NoWaveIsTyped DEF Init
<1>6. faults \in 0 .. MaxFaults /\ waves \in 0 .. MaxWaves /\ hours \in 0 .. MaxHourly
    BY BackfillAssumption DEF Init
<1>7. lanes = {} /\ store = EmptyStore /\ shown = [w \in Windows |-> {}] /\ taken = {} /\ excused = {}
    BY DEF Init
<1>8. TypeOK
    BY <1>1, <1>2, <1>3, <1>4, <1>5, <1>6, <1>7 DEF TypeOK
<1>9. FetchInv /\ RowsShown /\ LagOf(store)
    BY <1>1, <1>7 DEF FetchInv, RowsShown, LagOf
<1> QED BY <1>8, <1>9 DEF IngestInv

LEMMA DeliveredBatch ==
    ASSUME TypeOK, Deliver
    PROVE  /\ QueueOK(queue')
           /\ batch' \in Seq(Entries) /\ Len(batch') <= BatchSize
           /\ lanes' \subseteq [message : DOMAIN batch', pc : LaneStages,
                                todo : Seq(Windows) \ {<<>>}, first : SUBSET Records,
                                got : Seq(Records)]
           /\ \A x \in lanes' :
                 /\ AtRest(x)
                 /\ \E i \in DOMAIN batch' : Range(x.todo) \subseteq Range(batch'[i].message.windows)
           /\ DOMAIN queue' \subseteq DOMAIN queue
           /\ \A i \in DOMAIN batch' : batch'[i].message \in DOMAIN queue
           /\ \A m \in DOMAIN queue : m \in DOMAIN queue' \/ \E i \in DOMAIN batch' : batch'[i].message = m
           /\ \A i \in DOMAIN batch' :
                 /\ batch'[i].state \in {"waiting", "running"}
                 /\ batch'[i].state = "running" =>
                       \A w \in Range(batch'[i].message.windows) :
                          \E x \in lanes' : x.message = i /\ w \in Range(x.todo)
<1>1. PICK b \in Batches :
          /\ queue' = queue (-) BagOf(b)
          /\ batch' = [i \in DOMAIN b |->
                          [message |-> b[i],
                           state |-> IF i <= Workers(Len(b)) THEN "running" ELSE "waiting"]]
          /\ lanes' = UNION {LanesOf(i, b[i]) : i \in 1 .. Workers(Len(b))}
    BY DEF Deliver
<1>2. PICK n \in 1 .. BatchSize : b \in [1 .. n -> DOMAIN queue]
    BY <1>1 DEF Batches
<1>3. QueueOK(queue) /\ BatchSize \in Nat /\ n \in Nat
    BY QueueIsOK, BackfillAssumption
<1>4. /\ DOMAIN b = 1 .. n /\ Len(b) = n /\ IsFiniteSet(DOMAIN b)
      /\ \A i \in 1 .. n : b[i] \in DOMAIN queue /\ b[i] \in Messages
    <2>1. b \in Seq(DOMAIN queue)
        BY <1>2, <1>3
    <2>2. DOMAIN b = 1 .. n /\ Len(b) = n
        BY <1>2, <1>3, <2>1, LenProperties
    <2> QED BY <1>2, <1>3, <2>2, FS_Interval DEF QueueOK
<1>5. DOMAIN BagOf(b) = Range(b) /\ IsQueue(BagOf(b))
    BY <1>4, BagOfListed
<1>6. /\ DOMAIN queue' \subseteq DOMAIN queue
      /\ \A e \in DOMAIN queue : e \in Range(b) \/ e \in DOMAIN queue'
      /\ IsQueue(queue')
    <2>1. queue' = queue (-) BagOf(b)
        BY <1>1
    <2> QED BY <2>1, <1>3, <1>5, RestOfQueue DEF QueueOK
<1> DEFINE State(i) == IF i <= Workers(n) THEN "running" ELSE "waiting"
<1>7. batch' = [i \in 1 .. n |-> [message |-> b[i], state |-> State(i)]]
    BY <1>1, <1>4
<1>8. \A i \in 1 .. n : State(i) \in {"running", "waiting"} /\ (State(i) = "running" <=> i <= Workers(n))
    OBVIOUS
<1> HIDE DEF State
<1>9. /\ DOMAIN batch' = 1 .. n
      /\ \A i \in 1 .. n : /\ batch'[i] = [message |-> b[i], state |-> State(i)]
                           /\ batch'[i] \in Entries
    BY <1>4, <1>7, <1>8 DEF Entries
<1>10. batch' \in Seq(Entries) /\ Len(batch') = n
    <2>1. batch' = [i \in 1 .. n |-> batch'[i]]
        BY <1>7
    <2> QED BY <2>1, <1>3, <1>9
<1>11. Workers(n) \in Nat /\ Workers(n) <= n
    BY <1>3, SomeWorkers
<1>12. lanes' = UNION {LanesOf(i, b[i]) : i \in 1 .. Workers(n)}
    BY <1>1, <1>4
<1>13. ASSUME NEW x \in lanes'
       PROVE  /\ x \in [message : DOMAIN batch', pc : LaneStages, todo : Seq(Windows) \ {<<>>},
                        first : SUBSET Records, got : Seq(Records)]
              /\ AtRest(x)
              /\ \E i \in DOMAIN batch' : Range(x.todo) \subseteq Range(batch'[i].message.windows)
    <2>1. PICK i \in 1 .. Workers(n) : x \in LanesOf(i, b[i])
        BY <1>12
    <2>2. i \in 1 .. n
        BY <2>1, <1>3, <1>11
    <2>3. /\ x \in [message : {i}, pc : LaneStages, todo : Seq(Windows) \ {<<>>},
                    first : SUBSET Records, got : Seq(Records)]
          /\ AtRest(x) /\ Range(x.todo) \subseteq Range(b[i].windows)
        BY <2>1, <2>2, <1>4, LanesOfMessage
    <2>4. i \in DOMAIN batch' /\ batch'[i].message = b[i]
        BY <2>2, <1>9
    <2> QED BY <2>3, <2>4
<1>14. ASSUME NEW i \in 1 .. n, batch'[i].state = "running", NEW w \in Range(b[i].windows)
       PROVE  \E x \in lanes' : x.message = i /\ w \in Range(x.todo)
    <2>1. i \in 1 .. Workers(n)
        BY <1>8, <1>9, <1>11, <1>14
    <2>2. PICK x \in LanesOf(i, b[i]) : w \in Range(x.todo)
        BY <1>4, <1>14, LanesOfMessage
    <2>3. x.message = i
        BY <1>4, <2>2, LanesOfMessage
    <2> QED BY <2>1, <2>2, <2>3, <1>12
<1>15. \A i \in 1 .. n : batch'[i].message = b[i] /\ batch'[i].state = State(i)
    BY <1>9
<1>16. \A m \in DOMAIN queue : m \in DOMAIN queue' \/ \E i \in DOMAIN batch' : batch'[i].message = m
    <2>1. Range(b) = {b[i] : i \in 1 .. n}
        BY <1>4 DEF Range
    <2> QED BY <2>1, <1>6, <1>9, <1>15
<1>17. QueueOK(queue')
    BY <1>3, <1>6 DEF QueueOK
<1>18. \A i \in DOMAIN batch' :
          /\ batch'[i].state \in {"waiting", "running"}
          /\ batch'[i].state = "running" =>
                \A w \in Range(batch'[i].message.windows) :
                   \E x \in lanes' : x.message = i /\ w \in Range(x.todo)
    BY <1>8, <1>9, <1>14, <1>15
<1>19. DOMAIN queue' \subseteq DOMAIN queue /\ \A i \in DOMAIN batch' : batch'[i].message \in DOMAIN queue
    BY <1>4, <1>6, <1>9, <1>15
<1>20. lanes' \subseteq [message : DOMAIN batch', pc : LaneStages, todo : Seq(Windows) \ {<<>>},
                         first : SUBSET Records, got : Seq(Records)]
    BY <1>13
<1>21. \A x \in lanes' :
          /\ AtRest(x)
          /\ \E i \in DOMAIN batch' : Range(x.todo) \subseteq Range(batch'[i].message.windows)
    BY <1>13
<1>22. batch' \in Seq(Entries) /\ Len(batch') <= BatchSize
    BY <1>3, <1>10
<1> QED BY <1>16, <1>17, <1>18, <1>19, <1>20, <1>21, <1>22

LEMMA HourlyIsWindow == HourlyWindow \in Windows
<1>1. LastDay \in Nat \ {0} /\ HourlyOverlap \in Nat
    BY StoreAssumption, BackfillAssumption
<1> DEFINE first == IF LastDay - HourlyOverlap < 1 THEN 1 ELSE LastDay - HourlyOverlap
<1>2. first \in Days /\ LastDay \in Days /\ first <= LastDay
    BY <1>1 DEF Days
<1> QED BY <1>2, WindowPairs DEF HourlyWindow

\* A call of the store that is not the workers'.
LEMMA OtherCall ==
    ASSUME IngestInv, Kept(store, store'), UNCHANGED shown
    PROVE  store' \in StoreStates /\ LagOf(store') /\ ShownOK
BY Parts, SameShown DEF Kept

LEMMA SameStore ==
    ASSUME IngestInv, UNCHANGED <<store, shown>>
    PROVE  store' \in StoreStates /\ LagOf(store') /\ ShownOK
<1>1. Kept(store, store')
    BY Parts, KeptByOthers
<1> QED BY <1>1, OtherCall

LEMMA BoundsStay ==
    ASSUME IngestInv, NoFault \/ Fault, UNCHANGED <<waves, hours>>
    PROVE  BoundsOK'
<1>1. faults \in 0 .. MaxFaults /\ MaxFaults \in Nat /\ BoundsOK
    BY Parts, BackfillAssumption DEF BoundsOK
<1>2. faults' \in 0 .. MaxFaults
    BY <1>1 DEF NoFault, Fault
<1> QED BY <1>1, <1>2 DEF BoundsOK

\* The hourly sync is one call of the store, with records of its window.
LEMMA HourlyKeeps ==
    ASSUME IngestInv, HourlySync
    PROVE  Kept(store, store')
<1>1. PICK seen \in {Published0, published} :
          LET got     == InOrder(InWindow(seen, HourlyWindow))
              applied == AppliedWindow(store, HourlyWindow, got, "hourly")
          IN  \/ NoFault /\ store' = applied
              \/ Fault /\ store' \in {store, applied} \cup
                                     TornWindow(store, HourlyWindow, got, "hourly")
    BY DEF HourlySync
<1> DEFINE got == InOrder(InWindow(seen, HourlyWindow))
           applied == AppliedWindow(store, HourlyWindow, got, "hourly")
           torn == TornWindow(store, HourlyWindow, got, "hourly")
<1>2. store' \in {store, applied} \cup torn
    BY <1>1
<1>3. got \in Seq(Records) /\ Range(got) \subseteq InWindow(Records, HourlyWindow)
    <2>1. seen \subseteq Records
        BY Parts, BackfillAssumption
    <2>2. InWindow(seen, HourlyWindow) \in SUBSET Records
          /\ InWindow(seen, HourlyWindow) \subseteq InWindow(Records, HourlyWindow)
        BY <2>1, WindowOfRecords
    <2> QED BY <2>2, Listing
<1> HIDE DEF got
<1>4. Kept(store, store) /\ Kept(store, applied) /\ \A t \in torn : Kept(store, t)
    BY <1>3, Parts, HourlyIsWindow, KeptByOthers, KeptByApplied, KeptByTorn
<1> HIDE DEF applied, torn
<1> QED BY <1>2, <1>4

LEMMA IngestStep ==
    ASSUME IngestInv, [Next]_vars
    PROVE  IngestInv'
<1>1. CASE UNCHANGED vars
    <2>1. published' = published /\ UNCHANGED <<store, queue, batch, lanes, wave, faults, waves, hours, shown, taken, excused>>
        BY <1>1 DEF vars
    <2>2. ShownOK /\ QueueOK(queue') /\ BoundsOK' /\ LagOf(store')
        BY <2>1, SameStore, Parts, QueueIsOK DEF BoundsOK
    <2> QED BY <2>1, <2>2, Parts, Assembled
<1>2. CASE HccPublishes
    <2>1. /\ published' = Records
          /\ UNCHANGED <<store, queue, batch, lanes, wave, faults, waves, hours, shown, taken, excused>>
        BY <1>2 DEF HccPublishes
    <2>2. ShownOK /\ QueueOK(queue') /\ BoundsOK' /\ LagOf(store')
        BY <2>1, SameStore, Parts, QueueIsOK DEF BoundsOK
    <2>3. \A x \in lanes' : FetchedFrom(x, published')
        <3>1. published \subseteq Records
            BY Parts
        <3> QED BY <2>1, <3>1, Parts, WindowOfRecords DEF FetchedFrom
    <2> QED BY <2>1, <2>2, <2>3, Parts, Assembled
<1>3. CASE PlanWave
    <2>1. /\ UNCHANGED <<published, store, queue, batch, lanes, faults, hours, shown, taken, excused>>
          /\ waves < MaxWaves /\ waves' = waves + 1
        BY <1>3 DEF PlanWave
    <2>2. wave' \in WaveStates /\ wave'.pc = "sending"
        BY <1>3, Parts, PlannedWave
    <2>3. ShownOK /\ QueueOK(queue') /\ LagOf(store')
        BY <2>1, SameStore, Parts, QueueIsOK
    <2>4. BoundsOK'
        <3>1. BoundsOK /\ MaxWaves \in Nat
            BY Parts, BackfillAssumption
        <3> QED BY <2>1, <3>1 DEF BoundsOK
    <2> QED BY <2>1, <2>2, <2>3, <2>4, Parts, Assembled
<1>4. CASE SendWave \/ SendWaveFails
    <2>1. /\ UNCHANGED <<published, store, batch, lanes, waves, hours, shown, excused>>
          /\ NoFault \/ Fault
          /\ taken' = taken \/ taken' = taken \cup Range(wave.plan)
        BY <1>4 DEF SendWave, SendWaveFails
    <2>2. wave.plan \in Seq(Windows) /\ wave.force \in BOOLEAN
        BY Parts DEF WaveStates
    <2>3. QueueOK(queue')
        <3>1. PackMessages(wave.plan, wave.force) \in Seq(Messages)
            BY <2>2, PackedMessages
        <3> QED BY <3>1, <1>4, Parts, SentQueue DEF SendWave, SendWaveFails
    <2>4. taken' \subseteq Windows
        BY <2>1, <2>2, Parts, RangeOf
    <2>5. wave' \in WaveStates /\ (wave'.next = 0 => wave'.pc = "sending")
        BY <1>4, Parts, ScriptWave
    <2>6. ShownOK /\ LagOf(store') /\ BoundsOK'
        BY <2>1, SameStore, BoundsStay
    <2> QED BY <2>1, <2>3, <2>4, <2>5, <2>6, Parts, Assembled
<1>5. CASE ReadBaseline \/ WaveDrained \/ WaveTimesOut \/ TrackerCompletes \/ TrackerPauses
           \/ ScriptFails
    <2>1. ScriptOnly /\ (NoFault \/ Fault)
        BY <1>5 DEF ReadBaseline, WaveDrained, WaveTimesOut, TrackerCompletes, TrackerPauses, ScriptFails
    <2>2. UNCHANGED <<published, store, queue, batch, lanes, waves, hours, shown, taken, excused>>
        BY <2>1 DEF ScriptOnly
    <2>3. wave' \in WaveStates /\ (wave'.next = 0 => wave'.pc = "sending")
        BY <1>5, Parts, ScriptWave
    <2>4. ShownOK /\ QueueOK(queue') /\ LagOf(store') /\ BoundsOK'
        BY <2>1, <2>2, SameStore, BoundsStay, Parts, QueueIsOK
    <2> QED BY <2>2, <2>3, <2>4, Parts, Assembled
<1>6. CASE Deliver
    <2>1. UNCHANGED <<published, store, wave, faults, waves, hours, shown, taken, excused>>
        BY <1>6 DEF Deliver
    <2>2. /\ QueueOK(queue') /\ batch' \in Seq(Entries) /\ Len(batch') <= BatchSize
          /\ lanes' \subseteq [message : DOMAIN batch', pc : LaneStages,
                               todo : Seq(Windows) \ {<<>>}, first : SUBSET Records,
                               got : Seq(Records)]
          /\ \A x \in lanes' : AtRest(x)
        BY <1>6, Parts, DeliveredBatch
    <2>3. \A x \in lanes' : FetchedFrom(x, published')
        BY <2>2 DEF AtRest, FetchedFrom
    <2>4. ShownOK /\ LagOf(store') /\ BoundsOK'
        BY <2>1, SameStore, Parts DEF BoundsOK
    <2> QED BY <2>1, <2>2, <2>3, <2>4, Parts, Assembled
<1>7. CASE LaneSteps
    <2>1. LaneEffect /\ UNCHANGED <<published, wave, waves, hours, taken>>
        BY <1>7, LaneStepEffect DEF LaneSteps
    <2>2. NoFault \/ Fault
        BY <1>7 DEF LaneSteps, Check, FetchFirst, FetchRest, SplitWindow, ApplyWindow, Report, Rescue
    <2>3. BoundsOK'
        BY <2>1, <2>2, BoundsStay
    <2>4. store' \in StoreStates /\ LagOf(store') /\ ShownOK /\ QueueOK(queue')
        BY <2>1, Parts DEF LaneEffect, Kept
    <2>5. /\ batch' \in Seq(Entries) /\ Len(batch') <= BatchSize
          /\ DOMAIN batch' = DOMAIN batch /\ excused' \subseteq Windows
          /\ lanes' \subseteq Lanes
          /\ \A x \in lanes' : FetchedFrom(x, published)
        BY <2>1, Parts DEF LaneEffect, Steady, SameMessages
    <2>6. lanes' \subseteq [message : DOMAIN batch', pc : LaneStages,
                            todo : Seq(Windows) \ {<<>>}, first : SUBSET Records,
                            got : Seq(Records)]
        BY <2>5 DEF Lanes
    <2> QED BY <2>1, <2>3, <2>4, <2>5, <2>6, Parts, Assembled
<1>8. CASE EndBatch \/ InvocationDies
    <2>1. PICK is \in SUBSET DOMAIN batch : queue' = Requeued(is) /\ excused' = excused \cup Dropped(is)
        BY <1>8 DEF EndBatch, InvocationDies, RetriedMessages
    <2>2. /\ UNCHANGED <<published, wave, waves, hours, shown, taken>>
          /\ NoFault \/ Fault
          /\ batch' = <<>> /\ lanes' = {}
          /\ store' \in {store, Flushed(store)}
        BY <1>8 DEF EndBatch, InvocationDies
    <2>3. QueueOK(queue') /\ excused' \subseteq Windows
        BY <2>1, Parts, RequeuedQueue
    <2>4. batch' \in Seq(Entries) /\ Len(batch') <= BatchSize
        BY <2>2, EmptySeq, BackfillAssumption
    <2>5. store' \in StoreStates /\ LagOf(store') /\ ShownOK
        <3>1. Kept(store, store')
            BY <2>2, Parts, KeptByOthers
        <3> QED BY <3>1, <2>2, OtherCall
    <2>6. BoundsOK'
        BY <2>2, BoundsStay
    <2> QED BY <2>2, <2>3, <2>4, <2>5, <2>6, Parts, Assembled
<1>9. CASE HourlySync
    <2>1. /\ UNCHANGED <<published, queue, batch, lanes, wave, waves, shown, taken, excused>>
          /\ hours < MaxHourly /\ hours' = hours + 1
          /\ NoFault \/ Fault
        BY <1>9 DEF HourlySync
    <2>2. Kept(store, store')
        BY <1>9, HourlyKeeps
    <2>3. store' \in StoreStates /\ LagOf(store') /\ ShownOK
        BY <2>1, <2>2, OtherCall
    <2>4. BoundsOK'
        <3>1. BoundsOK /\ MaxHourly \in Nat /\ MaxFaults \in Nat
            BY Parts, BackfillAssumption
        <3> QED BY <2>1, <3>1 DEF BoundsOK, NoFault, Fault
    <2>5. QueueOK(queue')
        BY <2>1, Parts, QueueIsOK
    <2> QED BY <2>1, <2>3, <2>4, <2>5, Parts, Assembled
<1> QED BY <1>1, <1>2, <1>3, <1>4, <1>5, <1>6, <1>7, <1>8, <1>9 DEF Next

-----------------------------------------------------------------------------
(* What the ingestion never does                                           *)

\* IngestInv holds in every state of the pipeline.
THEOREM IngestInvariant == Spec => []IngestInv
<1>1. Init => IngestInv
    BY IngestInit
<1>2. IngestInv /\ [Next]_vars => IngestInv'
    BY IngestStep
<1> QED BY <1>1, <1>2, PTL DEF Spec

\* A window that has a watermark is stored: every record that HCC showed in it when its
\* fetch began (processBackfillMessage, syncWindow), for every split into pages, and
\* whatever is published between them.
THEOREM WatermarksAreComplete == Spec => []WatermarkIsComplete
<1>1. IngestInv => WatermarkIsComplete
    BY DEF IngestInv, TypeOK, StoreStates, RowsShown, WatermarkIsComplete
<1> QED BY <1>1, IngestInvariant, PTL

\* Rows that the statistics do not reflect yet are flagged for the next flush, or lie in a
\* window with an error run (applySyncWindow, flushBackfillDerivedState).
THEOREM LagIsAlwaysMarked == Spec => []LagIsMarked
<1>1. IngestInv => LagIsMarked
    BY DEF IngestInv, LagOf, LagIsMarked
<1> QED BY <1>1, IngestInvariant, PTL

-----------------------------------------------------------------------------
(* No window disappears                                                    *)

Resolved(w) == w \in store.marks \cup store.errors \cup excused

\* A window that was split, of which every day is closed.
SplitUp(w) == w[1] # w[2] /\ \A d \in w[1] .. w[2] : Closed(<<d, d>>)

\* A worker of message i has the window before it.
InLane(i, w) == \E l \in lanes : l.message = i /\ w \in Range(l.todo)

\* A message under way has no window that nobody knows of: a window is done or a worker of
\* the message has it before it. When its last worker acknowledges it, all are done.
Accounted ==
    \A i \in DOMAIN batch : batch[i].state = "running" =>
        \A w \in Range(batch[i].message.windows) : Resolved(w) \/ SplitUp(w) \/ InLane(i, w)

\* The window is done, after the step.
Over(w) == Resolved(w)' \/ SplitUp(w)'

\* What is known, in the store, the queue and the log, stays.
Keeps ==
    /\ \A w : Resolved(w) => Resolved(w)'
    /\ DOMAIN queue \subseteq DOMAIN queue'

\* A step loses no window, unless it was split.
Carries ==
    /\ \A w : Resolved(w) => Resolved(w)'
    /\ \A w \in Windows : Carried(w) => Closed(w)' \/ SplitUp(w) \/ SplitUp(w)'

\* A day is not split, so it stays closed; then what was split stays so.
LEMMA SplitStays ==
    ASSUME Carries, NEW w \in Windows
    PROVE  /\ SplitUp(w) => SplitUp(w)'
           /\ Closed(w) => Closed(w)' \/ SplitUp(w)'
<1>1. \A v \in Windows : Closed(v) => Closed(v)' \/ SplitUp(v) \/ SplitUp(v)'
    BY DEF Carries, Closed, Resolved
<1>2. ASSUME NEW d \in w[1] .. w[2], Closed(<<d, d>>)
      PROVE  Closed(<<d, d>>)'
    <2>1. w[1] \in 1 .. LastDay /\ w[2] \in 1 .. LastDay /\ LastDay \in Nat
        BY WindowPairs, StoreAssumption DEF Days
    <2>2. <<d, d>> \in Windows
        BY <2>1, WindowPairs DEF Days
    <2>3. <<d, d>>[1] = <<d, d>>[2]
        OBVIOUS
    <2>4. ~SplitUp(<<d, d>>) /\ ~SplitUp(<<d, d>>)'
        BY <2>3 DEF SplitUp
    <2> QED BY <1>1, <1>2, <2>2, <2>4
<1>3. SplitUp(w) => SplitUp(w)'
    BY <1>2 DEF SplitUp
<1> QED BY <1>1, <1>3

\* What the workers do to the messages and to their lists of windows: a message that
\* starts has its windows with workers; a window that leaves a list is done, or its
\* message is retried; only a message under way is acknowledged.
HandsOn ==
    /\ \A i \in DOMAIN batch : batch'[i].state = "running" /\ batch[i].state # "running" =>
          \A w \in Range(batch[i].message.windows) : InLane(i, w)'
    /\ \A i \in DOMAIN batch : \A w : batch[i].state = "running" /\ InLane(i, w) =>
          \/ batch'[i].state = "running" /\ InLane(i, w)'
          \/ batch'[i].state = "retried"
          \/ Over(w)
    /\ \A i \in DOMAIN batch :
          batch'[i].state = "acked" => batch[i].state \in {"acked", "running"}

LEMMA WorkersCarry ==
    ASSUME TypeOK, Accounted, SameMessages, Keeps, HandsOn
    PROVE  Carries /\ Accounted'
<1>1. \A i \in DOMAIN batch : Range(batch[i].message.windows) \subseteq Windows
    <2> SUFFICES ASSUME NEW i \in DOMAIN batch
                 PROVE  Range(batch[i].message.windows) \subseteq Windows
        OBVIOUS
    <2>1. batch[i].message.windows \in Seq(Windows)
        BY BatchEntries DEF Messages
    <2> QED BY <2>1, RangeOf
<1>2. ASSUME NEW w \in Windows, Carried(w)
      PROVE  Closed(w)' \/ SplitUp(w) \/ SplitUp(w)'
    <2>1. CASE \E m \in DOMAIN queue : w \in Range(m.windows)
        <3>1. Carried(w)'
            BY <2>1 DEF Keeps, Carried
        <3> QED BY <3>1 DEF Closed
    <2>2. ASSUME NEW i \in DOMAIN batch, batch[i].state # "acked",
                 w \in Range(batch[i].message.windows)
          PROVE  Closed(w)' \/ SplitUp(w) \/ SplitUp(w)'
        <3>1. CASE batch'[i].state # "acked"
            <4>1. i \in DOMAIN batch' /\ batch'[i].message = batch[i].message
                BY DEF SameMessages
            <4>2. Carried(w)'
                BY <4>1, <3>1, <2>2 DEF Carried
            <4> QED BY <4>2 DEF Closed
        <3>2. CASE batch'[i].state = "acked"
            <4>1. batch[i].state = "running"
                BY <2>2, <3>2 DEF HandsOn
            <4>2. Resolved(w) \/ SplitUp(w) \/ InLane(i, w)
                BY <4>1, <2>2 DEF Accounted
            <4>3. InLane(i, w) => Over(w)
                BY <4>1, <3>2 DEF HandsOn
            <4>4. Resolved(w)' => Closed(w)'
                BY DEF Resolved, Closed
            <4> QED BY <4>2, <4>3, <4>4 DEF Keeps, Over
        <3> QED BY <3>1, <3>2
    <2> QED BY <1>2, <2>1, <2>2 DEF Carried
<1>3. Carries
    BY <1>2 DEF Carries, Keeps
<1>4. ASSUME NEW i \in DOMAIN batch', batch'[i].state = "running",
             NEW w \in Range(batch'[i].message.windows)
      PROVE  (Resolved(w) \/ SplitUp(w) \/ InLane(i, w))'
    <2>1. i \in DOMAIN batch /\ batch'[i].message = batch[i].message
        BY DEF SameMessages
    <2>2. CASE batch[i].state # "running"
        BY <2>1, <2>2, <1>4 DEF HandsOn
    <2>3. CASE batch[i].state = "running"
        <3>1. Resolved(w) \/ SplitUp(w) \/ InLane(i, w)
            BY <2>1, <2>3, <1>4 DEF Accounted
        <3>2. w \in Windows
            BY <2>1, <1>1, <1>4
        <3>3. InLane(i, w) => InLane(i, w)' \/ Over(w)
            BY <2>1, <2>3, <1>4 DEF HandsOn
        <3> QED BY <3>1, <3>2, <3>3, <1>3, SplitStays DEF Carries, Over
    <2> QED BY <2>2, <2>3
<1>5. Accounted'
    BY <1>4 DEF Accounted
<1> QED BY <1>3, <1>5

LEMMA LaneStays ==
    ASSUME TypeOK, NEW l \in lanes, UNCHANGED batch, NEW x,
           lanes' = (lanes \ {l}) \cup {x}, x.message = l.message,
           \A w \in Range(l.todo) : w \in Range(x.todo) \/ Over(w)
    PROVE  HandsOn
<1>1. ASSUME NEW i, NEW w, InLane(i, w)
      PROVE  InLane(i, w)' \/ Over(w)
    <2>1. PICK y \in lanes : y.message = i /\ w \in Range(y.todo)
        BY <1>1 DEF InLane
    <2>2. CASE y # l
        BY <2>1, <2>2 DEF InLane
    <2>3. CASE y = l
        BY <2>1, <2>3 DEF InLane
    <2> QED BY <2>2, <2>3
<1> QED BY <1>1 DEF HandsOn

LEMMA LaneEnds ==
    ASSUME TypeOK, NEW l \in lanes, UNCHANGED batch, lanes' = lanes \ {l},
           batch[l.message].state # "running" \/ \A w \in Range(l.todo) : Over(w)
    PROVE  HandsOn
<1>1. ASSUME NEW i, NEW w, InLane(i, w), batch[i].state = "running"
      PROVE  InLane(i, w)' \/ Over(w)
    <2>1. PICK y \in lanes : y.message = i /\ w \in Range(y.todo)
        BY <1>1 DEF InLane
    <2>2. CASE y # l
        BY <2>1, <2>2 DEF InLane
    <2>3. CASE y = l
        BY <1>1, <2>1, <2>3
    <2> QED BY <2>2, <2>3
<1> QED BY <1>1 DEF HandsOn

\* The message that follows starts with all of its windows. The one that is settled is
\* retried, or all of its windows are done.
LEMMA MessageSettled ==
    ASSUME TypeOK, NEW l \in lanes, batch[l.message].state = "running",
           NEW how \in {"acked", "retried"}, batch' = Settled(l.message, how),
           lanes' = (lanes \ {l}) \cup NextLanes(l.message),
           how = "acked" =>
               \A x \in lanes : x.message = l.message => \A w \in Range(x.todo) : Over(w)
    PROVE  HandsOn
<1> DEFINE next == l.message + Workers(Len(batch))
<1>1. l.message \in DOMAIN batch
    BY LaneTypes
<1>2. /\ batch'[l.message].state = how
      /\ \A j \in DOMAIN batch : j # l.message =>
            batch'[j].state = IF j = next THEN "running" ELSE batch[j].state
    <2>1. Settled(l.message, how)[l.message] = [message |-> batch[l.message].message, state |-> how]
        BY <1>1, SettledBatch
    <2>2. \A j \in DOMAIN batch : j # l.message =>
             Settled(l.message, how)[j].state = IF j = next THEN "running" ELSE batch[j].state
        BY <1>1, SettledBatch
    <2> QED BY <2>1, <2>2
<1>3. ASSUME NEW j \in DOMAIN batch, j = next, NEW w \in Range(batch[j].message.windows)
      PROVE  InLane(j, w)'
    <2>1. batch[j].message \in Messages /\ NextLanes(l.message) = LanesOf(j, batch[j].message)
        BY <1>3, BatchEntries DEF NextLanes
    <2> HIDE DEF next
    <2>2. PICK x \in LanesOf(j, batch[j].message) : w \in Range(x.todo)
        BY <1>3, <2>1, LanesOfMessage
    <2>3. x.message = j
        BY <2>1, <2>2, LanesOfMessage
    <2>4. x \in lanes'
        BY <2>1, <2>2
    <2> QED BY <2>2, <2>3, <2>4 DEF InLane
<1> HIDE DEF next
<1>4. ASSUME NEW i \in DOMAIN batch, batch'[i].state = "running", batch[i].state # "running",
             NEW w \in Range(batch[i].message.windows)
      PROVE  InLane(i, w)'
    <2>1. i # l.message /\ i = next
        BY <1>2, <1>4
    <2> QED BY <2>1, <1>3, <1>4
<1>5. ASSUME NEW i \in DOMAIN batch, NEW w, batch[i].state = "running", InLane(i, w)
      PROVE  \/ batch'[i].state = "running" /\ InLane(i, w)'
             \/ batch'[i].state = "retried"
             \/ Over(w)
    <2>1. PICK x \in lanes : x.message = i /\ w \in Range(x.todo)
        BY <1>5 DEF InLane
    <2>2. CASE i # l.message
        <3>1. batch'[i].state = "running"
            BY <2>2, <1>2, <1>5
        <3>2. x \in lanes'
            BY <2>1, <2>2
        <3> QED BY <3>1, <3>2, <2>1 DEF InLane
    <2>3. CASE i = l.message
        BY <2>1, <2>3, <1>2
    <2> QED BY <2>2, <2>3
<1>6. ASSUME NEW i \in DOMAIN batch, batch'[i].state = "acked"
      PROVE  batch[i].state \in {"acked", "running"}
    BY <1>2, <1>6
<1> QED BY <1>4, <1>5, <1>6 DEF HandsOn

LEMMA GoToHandsOn ==
    ASSUME TypeOK, NEW l \in lanes, NEW stage \in LaneStages, GoTo(l, stage)
    PROVE  HandsOn
<1>1. {} \in SUBSET Records /\ <<>> \in Seq(Records)
    OBVIOUS
<1>2. Moved(l, stage, {}, <<>>) /\ UNCHANGED batch
    BY DEF GoTo
<1>3. PICK x \in Lanes : lanes' = (lanes \ {l}) \cup {x} /\ x.todo = l.todo /\ x.message = l.message
    BY <1>1, <1>2, MovedIsTyped DEF OneMoved
<1> QED BY <1>2, <1>3, LaneStays

\* The window a worker finishes must be done.
LEMMA FinishHandsOn ==
    ASSUME TypeOK, NEW l \in lanes, Finish(l), Over(Window(l))
    PROVE  HandsOn
<1>1. CASE Len(l.todo) > 1
    <2> DEFINE x == [l EXCEPT !.todo = Tail(@), !.first = {}, !.got = <<>>,
                              !.pc = FirstStage(batch[l.message].message.force)]
    <2>1. x.message = l.message /\ Range(l.todo) = {Window(l)} \cup Range(x.todo)
        BY <1>1, NextWindow
    <2>2. lanes' = (lanes \ {l}) \cup {x} /\ UNCHANGED batch
        BY <1>1 DEF Finish
    <2> HIDE DEF x
    <2>3. \A w \in Range(l.todo) : w \in Range(x.todo) \/ Over(w)
        BY <2>1
    <2> QED BY <2>1, <2>2, <2>3, LaneStays
<1>2. CASE ~(Len(l.todo) > 1)
    <2>1. \A w \in Range(l.todo) : w = Window(l)
        <3>1. l.todo \in Seq(Windows) /\ Len(l.todo) \in Nat \ {0} /\ Window(l) = l.todo[1]
            BY LaneTypes
        <3>2. 1 .. Len(l.todo) = {1}
            BY <1>2, <3>1
        <3> QED BY <3>1, <3>2, RangeOf
    <2>2. \A w \in Range(l.todo) : Over(w)
        BY <2>1
    <2>3. CASE Others(l) = {} /\ batch[l.message].state = "running"
        <3>1. lanes' = (lanes \ {l}) \cup NextLanes(l.message) /\ batch' = Settled(l.message, "acked")
            BY <1>2, <2>3 DEF Finish
        <3>2. \A x \in lanes : x.message = l.message => x = l
            BY <2>3 DEF Others
        <3>3. \A x \in lanes : x.message = l.message => \A w \in Range(x.todo) : Over(w)
            BY <2>2, <3>2
        <3> QED BY <2>3, <3>1, <3>3, MessageSettled
    <2>4. CASE ~(Others(l) = {} /\ batch[l.message].state = "running")
        <3>1. lanes' = lanes \ {l} /\ UNCHANGED batch
            BY <1>2, <2>4 DEF Finish
        <3> QED BY <2>2, <3>1, LaneEnds
    <2> QED BY <2>3, <2>4
<1> QED BY <1>1, <1>2

\* An error that is taken for good leaves what its message has left to the log.
LEMMA EscapeHandsOn ==
    ASSUME TypeOK, NEW l \in lanes, Escape(l)
    PROVE  HandsOn
<1>1. CASE batch[l.message].state # "running"
    <2>1. lanes' = lanes \ {l} /\ UNCHANGED batch
        BY <1>1 DEF Escape
    <2> QED BY <1>1, <2>1, LaneEnds
<1>2. CASE batch[l.message].state = "running"
    <2>1. lanes' = (lanes \ {l}) \cup NextLanes(l.message)
        BY <1>2 DEF Escape
    <2>2. CASE batch' = Settled(l.message, "retried")
        BY <1>2, <2>1, <2>2, MessageSettled
    <2>3. CASE /\ batch' = Settled(l.message, "acked")
               /\ excused' = excused \cup UNION {Range(x.todo) : x \in Others(l) \cup {l}}
        <3>1. ASSUME NEW x \in lanes, x.message = l.message, NEW w \in Range(x.todo)
              PROVE  Over(w)
            <4>1. x \in Others(l) \cup {l}
                BY <3>1 DEF Others
            <4>2. w \in excused'
                BY <2>3, <3>1, <4>1
            <4> QED BY <4>2 DEF Over, Resolved
        <3> QED BY <1>2, <2>1, <2>3, <3>1, MessageSettled
    <2> QED BY <1>2, <2>2, <2>3 DEF Escape
<1> QED BY <1>1, <1>2

\* Days that are sent to the queue are on their way.
LEMMA DaysAreSent ==
    ASSUME TypeOK, NEW l \in lanes, l.pc = "split", FetchedFrom(l, published),
           queue' = Sent(PackMessages(DaysToEnqueue(Window(l)), batch[l.message].message.force))
    PROVE  DOMAIN queue \subseteq DOMAIN queue' /\ Over(Window(l))
<1> DEFINE messages == PackMessages(DaysToEnqueue(Window(l)), batch[l.message].message.force)
<1>1. /\ Window(l) \in Windows /\ batch[l.message].message \in Messages
      /\ Window(l)[1] # Window(l)[2]
    BY LaneTypes, BatchEntries DEF FetchedFrom
<1>2. /\ DaysToEnqueue(Window(l)) \in Seq(Windows)
      /\ Range(DaysToEnqueue(Window(l))) = {<<d, d>> : d \in Window(l)[1] .. Window(l)[2]}
      /\ batch[l.message].message.force \in BOOLEAN
    BY <1>1, DaysOfWindow DEF DaysToEnqueue, Messages
<1>3. /\ messages \in Seq(Messages)
      /\ \A w \in Range(DaysToEnqueue(Window(l))) : \E m \in Range(messages) : w \in Range(m.windows)
    BY <1>2, PackedMessages
<1>4. queue' = Sent(messages)
    OBVIOUS
<1> HIDE DEF messages
<1>5. DOMAIN queue' = DOMAIN queue \cup Range(messages)
    BY <1>3, <1>4, QueueIsOK, SentQueue
<1>6. ASSUME NEW w, w = Window(l)
      PROVE  SplitUp(w)'
    <2>1. ASSUME NEW d \in w[1] .. w[2]
          PROVE  Closed(<<d, d>>)'
        <3>1. <<d, d>> \in Range(DaysToEnqueue(Window(l)))
            BY <1>2, <1>6
        <3>2. PICK m \in Range(messages) : <<d, d>> \in Range(m.windows)
            BY <3>1, <1>3
        <3>3. Carried(<<d, d>>)'
            BY <3>2, <1>5 DEF Carried
        <3> QED BY <3>3 DEF Closed
    <2> QED BY <2>1, <1>1, <1>6 DEF SplitUp
<1>7. ASSUME NEW w, w = Window(l)
      PROVE  Over(w)
    BY <1>6, <1>7 DEF Over
<1> QED BY <1>5, <1>7

\* A worker finishes a window only when it is ingested, has an error run, or was split.
LEMMA LaneStepHandsOn ==
    ASSUME IngestInv, LaneSteps
    PROVE  HandsOn /\ DOMAIN queue \subseteq DOMAIN queue'
<1>1. PICK l \in lanes :
          \/ Check(l) \/ FetchFirst(l) \/ FetchRest(l) \/ SplitWindow(l)
          \/ ApplyWindow(l) \/ Report(l) \/ Rescue(l)
    BY DEF LaneSteps
<1>2. TypeOK /\ FetchedFrom(l, published) /\ store \in StoreStates
    BY DEF IngestInv, FetchInv, TypeOK
<1>3. Window(l) \in Windows /\ l.got \in Seq(Records)
    BY <1>2, LaneTypes
<1>4. ASSUME Window(l) \in store'.marks \cup store'.errors
      PROVE  Over(Window(l))
    <2>1. ASSUME NEW w, w = Window(l)
          PROVE  Over(w)
        <3>1. Resolved(w)'
            BY <1>4, <2>1 DEF Resolved
        <3> QED BY <3>1 DEF Over
    <2> QED BY <2>1
<1>5. CASE Check(l)
    <2>1. \/ IsWindowIngested(store, Window(l)) /\ Finish(l)
          \/ GoTo(l, "page1") \/ GoTo(l, "rescue")
        BY <1>5 DEF Check
    <2>2. UNCHANGED <<store, queue>>
        BY <1>5 DEF Check
    <2>3. CASE IsWindowIngested(store, Window(l)) /\ Finish(l)
        <3>1. Over(Window(l))
            BY <1>4, <2>2, <2>3 DEF IsWindowIngested
        <3> QED BY <1>2, <2>2, <2>3, <3>1, FinishHandsOn
    <2> QED BY <1>2, <2>1, <2>2, <2>3, GoToHandsOn DEF LaneStages
<1>6. CASE FetchFirst(l) \/ FetchRest(l)
    <2>1. /\ UNCHANGED queue
          /\ \/ (FirstAnswer(l) \/ RestAnswer(l)) /\ UNCHANGED <<batch, excused>>
             \/ GoTo(l, "report")
        BY <1>6 DEF FetchFirst, FirstAnswer, FetchRest, RestAnswer
    <2>2. CASE (FirstAnswer(l) \/ RestAnswer(l)) /\ UNCHANGED <<batch, excused>>
        <3>1. PICK x \in Lanes : /\ lanes' = (lanes \ {l}) \cup {x}
                                 /\ x.todo = l.todo /\ x.message = l.message
            BY <1>2, <2>2, FirstAnswerFetches, RestAnswerFetches
        <3> QED BY <1>2, <2>1, <2>2, <3>1, LaneStays
    <2> QED BY <1>2, <2>1, <2>2, GoToHandsOn DEF LaneStages
<1>7. CASE SplitWindow(l)
    <2> DEFINE messages == PackMessages(DaysToEnqueue(Window(l)), batch[l.message].message.force)
    <2>1. /\ l.pc = "split"
          /\ \/ queue' = Sent(messages) /\ Finish(l)
             \/ queue' \in PartlySent(messages) /\ GoTo(l, "rescue")
        BY <1>7 DEF SplitWindow
    <2>2. CASE queue' = Sent(messages) /\ Finish(l)
        <3>1. DOMAIN queue \subseteq DOMAIN queue' /\ Over(Window(l))
            BY <1>2, <2>1, <2>2, DaysAreSent
        <3> QED BY <1>2, <2>2, <3>1, FinishHandsOn
    <2>3. CASE queue' \in PartlySent(messages) /\ GoTo(l, "rescue")
        <3>1. messages \in Seq(Messages)
            <4>1. batch[l.message].message \in Messages
                BY <1>2, LaneTypes, BatchEntries
            <4>2. DaysToEnqueue(Window(l)) \in Seq(Windows) /\ batch[l.message].message.force \in BOOLEAN
                BY <1>3, <4>1, DaysOfWindow DEF DaysToEnqueue, Messages
            <4> QED BY <4>2, PackedMessages
        <3> HIDE DEF messages
        <3>2. DOMAIN queue \subseteq DOMAIN queue'
            BY <1>2, <2>3, <3>1, QueueIsOK, SentQueue
        <3> QED BY <1>2, <2>3, <3>2, GoToHandsOn DEF LaneStages
    <2> QED BY <2>1, <2>2, <2>3
<1>8. CASE ApplyWindow(l)
    <2> DEFINE applied == AppliedWindow(store, Window(l), l.got, "backfill")
    <2>1. /\ UNCHANGED queue
          /\ (store' = applied /\ Finish(l)) \/ GoTo(l, "rescue")
        BY <1>8 DEF ApplyWindow
    <2>2. CASE store' = applied /\ Finish(l)
        <3>1. StoredAll(store, Window(l), l.got, "backfill", applied)
            BY <1>2, <1>3, AppliedStore
        <3> HIDE DEF applied
        <3>2. Window(l) \in store'.marks
            BY <2>2, <3>1 DEF StoredAll
        <3> QED BY <1>2, <1>4, <2>1, <2>2, <3>2, FinishHandsOn
    <2> QED BY <1>2, <2>1, <2>2, GoToHandsOn DEF LaneStages
<1>9. CASE Report(l) \/ Rescue(l)
    <2>1. /\ UNCHANGED queue
          /\ \/ store' = FailureRecorded(store, Window(l)) /\ Finish(l)
             \/ GoTo(l, "rescue") \/ Escape(l)
        BY <1>9 DEF Report, Rescue, Rescued
    <2>2. CASE store' = FailureRecorded(store, Window(l)) /\ Finish(l)
        <3>1. Window(l) \in store'.errors
            BY <1>2, <1>3, <2>2, RecordedStore
        <3> QED BY <1>2, <1>4, <2>1, <2>2, <3>1, FinishHandsOn
    <2> QED BY <1>2, <2>1, <2>2, GoToHandsOn, EscapeHandsOn DEF LaneStages
<1> QED BY <1>1, <1>5, <1>6, <1>7, <1>8, <1>9

\* What an invocation leaves is delivered again, or was given up.
LEMMA RequeuedCarries ==
    ASSUME TypeOK, NEW is \in SUBSET DOMAIN batch,
           \A i \in DOMAIN batch : batch[i].state # "acked" => i \in is,
           queue' = Requeued(is), excused' = excused \cup Dropped(is),
           batch' = <<>>, \A w : Resolved(w) => Resolved(w)'
    PROVE  Carries /\ Accounted'
<1>1. /\ DOMAIN queue \subseteq DOMAIN queue'
      /\ \A i \in is : batch[i].message.tries < MaxRetries => Again(batch[i].message) \in DOMAIN queue'
    BY RequeuedQueue
<1>2. ASSUME NEW w \in Windows, Carried(w)
      PROVE  Closed(w)'
    <2>1. CASE \E m \in DOMAIN queue : w \in Range(m.windows)
        <3>1. Carried(w)'
            BY <2>1, <1>1 DEF Carried
        <3> QED BY <3>1 DEF Closed
    <2>2. ASSUME NEW i \in DOMAIN batch, batch[i].state # "acked",
                 w \in Range(batch[i].message.windows)
          PROVE  Closed(w)'
        <3>1. i \in is /\ batch[i].message \in Messages
            BY <2>2, BatchEntries
        <3>2. CASE batch[i].message.tries < MaxRetries
            <4>1. Again(batch[i].message).windows = batch[i].message.windows
                BY <3>1, <3>2, AgainIsMessage
            <4>2. Carried(w)'
                BY <1>1, <2>2, <3>1, <3>2, <4>1 DEF Carried
            <4> QED BY <4>2 DEF Closed
        <3>3. CASE ~(batch[i].message.tries < MaxRetries)
            <4>1. batch[i].message.tries >= MaxRetries
                BY <3>1, <3>3, BackfillAssumption DEF Messages
            <4>2. w \in Dropped(is)
                BY <2>2, <3>1, <4>1 DEF Dropped
            <4> QED BY <4>2 DEF Closed
        <3> QED BY <3>2, <3>3
    <2> QED BY <1>2, <2>1, <2>2 DEF Carried
<1>3. Accounted'
    BY DEF Accounted
<1> QED BY <1>2, <1>3 DEF Carries

LEMMA DeliverCarries ==
    ASSUME TypeOK, Deliver
    PROVE  Carries /\ Accounted'
<1>1. batch = <<>> /\ UNCHANGED <<store, excused>>
    BY DEF Deliver
<1>2. /\ \A m \in DOMAIN queue : m \in DOMAIN queue' \/ \E i \in DOMAIN batch' : batch'[i].message = m
      /\ \A i \in DOMAIN batch' :
                 /\ batch'[i].state \in {"waiting", "running"}
                 /\ batch'[i].state = "running" =>
                       \A w \in Range(batch'[i].message.windows) :
                          \E x \in lanes' : x.message = i /\ w \in Range(x.todo)
    BY DeliveredBatch
<1>3. ASSUME NEW w \in Windows, Carried(w)
      PROVE  Closed(w)'
    <2>1. PICK m \in DOMAIN queue : w \in Range(m.windows)
        BY <1>1, <1>3 DEF Carried
    <2>2. Carried(w)'
        BY <1>2, <2>1 DEF Carried
    <2> QED BY <2>2 DEF Closed
<1>4. \A w : Resolved(w) => Resolved(w)'
    BY <1>1 DEF Resolved
<1>5. Accounted'
    BY <1>2 DEF Accounted, InLane
<1> QED BY <1>3, <1>4, <1>5 DEF Carries

\* The workers do nothing.
LEMMA OthersCarry ==
    ASSUME TypeOK, Accounted, Keeps, UNCHANGED <<batch, lanes>>
    PROVE  Carries /\ Accounted'
<1>1. SameMessages
    BY DEF SameMessages
<1>2. \A i, w : InLane(i, w) => InLane(i, w)'
    BY DEF InLane
<1>3. HandsOn
    BY <1>2 DEF HandsOn
<1> QED BY <1>1, <1>3, WorkersCarry

LEMMA StepCarries ==
    ASSUME IngestInv, Accounted, [Next]_vars
    PROVE  Carries /\ Accounted'
<1>1. TypeOK /\ store \in StoreStates /\ QueueOK(queue)
    BY Parts
<1>2. Kept(store, store) /\ Kept(store, Flushed(store))
    BY <1>1, KeptByOthers
<1>3. ASSUME Kept(store, store'), excused \subseteq excused'
      PROVE  \A w : Resolved(w) => Resolved(w)'
    BY <1>3 DEF Kept, Grows, Resolved
<1>4. ASSUME UNCHANGED <<store, batch, lanes, excused>>, DOMAIN queue \subseteq DOMAIN queue'
      PROVE  Carries /\ Accounted'
    BY <1>1, <1>2, <1>3, <1>4, OthersCarry DEF Keeps
<1>5. CASE UNCHANGED vars
    BY <1>4, <1>5 DEF vars
<1>6. CASE HccPublishes \/ PlanWave
    BY <1>4, <1>6 DEF HccPublishes, PlanWave
<1>7. CASE SendWave \/ SendWaveFails
    <2>1. wave.plan \in Seq(Windows) /\ wave.force \in BOOLEAN
        BY Parts DEF WaveStates
    <2>2. PackMessages(wave.plan, wave.force) \in Seq(Messages)
        BY <2>1, PackedMessages
    <2>3. DOMAIN queue \subseteq DOMAIN queue'
        BY <1>1, <1>7, <2>2, SentQueue DEF SendWave, SendWaveFails
    <2> QED BY <1>4, <1>7, <2>3 DEF SendWave, SendWaveFails
<1>8. CASE ReadBaseline \/ WaveDrained \/ WaveTimesOut \/ TrackerCompletes \/ TrackerPauses
           \/ ScriptFails
    <2>1. ScriptOnly
        BY <1>8 DEF ReadBaseline, WaveDrained, WaveTimesOut, TrackerCompletes, TrackerPauses, ScriptFails
    <2> QED BY <1>4, <2>1 DEF ScriptOnly
<1>9. CASE Deliver
    BY <1>1, <1>9, DeliverCarries
<1>10. CASE LaneSteps
    <2>1. HandsOn /\ DOMAIN queue \subseteq DOMAIN queue'
        BY <1>10, LaneStepHandsOn
    <2>2. Kept(store, store') /\ excused \subseteq excused' /\ SameMessages
        BY <1>10, LaneStepEffect DEF LaneEffect, Steady
    <2> QED BY <1>1, <1>3, <2>1, <2>2, WorkersCarry DEF Keeps
<1>11. CASE EndBatch
    <2>1. /\ queue' = Requeued(RetriedMessages) /\ excused' = excused \cup Dropped(RetriedMessages)
          /\ batch' = <<>> /\ store' \in {store, Flushed(store)}
          /\ \A i \in DOMAIN batch : batch[i].state \in {"acked", "retried"}
        BY <1>11 DEF EndBatch
    <2>2. /\ RetriedMessages \in SUBSET DOMAIN batch
          /\ \A i \in DOMAIN batch : batch[i].state # "acked" => i \in RetriedMessages
        BY <2>1 DEF RetriedMessages
    <2>3. \A w : Resolved(w) => Resolved(w)'
        BY <1>2, <1>3, <2>1
    <2> QED BY <1>1, <2>1, <2>2, <2>3, RequeuedCarries
<1>12. CASE InvocationDies
    <2>1. PICK kept \in SUBSET {i \in DOMAIN batch : batch[i].state = "acked"} :
              /\ queue' = Requeued(DOMAIN batch \ kept)
              /\ excused' = excused \cup Dropped(DOMAIN batch \ kept)
        BY <1>12 DEF InvocationDies
    <2>2. batch' = <<>> /\ store' = store
        BY <1>12 DEF InvocationDies
    <2>3. \A i \in DOMAIN batch : batch[i].state # "acked" => i \in DOMAIN batch \ kept
        OBVIOUS
    <2>4. \A w : Resolved(w) => Resolved(w)'
        BY <1>2, <1>3, <2>1, <2>2
    <2> QED BY <1>1, <2>1, <2>2, <2>3, <2>4, RequeuedCarries
<1>13. CASE HourlySync
    <2>1. UNCHANGED <<queue, batch, lanes, excused>>
        BY <1>13 DEF HourlySync
    <2>2. Kept(store, store')
        BY <1>13, HourlyKeeps
    <2> QED BY <1>1, <1>3, <2>1, <2>2, OthersCarry DEF Keeps
<1> QED BY <1>5, <1>6, <1>7, <1>8, <1>9, <1>10, <1>11, <1>12, <1>13 DEF Next

\* A wave takes only windows that it sends.
LEMMA TakenAreSent ==
    ASSUME IngestInv, [Next]_vars, NEW w \in taken' \ taken
    PROVE  Closed(w)'
<1>1. SendWave
    BY DEF Next, vars, HccPublishes, PlanWave, SendWaveFails, ReadBaseline, WaveDrained,
           WaveTimesOut, TrackerCompletes, TrackerPauses, ScriptFails, ScriptOnly, Deliver,
           LaneSteps, EndBatch, InvocationDies, HourlySync
<1>2. wave.plan \in Seq(Windows) /\ wave.force \in BOOLEAN
    BY Parts DEF WaveStates
<1> DEFINE messages == PackMessages(wave.plan, wave.force)
<1>3. messages \in Seq(Messages) /\ \A v \in Range(wave.plan) : \E m \in Range(messages) : v \in Range(m.windows)
    BY <1>2, PackedMessages
<1>4. queue' = Sent(messages) /\ w \in Range(wave.plan)
    BY <1>1 DEF SendWave
<1> HIDE DEF messages
<1>5. DOMAIN queue' = DOMAIN queue \cup Range(messages)
    BY <1>3, <1>4, Parts, SentQueue
<1> SUFFICES ASSUME NEW v, v = w
             PROVE  Closed(v)'
    OBVIOUS
<1>6. Carried(v)'
    BY <1>3, <1>4, <1>5 DEF Carried
<1> QED BY <1>6 DEF Closed

ClosedInv == IngestInv /\ Accounted /\ NothingForgotten

LEMMA ClosedStep ==
    ASSUME ClosedInv, [Next]_vars
    PROVE  ClosedInv'
<1>1. IngestInv /\ Accounted /\ NothingForgotten
    BY DEF ClosedInv
<1>2. IngestInv' /\ Carries /\ Accounted'
    BY <1>1, IngestStep, StepCarries
<1>3. ASSUME NEW w \in taken'
      PROVE  Closed(w)' \/ SplitUp(w)'
    <2>1. CASE w \in taken
        <3>1. w \in Windows /\ (Closed(w) \/ SplitUp(w))
            BY <1>1, <2>1, Parts DEF NothingForgotten, SplitUp
        <3> QED BY <1>2, <3>1, SplitStays
    <2>2. CASE w \notin taken
        BY <1>1, <2>2, TakenAreSent
    <2> QED BY <2>1, <2>2
<1>4. NothingForgotten'
    BY <1>3 DEF NothingForgotten, SplitUp
<1> QED BY <1>2, <1>4 DEF ClosedInv

\* No window that a wave has sent disappears, whichever calls fail and whenever an
\* invocation dies (processBackfillMessage, handleBackfillQueueMessage,
\* enqueueDailyWindows).
THEOREM NothingIsForgotten == Spec => []NothingForgotten
<1>1. Init => ClosedInv
    BY IngestInit DEF Init, ClosedInv, Accounted, NothingForgotten
<1>2. ClosedInv /\ [Next]_vars => ClosedInv'
    BY ClosedStep
<1>3. ClosedInv => NothingForgotten
    BY DEF ClosedInv
<1> QED BY <1>1, <1>2, <1>3, PTL DEF Spec

-----------------------------------------------------------------------------
(* A pass over the range                                                   *)

\* The first days of the chunks of the whole range, and the chunk of each.
ChunkStarts == {d \in Days : \E k \in Nat : d = 1 + k * ChunkDays}

ChunkAt(d) == <<d, IF d + ChunkDays - 1 > LastDay THEN LastDay ELSE d + ChunkDays - 1>>

\* A range that starts with a chunk has the chunks of the whole range from there on: a
\* wave that continues a pass cuts it as the first one did.
LEMMA ChunksFrom ==
    ASSUME NEW start \in ChunkStarts
    PROVE  Range(SplitDateRange(start, LastDay, ChunkDays)) =
               {ChunkAt(d) : d \in {e \in ChunkStarts : start <= e}}
<1> DEFINE c == ChunkDays
           n == (LastDay - start + c) \div c
           First(i) == start + (i - 1) * c
           later == {e \in ChunkStarts : start <= e}
<1>1. start \in Nat /\ LastDay \in Nat /\ 1 <= start /\ start <= LastDay /\ c \in Nat \ {0}
    BY StoreAssumption, BackfillAssumption DEF ChunkStarts, Days
<1>2. PICK k \in Nat : start = 1 + k * c
    BY DEF ChunkStarts
<1>3. /\ n \in Nat /\ LastDay - start + 1 <= n * c
      /\ \A i \in 1 .. n : (i - 1) * c \in Nat /\ (i - 1) * c < LastDay - start + 1
    <2>1. LastDay - start + 1 \in Nat /\ LastDay - start + c = (LastDay - start + 1) + c - 1
        BY <1>1
    <2> HIDE DEF c
    <2> QED BY <1>1, <2>1, Groups
<1>4. Range(SplitDateRange(start, LastDay, ChunkDays)) = {ChunkAt(First(i)) : i \in 1 .. n}
    <2> HIDE DEF First
    <2>1. SplitDateRange(start, LastDay, ChunkDays) = [i \in 1 .. n |-> ChunkAt(First(i))]
        BY DEF SplitDateRange, ChunkAt, First
    <2> HIDE DEF n
    <2> QED BY <2>1 DEF Range
<1> HIDE DEF n, c
<1>5. ASSUME NEW i \in 1 .. n
      PROVE  First(i) \in later
    <2>1. i - 1 \in Nat /\ k + (i - 1) \in Nat /\ (k + (i - 1)) * c = k * c + (i - 1) * c
        BY <1>1, <1>3
    <2>2. k * c \in Nat /\ (i - 1) * c \in Nat /\ (i - 1) * c < LastDay - start + 1
        BY <1>1, <1>3, Products
    <2>3. First(i) = 1 + (k + (i - 1)) * c
        BY <1>2, <2>1, <2>2
    <2> DEFINE m == (i - 1) * c
    <2>4. First(i) = start + m /\ m \in Nat /\ m < LastDay - start + 1
        BY <2>2
    <2> HIDE DEF m
    <2>5. First(i) \in 1 .. LastDay /\ start <= First(i)
        BY <2>4, <1>1
    <2> QED BY <2>1, <2>3, <2>5 DEF ChunkStarts, Days, c
<1>6. ASSUME NEW d \in later
      PROVE  \E i \in 1 .. n : First(i) = d
    <2>1. PICK m \in Nat : d = 1 + m * c
        BY DEF ChunkStarts, c
    <2>2. d \in Nat /\ start <= d /\ d <= LastDay
        BY <1>1 DEF ChunkStarts, Days
    <2>3. m * c \in Nat /\ k * c \in Nat /\ n * c \in Nat
        BY <1>1, <1>3, Products
    <2>4. k <= m
        <3>1. CASE m < k
            <4>1. m * c + c <= k * c
                BY <3>1, <1>1, Products
            <4> QED BY <4>1, <2>1, <2>2, <2>3, <1>1, <1>2
        <3> QED BY <3>1
    <2> DEFINE j == m - k
    <2>5. j \in Nat /\ m = k + j
        BY <2>4
    <2>6. m * c = k * c + j * c /\ j * c \in Nat
        BY <2>5, <1>1
    <2> HIDE DEF j
    <2>7. j * c = d - start
        BY <2>1, <2>2, <2>3, <2>6, <1>1, <1>2
    <2>8. j < n
        <3>1. CASE n <= j
            <4>1. n * c <= j * c
                BY <3>1, <1>1, <1>3, <2>5, Products
            <4> QED BY <4>1, <2>2, <2>3, <2>6, <2>7, <1>1, <1>3
        <3> QED BY <3>1, <2>5, <1>3
    <2>9. j + 1 \in 1 .. n /\ (j + 1) - 1 = j
        BY <2>5, <2>8, <1>3
    <2>10. First(j + 1) = d
        BY <2>2, <2>7, <2>9, <1>1
    <2> QED BY <2>9, <2>10
<1>7. {ChunkAt(First(i)) : i \in 1 .. n} = {ChunkAt(d) : d \in later}
    <2> HIDE DEF First, later
    <2> QED BY <1>5, <1>6
<1> QED BY <1>4, <1>7

AllChunks == Range(SplitDateRange(1, LastDay, ChunkDays))

LEMMA AllChunksAre ==
    /\ 1 \in ChunkStarts
    /\ AllChunks = {ChunkAt(d) : d \in ChunkStarts}
<1>1. 1 \in ChunkStarts
    <2>1. 1 = 1 + 0 * ChunkDays /\ 0 \in Nat /\ 1 \in Days
        BY StoreAssumption, BackfillAssumption DEF Days
    <2> QED BY <2>1 DEF ChunkStarts
<1>2. \A d \in ChunkStarts : 1 <= d
    BY DEF ChunkStarts, Days
<1> QED BY <1>1, <1>2, ChunksFrom DEF AllChunks

\* What the waves of a pass have taken, or found ingested, before the next one.
PassInv ==
    /\ wave.next # 0 => wave.next \in ChunkStarts
    /\ \A v \in AllChunks :
          wave.next = 0 \/ v[1] < wave.next =>
              v \in taken \cup store.marks \cup (IF wave.pc = "sending" THEN Range(wave.plan) ELSE {})

\* What a wave takes: chunks of the range, the first that its pass has left.
Planned ==
    /\ wave'.from \in ChunkStarts /\ wave'.plan \in Seq(Windows)
    /\ Len(wave'.plan) <= MaxEnqueuePerWave
    /\ wave'.next # 0 => Len(wave'.plan) = MaxEnqueuePerWave
    /\ \A v \in Range(wave'.plan) :
          /\ v \in AllChunks
          /\ \A u \in AllChunks : u[1] <= v[1] => u \in taken \cup store.marks \cup Range(wave'.plan)

LEMMA PlanStep ==
    ASSUME TypeOK, PassInv, PlanWave
    PROVE  PassInv' /\ Planned
<1>1. wave \in WaveStates /\ wave.pc \in {"idle", "post"} /\ wave.next # 0 /\ wave.next \in ChunkStarts
    <2>1. wave \in WaveStates /\ wave.pc \in {"idle", "post"} /\ wave.next # 0
        BY DEF TypeOK, PlanWave
    <2> QED BY <2>1 DEF PassInv
<1>2. PICK force \in IF wave.pc = "idle" THEN Forces ELSE {wave.force} :
          LET chunks  == SplitDateRange(wave.next, LastDay, ChunkDays)
              pending == IF force THEN chunks ELSE FilterPendingChunks(store, chunks)
              planned == SubSeq(pending, 1,
                                IF Len(pending) < MaxEnqueuePerWave
                                THEN Len(pending) ELSE MaxEnqueuePerWave)
          IN  wave' = [pc |-> "sending", force |-> force, plan |-> planned, from |-> wave.next,
                       any |-> wave.any \/ planned # <<>>, base |-> 0,
                       alone |-> taken \subseteq store.marks,
                       next |-> IF Len(pending) > Len(planned)
                                THEN NextStart(Last(planned)) ELSE 0]
    BY DEF PlanWave
<1> DEFINE chunks  == SplitDateRange(wave.next, LastDay, ChunkDays)
           pending == IF force THEN chunks ELSE FilterPendingChunks(store, chunks)
           planned == SubSeq(pending, 1, IF Len(pending) < MaxEnqueuePerWave
                                         THEN Len(pending) ELSE MaxEnqueuePerWave)
           next == IF Len(pending) > Len(planned) THEN NextStart(Last(planned)) ELSE 0
           n == Len(planned)
<1>3. /\ wave'.pc = "sending" /\ wave'.plan = planned /\ wave'.next = next /\ wave'.from = wave.next
      /\ UNCHANGED <<store, taken>>
    <2>1. wave' = [pc |-> "sending", force |-> force, plan |-> planned, from |-> wave.next,
                   any |-> wave.any \/ planned # <<>>, base |-> 0,
                   alone |-> taken \subseteq store.marks, next |-> next]
        BY <1>2
    <2> HIDE DEF planned, next
    <2> QED BY <2>1 DEF PlanWave
<1>4. /\ wave.next \in Days /\ LastDay \in Days /\ LastDay \in Nat /\ wave.next <= LastDay
      /\ ChunkDays \in Nat \ {0} /\ MaxEnqueuePerWave \in Nat \ {0}
    BY <1>1, StoreAssumption, BackfillAssumption DEF Days, ChunkStarts
<1>5. /\ chunks \in Seq(Windows)
      /\ \A i, j \in DOMAIN chunks : i < j => chunks[i][2] < chunks[j][1]
      /\ Range(chunks) = {ChunkAt(d) : d \in {e \in ChunkStarts : wave.next <= e}}
    BY <1>1, <1>4, Chunks, ChunksFrom
<1> HIDE DEF chunks
<1>6. /\ pending \in Seq(Windows)
      /\ \A i, j \in DOMAIN pending : i < j => pending[i][2] < pending[j][1]
      /\ Range(chunks) \subseteq Range(pending) \cup store.marks
      /\ Range(pending) \subseteq Range(chunks)
    BY <1>5, PendingChunks
<1> HIDE DEF pending
<1>7. /\ planned \in Seq(Windows) /\ n \in Nat /\ n <= Len(pending) /\ n <= MaxEnqueuePerWave
      /\ \A i \in 1 .. n : planned[i] = pending[i]
      /\ Len(pending) > n => n = MaxEnqueuePerWave
    BY <1>4, <1>6, HeadOfList
<1>8. /\ Len(pending) \in Nat /\ DOMAIN pending = 1 .. Len(pending)
      /\ \A i \in DOMAIN pending : pending[i] \in Windows
      /\ \A i \in DOMAIN pending : pending[i] \in Range(pending)
      /\ \A v \in Range(pending) : \E i \in DOMAIN pending : v = pending[i]
      /\ DOMAIN planned = 1 .. n
      /\ \A i \in DOMAIN planned : planned[i] \in Range(planned)
      /\ \A v \in Range(planned) : \E i \in DOMAIN planned : v = planned[i]
    BY <1>6, <1>7, RangeOf DEF Range
<1> HIDE DEF planned
<1>9. Len(pending) > n => n \in DOMAIN pending /\ next = NextStart(pending[n])
    <2>1. Last(planned) = planned[n]
        BY DEF Last
    <2>2. Len(pending) > n => n \in 1 .. n /\ n \in DOMAIN pending /\ next = NextStart(Last(planned))
        BY <1>4, <1>7, <1>8
    <2> QED BY <1>7, <2>1, <2>2
<1>10. ~(Len(pending) > n) => n = Len(pending) /\ next = 0
    <2>1. ~(Len(pending) > n) => next = 0
        OBVIOUS
    <2> HIDE DEF next, n
    <2>2. n \in Nat /\ Len(pending) \in Nat /\ n <= Len(pending)
        BY <1>7, <1>8
    <2> QED BY <2>1, <2>2
<1> HIDE DEF next, n
<1>11. ASSUME next # 0
       PROVE  next \in ChunkStarts
    <2>1. Len(pending) > n /\ n \in DOMAIN pending /\ next = pending[n][2] + 1
        BY <1>9, <1>10, <1>11 DEF NextStart
    <2>2. n + 1 \in DOMAIN pending /\ n < n + 1
        BY <1>7, <1>8, <2>1
    <2>3. pending[n][2] < pending[n + 1][1] /\ pending[n + 1][1] \in Days /\ pending[n][2] \in Days
        BY <2>1, <2>2, <1>6, <1>8, WindowPairs
    <2>4. PICK d \in ChunkStarts : pending[n] = ChunkAt(d)
        BY <2>1, <1>5, <1>6, <1>8
    <2>5. PICK k \in Nat : d = 1 + k * ChunkDays
        BY DEF ChunkStarts
    <2>6. d \in Nat /\ pending[n][2] = IF d + ChunkDays - 1 > LastDay THEN LastDay ELSE d + ChunkDays - 1
        BY <2>4 DEF ChunkAt, ChunkStarts, Days
    <2>7. next = d + ChunkDays /\ next \in Days
        <3> DEFINE a == pending[n][2]
                   b == pending[n + 1][1]
        <3>1. a < b /\ a \in 1 .. LastDay /\ b \in 1 .. LastDay /\ next = a + 1
            BY <2>1, <2>3 DEF Days
        <3>2. a = IF d + ChunkDays - 1 > LastDay THEN LastDay ELSE d + ChunkDays - 1
            BY <2>6
        <3> HIDE DEF a, b
        <3> QED BY <3>1, <3>2, <2>6, <1>4 DEF Days
    <2>8. next = 1 + (k + 1) * ChunkDays /\ k + 1 \in Nat
        BY <2>5, <2>7, <1>4
    <2> QED BY <2>7, <2>8 DEF ChunkStarts
<1>12. ASSUME NEW v \in AllChunks, next = 0 \/ v[1] < next
       PROVE  v \in taken \cup store.marks \cup Range(planned)
    <2>1. PICK d \in ChunkStarts : v = ChunkAt(d)
        BY AllChunksAre
    <2>2. d \in Nat /\ v[1] = d /\ wave.next \in Nat
        BY <2>1, <1>4 DEF ChunkAt, ChunkStarts, Days
    <2>3. CASE v[1] < wave.next
        BY <2>3, <1>1, <1>12 DEF PassInv
    <2>4. CASE wave.next <= d /\ v \notin store.marks
        <3>1. v \in Range(pending)
            BY <2>1, <2>4, <1>5, <1>6
        <3>2. PICK i \in DOMAIN pending : v = pending[i]
            BY <3>1, <1>8
        <3>3. i <= n
            <4>1. CASE n < i
                <5>1. Len(pending) > n /\ n \in DOMAIN pending /\ next = pending[n][2] + 1
                    BY <4>1, <1>7, <1>8, <1>9 DEF NextStart
                <5>2. pending[n][2] < v[1] /\ pending[n][2] \in Nat
                    BY <4>1, <5>1, <3>2, <1>6, <1>8, WindowPairs DEF Days
                <5> QED BY <5>1, <5>2, <2>2, <1>12
            <4> QED BY <4>1, <1>7, <1>8
        <3>4. i \in 1 .. n /\ v = planned[i]
            BY <3>2, <3>3, <1>7, <1>8
        <3> QED BY <3>4, <1>8
    <2> QED BY <2>2, <2>3, <2>4
<1>13. taken' = taken /\ store'.marks = store.marks /\ Range(wave'.plan) = Range(planned)
    BY <1>3
<1>14. \A v \in AllChunks : wave'.next = 0 \/ v[1] < wave'.next => v \in taken' \cup store'.marks \cup Range(wave'.plan)
    BY <1>3, <1>12, <1>13
<1>15. AllChunks' = AllChunks /\ ChunkStarts' = ChunkStarts
    BY DEF AllChunks, SplitDateRange, ChunkStarts
<1>16. PassInv'
    BY <1>3, <1>11, <1>14, <1>15 DEF PassInv
<1>17. ASSUME NEW v \in Range(planned)
       PROVE  /\ v \in AllChunks
              /\ \A u \in AllChunks : u[1] <= v[1] => u \in taken \cup store.marks \cup Range(planned)
    <2>1. PICK i \in 1 .. n : v = pending[i]
        BY <1>7, <1>8
    <2>2. i \in DOMAIN pending /\ v \in Windows /\ v \in Range(chunks)
        BY <2>1, <1>6, <1>7, <1>8
    <2>3. v \in AllChunks
        BY <2>2, <1>5, AllChunksAre
    <2>4. ASSUME NEW u \in AllChunks, u[1] <= v[1], u \notin taken \cup store.marks
          PROVE  u \in Range(planned)
        <3>1. PICK d \in ChunkStarts : u = ChunkAt(d)
            BY AllChunksAre
        <3>2. d \in Nat /\ u[1] = d
            BY <3>1 DEF ChunkAt, ChunkStarts, Days
        <3>3. wave.next <= d
            BY <2>4, <3>2, <1>1, <1>4 DEF PassInv, Days
        <3>4. u \in Range(pending)
            BY <2>4, <3>1, <3>3, <1>5, <1>6
        <3>5. PICK j \in DOMAIN pending : u = pending[j]
            BY <3>4, <1>8
        <3>6. CASE i < j
            <4>1. pending[i][2] < pending[j][1]
                BY <2>2, <3>5, <3>6, <1>6
            <4>2. v[1] \in Nat /\ v[2] \in Nat /\ v[1] <= v[2]
                BY <2>2, WindowPairs DEF Days
            <4> QED BY <4>1, <4>2, <2>1, <2>4, <3>2, <3>5
        <3>7. CASE j <= i
            <4>1. j \in 1 .. n /\ u = planned[j]
                BY <3>5, <3>7, <1>7, <1>8
            <4> QED BY <4>1, <1>8
        <3> QED BY <3>5, <3>6, <3>7, <1>8
    <2> QED BY <2>3, <2>4
<1>18. next # 0 => n = MaxEnqueuePerWave
    BY <1>7, <1>10
<1>19. Planned
    <2>1. Len(wave'.plan) = n
        BY <1>3 DEF n
    <2> QED BY <1>1, <1>3, <1>7, <1>17, <1>18, <2>1 DEF Planned
<1> QED BY <1>16, <1>19


\* The store and the record of what was sent only grow.
LEMMA PassStays ==
    ASSUME PassInv, UNCHANGED wave, taken \subseteq taken', store.marks \subseteq store'.marks
    PROVE  PassInv'
<1>1. AllChunks' = AllChunks /\ ChunkStarts' = ChunkStarts
    BY DEF AllChunks, SplitDateRange, ChunkStarts
<1>2. \A v \in AllChunks :
          wave.next = 0 \/ v[1] < wave.next =>
              v \in taken' \cup store'.marks \cup (IF wave.pc = "sending" THEN Range(wave.plan) ELSE {})
    BY DEF PassInv
<1> HIDE DEF AllChunks, ChunkStarts
<1>3. wave' = wave
    OBVIOUS
<1> QED BY <1>1, <1>2, <1>3 DEF PassInv

\* A new pass starts with the first chunk.
LEMMA PassStarts ==
    ASSUME wave'.next = 1
    PROVE  PassInv'
<1>1. AllChunks' = AllChunks /\ ChunkStarts' = ChunkStarts
    BY DEF AllChunks, SplitDateRange, ChunkStarts
<1>2. \A v \in AllChunks : ~(wave'.next = 0 \/ v[1] < wave'.next)
    <2>1. \A v \in AllChunks : v[1] \in Nat /\ 1 <= v[1]
        BY AllChunksAre DEF ChunkAt, ChunkStarts, Days
    <2> QED BY <2>1
<1> HIDE DEF AllChunks, ChunkStarts
<1> QED BY <1>1, <1>2, AllChunksAre DEF PassInv

\* The script goes on with the pass, or ends it.
LEMMA ScriptPasses ==
    ASSUME TypeOK, PassInv,
           SendWave \/ SendWaveFails \/ ReadBaseline \/ WaveDrained \/ WaveTimesOut
           \/ TrackerCompletes \/ TrackerPauses \/ ScriptFails
    PROVE  PassInv'
<1>1. wave \in WaveStates
    BY DEF TypeOK
<1>2. CASE wave'.next = 1
    BY <1>2, PassStarts
<1>3. CASE wave'.next # 1
    <2>1. /\ wave.next # 0 /\ wave'.next = wave.next /\ wave'.pc # "sending"
          /\ \/ wave.pc # "sending" /\ taken' = taken
             \/ taken' = taken \cup Range(wave.plan)
          /\ store' = store
        <3>1. NoWave.next = 1 /\ [NoWave EXCEPT !.pc = "track", !.from = wave.from].next = 1
            BY DEF NoWave
        <3>2. CASE SendWave
            <4>1. wave.next # 0 /\ wave' = [wave EXCEPT !.pc = "baseline"]
                BY <1>3, <3>1, <3>2 DEF SendWave
            <4> QED BY <4>1, <1>1, <3>2 DEF SendWave, WaveStates
        <3>3. CASE ReadBaseline
            BY <3>3, <1>1 DEF ReadBaseline, ScriptOnly, WaveStates, TypeOK
        <3>4. CASE WaveDrained \/ WaveTimesOut
            <4>1. /\ wave' = [wave EXCEPT !.pc = "post", !.plan = <<>>, !.base = 0, !.alone = TRUE]
                  /\ wave.pc = "drain" /\ ScriptOnly
                BY <3>4 DEF WaveDrained, WaveTimesOut
            <4> QED BY <4>1, <1>1 DEF ScriptOnly, WaveStates, TypeOK
        <3> QED BY <1>3, <3>1, <3>2, <3>3, <3>4
                DEF SendWaveFails, TrackerCompletes, TrackerPauses, ScriptFails
    <2>2. AllChunks' = AllChunks /\ ChunkStarts' = ChunkStarts
        BY DEF AllChunks, SplitDateRange, ChunkStarts
    <2>3. \A v \in AllChunks : v[1] < wave.next => v \in taken' \cup store'.marks
        BY <2>1 DEF PassInv
    <2>4. wave.next \in ChunkStarts
        BY <2>1 DEF PassInv
    <2> HIDE DEF AllChunks, ChunkStarts
    <2> QED BY <2>1, <2>2, <2>3, <2>4 DEF PassInv
<1> QED BY <1>2, <1>3

LEMMA PassInit == Init => PassInv
<1> SUFFICES ASSUME Init PROVE PassInv
    OBVIOUS
<1>1. wave.next = 1
    BY DEF Init, NoWave
<1>2. \A v \in AllChunks : v[1] \in Nat /\ 1 <= v[1]
    BY AllChunksAre DEF ChunkAt, ChunkStarts, Days
<1> HIDE DEF AllChunks
<1> QED BY <1>1, <1>2, AllChunksAre DEF PassInv

LEMMA PassStep ==
    ASSUME IngestInv, PassInv, [Next]_vars
    PROVE  PassInv'
<1>1. TypeOK
    BY Parts
<1>2. CASE PlanWave
    BY <1>1, <1>2, PlanStep
<1>3. CASE \/ SendWave \/ SendWaveFails \/ ReadBaseline \/ WaveDrained \/ WaveTimesOut
           \/ TrackerCompletes \/ TrackerPauses \/ ScriptFails
    BY <1>1, <1>3, ScriptPasses
<1>4. CASE UNCHANGED vars \/ HccPublishes \/ Deliver
    <2>1. UNCHANGED <<wave, taken, store>>
        BY <1>4 DEF vars, HccPublishes, Deliver
    <2> QED BY <2>1, PassStays
<1>5. CASE LaneSteps
    <2>1. LaneEffect /\ UNCHANGED <<wave, taken>>
        BY <1>5, LaneStepEffect DEF LaneSteps
    <2> QED BY <2>1, PassStays DEF LaneEffect, Kept, Grows
<1>6. CASE EndBatch \/ InvocationDies
    <2>1. UNCHANGED <<wave, taken>> /\ store' \in {store, Flushed(store)}
        BY <1>6 DEF EndBatch, InvocationDies
    <2>2. Kept(store, store')
        BY <2>1, Parts, KeptByOthers
    <2> QED BY <2>1, <2>2, PassStays DEF Kept, Grows
<1>7. CASE HourlySync
    <2>1. UNCHANGED <<wave, taken>> /\ Kept(store, store')
        BY <1>7, HourlyKeeps DEF HourlySync
    <2> QED BY <2>1, PassStays DEF Kept, Grows
<1> QED BY <1>2, <1>3, <1>4, <1>5, <1>6, <1>7 DEF Next

\* When a wave reports that nothing is left, its pass has sent every window of the range or
\* found it ingested (startBackfill, queueBackfillWaves): continueFrom leaves out no chunk,
\* for every length of the range, of the chunks and of a wave.
THEOREM PassesCoverRange == Spec => PassCoversRange
<1> DEFINE Inv == IngestInv /\ PassInv
<1>1. Init => Inv
    BY IngestInit, PassInit
<1>2. Inv /\ [Next]_vars => Inv'
    BY IngestStep, PassStep
<1> DEFINE Covered ==
        (wave.pc = "sending" /\ wave.next = 0 /\ faults' = faults /\ wave'.pc # "sending") =>
            \A i \in DOMAIN SplitDateRange(1, LastDay, ChunkDays) :
                SplitDateRange(1, LastDay, ChunkDays)[i] \in taken' \cup store.marks
<1>3. Inv /\ [Next]_vars => [Covered]_vars
    <2> SUFFICES ASSUME PassInv, IngestInv, [Next]_vars, wave.pc = "sending", wave.next = 0,
                        faults' = faults, wave'.pc # "sending",
                        NEW v \in AllChunks
                 PROVE  v \in taken' \cup store.marks
        BY DEF AllChunks, Range
    <2>1. SendWave
        <3>1. faults \in Nat
            BY Parts DEF BoundsOK
        <3>2. ~SendWaveFails
            BY <3>1 DEF SendWaveFails, Fault
        <3> QED BY <3>2 DEF Next, vars, HccPublishes, PlanWave, ReadBaseline, WaveDrained, WaveTimesOut,
                   TrackerCompletes, TrackerPauses, ScriptFails, Deliver, LaneSteps, EndBatch,
                   InvocationDies, HourlySync
    <2>2. taken' = taken \cup Range(wave.plan)
        BY <2>1 DEF SendWave
    <2> QED BY <2>2 DEF PassInv
<1> HIDE DEF Inv, Covered
<1>4. Spec => [][Covered]_vars
    BY <1>1, <1>2, <1>3, PTL DEF Spec
<1> QED BY <1>4 DEF Covered, PassCoversRange

-----------------------------------------------------------------------------
(* The windows under way                                                   *)

\* The windows of the messages and those that are before the workers.
OnWay(w) ==
    \/ \E m \in DOMAIN queue : w \in Range(m.windows)
    \/ \E i \in DOMAIN batch : w \in Range(batch[i].message.windows)
    \/ \E x \in lanes : w \in Range(x.todo)

\* The workers have no other windows than their messages had.
LanesOnWay == \A x \in lanes' : \A w \in Range(x.todo) : OnWay(w)

LEMMA SettledOnWay ==
    ASSUME TypeOK, NEW l \in lanes, lanes' \subseteq lanes \cup NextLanes(l.message)
    PROVE  LanesOnWay
<1>1. \A x \in NextLanes(l.message) :
          \E j \in DOMAIN batch : Range(x.todo) \subseteq Range(batch[j].message.windows)
    BY LaneTypes, LanesThatFollow
<1> QED BY <1>1 DEF LanesOnWay, OnWay

LEMMA GoToOnWay ==
    ASSUME TypeOK, NEW l \in lanes, NEW stage \in LaneStages, GoTo(l, stage)
    PROVE  LanesOnWay
<1>1. {} \in SUBSET Records /\ <<>> \in Seq(Records)
    OBVIOUS
<1>2. PICK x \in Lanes : lanes' = (lanes \ {l}) \cup {x} /\ x.todo = l.todo
    BY <1>1, MovedIsTyped DEF GoTo, OneMoved
<1> QED BY <1>2 DEF LanesOnWay, OnWay

LEMMA FinishOnWay ==
    ASSUME TypeOK, NEW l \in lanes, Finish(l) \/ Escape(l)
    PROVE  LanesOnWay
<1>1. CASE Finish(l) /\ Len(l.todo) > 1
    <2> DEFINE x == [l EXCEPT !.todo = Tail(@), !.first = {}, !.got = <<>>,
                              !.pc = FirstStage(batch[l.message].message.force)]
    <2>1. Range(l.todo) = {Window(l)} \cup Range(x.todo)
        BY <1>1, NextWindow
    <2>2. lanes' = (lanes \ {l}) \cup {x}
        BY <1>1 DEF Finish
    <2> HIDE DEF x
    <2> QED BY <2>1, <2>2 DEF LanesOnWay, OnWay
<1>2. CASE Escape(l) \/ (Finish(l) /\ ~(Len(l.todo) > 1))
    <2>1. lanes' \subseteq lanes \cup NextLanes(l.message)
        BY <1>2 DEF Finish, Escape
    <2> QED BY <2>1, SettledOnWay
<1> QED BY <1>1, <1>2

\* What a step of a worker adds: the days of a window that it splits.
LEMMA LaneStepOnWay ==
    ASSUME IngestInv, LaneSteps
    PROVE  /\ \A w : OnWay(w)' =>
                 \/ OnWay(w)
                 \/ w[1] = w[2] /\ w \in Windows /\ \E v : OnWay(v) /\ v[1] # v[2] /\ v \in Windows
           /\ \A w \in store'.marks : w \in store.marks \/ OnWay(w)
<1>1. PICK l \in lanes :
          \/ Check(l) \/ FetchFirst(l) \/ FetchRest(l) \/ SplitWindow(l)
          \/ ApplyWindow(l) \/ Report(l) \/ Rescue(l)
    BY DEF LaneSteps
<1>2. TypeOK /\ FetchedFrom(l, published) /\ store \in StoreStates /\ SameMessages
    BY LaneStepEffect DEF IngestInv, FetchInv, TypeOK, LaneEffect, Steady
<1>3. Window(l) \in Windows /\ l.got \in Seq(Records) /\ OnWay(Window(l))
    <2>1. Window(l) \in Windows /\ l.got \in Seq(Records) /\ Window(l) = l.todo[1]
          /\ l.todo \in Seq(Windows) /\ Len(l.todo) \in Nat \ {0}
        BY <1>2, LaneTypes
    <2>2. 1 \in 1 .. Len(l.todo)
        BY <2>1
    <2>3. Window(l) \in Range(l.todo)
        BY <2>1, <2>2, RangeOf
    <2> QED BY <2>1, <2>3 DEF OnWay
<1>4. LanesOnWay
    <2>1. CASE GoTo(l, "page1") \/ GoTo(l, "rescue") \/ GoTo(l, "report")
        BY <1>2, <2>1, GoToOnWay DEF LaneStages
    <2>2. CASE Finish(l) \/ Escape(l)
        BY <1>2, <2>2, FinishOnWay
    <2>3. CASE FirstAnswer(l) \/ RestAnswer(l)
        <3>1. PICK x \in Lanes : lanes' = (lanes \ {l}) \cup {x} /\ x.todo = l.todo
            BY <1>2, <2>3, FirstAnswerFetches, RestAnswerFetches
        <3> QED BY <3>1 DEF LanesOnWay, OnWay
    <2> QED BY <1>1, <2>1, <2>2, <2>3
            DEF Check, FetchFirst, FirstAnswer, FetchRest, RestAnswer, SplitWindow, ApplyWindow, Report, Rescue
<1>5. ASSUME NEW m \in DOMAIN queue', m \notin DOMAIN queue, NEW w \in Range(m.windows)
      PROVE  w[1] = w[2] /\ w \in Windows /\ Window(l)[1] # Window(l)[2]
    <2> DEFINE messages == PackMessages(DaysToEnqueue(Window(l)), batch[l.message].message.force)
    <2>1. /\ l.pc = "split"
          /\ queue' = Sent(messages) \/ queue' \in PartlySent(messages)
        BY <1>1, <1>5 DEF Check, FetchFirst, FetchRest, SplitWindow, ApplyWindow, Report, Rescue
    <2>2. /\ DaysToEnqueue(Window(l)) \in Seq(Windows)
          /\ Range(DaysToEnqueue(Window(l))) = {<<d, d>> : d \in Window(l)[1] .. Window(l)[2]}
          /\ batch[l.message].message.force \in BOOLEAN
        <3>1. batch[l.message].message \in Messages
            BY <1>2, LaneTypes, BatchEntries
        <3> QED BY <1>3, <3>1, DaysOfWindow DEF DaysToEnqueue, Messages
    <2>3. /\ messages \in Seq(Messages)
          /\ \A k \in Range(messages) : Range(k.windows) \subseteq Range(DaysToEnqueue(Window(l)))
        BY <2>2, PackedMessages
    <2> HIDE DEF messages
    <2>4. DOMAIN queue' \subseteq DOMAIN queue \cup Range(messages)
        BY <1>2, <2>1, <2>3, QueueIsOK, SentQueue
    <2>5. w \in Range(DaysToEnqueue(Window(l)))
        BY <1>5, <2>3, <2>4
    <2>6. w \in Windows
        BY <2>2, <2>5, RangeOf
    <2> QED BY <1>2, <2>1, <2>2, <2>5, <2>6 DEF FetchedFrom
<1>6. ASSUME NEW w, OnWay(w)'
      PROVE  \/ OnWay(w)
             \/ w[1] = w[2] /\ w \in Windows /\ \E v : OnWay(v) /\ v[1] # v[2] /\ v \in Windows
    <2>1. CASE \E m \in DOMAIN queue' : w \in Range(m.windows)
        BY <2>1, <1>3, <1>5 DEF OnWay
    <2>2. CASE \E i \in DOMAIN batch' : w \in Range(batch'[i].message.windows)
        BY <2>2, <1>2 DEF SameMessages, OnWay
    <2>3. CASE \E x \in lanes' : w \in Range(x.todo)
        BY <2>3, <1>4 DEF LanesOnWay
    <2> QED BY <1>6, <2>1, <2>2, <2>3 DEF OnWay
<1>7. store'.marks \subseteq store.marks \cup {Window(l)}
    <2> DEFINE w == Window(l)
               applied == AppliedWindow(store, w, l.got, "backfill")
               torn == TornWindow(store, w, l.got, "backfill")
    <2>1. \/ store' = store \/ store' = FailureRecorded(store, w)
          \/ store' = applied \/ store' \in torn
        BY <1>1 DEF Check, FetchFirst, FetchRest, SplitWindow, ApplyWindow, Report, Rescue, Rescued
    <2>2. applied.marks = store.marks \cup {w}
        <3>1. StoredAll(store, w, l.got, "backfill", applied)
            BY <1>2, <1>3, AppliedStore
        <3> HIDE DEF applied
        <3> QED BY <3>1 DEF StoredAll
    <2>3. \A t \in torn : t.marks \subseteq store.marks \cup {w}
        BY <1>2, <1>3, TornStore
    <2>4. FailureRecorded(store, w).marks = store.marks
        BY <1>2, <1>3, RecordedStore
    <2> HIDE DEF applied, torn
    <2> QED BY <2>1, <2>2, <2>3, <2>4
<1> QED BY <1>3, <1>6, <1>7

\* What the script sends joins the windows under way, and a split adds days; what is
\* delivered again was under way before. Only those, and the hourly window, get a watermark.
LEMMA OnWayStep ==
    ASSUME IngestInv, [Next]_vars
    PROVE  /\ \A w : OnWay(w)' =>
                 \/ OnWay(w)
                 \/ (SendWave \/ SendWaveFails) /\ w \in Range(wave.plan)
                 \/ w[1] = w[2] /\ w \in Windows /\ \E v : OnWay(v) /\ v[1] # v[2] /\ v \in Windows
           /\ store.marks \subseteq store'.marks
           /\ hours' = 0 /\ hours \in Nat => \A w \in store'.marks : w \in store.marks \/ OnWay(w)
<1>1. TypeOK /\ store \in StoreStates
    BY Parts
<1>2. Kept(store, store) /\ Kept(store, Flushed(store)) /\ Flushed(store).marks = store.marks
    BY <1>1, KeptByOthers, DerivedStore
<1>3. ASSUME UNCHANGED <<queue, batch, lanes>>
      PROVE  \A w : OnWay(w)' => OnWay(w)
    BY <1>3 DEF OnWay
<1>4. CASE UNCHANGED vars \/ HccPublishes \/ PlanWave
    BY <1>3, <1>4 DEF vars, HccPublishes, PlanWave
<1>5. CASE ReadBaseline \/ WaveDrained \/ WaveTimesOut \/ TrackerCompletes \/ TrackerPauses
           \/ ScriptFails
    <2>1. ScriptOnly
        BY <1>5 DEF ReadBaseline, WaveDrained, WaveTimesOut, TrackerCompletes, TrackerPauses, ScriptFails
    <2> QED BY <1>3, <2>1 DEF ScriptOnly
<1>6. CASE HourlySync
    <2>1. UNCHANGED <<queue, batch, lanes>> /\ hours' = hours + 1 /\ Kept(store, store')
        BY <1>6, HourlyKeeps DEF HourlySync
    <2> QED BY <1>3, <2>1 DEF Kept, Grows
<1>7. CASE SendWave \/ SendWaveFails
    <2> DEFINE messages == PackMessages(wave.plan, wave.force)
    <2>1. wave.plan \in Seq(Windows) /\ wave.force \in BOOLEAN
        BY Parts DEF WaveStates
    <2>2. /\ messages \in Seq(Messages)
          /\ \A m \in Range(messages) : Range(m.windows) \subseteq Range(wave.plan)
        BY <2>1, PackedMessages
    <2>3. /\ queue' = Sent(messages) \/ queue' \in PartlySent(messages)
          /\ UNCHANGED <<store, batch, lanes>>
        BY <1>7 DEF SendWave, SendWaveFails
    <2> HIDE DEF messages
    <2>4. DOMAIN queue' \subseteq DOMAIN queue \cup Range(messages)
        BY <2>2, <2>3, Parts, SentQueue
    <2>5. \A w : OnWay(w)' => OnWay(w) \/ w \in Range(wave.plan)
        BY <2>2, <2>3, <2>4 DEF OnWay
    <2> QED BY <1>7, <2>3, <2>5
<1>8. CASE Deliver
    <2>1. /\ \A x \in lanes' : \E i \in DOMAIN batch' : Range(x.todo) \subseteq Range(batch'[i].message.windows)
          /\ DOMAIN queue' \subseteq DOMAIN queue
          /\ \A i \in DOMAIN batch' : batch'[i].message \in DOMAIN queue
        BY <1>1, <1>8, DeliveredBatch
    <2>2. \A w : OnWay(w)' => OnWay(w)
        BY <2>1 DEF OnWay
    <2> QED BY <1>8, <2>2 DEF Deliver
<1>9. CASE LaneSteps
    <2>1. Kept(store, store')
        BY <1>9, LaneStepEffect DEF LaneEffect
    <2> QED BY <1>9, <2>1, LaneStepOnWay DEF Kept, Grows
<1>10. CASE EndBatch \/ InvocationDies
    <2>1. PICK is \in SUBSET DOMAIN batch : queue' = Requeued(is)
        BY <1>10 DEF EndBatch, InvocationDies, RetriedMessages
    <2>2. batch' = <<>> /\ lanes' = {} /\ store' \in {store, Flushed(store)}
        BY <1>10 DEF EndBatch, InvocationDies
    <2>3. \A m \in DOMAIN queue' : m \in DOMAIN queue \/ \E i \in is : m.windows = batch[i].message.windows
        BY <1>1, <2>1, RequeuedQueue
    <2>4. \A w : OnWay(w)' => \E m \in DOMAIN queue' : w \in Range(m.windows)
        BY <2>2 DEF OnWay
    <2>5. \A w : OnWay(w)' => OnWay(w)
        BY <2>1, <2>3, <2>4 DEF OnWay
    <2> QED BY <1>2, <2>2, <2>5
<1> QED BY <1>4, <1>5, <1>6, <1>7, <1>8, <1>9, <1>10 DEF Next

-----------------------------------------------------------------------------
(* What the script takes for progress                                      *)

\* The windows that the Worker's count of the progress looks at.
Counted(w) == w[1] = w[2] <=> ChunkDays = 1

CountedMarks == {w \in store.marks : Counted(w)}

\* The chunks up to v that no pass has sent or found ingested.
LeftUpTo(v) == {u \in AllChunks : u[1] <= v[1] /\ u \notin taken \cup store.marks}

\* A chunk that a wave has sent, perhaps one whose sending failed halfway: then it is
\* among the first that are left.
Near(v) ==
    /\ v \in AllChunks
    /\ v \in taken \cup store.marks \/ Cardinality(LeftUpTo(v)) <= MaxEnqueuePerWave

Known(w) == (w[1] = w[2] /\ ChunkDays # 1) \/ Near(w)

LEMMA ChunkWindows ==
    /\ AllChunks \subseteq Windows
    /\ \A S \in SUBSET Windows : IsFiniteSet(S) /\ Cardinality(S) \in Nat
    /\ \A v \in AllChunks : ChunkDays = 1 => v[1] = v[2]
<1>1. AllChunks \subseteq Windows
    <2>1. 1 \in Days /\ LastDay \in Days /\ 1 <= LastDay /\ ChunkDays \in Nat \ {0}
        BY StoreAssumption, BackfillAssumption DEF Days
    <2>2. SplitDateRange(1, LastDay, ChunkDays) \in Seq(Windows)
        BY <2>1, Chunks
    <2> QED BY <2>2, RangeOf DEF AllChunks
<1>2. \A S \in SUBSET Windows : IsFiniteSet(S) /\ Cardinality(S) \in Nat
    BY WindowsFinite, FS_Subset, FS_CardinalityType
<1>3. ASSUME NEW v \in AllChunks, ChunkDays = 1
      PROVE  v[1] = v[2]
    <2>1. PICK d \in ChunkStarts : v = ChunkAt(d)
        BY AllChunksAre
    <2>2. d \in 1 .. LastDay /\ LastDay \in Nat
        BY StoreAssumption DEF ChunkStarts, Days
    <2>3. d + ChunkDays - 1 = d /\ ~(d > LastDay)
        BY <1>3, <2>2
    <2> QED BY <2>1, <2>3 DEF ChunkAt
<1> QED BY <1>1, <1>2, <1>3

LEMMA ListCount ==
    ASSUME NEW S, NEW s \in Seq(S)
    PROVE  IsFiniteSet(Range(s)) /\ Cardinality(Range(s)) <= Len(s)
<1>1. Len(s) \in Nat /\ DOMAIN s = 1 .. Len(s)
    BY RangeOf
<1>2. IsFiniteSet(1 .. Len(s)) /\ Cardinality(1 .. Len(s)) = Len(s)
    BY <1>1, FS_Interval
<1>3. s \in Surjection(1 .. Len(s), Range(s))
    BY <1>1 DEF Surjection, Range
<1> QED BY <1>2, <1>3, FS_Surjection

\* Fewer chunks are left after every step.
LEMMA KnownStays ==
    ASSUME taken \subseteq taken', store.marks \subseteq store'.marks, NEW w
    PROVE  /\ Near(w) => Near(w)'
           /\ Known(w) => Known(w)'
           /\ Cardinality(LeftUpTo(w)) <= MaxEnqueuePerWave =>
                  Cardinality(LeftUpTo(w)') <= MaxEnqueuePerWave
<1>1. AllChunks' = AllChunks
    BY DEF AllChunks, SplitDateRange
<1>2. LeftUpTo(w)' \subseteq LeftUpTo(w)
    BY <1>1 DEF LeftUpTo
<1>3. LeftUpTo(w) \in SUBSET Windows
    BY ChunkWindows DEF LeftUpTo
<1>4. /\ Cardinality(LeftUpTo(w)') \in Nat /\ Cardinality(LeftUpTo(w)) \in Nat
      /\ Cardinality(LeftUpTo(w)') <= Cardinality(LeftUpTo(w))
    BY <1>2, <1>3, ChunkWindows, PartCounts
<1>5. Cardinality(LeftUpTo(w)) <= MaxEnqueuePerWave => Cardinality(LeftUpTo(w)') <= MaxEnqueuePerWave
    <2>1. MaxEnqueuePerWave \in Nat
        BY BackfillAssumption
    <2> HIDE DEF LeftUpTo
    <2> QED BY <1>4, <2>1
<1>6. Near(w) => Near(w)'
    BY <1>1, <1>5 DEF Near
<1> QED BY <1>5, <1>6 DEF Known

\* The chunks that some wave may have sent, of those that are not ingested, are no more
\* than a wave holds, once all that was recorded as sent is ingested.
Outstanding == {u \in AllChunks : u \notin store.marks /\ Near(u)}

LEMMA OutstandingCount ==
    ASSUME taken \subseteq store.marks
    PROVE  Outstanding \in SUBSET AllChunks /\ Cardinality(Outstanding) <= MaxEnqueuePerWave
<1> DEFINE T == {u[1] : u \in Outstanding}
<1>1. /\ Outstanding \subseteq AllChunks /\ Outstanding \in SUBSET Windows
      /\ IsFiniteSet(Outstanding) /\ MaxEnqueuePerWave \in Nat
    BY ChunkWindows, BackfillAssumption DEF Outstanding
<1>2. CASE Outstanding = {}
    BY <1>1, <1>2, FS_EmptySet
<1>3. CASE Outstanding # {}
    <2>1. T \subseteq Days /\ T # {}
        BY <1>1, <1>3, WindowPairs
    <2>2. T \subseteq Nat /\ IsFiniteSet(T)
        <3>1. IsFiniteSet(Days) /\ Days \subseteq Nat
            BY StoreAssumption, FS_Interval DEF Days
        <3> QED BY <2>1, <3>1, FS_Subset
    <2> HIDE DEF T
    <2>3. Max(T) \in T /\ \A x \in T : x <= Max(T)
        BY <2>1, <2>2, MaxOfFinite
    <2>4. PICK m \in Outstanding : m[1] = Max(T)
        BY <2>3 DEF T
    <2>5. \A u \in Outstanding : u[1] <= m[1]
        BY <2>3, <2>4 DEF T
    <2>6. Outstanding \subseteq LeftUpTo(m)
        BY <2>5 DEF Outstanding, LeftUpTo
    <2>7. Cardinality(LeftUpTo(m)) <= MaxEnqueuePerWave
        BY <2>4 DEF Outstanding, Near
    <2>8. LeftUpTo(m) \in SUBSET Windows
        BY ChunkWindows DEF LeftUpTo
    <2>9. /\ Cardinality(Outstanding) <= Cardinality(LeftUpTo(m))
          /\ Cardinality(Outstanding) \in Nat /\ Cardinality(LeftUpTo(m)) \in Nat
        BY <2>6, <2>8, ChunkWindows, PartCounts
    <2> QED BY <2>7, <2>9, <1>1
<1> QED BY <1>2, <1>3

\* Every window under way is a chunk that a wave has sent, or a day of one that was split;
\* and without an hourly sync so is every window with a watermark.
KnownInv ==
    /\ \A w : OnWay(w) => Known(w)
    /\ hours = 0 => \A w \in store.marks : Known(w)

\* What a wave sends are the first chunks that are left.
PlanInv ==
    /\ wave.from \in ChunkStarts
    /\ wave.pc = "sending" =>
          \A v \in Range(wave.plan) :
             v \in AllChunks /\ Cardinality(LeftUpTo(v)) <= MaxEnqueuePerWave

\* A wave of the script that more remains to be sent after, sent when all that was
\* recorded as sent before was ingested.
Alone ==
    /\ wave.pc \in {"sending", "baseline", "drain"} /\ wave.next # 0
    /\ wave.alone /\ hours = 0

\* The windows S, no more than the wave has, are all that may still be counted.
Covers(S) ==
    /\ Cardinality(S) <= Len(wave.plan)
    /\ Range(wave.plan) \subseteq S \cup store.marks
    /\ \A w : OnWay(w) /\ Counted(w) => w \in S \cup store.marks
    /\ wave.pc = "drain" => Cardinality(CountedMarks \ S) <= wave.base

AloneInv == Alone => \E S \in SUBSET AllChunks : Covers(S)

ProgressInv == KnownInv /\ PlanInv /\ AloneInv

LEMMA StepGrows ==
    ASSUME IngestInv, [Next]_vars
    PROVE  /\ taken \subseteq taken' /\ store.marks \subseteq store'.marks
           /\ hours \in Nat /\ (hours' = 0 => hours = 0)
<1>1. hours \in Nat
    BY Parts, BackfillAssumption DEF BoundsOK
<1>2. taken \subseteq taken' /\ (hours' = hours \/ hours' = hours + 1)
    BY DEF Next, vars, HccPublishes, PlanWave, SendWave, SendWaveFails, ReadBaseline, WaveDrained,
           WaveTimesOut, TrackerCompletes, TrackerPauses, ScriptFails, ScriptOnly, Deliver,
           LaneSteps, EndBatch, InvocationDies, HourlySync
<1>3. store.marks \subseteq store'.marks
    BY OnWayStep
<1> QED BY <1>1, <1>2, <1>3

LEMMA KnownStep ==
    ASSUME IngestInv, KnownInv, PlanInv, [Next]_vars
    PROVE  KnownInv'
<1>1. /\ taken \subseteq taken' /\ store.marks \subseteq store'.marks
      /\ hours \in Nat /\ (hours' = 0 => hours = 0)
    BY StepGrows
<1>2. ASSUME NEW w, OnWay(w)'
      PROVE  Known(w)'
    <2>1. CASE OnWay(w)
        BY <2>1, <1>1, KnownStays DEF KnownInv
    <2>2. CASE (SendWave \/ SendWaveFails) /\ w \in Range(wave.plan)
        <3>1. wave.pc = "sending"
            BY <2>2 DEF SendWave, SendWaveFails
        <3>2. Near(w)
            BY <2>2, <3>1 DEF PlanInv, Near
        <3> QED BY <3>2, <1>1, KnownStays DEF Known
    <2>3. CASE w[1] = w[2] /\ \E v : OnWay(v) /\ v[1] # v[2] /\ v \in Windows
        <3>1. PICK v : OnWay(v) /\ v[1] # v[2]
            BY <2>3
        <3>2. v \in AllChunks
            BY <3>1 DEF KnownInv, Known, Near
        <3>3. ChunkDays # 1
            BY <3>1, <3>2, ChunkWindows
        <3>4. Known(w)
            BY <2>3, <3>3 DEF Known
        <3> QED BY <3>4, <1>1, KnownStays
    <2> QED BY <1>2, <2>1, <2>2, <2>3, OnWayStep
<1>3. ASSUME hours' = 0, NEW w \in store'.marks
      PROVE  Known(w)'
    <2>1. w \in store.marks \/ OnWay(w)
        BY <1>1, <1>3, OnWayStep
    <2>2. Known(w)
        BY <1>1, <1>3, <2>1 DEF KnownInv
    <2> QED BY <1>1, <2>2, KnownStays
<1> QED BY <1>2, <1>3 DEF KnownInv

LEMMA PlanInvStep ==
    ASSUME IngestInv, PassInv, PlanInv, [Next]_vars
    PROVE  PlanInv'
<1>1. AllChunks' = AllChunks /\ ChunkStarts' = ChunkStarts
    BY DEF AllChunks, SplitDateRange, ChunkStarts
<1>2. CASE PlanWave
    <2>1. Planned /\ UNCHANGED <<taken, store>> /\ TypeOK
        BY <1>2, Parts, PlanStep DEF PlanWave
    <2>2. ASSUME NEW v \in Range(wave'.plan)
          PROVE  Cardinality(LeftUpTo(v)') <= MaxEnqueuePerWave
        <3>1. LeftUpTo(v)' \subseteq Range(wave'.plan)
            BY <1>1, <2>1 DEF Planned, LeftUpTo
        <3>2. /\ wave'.plan \in Seq(Windows) /\ Len(wave'.plan) <= MaxEnqueuePerWave
              /\ Len(wave'.plan) \in Nat
            BY <2>1, RangeOf DEF Planned
        <3>3. /\ IsFiniteSet(Range(wave'.plan)) /\ Cardinality(Range(wave'.plan)) <= Len(wave'.plan)
              /\ Cardinality(Range(wave'.plan)) \in Nat
            BY <3>2, ListCount, FS_CardinalityType
        <3>4. /\ Cardinality(LeftUpTo(v)') <= Cardinality(Range(wave'.plan))
              /\ Cardinality(LeftUpTo(v)') \in Nat
            BY <3>1, <3>3, PartCounts
        <3> QED BY <3>2, <3>3, <3>4, BackfillAssumption
    <2> QED BY <1>1, <2>1, <2>2 DEF PlanInv, Planned
<1>3. CASE UNCHANGED wave
    <2>1. taken \subseteq taken' /\ store.marks \subseteq store'.marks
        BY StepGrows
    <2>2. ASSUME wave'.pc = "sending", NEW v \in Range(wave'.plan)
          PROVE  v \in AllChunks /\ Cardinality(LeftUpTo(v)') <= MaxEnqueuePerWave
        <3>1. v \in AllChunks /\ Cardinality(LeftUpTo(v)) <= MaxEnqueuePerWave
            BY <1>3, <2>2 DEF PlanInv
        <3> QED BY <2>1, <3>1, KnownStays
    <2> QED BY <1>1, <1>3, <2>2 DEF PlanInv
<1>4. CASE \/ SendWave \/ SendWaveFails \/ ReadBaseline \/ WaveDrained \/ WaveTimesOut
           \/ TrackerCompletes \/ TrackerPauses \/ ScriptFails
    <2>1. wave \in WaveStates /\ wave.from \in ChunkStarts
        BY Parts DEF PlanInv
    <2>2. wave'.from \in {1, wave.from} /\ wave'.pc # "sending"
        <3>1. NoWave.from = 1 /\ NoWave.pc = "idle"
            BY DEF NoWave
        <3>2. \A f : /\ [NoWave EXCEPT !.pc = "track", !.from = f].from = f
                     /\ [NoWave EXCEPT !.pc = "track", !.from = f].pc = "track"
            BY DEF NoWave
        <3>3. CASE SendWave
            BY <2>1, <3>1, <3>2, <3>3 DEF SendWave, WaveStates
        <3>4. CASE ReadBaseline
            BY <2>1, <3>4 DEF ReadBaseline, WaveStates
        <3>5. CASE WaveDrained \/ WaveTimesOut
            BY <2>1, <3>5 DEF WaveDrained, WaveTimesOut, WaveStates
        <3> QED BY <1>4, <3>1, <3>3, <3>4, <3>5
                DEF SendWaveFails, TrackerCompletes, TrackerPauses, ScriptFails
    <2> QED BY <1>1, <2>1, <2>2, AllChunksAre DEF PlanInv
<1> QED BY <1>2, <1>3, <1>4
        DEF Next, vars, HccPublishes, Deliver, LaneSteps, EndBatch, InvocationDies, HourlySync

\* A wave starts: what is outstanding is what it takes.
LEMMA AloneStarts ==
    ASSUME IngestInv, PassInv, KnownInv, PlanInv', Planned, PlanWave, Alone'
    PROVE  \E S \in SUBSET AllChunks : Covers(S)'
<1>1. /\ UNCHANGED <<queue, batch, lanes, taken, store, hours>>
      /\ taken \subseteq store.marks /\ wave'.pc = "sending"
    <2>1. wave'.alone = (taken \subseteq store.marks) /\ wave'.pc = "sending"
        BY DEF PlanWave
    <2> QED BY <2>1 DEF PlanWave, Alone
<1>2. AllChunks' = AllChunks
    BY DEF AllChunks, SplitDateRange
<1>3. /\ Cardinality(Outstanding) <= MaxEnqueuePerWave /\ Outstanding \in SUBSET AllChunks
      /\ Len(wave'.plan) = MaxEnqueuePerWave
    BY <1>1, OutstandingCount DEF Planned, Alone
<1>4. ASSUME NEW v \in Range(wave'.plan), v \notin store.marks
      PROVE  v \in Outstanding
    <2>1. v \in AllChunks /\ Cardinality(LeftUpTo(v)') <= MaxEnqueuePerWave
        BY <1>1, <1>2, <1>4 DEF PlanInv
    <2>2. LeftUpTo(v)' = LeftUpTo(v)
        BY <1>1, <1>2 DEF LeftUpTo
    <2> QED BY <1>4, <2>1, <2>2 DEF Outstanding, Near
<1>5. ASSUME NEW w, OnWay(w)', Counted(w)', w \notin store.marks
      PROVE  w \in Outstanding
    <2>1. OnWay(w) /\ Counted(w)
        BY <1>1, <1>5 DEF OnWay, Counted
    <2>2. Near(w)
        BY <2>1 DEF KnownInv, Known, Counted
    <2> QED BY <1>5, <2>2 DEF Outstanding, Near
<1>6. ASSUME NEW S, S = Outstanding
      PROVE  Covers(S)'
    <2>1. Cardinality(S) <= Len(wave'.plan)
        BY <1>3, <1>6
    <2>2. Range(wave'.plan) \subseteq S \cup store'.marks
        BY <1>1, <1>4, <1>6
    <2>3. \A w : OnWay(w)' /\ Counted(w)' => w \in S \cup store'.marks
        BY <1>1, <1>5, <1>6
    <2> QED BY <1>1, <2>1, <2>2, <2>3 DEF Covers
<1> QED BY <1>3, <1>6

LEMMA AloneStep ==
    ASSUME IngestInv, PassInv, ProgressInv, KnownInv', PlanInv', [Next]_vars
    PROVE  AloneInv'
<1> SUFFICES ASSUME Alone'
             PROVE  \E S \in SUBSET AllChunks : Covers(S)'
    <2>1. AllChunks' = AllChunks
        BY DEF AllChunks, SplitDateRange
    <2> QED BY <2>1 DEF AloneInv
<1>1. CASE PlanWave
    <2>1. Planned
        BY <1>1, Parts, PlanStep
    <2> QED BY <1>1, <2>1, AloneStarts DEF ProgressInv
<1>2. CASE ~PlanWave
    <2>1. /\ taken \subseteq taken' /\ store.marks \subseteq store'.marks
          /\ hours \in Nat /\ (hours' = 0 => hours = 0)
        BY StepGrows
    <2>2. /\ wave'.plan = wave.plan /\ wave'.next = wave.next /\ wave'.alone = wave.alone
          /\ wave.pc \in {"sending", "baseline", "drain"}
          /\ \/ wave' = wave
             \/ wave'.pc = "baseline"
             \/ wave'.pc = "drain" /\ wave'.base = Completed(1) /\ UNCHANGED store
        <3>1. wave \in WaveStates
            BY Parts
        <3>2. CASE wave' = wave
            BY <3>2 DEF Alone
        <3>3. CASE SendWave
            <4>1. wave' # NoWave /\ ~(\E f : wave' = [NoWave EXCEPT !.pc = "track", !.from = f])
                <5>1. NoWave.pc = "idle" /\ \A f : [NoWave EXCEPT !.pc = "track", !.from = f].pc = "track"
                    BY DEF NoWave
                <5>2. wave'.pc \in {"sending", "baseline", "drain"}
                    BY DEF Alone
                <5> HIDE DEF NoWave
                <5> QED BY <5>1, <5>2
            <4>2. wave' = [wave EXCEPT !.pc = "baseline"] /\ wave.pc = "sending"
                BY <3>3, <4>1 DEF SendWave
            <4> QED BY <3>1, <4>2 DEF WaveStates
        <3>4. CASE ReadBaseline
            <4>1. wave' = [wave EXCEPT !.pc = "drain", !.base = Completed(1)] /\ wave.pc = "baseline"
                  /\ UNCHANGED store
                BY <3>4 DEF ReadBaseline, ScriptOnly
            <4> HIDE DEF Completed
            <4> QED BY <3>1, <4>1 DEF WaveStates
        <3>5. CASE WaveDrained \/ WaveTimesOut
            <4>1. wave' = [wave EXCEPT !.pc = "post", !.plan = <<>>, !.base = 0, !.alone = TRUE]
                BY <3>5 DEF WaveDrained, WaveTimesOut
            <4>2. wave'.pc = "post"
                BY <3>1, <4>1 DEF WaveStates
            <4> QED BY <4>2 DEF Alone
        <3>6. CASE SendWaveFails \/ TrackerCompletes \/ TrackerPauses \/ ScriptFails
            <4>1. wave' = NoWave
                BY <3>6 DEF SendWaveFails, TrackerCompletes, TrackerPauses, ScriptFails
            <4> QED BY <4>1 DEF Alone, NoWave
        <3> QED BY <1>2, <3>2, <3>3, <3>4, <3>5, <3>6
                DEF Next, vars, HccPublishes, Deliver, LaneSteps, EndBatch, InvocationDies, HourlySync
    <2>3. Alone
        BY <2>1, <2>2 DEF Alone
    <2>4. PICK S \in SUBSET AllChunks : Covers(S)
        BY <2>3 DEF ProgressInv, AloneInv
    <2>5. ASSUME NEW w, OnWay(w)', Counted(w)'
          PROVE  w \in S \cup store'.marks
        <3>1. Counted(w)
            BY <2>5 DEF Counted
        <3>2. CASE OnWay(w)
            BY <2>1, <2>4, <3>1, <3>2 DEF Covers
        <3>3. CASE w \in Range(wave.plan)
            BY <2>1, <2>4, <3>3 DEF Covers
        <3>4. CASE w[1] = w[2] /\ \E v : OnWay(v) /\ v[1] # v[2] /\ v \in Windows
            <4>1. PICK v : OnWay(v) /\ v[1] # v[2]
                BY <3>4
            <4>2. v \in AllChunks
                BY <4>1 DEF ProgressInv, KnownInv, Known, Near
            <4> QED BY <3>1, <3>4, <4>1, <4>2, ChunkWindows DEF Counted
        <3> QED BY <2>5, <3>2, <3>3, <3>4, OnWayStep
    <2>6. ASSUME wave'.pc = "drain"
          PROVE  Cardinality(CountedMarks' \ S) <= wave'.base
        <3>1. CountedMarks \in SUBSET Windows /\ CountedMarks \ S \in SUBSET Windows
            BY Parts, StoreParts DEF CountedMarks
        <3>2. CASE wave'.base = Completed(1) /\ UNCHANGED store
            <4>1. \A w \in Windows : 1 <= w[1] /\ w[2] <= LastDay
                BY WindowPairs, StoreAssumption DEF Days
            <4>2. Completed(1) = Cardinality(CountedMarks)
                <5>1. {w \in store.marks : 1 <= w[1] /\ w[2] <= LastDay /\ (w[1] = w[2] <=> ChunkDays = 1)}
                         = CountedMarks
                    BY <4>1, Parts, StoreParts DEF CountedMarks, Counted
                <5> QED BY <5>1 DEF Completed, CountIngestWatermarksInRange
            <4>3. CountedMarks' = CountedMarks
                BY <3>2 DEF CountedMarks, Counted
            <4>4. Cardinality(CountedMarks \ S) <= Cardinality(CountedMarks)
                BY <3>1, ChunkWindows, PartCounts
            <4> QED BY <3>2, <4>2, <4>3, <4>4
        <3>3. CASE wave' = wave
            <4>1. CountedMarks' \ S \subseteq CountedMarks \ S
                <5> SUFFICES ASSUME NEW w \in CountedMarks', w \notin S
                             PROVE  w \in CountedMarks
                    OBVIOUS
                <5>1. w \in store'.marks /\ Counted(w)
                    BY DEF CountedMarks, Counted
                <5>2. w \in store.marks \/ OnWay(w)
                    BY <2>1, <5>1, OnWayStep DEF Alone
                <5> QED BY <2>4, <5>1, <5>2 DEF Covers, CountedMarks
            <4>2. /\ Cardinality(CountedMarks' \ S) <= Cardinality(CountedMarks \ S)
                  /\ Cardinality(CountedMarks' \ S) \in Nat /\ Cardinality(CountedMarks \ S) \in Nat
                BY <3>1, <4>1, ChunkWindows, PartCounts
            <4>3. Cardinality(CountedMarks \ S) <= wave.base /\ wave.base \in Nat
                BY <2>4, <2>6, <3>3, Parts DEF Covers, WaveStates
            <4> QED BY <3>3, <4>2, <4>3
        <3> QED BY <2>2, <2>6, <3>2, <3>3
    <2>7. Covers(S)'
        <3>1. Cardinality(S) <= Len(wave'.plan) /\ Range(wave'.plan) \subseteq S \cup store'.marks
            BY <2>1, <2>2, <2>4 DEF Covers
        <3> QED BY <2>5, <2>6, <3>1 DEF Covers
    <2> QED BY <2>4, <2>7
<1> QED BY <1>1, <1>2

LEMMA ProgressStep ==
    ASSUME IngestInv, PassInv, ProgressInv, [Next]_vars
    PROVE  ProgressInv'
<1>1. KnownInv' /\ PlanInv'
    BY KnownStep, PlanInvStep DEF ProgressInv
<1>2. AloneInv'
    BY <1>1, AloneStep
<1> QED BY <1>1, <1>2 DEF ProgressInv

\* The script goes on without a timeout when as many windows were ingested as the wave has:
\* they are those of the wave.
LEMMA DrainedIsOwn ==
    ASSUME IngestInv, ProgressInv, hours = 0, WaveDrained, wave.alone
    PROVE  Range(wave.plan) \subseteq store.marks
<1>1. /\ wave.pc = "drain" /\ wave.next # 0
      /\ Completed(1) - wave.base >= Len(wave.plan)
      /\ wave.base \in Nat /\ Len(wave.plan) \in Nat
    <2>1. wave \in WaveStates /\ wave.pc = "drain" /\ (wave.next = 0 => wave.pc = "sending")
        BY Parts DEF WaveDrained
    <2>2. wave.plan \in Seq(Windows) /\ wave.base \in Nat
        BY <2>1 DEF WaveStates
    <2>3. Len(wave.plan) \in Nat
        BY <2>2, RangeOf
    <2> QED BY <2>1, <2>2, <2>3 DEF WaveDrained
<1>2. PICK S \in SUBSET AllChunks : Covers(S)
    BY <1>1 DEF ProgressInv, AloneInv, Alone
<1>3. Completed(1) = Cardinality(CountedMarks) /\ CountedMarks \in SUBSET Windows
    <2>1. \A w \in Windows : 1 <= w[1] /\ w[2] <= LastDay
        BY WindowPairs, StoreAssumption DEF Days
    <2>2. {w \in store.marks : 1 <= w[1] /\ w[2] <= LastDay /\ (w[1] = w[2] <=> ChunkDays = 1)}
             = CountedMarks
        BY <2>1, Parts, StoreParts DEF CountedMarks, Counted
    <2> QED BY <2>2, Parts, StoreParts DEF Completed, CountIngestWatermarksInRange, CountedMarks
<1>4. /\ Cardinality(CountedMarks \ S) = Cardinality(CountedMarks) - Cardinality(CountedMarks \cap S)
      /\ Cardinality(CountedMarks) \in Nat /\ Cardinality(CountedMarks \cap S) \in Nat
    BY <1>3, ChunkWindows, FS_Difference
<1>5. Cardinality(CountedMarks \ S) <= wave.base /\ Cardinality(S) <= Len(wave.plan)
      /\ Range(wave.plan) \subseteq S \cup store.marks
    BY <1>1, <1>2 DEF Covers
<1>6. /\ CountedMarks \cap S \subseteq S /\ IsFiniteSet(S) /\ Cardinality(S) \in Nat
      /\ (CountedMarks \cap S # S => Cardinality(CountedMarks \cap S) < Cardinality(S))
    BY ChunkWindows, PartCounts
<1> HIDE DEF Completed, CountedMarks
<1>7. CountedMarks \cap S = S
    BY <1>1, <1>3, <1>4, <1>5, <1>6
<1>8. S \subseteq store.marks
    BY <1>7 DEF CountedMarks
<1> QED BY <1>5, <1>8

\* The script reports completion when as many windows are ingested as it tracks: they are
\* those that it tracks.
LEMMA TrackedIsOwn ==
    ASSUME IngestInv, ProgressInv, hours = 0, TrackerCompletes
    PROVE  Range(SplitDateRange(wave.from, LastDay, ChunkDays)) \subseteq store.marks
<1> DEFINE chunks == SplitDateRange(wave.from, LastDay, ChunkDays)
           M == {w \in store.marks : wave.from <= w[1] /\ w[2] <= LastDay /\ Counted(w)}
<1>1. wave.from \in ChunkStarts /\ wave.from \in Days /\ wave.from <= LastDay /\ LastDay \in Days
      /\ ChunkDays \in Nat \ {0}
    BY StoreAssumption, BackfillAssumption DEF ProgressInv, PlanInv, ChunkStarts, Days
<1>2. /\ chunks \in Seq(Windows)
      /\ Range(chunks) = {ChunkAt(d) : d \in {e \in ChunkStarts : wave.from <= e}}
    BY <1>1, Chunks, ChunksFrom
<1>3. Cardinality(M) >= Len(chunks)
    BY DEF TrackerCompletes, Completed, Expected, CountIngestWatermarksInRange, Counted
<1> HIDE DEF chunks
<1>4. M \subseteq Range(chunks)
    <2> SUFFICES ASSUME NEW w \in M PROVE w \in Range(chunks)
        OBVIOUS
    <2>1. w \in AllChunks
        BY DEF ProgressInv, KnownInv, Known, Near, Counted
    <2>2. PICK d \in ChunkStarts : w = ChunkAt(d)
        BY <2>1, AllChunksAre
    <2>3. w[1] = d
        BY <2>2 DEF ChunkAt
    <2> QED BY <1>2, <2>2, <2>3
<1>5. M \subseteq store.marks
    OBVIOUS
<1> HIDE DEF M
<1>6. /\ IsFiniteSet(Range(chunks)) /\ Cardinality(Range(chunks)) <= Len(chunks)
      /\ Len(chunks) \in Nat /\ Cardinality(Range(chunks)) \in Nat
    BY <1>2, ListCount, RangeOf, FS_CardinalityType
<1>7. Cardinality(M) \in Nat /\ (M # Range(chunks) => Cardinality(M) < Cardinality(Range(chunks)))
    BY <1>4, <1>6, PartCounts
<1>8. M = Range(chunks)
    BY <1>3, <1>6, <1>7
<1> QED BY <1>5, <1>8 DEF chunks

\* What the script takes for progress is (waitForWaveDrain, trackBackfill), although it only
\* compares counts: unless the hourly sync adds a window, or a wave is started while others
\* are under way, the windows that are counted are its own, for any number of waves that
\* failed halfway and were started again.
THEOREM ProgressIsItsOwn == Spec => ProgressIsOwn
<1> DEFINE Inv == IngestInv /\ PassInv /\ ProgressInv
<1>1. Init => Inv
    <2> SUFFICES ASSUME Init PROVE ProgressInv /\ PassInv
        BY IngestInit
    <2>1. PassInv
        BY PassInit
    <2>2. /\ wave = NoWave /\ queue = EmptyBag /\ batch = <<>> /\ lanes = {} /\ store.marks = {}
        BY DEF Init, EmptyStore
    <2>3. DOMAIN queue = {}
        BY <2>2 DEF EmptyBag, SetToBag
    <2>4. KnownInv
        BY <2>2, <2>3 DEF KnownInv, OnWay
    <2>5. PlanInv /\ AloneInv
        BY <2>2, AllChunksAre DEF PlanInv, AloneInv, Alone, NoWave
    <2> QED BY <2>1, <2>4, <2>5 DEF ProgressInv
<1>2. Inv /\ [Next]_vars => Inv'
    BY IngestStep, PassStep, ProgressStep
<1> DEFINE Own ==
        hours = 0 =>
            /\ WaveDrained /\ wave.alone => Range(wave.plan) \subseteq store.marks
            /\ TrackerCompletes =>
                  Range(SplitDateRange(wave.from, LastDay, ChunkDays)) \subseteq store.marks
<1>3. Inv /\ [Next]_vars => [Own]_vars
    BY DrainedIsOwn, TrackedIsOwn
<1> HIDE DEF Inv, Own
<1>4. Spec => [][Own]_vars
    BY <1>1, <1>2, <1>3, PTL DEF Spec
<1> QED BY <1>4 DEF Own, ProgressIsOwn

=============================================================================
