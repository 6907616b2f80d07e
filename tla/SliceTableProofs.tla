-------------------------- MODULE SliceTableProofs --------------------------
(***************************************************************************)
(* The slice table for every number of connections and messages: its types *)
(* always, and that the last allocation wins when connections do not       *)
(* overlap and do not break in the middle of a message.                    *)
(***************************************************************************)
EXTENDS SliceTableProps, SequenceTheorems, TLAPS

\* The doubles of a message, or of the start of one, in their places.
LEMMA DoublesType ==
  ASSUME NEW m \in Allocations, NEW n \in 1..BUFFER_SIZE
  PROVE  /\ Doubles(m, n) \in Seq(Words)
         /\ Len(Doubles(m, n)) = n
         /\ \A i \in 1..n : Doubles(m, n)[i] = [of |-> m, at |-> i]
<1>1. \A i \in 1..n : [of |-> m, at |-> i] \in Words
  BY SliceTableAssumption DEF Words
<1> QED BY <1>1, SliceTableAssumption DEF Doubles

\* What a double in recv_data converts to is an int.
LEMMA ConversionsType ==
  ASSUME NEW b \in Seq(Words), NEW f \in Fields
  PROVE  Conversions(b, f) \subseteq StoredValues /\ StoredValues \subseteq Int
<1>1. \A m \in Allocations, g \in Fields : m[g] \in Int
  BY SliceTableAssumption
<1>2. StoredValues \subseteq Int
  <2> SUFFICES ASSUME NEW v \in StoredValues PROVE v \in Int
    OBVIOUS
  <2>1. v \in Garbage \/ \E m \in Allocations, g \in Fields : v = m[g]
    BY DEF StoredValues
  <2> QED BY <1>1, <2>1, SliceTableAssumption
<1>3. f <= Len(b) => b[f] \in Words
  BY DEF Fields
<1>4. ASSUME f <= Len(b), NEW g \in Fields
      PROVE  b[f].of[g] \in StoredValues
  BY <1>3, <1>4 DEF Words, StoredValues
<1> QED BY <1>2, <1>4 DEF Conversions, InFrame, StoredValues

\* Copying moves a piece of the stream behind what is in the buffer: nothing is
\* lost, and the whole of it stays as it was.
LEMMA CopyMoves ==
  ASSUME NEW b \in Seq(Words), NEW x \in Seq(Words), NEW n \in 1..Len(x)
  PROVE  /\ SubSeq(x, 1, n) \in Seq(Words) /\ SubSeq(x, n + 1, Len(x)) \in Seq(Words)
         /\ b \o SubSeq(x, 1, n) \in Seq(Words)
         /\ Len(b \o SubSeq(x, 1, n)) = Len(b) + n
         /\ (b \o SubSeq(x, 1, n)) \o SubSeq(x, n + 1, Len(x)) = b \o x
<1> DEFINE y == SubSeq(x, 1, n)
           z == SubSeq(x, n + 1, Len(x))
<1>1. \A i \in 1..Len(x) : x[i] \in Words
  BY ElementOfSeq
<1>2. y \in Seq(Words) /\ Len(y) = n
  BY <1>1, SubSeqProperties
<1>3. z \in Seq(Words)
  BY <1>1, SubSeqProperties
<1>4. y \o z = x
  <2>1. y \o z = SubSeq(x, 1, Len(x))
    BY ConcatAdjacentSubSeq
  <2> QED BY <2>1, SubSeqFull
<1> HIDE DEF y, z
<1>5. (b \o y) \o z = b \o (y \o z)
  BY <1>2, <1>3, ConcatAssociative
<1>6. b \o y \in Seq(Words) /\ Len(b \o y) = Len(b) + n
  BY <1>2, ConcatProperties
<1> QED BY <1>2, <1>3, <1>4, <1>5, <1>6 DEF y, z

\* A double in a stream is one of a message, at its place.
LEMMA WordType ==
  ASSUME NEW s \in Seq(Words), NEW i \in 1..Len(s)
  PROVE  /\ s[i].of \in Allocations
         /\ s[i].at \in 1..BUFFER_SIZE /\ s[i].at \in Nat
<1>1. s[i] \in Words
  BY ElementOfSeq
<1> QED BY <1>1, SliceTableAssumption DEF Words

\* The variables of the threads, the table and the network keep their types:
\* Initialization_ establishes them and no step of main.c leaves them.
LEMMA SliceTypeStep ==
  ASSUME SliceTypeOK, [SliceNext]_sliceVars
  PROVE  SliceTypeOK'
<1> USE DEF SliceTypeOK
<1>0. MaxAccepts \in Nat /\ MaxSends \in Nat /\ Accepts \subseteq 1..MaxAccepts
  BY SliceTableAssumption DEF Accepts
<1>1. ASSUME NEW a \in Accepts, NEW m \in Allocations, Send(a, m)
      PROVE  SliceTypeOK'
  <2>1. Doubles(m, BUFFER_SIZE) \in Seq(Words)
    BY DoublesType, SliceTableAssumption
  <2>2. inbox' \in [Accepts -> Seq(Words)]
    BY <1>1, <2>1 DEF Send
  <2>3. sends' \in 0..MaxSends
    BY <1>0, <1>1 DEF Send
  <2> QED BY <1>1, <2>2, <2>3 DEF Send, tableVars, threadVars
<1>2. ASSUME NEW a \in Accepts, Close(a)
      PROVE  SliceTypeOK'
  BY <1>2 DEF Close, tableVars, threadVars
<1>3. ASSUME NEW a \in Accepts, NEW m \in Allocations, NEW n \in TruncateAt,
             Break(a, m, n)
      PROVE  SliceTypeOK'
  <2>1. Doubles(m, n) \in Seq(Words)
    BY DoublesType, SliceTableAssumption
  <2>2. inbox' \in [Accepts -> Seq(Words)]
    BY <1>3, <2>1 DEF Break
  <2>3. sends' \in 0..MaxSends
    BY <1>0, <1>3 DEF Break
  <2> QED BY <1>3, <2>2, <2>3 DEF Break, tableVars, threadVars
<1>4. ASSUME NEW a \in Accepts, Accept(a)
      PROVE  SliceTypeOK'
  <2>1. a \in 0..MaxAccepts
    BY <1>0
  <2>2. open' \subseteq Accepts
    BY <1>4 DEF Accept
  <2>3. pc' \in [Accepts -> Places]
    BY <1>4 DEF Accept, Places
  <2> QED BY <1>4, <2>1, <2>2, <2>3 DEF Accept, tableVars
<1>5. ASSUME NEW a \in Accepts, AcceptFails(a)
      PROVE  SliceTypeOK'
  <2>1. a \in 0..MaxAccepts
    BY <1>0
  <2>2. pc' \in [Accepts -> Places]
    BY <1>5 DEF AcceptFails, Places
  <2> QED BY <1>5, <2>1, <2>2 DEF AcceptFails, tableVars
<1>6. ASSUME NEW t \in Accepts, CallRecv(t)
      PROVE  SliceTypeOK'
  BY <1>6 DEF CallRecv, tableVars, netVars, Places
<1>7. ASSUME NEW t \in Accepts, NEW n \in 1..BUFFER_SIZE, Copy(t, n)
      PROVE  SliceTypeOK'
  <2> DEFINE x == inbox[fd[t]]
             y == SubSeq(x, 1, n)
             z == SubSeq(x, n + 1, Len(x))
  <2>1. /\ x \in Seq(Words) /\ n \in 1..Len(x) /\ fd[t] \in Accepts
        /\ n <= BUFFER_SIZE - Len(buffer[t]) /\ buffer[t] \in Seq(Words)
    BY <1>7 DEF Copy
  <2>2. /\ buffer[t] \o y \in Seq(Words) /\ z \in Seq(Words)
        /\ Len(buffer[t] \o y) = Len(buffer[t]) + n
    BY <2>1, CopyMoves
  <2>3. /\ buffer' = [buffer EXCEPT ![t] = buffer[t] \o y]
        /\ inbox' = [inbox EXCEPT ![fd[t]] = z]
    BY <1>7 DEF Copy
  <2> HIDE DEF x, y, z
  <2>4. /\ buffer' \in [Accepts -> Seq(Words)]
        /\ inbox' \in [Accepts -> Seq(Words)]
    BY <2>1, <2>2, <2>3
  <2>5. ASSUME NEW u \in Accepts
        PROVE  Len(buffer'[u]) <= BUFFER_SIZE
    <3>1. CASE u = t
      BY <3>1, <2>1, <2>2, <2>3, SliceTableAssumption
    <3>2. CASE u # t
      BY <3>2, <2>3
    <3> QED BY <3>1, <3>2
  <2> QED BY <1>7, <2>4, <2>5 DEF Copy, tableVars
<1>11. ASSUME NEW t \in Accepts, Return(t)
       PROVE  SliceTypeOK'
  <2>1. PICK d1 \in Conversions(buffer[t], 1), d2 \in Conversions(buffer[t], 2),
             d3 \in Conversions(buffer[t], 3), d4 \in Conversions(buffer[t], 4) :
               data' = [data EXCEPT ![t] = <<d1, d2, d3, d4>>]
    BY <1>11 DEF Return, Deliver
  <2>2. d1 \in Int /\ d2 \in Int /\ d3 \in Int /\ d4 \in Int
    BY <2>1, ConversionsType DEF Fields
  <2>3. <<d1, d2, d3, d4>> \in [Fields -> Int]
    BY <2>2 DEF Fields
  <2>4. data' \in [Accepts -> [Fields -> Int]]
    BY <2>1, <2>3
  <2>5. buffer' = [buffer EXCEPT ![t] = <<>>] /\ <<>> \in Seq(Words) /\ Len(<<>>) = 0
    BY <1>11 DEF Return, Deliver
  <2>6. buffer' \in [Accepts -> Seq(Words)] /\ \A u \in Accepts : Len(buffer'[u]) <= BUFFER_SIZE
    BY <2>5, SliceTableAssumption
  <2>7. field' \in [Accepts -> Fields] /\ pc' \in [Accepts -> Places]
    <3>1. 1 \in Fields /\ "apply" \in Places
      BY DEF Fields, Places
    <3> QED BY <1>11, <3>1 DEF Return, Deliver
  <2> QED BY <1>11, <2>4, <2>6, <2>7 DEF Return, Deliver, tableVars, netVars
<1>8. ASSUME NEW t \in Accepts, RecvFails(t)
      PROVE  SliceTypeOK'
  BY <1>8 DEF RecvFails, tableVars, netVars, Places
<1>9. ASSUME NEW t \in Accepts, Store(t)
      PROVE  SliceTypeOK'
  <2>1. data[t][field[t]] \in Int
    OBVIOUS
  <2>2. uRB' \in [Slices -> Int] /\ dRB' \in [Slices -> Int]
    BY <1>9, <2>1 DEF Store, StoreTo, NextField
  <2>3. Nothing \in [Fields -> Int]
    BY DEF Nothing
  <2>4. data' \in [Accepts -> [Fields -> Int]]
    <3> DEFINE d == IF field[t] < 4 THEN data[t] ELSE Nothing
    <3>1. data' = [data EXCEPT ![t] = d]
      BY <1>9 DEF Store, StoreTo, NextField
    <3>2. d \in [Fields -> Int]
      BY <2>3
    <3> HIDE DEF d
    <3> QED BY <3>1, <3>2
  <2>5. field' \in [Accepts -> Fields]
    <3> DEFINE f == IF field[t] < 4 THEN field[t] + 1 ELSE 1
    <3>1. field' = [field EXCEPT ![t] = f]
      BY <1>9 DEF Store, StoreTo, NextField
    <3>2. field[t] \in Fields
      OBVIOUS
    <3>3. f \in Fields
      BY <3>2 DEF Fields
    <3> HIDE DEF f
    <3> QED BY <3>1, <3>3
  <2>6. pc' \in [Accepts -> Places]
    BY <1>9 DEF Store, StoreTo, NextField, Places
  <2> QED BY <1>9, <2>2, <2>4, <2>5, <2>6 DEF Store, StoreTo, NextField, netVars
<1>10. CASE UNCHANGED sliceVars
  BY <1>10 DEF sliceVars
<1> QED
  BY <1>1, <1>2, <1>3, <1>4, <1>5, <1>6, <1>7, <1>8, <1>9, <1>10, <1>11
     DEF SliceNext, HypervisorStep, ThreadStep

\* Every reachable state is well typed, whatever the hypervisor sends, however
\* often it reconnects, and whatever a broken connection leaves in recv_data.
THEOREM SliceTypesHold == SliceSpec => []SliceTypeOK
<1>1. SliceInit => SliceTypeOK
  BY SliceTableAssumption
     DEF SliceInit, SliceTypeOK, Fields, Slices, Accepts, BadSocket, Places,
         Nothing, InitialAllocation
<1> QED BY <1>1, SliceTypeStep, PTL DEF SliceSpec
-----------------------------------------------------------------------------
\* A message sent behind whole messages leaves whole messages.
LEMMA SendKeepsWhole ==
  ASSUME NEW s \in Seq(Words), NEW l, WholeMessages(s, l), NEW m \in Allocations
  PROVE  WholeMessages(s \o Doubles(m, BUFFER_SIZE), m)
<1> DEFINE d == Doubles(m, BUFFER_SIZE)
           r == s \o d
<1>0. BUFFER_SIZE \in Nat /\ BUFFER_SIZE >= 4 /\ BUFFER_SIZE \in 1..BUFFER_SIZE
  BY SliceTableAssumption
<1>1. /\ d \in Seq(Words) /\ Len(d) = BUFFER_SIZE
      /\ \A i \in 1..BUFFER_SIZE : d[i] = [of |-> m, at |-> i]
  BY <1>0, DoublesType
<1> HIDE DEF d
<1>2. /\ r \in Seq(Words) /\ Len(r) = Len(s) + BUFFER_SIZE
      /\ \A i \in 1..Len(s) : r[i] = s[i]
      /\ \A i \in (Len(s) + 1)..Len(r) : r[i] = [of |-> m, at |-> i - Len(s)]
      /\ Len(s) \in Nat
  <2>1. /\ r \in Seq(Words) /\ Len(r) = Len(s) + Len(d)
        /\ \A i \in 1..(Len(s) + Len(d)) :
             r[i] = IF i <= Len(s) THEN s[i] ELSE d[i - Len(s)]
    BY <1>1, ConcatProperties
  <2>2. Len(s) \in Nat
    BY LenProperties
  <2> HIDE DEF r
  <2>3. ASSUME NEW i \in (Len(s) + 1)..Len(r)
        PROVE  r[i] = [of |-> m, at |-> i - Len(s)]
    <3>1. i \in 1..(Len(s) + Len(d)) /\ ~(i <= Len(s)) /\ i - Len(s) \in 1..BUFFER_SIZE
      BY <1>0, <1>1, <2>1, <2>2
    <3>2. d[i - Len(s)] = [of |-> m, at |-> i - Len(s)]
      BY <1>1, <3>1
    <3> QED BY <2>1, <3>1, <3>2
  <2>4. \A i \in 1..Len(s) : i \in 1..(Len(s) + Len(d)) /\ i <= Len(s)
    BY <1>0, <1>1, <2>2
  <2> QED BY <1>1, <2>1, <2>2, <2>3, <2>4
<1> HIDE DEF r
<1>3. \A i \in 1..Len(s) : s[i].at \in 1..BUFFER_SIZE /\ s[i].at \in Nat
  BY WordType
<1>4. ASSUME NEW i \in 1..Len(r), NEW j \in 1..Len(r), i <= j,
             r[i].at + (j - i) <= BUFFER_SIZE
      PROVE  r[j] = [of |-> r[i].of, at |-> r[i].at + (j - i)]
  <2>1. CASE j <= Len(s)
    <3>1. i \in 1..Len(s) /\ j \in 1..Len(s)
      BY <1>2, <1>4, <2>1
    <3>2. r[i] = s[i] /\ r[j] = s[j]
      BY <1>2, <3>1
    <3> QED BY <1>4, <3>1, <3>2 DEF WholeMessages
  <2>2. CASE i > Len(s)
    <3>1. /\ r[i] = [of |-> m, at |-> i - Len(s)]
          /\ r[j] = [of |-> m, at |-> j - Len(s)]
      <4>1. i \in (Len(s) + 1)..Len(r) /\ j \in (Len(s) + 1)..Len(r)
        BY <1>2, <1>4, <2>2
      <4> QED BY <1>2, <4>1
    <3>2. (i - Len(s)) + (j - i) = j - Len(s)
      BY <1>2
    <3> QED BY <3>1, <3>2
  <2>3. CASE i <= Len(s) /\ j > Len(s)
    <3> DEFINE e == Len(s)
    <3>0. i \in 1..Len(s) /\ r[i] = s[i]
      BY <1>2, <2>3
    <3>1. e \in 1..Len(s) /\ i <= e /\ s[i].at + (e - i) <= BUFFER_SIZE
      BY <1>0, <1>2, <1>3, <1>4, <2>3, <3>0
    <3>2. s[e].at = s[i].at + (e - i)
      <4>1. s[e] = [of |-> s[i].of, at |-> s[i].at + (e - i)]
        BY <3>0, <3>1 DEF WholeMessages
      <4> HIDE DEF e
      <4> QED BY <4>1
    <3>3. s # <<>>
      BY <3>0
    <3>4. s[e].at = BUFFER_SIZE
      BY <3>3 DEF WholeMessages
    <3>5. e - i < j - i /\ s[i].at \in Nat
      BY <1>2, <1>3, <2>3, <3>0
    <3>6. s[i].at + (j - i) <= BUFFER_SIZE
      BY <1>4, <3>0
    <3>7. e \in Nat /\ i \in Nat /\ j \in Nat
      BY <1>2, <1>4, <3>1
    <3> HIDE DEF e
    <3> QED BY <1>0, <3>2, <3>4, <3>5, <3>6, <3>7
  <2> QED BY <2>1, <2>2, <2>3
<1>5. ASSUME NEW i \in 1..(Len(r) - 1), r[i].at = BUFFER_SIZE
      PROVE  r[i + 1].at = 1
  <2>1. CASE i < Len(s)
    <3>1. i \in 1..(Len(s) - 1) /\ i \in 1..Len(s) /\ i + 1 \in 1..Len(s)
      BY <1>2, <2>1
    <3>2. r[i] = s[i] /\ r[i + 1] = s[i + 1]
      BY <1>2, <3>1
    <3> QED BY <1>5, <3>1, <3>2 DEF WholeMessages
  <2>2. CASE i = Len(s)
    <3>1. i + 1 \in (Len(s) + 1)..Len(r) /\ (i + 1) - Len(s) = 1
      BY <1>0, <1>2, <2>2
    <3>2. r[i + 1] = [of |-> m, at |-> (i + 1) - Len(s)]
      BY <1>2, <3>1
    <3> QED BY <3>1, <3>2
  <2>3. CASE i > Len(s)
    <3>1. i \in (Len(s) + 1)..Len(r) /\ i - Len(s) < BUFFER_SIZE
      BY <1>0, <1>2, <2>3
    <3>2. r[i] = [of |-> m, at |-> i - Len(s)]
      BY <1>2, <3>1
    <3> QED BY <1>0, <1>5, <3>1, <3>2
  <2> QED BY <1>2, <2>1, <2>2, <2>3
<1>6. r[1].at = 1
  <2>0. Len(s) \in Nat
    BY <1>2
  <2>1. CASE Len(s) = 0
    BY <1>0, <1>2, <2>1
  <2>2. CASE Len(s) > 0
    <3>1. s # <<>> /\ 1 \in 1..Len(s)
      BY <2>2
    <3> QED BY <1>2, <3>1 DEF WholeMessages
  <2> QED BY <2>0, <2>1, <2>2
<1>7. r[Len(r)] = [of |-> m, at |-> BUFFER_SIZE]
  BY <1>0, <1>2
<1>8. WholeMessages(r, m)
  BY <1>4, <1>5, <1>6, <1>7 DEF WholeMessages
<1> QED BY <1>8 DEF r, d

\* The stream of whole messages that begins with a full buffer: the buffer is a
\* message, and whole messages follow.
LEMMA FullBufferIsMessage ==
  ASSUME NEW b \in Seq(Words), NEW x \in Seq(Words), NEW l,
         Len(b) = BUFFER_SIZE, WholeMessages(b \o x, l)
  PROVE  /\ b[1].of \in Allocations
         /\ \A f \in 1..BUFFER_SIZE : b[f] = [of |-> b[1].of, at |-> f]
         /\ x = <<>> => b[1].of = l
         /\ WholeMessages(<<>> \o x, l)
<1> DEFINE s == b \o x
<1>0. BUFFER_SIZE \in Nat /\ BUFFER_SIZE >= 4
  BY SliceTableAssumption
<1>1. /\ s \in Seq(Words) /\ Len(s) = BUFFER_SIZE + Len(x)
      /\ \A i \in 1..BUFFER_SIZE : s[i] = b[i]
      /\ \A i \in 1..Len(x) : s[BUFFER_SIZE + i] = x[i]
      /\ Len(x) \in Nat
  <2>1. /\ s \in Seq(Words) /\ Len(s) = Len(b) + Len(x)
        /\ \A i \in 1..(Len(b) + Len(x)) :
             s[i] = IF i <= Len(b) THEN b[i] ELSE x[i - Len(b)]
    BY ConcatProperties
  <2>2. Len(x) \in Nat
    BY LenProperties
  <2> HIDE DEF s
  <2>3. ASSUME NEW i \in 1..Len(x) PROVE s[BUFFER_SIZE + i] = x[i]
    <3>1. /\ BUFFER_SIZE + i \in 1..(Len(b) + Len(x)) /\ ~(BUFFER_SIZE + i <= Len(b))
          /\ (BUFFER_SIZE + i) - Len(b) = i
      BY <1>0, <2>2
    <3> QED BY <2>1, <3>1
  <2>4. \A i \in 1..BUFFER_SIZE : i \in 1..(Len(b) + Len(x)) /\ i <= Len(b)
    BY <1>0, <2>2
  <2> QED BY <2>1, <2>2, <2>3, <2>4
<1>2. WholeMessages(s, l)
  OBVIOUS
<1> HIDE DEF s
<1>3. s # <<>>
  BY <1>0, <1>1
<1>4. s[1].at = 1 /\ s[Len(s)] = [of |-> l, at |-> BUFFER_SIZE]
  BY <1>2, <1>3 DEF WholeMessages
<1>5. ASSUME NEW f \in 1..BUFFER_SIZE
      PROVE  b[f] = [of |-> b[1].of, at |-> f]
  <2>1. 1 \in 1..Len(s) /\ f \in 1..Len(s) /\ 1 <= f /\ s[1].at + (f - 1) <= BUFFER_SIZE
    BY <1>0, <1>1, <1>4
  <2>2. s[f] = [of |-> s[1].of, at |-> s[1].at + (f - 1)]
    BY <1>2, <2>1 DEF WholeMessages
  <2>3. s[1] = b[1] /\ s[f] = b[f]
    BY <1>0, <1>1
  <2>4. b[1].at + (f - 1) = f
    BY <1>4, <2>3
  <2> QED BY <2>2, <2>3, <2>4
<1>6. b[1].of \in Allocations
  BY <1>0, WordType
<1>7. ASSUME x = <<>> PROVE b[1].of = l
  <2>1. Len(s) = BUFFER_SIZE
    BY <1>0, <1>1, <1>7
  <2>2. b[BUFFER_SIZE] = [of |-> l, at |-> BUFFER_SIZE]
    BY <1>0, <1>1, <1>4, <2>1
  <2>3. b[BUFFER_SIZE] = [of |-> b[1].of, at |-> BUFFER_SIZE]
    BY <1>0, <1>5
  <2> QED BY <2>2, <2>3
<1>8. WholeMessages(x, l)
  <2>1. ASSUME NEW i \in 1..Len(x), NEW j \in 1..Len(x), i <= j,
               x[i].at + (j - i) <= BUFFER_SIZE
        PROVE  x[j] = [of |-> x[i].of, at |-> x[i].at + (j - i)]
    <3> DEFINE p == BUFFER_SIZE + i
               q == BUFFER_SIZE + j
    <3>1. p \in 1..Len(s) /\ q \in 1..Len(s) /\ p <= q /\ q - p = j - i
      BY <1>0, <1>1, <2>1
    <3>2. s[p] = x[i] /\ s[q] = x[j]
      BY <1>1
    <3> HIDE DEF p, q
    <3>3. s[p].at + (q - p) <= BUFFER_SIZE
      BY <2>1, <3>1, <3>2
    <3>4. s[q] = [of |-> s[p].of, at |-> s[p].at + (q - p)]
      BY <1>2, <3>1, <3>3 DEF WholeMessages
    <3> QED BY <3>1, <3>2, <3>4
  <2>2. ASSUME NEW i \in 1..(Len(x) - 1), x[i].at = BUFFER_SIZE
        PROVE  x[i + 1].at = 1
    <3> DEFINE p == BUFFER_SIZE + i
    <3>1. /\ p \in 1..(Len(s) - 1) /\ s[p] = x[i]
          /\ p + 1 = BUFFER_SIZE + (i + 1) /\ i \in 1..Len(x) /\ i + 1 \in 1..Len(x)
      BY <1>0, <1>1
    <3>2. s[p + 1] = x[i + 1]
      BY <1>1, <3>1
    <3> HIDE DEF p
    <3>3. s[p + 1].at = 1
      BY <1>2, <2>2, <3>1 DEF WholeMessages
    <3> QED BY <3>2, <3>3
  <2>3. ASSUME x # <<>>
        PROVE  x[1].at = 1 /\ x[Len(x)] = [of |-> l, at |-> BUFFER_SIZE]
    <3>1. Len(x) \in Nat /\ Len(x) >= 1
      BY <2>3
    <3>2. s[BUFFER_SIZE + 1] = x[1] /\ s[Len(s)] = x[Len(x)]
      BY <1>0, <1>1, <3>1
    <3>3. s[BUFFER_SIZE].at = BUFFER_SIZE
      BY <1>0, <1>1, <1>5
    <3>4. BUFFER_SIZE \in 1..(Len(s) - 1)
      BY <1>0, <1>1, <3>1
    <3>5. s[BUFFER_SIZE + 1].at = 1
      BY <1>2, <3>3, <3>4 DEF WholeMessages
    <3> QED BY <1>4, <3>2, <3>5
  <2> QED BY <2>1, <2>2, <2>3 DEF WholeMessages
<1>9. <<>> \o x = x
  BY ConcatEmptySeq
<1> QED BY <1>5, <1>6, <1>7, <1>8, <1>9

\* Nothing is a series of whole messages.
LEMMA EmptyIsWhole == \A l : WholeMessages(<<>> \o <<>>, l)
<1>1. <<>> \o <<>> = <<>> /\ Len(<<>>) = 0
  OBVIOUS
<1> QED BY <1>1 DEF WholeMessages

\* No recv is cut short where whole messages are sent.
LEMMA NoShortCount ==
  ASSUME NEW b \in Seq(Words), NEW l, b # <<>>, Len(b) <= BUFFER_SIZE,
         WholeMessages(b \o <<>>, l)
  PROVE  Len(b) = BUFFER_SIZE
<1>1. b \o <<>> = b /\ Len(b) \in Nat /\ Len(b) >= 1
  BY ConcatEmptySeq, EmptySeq
<1>2. b[1].at = 1 /\ b[Len(b)].at = BUFFER_SIZE
  BY <1>1 DEF WholeMessages
<1>3. 1 \in 1..Len(b) /\ Len(b) \in 1..Len(b) /\ b[1].at + (Len(b) - 1) <= BUFFER_SIZE
  BY <1>1, <1>2
<1>4. b[Len(b)].at = b[1].at + (Len(b) - 1)
  <2>1. WholeMessages(b, l)
    BY <1>1
  <2> DEFINE e == Len(b)
  <2>2. b[e] = [of |-> b[1].of, at |-> b[1].at + (e - 1)]
    BY <1>1, <1>3, <2>1 DEF WholeMessages
  <2> HIDE DEF e
  <2>3. b[e].at = b[1].at + (e - 1)
    BY <2>2
  <2> QED BY <2>3 DEF e
<1> QED BY <1>1, <1>2, <1>4

\* One step of main.c keeps SerialInv when the hypervisor connects only after
\* its previous connection and that connection's thread have ended.
LEMMA SerialStep ==
  ASSUME SliceTypeOK, SerialInv, [SliceNext]_sliceVars
  PROVE  SerialInv'
<1>a. serial' = serial
  BY DEF SliceNext, HypervisorStep, ThreadStep, Send, Close, Break, Accept, AcceptFails,
         CallRecv, Copy, Return, Deliver, RecvFails, Store, StoreTo, netVars, sliceVars
<1>b. SUFFICES ASSUME serial PROVE SerialInv'
  BY <1>a DEF SerialInv
<1> USE <1>a, <1>b DEF SerialInv
<1>0. /\ MaxAccepts \in Nat
      /\ returns \in 0..MaxAccepts
      /\ inbox \in [Accepts -> Seq(Words)]
      /\ buffer \in [Accepts -> Seq(Words)]
      /\ \A t \in Accepts : Len(buffer[t]) <= BUFFER_SIZE
      /\ pc \in [Accepts -> Places]
      /\ fd \in [Accepts -> {BadSocket, 0} \cup Accepts]
      /\ data \in [Accepts -> [Fields -> Int]]
      /\ field \in [Accepts -> Fields]
      /\ uRB \in [Slices -> Int] /\ dRB \in [Slices -> Int]
      /\ open \subseteq Accepts
  BY SliceTableAssumption DEF SliceTypeOK
<1>00. \A a \in Accepts : a \in Nat /\ a # BadSocket /\ a # 0
  BY SliceTableAssumption DEF Accepts, BadSocket
<1>1. ASSUME NEW a \in Accepts, NEW m \in Allocations, Send(a, m)
      PROVE  SerialInv'
  <2> DEFINE d == Doubles(m, BUFFER_SIZE)
  <2>1. a = returns /\ pc[a] # "done" /\ SOCKET_ID = a
    BY <1>1, <1>0 DEF Send, OwnConnection
  <2>2. \A b \in Accepts : OwnConnection(b)'
    BY <1>1, <1>0, <2>1 DEF Send, OwnConnection, threadVars
  <2>3. d \in Seq(Words) /\ Len(d) = BUFFER_SIZE /\ BUFFER_SIZE >= 4
    BY DoublesType, SliceTableAssumption
  <2>4. /\ inbox' = [inbox EXCEPT ![a] = inbox[a] \o d] /\ latest' = m
        /\ UNCHANGED <<tableVars, threadVars, returns, SOCKET_ID>>
    BY <1>1 DEF Send
  <2>5. WholeMessages((buffer[a] \o inbox[a]) \o d, m)
    <3>1. WholeMessages(buffer[a] \o inbox[a], latest)
      BY DEF EndsWithLatest
    <3>2. buffer[a] \o inbox[a] \in Seq(Words)
      BY <1>0
    <3> QED BY <3>1, <3>2, SendKeepsWhole
  <2> HIDE DEF d
  <2>6. inbox'[a] = inbox[a] \o d /\ inbox'[a] # <<>>
    BY <1>0, <2>3, <2>4
  <2>7. (buffer[a] \o inbox[a]) \o d = buffer[a] \o (inbox[a] \o d)
    BY <1>0, <2>3
  <2>8. EndsWithLatest(a)'
    <3>1. WholeMessages(buffer[a] \o inbox'[a], latest')
      BY <2>4, <2>5, <2>6, <2>7
    <3>2. /\ pc' = pc /\ data' = data /\ field' = field /\ uRB' = uRB /\ dRB' = dRB
          /\ buffer' = buffer
      BY <2>4 DEF threadVars, tableVars
    <3> QED BY <3>1, <3>2, <2>6 DEF EndsWithLatest
  <2>9. \A b \in Accepts \ {a} : EndsWithLatest(b)'
    <3> SUFFICES ASSUME NEW b \in Accepts \ {a} PROVE EndsWithLatest(b)'
      OBVIOUS
    <3>1. inbox'[b] = <<>> /\ buffer'[b] = <<>> /\ pc'[b] # "apply"
      BY <1>0, <2>1, <2>4 DEF OwnConnection, threadVars
    <3>2. WholeMessages(<<>> \o <<>>, latest')
      BY EmptyIsWhole
    <3> QED BY <3>1, <3>2 DEF EndsWithLatest
  <2>10. LastIsInForce'
    BY <2>6 DEF LastIsInForce, Quiescent
  <2> QED BY <1>1, <2>2, <2>8, <2>9, <2>10 DEF Send
<1>2. ASSUME NEW a \in Accepts, Close(a)
      PROVE  SerialInv'
  BY <1>2 DEF Close, threadVars, tableVars, OwnConnection, EndsWithLatest,
              LastIsInForce, Quiescent, TableIs
<1>3. ASSUME NEW a \in Accepts, NEW m \in Allocations, NEW n \in TruncateAt,
             Break(a, m, n)
      PROVE  SerialInv'
  BY <1>3 DEF Break
<1>4. ASSUME NEW a \in Accepts, Accept(a) \/ AcceptFails(a)
      PROVE  SerialInv'
  <2>1. /\ a = returns + 1 /\ returns' = a /\ SOCKET_ID' \in {a, BadSocket}
        /\ pc' = [pc EXCEPT ![a] = "call"]
        /\ open = {} /\ open' \subseteq {a}
        /\ SOCKET_ID' = BadSocket => open' = {}
        /\ UNCHANGED <<tableVars, inbox, latest, fd, buffer, data, field>>
        /\ \A t \in Accepts : pc[t] \in {"none", "done"}
    BY <1>4, <1>00 DEF Accept, AcceptFails, ThreadsGone
  <2>2. \A b \in Accepts : inbox[b] = <<>> /\ buffer[b] = <<>>
    BY <2>1 DEF OwnConnection
  <2>3. \A b \in Accepts : OwnConnection(b)'
    BY <1>0, <1>00, <2>1, <2>2 DEF OwnConnection
  <2>4. \A b \in Accepts : EndsWithLatest(b)'
    BY <1>0, <2>1, <2>2 DEF EndsWithLatest
  <2>5. LastIsInForce'
    BY <1>0, <2>1, <2>2 DEF LastIsInForce, Quiescent, TableIs, tableVars
  <2> QED BY <2>1, <2>3, <2>4, <2>5
<1>5. ASSUME NEW t \in Accepts, CallRecv(t)
      PROVE  SerialInv'
  BY <1>5, <1>0 DEF CallRecv, netVars, tableVars, OwnConnection, EndsWithLatest,
                    LastIsInForce, Quiescent, TableIs
<1>6. ASSUME NEW t \in Accepts, NEW n \in 1..BUFFER_SIZE, Copy(t, n)
      PROVE  SerialInv'
  <2> DEFINE x == inbox[t]
             y == SubSeq(x, 1, n)
             z == SubSeq(x, n + 1, Len(x))
  <2>1. t = returns /\ pc[t] = "recv" /\ fd[t] = t /\ SOCKET_ID = t
    BY <1>6, <1>00 DEF Copy, OwnConnection
  <2>2. /\ x \in Seq(Words) /\ n \in 1..Len(x) /\ buffer[t] \in Seq(Words)
        /\ inbox' = [inbox EXCEPT ![t] = z]
        /\ buffer' = [buffer EXCEPT ![t] = buffer[t] \o y]
        /\ UNCHANGED <<SOCKET_ID, tableVars, returns, open, latest, pc, fd, data, field>>
    BY <1>0, <1>6, <2>1 DEF Copy
  <2>3. /\ buffer[t] \o y \in Seq(Words) /\ z \in Seq(Words)
        /\ Len(buffer[t] \o y) = Len(buffer[t]) + n
        /\ (buffer[t] \o y) \o z = buffer[t] \o x
    BY <2>2, CopyMoves
  <2>4. x # <<>> /\ buffer[t] \o y # <<>>
    BY <2>2, <2>3
  <2> HIDE DEF y, z
  <2>5. inbox'[t] = z /\ buffer'[t] = buffer[t] \o y
    BY <1>0, <2>2
  <2>6. \A b \in Accepts : OwnConnection(b)'
    <3> SUFFICES ASSUME NEW b \in Accepts PROVE OwnConnection(b)'
      OBVIOUS
    <3>1. CASE b = t
      BY <1>00, <2>1, <2>2, <2>4, <3>1 DEF OwnConnection
    <3>2. CASE b # t
      BY <1>0, <2>1, <2>2, <3>2 DEF OwnConnection
    <3> QED BY <3>1, <3>2
  <2>7. EndsWithLatest(t)'
    <3>1. WholeMessages(buffer'[t] \o inbox'[t], latest')
      BY <2>2, <2>3, <2>5 DEF EndsWithLatest
    <3> QED BY <2>1, <2>2, <3>1 DEF EndsWithLatest
  <2>8. \A b \in Accepts \ {t} : EndsWithLatest(b)'
    BY <1>0, <2>2 DEF EndsWithLatest, tableVars
  <2>9. LastIsInForce'
    BY <2>4, <2>5 DEF LastIsInForce, Quiescent
  <2> QED BY <2>2, <2>6, <2>7, <2>8, <2>9
<1>10. ASSUME NEW t \in Accepts, Return(t)
       PROVE  SerialInv'
  <2>1. t = returns /\ pc[t] = "recv" /\ buffer[t] # <<>>
    BY <1>10, <1>0, SliceTableAssumption DEF Return, Deliver, OwnConnection
  <2>2. fd[t] = t /\ SOCKET_ID = t
    BY <1>00, <2>1 DEF OwnConnection
  <2>3. WholeMessages(buffer[t] \o inbox[t], latest)
    BY DEF EndsWithLatest
  <2>4. Len(buffer[t]) = BUFFER_SIZE
    <3>1. CASE AtEnd(t)
      <4>1. inbox[t] = <<>>
        BY <2>2, <3>1 DEF AtEnd
      <4> QED BY <1>0, <2>1, <2>3, <4>1, NoShortCount
    <3> QED BY <1>10, <3>1 DEF Return
  <2> DEFINE m == buffer[t][1].of
  <2>5. /\ m \in Allocations
        /\ \A f \in 1..BUFFER_SIZE : buffer[t][f] = [of |-> m, at |-> f]
        /\ inbox[t] = <<>> => m = latest
        /\ WholeMessages(<<>> \o inbox[t], latest)
    BY <1>0, <2>3, <2>4, FullBufferIsMessage
  <2>6. \A f \in Fields : Conversions(buffer[t], f) = {m[f]}
    <3> SUFFICES ASSUME NEW f \in Fields PROVE Conversions(buffer[t], f) = {m[f]}
      OBVIOUS
    <3>1. f \in 1..BUFFER_SIZE /\ f <= Len(buffer[t]) /\ 1..f \subseteq 1..BUFFER_SIZE
      BY <2>4, SliceTableAssumption DEF Fields
    <3>2. buffer[t][f] = [of |-> m, at |-> f]
      BY <2>5, <3>1
    <3>3. InFrame(buffer[t], f)
      BY <2>5, <3>1 DEF InFrame
    <3>4. buffer[t][f].of = m
      <4> HIDE DEF m
      <4> QED BY <3>2
    <3> QED BY <3>3, <3>4 DEF Conversions
  <2>7. data' = [data EXCEPT ![t] = <<m[1], m[2], m[3], m[4]>>]
    <3>1. PICK d1 \in Conversions(buffer[t], 1), d2 \in Conversions(buffer[t], 2),
               d3 \in Conversions(buffer[t], 3), d4 \in Conversions(buffer[t], 4) :
                 data' = [data EXCEPT ![t] = <<d1, d2, d3, d4>>]
      BY <1>10 DEF Return, Deliver
    <3>2. d1 = m[1] /\ d2 = m[2] /\ d3 = m[3] /\ d4 = m[4]
      BY <2>6, <3>1 DEF Fields
    <3> QED BY <3>1, <3>2
  <2> HIDE DEF m
  <2>8. <<m[1], m[2], m[3], m[4]>> = m
    <3>1. m \in [1..4 -> Nat]
      BY <2>5, SliceTableAssumption DEF Fields
    <3> QED BY <3>1
  <2>9. /\ buffer' = [buffer EXCEPT ![t] = <<>>]
        /\ field' = [field EXCEPT ![t] = 1]
        /\ pc' = [pc EXCEPT ![t] = "apply"]
        /\ UNCHANGED <<SOCKET_ID, tableVars, returns, open, inbox, latest, fd>>
    BY <1>10 DEF Return, Deliver, netVars
  <2>10. \A b \in Accepts : OwnConnection(b)'
    BY <1>0, <1>00, <2>1, <2>2, <2>9 DEF OwnConnection
  <2>11. EndsWithLatest(t)'
    <3>1. data'[t] = m /\ field'[t] = 1 /\ buffer'[t] = <<>> /\ inbox' = inbox
          /\ latest' = latest
      BY <1>0, <2>7, <2>8, <2>9
    <3>2. WholeMessages(buffer'[t] \o inbox'[t], latest')
      BY <2>5, <3>1
    <3> QED BY <2>5, <3>1, <3>2 DEF EndsWithLatest
  <2>12. \A b \in Accepts \ {t} : EndsWithLatest(b)'
    BY <1>0, <2>7, <2>9 DEF EndsWithLatest, tableVars
  <2>13. LastIsInForce'
    BY <1>0, <2>9 DEF LastIsInForce, Quiescent
  <2> QED BY <2>2, <2>9, <2>10, <2>11, <2>12, <2>13
<1>7. ASSUME NEW t \in Accepts, RecvFails(t)
      PROVE  SerialInv'
  <2>1. t = returns /\ t \notin open /\ inbox[t] = <<>> /\ buffer[t] = <<>>
    BY <1>7, <1>00 DEF RecvFails, AtEnd, OwnConnection
  <2> QED
    BY <1>7, <1>0, <2>1 DEF RecvFails, netVars, tableVars, OwnConnection,
       EndsWithLatest, LastIsInForce, Quiescent, TableIs
<1>8. ASSUME NEW t \in Accepts, Store(t)
      PROVE  SerialInv'
  <2>1. /\ t = returns /\ pc[t] = "apply" /\ fd[t] = t /\ SOCKET_ID = t
        /\ UNCHANGED <<SOCKET_ID, netVars, fd, buffer>>
    BY <1>8 DEF Store, StoreTo, NextField, OwnConnection
  <2>2. \A b \in Accepts : OwnConnection(b)'
    BY <1>8, <1>0, <2>1 DEF Store, StoreTo, NextField, OwnConnection, netVars
  <2>3. \A b \in Accepts \ {t} : EndsWithLatest(b)'
    BY <1>8, <1>0, <2>1 DEF Store, StoreTo, NextField, OwnConnection, EndsWithLatest, WholeMessages, netVars
  <2>4. CASE field[t] < 4
    <3>1. /\ pc' = pc /\ data' = data
          /\ field' = [field EXCEPT ![t] = field[t] + 1]
      BY <1>8, <1>0, <2>1, <2>4 DEF Store, StoreTo, NextField
    <3>2. EndsWithLatest(t)'
      <4>1. /\ field[t] = 1 => uRB'[0] = data[t][1]
            /\ field[t] = 2 => dRB'[0] = data[t][2] /\ uRB' = uRB
            /\ field[t] = 3 => uRB'[1] = data[t][3] /\ uRB'[0] = uRB[0] /\ dRB' = dRB
        BY <1>8, <1>0 DEF Store, StoreTo, Slices
      <4>2. field[t] \in 1..4 /\ field'[t] = field[t] + 1 /\ inbox' = inbox
            /\ latest' = latest
        BY <1>0, <2>1, <3>1 DEF netVars, Fields
      <4> QED BY <2>1, <2>4, <3>1, <4>1, <4>2 DEF EndsWithLatest
    <3>3. LastIsInForce'
      BY <2>1, <3>1 DEF LastIsInForce, Quiescent
    <3> QED BY <2>1, <2>2, <2>3, <3>2, <3>3 DEF netVars
  <2>5. CASE field[t] = 4
    <3>1. /\ pc' = [pc EXCEPT ![t] = "call"]
          /\ uRB' = uRB /\ dRB' = [dRB EXCEPT ![1] = data[t][4]]
      BY <1>8, <2>5 DEF Store, StoreTo, NextField
    <3>2. EndsWithLatest(t)'
      BY <1>0, <2>1, <3>1 DEF EndsWithLatest, netVars
    <3>3. LastIsInForce'
      <4>1. dRB'[1] = data[t][4] /\ dRB'[0] = dRB[0]
        BY <1>0, <3>1 DEF Slices
      <4>2. uRB[0] = data[t][1] /\ dRB[0] = data[t][2] /\ uRB[1] = data[t][3]
        BY <2>1, <2>5 DEF EndsWithLatest
      <4>3. inbox[t] = <<>> => data[t] = latest
        BY <2>1 DEF EndsWithLatest
      <4> QED BY <2>1, <3>1, <4>1, <4>2, <4>3
              DEF LastIsInForce, Quiescent, TableIs, netVars
    <3> QED BY <2>1, <2>2, <2>3, <3>2, <3>3 DEF netVars
  <2>6. field[t] \in 1..4
    BY <1>0 DEF Fields
  <2> QED BY <2>4, <2>5, <2>6
<1>9. CASE UNCHANGED sliceVars
  BY <1>9 DEF sliceVars, OwnConnection, EndsWithLatest, LastIsInForce,
              Quiescent, TableIs
<1> QED
  BY <1>1, <1>2, <1>3, <1>4, <1>5, <1>6, <1>7, <1>8, <1>9, <1>10
     DEF SliceNext, HypervisorStep, ThreadStep

\* Why the last allocation wins: only one thread lives, on its own connection, and
\* what is on its way to the table ends with the latest allocation.
THEOREM SerialHolds == SliceSpec => []SerialInv
<1>1. SliceInit => SerialInv
  BY SliceTableAssumption, EmptyIsWhole
     DEF SliceInit, SerialInv, OwnConnection, EndsWithLatest, LastIsInForce,
         Quiescent, TableIs, InitialAllocation, Accepts, Slices, Fields, BadSocket
<1>2. SliceTypeOK /\ SerialInv /\ [SliceNext]_sliceVars => SerialInv'
  BY SerialStep
<1> QED BY <1>1, <1>2, SliceTypesHold, PTL DEF SliceSpec

\* With connections that follow one another and break between messages only,
\* the slice table holds the last allocation sent whenever nothing is under
\* way: the unlocked stores of socket_recv_function never mix two messages.
THEOREM LastAllocationWinsSerially == SliceSpec => []LastAllocationWins
<1>1. SliceTypeOK /\ SerialInv => LastAllocationWins
  BY DEF SerialInv, LastAllocationWins, LastIsInForce
<1> QED BY <1>1, SliceTypesHold, SerialHolds, PTL
-----------------------------------------------------------------------------
\* A received message leaves in recv_data only fields of an allocation and what
\* was on the stack before.
LEMMA CarriesStep ==
  ASSUME SliceTypeOK, CarriesStoredValues, [SliceNext]_sliceVars
  PROVE  CarriesStoredValues'
<1> USE DEF CarriesStoredValues
<1>0. /\ buffer \in [Accepts -> Seq(Words)]
      /\ pc \in [Accepts -> Places]
      /\ data \in [Accepts -> [Fields -> Int]]
  BY DEF SliceTypeOK
<1>1. CASE UNCHANGED <<pc, data>>
  BY <1>1
<1>2. ASSUME NEW t \in Accepts,
             \/ Accept(t) \/ AcceptFails(t) \/ CallRecv(t) \/ RecvFails(t)
      PROVE  CarriesStoredValues'
  BY <1>0, <1>2 DEF Accept, AcceptFails, CallRecv, RecvFails
<1>3. ASSUME NEW t \in Accepts, Return(t)
      PROVE  CarriesStoredValues'
  <2>1. PICK d1 \in Conversions(buffer[t], 1), d2 \in Conversions(buffer[t], 2),
             d3 \in Conversions(buffer[t], 3), d4 \in Conversions(buffer[t], 4) :
               data' = [data EXCEPT ![t] = <<d1, d2, d3, d4>>]
    BY <1>3 DEF Return, Deliver
  <2>2. d1 \in StoredValues /\ d2 \in StoredValues /\ d3 \in StoredValues
          /\ d4 \in StoredValues
    BY <1>0, <2>1, ConversionsType DEF Fields
  <2>3. <<d1, d2, d3, d4>> \in [Fields -> StoredValues]
    BY <2>2 DEF Fields
  <2>4. pc' = [pc EXCEPT ![t] = "apply"]
    BY <1>3 DEF Return, Deliver
  <2> QED BY <1>0, <2>1, <2>3, <2>4
<1>4. ASSUME NEW t \in Accepts, Store(t)
      PROVE  CarriesStoredValues'
  BY <1>0, <1>4 DEF Store, StoreTo
<1> QED
  BY <1>1, <1>2, <1>3, <1>4
     DEF SliceNext, HypervisorStep, ThreadStep, Send, Close, Break, Copy, threadVars,
         sliceVars

\* Every step of the connections and threads is a store of one field of slice 0
\* or 1, of a value of a field or garbage, or leaves the table alone.
LEMMA TableStep ==
  ASSUME SliceTypeOK, CarriesStoredValues, [SliceNext]_sliceVars
  PROVE  [TableStore!StoreNext]_<<uRB, dRB>>
<1>1. CASE UNCHANGED <<uRB, dRB>>
  BY <1>1
<1>2. ASSUME NEW t \in Accepts, Store(t)
      PROVE  TableStore!StoreNext
  <2> DEFINE s == IF field[t] <= 2 THEN 0 ELSE 1
             v == data[t][field[t]]
  <2>1. s \in {0, 1}
    OBVIOUS
  <2>2. v \in StoredValues
    BY <1>2 DEF Store, StoreTo, CarriesStoredValues, SliceTypeOK
  <2>3. \/ uRB' = [uRB EXCEPT ![s] = v] /\ dRB' = dRB
        \/ dRB' = [dRB EXCEPT ![s] = v] /\ uRB' = uRB
    BY <1>2 DEF Store, StoreTo
  <2> HIDE DEF s, v
  <2> QED BY <2>1, <2>2, <2>3
          DEF TableStore!StoreNext, TableStore!Allocated, TableStore!StoreUplink,
              TableStore!StoreDownlink
<1> QED
  BY <1>1, <1>2
     DEF SliceNext, HypervisorStep, ThreadStep, Send, Close, Break, Accept, AcceptFails,
         CallRecv, Copy, Return, Deliver, RecvFails, tableVars, sliceVars

\* The slice table of main.c implements a store of single fields, for every
\* behaviour of the hypervisor, shared and broken connections included; the
\* values may then be anything a double converts to.
THEOREM TableImplementsStore == SliceSpec => TableIsStore
<1>1. SliceInit => TableStore!StoreInit
  BY DEF SliceInit, TableStore!StoreInit, TableStore!StoreSlices, Slices
<1>2. SliceInit => CarriesStoredValues
  BY DEF SliceInit, CarriesStoredValues
<1>3. SliceTypeOK /\ CarriesStoredValues /\ [SliceNext]_sliceVars
        => CarriesStoredValues'
  BY CarriesStep
<1>4. SliceTypeOK /\ CarriesStoredValues /\ [SliceNext]_sliceVars
        => [TableStore!StoreNext]_TableStore!storeVars
  BY TableStep DEF TableStore!storeVars
<1> QED
  BY <1>1, <1>2, <1>3, <1>4, SliceTypesHold, PTL
     DEF SliceSpec, TableIsStore, TableStore!StoreSpec
-----------------------------------------------------------------------------
\* With one connection at a time, every store is of an uplink value in an uplink
\* share or of a downlink value in a downlink share.
LEMMA OrderlyStep ==
  ASSUME SliceTypeOK, SerialInv, serial, [SliceNext]_sliceVars
  PROVE  [OrderlyStore!StoreNext]_tableVars
<1>1. CASE UNCHANGED <<uRB, dRB>>
  BY <1>1 DEF tableVars
<1>2. ASSUME NEW t \in Accepts, Store(t)
      PROVE  OrderlyStore!StoreNext
  <2> DEFINE s == IF field[t] <= 2 THEN 0 ELSE 1
             f == field[t]
  <2>1. s \in {0, 1} /\ f \in Fields /\ data[t] \in Allocations
    BY <1>2 DEF Store, StoreTo, SliceTypeOK, SerialInv, EndsWithLatest
  <2>2. CASE f \in {1, 3}
    <3> DEFINE v == data[t][f]
    <3>1. uRB' = [uRB EXCEPT ![s] = v] /\ UNCHANGED dRB
      BY <1>2, <2>2 DEF Store, StoreTo
    <3>2. v \in UplinkValues
      BY <2>1, <2>2 DEF UplinkValues
    <3>3. OrderlyStore!StoreUplink(s, v)
      BY <3>1 DEF OrderlyStore!StoreUplink
    <3> HIDE DEF s, v
    <3> QED BY <2>1, <3>2, <3>3 DEF OrderlyStore!StoreNext, OrderlyStore!Allocated
  <2>3. CASE f \in {2, 4}
    <3> DEFINE v == data[t][f]
    <3>1. dRB' = [dRB EXCEPT ![s] = v] /\ UNCHANGED uRB
      BY <1>2, <2>3 DEF Store, StoreTo
    <3>2. v \in DownlinkValues
      BY <2>1, <2>3 DEF DownlinkValues
    <3>3. OrderlyStore!StoreDownlink(s, v)
      BY <3>1 DEF OrderlyStore!StoreDownlink
    <3> HIDE DEF s, v
    <3> QED BY <2>1, <3>2, <3>3 DEF OrderlyStore!StoreNext, OrderlyStore!Allocated
  <2> QED BY <2>1, <2>2, <2>3 DEF Fields
<1> QED
  BY <1>1, <1>2
     DEF SliceNext, HypervisorStep, ThreadStep, Send, Close, Break, Accept, AcceptFails,
         CallRecv, Copy, Return, Deliver, RecvFails, tableVars, sliceVars

\* What the schedulers are specified on, the slice table implements as long as
\* connections follow one another and break between messages: a torn message,
\* padding or stack garbage never becomes a share.
THEOREM TableIsOrderly == SliceSpec => OrderlyTable
<1>1. SliceTypeOK /\ SerialInv /\ [SliceNext]_sliceVars
        => [serial => OrderlyStore!StoreNext]_tableVars
  BY OrderlyStep
<1> QED BY <1>1, SliceTypesHold, SerialHolds, PTL DEF SliceSpec, OrderlyTable
=============================================================================
