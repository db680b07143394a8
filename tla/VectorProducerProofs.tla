------------------------- MODULE VectorProducerProofs -------------------------
(***************************************************************************)
(* Proofs about VectorProducer, for every set of results, batch size and   *)
(* width of the counter: between the send and the last look of the worker  *)
(* no result is lost, repeated or overtaken, none is given up while the    *)
(* worker retries forever and its requests can be built, and the gauge     *)
(* does not drift.                                                         *)
(***************************************************************************)
EXTENDS VectorProducer, FiniteSetTheorems, SequenceTheorems, TLAPS

------------------------------------------------------------------------------
(* Sequences: what an item, a chunk and a batch do on their way.            *)

LEMMA ElementsOfConcat ==
    ASSUME NEW S, NEW s \in Seq(S), NEW t \in Seq(S)
    PROVE  ToSet(s \o t) = ToSet(s) \cup ToSet(t)
  <1>1. /\ s \o t \in Seq(S) /\ Len(s \o t) = Len(s) + Len(t)
        /\ \A i \in 1 .. Len(s) + Len(t) : (s \o t)[i] = IF i <= Len(s) THEN s[i] ELSE t[i - Len(s)]
        /\ Len(s) \in Nat /\ Len(t) \in Nat
    BY ConcatProperties, LenProperties
  <1>2. /\ ToSet(s) = { s[i] : i \in 1 .. Len(s) } /\ ToSet(t) = { t[i] : i \in 1 .. Len(t) }
        /\ ToSet(s \o t) = { (s \o t)[i] : i \in 1 .. Len(s) + Len(t) }
    BY <1>1, LenProperties DEF ToSet
  <1>3. \A i \in 1 .. Len(s) : i \in 1 .. Len(s) + Len(t) /\ (s \o t)[i] = s[i]
    BY <1>1
  <1>4. \A i \in 1 .. Len(t) : i + Len(s) \in 1 .. Len(s) + Len(t) /\ (s \o t)[i + Len(s)] = t[i]
    BY <1>1
  <1>5. \A i \in 1 .. Len(s) + Len(t) :
          (s \o t)[i] \in { s[j] : j \in 1 .. Len(s) } \cup { t[j] : j \in 1 .. Len(t) }
    <2>1. SUFFICES ASSUME NEW i \in 1 .. Len(s) + Len(t)
                   PROVE  (s \o t)[i] \in { s[j] : j \in 1 .. Len(s) } \cup { t[j] : j \in 1 .. Len(t) }
      OBVIOUS
    <2>2. CASE i <= Len(s)
      BY <2>2, <1>1
    <2>3. CASE i > Len(s)
      <3>1. i - Len(s) \in 1 .. Len(t)
        BY <2>3, <1>1
      <3> QED
        BY <2>3, <3>1, <1>1
    <2> QED
      BY <2>2, <2>3, <1>1
  <1>6. ToSet(s) \subseteq ToSet(s \o t) /\ ToSet(t) \subseteq ToSet(s \o t)
    BY <1>2, <1>3, <1>4
  <1> QED
    BY <1>2, <1>5, <1>6

\* The item that the worker takes keeps its place.
LEMMA HeadMoves ==
    ASSUME NEW S, NEW s \in Seq(S), NEW q \in Seq(S), q # <<>>
    PROVE  Append(s, Head(q)) \o Tail(q) = s \o q
  <1> DEFINE h == Head(q)
             t == Tail(q)
  <1>1. h \in S /\ t \in Seq(S) /\ Append(s, h) \in Seq(S)
    BY HeadTailProperties, AppendProperties
  <1>2. Append(s, h) = s \o <<h>> /\ <<h>> \in Seq(S)
    BY <1>1, AppendIsConcat
  <1>3. <<h>> \o t = q
    <2>1. /\ Len(<<h>>) = 1 /\ Len(t) = Len(q) - 1 /\ Len(q) \in Nat \ {0}
          /\ \A i \in 1 .. Len(t) : t[i] = q[i + 1]
          /\ h = q[1]
      BY <1>1, HeadTailProperties, LenProperties, EmptySeq
    <2>2. /\ <<h>> \o t \in Seq(S) /\ Len(<<h>> \o t) = 1 + Len(t)
          /\ \A i \in 1 .. 1 + Len(t) : (<<h>> \o t)[i] = IF i <= 1 THEN <<h>>[i] ELSE t[i - 1]
      BY <1>1, <1>2, <2>1, ConcatProperties
    <2>3. \A i \in 1 .. Len(q) : (<<h>> \o t)[i] = q[i]
      BY <2>1, <2>2
    <2> DEFINE u == <<h>> \o t
    <2>4. u \in Seq(S) /\ Len(u) = Len(q) /\ \A i \in 1 .. Len(u) : u[i] = q[i]
      BY <2>1, <2>2, <2>3
    <2> HIDE DEF u
    <2>5. u = q
      BY <2>4, SeqEqual
    <2> QED
      BY <2>5 DEF u
  <1> HIDE DEF h, t
  <1>4. (s \o <<h>>) \o t = s \o (<<h>> \o t)
    BY <1>1, <1>2, ConcatAssociative
  <1> QED
    BY <1>2, <1>3, <1>4 DEF h, t

LEMMA AppendOfConcat ==
    ASSUME NEW S, NEW s \in Seq(S), NEW q \in Seq(S), NEW e \in S
    PROVE  s \o Append(q, e) = Append(s \o q, e)
  <1>1. <<e>> \in Seq(S) /\ Append(q, e) = q \o <<e>> /\ s \o q \in Seq(S)
    BY AppendIsConcat, ConcatProperties
  <1>2. Append(s \o q, e) = (s \o q) \o <<e>>
    BY <1>1, AppendIsConcat
  <1> QED
    BY <1>1, <1>2, ConcatAssociative

------------------------------------------------------------------------------
(* Counting modulo the range of a usize.                                    *)

LEMMA ModAdd ==
    ASSUME NEW a \in Int, NEW b \in Int, NEW c \in Int, NEW n \in Nat \ {0}, a % n = b % n
    PROVE  (a + c) % n = (b + c) % n
  <1> DEFINE p == a \div n
             q == b \div n
             m == (b + c) % n
             d == (b + c) \div n
  <1>1. p \in Int /\ q \in Int /\ a = n * p + (a % n) /\ b = n * q + (b % n)
    OBVIOUS
  <1>2. d \in Int /\ m \in 0 .. n - 1 /\ b + c = n * d + m
    OBVIOUS
  <1> HIDE DEF p, q, m, d
  <1>3. a + c = n * (d + p - q) + m
    <2>1. n * (d + p - q) = n * d + n * p - n * q
      BY <1>1, <1>2
    <2> QED
      BY <1>1, <1>2, <2>1
  <1>4. \A z \in Int : (n * z + m) % n = m
    BY <1>2
  <1>5. d + p - q \in Int
    BY <1>1, <1>2
  <1> QED
    BY <1>3, <1>4, <1>5 DEF m

LEMMA ModAbsorbs ==
    ASSUME NEW a \in Int, NEW c \in Int, NEW n \in Nat \ {0}
    PROVE  /\ a % n \in 0 .. n - 1
           /\ ((a % n) + c) % n = (a + c) % n
  <1> DEFINE m == a % n
  <1>1. m \in 0 .. n - 1 /\ m \in Int /\ m % n = a % n
    OBVIOUS
  <1> HIDE DEF m
  <1>2. (m + c) % n = (a + c) % n
    BY <1>1, ModAdd
  <1> QED
    BY <1>1, <1>2 DEF m

------------------------------------------------------------------------------
(* The invariant.                                                           *)

\* The types of everything the proofs are about: all of TypeOK but the delay, whose
\* powers of two the provers cannot evaluate.
PipelineTypeOK ==
    /\ channel \in Seq(Result)
    /\ retry_forever \in BOOLEAN /\ endpoint_ok \in BOOLEAN
    /\ uncounted \subseteq Result
    /\ pending_items \in 0 .. CounterRange - 1
    /\ worker \in Worker
    /\ chunk \in Seq(Result) /\ Len(chunk) <= BatchSize
    /\ batch \in Seq(Result) /\ Len(batch) <= BatchSize
    /\ batch # <<>> <=> worker \in { "send", "backoff" }
    /\ num_of_retries \in 0 .. MaxRetries
    /\ sent \in Seq(Result)
    /\ left \in Seq(Result)
    /\ answer \in [Result -> Answer]

\* A result is counted once: it is sent once, and what is not counted was sent.
CountedOnce == IsFiniteSet(uncounted) /\ uncounted \subseteq ToSet(sent)

PipelineInv ==
    PipelineTypeOK /\ PipelineKeepsOrder /\ NothingGivenUp /\ CountedOnce /\ PendingDoesNotDrift

LEMMA Elements ==
    ASSUME NEW s \in Seq(Result)
    PROVE  ToSet(s) \subseteq Result
  BY LenProperties, ElementOfSeq DEF ToSet

LEMMA SentElements ==
    ASSUME NEW s \in Seq(Result), NEW r \in Result
    PROVE  ToSet(Append(s, r)) = ToSet(s) \cup {r}
  <1>1. Append(s, r) = s \o <<r>> /\ <<r>> \in Seq(Result)
    BY AppendIsConcat
  <1>2. ToSet(<<r>>) = {r}
    <2>1. DOMAIN <<r>> = {1} /\ <<r>>[1] = r
      OBVIOUS
    <2> QED
      BY <2>1 DEF ToSet
  <1>3. ToSet(s \o <<r>>) = ToSet(s) \cup ToSet(<<r>>)
    BY <1>1, ElementsOfConcat
  <1> QED
    BY <1>1, <1>2, <1>3

\* What Vector made of a result is never forgotten, and an answer is about all of the batch.
LEMMA AnsweredGrows ==
    ASSUME PipelineTypeOK, NEW a \in Answer
    PROVE  /\ Answered(a) \in [Result -> Answer]
           /\ \A r \in Result : answer[r] # "none" => Answered(a)[r] # "none"
           /\ a # "none" => \A r \in ToSet(batch) : Answered(a)[r] # "none"
  <1>1. ToSet(batch) \subseteq Result
    BY Elements DEF PipelineTypeOK
  <1> QED
    BY <1>1 DEF Answered, PipelineTypeOK, Answer

LEMMA SendResultInv ==
    ASSUME PipelineInv, NEW r \in Result, SendResult(r)
    PROVE  PipelineInv'
  <1> USE DEF PipelineInv
  <1>1. /\ r \notin ToSet(sent)
        /\ channel' = Append(channel, r) /\ sent' = Append(sent, r) /\ uncounted' = uncounted \cup {r}
        /\ UNCHANGED <<retry_forever, endpoint_ok, pending_items, worker, chunk, batch, num_of_retries, left, answer>>
    BY DEF settings, SendResult, sendVars
  <1>2. /\ channel' \in Seq(Result) /\ sent' \in Seq(Result)
        /\ Len(channel) \in Nat /\ Len(channel') = Len(channel) + 1
    BY <1>1, AppendProperties, LenProperties DEF PipelineTypeOK
  <1>3. PipelineTypeOK'
    BY <1>1, <1>2 DEF PipelineTypeOK
  <1>4. PipelineKeepsOrder'
    <2> DEFINE s == left \o batch \o chunk
    <2>1. s \in Seq(Result)
      BY ConcatProperties DEF PipelineTypeOK
    <2> HIDE DEF s
    <2>2. s \o Append(channel, r) = Append(s \o channel, r)
      BY <2>1, AppendOfConcat DEF PipelineTypeOK
    <2>3. s \o channel = sent
      BY DEF s, PipelineKeepsOrder
    <2> QED
      BY <1>1, <2>2, <2>3 DEF PipelineKeepsOrder, s
  <1>5. NothingGivenUp'
    BY <1>1 DEF NothingGivenUp
  <1>6. /\ CountedOnce'
        /\ Cardinality(uncounted) \in Nat /\ Cardinality(uncounted') = Cardinality(uncounted) + 1
    <2>1. r \notin uncounted
      BY <1>1 DEF CountedOnce
    <2>2. ToSet(sent') = ToSet(sent) \cup {r}
      BY <1>1, SentElements DEF PipelineTypeOK
    <2> QED
      BY <1>1, <2>1, <2>2, FS_AddElement, FS_CardinalityType DEF CountedOnce
  <1>7. PendingDoesNotDrift'
    <2> DEFINE a == pending_items + Cardinality(uncounted)
               b == Len(channel) + Len(chunk)
    <2>1. a \in Int /\ b \in Int /\ a % CounterRange = b % CounterRange
      BY <1>2, <1>6, LenProperties, VectorAssumption DEF PipelineTypeOK, PendingDoesNotDrift
    <2>2. /\ pending_items' + Cardinality(uncounted') = a + 1
          /\ Len(channel') + Len(chunk') = b + 1
      BY <1>1, <1>2, <1>6, LenProperties, VectorAssumption DEF PipelineTypeOK
    <2> HIDE DEF a, b
    <2>3. (a + 1) % CounterRange = (b + 1) % CounterRange
      <3>1. CounterRange \in Nat \ {0} /\ 1 \in Int
        BY VectorAssumption
      <3> QED
        BY <2>1, <3>1, ModAdd, Zenon
    <2> QED
      BY <2>2, <2>3 DEF PendingDoesNotDrift
  <1> QED
    BY <1>3, <1>4, <1>5, <1>6, <1>7

LEMMA CountResultInv ==
    ASSUME PipelineInv, NEW r \in Result, CountResult(r)
    PROVE  PipelineInv'
  <1> USE DEF PipelineInv
  <1>1. /\ r \in uncounted /\ uncounted' = uncounted \ {r}
        /\ pending_items' = (pending_items + 1) % CounterRange
        /\ UNCHANGED <<retry_forever, endpoint_ok, channel, worker, chunk, batch, num_of_retries, sent, left, answer>>
    BY DEF settings, CountResult, sendVars
  <1>2. pending_items \in Int /\ Len(channel) \in Nat /\ Len(chunk) \in Nat
    BY LenProperties, VectorAssumption DEF PipelineTypeOK
  <1>3. pending_items' \in 0 .. CounterRange - 1
    BY <1>1, <1>2, ModAbsorbs, VectorAssumption
  <1>4. PipelineTypeOK'
    BY <1>1, <1>3 DEF PipelineTypeOK
  <1>5. PipelineKeepsOrder' /\ NothingGivenUp'
    BY <1>1 DEF PipelineKeepsOrder, NothingGivenUp
  <1>6. /\ CountedOnce'
        /\ Cardinality(uncounted) \in Nat /\ Cardinality(uncounted') = Cardinality(uncounted) - 1
    BY <1>1, FS_RemoveElement, FS_CardinalityType DEF CountedOnce
  <1>7. PendingDoesNotDrift'
    <2> DEFINE p == pending_items
               u == Cardinality(uncounted)
    <2>1. (((p + 1) % CounterRange) + (u - 1)) % CounterRange = ((p + 1) + (u - 1)) % CounterRange
      <3>1. CounterRange \in Nat \ {0} /\ p + 1 \in Int /\ u - 1 \in Int
        BY <1>2, <1>6, VectorAssumption
      <3> QED
        BY <3>1, ModAbsorbs, Zenon
    <2>2. (p + 1) + (u - 1) = p + u
      BY <1>2, <1>6
    <2> QED
      BY <1>1, <1>6, <2>1, <2>2 DEF PendingDoesNotDrift
  <1> QED
    BY <1>4, <1>5, <1>6, <1>7

LEMMA TakeItemInv ==
    ASSUME PipelineInv, TakeItem
    PROVE  PipelineInv'
  <1> USE DEF PipelineInv
  <1>1. /\ channel # <<>> /\ Len(chunk) < BatchSize
        /\ chunk' = Append(chunk, Head(channel)) /\ channel' = Tail(channel)
        /\ UNCHANGED <<retry_forever, endpoint_ok, uncounted, pending_items, worker, batch, num_of_retries, sent,
                       left, answer>>
    BY DEF TakeItem, settings, producerVars, sendVars
  <1>2. /\ channel' \in Seq(Result) /\ chunk' \in Seq(Result)
        /\ Len(chunk) \in Nat /\ Len(channel) \in Nat
        /\ Len(chunk') = Len(chunk) + 1 /\ Len(channel') = Len(channel) - 1
    BY <1>1, AppendProperties, HeadTailProperties, LenProperties DEF PipelineTypeOK
  <1>3. PipelineTypeOK'
    BY <1>1, <1>2, VectorAssumption DEF PipelineTypeOK
  <1>4. PipelineKeepsOrder'
    <2> DEFINE s == left \o batch
    <2>1. s \in Seq(Result)
      BY ConcatProperties DEF PipelineTypeOK
    <2> HIDE DEF s
    <2>2. (s \o chunk) \o channel = s \o (chunk \o channel)
      <3>1. chunk \in Seq(Result) /\ channel \in Seq(Result)
        BY DEF PipelineTypeOK
      <3> QED
        BY <2>1, <3>1, ConcatAssociative
    <2>3. (s \o chunk') \o channel' = s \o (chunk' \o channel')
      BY <2>1, <1>2, ConcatAssociative
    <2>4. chunk' \o channel' = chunk \o channel
      BY <1>1, HeadMoves DEF PipelineTypeOK
    <2>5. (s \o chunk) \o channel = sent
      BY DEF s, PipelineKeepsOrder
    <2>6. (s \o chunk') \o channel' = sent'
      BY <1>1, <2>2, <2>3, <2>4, <2>5
    <2> QED
      BY <1>1, <2>6 DEF PipelineKeepsOrder, s
  <1>5. NothingGivenUp' /\ CountedOnce'
    BY <1>1 DEF NothingGivenUp, CountedOnce
  <1>6. PendingDoesNotDrift'
    <2>1. Len(channel') + Len(chunk') = Len(channel) + Len(chunk)
      BY <1>2
    <2> QED
      BY <1>1, <2>1 DEF PendingDoesNotDrift
  <1> QED
    BY <1>3, <1>4, <1>5, <1>6

LEMMA EmitChunkInv ==
    ASSUME PipelineInv, EmitChunk
    PROVE  PipelineInv'
  <1> USE DEF PipelineInv
  <1>1. /\ worker = "collect" /\ chunk # <<>>
        /\ pending_items' = (pending_items - Len(chunk)) % CounterRange
        /\ batch' = chunk /\ chunk' = <<>> /\ num_of_retries' = 0 /\ worker' = "send"
        /\ UNCHANGED <<channel, retry_forever, endpoint_ok, uncounted, sent, left, answer>>
    BY DEF EmitChunk, settings, producerVars
  <1>2. /\ pending_items \in Int /\ Len(channel) \in Nat /\ Len(chunk) \in Nat
        /\ Len(chunk') = 0 /\ chunk' \in Seq(Result)
    BY <1>1, LenProperties, VectorAssumption DEF PipelineTypeOK
  <1>3. pending_items' \in 0 .. CounterRange - 1
    BY <1>1, <1>2, ModAbsorbs, VectorAssumption
  <1>4. PipelineTypeOK'
    BY <1>1, <1>2, <1>3, VectorAssumption DEF PipelineTypeOK, Worker
  <1>5. PipelineKeepsOrder'
    <2>1. batch = <<>>
      BY <1>1 DEF PipelineTypeOK
    <2>2. left \o batch = left
      BY <2>1, ConcatEmptySeq DEF PipelineTypeOK
    <2>3. left \o chunk \in Seq(Result)
      BY ConcatProperties DEF PipelineTypeOK
    <2>4. (left \o chunk) \o <<>> = left \o chunk
      BY <2>3, ConcatEmptySeq
    <2> QED
      BY <1>1, <2>2, <2>4 DEF PipelineKeepsOrder
  <1>6. NothingGivenUp' /\ CountedOnce'
    BY <1>1 DEF NothingGivenUp, CountedOnce
  <1>7. PendingDoesNotDrift'
    <2> DEFINE p == pending_items
               u == Cardinality(uncounted)
               l == Len(chunk)
               c == Len(channel)
    <2>1. u \in Nat /\ p \in Int /\ l \in Nat /\ c \in Nat
      BY <1>2, FS_CardinalityType DEF CountedOnce
    <2>2. (p + u) % CounterRange = (c + l) % CounterRange
      BY DEF PendingDoesNotDrift
    <2> HIDE DEF p, u, l, c
    <2>3. (p + u - l) % CounterRange = c % CounterRange
      <3> DEFINE x == p + u
                 y == c + l
                 m == - l
      <3>1. CounterRange \in Nat \ {0} /\ x \in Int /\ y \in Int /\ m \in Int
        BY <2>1, VectorAssumption
      <3>2. x % CounterRange = y % CounterRange
        BY <2>2
      <3>3. x + m = p + u - l /\ y + m = c
        BY <2>1
      <3> HIDE DEF x, y, m
      <3>4. (x + m) % CounterRange = (y + m) % CounterRange
        BY <3>1, <3>2, ModAdd
      <3> QED
        BY <3>3, <3>4
    <2>4. (((p - l) % CounterRange) + u) % CounterRange = ((p - l) + u) % CounterRange
      <3>1. CounterRange \in Nat \ {0} /\ p - l \in Int /\ u \in Int
        BY <2>1, VectorAssumption
      <3> QED
        BY <3>1, ModAbsorbs, Zenon
    <2>5. (p - l) + u = p + u - l /\ c + 0 = c
      BY <2>1
    <2>6. (((p - l) % CounterRange) + u) % CounterRange = (c + 0) % CounterRange
      BY <2>3, <2>4, <2>5
    <2> QED
      BY <1>1, <1>2, <2>6 DEF PendingDoesNotDrift, p, u, l, c
  <1> QED
    BY <1>4, <1>5, <1>6, <1>7

\* An answer, or a failure after which the worker does not try again, lets the batch go.
LEMMA BatchLeavesInv ==
    ASSUME PipelineInv, NEW a \in Answer, answer' = Answered(a), BatchLeaves,
           (retry_forever /\ endpoint_ok) => a # "none", num_of_retries' \in 0 .. MaxRetries,
           UNCHANGED <<channel, retry_forever, endpoint_ok, uncounted, sent, pending_items, chunk>>
    PROVE  PipelineInv'
  <1> USE DEF PipelineInv
  <1>1. left' = left \o batch /\ batch' = <<>> /\ worker' = "collect"
    BY DEF BatchLeaves
  <1>2. left' \in Seq(Result) /\ batch' \in Seq(Result) /\ Len(batch') = 0
    BY <1>1, ConcatProperties DEF PipelineTypeOK
  <1>3. PipelineTypeOK'
    BY <1>1, <1>2, AnsweredGrows, VectorAssumption DEF PipelineTypeOK, Worker
  <1>4. PipelineKeepsOrder'
    <2>1. left' \o batch' = left \o batch
      BY <1>1, <1>2, ConcatEmptySeq
    <2> QED
      BY <2>1 DEF PipelineKeepsOrder
  <1>5. NothingGivenUp'
    <2>1. ToSet(left') = ToSet(left) \cup ToSet(batch)
      BY <1>1, ElementsOfConcat DEF PipelineTypeOK
    <2>2. ToSet(left) \subseteq Result
      BY Elements DEF PipelineTypeOK
    <2>3. SUFFICES ASSUME retry_forever, endpoint_ok, NEW r \in ToSet(left')
                   PROVE  answer'[r] # "none"
      BY DEF NothingGivenUp
    <2> QED
      BY <2>1, <2>2, <2>3, AnsweredGrows DEF NothingGivenUp
  <1>6. CountedOnce' /\ PendingDoesNotDrift'
    BY DEF CountedOnce, PendingDoesNotDrift
  <1> QED
    BY <1>3, <1>4, <1>5, <1>6

\* The rest leaves every result where it is.
LEMMA KeptInv ==
    ASSUME PipelineInv, NEW a \in Answer, answer' = Answered(a) \/ answer' = answer,
           UNCHANGED <<channel, retry_forever, endpoint_ok, uncounted, sent, pending_items, chunk, batch, left>>,
           worker' \in Worker, (worker' \in { "send", "backoff" }) <=> (worker \in { "send", "backoff" }),
           num_of_retries' \in 0 .. MaxRetries
    PROVE  PipelineInv'
  <1> USE DEF PipelineInv
  <1>1. /\ answer' \in [Result -> Answer]
        /\ \A r \in Result : answer[r] # "none" => answer'[r] # "none"
    BY AnsweredGrows DEF PipelineTypeOK
  <1>2. PipelineTypeOK'
    BY <1>1 DEF PipelineTypeOK
  <1>3. NothingGivenUp'
    <2>1. ToSet(left) \subseteq Result
      BY Elements DEF PipelineTypeOK
    <2> QED
      BY <1>1, <2>1 DEF NothingGivenUp
  <1>4. PipelineKeepsOrder' /\ CountedOnce' /\ PendingDoesNotDrift'
    BY DEF PipelineKeepsOrder, CountedOnce, PendingDoesNotDrift
  <1> QED
    BY <1>2, <1>3, <1>4

LEMMA PipelineInvInit == Init => PipelineInv
  <1> SUFFICES ASSUME Init PROVE PipelineInv
    OBVIOUS
  <1> USE DEF Init
  <1>1. <<>> \in Seq(Result) /\ Len(<<>>) = 0 /\ <<>> \o <<>> = <<>> /\ ToSet(<<>>) = {}
    BY DEF ToSet
  <1>2. PipelineTypeOK
    BY <1>1, VectorAssumption DEF PipelineTypeOK, Worker, Answer
  <1>3. PipelineKeepsOrder
    BY <1>1 DEF PipelineKeepsOrder
  <1>4. NothingGivenUp
    BY <1>1 DEF NothingGivenUp
  <1>5. CountedOnce /\ PendingDoesNotDrift
    BY <1>1, FS_EmptySet DEF CountedOnce, PendingDoesNotDrift
  <1> QED
    BY <1>2, <1>3, <1>4, <1>5 DEF PipelineInv

LEMMA PipelineInvStep == PipelineInv /\ [Next]_vars => PipelineInv'
  <1> SUFFICES ASSUME PipelineInv, [Next]_vars PROVE PipelineInv'
    OBVIOUS
  <1>0. /\ "none" \in Answer /\ "took" \in Answer /\ "refused" \in Answer
        /\ num_of_retries \in 0 .. MaxRetries /\ CountRetry \in 0 .. MaxRetries
        /\ worker \in Worker
    BY VectorAssumption DEF PipelineInv, PipelineTypeOK, Answer, CountRetry
  <1>1. CASE \E r \in Result : SendResult(r) \/ CountResult(r)
    BY <1>1, SendResultInv, CountResultInv
  <1>2. CASE TakeItem
    BY <1>2, TakeItemInv
  <1>3. CASE EmitChunk
    BY <1>3, EmitChunkInv
  <1>4. CASE DropProducer \/ Idle \/ UNCHANGED vars
    <2>1. UNCHANGED <<channel, retry_forever, endpoint_ok, uncounted, sent, pending_items, chunk, batch, left,
                      answer, worker, num_of_retries>>
      BY <1>4 DEF DropProducer, Idle, vars, settings, producerVars, sendVars
    <2> QED
      BY <1>0, <2>1, KeptInv
  <1>5. CASE EndWorker \/ RetryAfterDelay
    <2>1. UNCHANGED <<channel, retry_forever, endpoint_ok, uncounted, sent, pending_items, chunk, batch, left,
                      answer, num_of_retries>>
      BY <1>5 DEF EndWorker, RetryAfterDelay, settings, producerVars, sendVars
    <2>2. worker' \in Worker /\ ((worker' \in { "send", "backoff" }) <=> (worker \in { "send", "backoff" }))
      BY <1>5 DEF EndWorker, RetryAfterDelay, Worker
    <2> QED
      BY <1>0, <2>1, <2>2, KeptInv
  <1>6. ASSUME NEW took \in BOOLEAN, VectorAnswers(took)
        PROVE  PipelineInv'
    <2> DEFINE a == IF took THEN "took" ELSE "refused"
    <2>1. a \in Answer /\ a # "none"
      BY <1>0
    <2>2. /\ answer' = Answered(a) /\ BatchLeaves
          /\ UNCHANGED <<channel, retry_forever, endpoint_ok, uncounted, sent, pending_items, chunk, num_of_retries>>
      BY <1>6 DEF VectorAnswers, settings, producerVars, sendVars
    <2> HIDE DEF a
    <2> QED
      BY <1>0, <2>1, <2>2, BatchLeavesInv
  <1>7. ASSUME NEW took \in BOOLEAN, RequestFails(took)
        PROVE  PipelineInv'
    <2> DEFINE a == IF took THEN "took" ELSE "none"
    <2>1. a \in Answer
      BY <1>0
    <2>2. /\ answer' = Answered(a) /\ worker = "send" /\ worker' = "backoff"
          /\ num_of_retries' = CountRetry
          /\ UNCHANGED <<channel, retry_forever, endpoint_ok, uncounted, sent, pending_items, chunk, batch, left>>
      BY <1>7 DEF RequestFails, settings, producerVars
    <2> HIDE DEF a
    <2>3. worker' \in Worker /\ ((worker' \in { "send", "backoff" }) <=> (worker \in { "send", "backoff" }))
      BY <2>2 DEF Worker
    <2> QED
      BY <1>0, <2>1, <2>2, <2>3, KeptInv
  <1>8. ASSUME NEW took \in BOOLEAN, RequestGivesUp(took)
        PROVE  PipelineInv'
    <2> DEFINE a == IF took THEN "took" ELSE "none"
    <2>1. a \in Answer
      BY <1>0
    <2>2. /\ answer' = Answered(a) /\ ~ retry_forever /\ BatchLeaves
          /\ num_of_retries' = CountRetry
          /\ UNCHANGED <<channel, retry_forever, endpoint_ok, uncounted, sent, pending_items, chunk>>
      BY <1>8 DEF RequestGivesUp, settings, producerVars
    <2> HIDE DEF a
    <2> QED
      BY <1>0, <2>1, <2>2, BatchLeavesInv
  <1>9. CASE BuildFails
    <2>1. /\ answer' = answer /\ ~ endpoint_ok /\ BatchLeaves
          /\ UNCHANGED <<channel, retry_forever, endpoint_ok, uncounted, sent, pending_items, chunk,
                         num_of_retries>>
      BY <1>9 DEF BuildFails, settings, producerVars, sendVars
    <2>2. answer' = Answered("none")
      BY <2>1 DEF Answered, PipelineInv, PipelineTypeOK
    <2> QED
      BY <1>0, <2>1, <2>2, BatchLeavesInv
  <1> QED
    BY <1>1, <1>2, <1>3, <1>4, <1>5, <1>6, <1>7, <1>8, <1>9 DEF Next, WorkerStep

LEMMA PipelineInvHolds == Safety => []PipelineInv
  BY PipelineInvInit, PipelineInvStep, PTL DEF Safety

------------------------------------------------------------------------------
(* The theorems.                                                            *)

\* chunks_timeout, the retries of send_batch and the closing of the channel neither
\* lose, repeat nor reorder a result.
THEOREM PipelineKeepsOrderHolds == Safety => []PipelineKeepsOrder
  BY PipelineInvHolds, PTL DEF PipelineInv

\* With retry_vector_errors_forever a batch leaves send_batch only with an answer, unless
\* no request to the endpoint can be built: then build() ends the loop for every batch.
THEOREM NothingGivenUpHolds == Safety => []NothingGivenUp
  BY PipelineInvHolds, PTL DEF PipelineInv

\* pending_items may wrap between the send and the fetch_add of produce_checker_result,
\* but comes back to what waits in front of send_batch, whatever the width of a usize.
THEOREM PendingDoesNotDriftHolds == Safety => []PendingDoesNotDrift
  BY PipelineInvHolds, PTL DEF PipelineInv
===============================================================================
