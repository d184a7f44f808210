-------------------------- MODULE StatisticsProofs --------------------------
(* Proofs about RingBuffer and SharedStatistics, for every capacity, window *)
(* and set of samples.                                                     *)
EXTENDS SharedStatistics, LoopsProofs

\* The cursor stays inside the buffer and the count within its capacity.
THEOREM RingTypeCorrect == RingSpec => []RingTypeOK
<1> USE RingAssumption DEF RingTypeOK, Slot
<1>1. RingInit => RingTypeOK
  BY DEF RingInit
<1>2. RingTypeOK /\ [RingNext]_ring => RingTypeOK'
  <2> SUFFICES ASSUME RingTypeOK, [RingNext]_ring PROVE RingTypeOK'
    OBVIOUS
  <2>1. CASE Clear
    BY <2>1 DEF Clear
  <2>2. ASSUME NEW x \in Samples, Push(x) PROVE RingTypeOK'
    BY <2>2 DEF Push, Full
  <2>3. CASE UNCHANGED ring
    BY <2>3 DEF ring
  <2> QED
    BY <2>1, <2>2, <2>3 DEF RingNext
<1> QED
  BY <1>1, <1>2, PTL DEF RingSpec

\* After a push the newest sample is the one pushed, and every other one is a
\* position older than it was.
LEMMA PushAges ==
    ASSUME RingTypeOK, NEW x \in Samples, Push(x)
    PROVE  /\ At(0)' = x
           /\ \A age \in Nat \ {0} : age < count' => At(age)' = At(age - 1)
<1>1. /\ Capacity \in Nat \ {0}
      /\ index \in Nat /\ index < Capacity
      /\ count' \in Nat /\ count' <= Capacity
  BY RingAssumption DEF Push, Full, RingTypeOK, Slot
<1>2. /\ index' = IF index + 1 = Capacity THEN 0 ELSE index + 1
      /\ data \in [0..(Capacity - 1) -> Samples]
      /\ data' = [data EXCEPT ![index] = x]
  BY DEF Push, RingTypeOK, Slot
<1>3. data'[index] = x /\ \A k \in 0..(Capacity - 1) : k # index => data'[k] = data[k]
  BY <1>1, <1>2
<1>4. At(0)' = x
  <2>1. (IF index' - 1 - 0 < 0 THEN index' - 1 - 0 + Capacity ELSE index' - 1 - 0) = index
    BY <1>1, <1>2
  <2> QED
    BY <1>3, <2>1 DEF At
<1>5. ASSUME NEW age \in Nat \ {0}, age < count' PROVE At(age)' = At(age - 1)
  <2>1. age \in Nat /\ 1 <= age /\ age < Capacity
    BY <1>1, <1>5
  <2>2. CASE index + 1 = Capacity
    <3>1. At(age)' = data'[Capacity - 1 - age]
      BY <1>2, <2>1, <2>2, <1>1 DEF At
    <3>2. At(age - 1) = data[Capacity - 1 - age]
      BY <1>1, <2>1, <2>2 DEF At
    <3> QED
      BY <1>1, <1>3, <2>1, <2>2, <3>1, <3>2
  <2>3. CASE index + 1 # Capacity /\ age <= index
    <3>1. At(age)' = data'[index - age]
      BY <1>1, <1>2, <2>1, <2>3 DEF At
    <3>2. At(age - 1) = data[index - age]
      BY <1>1, <2>1, <2>3 DEF At
    <3> QED
      BY <1>1, <1>3, <2>1, <2>3, <3>1, <3>2
  <2>4. CASE index + 1 # Capacity /\ index < age
    <3>1. At(age)' = data'[index - age + Capacity]
      BY <1>1, <1>2, <2>1, <2>4 DEF At
    <3>2. At(age - 1) = data[index - age + Capacity]
      BY <1>1, <2>1, <2>4 DEF At
    <3> QED
      BY <1>1, <1>3, <2>1, <2>4, <3>1, <3>2
  <2> QED
    BY <1>1, <2>1, <2>2, <2>3, <2>4
<1> QED
  BY <1>4, <1>5

\* A push slides the window: it gains the sample at the front and loses its
\* oldest one when it was full.
LEMMA PushSlides ==
    ASSUME RingTypeOK, NEW x \in Samples, Push(x)
    PROVE  Contents' = Window!Slide(Contents, x)
<1> USE RingAssumption DEF RingTypeOK, Slot
<1>1. count' = IF count < Capacity THEN count + 1 ELSE Capacity
  BY DEF Push, Full
<1>2. Len(Contents) = count
  BY DEF Contents
<1>3. ASSUME NEW i \in 1..count'
      PROVE  At(i - 1)' = IF i = 1 THEN x ELSE Contents[i - 1]
  <2>1. CASE i = 1
    BY <2>1, PushAges
  <2>2. CASE i # 1
    <3>1. i - 1 \in Nat \ {0} /\ i - 1 < count' /\ i - 1 \in 1..count
      BY <1>1, <2>2
    <3>2. At(i - 1)' = At((i - 1) - 1)
      BY <3>1, PushAges
    <3>3. Contents[i - 1] = At((i - 1) - 1)
      BY <3>1 DEF Contents
    <3> QED
      BY <2>2, <3>2, <3>3
  <2> QED
    BY <2>1, <2>2
<1> QED
  BY <1>1, <1>2, <1>3 DEF Contents, Window!Slide

\* The ring buffer implements the window of the last samples, whatever its
\* capacity: the contract every rolling statistic is built on.
THEOREM RingImplementsWindow == RingSpec => ImplementsWindow
<1>1. RingInit => Window!Init
  BY DEF RingInit, Window!Init, Contents
<1>2. RingTypeOK /\ [RingNext]_ring => [Window!Next]_Contents
  <2> SUFFICES ASSUME RingTypeOK, [RingNext]_ring
               PROVE  [Window!Next]_Contents
    OBVIOUS
  <2>1. CASE Clear
    BY <2>1 DEF Clear, Contents, Window!Next
  <2>2. ASSUME NEW x \in Samples, Push(x) PROVE Window!Next
    BY <2>2, PushSlides DEF Window!Next
  <2>3. CASE UNCHANGED ring
    BY <2>3 DEF ring, Contents, At
  <2> QED
    BY <2>1, <2>2, <2>3 DEF RingNext
<1> QED
  BY <1>1, <1>2, RingTypeCorrect, PTL DEF RingSpec, ImplementsWindow, Window!Spec

----------------------------------------------------------------------------
LEMMA GreatestIndex ==
    ASSUME NEW n \in Nat, NEW S \in SUBSET (1..n), S # {}
    PROVE  Max(S) \in S /\ \A k \in S : k <= Max(S)
<1> DEFINE U == {b \in Nat : \A k \in S : k <= b}
<1>1. n \in U
  OBVIOUS
<1>2. PICK b \in U : \A c \in U : b <= c
  <2>1. U \subseteq Nat
    OBVIOUS
  <2> HIDE DEF U
  <2> QED
    BY <1>1, <2>1, LeastNatural
<1>3. b \in S
  <2> SUFFICES ASSUME b \notin S PROVE FALSE
    OBVIOUS
  <2>1. b \in Nat /\ \A k \in S : k \in Nat /\ 1 <= k /\ k <= b /\ k # b
    BY <1>2
  <2>2. b - 1 \in U
    <3>1. \A k \in S : k <= b - 1
      BY <2>1
    <3>2. PICK k \in S : TRUE
      OBVIOUS
    <3>3. b - 1 \in Nat
      BY <2>1, <3>2
    <3> QED
      BY <3>1, <3>3
  <2> QED
    BY <1>2, <2>2
<1>4. \E x \in S : \A k \in S : x >= k
  BY <1>2, <1>3
<1>5. Max(S) \in S /\ \A k \in S : Max(S) >= k
  BY <1>4 DEF Max
<1> QED
  BY <1>5

----------------------------------------------------------------------------
(* A window, newest sample first.                                          *)

\* v is w after x, and no longer than n.
Slid(w, x, n, v) ==
    /\ v[1] = x
    /\ Len(v) = IF Len(w) < n THEN Len(w) + 1 ELSE n
    /\ \A i \in 2..Len(v) : i - 1 \in DOMAIN w /\ v[i] = w[i - 1]

LEMMA PushedSlides ==
    ASSUME NEW S, NEW w \in Seq(S), NEW x \in S, NEW n \in Nat \ {0}, Len(w) <= n
    PROVE  Pushed(w, x, n) \in Seq(S) /\ Slid(w, x, n, Pushed(w, x, n))
<1> DEFINE longer == <<x>> \o w
           m == IF Len(w) < n THEN Len(w) + 1 ELSE n
<1>1. /\ longer \in Seq(S) /\ Len(longer) = Len(w) + 1 /\ longer[1] = x
      /\ \A i \in 2..(Len(w) + 1) : longer[i] = w[i - 1]
  OBVIOUS
<1>2. m \in 1..Len(longer) /\ Len(w) \in Nat /\ DOMAIN w = 1..Len(w)
  BY <1>1
<1> HIDE DEF longer
<1>3. /\ SubSeq(longer, 1, m) \in Seq(S)
      /\ Len(SubSeq(longer, 1, m)) = m
      /\ \A i \in 1..m : SubSeq(longer, 1, m)[i] = longer[i]
  BY <1>1, <1>2
<1>4. Pushed(w, x, n) = SubSeq(longer, 1, m)
  BY DEF Pushed, longer
<1> QED
  BY <1>1, <1>2, <1>3, <1>4 DEF Slid

----------------------------------------------------------------------------
(* MonotonicWindow: candidates d for the extreme of the window w.          *)

Sense == {1, -1}
Beats(sense, a, b) == sense * a > sense * b

LEMMA BeatsIsAnOrder ==
    ASSUME NEW sense \in Sense, NEW a \in Int, NEW b \in Int, NEW c \in Int
    PROVE  /\ ~Beats(sense, a, a)
           /\ Beats(sense, a, b) /\ Beats(sense, b, c) => Beats(sense, a, c)
           /\ ~Beats(sense, a, b) /\ ~Beats(sense, b, c) => ~Beats(sense, a, c)
           /\ Beats(sense, a, b) => ~Beats(sense, b, a)
<1>1. CASE sense = 1
  BY <1>1 DEF Beats
<1>2. CASE sense = -1
  BY <1>2 DEF Beats
<1> QED
  BY <1>1, <1>2 DEF Sense

Candidate == [age : Nat, value : Int]

LEMMA CandidateFields ==
    ASSUME NEW d \in Seq(Candidate)
    PROVE  /\ DOMAIN d = 1..Len(d) /\ Len(d) \in Nat
           /\ \A k \in DOMAIN d : d[k] \in Candidate /\ d[k].value \in Int /\ d[k].age \in Nat
<1>1. DOMAIN d = 1..Len(d) /\ Len(d) \in Nat /\ \A k \in DOMAIN d : d[k] \in Candidate
  OBVIOUS
<1>2. \A c \in Candidate : c.value \in Int /\ c.age \in Nat
  BY DEF Candidate
<1> QED
  BY <1>1, <1>2

\* Candidates are samples of the window, ...
AreSamples(d, w) ==
    \A k \in DOMAIN d : d[k].age + 1 \in DOMAIN w /\ w[d[k].age + 1] = d[k].value

\* ... the older the better, ...
AreOrdered(d, sense) ==
    \A i, j \in DOMAIN d :
        i < j => d[j].age < d[i].age /\ Beats(sense, d[i].value, d[j].value)

\* ... and no sample beats every candidate that is as young.
AreEnough(d, w, sense) ==
    \A i \in DOMAIN w : \E k \in DOMAIN d :
        d[k].age + 1 <= i /\ ~Beats(sense, w[i], d[k].value)

Extremal(d, w, sense) ==
    d \in Seq(Candidate) /\ AreSamples(d, w) /\ AreOrdered(d, sense) /\ AreEnough(d, w, sense)

\* The first candidate is the extreme of the window.
LEMMA HeadIsExtreme ==
    ASSUME NEW sense \in Sense, NEW w \in Seq(Int), NEW d, Extremal(d, w, sense), w # <<>>
    PROVE  /\ d[1].value \in {w[i] : i \in DOMAIN w}
           /\ \A i \in DOMAIN w : ~Beats(sense, w[i], d[1].value)
<1>1. d \in Seq(Candidate) /\ DOMAIN d = 1..Len(d) /\ Len(d) \in Nat
  BY CandidateFields DEF Extremal
<1>2. \A k \in DOMAIN d : d[k].value \in Int /\ d[k].age \in Nat
  BY <1>1, CandidateFields
<1>3. DOMAIN w = 1..Len(w) /\ 1 \in DOMAIN w /\ \A i \in DOMAIN w : w[i] \in Int
  OBVIOUS
<1>4. 1 \in DOMAIN d
  BY <1>1, <1>3 DEF Extremal, AreEnough
<1>5. ASSUME NEW i \in DOMAIN w
      PROVE  ~Beats(sense, w[i], d[1].value)
  <2>1. PICK k \in DOMAIN d : ~Beats(sense, w[i], d[k].value)
    BY DEF Extremal, AreEnough
  <2>2. CASE k = 1
    BY <2>1, <2>2
  <2>3. CASE k # 1
    <3>1. Beats(sense, d[1].value, d[k].value)
      BY <1>1, <1>4, <2>3 DEF Extremal, AreOrdered
    <3>2. ~Beats(sense, d[k].value, d[1].value)
      BY <1>2, <1>4, <3>1, BeatsIsAnOrder
    <3> QED
      BY <1>2, <1>3, <1>4, <2>1, <3>2, BeatsIsAnOrder
  <2> QED
    BY <2>2, <2>3
<1> QED
  BY <1>4, <1>5 DEF Extremal, AreSamples

\* The candidates x leaves, a position older: a first part of d.
LEMMA UndominatedKeepsFirst ==
    ASSUME NEW sense \in Sense, NEW d \in Seq(Candidate), NEW x \in Int, AreOrdered(d, sense)
    PROVE  \E m \in 0..Len(d) :
              /\ Undominated(d, x, sense) = SubSeq(d, 1, m)
              /\ \A k \in 1..m : Beats(sense, d[k].value, x)
              /\ \A k \in (m + 1)..Len(d) : ~Beats(sense, d[k].value, x)
<1> DEFINE kept == {k \in DOMAIN d : sense * d[k].value > sense * x}
           m == IF kept = {} THEN 0 ELSE Max(kept)
<1>1. DOMAIN d = 1..Len(d) /\ Len(d) \in Nat /\ \A k \in DOMAIN d : d[k].value \in Int
  BY CandidateFields
<1>2. Undominated(d, x, sense) = SubSeq(d, 1, m)
  BY DEF Undominated
<1>3. \A k \in DOMAIN d : k \in kept <=> Beats(sense, d[k].value, x)
  BY DEF Beats
<1>4. kept \subseteq 1..Len(d)
  BY <1>1
<1> HIDE DEF kept
<1>5. CASE kept = {}
  BY <1>1, <1>2, <1>3, <1>5
<1>6. CASE kept # {}
  <2>1. m \in kept /\ \A k \in kept : k <= m
    BY <1>1, <1>4, <1>6, GreatestIndex
  <2>2. m \in 1..Len(d)
    BY <1>4, <2>1
  <2> HIDE DEF m
  <2>3. ASSUME NEW k \in 1..m
        PROVE  Beats(sense, d[k].value, x)
    <3>1. CASE k = m
      BY <1>1, <1>3, <2>1, <2>2, <3>1
    <3>2. CASE k # m
      <4>1. k \in DOMAIN d /\ m \in DOMAIN d /\ k < m
        BY <1>1, <2>2, <3>2
      <4>2. Beats(sense, d[k].value, d[m].value) /\ Beats(sense, d[m].value, x)
        BY <1>3, <2>1, <4>1 DEF AreOrdered
      <4> QED
        BY <1>1, <4>1, <4>2, BeatsIsAnOrder
    <3> QED
      BY <3>1, <3>2
  <2>4. \A k \in (m + 1)..Len(d) : ~Beats(sense, d[k].value, x)
    BY <1>1, <1>3, <2>1, <2>2
  <2> QED
    BY <1>2, <2>2, <2>3, <2>4
<1> QED
  BY <1>5, <1>6

\* One update keeps the candidates what they are.
LEMMA CandidatesFollowWindow ==
    ASSUME NEW sense \in Sense, NEW w \in Seq(Int), NEW d, Extremal(d, w, sense),
           NEW x \in Int, Len(w) <= Stability
    PROVE  Extremal(Candidates(d, x, sense), Pushed(w, x, Stability), sense)
<1> DEFINE aged == [k \in DOMAIN d |-> [d[k] EXCEPT !.age = @ + 1]]
           new == [age |-> 0, value |-> x]
           v == Pushed(w, x, Stability)
<1>1. /\ Stability \in Nat \ {0} /\ Len(w) \in Nat
      /\ DOMAIN w = 1..Len(w) /\ \A i \in DOMAIN w : w[i] \in Int
  BY StatisticsAssumption
<1>2. d \in Seq(Candidate) /\ DOMAIN d = 1..Len(d) /\ Len(d) \in Nat
      /\ \A k \in DOMAIN d : d[k] \in Candidate /\ d[k].value \in Int /\ d[k].age \in Nat
  BY CandidateFields DEF Extremal
<1>3. /\ aged \in Seq(Candidate) /\ Len(aged) = Len(d) /\ DOMAIN aged = DOMAIN d
      /\ \A k \in DOMAIN d : aged[k].age = d[k].age + 1 /\ aged[k].value = d[k].value
  <2>1. \A k \in DOMAIN d : aged[k] = [d[k] EXCEPT !.age = @ + 1]
    OBVIOUS
  <2>2. \A c \in Candidate : /\ [c EXCEPT !.age = @ + 1] \in Candidate
                            /\ [c EXCEPT !.age = @ + 1].age = c.age + 1
                            /\ [c EXCEPT !.age = @ + 1].value = c.value
    BY DEF Candidate
  <2>3. aged \in [1..Len(d) -> Candidate]
    BY <1>2, <2>2
  <2>4. aged \in Seq(Candidate) /\ Len(aged) = Len(d)
    BY <1>2, <2>3
  <2> QED
    BY <1>2, <2>1, <2>2, <2>4
<1>4. /\ v \in Seq(Int) /\ v[1] = x /\ DOMAIN v = 1..Len(v)
      /\ Len(v) = IF Len(w) < Stability THEN Len(w) + 1 ELSE Stability
      /\ \A i \in 2..Len(v) : i - 1 \in DOMAIN w /\ v[i] = w[i - 1]
  <2>1. /\ v \in Seq(Int) /\ v[1] = x
        /\ Len(v) = IF Len(w) < Stability THEN Len(w) + 1 ELSE Stability
        /\ \A i \in 2..Len(v) : i - 1 \in DOMAIN w /\ v[i] = w[i - 1]
    <3>1. v \in Seq(Int) /\ Slid(w, x, Stability, v)
      BY <1>1, PushedSlides
    <3> QED
      BY <3>1 DEF Slid
  <2> HIDE DEF v
  <2> QED
    BY <2>1
<1> HIDE DEF aged, v
<1>5. AreOrdered(aged, sense)
  <2> SUFFICES ASSUME NEW i \in DOMAIN d, NEW j \in DOMAIN d, i < j
               PROVE  aged[j].age < aged[i].age /\ Beats(sense, aged[i].value, aged[j].value)
    BY <1>3 DEF AreOrdered
  <2>1. d[j].age < d[i].age /\ Beats(sense, d[i].value, d[j].value)
    BY DEF Extremal, AreOrdered
  <2>2. d[i].age \in Nat /\ d[j].age \in Nat
    BY <1>2
  <2> QED
    BY <1>3, <2>1, <2>2
<1>6. PICK m \in 0..Len(aged) :
          /\ Undominated(aged, x, sense) = SubSeq(aged, 1, m)
          /\ \A k \in 1..m : Beats(sense, aged[k].value, x)
          /\ \A k \in (m + 1)..Len(aged) : ~Beats(sense, aged[k].value, x)
  BY <1>3, <1>5, UndominatedKeepsFirst
<1> DEFINE all == Append(SubSeq(aged, 1, m), new)
<1>7. /\ all \in Seq(Candidate) /\ Len(all) = m + 1 /\ DOMAIN all = 1..(m + 1)
      /\ all[m + 1] = new
      /\ \A k \in 1..m : k \in DOMAIN d /\ all[k] = aged[k]
  <2>1. new \in Candidate
    BY DEF Candidate
  <2>2. SubSeq(aged, 1, m) \in Seq(Candidate) /\ Len(SubSeq(aged, 1, m)) = m
        /\ \A k \in 1..m : SubSeq(aged, 1, m)[k] = aged[k]
    BY <1>3
  <2> HIDE DEF new
  <2>3. \A k \in 1..m : k \in DOMAIN d
    BY <1>2, <1>3
  <2> QED
    BY <2>1, <2>2, <2>3
<1>8. new.age = 0 /\ new.value = x
  OBVIOUS
<1>9. Candidates(d, x, sense) = IF all[1].age >= Stability THEN Tail(all) ELSE all
  BY <1>6 DEF Candidates, aged
<1> HIDE DEF all, new
\* What holds of all the candidates, the expired one included.
<1>10. AreOrdered(all, sense)
  <2> SUFFICES ASSUME NEW i \in 1..(m + 1), NEW j \in 1..(m + 1), i < j
               PROVE  all[j].age < all[i].age /\ Beats(sense, all[i].value, all[j].value)
    BY <1>7 DEF AreOrdered
  <2>1. CASE j <= m
    <3>1. i \in 1..m /\ j \in 1..m
      BY <1>3, <2>1
    <3>2. i \in DOMAIN aged /\ j \in DOMAIN aged /\ all[i] = aged[i] /\ all[j] = aged[j]
      BY <1>3, <1>7, <3>1
    <3> QED
      BY <1>5, <3>2 DEF AreOrdered
  <2>2. CASE j = m + 1
    <3>1. i \in 1..m /\ all[i] = aged[i] /\ aged[i].age = d[i].age + 1 /\ d[i].age \in Nat
      BY <1>2, <1>3, <1>7, <2>2
    <3> QED
      BY <1>6, <1>7, <1>8, <2>2, <3>1, SMTT(30)
  <2> QED
    BY <2>1, <2>2
<1>11. ASSUME NEW k \in DOMAIN all, all[k].age < Stability
       PROVE  all[k].age + 1 \in DOMAIN v /\ v[all[k].age + 1] = all[k].value
  <2>1. CASE k = m + 1
    BY <1>1, <1>4, <1>7, <1>8, <2>1
  <2>2. CASE k <= m
    <3>1. /\ k \in DOMAIN d /\ all[k].age = d[k].age + 1
          /\ all[k].value = d[k].value /\ d[k].age \in Nat
      BY <1>2, <1>3, <1>7, <2>2
    <3>2. d[k].age + 1 \in 1..Len(w) /\ w[d[k].age + 1] = d[k].value
      BY <1>1, <3>1 DEF Extremal, AreSamples
    <3>3. all[k].age + 1 \in 2..Len(v)
      <4>1. all[k].age + 1 = d[k].age + 2 /\ d[k].age + 2 <= Len(w) + 1
            /\ d[k].age + 2 <= Stability
        BY <1>1, <1>11, <3>1, <3>2
      <4>2. d[k].age + 2 <= Len(v) /\ Len(v) \in Nat
        BY <1>1, <1>4, <3>1, <4>1
      <4> QED
        BY <3>1, <4>1, <4>2
    <3> QED
      <4> DEFINE n == all[k].age + 1
      <4>1. n - 1 = d[k].age + 1
        BY <3>1
      <4>2. n \in 2..Len(v)
        BY <3>3
      <4> HIDE DEF n
      <4>3. n - 1 \in DOMAIN w /\ v[n] = w[n - 1]
        BY <1>4, <4>2
      <4>4. n \in DOMAIN v
        BY <1>4, <4>2
      <4>5. n = all[k].age + 1
        BY DEF n
      <4> QED
        BY <3>1, <3>2, <4>1, <4>3, <4>4, <4>5
  <2> QED
    BY <1>7, <2>1, <2>2
<1>12. ASSUME NEW i \in DOMAIN v
       PROVE  \E k \in DOMAIN all : all[k].age + 1 <= i /\ ~Beats(sense, v[i], all[k].value)
  <2>1. CASE i = 1
    <3>1. m + 1 \in DOMAIN all /\ all[m + 1].age = 0 /\ all[m + 1].value = x /\ v[i] = x
      BY <1>3, <1>4, <1>7, <1>8, <2>1
    <3>2. ~Beats(sense, x, x)
      BY BeatsIsAnOrder
    <3> QED
      BY <2>1, <3>1, <3>2
  <2>2. CASE i # 1
    <3>1. i \in 2..Len(v) /\ i - 1 \in DOMAIN w /\ v[i] = w[i - 1] /\ w[i - 1] \in Int
      <4>1. i \in 2..Len(v)
        BY <1>4, <2>2
      <4> QED
        BY <1>1, <1>4, <4>1
    <3>2. PICK k \in DOMAIN d : d[k].age + 1 <= i - 1 /\ ~Beats(sense, w[i - 1], d[k].value)
      BY <3>1 DEF Extremal, AreEnough
    <3>3. /\ aged[k].age = d[k].age + 1 /\ aged[k].value = d[k].value
          /\ d[k].age \in Nat /\ d[k].value \in Int
      BY <1>2, <1>3
    <3>4. CASE k <= m
      <4>1. k \in 1..m /\ k \in DOMAIN all /\ all[k] = aged[k]
        BY <1>2, <1>7, <3>4
      <4>2. all[k].age + 1 <= i
        BY <3>1, <3>2, <3>3, <4>1, SMTT(30)
      <4>3. ~Beats(sense, v[i], all[k].value)
        BY <3>1, <3>2, <3>3, <4>1
      <4> QED
        BY <4>1, <4>2, <4>3
    <3>5. CASE k > m
      <4>1. ~Beats(sense, d[k].value, x)
        BY <1>2, <1>3, <1>6, <3>3, <3>5
      <4>2. ~Beats(sense, v[i], x)
        BY <3>1, <3>2, <3>3, <4>1, BeatsIsAnOrder
      <4>3. m + 1 \in DOMAIN all /\ all[m + 1].age + 1 <= i /\ all[m + 1].value = x
        BY <1>3, <1>7, <1>8, <3>1
      <4> QED
        BY <4>2, <4>3
    <3> QED
      BY <1>2, <3>4, <3>5
  <2> QED
    BY <2>1, <2>2
<1>13. CASE all[1].age >= Stability
  <2> DEFINE rest == Tail(all)
  <2>1. m >= 1
    BY <1>1, <1>7, <1>8, <1>13
  <2>2. /\ rest \in Seq(Candidate) /\ Len(rest) = m /\ DOMAIN rest = 1..m
        /\ \A k \in 1..m : rest[k] = all[k + 1] /\ k + 1 \in DOMAIN all
    BY <1>7, <2>1
  <2> HIDE DEF rest
  \* The head was the oldest sample of a full window.
  <2>3. Len(w) = Stability /\ d[1].age = Stability - 1 /\ all[1].age = Stability
    <3>1. 1 \in DOMAIN d /\ all[1].age = d[1].age + 1 /\ d[1].age \in Nat
      <4>1. 1 \in 1..m
        BY <2>1
      <4>2. 1 \in DOMAIN d /\ all[1] = aged[1]
        BY <1>7, <4>1
      <4> QED
        BY <1>2, <1>3, <4>2
    <3>2. d[1].age + 1 \in 1..Len(w)
      BY <1>1, <3>1 DEF Extremal, AreSamples
    <3>3. Len(w) \in Nat /\ Stability \in Nat /\ Len(w) <= Stability /\ d[1].age + 1 >= Stability
      BY <1>1, <1>13, <3>1
    <3>4. d[1].age + 1 <= Len(w)
      BY <1>1, <3>1, <3>2
    <3> QED
      BY <3>1, <3>3, <3>4
  <2>4. AreOrdered(rest, sense)
    <3> SUFFICES ASSUME NEW i \in 1..m, NEW j \in 1..m, i < j
                 PROVE  rest[j].age < rest[i].age /\ Beats(sense, rest[i].value, rest[j].value)
      BY <2>2 DEF AreOrdered
    <3>1. i + 1 \in DOMAIN all /\ j + 1 \in DOMAIN all /\ i + 1 < j + 1
          /\ rest[i] = all[i + 1] /\ rest[j] = all[j + 1]
      BY <2>2
    <3> QED
      BY <1>10, <3>1 DEF AreOrdered
  <2>5. AreSamples(rest, v)
    <3> SUFFICES ASSUME NEW k \in 1..m
                 PROVE  rest[k].age + 1 \in DOMAIN v /\ v[rest[k].age + 1] = rest[k].value
      BY <2>2 DEF AreSamples
    <3>1. k + 1 \in DOMAIN all /\ 1 \in DOMAIN all /\ 1 < k + 1 /\ rest[k] = all[k + 1]
      BY <1>7, <2>2
    <3>2. all[k + 1].age < Stability
      BY <1>10, <2>3, <3>1 DEF AreOrdered
    <3> QED
      BY <1>11, <3>1, <3>2
  <2>6. AreEnough(rest, v, sense)
    <3> SUFFICES ASSUME NEW i \in DOMAIN v
                 PROVE  \E k \in DOMAIN rest :
                            rest[k].age + 1 <= i /\ ~Beats(sense, v[i], rest[k].value)
      BY DEF AreEnough
    <3>1. PICK k \in DOMAIN all : all[k].age + 1 <= i /\ ~Beats(sense, v[i], all[k].value)
      BY <1>12
    <3>2. k # 1
      BY <1>1, <1>4, <2>3, <3>1
    <3>3. k - 1 \in 1..m /\ rest[k - 1] = all[k]
      BY <1>7, <2>2, <3>2
    <3> QED
      BY <2>2, <3>1, <3>3
  <2> QED
    BY <1>9, <1>13, <2>2, <2>4, <2>5, <2>6 DEF Extremal, rest, v
<1>14. CASE ~(all[1].age >= Stability)
  <2>1. \A k \in DOMAIN all : all[k].age < Stability
    <3> SUFFICES ASSUME NEW k \in DOMAIN all PROVE all[k].age < Stability
      OBVIOUS
    <3>1. all[1].age \in Nat /\ all[k].age \in Nat /\ 1 \in DOMAIN all
      BY <1>7, CandidateFields
    <3>2. k = 1 \/ all[k].age < all[1].age
      BY <1>7, <1>10, <3>1 DEF AreOrdered
    <3> QED
      BY <1>1, <1>14, <3>1, <3>2
  <2>2. AreSamples(all, v)
    BY <1>11, <2>1 DEF AreSamples
  <2>3. AreEnough(all, v, sense)
    BY <1>12 DEF AreEnough
  <2> QED
    BY <1>7, <1>9, <1>10, <1>14, <2>2, <2>3 DEF Extremal, v
<1> QED
  BY <1>13, <1>14

----------------------------------------------------------------------------
(* SharedStatistics.                                                       *)

\* stats.py keeps its mids in a ring buffer and does nothing else to it than
\* push a mid or clear it: that window too is the last Capacity samples.
THEOREM StatisticsImplementWindow == Spec => ImplementsWindow
<1>1. Init => RingInit
  BY DEF Init
<1>2. [Next]_vars => [RingNext]_ring
  <2> SUFFICES ASSUME [Next]_vars PROVE [RingNext]_ring
    OBVIOUS
  <2>1. CASE Reset
    BY <2>1 DEF Reset, RingNext
  <2>2. ASSUME NEW bid \in Bids, NEW spread \in Spreads, Accept(bid, spread)
        PROVE  RingNext
    BY <2>2, StatisticsAssumption DEF Accept, UpdateMid, RingNext
  <2>3. CASE UNCHANGED vars
    BY <2>3 DEF vars
  <2> QED
    BY <2>1, <2>2, <2>3 DEF Next
<1>3. Spec => RingSpec
  BY <1>1, <1>2, PTL DEF Spec, RingSpec
<1> QED
  BY <1>3, RingImplementsWindow

SpreadsWatched ==
    /\ spreads \in Seq(Int) /\ Len(spreads) <= Stability
    /\ Extremal(widest, spreads, 1)
    /\ Extremal(narrowest, spreads, -1)

LEMMA NothingIsExtremal == \A sense : Extremal(<<>>, <<>>, sense)
BY DEF Extremal, AreSamples, AreOrdered, AreEnough

LEMMA SpreadsWatchedPreserved == SpreadsWatched /\ [Next]_vars => SpreadsWatched'
<1> SUFFICES ASSUME SpreadsWatched, [Next]_vars
             PROVE  SpreadsWatched'
  OBVIOUS
<1>0. Stability \in Nat \ {0} /\ Spreads \subseteq Int
  BY StatisticsAssumption
<1>1. ASSUME NEW bid \in Bids, NEW spread \in Spreads, Accept(bid, spread)
      PROVE  SpreadsWatched'
  <2>1. /\ widest' = Candidates(widest, spread, 1)
        /\ narrowest' = Candidates(narrowest, spread, -1)
        /\ spreads' = Pushed(spreads, spread, Stability)
    BY <1>1 DEF Accept, WatchSpread
  <2>2. spread \in Int /\ 1 \in Sense /\ -1 \in Sense
    BY <1>0 DEF Sense
  <2>3. Extremal(widest', spreads', 1)
    BY <2>1, <2>2, CandidatesFollowWindow DEF SpreadsWatched
  <2>4. Extremal(narrowest', spreads', -1)
    BY <2>1, <2>2, CandidatesFollowWindow DEF SpreadsWatched
  <2>5. spreads' \in Seq(Int) /\ Slid(spreads, spread, Stability, spreads')
    BY <1>0, <2>1, <2>2, PushedSlides DEF SpreadsWatched
  <2>6. Len(spreads') <= Stability
    BY <1>0, <2>5 DEF Slid, SpreadsWatched
  <2> QED
    BY <2>3, <2>4, <2>5, <2>6 DEF SpreadsWatched
<1>2. CASE Reset
  <2>1. widest' = <<>> /\ narrowest' = <<>> /\ spreads' = <<>>
    BY <1>2 DEF Reset
  <2> QED
    BY <1>0, <2>1, NothingIsExtremal DEF SpreadsWatched
<1>3. CASE UNCHANGED vars
  BY <1>3 DEF vars, extremes, SpreadsWatched
<1> QED
  BY <1>1, <1>2, <1>3 DEF Next

\* "The head is therefore always the window maximum" (monotonic_queue.py), for
\* every window and every sequence of spreads, although no update rescans it.
THEOREM ExtremesAreExactHolds == Spec => []ExtremesAreExact
<1>1. Init => SpreadsWatched
  BY StatisticsAssumption, NothingIsExtremal DEF Init, SpreadsWatched
<1>2. SpreadsWatched => ExtremesAreExact
  <2> SUFFICES ASSUME SpreadsWatched, spreads # <<>>
               PROVE  /\ widest[1].value = Max(Range(spreads))
                      /\ narrowest[1].value = Min(Range(spreads))
    BY DEF ExtremesAreExact
  <2>1. Range(spreads) = {spreads[i] : i \in DOMAIN spreads}
    BY DEF Range
  <2>2. \A i \in DOMAIN spreads : spreads[i] \in Int
    BY DEF SpreadsWatched
  <2>3. 1 \in Sense /\ -1 \in Sense
    BY DEF Sense
  <2>4. /\ widest[1].value \in {spreads[i] : i \in DOMAIN spreads}
        /\ \A i \in DOMAIN spreads : ~Beats(1, spreads[i], widest[1].value)
    BY <2>3, HeadIsExtreme DEF SpreadsWatched
  <2>5. /\ narrowest[1].value \in {spreads[i] : i \in DOMAIN spreads}
        /\ \A i \in DOMAIN spreads : ~Beats(-1, spreads[i], narrowest[1].value)
    BY <2>3, HeadIsExtreme DEF SpreadsWatched
  <2>6. widest[1].value \in Int /\ narrowest[1].value \in Int
    BY <2>2, <2>4, <2>5
  <2>7. /\ widest[1].value \in Range(spreads)
        /\ \A y \in Range(spreads) : y \in Int /\ widest[1].value >= y
    BY <2>1, <2>2, <2>4, <2>6 DEF Beats
  <2>8. narrowest[1].value \in Range(spreads) /\ \A y \in Range(spreads) : narrowest[1].value <= y
    BY <2>1, <2>2, <2>5, <2>6 DEF Beats
  <2>9. \A z \in Range(spreads) : (\A y \in Range(spreads) : z >= y) => z = widest[1].value
    BY <2>6, <2>7
  <2>10. \A z \in Range(spreads) : (\A y \in Range(spreads) : z <= y) => z = narrowest[1].value
    BY <2>6, <2>7, <2>8
  <2>11. widest[1].value = Max(Range(spreads))
    BY <2>7, <2>9 DEF Max
  <2>12. narrowest[1].value = Min(Range(spreads))
    BY <2>8, <2>10 DEF Min
  <2> QED
    BY <2>11, <2>12
<1> QED
  BY <1>1, <1>2, SpreadsWatchedPreserved, PTL DEF Spec

\* An entry made by comparing a price with 0 is the first one since the reset.
TouchCompared ==
    /\ orderly \in Seq(BOOLEAN) /\ steady \in Seq(BOOLEAN)
    /\ Len(orderly) = Len(steady) /\ Len(orderly) <= Stability
    /\ previousBid = 0 => orderly = <<>>
    /\ OnlyTheRestartIsMisjudged

LEMMA TouchComparedPreserved == TouchCompared /\ [Next]_vars => TouchCompared'
<1> SUFFICES ASSUME TouchCompared, [Next]_vars
             PROVE  TouchCompared'
  OBVIOUS
<1>0. Stability \in Nat \ {0} /\ Bids \subseteq Nat \ {0, 1} /\ Spreads \subseteq Nat
  BY StatisticsAssumption
<1>1. ASSUME NEW bid \in Bids, NEW spread \in Spreads, Accept(bid, spread)
      PROVE  TouchCompared'
  <2>1. previousBid' = bid /\ bid # 0
    BY <1>0, <1>1 DEF Accept, UpdateTouch
  <2>2. CASE first
    BY <1>1, <2>1, <2>2 DEF Accept, UpdateTouch, TouchCompared, OnlyTheRestartIsMisjudged
  <2>3. CASE ~first
    <3> DEFINE o == Steady(bid, bid + spread)
               s == previousBid = 0 \/ o
    <3>1. orderly' = Pushed(orderly, o, Stability) /\ steady' = Pushed(steady, s, Stability)
      BY <1>1, <2>3 DEF Accept, UpdateTouch
    <3>2. o \in BOOLEAN /\ s \in BOOLEAN
      BY DEF Steady
    <3>3. previousBid = 0 => ~o
      BY <1>0 DEF Steady, Abs
    <3>4. o # s => previousBid = 0 /\ ~o
      BY <3>2, <3>3
    <3> HIDE DEF o, s
    <3>5. orderly' \in Seq(BOOLEAN) /\ Slid(orderly, o, Stability, orderly')
      BY <1>0, <3>1, <3>2, PushedSlides DEF TouchCompared
    <3>6. steady' \in Seq(BOOLEAN) /\ Slid(steady, s, Stability, steady')
      BY <1>0, <3>1, <3>2, PushedSlides DEF TouchCompared
    <3>7. Len(orderly) \in Nat /\ Len(orderly') = Len(steady') /\ Len(orderly') <= Stability
          /\ DOMAIN orderly = 1..Len(orderly) /\ DOMAIN orderly' = 1..Len(orderly')
          /\ Len(orderly') \in Nat
      BY <1>0, <3>5, <3>6 DEF Slid, TouchCompared
    <3>8. ASSUME NEW i \in DOMAIN orderly', orderly'[i] # steady'[i]
          PROVE  ~orderly'[i] /\ i = Len(orderly')
      <4>1. CASE i = 1
        <5>1. orderly'[1] = o /\ steady'[1] = s
          BY <3>5, <3>6 DEF Slid
        <5>2. ~o /\ orderly = <<>>
          BY <3>4, <3>8, <4>1, <5>1 DEF TouchCompared
        <5>3. Len(orderly') = 1
          BY <1>0, <3>5, <5>2 DEF Slid
        <5> QED
          BY <4>1, <5>1, <5>2, <5>3
      <4>2. CASE i # 1
        <5>1. i \in 2..Len(orderly') /\ i \in 2..Len(steady')
          BY <3>7, <4>2
        <5>2. i - 1 \in DOMAIN orderly /\ orderly'[i] = orderly[i - 1] /\ steady'[i] = steady[i - 1]
          BY <3>5, <3>6, <5>1 DEF Slid
        <5>3. ~orderly[i - 1] /\ i - 1 = Len(orderly)
          BY <3>8, <5>2 DEF TouchCompared, OnlyTheRestartIsMisjudged
        <5>4. Len(orderly') <= Len(orderly) + 1
          BY <1>0, <3>5, <3>7 DEF Slid, TouchCompared
        <5> QED
          BY <3>7, <5>1, <5>2, <5>3, <5>4
      <4> QED
        BY <4>1, <4>2
    <3> QED
      BY <2>1, <3>5, <3>6, <3>7, <3>8 DEF TouchCompared, OnlyTheRestartIsMisjudged
  <2> QED
    BY <2>2, <2>3
<1>2. CASE Reset
  <2>1. orderly' = <<>> /\ steady' = <<>>
    BY <1>2 DEF Reset
  <2> QED
    BY <1>0, <2>1 DEF TouchCompared, OnlyTheRestartIsMisjudged
<1>3. CASE UNCHANGED vars
  BY <1>3 DEF vars, touch, TouchCompared, OnlyTheRestartIsMisjudged
<1> QED
  BY <1>1, <1>2, <1>3 DEF Next

\* Since a reset at most the oldest entry of the touch's steadiness compares a
\* price with a forgotten one (stats.py).
THEOREM OnlyTheRestartIsMisjudgedHolds == Spec => []OnlyTheRestartIsMisjudged
<1>1. Init => TouchCompared
  BY StatisticsAssumption DEF Init, TouchCompared, OnlyTheRestartIsMisjudged
<1>2. TouchCompared => OnlyTheRestartIsMisjudged
  BY DEF TouchCompared
<1> QED
  BY <1>1, <1>2, TouchComparedPreserved, PTL DEF Spec

----------------------------------------------------------------------------
(* RollingMean: the moves of the mid and their sum.                        *)

\* A full window loses its oldest sample, and its sum that sample.
LEMMA TotalPushed ==
    ASSUME NEW w \in Seq(Nat), NEW x \in Nat, NEW n \in Nat \ {0}, Len(w) <= n
    PROVE  Total(Pushed(w, x, n)) = Total(w) + x - (IF Len(w) = n THEN w[n] ELSE 0)
<1> DEFINE v == Pushed(w, x, n)
           m == Len(v) - 1
<1>0. v \in Seq(Nat) /\ Slid(w, x, n, v)
  BY PushedSlides
<1> HIDE DEF v
<1>1. /\ w \in Seq(Int) /\ v \in Seq(Int) /\ Slid(w, x, n, v)
      /\ Len(w) \in Nat /\ Len(v) \in Nat
  BY <1>0
<1>2. /\ m = IF Len(w) < n THEN Len(w) ELSE n - 1
      /\ m \in Nat /\ m <= Len(w) /\ 1 + m = Len(v) /\ 1 <= Len(v)
  BY <1>1 DEF Slid
<1>3. Stretch(w, v, 1, m)
  <2> SUFFICES ASSUME NEW i \in 1..m PROVE v[1 + i] = w[i]
    BY DEF Stretch
  <2>1. 1 + i \in 2..Len(v) /\ 1 + i - 1 = i
    BY <1>1
  <2> QED
    BY <1>1, <2>1 DEF Slid
<1> HIDE DEF m
<1>4. Total(v) = Partial(v)[1] + Partial(w)[m]
  <2>1. /\ w \in Seq(Int) /\ v \in Seq(Int) /\ 1 \in Nat /\ m \in Nat
        /\ m <= Len(w) /\ 1 + m <= Len(v) /\ Stretch(w, v, 1, m)
    BY <1>1, <1>2, <1>3
  <2>2. Partial(v)[1 + m] = Partial(v)[1] + Partial(w)[m]
    BY <2>1, EqualStretches, Zenon
  <2> QED
    BY <1>2, <2>2 DEF Total
<1>5. Partial(v)[1] = x
  <2>1. Partial(v)[0] = 0 /\ Partial(v)[0 + 1] = Partial(v)[0] + v[0 + 1]
    BY <1>1, <1>2, PartialSums
  <2> QED
    BY <1>1, <2>1 DEF Slid
<1>6. Total(w) \in Int /\ Partial(w)[m] \in Int
  BY <1>1, <1>2, PartialSums DEF Total
<1>7. CASE Len(w) < n
  BY <1>1, <1>2, <1>4, <1>5, <1>6, <1>7 DEF v, Total
<1>8. CASE Len(w) = n
  <2>1. m \in 0..Len(w) /\ m < Len(w) /\ m + 1 = n
    BY <1>1, <1>2, <1>8
  <2>2. Partial(w)[m + 1] = Partial(w)[m] + w[m + 1]
    BY <1>1, <2>1, PartialSums
  <2>3. Total(w) = Partial(w)[m] + w[n]
    BY <1>8, <2>1, <2>2 DEF Total
  <2>4. w[n] \in Nat
    BY <1>8
  <2> QED
    BY <1>4, <1>5, <1>6, <1>8, <2>3, <2>4 DEF v
<1> QED
  BY <1>1, <1>7, <1>8

\* The running sum is as far from the window's as its updates could take it.
PathFollowsMoves ==
    /\ moves \in Seq(Nat) /\ Len(moves) <= Capacity
    /\ path \in Int
    /\ since \in Nat /\ since < RecomputeInterval
    /\ Abs(path - Total(moves)) <= since

LEMMA MeasureKeepsPath ==
    ASSUME PathFollowsMoves, NEW m \in Nat, MeasureMove(m)
    PROVE  PathFollowsMoves'
<1> DEFINE evicted == IF Len(moves) = Capacity THEN moves[Capacity] ELSE 0
<1>1. /\ Capacity \in Nat \ {0} /\ RecomputeInterval \in Nat \ {0} /\ Rounding \subseteq -1..1
      /\ moves \in Seq(Nat) /\ Len(moves) <= Capacity /\ Len(moves) \in Nat
      /\ path \in Int /\ since \in Nat /\ since < RecomputeInterval
      /\ Abs(path - Total(moves)) <= since
  BY RingAssumption, StatisticsAssumption DEF PathFollowsMoves
<1>2. moves' = Pushed(moves, m, Capacity)
  BY DEF MeasureMove
<1>3. moves' \in Seq(Nat) /\ Len(moves') <= Capacity
  <2>1. moves' \in Seq(Nat) /\ Slid(moves, m, Capacity, moves')
    BY <1>1, <1>2, PushedSlides
  <2> QED
    BY <1>1, <2>1 DEF Slid
<1>4. Total(moves') = Total(moves) + m - evicted
  BY <1>1, <1>2, TotalPushed
<1>5. Total(moves) \in Int /\ Total(moves') \in Int
  <2>1. moves \in Seq(Int) /\ moves' \in Seq(Int) /\ Len(moves') \in Nat
    BY <1>1, <1>3
  <2> QED
    BY <1>1, <2>1, PartialSums DEF Total
<1>6. evicted \in Nat
  BY <1>1
<1> HIDE DEF evicted
<1>7. CASE since + 1 >= RecomputeInterval
  <2>1. path' = Total(moves') /\ since' = 0
    BY <1>7 DEF MeasureMove
  <2> QED
    BY <1>1, <1>3, <1>5, <2>1 DEF PathFollowsMoves, Abs
<1>8. CASE ~(since + 1 >= RecomputeInterval)
  <2>1. PICK e \in Rounding : path' = path + m + e - evicted
    BY <1>8 DEF MeasureMove, evicted
  <2>2. since' = since + 1 /\ e \in Int /\ -1 <= e /\ e <= 1
    BY <1>1, <1>8 DEF MeasureMove
  <2>3. path' \in Int /\ path' - Total(moves') = path - Total(moves) + e
    BY <1>1, <1>4, <1>5, <1>6, <2>1, <2>2
  <2>4. Abs(path' - Total(moves')) <= since'
    <3>1. Abs(path - Total(moves)) <= since
      BY <1>1
    <3>2. path - Total(moves) \in Int
      BY <1>1, <1>5
    <3>3. \A d \in Int, s \in Nat : Abs(d) <= s => Abs(d + e) <= s + 1
      BY <2>2 DEF Abs
    <3>4. Abs(path - Total(moves) + e) <= since + 1
      BY <1>1, <3>1, <3>2, <3>3
    <3> QED
      BY <2>2, <2>3, <3>4
  <2> QED
    BY <1>1, <1>3, <1>8, <2>2, <2>3, <2>4 DEF PathFollowsMoves
<1> QED
  BY <1>7, <1>8

LEMMA NothingMeasured ==
    /\ <<>> \in Seq(Nat) /\ Len(<<>>) = 0
    /\ Total(<<>>) = 0
<1>1. <<>> \in Seq(Nat) /\ <<>> \in Seq(Int) /\ Len(<<>>) = 0
  OBVIOUS
<1>2. Total(<<>>) = 0
  BY <1>1, PartialSums DEF Total
<1> QED
  BY <1>1, <1>2

\* The moves measured are those between the mids of the buffer, from the newest
\* back to the latest mid that was pushed without its move.
MovesJoinMids ==
    /\ RingTypeOK
    /\ previousMid = NoPrice => count = 0
    /\ previousMid # NoPrice => count > 0 /\ previousMid \in Nat /\ At(0) = previousMid
    /\ unmeasured \in 0..Len(moves)
    /\ \A i \in 1..unmeasured : i < count => moves[i] = Abs(At(i - 1) - At(i))

Measured == PathFollowsMoves /\ MovesJoinMids

\* A mid is pushed with its move or without it.
LEMMA AcceptKeepsMeasured ==
    ASSUME Measured, NEW mid \in Samples, mid \in Nat, NEW isFirst, UpdateMid(mid, isFirst)
    PROVE  Measured'
<1>1. /\ Capacity \in Nat \ {0} /\ Push(mid) /\ previousMid' = mid /\ mid # NoPrice
      /\ count \in 0..Capacity
  BY RingAssumption DEF UpdateMid, NoPrice, Measured, MovesJoinMids, RingTypeOK
<1>2. /\ RingTypeOK' /\ count' \in 0..Capacity
      /\ count' = (IF count = Capacity THEN count ELSE count + 1)
  <2>1. RingTypeOK'
    BY <1>1, RingAssumption DEF Push, Full, Slot, Measured, MovesJoinMids, RingTypeOK
  <2> QED
    BY <1>1, <2>1 DEF Push, Full, RingTypeOK
<1>3. At(0)' = mid /\ \A age \in Nat \ {0} : age < count' => At(age)' = At(age - 1)
  BY <1>1, PushAges DEF Measured, MovesJoinMids
<1>4. previousMid' # NoPrice /\ count' > 0 /\ previousMid' \in Nat /\ At(0)' = previousMid'
  BY <1>1, <1>2, <1>3
<1>5. CASE previousMid # NoPrice /\ ~isFirst
  <2> DEFINE m == Abs(mid - previousMid)
  <2>1. /\ count > 0 /\ previousMid \in Nat /\ At(0) = previousMid
        /\ unmeasured \in 0..Len(moves)
        /\ \A i \in 1..unmeasured : i < count => moves[i] = Abs(At(i - 1) - At(i))
    BY <1>5 DEF Measured, MovesJoinMids
  <2>2. m \in Nat /\ MeasureMove(m)
    BY <1>5, <2>1 DEF UpdateMid, Abs
  <2> HIDE DEF m
  <2>3. PathFollowsMoves'
    BY <2>2, MeasureKeepsPath DEF Measured
  <2>4. /\ moves \in Seq(Nat) /\ Len(moves) <= Capacity /\ Len(moves) \in Nat
        /\ moves' = Pushed(moves, m, Capacity)
    BY <2>2 DEF Measured, PathFollowsMoves, MeasureMove
  <2>5. Slid(moves, m, Capacity, moves') /\ Len(moves') \in Nat
    <3>1. moves' \in Seq(Nat) /\ Slid(moves, m, Capacity, moves')
      BY <1>1, <2>2, <2>4, PushedSlides
    <3> QED
      BY <3>1
  <2>6. unmeasured' = IF unmeasured < Capacity THEN unmeasured + 1 ELSE Capacity
    BY <1>5 DEF UpdateMid
  <2>7. unmeasured' \in 0..Len(moves')
    BY <1>1, <2>1, <2>4, <2>5, <2>6 DEF Slid
  <2>8. ASSUME NEW i \in 1..unmeasured', i < count'
        PROVE  moves'[i] = Abs(At(i - 1)' - At(i)')
    <3>1. i \in Nat \ {0} /\ At(i)' = At(i - 1)
      BY <1>3, <2>7, <2>8
    <3>2. CASE i = 1
      <4>1. moves'[1] = m /\ At(1)' = At(0) /\ 1 - 1 = 0
        BY <2>5, <3>1, <3>2 DEF Slid
      <4> QED
        BY <1>3, <2>1, <3>2, <4>1 DEF m
    <3>3. CASE i # 1
      <4>1. i \in 2..Len(moves') /\ i - 1 \in Nat \ {0} /\ i - 1 < count' /\ i - 1 < count
            /\ i - 1 \in 1..unmeasured /\ (i - 1) - 1 = i - 2
        BY <1>1, <1>2, <2>1, <2>4, <2>6, <2>7, <2>8, <3>1, <3>3
      <4>2. moves'[i] = moves[i - 1]
        BY <2>5, <4>1 DEF Slid
      <4>3. moves[i - 1] = Abs(At((i - 1) - 1) - At(i - 1))
        BY <2>1, <4>1
      <4>4. At(i - 1)' = At((i - 1) - 1)
        BY <1>3, <4>1
      <4> QED
        BY <3>1, <4>2, <4>3, <4>4
    <3> QED
      BY <3>2, <3>3
  <2> QED
    BY <1>2, <1>4, <2>3, <2>7, <2>8 DEF Measured, MovesJoinMids
<1>6. CASE ~(previousMid # NoPrice /\ ~isFirst)
  <2>1. UNCHANGED <<moves, path, since>> /\ unmeasured' = 0
    BY <1>6 DEF UpdateMid, accumulator
  <2>2. PathFollowsMoves' /\ unmeasured' \in 0..Len(moves')
    BY <2>1 DEF Measured, PathFollowsMoves
  <2> QED
    BY <1>2, <1>4, <2>1, <2>2 DEF Measured, MovesJoinMids
<1> QED
  BY <1>5, <1>6

LEMMA MeasuredPreserved == Measured /\ [Next]_vars => Measured'
<1> SUFFICES ASSUME Measured, [Next]_vars PROVE Measured'
  OBVIOUS
<1>1. ASSUME NEW bid \in Bids, NEW spread \in Spreads, Accept(bid, spread)
      PROVE  Measured'
  <2>1. 2 * bid + spread \in Samples /\ 2 * bid + spread \in Nat
    BY StatisticsAssumption
  <2>2. UpdateMid(2 * bid + spread, first)
    BY <1>1 DEF Accept
  <2> QED
    BY <2>1, <2>2, AcceptKeepsMeasured
<1>2. CASE Reset
  <2>1. /\ Clear /\ moves' = <<>> /\ path' = 0 /\ since' = 0
        /\ previousMid' = NoPrice /\ unmeasured' = 0
    BY <1>2 DEF Reset
  <2>2. PathFollowsMoves'
    BY <2>1, StatisticsAssumption, RingAssumption, NothingMeasured DEF PathFollowsMoves, Abs
  <2>3. RingTypeOK' /\ count' = 0
    BY <2>1, RingAssumption DEF Clear, Measured, MovesJoinMids, RingTypeOK, Slot
  <2>4. unmeasured' \in 0..Len(moves') /\ 1..unmeasured' = {}
    BY <2>1
  <2> QED
    BY <2>1, <2>2, <2>3, <2>4 DEF Measured, MovesJoinMids
<1>3. CASE UNCHANGED vars
  BY <1>3 DEF vars, accumulator, ring, session, Measured, PathFollowsMoves, MovesJoinMids,
              RingTypeOK, At
<1> QED
  BY <1>1, <1>2, <1>3 DEF Next

LEMMA MeasuredInvariant == Spec => []Measured
<1>1. Init => Measured
  <2> SUFFICES ASSUME Init PROVE Measured
    OBVIOUS
  <2>1. PathFollowsMoves
    BY StatisticsAssumption, RingAssumption, NothingMeasured DEF Init, PathFollowsMoves, Abs
  <2>2. RingTypeOK /\ count = 0
    BY RingAssumption DEF Init, RingInit, RingTypeOK, Slot
  <2>3. previousMid = NoPrice /\ unmeasured \in 0..Len(moves) /\ 1..unmeasured = {}
    BY DEF Init
  <2> QED
    BY <2>1, <2>2, <2>3 DEF Measured, MovesJoinMids
<1> QED
  BY <1>1, MeasuredPreserved, PTL DEF Spec

\* Recomputing "bounds the drift to at most interval accumulation steps"
\* (rolling_mean.py), for every interval, every window and every rounding of up
\* to one unit an update.
THEOREM DriftIsBoundedHolds == Spec => []DriftIsBounded
<1>1. Measured => DriftIsBounded
  BY DEF Measured, PathFollowsMoves, DriftIsBounded
<1> QED
  BY <1>1, MeasuredInvariant, PTL

\* The displacement the efficiency ratio divides by the path (stats.py) is part
\* of that path, for every lookback that does not reach over a mid pushed
\* without its move: by the triangle inequality, mid after mid.
THEOREM PathCoversDisplacementHolds == Spec => []PathCoversDisplacement
<1>1. Measured => PathCoversDisplacement
  <2> SUFFICES ASSUME Measured,
                      NEW age \in 1..(count - 1), age <= unmeasured
               PROVE  Abs(At(0) - At(age)) <= Total(moves)
    BY DEF PathCoversDisplacement
  <2> DEFINE f == Partial(moves)
             S == {k \in 0..age : Abs(At(0) - At(k)) <= f[k]}
  <2>1. /\ moves \in Seq(Nat) /\ Len(moves) \in Nat
        /\ unmeasured \in 0..Len(moves)
        /\ \A i \in 1..unmeasured : i < count => moves[i] = Abs(At(i - 1) - At(i))
        /\ count \in 0..Capacity /\ RingTypeOK /\ Capacity \in Nat \ {0}
    BY RingAssumption DEF Measured, PathFollowsMoves, MovesJoinMids, RingTypeOK
  <2>2. ASSUME NEW k \in Nat, k < count
        PROVE  At(k) \in Int
    <3> DEFINE p == index - 1 - k
    <3>1. /\ index \in Nat /\ index < Capacity
          /\ \A i \in 0..(Capacity - 1) : data[i] \in Int
      <4>1. RingTypeOK
        BY <2>1
      <4>2. Capacity \in Nat \ {0} /\ Samples \subseteq Int /\ Slot = 0..(Capacity - 1)
        BY RingAssumption DEF Slot
      <4>3. index \in Slot /\ \A i \in Slot : data[i] \in Samples
        BY <4>1 DEF RingTypeOK
      <4>4. \A i \in Slot : data[i] \in Int
        BY <4>2, <4>3
      <4>5. index \in Nat /\ index < Capacity
        BY <4>2, <4>3
      <4> QED
        BY <4>2, <4>4, <4>5
    <3>2. (IF p < 0 THEN p + Capacity ELSE p) \in 0..(Capacity - 1)
      BY <2>1, <2>2, <3>1
    <3> QED
      BY <3>1, <3>2 DEF At
  <2>3. /\ f[0] = 0 /\ \A k \in 0..Len(moves) : f[k] \in Int
        /\ \A k \in 0..Len(moves) : k < Len(moves) => f[k + 1] = f[k] + moves[k + 1]
    <3>1. moves \in Seq(Int)
      BY <2>1
    <3> QED
      BY <3>1, PartialSums
  <2>4. age \in Nat /\ age < count /\ age <= Len(moves) /\ 0 < count
    BY <2>1
  <2> HIDE DEF f
  <2>5. 0 \in S
    <3>1. At(0) \in Int
      BY <2>2, <2>4
    <3> QED
      BY <2>3, <2>4, <3>1 DEF Abs
  <2>6. ASSUME NEW k \in 0..age, k \in S, k < age
        PROVE  k + 1 \in S
    <3>1. k + 1 \in 1..unmeasured /\ k + 1 < count /\ k + 1 - 1 = k /\ k + 1 \in 0..age
      BY <2>1, <2>4, <2>6
    <3>2. moves[k + 1] = Abs(At(k) - At(k + 1))
      BY <2>1, <3>1
    <3>3. f[k + 1] = f[k] + moves[k + 1] /\ f[k] \in Int
      BY <2>3, <2>4, <2>6
    <3>4. At(0) \in Int /\ At(k) \in Int /\ At(k + 1) \in Int
      <4>1. k \in Nat /\ k < count /\ k + 1 \in Nat /\ k + 1 < count /\ 0 < count
        BY <2>1, <2>4, <2>6, <3>1
      <4> QED
        BY <2>2, <4>1
    <3>5. Abs(At(0) - At(k)) <= f[k]
      BY <2>6
    <3>6. Abs(At(0) - At(k + 1)) <= f[k + 1]
      BY <3>2, <3>3, <3>4, <3>5 DEF Abs
    <3> QED
      BY <3>1, <3>6
  <2>7. age \in S
    <3> HIDE DEF S
    <3>1. \A k \in 0..age : k \in S
      BY <2>4, <2>5, <2>6, UpTo
    <3> QED
      BY <2>4, <3>1
  <2>8. At(0) \in Int /\ At(age) \in Int /\ Abs(At(0) - At(age)) <= f[age]
    BY <2>2, <2>4, <2>7
  <2>9. f[age] \in Nat /\ f[age] <= Total(moves) /\ Total(moves) \in Int
    <3>1. age \in 0..Len(moves)
      BY <2>1, <2>4
    <3>2. Total(moves) \in Int
      BY <2>1, <2>3 DEF Total, f
    <3> QED
      BY <2>1, <3>1, <3>2, PartialGrows DEF f
  <2> QED
    BY <2>8, <2>9 DEF Abs
<1> QED
  BY <1>1, MeasuredInvariant, PTL
============================================================================
