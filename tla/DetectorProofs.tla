---------------------------- MODULE DetectorProofs ----------------------------
(***************************************************************************)
(* Proofs about what is detected from one snapshot to the next: the regime *)
(* (RegimeDetector) and consumed and refilled levels                       *)
(* (RefillAndPersistence).  They share no state.                           *)
(***************************************************************************)
EXTENDS RegimeDetector, RefillAndPersistence, TLAPS

----------------------------------------------------------------------------
(* The hysteresis of RegimeDetector, for every configuration.  The         *)
(* invariant says what the detector's two counters are: the candidate is   *)
(* the label last proposed, and while it is not in force its count is the  *)
(* length of the run of proposals and the dwell no shorter.                *)

CandidateIsTheRun ==
    /\ candidate = runLabel
    /\ candidateCount = IF regime = runLabel THEN 0 ELSE run
    /\ heldFor = dwell
    /\ regime # runLabel => dwell >= run

NoRunWithoutReason == ~ready => regime = "UNKNOWN" /\ runLabel = "UNKNOWN"

HysteresisInv == TypeOK /\ CandidateIsTheRun /\ NoRunWithoutReason /\ LabelIsAdopted

\* The classification always gives a label, and never UNKNOWN.
LEMMA ClassifyGivesALabel ==
    ASSUME NEW e, NEW v, NEW t, NEW m
    PROVE  Classify(e, v, t, m) \in Labels \ {"UNKNOWN"}
  BY DEF Classify, Labels

\* Counting up stays within the bound, and keeps the order of two counters.
LEMMA CountUpIsMonotone ==
    ASSUME NEW a \in 0..CountLimit, NEW b \in 0..CountLimit
    PROVE  /\ CountUp(a) \in 0..CountLimit
           /\ a <= b => CountUp(a) <= CountUp(b)
           /\ a < CountLimit => CountUp(a) = a + 1
           /\ CountUp(a) >= 1
           /\ a <= CountUp(a) /\ CountUp(a) <= a + 1
  BY RegimeAssumption DEF RegimeAssumption, CountUp

\* What the detector starts with is of the right type, and adopts nothing.
LEMMA FreshCounters ==
    /\ "UNKNOWN" \in Labels
    /\ 0 \in 0..CountLimit
    /\ ~(0 >= ConfirmSnapshots)
    /\ 0 >= 0
  <1>1. CountLimit \in Nat /\ ConfirmSnapshots \in Nat /\ 1 <= ConfirmSnapshots
    BY RegimeAssumption DEF RegimeAssumption
  <1> QED
    BY <1>1 DEF Labels

\* One update with any proposal keeps the counters and the adoption invariant.
LEMMA HysteresisKeepsInv ==
    ASSUME HysteresisInv, NEW p \in Labels, ApplyHysteresis(p), Observe(p),
           ready' \in BOOLEAN, ready' \/ (p = "UNKNOWN" /\ ~ready)
    PROVE  HysteresisInv'
  <1> USE RegimeAssumption DEF RegimeAssumption
  <1>0. /\ CountUp(dwell) \in 0..CountLimit /\ CountUp(dwell) >= 1
        /\ CountUp(run) \in 0..CountLimit
        /\ CountUp(heldFor) = CountUp(dwell)
        /\ run <= dwell => CountUp(run) <= CountUp(dwell)
        /\ CountUp(0) = 1
        /\ run <= CountUp(run)
    BY CountUpIsMonotone DEF HysteresisInv, TypeOK, CandidateIsTheRun, CountUp
  <1>1. CASE Hold(p)
    <2>1. TypeOK'
      BY <1>1, <1>0 DEF HysteresisInv, TypeOK, Observe, Hold
    <2>2. CandidateIsTheRun' /\ LabelIsAdopted'
      BY <1>1, <1>0 DEF HysteresisInv, TypeOK, Observe, Hold, CandidateIsTheRun,
         LabelIsAdopted
    <2>3. NoRunWithoutReason'
      BY <1>1 DEF HysteresisInv, Observe, Hold, NoRunWithoutReason
    <2> QED
      BY <2>1, <2>2, <2>3 DEF HysteresisInv
  <1>2. CASE Propose(p)
    <2>1. ready' /\ p # regime
      BY <1>2 DEF Propose, HysteresisInv, NoRunWithoutReason
    <2>2. CountFor(p) = run' /\ run' \in 0..CountLimit /\ run' <= CountUp(dwell)
      BY <1>0, <2>1 DEF CountFor, Observe, HysteresisInv, CandidateIsTheRun, TypeOK
    <2>3. CASE CountFor(p) >= ConfirmSnapshots /\ Dwelt
      BY <1>0, <1>2, <2>1, <2>2, <2>3 DEF Propose, HysteresisInv, TypeOK, Observe,
         CandidateIsTheRun, NoRunWithoutReason, LabelIsAdopted
    <2>4. CASE ~(CountFor(p) >= ConfirmSnapshots /\ Dwelt)
      <3>1. /\ candidateCount' = run' /\ dwell' = CountUp(dwell) /\ regime' = regime
            /\ candidate' = p /\ runLabel' = p /\ heldFor' = CountUp(heldFor)
        BY <1>2, <2>2, <2>4 DEF Propose, Observe
      <3>2. ~(run' >= ConfirmSnapshots /\ run' >= MinDwell)
        BY <2>2, <2>4, <1>0 DEF Dwelt
      <3> QED
        BY <1>0, <2>1, <2>2, <3>1, <3>2 DEF HysteresisInv, TypeOK, CandidateIsTheRun,
           NoRunWithoutReason, LabelIsAdopted
    <2> QED
      BY <2>3, <2>4
  <1> QED
    BY <1>1, <1>2 DEF ApplyHysteresis

\* The invariant holds at the start and after every step.
LEMMA HysteresisInductive ==
    ASSUME HysteresisInv, [Next]_vars
    PROVE  HysteresisInv'
  <1>1. CASE UpdateCold
    <2>1. "UNKNOWN" \in Labels /\ ready' \in BOOLEAN /\ ~ready
      BY <1>1 DEF Labels, HysteresisInv, TypeOK, UpdateCold
    <2>2. ApplyHysteresis("UNKNOWN") /\ Observe("UNKNOWN")
      BY <1>1 DEF UpdateCold
    <2> QED
      BY <2>1, <2>2, HysteresisKeepsInv
  <1>2. CASE \E e \in Efficiencies, v \in Volatilities, t \in Trends, m \in Signs :
                UpdateReady(e, v, t, m)
    <2>1. PICK e \in Efficiencies, v \in Volatilities, t \in Trends, m \in Signs :
               UpdateReady(e, v, t, m)
      BY <1>2
    <2>2. PICK p \in Labels : p = Classify(e, v, t, m)
      BY ClassifyGivesALabel
    <2>3. ready' \in BOOLEAN /\ (ready' \/ (p = "UNKNOWN" /\ ~ready))
      BY <2>1 DEF UpdateReady
    <2>4. ApplyHysteresis(p) /\ Observe(p)
      BY <2>1, <2>2 DEF UpdateReady
    <2> QED
      BY <2>2, <2>3, <2>4, HysteresisKeepsInv
  <1>3. CASE Reset
    <2>1. ready' \in BOOLEAN
      BY <1>3 DEF Reset
    <2> QED
      BY <1>3, <2>1, FreshCounters DEF Reset, HysteresisInv, TypeOK, CandidateIsTheRun,
         NoRunWithoutReason, LabelIsAdopted
  <1>4. CASE UNCHANGED vars
    BY <1>4 DEF vars, detectorVars, runVars, HysteresisInv, TypeOK, CandidateIsTheRun,
       NoRunWithoutReason, LabelIsAdopted
  <1> QED
    BY <1>1, <1>2, <1>3, <1>4 DEF Next

\* The counters are what CandidateIsTheRun says in every reachable state.
THEOREM HysteresisHolds == Spec => []HysteresisInv
  <1>1. Init => HysteresisInv
    <2>1. Init => ready \in BOOLEAN
      BY DEF Init
    <2> QED
      BY <2>1, FreshCounters DEF Init, HysteresisInv, TypeOK, CandidateIsTheRun,
         NoRunWithoutReason, LabelIsAdopted
  <1>2. HysteresisInv /\ [Next]_vars => HysteresisInv'
    BY HysteresisInductive
  <1> QED
    BY <1>1, <1>2, PTL DEF Spec

\* A label proposed in a row for as long as both guards ask is in force.
THEOREM LabelIsAdoptedHolds == Spec => []LabelIsAdopted
  <1>1. HysteresisInv => LabelIsAdopted
    BY DEF HysteresisInv
  <1> QED
    BY <1>1, HysteresisHolds, PTL

\* An update changes the label only to one that has earned it.
LEMMA ChangeIsEarned ==
    ASSUME HysteresisInv, NEW p \in Labels, ApplyHysteresis(p), Observe(p),
           regime' # regime
    PROVE  /\ runLabel' = regime' /\ run' >= ConfirmSnapshots
           /\ regime = "UNKNOWN" \/ heldFor + 1 >= MinDwell
  <1>1. Propose(p) /\ CountFor(p) >= ConfirmSnapshots /\ Dwelt /\ regime' = p
    BY DEF ApplyHysteresis, Hold, Propose
  <1>2. CountFor(p) = run' /\ runLabel' = p
    BY <1>1 DEF CountFor, Observe, HysteresisInv, CandidateIsTheRun, Propose
  <1>3. CountUp(dwell) <= dwell + 1 /\ heldFor = dwell
    BY RegimeAssumption DEF CountUp, HysteresisInv, TypeOK, CandidateIsTheRun,
       RegimeAssumption
  <1>4. regime = "UNKNOWN" \/ heldFor + 1 >= MinDwell
    BY <1>1, <1>3, RegimeAssumption, CountUpIsMonotone
       DEF Dwelt, HysteresisInv, TypeOK, RegimeAssumption
  <1> QED
    BY <1>1, <1>2, <1>4

\* The label changes only after confirm_snapshots consecutive proposals, and only
\* from one that was held for min_dwell_snapshots or is UNKNOWN.
THEOREM LabelIsEarnedHolds == Spec => LabelIsEarned
  <1> DEFINE Earned == regime' # regime /\ ready'
                         => /\ runLabel' = regime' /\ run' >= ConfirmSnapshots
                            /\ regime = "UNKNOWN" \/ heldFor + 1 >= MinDwell
  <1>1. HysteresisInv /\ [Next]_vars => [Earned]_vars
    <2> SUFFICES ASSUME HysteresisInv, Next, regime' # regime, ready'
                 PROVE  Earned
      BY DEF vars, detectorVars
    <2>1. CASE UpdateCold
      <3>1. "UNKNOWN" \in Labels
        BY DEF Labels
      <3> QED
        BY <2>1, <3>1, ChangeIsEarned DEF UpdateCold
    <2>2. CASE \E e \in Efficiencies, v \in Volatilities, t \in Trends, m \in Signs :
                  UpdateReady(e, v, t, m)
      <3>1. PICK e \in Efficiencies, v \in Volatilities, t \in Trends, m \in Signs :
                 UpdateReady(e, v, t, m)
        BY <2>2
      <3>2. Classify(e, v, t, m) \in Labels
        BY ClassifyGivesALabel
      <3> QED
        BY <3>1, <3>2, ChangeIsEarned DEF UpdateReady
    <2>3. CASE Reset
      BY <2>3 DEF Reset
    <2> QED
      BY <2>1, <2>2, <2>3 DEF Next
  <1>2. Spec => [][Earned]_vars
    BY <1>1, HysteresisHolds, PTL DEF Spec
  <1> QED
    BY <1>2 DEF LabelIsEarned

\* The label falls back to UNKNOWN only with the statistics.
THEOREM NoRelapseHolds == Spec => NoRelapse
  <1> DEFINE Fresh == regime # "UNKNOWN" /\ regime' = "UNKNOWN" => ~ready'
  <1>1. HysteresisInv /\ [Next]_vars => [Fresh]_vars
    <2> SUFFICES ASSUME HysteresisInv, Next, regime # "UNKNOWN", regime' = "UNKNOWN"
                 PROVE  ~ready'
      BY DEF vars
    <2>1. CASE UpdateCold
      BY <2>1 DEF UpdateCold, HysteresisInv, NoRunWithoutReason
    <2>2. ASSUME NEW e \in Efficiencies, NEW v \in Volatilities, NEW t \in Trends,
                 NEW m \in Signs, UpdateReady(e, v, t, m)
          PROVE  FALSE
      <3>1. Classify(e, v, t, m) # "UNKNOWN"
        BY ClassifyGivesALabel
      <3> QED
        BY <2>2, <3>1 DEF UpdateReady, ApplyHysteresis, Hold, Propose
    <2>3. CASE Reset
      BY <2>3 DEF Reset
    <2> QED
      BY <2>1, <2>2, <2>3 DEF Next
  <1>2. Spec => [][Fresh]_vars
    BY <1>1, HysteresisHolds, PTL DEF Spec
  <1> QED
    BY <1>2 DEF NoRelapse

\* The mirrored market gets the same label, whatever the thresholds.
THEOREM MirrorSymmetryHolds == MirrorSymmetry
  <1> SUFFICES ASSUME NEW e \in Efficiencies, NEW v \in Volatilities,
                      NEW t \in Trends, NEW m \in Signs
               PROVE  Classify(e, v, t, m) = Classify(e, v, -t, -m)
    BY DEF MirrorSymmetry
  <1>1. t \in Int /\ m \in Int
    BY RegimeAssumption DEF Trends, Signs, RegimeAssumption
  <1>2. Directional(t) <=> Directional(-t)
    BY <1>1 DEF Directional, Magnitude
  <1>3. Opposed(t, m) <=> Opposed(-t, -m)
    BY <1>1, <1>2 DEF Opposed, Sign
  <1> QED
    BY <1>2, <1>3 DEF Classify

\* A straighter path is never called less of a trend, whatever the thresholds.
THEOREM EfficiencyOrdersLabelsHolds == EfficiencyOrdersLabels
  <1> SUFFICES ASSUME NEW e \in Efficiencies, NEW f \in Efficiencies,
                      NEW v \in Volatilities, NEW t \in Trends, NEW m \in Signs,
                      e <= f
               PROVE  /\ Classify(e, v, t, m) = "TREND" => Classify(f, v, t, m) = "TREND"
                      /\ Classify(f, v, t, m) = "RANGE" => Classify(e, v, t, m) = "RANGE"
    BY DEF EfficiencyOrdersLabels
  <1>1. /\ e \in Int /\ f \in Int /\ v \in Int
        /\ ErTrend \in Int /\ ErRange \in Int /\ PullbackMinEr \in Int
        /\ VolHigh \in Int /\ ErRange < ErTrend
    BY RegimeAssumption DEF RegimeAssumption, Efficiencies, Volatilities
  <1>2. Classify(e, v, t, m) = "TREND" => Classify(f, v, t, m) = "TREND"
    BY <1>1 DEF Classify
  <1>3. Classify(f, v, t, m) = "RANGE" => Classify(e, v, t, m) = "RANGE"
    BY <1>1 DEF Classify
  <1> QED
    BY <1>2, <1>3

----------------------------------------------------------------------------
(* RefillAndPersistence, for every book and every fraction.                *)

\* The touch is a published price: where _detect and _survived look.
LEMMA TouchIsPublished ==
    ASSUME NEW b \in Book
    PROVE  Touch(b) \in Prices /\ b[Touch(b)] \in 1..MaxQuantity
<1> DEFINE S == {p \in Prices : b[p] > 0}
<1>1. S # {} /\ S \in SUBSET Prices
  BY DEF Book
<1>2. \E m \in S : \A p \in S : m >= p
  BY <1>1, PricesAssumption
<1>3. Max(S) \in S
  BY <1>2 DEF Max
<1>4. b \in [Prices -> 0..MaxQuantity]
  BY DEF Book
<1>5. Touch(b) = Max(S)
  BY DEF Touch
<1>6. b[Max(S)] \in 0..MaxQuantity /\ b[Max(S)] > 0
  BY <1>3, <1>4
<1> QED
  BY <1>3, <1>5, <1>6, RefillAssumption

\* A drop of Consumption of the size of which Confirmation is traded: what is
\* remembered of it.
LEMMA DropIsTraded ==
    ASSUME NEW c \in Nat, NEW v \in Nat, NEW before \in Nat, NEW drop \in Int,
           NEW volume \in Nat,
           100 * drop >= c * before, 100 * volume >= v * drop
    PROVE  10000 * volume >= v * c * before
<1>1. v * (100 * drop) >= v * (c * before)
  <2> DEFINE gap == 100 * drop - c * before
  <2>1. gap \in Nat /\ v * gap \in Nat
    <3>1. c * before \in Nat
      OBVIOUS
    <3>2. gap \in Nat
      BY <3>1
    <3> QED
      BY <3>2
  <2>2. v * (100 * drop) = v * (c * before) + v * gap
    OBVIOUS
  <2>3. v * (c * before) \in Int /\ v * (100 * drop) \in Int
    OBVIOUS
  <2> QED
    BY <2>1, <2>2, <2>3
<1>2. v * (100 * drop) = 100 * (v * drop) /\ v * (c * before) = v * c * before
  OBVIOUS
<1>3. v * drop \in Int /\ v * c * before \in Int
  OBVIOUS
<1> QED
  BY <1>1, <1>2, <1>3

EpisodeInv == RefillTypeOK /\ EpisodeIsConsumption

LEMMA RefillInitIsGood == RefillInit => EpisodeInv
<1> SUFFICES ASSUME RefillInit PROVE EpisodeInv
  OBVIOUS
<1>1. known \in BOOLEAN /\ survived \in BOOLEAN
  BY Zenon DEF RefillInit
<1>2. book \in Book /\ episode = NoEpisode /\ outcome = "" /\ traded = 0 /\ least = 0
  BY DEF RefillInit
<1>a. 0 \in 0..MaxQuantity
  BY RefillAssumption
<1>3. traded \in Nat /\ least \in 0..MaxQuantity /\ outcome \in Outcome
  BY <1>2, <1>a DEF Outcome
<1> QED
  BY <1>1, <1>2, <1>3 DEF EpisodeInv, RefillTypeOK, EpisodeIsConsumption

\* A snapshot with an episode in flight.
LEMMA ResolvePreserves ==
    ASSUME EpisodeInv, NEW b \in Book, NEW volume \in 0..MaxVolume, NEW dt \in Steps,
           episode # NoEpisode, Refill(b, volume, dt)
    PROVE  /\ traded' \in Nat /\ least' \in 0..MaxQuantity /\ outcome' \in Outcome
           /\ \/ episode' = NoEpisode
              \/ episode' \in [price : Prices, before : 1..MaxQuantity, age : Nat]
           /\ EpisodeIsConsumption'
<1> DEFINE quantity == b[episode.price]
           result == Resolve(quantity, episode.age + dt)
<1>1. episode \in [price : Prices, before : 1..MaxQuantity, age : Nat]
  BY DEF EpisodeInv, RefillTypeOK
<1>2. quantity \in 0..MaxQuantity
  BY <1>1 DEF Book
<1>3. /\ outcome' = result
      /\ episode' = IF result # "" THEN NoEpisode ELSE [episode EXCEPT !.age = @ + dt]
      /\ least' = IF quantity < least THEN quantity ELSE least
      /\ traded' = traded
  BY DEF Refill
<1>4. result \in Outcome
  BY DEF Resolve, Outcome
<1>a. traded \in Nat /\ least \in 0..MaxQuantity
  BY DEF EpisodeInv, RefillTypeOK
<1>b. least' = IF quantity < least THEN quantity ELSE least
  BY <1>3
<1>c. least' \in 0..MaxQuantity /\ least' <= least
  <2> HIDE DEF quantity
  <2>1. quantity \in Int /\ least \in Int
    BY <1>2, <1>a
  <2> QED
    BY <1>2, <1>a, <1>b, <2>1
<1>5. /\ traded' \in Nat /\ least \in 0..MaxQuantity
      /\ least' \in 0..MaxQuantity /\ least' <= least
  BY <1>3, <1>a, <1>c
<1>6. ASSUME episode' # NoEpisode
      PROVE  /\ episode' \in [price : Prices, before : 1..MaxQuantity, age : Nat]
             /\ episode'.before = episode.before
  <2>1. episode' = [episode EXCEPT !.age = @ + dt]
    BY <1>3, <1>6
  <2>2. episode.age + dt \in Nat
    BY <1>1, RefillAssumption
  <2> QED
    BY <1>1, <2>1, <2>2
<1>7. EpisodeIsConsumption'
  <2> SUFFICES ASSUME episode' # NoEpisode
               PROVE  /\ episode'.before > 0
                      /\ 100 * (episode'.before - least') >= Consumption * episode'.before
                      /\ 10000 * traded' >= Confirmation * Consumption * episode'.before
    BY DEF EpisodeIsConsumption
  <2>1. /\ episode.before > 0
        /\ 100 * (episode.before - least) >= Consumption * episode.before
        /\ 10000 * traded >= Confirmation * Consumption * episode.before
    BY DEF EpisodeInv, EpisodeIsConsumption
  <2>2. episode.before \in Nat /\ Consumption * episode.before \in Int
    BY <1>1, RefillAssumption
  <2>3. 100 * (episode.before - least') >= Consumption * episode.before
    BY <1>5, <2>1, <2>2, RefillAssumption
  <2>4. episode'.before = episode.before /\ traded' = traded
    BY <1>3, <1>6
  <2> HIDE DEF quantity, result
  <2> QED
    BY <2>1, <2>3, <2>4
<1> QED
  BY <1>3, <1>4, <1>5, <1>6, <1>7

\* A snapshot that may start one.
LEMMA DetectPreserves ==
    ASSUME EpisodeInv, NEW b \in Book, NEW volume \in 0..MaxVolume, NEW dt \in Steps,
           episode = NoEpisode, Refill(b, volume, dt)
    PROVE  /\ traded' \in Nat /\ least' \in 0..MaxQuantity /\ outcome' \in Outcome
           /\ \/ episode' = NoEpisode
              \/ episode' \in [price : Prices, before : 1..MaxQuantity, age : Nat]
           /\ EpisodeIsConsumption'
<1> DEFINE price == Touch(book)
<1>1. price \in Prices /\ book[price] \in 1..MaxQuantity
  BY TouchIsPublished DEF EpisodeInv, RefillTypeOK
<1>2. b[price] \in 0..MaxQuantity
  BY <1>1 DEF Book
<1>3. outcome' = "" /\ outcome' \in Outcome
  BY DEF Refill, Outcome
<1>4. CASE ~Consumed(book[price], b[price], volume)
  <2>1. UNCHANGED <<episode, traded, least>>
    BY <1>4 DEF Refill
  <2>2. episode' = NoEpisode /\ traded' = traded /\ least' = least
    BY <2>1
  <2>3. traded \in Nat /\ least \in 0..MaxQuantity
    BY DEF EpisodeInv, RefillTypeOK
  <2>4. EpisodeIsConsumption'
    BY <2>2 DEF EpisodeIsConsumption
  <2> QED
    BY <1>3, <2>2, <2>3, <2>4
<1>5. CASE Consumed(book[price], b[price], volume)
  <2>1. /\ episode' = [price |-> price, before |-> book[price], age |-> 0]
        /\ traded' = volume
        /\ least' = b[price]
    BY <1>5 DEF Refill
  <2>2. /\ 100 * (book[price] - b[price]) >= Consumption * book[price]
        /\ 100 * volume >= Confirmation * (book[price] - b[price])
    BY <1>5 DEF Consumed
  <2>3. 10000 * volume >= Confirmation * Consumption * book[price]
    <3>1. /\ Consumption \in Nat /\ Confirmation \in Nat /\ volume \in Nat
          /\ book[price] \in Nat /\ book[price] - b[price] \in Int
      BY <1>1, <1>2, RefillAssumption
    <3> QED
      BY <2>2, <3>1, DropIsTraded
  <2>4. EpisodeIsConsumption'
    BY <1>1, <2>1, <2>2, <2>3, RefillAssumption DEF EpisodeIsConsumption
  <2>5. episode' \in [price : Prices, before : 1..MaxQuantity, age : Nat]
    BY <1>1, <2>1
  <2>6. traded' \in Nat /\ least' \in 0..MaxQuantity
    BY <1>2, <2>1, RefillAssumption
  <2> QED
    BY <1>3, <2>4, <2>5, <2>6
<1> QED
  BY <1>4, <1>5

LEMMA RefillNextIsGood == EpisodeInv /\ [RefillNext]_refillVars => EpisodeInv'
<1> SUFFICES ASSUME EpisodeInv, [RefillNext]_refillVars PROVE EpisodeInv'
  OBVIOUS
<1>1. CASE Forget
  <2>1. known' \in BOOLEAN /\ survived' \in BOOLEAN
    BY <1>1, Zenon DEF Forget
  <2>2. episode' = NoEpisode /\ outcome' \in Outcome /\ UNCHANGED <<book, traded, least>>
    BY <1>1 DEF Forget, Outcome
  <2> QED
    BY <2>1, <2>2 DEF EpisodeInv, RefillTypeOK, EpisodeIsConsumption
<1>2. ASSUME NEW b \in Book, NEW volume \in 0..MaxVolume, NEW dt \in Steps,
             Compute(b, volume, dt)
      PROVE  EpisodeInv'
  <2>1. book' \in Book /\ known' \in BOOLEAN
    BY <1>2 DEF Compute
  <2>2. CASE ~known
    <3>1. /\ episode' = NoEpisode /\ outcome' \in Outcome
          /\ UNCHANGED <<survived, traded, least>>
      BY <1>2, <2>2 DEF Compute, Outcome
    <3> QED
      BY <2>1, <3>1 DEF EpisodeInv, RefillTypeOK, EpisodeIsConsumption
  <2>3. CASE known
    <3>1. Refill(b, volume, dt) /\ survived' = Survived(b)
      BY <1>2, <2>3 DEF Compute
    <3>2. survived' \in BOOLEAN
      BY <3>1 DEF Survived
    <3> QED
      BY <2>1, <3>1, <3>2, ResolvePreserves, DetectPreserves DEF EpisodeInv, RefillTypeOK
  <2> QED
    BY <2>2, <2>3 DEF EpisodeInv, RefillTypeOK
<1>3. CASE UNCHANGED refillVars
  BY <1>3 DEF refillVars, EpisodeInv, RefillTypeOK, EpisodeIsConsumption
<1> QED
  BY <1>1, <1>2, <1>3 DEF RefillNext

LEMMA EpisodeInvariance == RefillSpec => []EpisodeInv
  BY RefillInitIsGood, RefillNextIsGood, PTL DEF RefillSpec

\* Every credited refill follows a consumption trades explain, for every book,
\* every window and every fraction: growth alone is never an event.
THEOREM CreditSound == RefillSpec => CreditFollowsTrade
<1>1. EpisodeInv /\ [RefillNext]_refillVars =>
        [outcome' = "refilled" =>
            /\ 100 * (episode.before - least) >= Consumption * episode.before
            /\ 10000 * traded >= Confirmation * Consumption * episode.before]_refillVars
  <2> SUFFICES ASSUME EpisodeInv, RefillNext, outcome' = "refilled"
               PROVE  episode # NoEpisode
    BY DEF EpisodeInv, EpisodeIsConsumption
  <2> QED
    BY DEF RefillNext, Forget, Compute, Refill
<1> QED
  BY <1>1, EpisodeInvariance, PTL DEF RefillSpec, CreditFollowsTrade

\* An episode that was left in flight waits for more than its price has shown.
LEMMA WaitPreserved == EpisodeInv /\ WaitIsForRecovery /\ [RefillNext]_refillVars
                         => WaitIsForRecovery'
<1> SUFFICES ASSUME EpisodeInv, WaitIsForRecovery, [RefillNext]_refillVars,
                    episode' # NoEpisode, episode'.age > 0
             PROVE  100 * least' < Recovery * episode'.before
  BY DEF WaitIsForRecovery
<1>1. CASE UNCHANGED <<episode, least>>
  BY <1>1 DEF WaitIsForRecovery
<1>2. ASSUME NEW b \in Book, NEW volume \in 0..MaxVolume, NEW dt \in Steps, known,
             Compute(b, volume, dt)
      PROVE  100 * least' < Recovery * episode'.before
  <2>1. Refill(b, volume, dt)
    BY <1>2 DEF Compute
  <2>2. CASE episode # NoEpisode
    <3> DEFINE quantity == b[episode.price]
    <3>1. /\ episode \in [price : Prices, before : 1..MaxQuantity, age : Nat]
          /\ least \in Nat /\ quantity \in Nat
      BY <2>2, RefillAssumption DEF EpisodeInv, RefillTypeOK, Book
    <3>2. /\ Resolve(quantity, episode.age + dt) = ""
          /\ episode' = [episode EXCEPT !.age = @ + dt]
          /\ least' = IF quantity < least THEN quantity ELSE least
      BY <2>1, <2>2 DEF Refill
    <3>3. ~(100 * quantity >= Recovery * episode.before)
      BY <3>2 DEF Resolve
    <3>4. episode'.before = episode.before
      BY ONLY <3>1, <3>2
    <3>5. Recovery * episode.before \in Int
      BY <3>1, RefillAssumption
    <3>6. least \in Nat /\ quantity \in Nat
      BY <3>1
    <3>7. least' = IF quantity < least THEN quantity ELSE least
      BY <3>2
    <3> HIDE DEF quantity
    <3>8. least' \in Nat /\ least' <= quantity
      BY <3>6, <3>7
    <3> QED
      BY <3>3, <3>4, <3>5, <3>6, <3>8
  <2>3. CASE episode = NoEpisode
    <3>1. \/ episode' = [price |-> Touch(book), before |-> book[Touch(book)], age |-> 0]
          \/ episode' = episode
      BY <2>1, <2>3 DEF Refill
    <3>2. episode'.age = 0
      BY <2>3, <3>1
    <3> QED
      BY <3>2
  <2> QED
    BY <2>2, <2>3
<1>3. CASE UNCHANGED refillVars
  BY <1>1, <1>3 DEF refillVars
<1>4. episode' # NoEpisode => ~Forget /\ ~(RefillNext /\ ~known)
  BY DEF Forget, RefillNext, Compute
<1> QED
  BY <1>2, <1>3, <1>4 DEF RefillNext

\* For every pair of fractions: but for the first snapshot after the consumption,
\* a price is credited only if it grew again.
THEOREM DelayedCreditHolds == RefillSpec => DelayedCreditIsGrowth
<1>1. RefillInit => WaitIsForRecovery
  BY DEF RefillInit, WaitIsForRecovery
<1>2. EpisodeInv /\ WaitIsForRecovery /\ [RefillNext]_refillVars =>
        [outcome' = "refilled" => book'[episode.price] > least \/ episode.age = 0]_refillVars
  <2> SUFFICES ASSUME EpisodeInv, WaitIsForRecovery, RefillNext, outcome' = "refilled",
                      episode.age # 0
               PROVE  book'[episode.price] > least
    OBVIOUS
  <2>1. PICK b \in Book, volume \in 0..MaxVolume, dt \in Steps :
            Compute(b, volume, dt) /\ known
    BY DEF RefillNext, Forget, Compute
  <2>2. book' = b /\ Refill(b, volume, dt)
    BY <2>1 DEF Compute
  <2>3. episode # NoEpisode
    BY <2>2 DEF Refill
  <2>4. /\ episode \in [price : Prices, before : 1..MaxQuantity, age : Nat]
        /\ least \in Nat /\ b[episode.price] \in Nat
    BY <2>3, RefillAssumption DEF EpisodeInv, RefillTypeOK, Book
  <2>5. episode.age > 0 /\ Recovery * episode.before \in Int
    BY <2>4, RefillAssumption
  <2>6. 100 * least < Recovery * episode.before
    BY <2>3, <2>5 DEF WaitIsForRecovery
  <2>7. 100 * b[episode.price] >= Recovery * episode.before
    BY <2>2, <2>3 DEF Refill, Resolve
  <2>8. b[episode.price] > least
    BY <2>4, <2>5, <2>6, <2>7
  <2> QED
    BY <2>2, <2>8
<1> QED
  BY <1>1, <1>2, WaitPreserved, EpisodeInvariance, PTL DEF RefillSpec, DelayedCreditIsGrowth

\* The two features read one move of the book alike: a touch whose loss begins an
\* episode (refill.py:222-246) has not survived (queue_persistence.py), provided
\* a consumption is more than the tolerance.
THEOREM ConsumedIsNotSurvival ==
    ASSUME Consumption > Tolerance
    PROVE  RefillSpec => ConsumedHasNotSurvived
<1>1. EpisodeInv /\ [RefillNext]_refillVars => [~Pending /\ Pending' => ~survived']_refillVars
  <2> SUFFICES ASSUME EpisodeInv, RefillNext, episode = NoEpisode, episode' # NoEpisode, survived'
               PROVE  FALSE
    BY DEF Pending
  <2>1. PICK b \in Book, volume \in 0..MaxVolume, dt \in Steps :
            Compute(b, volume, dt) /\ known
    BY DEF RefillNext, Forget, Compute
  <2> DEFINE before == book[Touch(book)]
             now == b[Touch(book)]
  <2>2. 100 * (before - now) >= Consumption * before /\ 100 * now >= (100 - Tolerance) * before
    BY <2>1 DEF Compute, Refill, Consumed, Survived
  <2>3. before \in Nat \ {0} /\ now \in Nat
    BY TouchIsPublished, RefillAssumption DEF EpisodeInv, RefillTypeOK, Book
  <2> HIDE DEF before, now
  <2>4. Consumption * before <= Tolerance * before
    <3>1. (100 - Tolerance) * before = 100 * before - Tolerance * before
      BY <2>3, RefillAssumption
    <3>2. Consumption * before \in Int /\ Tolerance * before \in Int
      BY <2>3, RefillAssumption
    <3> QED
      BY <2>2, <2>3, <3>1, <3>2
  <2>5. Consumption * before > Tolerance * before
    <3>1. (Consumption - Tolerance) * before > 0
      BY <2>3, RefillAssumption
    <3>2. (Consumption - Tolerance) * before = Consumption * before - Tolerance * before
      BY <2>3, RefillAssumption
    <3>3. Consumption * before \in Int /\ Tolerance * before \in Int
      BY <2>3, RefillAssumption
    <3> QED
      BY <3>1, <3>2, <3>3
  <2>6. Consumption * before \in Int /\ Tolerance * before \in Int
    BY <2>3, RefillAssumption
  <2> QED
    BY <2>4, <2>5, <2>6
<1> QED
  BY <1>1, EpisodeInvariance, PTL DEF RefillSpec, ConsumedHasNotSurvived
============================================================================
