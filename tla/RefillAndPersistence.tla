------------------------- MODULE RefillAndPersistence -------------------------
(***************************************************************************)
(* features/refill.py and features/queue_persistence.py on one side of the *)
(* book: both follow the touch of the previous snapshot by its price into  *)
(* the next snapshot.  Refill waits, after a drop that trades explain, for *)
(* the price to recover; persistence asks whether the price kept its size. *)
(* The other side is a second instance over mirrored prices.               *)
(***************************************************************************)
EXTENDS Integers, FiniteSetsExt

CONSTANTS
    Prices,             \* price levels, the better the higher
    MaxQuantity,        \* bound on the quantity of a level
    MaxVolume,          \* bound on the volume traded between two snapshots
    Steps,              \* times between two snapshots
    Consumption,        \* consumption_fraction, in percent
    Recovery,           \* recovery_fraction, in percent
    Confirmation,       \* volume_confirmation_ratio, in percent
    Window,             \* window_ms
    Tolerance           \* tolerance of queue_persistence, in percent

\* Among published prices there is a best one.
ASSUME PricesAssumption ==
    /\ Prices \subseteq Int
    /\ \A S \in SUBSET Prices : S # {} => \E m \in S : \A p \in S : m >= p

ASSUME RefillAssumption ==
    /\ MaxQuantity \in Nat \ {0}
    /\ MaxVolume \in Nat
    /\ Steps \subseteq Nat \ {0}
    /\ Consumption \in 1..100 /\ Recovery \in 1..200 /\ Confirmation \in 0..200
    /\ Window \in Nat \ {0}
    /\ Tolerance \in 0..100

NoEpisode == [price |-> 0, before |-> 0, age |-> 0]
Outcome == {"", "refilled", "price-gone", "no-refill"}

VARIABLES
    book,           \* quantity per price, 0 where no level is published
    known,          \* context.previous is not None
    episode,        \* the consumption awaiting its resolution
    outcome,        \* how the last snapshot resolved an episode, "" if it did not
    survived,       \* what the last snapshot told queue persistence
    traded,         \* history: the volume that came with the consumption
    least           \* history: the smallest quantity at the episode's price since

refillVars == <<book, known, episode, outcome, survived, traded, least>>

Book == {b \in [Prices -> 0..MaxQuantity] : \E p \in Prices : b[p] > 0}
Touch(b) == Max({p \in Prices : b[p] > 0})

RefillInit ==
    /\ book \in Book
    /\ known = FALSE
    /\ episode = NoEpisode
    /\ outcome = ""
    /\ survived = FALSE
    /\ traded = 0
    /\ least = 0

----------------------------------------------------------------------------
(* RefillFeature.                                                          *)

\* A mutant of Resolve: the target is a fraction of what was left.
ResolveAgainstRemainder(quantity, age) ==
    IF quantity = 0 THEN "price-gone"
    ELSE IF 100 * quantity >= Recovery * least THEN "refilled"
    ELSE IF age > Window THEN "no-refill" ELSE ""

\* _resolve: a vanished price first, then the recovery, only then the window.
Resolve(quantity, age) ==
    IF quantity = 0 THEN "price-gone"
    ELSE IF 100 * quantity >= Recovery * episode.before THEN "refilled"
    ELSE IF age > Window THEN "no-refill" ELSE ""

\* A mutant of Consumed: the drop need not be explained by trades.
ConsumedOrCancelled(before, now, volume) ==
    100 * (before - now) >= Consumption * before

\* _detect: the previous touch lost enough of its size, and trades explain it.
Consumed(before, now, volume) ==
    /\ 100 * (before - now) >= Consumption * before
    /\ 100 * volume >= Confirmation * (before - now)

\* A snapshot resolves the episode in flight or looks for a new one, not both.
Refill(b, volume, dt) ==
    IF episode # NoEpisode
      THEN LET quantity == b[episode.price]
               result == Resolve(quantity, episode.age + dt)
           IN  /\ outcome' = result
               /\ episode' = IF result # "" THEN NoEpisode
                             ELSE [episode EXCEPT !.age = @ + dt]
               /\ least' = IF quantity < least THEN quantity ELSE least
               /\ UNCHANGED traded
      ELSE LET price == Touch(book)
           IN  /\ outcome' = ""
               /\ IF Consumed(book[price], b[price], volume)
                    THEN /\ episode' = [price |-> price, before |-> book[price], age |-> 0]
                         /\ traded' = volume
                         /\ least' = b[price]
                    ELSE UNCHANGED <<episode, traded, least>>

----------------------------------------------------------------------------
(* QueuePersistenceFeature.                                                *)

\* A mutant of Survived: the touch is compared by rank, not by price.
SurvivedByRank(b) ==
    100 * b[Touch(b)] >= (100 - Tolerance) * book[Touch(book)]

\* _survived: the previous touch price still shows nearly its size.
Survived(b) ==
    LET price == Touch(book) IN
    /\ b[price] > 0
    /\ 100 * b[price] >= (100 - Tolerance) * book[price]

----------------------------------------------------------------------------
\* An accepted snapshot.
Compute(b, volume, dt) ==
    /\ book' = b
    /\ known' = TRUE
    /\ IF known
         THEN Refill(b, volume, dt) /\ survived' = Survived(b)
         ELSE /\ episode' = NoEpisode
              /\ outcome' = ""
              /\ UNCHANGED <<survived, traded, least>>

\* The engine clears its features and forgets the previous snapshot.
Forget ==
    /\ known' = FALSE
    /\ episode' = NoEpisode
    /\ outcome' = ""
    /\ survived' = FALSE
    /\ UNCHANGED <<book, traded, least>>

RefillNext ==
    \/ Forget
    \/ \E b \in Book, volume \in 0..MaxVolume, dt \in Steps : Compute(b, volume, dt)

RefillSpec == RefillInit /\ [][RefillNext]_refillVars

----------------------------------------------------------------------------
RefillTypeOK ==
    /\ book \in Book
    /\ known \in BOOLEAN
    /\ survived \in BOOLEAN
    /\ outcome \in Outcome
    /\ traded \in Nat
    /\ least \in 0..MaxQuantity
    /\ \/ episode = NoEpisode
       \/ episode \in [price : Prices, before : 1..MaxQuantity, age : Nat]

\* An episode in flight remembers a consumption: how deep the price fell and
\* how much was traded when it did.
EpisodeIsConsumption ==
    episode # NoEpisode =>
        /\ episode.before > 0
        /\ 100 * (episode.before - least) >= Consumption * episode.before
        /\ 10000 * traded >= Confirmation * Consumption * episode.before

\* A snapshot that leaves the episode in flight has seen less than the target.
WaitIsForRecovery ==
    episode # NoEpisode /\ episode.age > 0 => 100 * least < Recovery * episode.before

Pending == episode # NoEpisode

\* "Without a preceding, volume-confirmed consumption there is no pending
\* state, so there is nothing to refill": a credited refill restores a price
\* that had lost Consumption of its size while Confirmation of that loss
\* traded, however the book moved around that price meanwhile.
CreditFollowsTrade ==
    [][outcome' = "refilled" =>
        /\ 100 * (episode.before - least) >= Consumption * episode.before
        /\ 10000 * traded >= Confirmation * Consumption * episode.before]_refillVars

\* "and then that same price recovers its size": a refill credited after a wait
\* is growth, the price shows more than the least it showed since the
\* consumption.  Only the first snapshot after the consumption may credit a price
\* that did not grow: the target is a fraction of the size before, and with the
\* default 35 and 60 percent a price that lost two fifths still shows it.
DelayedCreditIsGrowth ==
    [][outcome' = "refilled" =>
        book'[episode.price] > least \/ episode.age = 0]_refillVars

\* The two readings of one move of the book agree: a touch that was consumed
\* has not survived.
ConsumedHasNotSurvived ==
    [][~Pending /\ Pending' => ~survived']_refillVars
============================================================================
