------------------------------ MODULE Mortality ------------------------------
(***************************************************************************)
(* The era of a transaction: the blocks it is valid in.  CheckMortality    *)
(* chooses the block the era starts from and its length, $Era of           *)
(* packages/codecs packs both into 16 bits, and the runtime, which sees    *)
(* only those bits and the block it is building, finds the start again: it *)
(* checks the signature against the hash of that block.                    *)
(***************************************************************************)
EXTENDS Integers

CONSTANTS Periods,  \* the periods a caller asks for
          Chains,   \* the constants of the chains it does not ask for one on
          Bests,    \* the numbers the best block has when a transaction is signed
          MaxLag    \* how far the finalized block is behind

ASSUME PeriodsAssumption == Periods \subseteq Int
ASSUME BestsAssumption == Bests \subseteq Nat
ASSUME MaxLagAssumption == MaxLag \in Nat

VARIABLES best,  \* the number of the best block
          signed \* NotSigned, or what was signed

NotSigned == [by |-> "nobody"]

mortalityVars == <<best, signed>>

Least(a, b) == IF a <= b THEN a ELSE b

Greatest(a, b) == IF a >= b THEN a ELSE b

----------------------------------------------------------------------------
(***************************************************************************)
(* $Era.                                                                   *)
(***************************************************************************)

\* 1 shifted to the left by i.
Power(i) == 2^i

\* numOfTrailingZeroes(), of a power of two.
NumOfTrailingZeroes(n) == CHOOSE i \in 0..17 : Power(i) = n

\* nextPowerOfTwo().  2^17 stands for all that is above 2^16: no period is.
NextPowerOfTwo(n) ==
    IF n > Power(16) THEN Power(17)
    ELSE Power(CHOOSE i \in 0..16 : n <= Power(i) /\ (i = 0 \/ n > Power(i - 1)))

QuantizeFactor(period) == Greatest(period \div Power(12), 1)

AdjustedUnclamped(period) == Greatest(NextPowerOfTwo(period), 4) \* mutant: no upper bound

Adjusted(period) == Least(Greatest(NextPowerOfTwo(period), 4), Power(16))

\* subEncode() of a period and a current block: the low four bits of the 16
\* name the period, the others the phase.
Encode(input) ==
    LET period == Adjusted(input.period)
        phase  == (input.current % period) \div QuantizeFactor(period)
    IN  (Least(Greatest(NumOfTrailingZeroes(period) - 1, 1), 15) + phase * Power(4)) % Power(16)

\* subDecode() of the bytes of a mortal era.
Decode(encoded) ==
    LET period == 2 * Power(encoded % Power(4))
    IN  [period |-> period, phase |-> (encoded \div Power(4)) * QuantizeFactor(period)]

\* The start of the era, as the runtime finds it (Era::birth of the SDK's era.rs).
Birth(era, current) ==
    ((Greatest(current, era.phase) - era.phase) \div era.period) * era.period + era.phase

----------------------------------------------------------------------------
(***************************************************************************)
(* CheckMortality.                                                         *)
(***************************************************************************)

MaxFinalityLag == 5

\* #calculateMortalLength(), from the constants of a chain, 0 when it has none.
MortalLength(chain) ==
    LET count == IF chain.blockHashCount = 0 THEN 250 ELSE chain.blockHashCount
        time  == IF chain.expectedBlockTime # 0 THEN chain.expectedBlockTime
                 ELSE IF chain.slotDuration # 0 THEN chain.slotDuration
                 ELSE IF chain.minimumPeriod # 0 THEN chain.minimumPeriod * 2
                 ELSE 6000
    IN  Least(count, (12 * 60 * 1000) \div time + MaxFinalityLag)

\* A chain remembers the hashes of five blocks or more, the lag that is allowed
\* for, and the period its constants lead to is one $Era does not round.
ASSUME ChainsAssumption ==
    \A chain \in Chains :
        /\ chain \in [blockHashCount : Nat, expectedBlockTime : Nat,
                      slotDuration : Nat, minimumPeriod : Nat]
        /\ chain.blockHashCount = 0 \/ chain.blockHashCount >= MaxFinalityLag
        /\ MortalLength(chain) <= 4096

HeaderAnyLag(number, finalized) == finalized \* mutant: the lag is not looked at

\* #getSigningHeaderViaLegacyRpc(): the finalized block, or the parent of the
\* best one when finality is too far behind.
SigningHeaderViaLegacyRpc(number, finalized) ==
    LET current == Greatest(number - 1, 0)
    IN  IF current - finalized > MaxFinalityLag THEN current ELSE finalized

\* init() and toPayload().  On the new JSON-RPC the header is the finalized
\* block, whatever its lag.
Sign(rpc, period, default, finalized) ==
    /\ signed = NotSigned
    /\ LET number == IF rpc = "v2" THEN finalized
                     ELSE SigningHeaderViaLegacyRpc(best, finalized)
       IN  signed' = [by |-> rpc, at |-> best, number |-> number,
                      period |-> period, default |-> default,
                      era |-> Encode([period |-> period, current |-> number])]
    /\ UNCHANGED best

\* The chain grows.  Bound: to the blocks next to the start and the ends of
\* the era and of the one after it, where validity can change.
Grow ==
    /\ signed # NotSigned
    /\ \E eras \in 0..2, d \in {-1, 0, 1} :
          best' = signed.number + eras * Adjusted(signed.period) + d
    /\ best' > best
    /\ UNCHANGED signed

----------------------------------------------------------------------------

MortalityInit ==
    best \in Bests /\ signed = NotSigned

MortalityNext ==
    \/ \E rpc \in {"v2", "legacy"}, finalized \in (best - MaxLag)..best :
          /\ finalized >= 0
          /\ \/ \E p \in Periods : Sign(rpc, p, FALSE, finalized)
             \/ \E chain \in Chains : Sign(rpc, MortalLength(chain), TRUE, finalized)
    \/ Grow

MortalitySpec == MortalityInit /\ [][MortalityNext]_mortalityVars

----------------------------------------------------------------------------
(***************************************************************************)
(* Properties.                                                             *)
(***************************************************************************)

\* The runtime finds the block that was signed in every block of one period
\* from there on and in no later one: the transaction is valid for its period
\* and cannot be repeated afterwards.  Periods above 4096 round the phase: then
\* this is promised of the blocks the rounding leaves alone, and a transaction
\* signed with another one is never valid.
LivesOnePeriod ==
    signed # NotSigned /\ best >= signed.number =>
        LET period == Adjusted(signed.period)
        IN  Birth(Decode(signed.era), best) = signed.number
              <=> /\ best < signed.number + period
                  /\ signed.number % QuantizeFactor(period) = 0

\* A transaction signed over the legacy JSON-RPC with the period of its chain
\* is still valid in the next block, however far finality is behind: that is
\* what the lag added to the period and the header taken instead are for.
AliveWhenSigned ==
    signed # NotSigned /\ signed.default /\ signed.by = "legacy" =>
        Birth(Decode(signed.era), signed.at + 1) = signed.number
=============================================================================
