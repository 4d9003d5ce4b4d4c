----------------------------- MODULE PlannerProofs -----------------------------
(***************************************************************************)
(* Proofs about the planner, for any model, machine and request: that the  *)
(* plan with the largest context is the best one, whatever the planner     *)
(* answers while it is searched, that arguments that are derated give back *)
(* what a failed launch lacked, and that no plan loads more onto a GPU, or *)
(* leaves more to the host, than there is room for.                        *)
(***************************************************************************)
EXTENDS MCPlanner, FiniteSetTheorems, WellFoundedInduction, TLAPS

\* A behaviour shows one part.
LEMMA PartsApart == Next => [FitNext]_fitVars /\ [DerateNext]_derateVars
BY DEF Next, PlaceStep, FitStep, DerateStep

LEMMA DivisionUp ==
  ASSUME NEW a \in Nat, NEW b \in Nat \ {0}
  PROVE  CeilDiv(a, b) \in Nat /\ CeilDiv(a, b) * b >= a
<1> DEFINE c == a + b - 1
           q == c \div b
<1>1. c \in Nat /\ q \in Nat
  OBVIOUS
<1>2. c < b * q + b
  BY Z3
<1>3. b * q = q * b /\ b * q \in Nat
  BY <1>1
<1> HIDE DEF q
<1>4. q * b >= a
  BY <1>2, <1>3
<1> QED BY <1>1, <1>4 DEF q, CeilDiv

-----------------------------------------------------------------------------
(* The search of the largest context.                                       *)

\* What the request and the combinations are.
RequestInv ==
  /\ limit \in Nat /\ slots \in 1..MaxSlots /\ target \in Nat \ {0} /\ auto \in BOOLEAN
  /\ prefer \in {<<"gpu">>, <<"cpu">>, <<"gpu", "cpu">>}

\* One step of a search keeps both of its ends: below them everything that was
\* planned was accepted, above them it was refused, or there is nothing above.
SearchInv ==
  LET least == Combinations[index].least
      cap == CapFor(Combinations[index].slots)
  IN fitStep = "halve" =>
       /\ index <= Len(Combinations) /\ low \in Nat /\ high \in Int
       /\ best = 0 => low = least
       /\ best # 0 => best >= least /\ low = best + 1
       /\ low - 1 <= high
       /\ high = cap \/ <<index, high + 1>> \in refused

\* What the search has ended with.
FoundInv ==
  /\ fitStep = "replan" =>
       /\ best >= Combinations[index].least
       /\ <<index, best + 1>> \in refused \/ best + 1 > CapFor(Combinations[index].slots)
  /\ fitStep \in {"offer", "fits"} /\ fit.of # 0 =>
       /\ fit.of = index
       /\ Accepts(Combinations[fit.of].tier, fit.what)
       /\ fit.context >= Combinations[fit.of].least
       /\ <<fit.of, fit.context + 1>> \in refused \/ fit.context + 1 > CapFor(Combinations[fit.of].slots)

FitInv ==
  /\ RequestInv /\ index \in Nat \ {0} /\ best \in Nat
  /\ \A i \in 1..(index - 1) : PassedOver(i)
  /\ SearchInv /\ FoundInv

LEMMA ProductIsPositive ==
  ASSUME NEW a \in Nat \ {0}, NEW b \in Nat \ {0}
  PROVE  a * b \in Nat \ {0}
<1>1. PICK k \in Nat : b = k + 1
  <2>1. b - 1 \in Nat /\ b = (b - 1) + 1
    OBVIOUS
  <2> QED BY <2>1
<1>2. a * k \in Nat /\ a * (k + 1) = a * k + a
  BY <1>1
<1> QED BY <1>1, <1>2

\* There is room for a granule, for any number of slots.
LEMMA CapsArePositive ==
  ASSUME RequestInv
  PROVE  (\A n \in Nat \ {0} : CapFor(n) \in Nat \ {0}) /\ Floor \in Nat \ {0}
<1>1. /\ limit \in Nat /\ slots \in Nat \ {0} /\ FloorContext \in Nat \ {0} /\ NativeContext \in Nat \ {0}
  BY RequestAssumption DEF RequestInv
<1>2. ASSUME NEW n \in Nat \ {0} PROVE CapFor(n) \in Nat \ {0}
  <2>1. NativeContext * n \in Nat \ {0}
    BY <1>1, ProductIsPositive
  <2> QED BY <1>1, <2>1 DEF CapFor, Smaller
<1>3. Floor \in Nat \ {0}
  BY <1>1, <1>2 DEF Floor, Smaller
<1> QED BY <1>2, <1>3

IsShape(s) == s.slots \in Nat \ {0} /\ s.least \in Nat \ {0}

LEMMA ShapesArePositive ==
  ASSUME RequestInv
  PROVE  Len(Shapes) \in Nat \ {0} /\ \A i \in 1..Len(Shapes) : IsShape(Shapes[i])
<1> DEFINE shape(n) == [slots |-> n, least |-> Larger(n * target, Floor)]
           fitting == {n \in 1..slots : shape(n).least <= CapFor(slots)}
           most == Cardinality(fitting)
           legal == [i \in 1..most |-> shape(most - i + 1)]
           only == [slots |-> slots, least |-> Floor]
           one == [slots |-> 1, least |-> Floor]
           S == [slots : Nat \ {0}, least : Nat \ {0}]
<1>1. slots \in Nat \ {0} /\ target \in Nat \ {0} /\ Floor \in Nat \ {0}
  BY RequestAssumption, CapsArePositive DEF RequestInv
<1>2. ASSUME NEW n \in Nat \ {0} PROVE shape(n) \in S
  <2>1. n * target \in Nat \ {0}
    BY <1>1, ProductIsPositive
  <2> QED BY <1>1, <2>1 DEF Larger
<1>3. most \in Nat
  <2>1. IsFiniteSet(1..slots) /\ fitting \subseteq 1..slots
    BY <1>1, FS_Interval
  <2>2. IsFiniteSet(fitting)
    BY <2>1, FS_Subset
  <2> QED BY <2>2, FS_CardinalityType
<1>4. only \in S /\ one \in S
  BY <1>1
<1>5. Shapes = IF ~auto \/ slots = 1 THEN <<only>>
               ELSE IF most = 0 \/ legal[most].least # Floor THEN Append(legal, one) ELSE legal
  BY DEF Shapes
<1> HIDE DEF fitting, shape, most, only, one
<1>6. legal \in Seq(S) /\ Len(legal) = most
  <2>1. \A i \in 1..most : shape(most - i + 1) \in S
    BY <1>2, <1>3
  <2> QED BY <1>3, <2>1
<1> HIDE DEF legal, S
<1>7. Append(legal, one) \in Seq(S) /\ Len(Append(legal, one)) = most + 1
  BY <1>4, <1>6
<1>8. <<only>> \in Seq(S) /\ Len(<<only>>) = 1
  BY <1>4
<1>9. Shapes \in Seq(S) /\ Len(Shapes) \in Nat \ {0}
  BY <1>3, <1>5, <1>6, <1>7, <1>8
<1>10. \A i \in 1..Len(Shapes) : Shapes[i] \in S
  BY <1>9
<1> QED BY <1>9, <1>10 DEF S, IsShape

LEMMA Remainder ==
  ASSUME NEW a \in Nat, NEW b \in Nat \ {0}
  PROVE  (a % b) + 1 \in 1..b
OBVIOUS

LEMMA CombinationsArePositive ==
  ASSUME RequestInv
  PROVE  /\ Len(Combinations) \in Nat
         /\ \A i \in 1..Len(Combinations) : IsShape(Combinations[i])
<1> DEFINE P == Len(prefer)
           S == Len(Shapes)
           Q == Len(Qualities)
           at(i) == Combination(Tiers[((i - 1) \div (P * S * Q)) + 1], Qualities[(((i - 1) \div (P * S)) % Q) + 1],
                                Shapes[(((i - 1) \div P) % S) + 1], prefer[((i - 1) % P) + 1])
<1>1. P \in Nat \ {0} /\ S \in Nat \ {0} /\ Q \in Nat
  BY ShapesArePositive, RequestAssumption DEF RequestInv
<1>2. Combinations = [i \in 1..(3 * P * S * Q) |-> at(i)]
  BY DEF Combinations
<1>3. 3 * P * S * Q \in Nat
  BY <1>1
<1>4. ASSUME NEW i \in 1..(3 * P * S * Q) PROVE IsShape(at(i))
  <2>1. (i - 1) \div P \in Nat
    <3> HIDE DEF P, S, Q
    <3>1. i - 1 \in Nat
      BY <1>3, <1>4
    <3> QED BY <1>1, <3>1
  <2>2. (((i - 1) \div P) % S) + 1 \in 1..S
    BY <1>1, <2>1, Remainder
  <2>3. IsShape(Shapes[(((i - 1) \div P) % S) + 1])
    BY <2>2, ShapesArePositive
  <2> QED BY <2>3 DEF IsShape, Combination
<1> HIDE DEF at, P, S, Q
<1>5. Len(Combinations) = 3 * P * S * Q
  BY <1>2, <1>3
<1> QED BY <1>2, <1>3, <1>4, <1>5

LEMMA FitStart == Init => FitInv
BY RequestAssumption DEF Init, FitInit, FitInv, RequestInv, SearchInv, FoundInv, NoFit

\* The middle is between the ends.
LEMMA Middle ==
  ASSUME NEW a \in Nat, NEW b \in Int, a <= b
  PROVE  a + (b - a) \div 2 \in a..b
<1>1. (b - a) \div 2 \in 0..(b - a)
  BY Z3
<1> QED BY <1>1

LEMMA FitSteps == FitInv /\ [FitNext]_fitVars => FitInv'
<1> SUFFICES ASSUME FitInv, [FitNext]_fitVars PROVE FitInv'
  OBVIOUS
<1>1. RequestInv /\ index \in Nat \ {0} /\ best \in Nat /\ SearchInv /\ FoundInv
  BY DEF FitInv
<1>2. UNCHANGED requestVars
  BY DEF FitNext, fitVars, Reuse, Begin, NoneFits, Skip, Search, Halve, GiveUp, AtCap, Adjacent, Replan, Offer
<1>3. Combinations' = Combinations /\ RequestInv' /\ \A n : CapFor(n)' = CapFor(n)
  BY <1>1, <1>2, SMTT(20) DEF requestVars, Combinations, Combination, Shapes, Floor, CapFor, RequestInv
<1>4. \A i : PassedOver(i)' <=> \/ <<i, Combinations[i].least>> \in refused'
                                \/ i \in contradicted' \/ RuledOut(Combinations[i])
  BY <1>2, <1>3 DEF PassedOver, RuledOut, requestVars, CapFor
\* What was passed over stays so: the request stays, and no evidence is forgotten.
<1>5. ASSUME refused \subseteq refused', contradicted \subseteq contradicted'
      PROVE  \A i \in 1..(index - 1) : PassedOver(i)'
  BY <1>4, <1>5 DEF FitInv, PassedOver
<1>6. ASSUME refused \subseteq refused', contradicted \subseteq contradicted', index' = index + 1,
             \/ <<index, Combinations[index].least>> \in refused'
             \/ index \in contradicted' \/ RuledOut(Combinations[index])
      PROVE  \A i \in 1..(index' - 1) : PassedOver(i)'
  <2> SUFFICES ASSUME NEW i \in 1..index PROVE PassedOver(i)'
    BY <1>1, <1>6
  <2>1. CASE i = index
    BY <1>4, <1>6, <2>1
  <2>2. CASE i # index
    BY <1>1, <1>5, <1>6, <2>2
  <2> QED BY <2>1, <2>2
<1>7. CASE UNCHANGED fitVars
  <2>1. UNCHANGED <<fitStep, index, low, high, best, refused, contradicted, fit>>
    BY <1>7 DEF fitVars, searchVars
  <2>2. SearchInv' /\ FoundInv'
    BY <1>1, <1>3, <2>1 DEF SearchInv, FoundInv, Accepts
  <2> QED BY <1>1, <1>3, <1>5, <2>1, <2>2 DEF FitInv
<1>8. CASE Reuse \/ Begin \/ NoneFits
  <2>1. /\ UNCHANGED <<index, best, refused, contradicted>> /\ fitStep' \in {"fits", "next", "failed"}
        /\ fitStep' = "fits" => fit'.of = 0
    BY <1>8 DEF Reuse, Begin, NoneFits, searchVars
  <2>2. SearchInv' /\ FoundInv'
    BY <2>1 DEF SearchInv, FoundInv
  <2> QED BY <1>1, <1>3, <1>5, <2>1, <2>2 DEF FitInv
<1>9. CASE Skip
  <2>1. /\ UNCHANGED <<best, refused, contradicted>> /\ fitStep' = "next" /\ index' = index + 1
        /\ RuledOut(Combinations[index])
    BY <1>9 DEF Skip, searchVars, Current
  <2>2. SearchInv' /\ FoundInv'
    BY <2>1 DEF SearchInv, FoundInv
  <2> QED BY <1>1, <1>3, <1>6, <2>1, <2>2 DEF FitInv
<1>10. CASE Search
  <2>1. /\ UNCHANGED <<index, refused, contradicted>> /\ fitStep' = "halve" /\ index <= Len(Combinations)
        /\ ~RuledOut(Combinations[index])
        /\ low' = Combinations[index].least /\ high' = CapFor(Combinations[index].slots) /\ best' = 0
    BY <1>10 DEF Search, Current
  <2>2. IsShape(Combinations[index])
    BY <1>1, <2>1, CombinationsArePositive
  <2>3. CapFor(Combinations[index].slots) \in Nat \ {0}
    BY <1>1, <2>2, CapsArePositive DEF IsShape
  <2>4. low' \in Nat /\ high' \in Nat /\ low' <= high'
    BY <2>1, <2>2, <2>3 DEF RuledOut, IsShape
  <2>5. SearchInv' /\ FoundInv'
    BY <1>3, <2>1, <2>4 DEF SearchInv, FoundInv
  <2> QED BY <1>1, <1>3, <1>5, <2>1, <2>5 DEF FitInv
<1>11. CASE Halve
  <2> DEFINE mid == low + (high - low) \div 2
  <2>1. /\ fitStep = "halve" /\ fitStep' = "halve" /\ low <= high /\ UNCHANGED <<index, contradicted>>
        /\ \/ best' = mid /\ low' = mid + 1 /\ UNCHANGED <<high, refused>>
           \/ high' = mid - 1 /\ refused' = refused \cup {<<index, mid>>} /\ UNCHANGED <<low, best>>
    BY <1>11 DEF Halve, Probe
  <2>2. /\ index <= Len(Combinations) /\ low \in Nat /\ high \in Int
        /\ best = 0 => low = Combinations[index].least
        /\ best # 0 => best >= Combinations[index].least /\ low = best + 1
        /\ high = CapFor(Combinations[index].slots) \/ <<index, high + 1>> \in refused
    BY <1>1, <2>1 DEF SearchInv
  <2>3. Combinations[index].least \in Nat \ {0}
    BY <1>1, <2>2, CombinationsArePositive DEF IsShape
  <2>4. mid \in low..high
    BY <2>1, <2>2, Middle
  <2> HIDE DEF mid
  <2>5. CASE best' = mid /\ low' = mid + 1 /\ UNCHANGED <<high, refused>>
    <3>1. best' \in Nat /\ best' # 0 /\ best' >= Combinations[index].least
      BY <1>1, <2>2, <2>3, <2>4, <2>5
    <3>2. SearchInv'
      BY <1>3, <2>1, <2>2, <2>4, <2>5, <3>1 DEF SearchInv
    <3> QED BY <1>1, <1>3, <1>5, <2>1, <2>5, <3>1, <3>2 DEF FitInv, FoundInv
  <2>6. CASE high' = mid - 1 /\ refused' = refused \cup {<<index, mid>>} /\ UNCHANGED <<low, best>>
    <3>1. high' \in Int /\ low' - 1 <= high' /\ high' + 1 = mid
      BY <2>2, <2>4, <2>6
    <3>2. SearchInv'
      BY <1>3, <2>1, <2>2, <2>6, <3>1 DEF SearchInv
    <3> QED BY <1>1, <1>3, <1>5, <2>1, <2>6, <3>2 DEF FitInv, FoundInv
  <2> QED BY <2>1, <2>5, <2>6
<1>12. CASE GiveUp
  <2>1. /\ fitStep = "halve" /\ low > high /\ best = 0 /\ index' = index + 1 /\ fitStep' = "next"
        /\ UNCHANGED <<best, refused, contradicted>>
    BY <1>12 DEF GiveUp, searchVars
  <2>2. <<index, Combinations[index].least>> \in refused \/ RuledOut(Combinations[index])
    <3>1. /\ index <= Len(Combinations) /\ low \in Nat /\ high \in Int
          /\ low = Combinations[index].least /\ low - 1 <= high
          /\ high = CapFor(Combinations[index].slots) \/ <<index, high + 1>> \in refused
      BY <1>1, <2>1 DEF SearchInv
    <3>2. high + 1 = low
      BY <2>1, <3>1
    <3> QED BY <2>1, <3>1, <3>2 DEF RuledOut
  <2>3. SearchInv' /\ FoundInv'
    BY <2>1 DEF SearchInv, FoundInv
  <2> QED BY <1>1, <1>3, <1>6, <2>1, <2>2, <2>3 DEF FitInv
<1>13. CASE AtCap
  <2>1. /\ fitStep = "halve" /\ best # 0 /\ best + 1 > CapFor(Combinations[index].slots) /\ fitStep' = "replan"
        /\ UNCHANGED <<index, best, refused, contradicted>>
    BY <1>13 DEF AtCap, searchVars, Current
  <2>2. best >= Combinations[index].least
    BY <1>1, <2>1 DEF SearchInv
  <2>3. SearchInv' /\ FoundInv'
    BY <1>3, <2>1, <2>2 DEF SearchInv, FoundInv
  <2> QED BY <1>1, <1>3, <1>5, <2>1, <2>3 DEF FitInv
<1>14. CASE Adjacent
  <2>1. /\ fitStep = "halve" /\ best # 0 /\ best' = best
        /\ \/ contradicted' = contradicted \cup {index} /\ index' = index + 1 /\ fitStep' = "next" /\ refused' = refused
           \/ refused' = refused \cup {<<index, best + 1>>} /\ fitStep' = "replan" /\ UNCHANGED <<index, contradicted>>
    BY <1>14 DEF Adjacent, searchVars
  <2>2. CASE contradicted' = contradicted \cup {index} /\ index' = index + 1 /\ fitStep' = "next" /\ refused' = refused
    <3>1. SearchInv' /\ FoundInv'
      BY <2>2 DEF SearchInv, FoundInv
    <3> QED BY <1>1, <1>3, <1>6, <2>1, <2>2, <3>1 DEF FitInv
  <2>3. CASE refused' = refused \cup {<<index, best + 1>>} /\ fitStep' = "replan" /\ UNCHANGED <<index, contradicted>>
    <3>1. best >= Combinations[index].least
      BY <1>1, <2>1 DEF SearchInv
    <3>2. SearchInv' /\ FoundInv'
      BY <1>3, <2>1, <2>3, <3>1 DEF SearchInv, FoundInv
    <3> QED BY <1>1, <1>3, <1>5, <2>1, <2>3, <3>2 DEF FitInv
  <2> QED BY <2>1, <2>2, <2>3
<1>15. CASE Replan
  <2>1. /\ fitStep = "replan" /\ fitStep' = "offer" /\ UNCHANGED <<index, best, refused, contradicted>>
        /\ fit'.of = index /\ fit'.context = best /\ Accepts(Combinations[index].tier, fit'.what)
    BY <1>15 DEF Replan, searchVars, Current
  <2>2. SearchInv' /\ FoundInv'
    <3>1. SearchInv'
      BY <2>1 DEF SearchInv
    <3>2. <<index, best + 1>> \in refused \/ best + 1 > CapFor(Combinations[index].slots)
      BY <1>1, <2>1 DEF FoundInv
    <3>3. best >= Combinations[index].least
      BY <1>1, <2>1 DEF FoundInv
    <3>4. Accepts(Combinations[index].tier, fit'.what) => FoundInv'
      BY <1>3, <2>1, <3>2, <3>3 DEF FoundInv, Accepts
    <3> QED BY <2>1, <3>1, <3>4
  <2> QED BY <1>1, <1>3, <1>5, <2>1, <2>2 DEF FitInv
<1>16. CASE Offer
  <2>1. /\ fitStep = "offer" /\ UNCHANGED <<index, best, refused, contradicted>>
        /\ (fitStep' = "fits" /\ fit' = fit) \/ fitStep' = "failed"
    BY <1>16 DEF Offer, searchVars
  <2>2. SearchInv' /\ FoundInv'
    BY <1>1, <1>3, <2>1 DEF SearchInv, FoundInv, Accepts
  <2> QED BY <1>1, <1>3, <1>5, <2>1, <2>2 DEF FitInv
<1> QED BY <1>7, <1>8, <1>9, <1>10, <1>11, <1>12, <1>13, <1>14, <1>15, <1>16 DEF FitNext

\* The plan that is taken is the best of those that were tried: all that were
\* preferred to it were passed over for a reason, it is of the tier it is reported
\* under, and one granule more was refused or is beyond the limit.
THEOREM TakenIsBest == Spec => []BestIsTaken
<1>1. FitInv => BestIsTaken
  BY DEF FitInv, FoundInv, BestIsTaken
<1>2. [Next]_plannerVars => [FitNext]_fitVars
  BY PartsApart DEF plannerVars
<1> QED BY <1>1, <1>2, FitStart, FitSteps, PTL DEF Spec

-----------------------------------------------------------------------------
(* The arguments of a launch.                                               *)

DerateInv ==
  /\ ranges \in Rangings /\ nCPUMoE = LayersOnHost(ranges) /\ uBatch \in Nat \ {0}
  /\ failure # NoFailure => /\ failure.device \in DeviceSet
                            /\ failure.deficit \in Nat \ {0} /\ failure.alloc \in Nat

\* The last layers of a range are its largest ones.
LEMMA ShrunkRange ==
  ASSUME NEW a \in Nat \ {0}, NEW b \in Nat, NEW n \in Nat, n <= b - a + 1
  PROVE  Shrunk(a..b, n) = a..(b - n)
<1>1. ASSUME NEW l \in a..b PROVE Cardinality({k \in a..b : k > l}) = b - l
  <2> DEFINE above == {k \in a..b : k > l}
  <2>1. above = (l + 1)..b /\ l + 1 \in Int /\ b \in Int
    OBVIOUS
  <2>2. Cardinality((l + 1)..b) = IF l + 1 > b THEN 0 ELSE b - (l + 1) + 1
    BY <2>1, FS_Interval
  <2> HIDE DEF above
  <2>3. Cardinality(above) = b - l
    BY <2>1, <2>2
  <2> QED BY <2>3 DEF above
<1>2. Shrunk(a..b, n) = {l \in a..b : b - l >= n}
  BY <1>1 DEF Shrunk
<1>3. {l \in a..b : b - l >= n} = a..(b - n)
  OBVIOUS
<1> QED BY <1>2, <1>3

Host(r) == (1..ExpertLayers) \ UNION Range(r)

LEMMA HostLayers ==
  ASSUME NEW r \in Rangings
  PROVE  /\ LayersOnHost(r) = Cardinality(Host(r)) /\ IsFiniteSet(Host(r)) /\ LayersOnHost(r) \in Nat
         /\ \A l \in 1..ExpertLayers : l \in Host(r) <=> \A d \in DeviceSet : l \notin r[d]
<1>1. LayersOnHost(r) = Cardinality(Host(r))
  BY DEF LayersOnHost, Host
<1>2. IsFiniteSet(1..ExpertLayers) /\ Host(r) \subseteq 1..ExpertLayers
  BY FS_Interval, DerateAssumption DEF Host
<1>3. IsFiniteSet(Host(r))
  BY <1>2, FS_Subset
<1>4. \A l \in 1..ExpertLayers : l \in Host(r) <=> \A d \in DeviceSet : l \notin r[d]
  BY DEF Host, Range, Rangings
<1> QED BY <1>1, <1>3, <1>4, FS_CardinalityType

\* Layers that are dropped from the end of a range go to the host, and only they.
LEMMA DroppedToHost ==
  ASSUME NEW r \in Rangings, NEW d \in DeviceSet, NEW n \in Nat, n <= Cardinality(r[d])
  PROVE  LET s == [r EXCEPT ![d] = Shrunk(r[d], n)] IN
         /\ s \in Rangings /\ s \in [DeviceSet -> SUBSET (1..ExpertLayers)]
         /\ Cardinality(s[d]) = Cardinality(r[d]) - n /\ Cardinality(r[d]) \in Nat
         /\ n = Cardinality(r[d]) => s[d] = {}
         /\ LayersOnHost(s) = LayersOnHost(r) + n
<1> DEFINE s == [r EXCEPT ![d] = Shrunk(r[d], n)]
<1> SUFFICES /\ s \in Rangings /\ s \in [DeviceSet -> SUBSET (1..ExpertLayers)]
             /\ Cardinality(s[d]) = Cardinality(r[d]) - n /\ Cardinality(r[d]) \in Nat
             /\ n = Cardinality(r[d]) => s[d] = {}
             /\ LayersOnHost(s) = LayersOnHost(r) + n
  OBVIOUS
<1>0. s = [r EXCEPT ![d] = Shrunk(r[d], n)]
  OBVIOUS
<1> HIDE DEF s
<1>1. PICK a \in 1..ExpertLayers, b \in 0..ExpertLayers : r[d] = a..b
  BY DEF Rangings
<1>2. /\ a \in Nat \ {0} /\ b \in Nat /\ ExpertLayers \in Nat /\ a <= ExpertLayers /\ b <= ExpertLayers
      /\ IsFiniteSet(a..b) /\ Cardinality(a..b) = IF a > b THEN 0 ELSE b - a + 1
  BY DerateAssumption, FS_Interval
<1>3. CASE a > b
  <2>1. n = 0 /\ r[d] = {}
    BY <1>1, <1>2, <1>3
  <2>2. Shrunk(r[d], n) = r[d]
    BY <2>1 DEF Shrunk
  <2>3. s = r
    BY <1>0, <2>2 DEF Rangings
  <2>4. Cardinality(s[d]) = 0 /\ Cardinality(r[d]) = 0 /\ s[d] = {} /\ s \in Rangings
    BY <2>1, <2>3, FS_EmptySet
  <2>5. s \in [DeviceSet -> SUBSET (1..ExpertLayers)]
    BY <1>2, <2>3 DEF Rangings
  <2>6. LayersOnHost(r) \in Nat
    BY HostLayers
  <2>7. LayersOnHost(s) = LayersOnHost(r) + n
    BY <2>1, <2>3, <2>6
  <2> QED BY <2>1, <2>4, <2>5, <2>7
<1>4. CASE a <= b
  <2>1. Cardinality(r[d]) = b - a + 1 /\ n <= b - a + 1
    BY <1>1, <1>2, <1>4
  <2>2. Shrunk(r[d], n) = a..(b - n)
    BY <1>1, <1>2, <2>1, ShrunkRange
  <2>3. b - n \in 0..ExpertLayers /\ b - n \in Nat
    BY <1>2, <2>1
  <2>4. /\ s \in [DeviceSet -> {i..j : i \in 1..ExpertLayers, j \in 0..ExpertLayers}]
        /\ s[d] = a..(b - n) /\ \A e \in DeviceSet \ {d} : s[e] = r[e]
    BY <1>0, <2>2, <2>3 DEF Rangings
  <2>5. a..(b - n) \subseteq r[d]
    BY <1>1, <1>2
  <2>6. s \in Rangings
    <3>1. \A e \in DeviceSet : s[e] \subseteq r[e]
      BY <2>4, <2>5
    <3>2. \A e, f \in DeviceSet : e # f => r[e] \cap r[f] = {}
      BY DEF Rangings
    <3>3. \A e, f \in DeviceSet : e # f => s[e] \cap s[f] = {}
      BY <3>1, <3>2
    <3>4. s \in [DeviceSet -> {i..j : i \in 1..ExpertLayers, j \in 0..ExpertLayers}]
      BY <2>4
    <3> QED BY <3>3, <3>4 DEF Rangings
  <2>7. Cardinality(s[d]) = b - n - a + 1
    <3> DEFINE top == b - n
    <3>1. a \in Int /\ top \in Int /\ top >= a - 1
      BY <1>2, <2>1, <2>3
    <3> HIDE DEF top
    <3>2. Cardinality(a..top) = IF a > top THEN 0 ELSE top - a + 1
      BY <3>1, FS_Interval
    <3>3. Cardinality(a..top) = top - a + 1
      BY <3>1, <3>2
    <3> QED BY <2>4, <3>3 DEF top
  <2>8. n = Cardinality(r[d]) => s[d] = {}
    BY <1>2, <2>1, <2>4
  <2>9. LayersOnHost(s) = LayersOnHost(r) + n
    <3> DEFINE last == (b - n + 1)..b
    <3>1. Host(s) = Host(r) \cup last
      <4>1. ASSUME NEW l \in 1..ExpertLayers PROVE l \in Host(s) <=> l \in Host(r) \/ l \in last
        <5>1. l \in Host(r) <=> \A e \in DeviceSet : l \notin r[e]
          BY HostLayers
        <5>2. l \in Host(s) <=> \A e \in DeviceSet : l \notin s[e]
          BY <2>6, HostLayers
        <5>3. CASE l \in last
          <6>1. l \in r[d] /\ l \notin s[d]
            BY <1>1, <1>2, <2>1, <2>4, <5>3
          <6>2. \A e \in DeviceSet \ {d} : l \notin r[e]
            BY <6>1 DEF Rangings
          <6> QED BY <2>4, <5>2, <5>3, <6>1, <6>2
        <5>4. CASE l \notin last
          <6>1. l \in r[d] <=> l \in s[d]
            BY <1>1, <1>2, <2>1, <2>3, <2>4, <5>4
          <6> QED BY <2>4, <5>1, <5>2, <5>4, <6>1
        <5> QED BY <5>3, <5>4
      <4>2. last \subseteq 1..ExpertLayers
        BY <1>2, <2>1
      <4> QED BY <4>1, <4>2 DEF Host
    <3>2. Host(r) \cap last = {}
      <4> SUFFICES ASSUME NEW l \in last, l \in Host(r) PROVE FALSE
        OBVIOUS
      <4>1. l \in r[d] /\ l \in 1..ExpertLayers
        BY <1>1, <1>2, <2>1
      <4> QED BY <4>1, HostLayers
    <3>3. IsFiniteSet(last) /\ Cardinality(last) = n
      <4>1. /\ IsFiniteSet(last)
            /\ Cardinality(last) = IF b - n + 1 > b THEN 0 ELSE b - (b - n + 1) + 1
        BY <1>2, <2>3, FS_Interval
      <4> QED BY <1>2, <4>1
    <3> HIDE DEF last
    <3>4. IsFiniteSet(Host(r))
      BY HostLayers
    <3>5. Cardinality(Host(r) \cup last)
            = Cardinality(Host(r)) + Cardinality(last) - Cardinality(Host(r) \cap last)
      BY <3>3, <3>4, FS_Union
    <3>6. Cardinality(Host(s)) = Cardinality(Host(r)) + n - 0
      BY <3>1, <3>2, <3>3, <3>5, FS_EmptySet
    <3>7. LayersOnHost(r) = Cardinality(Host(r)) /\ LayersOnHost(r) \in Nat
      BY HostLayers
    <3>8. LayersOnHost(s) = Cardinality(Host(s))
      BY <2>6, HostLayers
    <3> QED BY <3>6, <3>7, <3>8
  <2>10. s \in [DeviceSet -> SUBSET (1..ExpertLayers)]
    BY <1>2, <2>4
  <2>11. Cardinality(s[d]) = Cardinality(r[d]) - n /\ Cardinality(r[d]) \in Nat
    BY <1>2, <2>1, <2>7
  <2> QED BY <2>6, <2>8, <2>9, <2>10, <2>11
<1> QED BY <1>2, <1>3, <1>4

LEMMA RangeSize ==
  ASSUME NEW r \in Rangings, NEW d \in DeviceSet
  PROVE  Cardinality(r[d]) \in Nat /\ (Cardinality(r[d]) = 0 => r[d] = {})
<1>1. PICK a \in 1..ExpertLayers, b \in 0..ExpertLayers : r[d] = a..b
  BY DEF Rangings
<1>2. IsFiniteSet(r[d])
  BY <1>1, DerateAssumption, FS_Interval
<1> QED BY <1>2, FS_CardinalityType, FS_EmptySet

\* More than nothing is always to be given back, and whole layers make up for it.
LEMMA NeededLayers ==
  ASSUME NEW deficit \in Nat \ {0}
  PROVE  LET needed == CeilDiv(RequiredMB(deficit), ExpertPerLayerMB) IN
         /\ RequiredMB(deficit) \in Nat \ {0} /\ needed \in Nat \ {0}
         /\ needed * ExpertPerLayerMB >= RequiredMB(deficit)
<1>1. CeilDiv(deficit, 10) \in Nat
  BY DivisionUp
<1>2. RequiredMB(deficit) \in Nat \ {0}
  BY <1>1, DerateAssumption DEF RequiredMB, Margin
<1> DEFINE needed == CeilDiv(RequiredMB(deficit), ExpertPerLayerMB)
<1>3. needed \in Nat /\ needed * ExpertPerLayerMB >= RequiredMB(deficit)
  BY <1>2, DivisionUp, DerateAssumption
<1> HIDE DEF needed
<1>4. needed # 0
  <2>1. CASE needed = 0
    <3>1. needed * ExpertPerLayerMB = 0
      BY <2>1, DerateAssumption
    <3> QED BY <1>2, <1>3, <3>1
  <2> QED BY <2>1
<1>5. needed \in Nat \ {0} /\ needed * ExpertPerLayerMB >= RequiredMB(deficit)
  BY <1>3, <1>4
<1> QED BY <1>2, <1>5 DEF needed

LEMMA DerateStart == Init => DerateInv
<1> SUFFICES ASSUME Init PROVE DerateInv
  OBVIOUS
<1>1. DerateInit
  BY DEF Init
<1> QED BY <1>1, DerateAssumption DEF DerateInit, DerateInv, FromStart

\* What a step of the derating does, all of it that the properties speak about.
Suffices ==
  /\ method' = "expert-derate" => GivesBack
  /\ method' = "ubatch-derate" => BatchGivesBack
  /\ nCPUMoE' = LayersOnHost(ranges')

\* Layers that are taken are enough, or all there are.
LEMMA ExpertsSuffice ==
  ASSUME DerateInv, TakeExperts
  PROVE  DerateInv' /\ Suffices
<1> DEFINE d == failure.device
           count == Cardinality(ranges[d])
           needed == CeilDiv(RequiredMB(failure.deficit), ExpertPerLayerMB)
           n == DropLayers(count)
<1>1. /\ ranges \in Rangings /\ nCPUMoE = LayersOnHost(ranges) /\ uBatch \in Nat \ {0}
      /\ d \in DeviceSet /\ failure.deficit \in Nat \ {0} /\ count > 0
  BY DEF DerateInv, TakeExperts, CanDropExperts, ExpertsOn
<1>2. count \in Nat
  BY <1>1, RangeSize
<1>3. /\ RequiredMB(failure.deficit) \in Nat \ {0} /\ needed \in Nat \ {0}
      /\ needed * ExpertPerLayerMB >= RequiredMB(failure.deficit)
  BY <1>1, NeededLayers
<1>4. n = IF needed > count THEN count ELSE needed
  BY DEF DropLayers
<1>5. /\ ranges' = [ranges EXCEPT ![d] = Shrunk(ranges[d], n)]
      /\ nCPUMoE' = nCPUMoE + n /\ uBatch' = uBatch
      /\ failure' = NoFailure /\ method' = "expert-derate"
  BY DEF TakeExperts, DropExperts, Answer, ExpertsOn
<1> HIDE DEF d, count, needed, n
<1>6. n \in Nat \ {0} /\ n <= count /\ (n # count => n = needed)
  BY <1>1, <1>2, <1>3, <1>4
<1>7. /\ ranges' \in Rangings /\ Cardinality(ranges'[d]) = count - n
      /\ n = count => ranges'[d] = {}
      /\ LayersOnHost(ranges') = LayersOnHost(ranges) + n
  <2>1. d \in DeviceSet /\ n \in Nat /\ n <= Cardinality(ranges[d])
    BY <1>1, <1>6 DEF count
  <2> DEFINE s == [ranges EXCEPT ![d] = Shrunk(ranges[d], n)]
  <2>2. /\ s \in Rangings /\ Cardinality(s[d]) = Cardinality(ranges[d]) - n
        /\ n = Cardinality(ranges[d]) => s[d] = {}
        /\ LayersOnHost(s) = LayersOnHost(ranges) + n
    BY <1>1, <2>1, DroppedToHost
  <2> HIDE DEF s
  <2>3. ranges' = s
    BY <1>5 DEF s
  <2> QED BY <2>2, <2>3 DEF count
<1>8. count - Cardinality(ranges'[d]) = n
  BY <1>2, <1>6, <1>7
<1>9. \A e \in DeviceSet \ {d} : ranges'[e] = ranges[e]
  BY <1>1, <1>5 DEF Rangings
<1>10. n * ExpertPerLayerMB >= RequiredMB(failure.deficit) \/ ranges'[d] = {}
  BY <1>3, <1>6, <1>7
<1>11. nCPUMoE' = LayersOnHost(ranges')
  BY <1>1, <1>5, <1>7
<1>12. GivesBack
  BY <1>6, <1>8, <1>9, <1>10 DEF GivesBack, d, count
<1>13. DerateInv'
  BY <1>1, <1>5, <1>7, <1>11 DEF DerateInv
<1> QED BY <1>5, <1>11, <1>12, <1>13 DEF Suffices

\* A batch that is lowered is the largest that gives enough back, or the smallest,
\* and no expert is left to take.
LEMMA BatchSuffices ==
  ASSUME DerateInv, TakeUBatch
  PROVE  DerateInv' /\ Suffices
<1>1. /\ ranges \in Rangings /\ nCPUMoE = LayersOnHost(ranges) /\ uBatch \in Nat \ {0}
      /\ failure.device \in DeviceSet /\ ~(Cardinality(ranges[failure.device]) > 0)
  BY DEF DerateInv, TakeUBatch, CanDropExperts, ExpertsOn
<1>2. ranges[failure.device] = {}
  BY <1>1, RangeSize
<1>3. PICK u \in Lower : IsNextUBatch(u) /\ uBatch' = u
  BY DEF TakeUBatch, LowerUBatch
<1>4. /\ ranges' = ranges /\ nCPUMoE' = nCPUMoE /\ failure' = NoFailure
      /\ method' = "ubatch-derate"
  BY DEF TakeUBatch, LowerUBatch, Answer
<1>5. u \in {64, 128, 256} /\ u < uBatch /\ u \in Nat \ {0}
  BY DEF Lower, Ladder
<1>6. Reclaims(u) \/ u = 64
  <2>1. CASE \E v \in Lower : Reclaims(v)
    BY <1>3, <2>1 DEF IsNextUBatch
  <2>2. CASE ~\E v \in Lower : Reclaims(v)
    <3>1. \A v \in Lower : u <= v
      BY <1>3, <2>2 DEF IsNextUBatch
    <3> QED BY <1>1, <1>5, <3>1 DEF Lower, Ladder
  <2> QED BY <2>1, <2>2
<1>7. BatchGivesBack
  BY <1>2, <1>3, <1>5, <1>6 DEF BatchGivesBack
<1>8. nCPUMoE' = LayersOnHost(ranges')
  BY <1>1, <1>4
<1>9. DerateInv'
  BY <1>1, <1>3, <1>4, <1>5, <1>8 DEF DerateInv
<1> QED BY <1>4, <1>7, <1>8, <1>9 DEF Suffices

LEMMA DerateSteps ==
  ASSUME DerateInv, [DerateNext]_derateVars
  PROVE  DerateInv' /\ [Suffices]_derateVars
<1>1. CASE UNCHANGED derateVars
  BY <1>1 DEF derateVars, argVars, DerateInv
<1>2. CASE Fails
  <2>1. /\ ranges' = ranges /\ nCPUMoE' = nCPUMoE /\ uBatch' = uBatch /\ method' = "none"
        /\ failure'.device \in DeviceSet /\ failure'.deficit \in Deficits /\ failure'.alloc \in Allocations
    BY <1>2 DEF Fails, argVars
  <2> QED BY <2>1, DerateAssumption DEF DerateInv, Suffices
<1>3. CASE Replanned
  <2>1. PICK c \in Replans : Adopt(c)
    BY <1>3 DEF Replanned
  <2>2. /\ ranges' \in Rangings /\ nCPUMoE' = LayersOnHost(ranges') /\ uBatch' \in Nat \ {0}
        /\ failure' = NoFailure /\ method' = "replanned"
    BY <2>1, DerateAssumption DEF Adopt, Answer, Replans, FromStart
  <2> QED BY <2>2 DEF DerateInv, Suffices
<1>4. CASE TakeExperts
  BY <1>4, ExpertsSuffice
<1>5. CASE TakeUBatch
  BY <1>5, BatchSuffices
<1>6. CASE Nothing
  <2>1. /\ ranges' = ranges /\ nCPUMoE' = nCPUMoE /\ uBatch' = uBatch
        /\ failure' = NoFailure /\ method' = "exhausted"
    BY <1>6 DEF Nothing, Answer, argVars
  <2> QED BY <2>1 DEF DerateInv, Suffices
<1> QED BY <1>1, <1>2, <1>3, <1>4, <1>5, <1>6 DEF DerateNext

\* Arguments that are derated give back what the launch lacked with its margin, or
\* all the failed device has, take nothing from another device, and go on telling
\* how many layers have their experts in host memory.
THEOREM DeratedSuffices == Spec => DerateSuffices
<1>1. [Next]_plannerVars => [DerateNext]_derateVars
  BY PartsApart DEF plannerVars
<1>2. DerateInv /\ [Next]_plannerVars => DerateInv'
  BY <1>1, DerateSteps
<1>3. DerateInv /\ [Next]_plannerVars =>
        [/\ method' = "expert-derate" => GivesBack
         /\ method' = "ubatch-derate" => BatchGivesBack
         /\ nCPUMoE' = LayersOnHost(ranges')]_derateVars
  BY <1>1, DerateSteps DEF Suffices
<1> QED BY <1>2, <1>3, DerateStart, PTL DEF Spec, DerateSuffices

-----------------------------------------------------------------------------
(* Sums over layers and GPUs, one unit at a time.                           *)

\* What a unit of a sum is.
LEMMA TheUnits ==
  ASSUME NEW S, NEW f, \A x \in S : f[x] \in Nat
  PROVE  \A z : z \in Units(f, S) <=> \E x \in S, k \in Nat : k \in 1..f[x] /\ z = <<x, k>>
BY DEF Units

\* One summand has as many units as it counts.
LEMMA UnitsOfOne ==
  ASSUME NEW x, NEW m \in Nat
  PROVE  IsFiniteSet({x} \X (1..m)) /\ Cardinality({x} \X (1..m)) = m
<1> DEFINE T == 1..m
           one == {x}
<1>1. IsFiniteSet(T) /\ Cardinality(T) = m
  BY FS_Interval
<1>2. IsFiniteSet(one) /\ Cardinality(one) = 1
  BY FS_Singleton
<1> HIDE DEF T, one
<1>3. IsFiniteSet(one \X T) /\ Cardinality(one \X T) = Cardinality(one) * Cardinality(T)
  BY <1>1, <1>2, FS_Product, Zenon
<1>4. Cardinality(one) * Cardinality(T) = m
  BY <1>1, <1>2
<1> QED BY <1>3, <1>4 DEF T, one

\* A sum of natural numbers is one.
LEMMA TotalIsCounted ==
  ASSUME NEW S, IsFiniteSet(S), NEW f, \A x \in S : f[x] \in Nat
  PROVE  IsFiniteSet(Units(f, S)) /\ Total(f, S) \in Nat
<1> DEFINE each == [x \in S |-> {x} \X (1..f[x])]
           family == {{x} \X (1..f[x]) : x \in S}
<1>1. each \in Surjection(S, family)
  BY DEF Surjection
<1>2. IsFiniteSet(family)
  BY <1>1, FS_Surjection
<1>3. \A T \in family : IsFiniteSet(T)
  <2> SUFFICES ASSUME NEW x \in S PROVE IsFiniteSet({x} \X (1..f[x]))
    OBVIOUS
  <2>1. f[x] \in Nat
    OBVIOUS
  <2> QED BY <2>1, UnitsOfOne, Zenon
<1>4. Units(f, S) = UNION family
  BY DEF Units
<1> HIDE DEF family
<1>5. IsFiniteSet(Units(f, S))
  BY <1>2, <1>3, <1>4, FS_UNION
<1> QED BY <1>5, FS_CardinalityType DEF Total

\* One more.
LEMMA TotalWith ==
  ASSUME NEW S, IsFiniteSet(S), NEW f, NEW x, x \notin S, \A y \in S \union {x} : f[y] \in Nat
  PROVE  Total(f, S \union {x}) = Total(f, S) + f[x]
<1> DEFINE only == {x} \X (1..f[x])
<1>1. f[x] \in Nat /\ \A y \in S : f[y] \in Nat
  OBVIOUS
<1>2. Units(f, S \union {x}) = Units(f, S) \union only
  BY DEF Units
<1>3. Units(f, S) \intersect only = {}
  <2> SUFFICES ASSUME NEW z \in Units(f, S), z \in only PROVE FALSE
    OBVIOUS
  <2>1. PICK y \in S, k \in Nat : k \in 1..f[y] /\ z = <<y, k>>
    BY <1>1, TheUnits
  <2> QED BY <2>1
<1>4. IsFiniteSet(only) /\ Cardinality(only) = f[x]
  BY <1>1, UnitsOfOne, Zenon
<1>5. IsFiniteSet(Units(f, S)) /\ Total(f, S) \in Nat
  BY <1>1, TotalIsCounted
<1> HIDE DEF only
<1>6. Cardinality(Units(f, S) \union only) = Cardinality(Units(f, S)) + Cardinality(only) - Cardinality({})
  BY <1>3, <1>4, <1>5, FS_Union
<1>7. Total(f, S \union {x}) = Cardinality(Units(f, S) \union only) /\ Total(f, S) = Cardinality(Units(f, S))
  BY <1>2, Zenon DEF Total
<1>8. Cardinality({}) = 0
  BY FS_EmptySet
<1> QED BY <1>1, <1>4, <1>5, <1>6, <1>7, <1>8

\* Nothing sums to nothing.
LEMMA TotalOfNone == \A f : Total(f, {}) = 0
<1> SUFFICES ASSUME NEW f PROVE Total(f, {}) = 0
  OBVIOUS
<1>1. Units(f, {}) = {}
  BY Zenon DEF Units
<1>2. Cardinality({}) = 0
  BY FS_EmptySet
<1> QED BY <1>1, <1>2, Zenon DEF Total

\* Those that count for nothing may be left out.
LEMMA TotalWithout ==
  ASSUME NEW S, NEW T, T \subseteq S, NEW f, \A x \in S : f[x] \in Nat, \A x \in S \ T : f[x] = 0
  PROVE  Total(f, S) = Total(f, T)
<1>1. ASSUME NEW z \in Units(f, S) PROVE z \in Units(f, T)
  <2>1. PICK x \in S, k \in Nat : k \in 1..f[x] /\ z = <<x, k>>
    BY TheUnits
  <2>2. x \in T
    BY <2>1
  <2> QED BY <2>1, <2>2, TheUnits
<1>2. ASSUME NEW z \in Units(f, T) PROVE z \in Units(f, S)
  <2>1. PICK x \in T, k \in Nat : k \in 1..f[x] /\ z = <<x, k>>
    BY TheUnits
  <2> QED BY <2>1, TheUnits
<1>3. Units(f, S) = Units(f, T)
  BY <1>1, <1>2
<1> QED BY <1>3 DEF Total

\* A sum depends on its summands only.
LEMMA TotalSame ==
  ASSUME NEW S, NEW f, NEW g, \A x \in S : f[x] = g[x]
  PROVE  Total(f, S) = Total(g, S)
BY DEF Total, Units

\* A sum is no less than any of its summands.
LEMMA TotalCovers ==
  ASSUME NEW S, IsFiniteSet(S), NEW f, \A x \in S : f[x] \in Nat, NEW x \in S
  PROVE  f[x] <= Total(f, S)
<1>1. IsFiniteSet(S \ {x}) /\ x \notin S \ {x} /\ (S \ {x}) \union {x} = S
  BY FS_RemoveElement
<1>2. Total(f, S) = Total(f, S \ {x}) + f[x]
  BY <1>1, TotalWith
<1>3. Total(f, S \ {x}) \in Nat
  BY <1>1, TotalIsCounted
<1> QED BY <1>2, <1>3

\* No more than so many, and no more of each than that.
LEMMA TotalAtMost ==
  ASSUME NEW S, IsFiniteSet(S), NEW f, NEW m \in Nat, \A x \in S : f[x] \in 0..m
  PROVE  Total(f, S) <= Cardinality(S) * m
<1> DEFINE T == 1..m
<1>1. IsFiniteSet(T) /\ Cardinality(T) = m
  BY FS_Interval
<1>2. Units(f, S) \subseteq S \X T
  <2> SUFFICES ASSUME NEW z \in Units(f, S) PROVE z \in S \X T
    OBVIOUS
  <2>1. PICK x \in S, k \in Nat : k \in 1..f[x] /\ z = <<x, k>>
    BY TheUnits
  <2> QED BY <2>1
<1> HIDE DEF T
<1>3. IsFiniteSet(S \X T) /\ Cardinality(S \X T) = Cardinality(S) * Cardinality(T)
  BY <1>1, FS_Product, Zenon
<1>4. Cardinality(Units(f, S)) <= Cardinality(S \X T)
  BY <1>2, <1>3, FS_Subset
<1> QED BY <1>1, <1>3, <1>4 DEF Total

\* The first device that satisfies a condition exists when one does.
LEMMA SmallestOf ==
  ASSUME NEW n \in Nat, NEW S, S \subseteq 1..n, S # {}
  PROVE  \E m \in S : \A k \in S : m <= k
<1> DEFINE upTo(x) == {z \in 1..n : z <= x}
           all == {upTo(x) : x \in S}
<1>1. all \subseteq FiniteSubsetsOf(1..n) /\ all # {}
  <2> SUFFICES ASSUME NEW x \in S PROVE upTo(x) \in FiniteSubsetsOf(1..n)
    OBVIOUS
  <2>1. IsFiniteSet(1..n)
    BY FS_Interval
  <2>2. IsFiniteSet(upTo(x))
    BY <2>1, FS_Subset
  <2> QED BY <2>2 DEF FiniteSubsetsOf
<1>2. PICK least \in all : \A other \in all : ~ (<<other, least>> \in StrictSubsetOrdering(1..n))
  <2> HIDE DEF all
  <2> QED BY <1>1, FS_StrictSubsetOrderingWellFounded, WFMin
<1>3. PICK m \in S : least = upTo(m)
  BY <1>2
<1>4. ASSUME NEW k \in S, k < m PROVE FALSE
  <2>1. upTo(k) \subseteq upTo(m) /\ m \in upTo(m) /\ m \notin upTo(k)
    BY <1>4
  <2>2. <<upTo(k), least>> \in StrictSubsetOrdering(1..n)
    BY <1>3, <2>1 DEF StrictSubsetOrdering
  <2> QED BY <1>2, <2>2
<1> QED BY <1>4

\* The GPUs are numbered from 1.
LEMMA TheGPUs ==
  /\ Cardinality(GPUs) \in Nat \ {0} /\ GPUs = 1..Cardinality(GPUs) /\ IsFiniteSet(GPUs)
  /\ \A g \in GPUs : 1..g \subseteq GPUs /\ IsFiniteSet(1..g) /\ g \in Nat \ {0}
<1>1. IsFiniteSet(GPUs) /\ GPUs # {} /\ GPUs = 1..Cardinality(GPUs)
  BY PlacementAssumption
<1>2. Cardinality(GPUs) \in Nat \ {0}
  BY <1>1, FS_CardinalityType, FS_EmptySet
<1>3. ASSUME NEW g \in GPUs PROVE 1..g \subseteq GPUs /\ IsFiniteSet(1..g) /\ g \in Nat \ {0}
  <2>1. g \in 1..Cardinality(GPUs)
    BY <1>1
  <2>2. g \in Nat \ {0} /\ \A h \in 1..g : h \in 1..Cardinality(GPUs)
    BY <1>2, <2>1
  <2>3. IsFiniteSet(1..g)
    BY <2>2, FS_Interval
  <2> QED BY <1>1, <2>2, <2>3
<1> QED BY <1>1, <1>2, <1>3

\* Multiplying by a positive number keeps the order.
LEMMA MoreOfThem ==
  ASSUME NEW a \in Nat, NEW b \in Nat, a < b, NEW t \in Nat \ {0}
  PROVE  a * t < b * t
<1> DEFINE d == b - a
<1>1. d \in Nat \ {0} /\ b = a + d
  OBVIOUS
<1> HIDE DEF d
<1>2. d * t \in Nat \ {0}
  BY <1>1, ProductIsPositive
<1>3. (a + d) * t = a * t + d * t /\ a * t \in Nat
  BY <1>1
<1> QED BY <1>1, <1>2, <1>3

\* By the backend's rule every slot has a device, and that has a share.
LEMMA EverySlotHasADevice ==
  ASSUME NEW sp \in [GPUs -> Nat], Total(sp, GPUs) > 0, NEW slot \in 0..NumLayers
  PROVE  DeviceOf(sp, slot) \in GPUs /\ sp[DeviceOf(sp, slot)] > 0
<1> DEFINE n == Cardinality(GPUs)
           all == Total(sp, GPUs)
           cum(g) == Total(sp, 1..g)
           slotCount == NumLayers + 1
           past == {g \in GPUs : cum(g) * slotCount > slot * all}
           d == DeviceOf(sp, slot)
<1>1. NumLayers \in Nat \ {0} /\ slot \in Nat /\ slotCount \in Nat \ {0} /\ slot < slotCount
  BY PlacementAssumption
<1>2. /\ \A g \in GPUs : cum(g) \in Nat
      /\ all \in Nat \ {0}
  <2>1. ASSUME NEW g \in GPUs PROVE cum(g) \in Nat
    <3>1. IsFiniteSet(1..g) /\ \A h \in 1..g : sp[h] \in Nat
      BY TheGPUs
    <3> QED BY <3>1, TotalIsCounted
  <2>2. all \in Nat
    BY TheGPUs, TotalIsCounted
  <2> QED BY <2>1, <2>2
<1>3. n \in past
  <2>1. n \in GPUs /\ cum(n) = all
    BY TheGPUs
  <2>2. slot * all < slotCount * all
    BY <1>1, <1>2, MoreOfThem
  <2>3. all * slotCount = slotCount * all
    BY <1>1, <1>2
  <2> QED BY <2>1, <2>2, <2>3
<1>4. PICK g \in past : \A k \in past : g <= k
  <2>1. past \subseteq 1..n /\ n \in Nat
    BY TheGPUs
  <2> HIDE DEF past
  <2> QED BY <1>3, <2>1, SmallestOf
<1>5. \A h \in 1..(g - 1) : cum(h) * slotCount <= slot * all
  <2> SUFFICES ASSUME NEW h \in 1..(g - 1) PROVE cum(h) * slotCount <= slot * all
    OBVIOUS
  <2>1. h \in GPUs /\ h < g
    BY TheGPUs
  <2>2. h \notin past
    BY <1>4, <2>1, TheGPUs
  <2>3. cum(h) * slotCount \in Nat /\ slot * all \in Nat
    BY <1>1, <1>2, <2>1
  <2> HIDE DEF cum, all, slotCount
  <2> QED BY <2>1, <2>2, <2>3
<1>6. /\ d \in GPUs /\ cum(d) * slotCount > slot * all
      /\ \A h \in 1..(d - 1) : cum(h) * slotCount <= slot * all
  <2>1. \E x \in GPUs : /\ Total(sp, 1..x) * (NumLayers + 1) > slot * Total(sp, GPUs)
                        /\ \A h \in 1..(x - 1) : Total(sp, 1..h) * (NumLayers + 1) <= slot * Total(sp, GPUs)
    BY <1>4, <1>5
  <2>2. /\ DeviceOf(sp, slot) \in GPUs
        /\ Total(sp, 1..DeviceOf(sp, slot)) * (NumLayers + 1) > slot * Total(sp, GPUs)
        /\ \A h \in 1..(DeviceOf(sp, slot) - 1) :
             Total(sp, 1..h) * (NumLayers + 1) <= slot * Total(sp, GPUs)
    BY <2>1 DEF DeviceOf
  <2> QED BY <2>2
<1> HIDE DEF d
<1>7. ASSUME sp[d] = 0 PROVE FALSE
  <2>1. d \in Nat \ {0} /\ 1..d = 1..(d - 1) \union {d} /\ d \notin 1..(d - 1)
    BY <1>6, TheGPUs
  <2>2. IsFiniteSet(1..(d - 1)) /\ \A h \in 1..(d - 1) \union {d} : sp[h] \in Nat
    <3>1. d - 1 \in Int /\ 1 \in Int
      BY <2>1
    <3>2. \A h \in 1..d : sp[h] \in Nat
      BY <1>6, TheGPUs
    <3> QED BY <2>1, <3>1, <3>2, FS_Interval
  <2>3. cum(d) = cum(d - 1) + 0
    <3> DEFINE below == 1..(d - 1)
    <3>1. IsFiniteSet(below) /\ d \notin below /\ \A h \in below \union {d} : sp[h] \in Nat
      BY <2>1, <2>2
    <3>2. 1..d = below \union {d} /\ cum(d) = Total(sp, 1..d) /\ cum(d - 1) = Total(sp, below)
      BY <2>1
    <3> HIDE DEF below, cum
    <3>3. Total(sp, below \union {d}) = Total(sp, below) + sp[d]
      BY <3>1, TotalWith
    <3> QED BY <1>7, <3>2, <3>3
  <2>4. cum(d - 1) \in Nat
    BY <2>2, TotalIsCounted
  <2>5. CASE d = 1
    <3>1. cum(d - 1) = 0
      <4>1. 1..(d - 1) = {}
        BY <2>5
      <4> QED BY <4>1, TotalOfNone
    <3>2. cum(d) * slotCount = 0 /\ slot * all \in Nat
      BY <1>1, <1>2, <2>3, <3>1
    <3> HIDE DEF cum, all, slotCount
    <3> QED BY <1>6, <3>2
  <2>6. CASE d # 1
    <3>1. d - 1 \in 1..(d - 1) /\ cum(d) = cum(d - 1)
      BY <2>1, <2>3, <2>4, <2>6
    <3>2. cum(d) * slotCount <= slot * all
      BY <1>6, <3>1
    <3>3. cum(d) * slotCount \in Nat /\ slot * all \in Nat
      BY <1>1, <1>2, <1>6
    <3> HIDE DEF cum, all, slotCount
    <3> QED BY <1>6, <3>2, <3>3
  <2> QED BY <2>5, <2>6
<1>8. sp[d] \in Nat
  BY <1>6
<1> QED BY <1>6, <1>7, <1>8 DEF d

\* A quotient is nothing exactly when the dividend is smaller.
LEMMA Quotient ==
  ASSUME NEW a \in Nat, NEW b \in Nat \ {0}
  PROVE  /\ a \div b \in Nat
         /\ a < b => a \div b = 0
         /\ a >= b => a \div b >= 1
<1> DEFINE q == a \div b
<1>1. q \in Nat
  OBVIOUS
<1>2. b * q <= a /\ a < b * q + b
  BY Z3
<1>3. ASSUME q >= 1 PROVE b * q >= b
  <2>1. b * (q - 1) \in Nat /\ b * q = b * (q - 1) + b
    <3>1. q - 1 \in Nat
      BY <1>1, <1>3
    <3>2. b * ((q - 1) + 1) = b * (q - 1) + b
      BY <3>1
    <3>3. (q - 1) + 1 = q
      BY <1>1
    <3> QED BY <3>1, <3>2, <3>3
  <2> QED BY <2>1
<1>4. q = 0 => b * q = 0
  OBVIOUS
<1> HIDE DEF q
<1>5. b * q \in Nat
  BY <1>1
<1>6. (a < b => q = 0) /\ (a >= b => q >= 1)
  BY <1>1, <1>2, <1>3, <1>4, <1>5
<1> QED BY <1>1, <1>6 DEF q

\* The shares of the split are those of the GPUs it is made for, and there is one:
\* of so many GPUs the largest share is not rounded to nothing.
LEMMA SplitIsShared ==
  ASSUME free \in [GPUs -> Nat], bandwidth \in [GPUs -> Nat \ {0}],
         NEW S \in SUBSET GPUs, S # {}, \A g \in S : free[g] > SplitFixedMB
  PROVE  /\ SplitOver(S) \in [GPUs -> Nat]
         /\ Total(SplitOver(S), GPUs) > 0
         /\ \A g \in GPUs \ S : SplitOver(S)[g] = 0
<1> DEFINE weight(g) == IF policy = "capacity" THEN 1 ELSE bandwidth[g]
           shareOf == [g \in GPUs |-> IF g \in S THEN (free[g] - SplitFixedMB) * weight(g) ELSE 0]
           all == Total(shareOf, GPUs)
           percent(g) == (200 * shareOf[g] + all) \div (2 * all)
<1>1. \A g \in GPUs : shareOf[g] \in Nat /\ (g \in S => shareOf[g] > 0) /\ (g \notin S => shareOf[g] = 0)
  <2> SUFFICES ASSUME NEW g \in GPUs, g \in S PROVE shareOf[g] \in Nat \ {0}
    OBVIOUS
  <2>1. weight(g) \in Nat \ {0}
    OBVIOUS
  <2>2. free[g] - SplitFixedMB \in Nat \ {0}
    BY PlacementAssumption
  <2>3. shareOf[g] = (free[g] - SplitFixedMB) * weight(g)
    OBVIOUS
  <2> HIDE DEF shareOf, weight
  <2> QED BY <2>1, <2>2, <2>3, ProductIsPositive
<1>2. SplitOver(S) = [g \in GPUs |-> percent(g)]
  BY DEF SplitOver
<1> HIDE DEF shareOf
<1>3. all \in Nat \ {0}
  <2>1. all \in Nat
    BY <1>1, TheGPUs, TotalIsCounted
  <2>2. PICK g \in S : TRUE
    OBVIOUS
  <2>3. shareOf[g] <= all /\ shareOf[g] > 0 /\ shareOf[g] \in Nat
    BY <1>1, TheGPUs, TotalCovers
  <2> HIDE DEF all
  <2> QED BY <2>1, <2>3
<1>4. ASSUME NEW g \in GPUs
      PROVE  /\ percent(g) \in Nat
             /\ shareOf[g] = 0 => percent(g) = 0
             /\ 200 * shareOf[g] >= all => percent(g) >= 1
  <2> HIDE DEF all
  <2>1. 200 * shareOf[g] + all \in Nat /\ 2 * all \in Nat \ {0}
    BY <1>1, <1>3
  <2>2. shareOf[g] = 0 => 200 * shareOf[g] + all < 2 * all
    BY <1>3
  <2>3. 200 * shareOf[g] >= all => 200 * shareOf[g] + all >= 2 * all
    BY <1>1, <1>3
  <2> QED BY <2>1, <2>2, <2>3, Quotient
<1>5. \E g \in GPUs : 200 * shareOf[g] >= all
  <2> SUFFICES ASSUME \A g \in GPUs : 200 * shareOf[g] < all PROVE FALSE
    <3>1. \A g \in GPUs : 200 * shareOf[g] \in Nat
      BY <1>1
    <3> HIDE DEF all
    <3> QED BY <1>3, <3>1
  <2> DEFINE m == (all - 1) \div 200
             n == Cardinality(GPUs)
  <2>1. m \in Nat /\ 200 * m < all /\ \A g \in GPUs : shareOf[g] \in 0..m
    <3> HIDE DEF all
    <3> QED BY <1>1, <1>3
  <2> HIDE DEF m
  <2>2. all <= n * m
    BY <2>1, TheGPUs, TotalAtMost
  <2>3. n * m <= 200 * m
    <3>1. n \in Nat /\ n <= 200
      BY TheGPUs, PlacementAssumption
    <3> HIDE DEF n
    <3>2. (200 - n) * m \in Nat
      BY <2>1, <3>1
    <3>3. 200 * m = n * m + (200 - n) * m /\ n * m \in Nat
      BY <2>1, <3>1
    <3> QED BY <2>1, <3>2, <3>3
  <2>4. n * m \in Nat
    BY <2>1, TheGPUs
  <2> HIDE DEF all, n
  <2> QED BY <1>3, <2>1, <2>2, <2>3, <2>4
<1>6. SplitOver(S) \in [GPUs -> Nat] /\ \A g \in GPUs : SplitOver(S)[g] = percent(g)
  BY <1>2, <1>4
<1>7. PICK g \in GPUs : percent(g) >= 1
  BY <1>4, <1>5
<1> HIDE DEF percent
<1>8. SplitOver(S)[g] <= Total(SplitOver(S), GPUs)
  BY <1>6, TheGPUs, TotalCovers
<1>9. Total(SplitOver(S), GPUs) \in Nat
  BY <1>6, TheGPUs, TotalIsCounted
<1>10. percent(g) \in Nat
  BY <1>4
<1> QED BY <1>1, <1>4, <1>6, <1>7, <1>8, <1>9, <1>10

\* The GPUs are filled one after the other.
LEMMA Places ==
  ASSUME free \in [GPUs -> Nat], bandwidth \in [GPUs -> Nat \ {0}]
  PROVE  /\ \A g \in GPUs : /\ Before(g) \subseteq GPUs /\ IsFiniteSet(Before(g)) /\ g \notin Before(g)
                            /\ Place(g) \in Nat \ {0}
         /\ \A g, h \in GPUs : h \in Before(g) <=> Place(h) < Place(g)
         /\ \A g, h \in GPUs : Place(h) = Place(g) => h = g
<1>1. \A g \in GPUs : Rank(g) \in Nat /\ g \in Nat
  BY TheGPUs DEF Rank
<1>2. ASSUME NEW g \in GPUs
      PROVE  /\ Before(g) \subseteq GPUs /\ IsFiniteSet(Before(g)) /\ g \notin Before(g)
             /\ Cardinality(Before(g)) \in Nat /\ Place(g) \in Nat \ {0}
  <2>1. Before(g) \subseteq GPUs /\ g \notin Before(g)
    BY <1>1 DEF Before
  <2>2. IsFiniteSet(Before(g)) /\ Cardinality(Before(g)) \in Nat
    BY <2>1, TheGPUs, FS_Subset, FS_CardinalityType
  <2> QED BY <2>1, <2>2 DEF Place
<1>3. ASSUME NEW g \in GPUs, NEW h \in Before(g) PROVE Place(h) < Place(g)
  <2>1. h \in GPUs /\ h \notin Before(h) /\ Before(h) \union {h} \subseteq Before(g)
    BY <1>1, <1>2 DEF Before
  <2>2. IsFiniteSet(Before(h)) /\ Cardinality(Before(h) \union {h}) = Cardinality(Before(h)) + 1
    BY <1>2, <2>1, FS_AddElement
  <2>3. Cardinality(Before(h) \union {h}) <= Cardinality(Before(g))
    BY <1>2, <2>1, FS_Subset
  <2>4. Cardinality(Before(h)) \in Nat /\ Cardinality(Before(g)) \in Nat
    BY <1>2, <2>1
  <2> QED BY <2>2, <2>3, <2>4 DEF Place
<1>4. \A g, h \in GPUs : g = h \/ h \in Before(g) \/ g \in Before(h)
  BY <1>1 DEF Before
<1>5. \A g, h \in GPUs : Place(g) \in Nat /\ Place(h) \in Nat
  BY <1>2
<1> QED BY <1>2, <1>3, <1>4, <1>5

-----------------------------------------------------------------------------
(* Which GPU holds what.                                                    *)

\* A behaviour that shows another part leaves the placement alone.
LEMMA PlacementApart == Next => [PlacementNext]_placementVars
BY DEF Next, PlaceStep, FitStep, DerateStep

\* Whatever a GPU is planned to hold counts with the room that is left in it.
Loads(g) == split[g] > 0 \/ layersPer[g] > 0 \/ room[g] > 0

PlacementTypes ==
  /\ free \in [GPUs -> Nat] /\ bandwidth \in [GPUs -> Nat \ {0}] /\ ram \in Nat
  /\ room \in [GPUs -> Nat] /\ layersPer \in [GPUs -> Nat] /\ split \in [GPUs -> Nat]
  /\ expertOnly \subseteq GPUs /\ used \subseteq {g \in GPUs : free[g] > SplitFixedMB}
  /\ used \intersect expertOnly = {}
  /\ nextLayer \in MoEStart..NumLayers

\* The ranges of the GPUs cover the layers that are packed, up to the next one.
RangesMeet ==
  /\ \A g \in GPUs : Place(g) > turn => layersPer[g] = 0
  /\ nextLayer = MoEStart + Total(layersPer, GPUs)
  /\ UNION {PinnedTo(g) : g \in GPUs} = MoEStart..(nextLayer - 1)

\* What a GPU is planned to hold and the room left in it fit together, and some GPU
\* has a share of the split.
PlanFits ==
  /\ Total(split, GPUs) > 0 /\ RangesMeet
  /\ \A g \in GPUs : Loads(g) => room[g] + LoadedMB(g) <= free[g]

PlacementInv ==
  /\ PlacementTypes
  /\ planStep \in {"classify", "split"} => layersPer = [g \in GPUs |-> 0] /\ nextLayer = MoEStart
  /\ planStep \in {"pack", "planned"} => PlanFits
  /\ HostHolds

\* The layers, and what the experts of each cost.
LEMMA TheLayers ==
  /\ NumLayers \in Nat \ {0} /\ MoEStart \in Nat /\ MoEStart < NumLayers
  /\ IsFiniteSet(Layers) /\ IsFiniteSet(MoELayers) /\ MoELayers \subseteq Layers
  /\ \A l \in MoELayers : RoutedMB[l] \in Nat \ {0} /\ SharedMB[l] \in Nat
                          /\ WholeMB[l] = RoutedMB[l] + SharedMB[l] /\ WholeMB[l] \in Nat
<1>1. NumLayers \in Nat \ {0} /\ MoEStart \in Nat /\ MoEStart < NumLayers /\ NumLayers - 1 \in Int
  BY PlacementAssumption
<1>2. IsFiniteSet(Layers) /\ IsFiniteSet(MoELayers)
  BY <1>1, FS_Interval DEF Layers, MoELayers
<1>3. MoELayers \subseteq Layers
  BY <1>1 DEF Layers, MoELayers
<1>4. \A l \in MoELayers : RoutedMB[l] \in Nat \ {0} /\ SharedMB[l] \in Nat
  BY PlacementAssumption DEF MoELayers
<1>5. \A l \in MoELayers : WholeMB[l] = RoutedMB[l] + SharedMB[l]
  BY DEF WholeMB
<1> QED BY <1>1, <1>2, <1>3, <1>4, <1>5

\* What a GPU holds besides experts.
BaseMB(g) ==
  (IF split[g] > 0 THEN SplitFixedMB ELSE ExpertOnlyFixedMB)
  + Cardinality(Owned(split, g)) * DenseMB + CacheMB(split, g)
  + (IF DeviceOf(split, NumLayers) = g THEN HeadMB ELSE 0)
SharedOf(g) == Total(SharedMB, Owned(split, g) \intersect Unpinned)
ExpertsOf(g) == Total(WholeMB, PinnedTo(g))

\* A GPU that owns no layers has no part of the cache.
LEMMA CacheIsCounted ==
  ASSUME NEW sp, NEW g
  PROVE  /\ CacheMB(sp, g) \in Nat /\ Cardinality(Owned(sp, g)) \in Nat
         /\ Owned(sp, g) \subseteq Layers
         /\ Owned(sp, g) = {} => CacheMB(sp, g) = 0 /\ Cardinality(Owned(sp, g)) = 0
<1>1. Owned(sp, g) \subseteq Layers
  BY DEF Owned
<1>2. Cardinality(Owned(sp, g)) \in Nat
  BY <1>1, TheLayers, FS_Subset, FS_CardinalityType
<1>3. Owned(sp, g) = {} => Cardinality(Owned(sp, g)) = 0
  BY FS_EmptySet
<1>4. CacheMB(sp, g) \in Nat /\ (Cardinality(Owned(sp, g)) = 0 => CacheMB(sp, g) = 0)
  <2> DEFINE n == Cardinality(Owned(sp, g))
             a == KVMB * n + NumLayers - 1
  <2>1. KVMB \in Nat /\ n \in Nat /\ NumLayers \in Nat \ {0}
    BY <1>2, TheLayers, PlacementAssumption
  <2>2. CacheMB(sp, g) = IF onCPU THEN 0 ELSE a \div NumLayers
    BY DEF CacheMB
  <2> HIDE DEF n
  <2>3. KVMB * n \in Nat /\ (n = 0 => KVMB * n = 0)
    BY <2>1
  <2>4. a \in Nat /\ (n = 0 => a < NumLayers)
    BY <2>1, <2>3
  <2> HIDE DEF a
  <2>5. a \div NumLayers \in Nat /\ (n = 0 => a \div NumLayers = 0)
    BY <2>1, <2>4, Quotient
  <2> QED BY <2>2, <2>5 DEF n
<1> QED BY <1>1, <1>2, <1>3, <1>4

\* What is loaded is what a GPU holds in any case, the shared experts of the layers it
\* owns and no range names, and the experts of its range.
LEMMA LoadIsCounted ==
  ASSUME PlacementTypes, NEW g \in GPUs, PinnedTo(g) \subseteq MoELayers
  PROVE  /\ LoadedMB(g) = BaseMB(g) + SharedOf(g) + ExpertsOf(g)
         /\ BaseMB(g) \in Nat /\ SharedOf(g) \in Nat /\ ExpertsOf(g) \in Nat
<1>1. BaseMB(g) \in Nat
  <2>1. CacheMB(split, g) \in Nat /\ Cardinality(Owned(split, g)) \in Nat
    BY CacheIsCounted
  <2>2. /\ SplitFixedMB \in Nat /\ ExpertOnlyFixedMB \in Nat /\ DenseMB \in Nat /\ HeadMB \in Nat
    BY PlacementAssumption
  <2>3. Cardinality(Owned(split, g)) * DenseMB \in Nat
    BY <2>1, <2>2
  <2> QED BY <2>1, <2>2, <2>3 DEF BaseMB
<1>2. SharedOf(g) \in Nat
  <2> DEFINE S == Owned(split, g) \intersect Unpinned
  <2>1. S \subseteq MoELayers
    BY DEF Unpinned
  <2>2. IsFiniteSet(S) /\ \A l \in S : SharedMB[l] \in Nat
    BY <2>1, TheLayers, FS_Subset
  <2> HIDE DEF S
  <2>3. Total(SharedMB, S) \in Nat
    BY <2>2, TotalIsCounted
  <2> QED BY <2>3 DEF S, SharedOf
<1>3. ExpertsOf(g) \in Nat
  <2>1. IsFiniteSet(PinnedTo(g)) /\ \A l \in PinnedTo(g) : WholeMB[l] \in Nat
    BY TheLayers, FS_Subset
  <2> QED BY <2>1, TotalIsCounted DEF ExpertsOf
<1>4. LoadedMB(g) = BaseMB(g) + SharedOf(g) + ExpertsOf(g)
  BY DEF LoadedMB, BaseMB, SharedOf, ExpertsOf
<1> QED BY <1>1, <1>2, <1>3, <1>4

\* One more layer on the GPU whose turn it is lengthens its range, and no other.
LEMMA RangeGrows ==
  ASSUME PlacementTypes, RangesMeet, NEW g \in GPUs, Place(g) = turn, nextLayer < NumLayers,
         layersPer' = [layersPer EXCEPT ![g] = @ + 1], nextLayer' = nextLayer + 1,
         UNCHANGED <<gpuVars, split, turn>>
  PROVE  /\ RangesMeet'
         /\ PinnedTo(g)' = PinnedTo(g) \union {nextLayer}
         /\ \A h \in GPUs \ {g} : PinnedTo(h)' = PinnedTo(h)
         /\ Unpinned' = Unpinned \ {nextLayer}
         /\ nextLayer \in Unpinned /\ nextLayer \in MoELayers
<1> USE DEF PlacementTypes
<1>1. /\ \A h \in GPUs : Before(h)' = Before(h) /\ Place(h)' = Place(h)
      /\ turn' = turn
  BY DEF gpuVars, Before, Place, Rank
<1>2. /\ \A h \in GPUs : Before(h) \subseteq GPUs /\ IsFiniteSet(Before(h)) /\ h \notin Before(h) /\ Place(h) \in Nat \ {0}
      /\ \A h, k \in GPUs : k \in Before(h) <=> Place(k) < Place(h)
      /\ \A h, k \in GPUs : Place(k) = Place(h) => k = h
  BY Places
<1>3. /\ \A h \in GPUs : layersPer[h] \in Nat /\ layersPer'[h] \in Nat
      /\ layersPer'[g] = layersPer[g] + 1
      /\ \A h \in GPUs \ {g} : layersPer'[h] = layersPer[h]
  OBVIOUS
<1>4. MoEStart \in Nat /\ nextLayer \in Nat /\ NumLayers \in Nat /\ MoEStart <= nextLayer
  BY TheLayers
<1>5. \A h \in GPUs : Total(layersPer, Before(h)) \in Nat
  BY <1>2, <1>3, TotalIsCounted
<1>6. nextLayer = Range0(g) + layersPer[g]
  <2> DEFINE first == Before(g) \union {g}
  <2>1. ASSUME NEW h \in GPUs \ first PROVE layersPer[h] = 0
    <3>1. h \notin Before(g) /\ h # g
      OBVIOUS
    <3>2. Place(h) \in Nat /\ Place(g) \in Nat /\ ~(Place(h) < Place(g)) /\ Place(h) # Place(g)
      BY <1>2, <3>1
    <3>3. Place(h) > turn
      BY <3>2
    <3>4. \A k \in GPUs : Place(k) > turn => layersPer[k] = 0
      BY DEF RangesMeet
    <3> QED BY <3>3, <3>4
  <2>2. first \subseteq GPUs
    BY <1>2
  <2>3. Total(layersPer, first) = Total(layersPer, Before(g)) + layersPer[g]
    BY <1>2, <1>3, TotalWith
  <2> HIDE DEF first
  <2>4. Total(layersPer, GPUs) = Total(layersPer, first)
    BY <1>3, <2>1, <2>2, TotalWithout
  <2> QED BY <1>3, <1>4, <1>5, <2>3, <2>4 DEF RangesMeet, Range0
<1>7. Total(layersPer', GPUs) = Total(layersPer, GPUs) + 1
  <2> DEFINE rest == GPUs \ {g}
  <2>1. IsFiniteSet(rest) /\ g \notin rest /\ rest \union {g} = GPUs
    BY TheGPUs, FS_RemoveElement
  <2>6. \A h \in rest : layersPer'[h] = layersPer[h]
    BY <1>3
  <2>7. /\ \A h \in rest \union {g} : layersPer[h] \in Nat
        /\ \A h \in rest \union {g} : layersPer'[h] \in Nat
    BY <1>3, <2>1
  <2> HIDE DEF rest
  <2>2. Total(layersPer, GPUs) = Total(layersPer, rest) + layersPer[g]
    BY <1>3, <2>1, TotalWith
  <2>3. Total(layersPer', GPUs) = Total(layersPer', rest) + layersPer'[g]
    <3>1. PICK after : after = layersPer'
      OBVIOUS
    <3>2. \A h \in rest \union {g} : after[h] \in Nat
      BY <2>7, <3>1
    <3>3. Total(after, rest \union {g}) = Total(after, rest) + after[g]
      BY <2>1, <3>2, TotalWith
    <3> QED BY <2>1, <3>1, <3>3
  <2>4. Total(layersPer', rest) = Total(layersPer, rest)
    BY <2>6, TotalSame
  <2>5. Total(layersPer, rest) \in Nat
    BY <2>1, <2>7, TotalIsCounted
  <2> QED BY <1>3, <2>2, <2>3, <2>4, <2>5
<1>8. \A h \in GPUs : g \notin Before(h) => Range0(h)' = Range0(h)
  <2> SUFFICES ASSUME NEW h \in GPUs, g \notin Before(h) PROVE Range0(h)' = Range0(h)
    OBVIOUS
  <2>1. \A k \in Before(h) : layersPer'[k] = layersPer[k]
    BY <1>2, <1>3
  <2>2. Total(layersPer', Before(h)) = Total(layersPer, Before(h))
    BY <2>1, TotalSame
  <2>3. Before(h)' = Before(h)
    BY <1>1
  <2> QED BY <2>2, <2>3 DEF Range0
<1>9. \A h \in GPUs \ {g} : PinnedTo(h)' = PinnedTo(h)
  <2> SUFFICES ASSUME NEW h \in GPUs \ {g} PROVE PinnedTo(h)' = PinnedTo(h)
    OBVIOUS
  <2>1. CASE g \notin Before(h)
    BY <1>3, <1>8, <2>1 DEF PinnedTo
  <2>2. CASE g \in Before(h)
    <3>1. layersPer[h] = 0 /\ layersPer'[h] = 0
      BY <1>2, <1>3, <2>2 DEF RangesMeet
    <3>2. Total(layersPer, Before(h)) \in Nat /\ Total(layersPer', Before(h)) \in Nat
      BY <1>2, <1>3, TotalIsCounted
    <3>3. Range0(h) \in Nat /\ Range0(h)' \in Nat
      BY <1>1, <1>4, <3>2 DEF Range0
    <3>4. PinnedTo(h) = {} /\ PinnedTo(h)' = {}
      BY <3>1, <3>3 DEF PinnedTo
    <3> QED BY <3>4
  <2> QED BY <2>1, <2>2
<1>10. PinnedTo(g)' = PinnedTo(g) \union {nextLayer}
  <2>1. Range0(g)' = Range0(g) /\ Range0(g) \in Nat
    <3>1. Range0(g)' = Range0(g)
      BY <1>2, <1>8
    <3>2. Range0(g) \in Nat
      BY <1>4, <1>5 DEF Range0
    <3> QED BY <3>1, <3>2
  <2> QED BY <1>3, <1>6, <2>1 DEF PinnedTo
<1>11. UNION {PinnedTo(h)' : h \in GPUs} = (UNION {PinnedTo(h) : h \in GPUs}) \union {nextLayer}
  BY <1>9, <1>10
<1>12. RangesMeet'
  <2>1. \A h \in GPUs : Place(h) > turn => layersPer'[h] = 0
    BY <1>2, <1>3 DEF RangesMeet
  <2>2. nextLayer' = MoEStart + Total(layersPer', GPUs)
    <3>1. Total(layersPer, GPUs) \in Nat
      BY <1>3, TheGPUs, TotalIsCounted
    <3> QED BY <1>4, <1>7, <3>1 DEF RangesMeet
  <2>3. UNION {PinnedTo(h)' : h \in GPUs} = MoEStart..(nextLayer' - 1)
    <3>1. (MoEStart..(nextLayer - 1)) \union {nextLayer} = MoEStart..(nextLayer' - 1)
      BY <1>4
    <3> QED BY <1>11, <3>1 DEF RangesMeet
  <2> QED BY <1>1, <2>1, <2>2, <2>3 DEF RangesMeet
<1>13. Unpinned' = Unpinned \ {nextLayer}
  BY <1>11 DEF Unpinned
<1>14. nextLayer \in MoELayers /\ nextLayer \in Unpinned
  <2>1. nextLayer \notin MoEStart..(nextLayer - 1) /\ nextLayer \in MoELayers
    BY <1>4, TheLayers DEF MoELayers
  <2> QED BY <2>1 DEF Unpinned, RangesMeet
<1> QED BY <1>9, <1>10, <1>12, <1>13, <1>14

\* The ranges name layers with experts only, and none after the next.
LEMMA RangesAreOfLayers ==
  ASSUME PlacementTypes, RangesMeet
  PROVE  \A g \in GPUs : PinnedTo(g) \subseteq MoEStart..(nextLayer - 1) /\ PinnedTo(g) \subseteq MoELayers
<1>1. \A g \in GPUs : PinnedTo(g) \subseteq MoEStart..(nextLayer - 1)
  BY DEF RangesMeet
<1>2. MoEStart..(nextLayer - 1) \subseteq MoELayers
  BY TheLayers DEF PlacementTypes, MoELayers
<1> QED BY <1>1, <1>2

\* The layer that a GPU takes is paid for with its room, and what another one owned
\* of the layer goes back into the room of that.
LEMMA PackingFits ==
  ASSUME PlacementInv, planStep = "pack", PackLayer
  PROVE  PlacementTypes' /\ PlanFits'
<1> DEFINE l == nextLayer
           o == DeviceOf(split, l)
<1>1. /\ PlacementTypes /\ RangesMeet /\ Total(split, GPUs) > 0
      /\ \A g \in GPUs : Loads(g) => room[g] + LoadedMB(g) <= free[g]
  BY DEF PlacementInv, PlanFits
<1>2. PICK g \in GPUs : Place(g) = turn /\ Takes(g) /\ Pack(g)
  BY DEF PackLayer
<1>3. UNCHANGED <<gpuVars, planStep, roleVars, turn, hostVars>>
  BY DEF PackLayer
<1>4. l < NumLayers
  BY <1>2 DEF Takes
<1> DEFINE charge == IF o = g THEN RoutedMB[l] ELSE WholeMB[l]
<1>5. /\ charge <= room[g]
      /\ room' = IF o = g THEN [room EXCEPT ![g] = @ - charge]
                 ELSE [room EXCEPT ![g] = @ - charge, ![o] = @ + SharedMB[l]]
      /\ layersPer' = [layersPer EXCEPT ![g] = @ + 1] /\ nextLayer' = l + 1
  BY <1>2 DEF Pack
<1>6. /\ RangesMeet'
      /\ PinnedTo(g)' = PinnedTo(g) \union {l}
      /\ \A h \in GPUs \ {g} : PinnedTo(h)' = PinnedTo(h)
      /\ Unpinned' = Unpinned \ {l}
      /\ l \in Unpinned /\ l \in MoELayers
  <2>1. UNCHANGED <<gpuVars, split, turn>>
    BY <1>3 DEF roleVars
  <2> QED BY <1>1, <1>2, <1>4, <1>5, <2>1, RangeGrows
<1>7. o \in GPUs /\ split[o] > 0
  <2>1. l \in 0..NumLayers /\ split \in [GPUs -> Nat]
    BY <1>1, <1>4, TheLayers DEF PlacementTypes
  <2> QED BY <1>1, <2>1, EverySlotHasADevice
<1>8. /\ RoutedMB[l] \in Nat \ {0} /\ SharedMB[l] \in Nat /\ WholeMB[l] = RoutedMB[l] + SharedMB[l]
      /\ l \in Layers /\ l \in Nat
  BY <1>1, <1>6, TheLayers DEF PlacementTypes, MoELayers
<1> HIDE DEF l
<1>9. /\ o = g => room'[g] = room[g] - RoutedMB[l] /\ RoutedMB[l] <= room[g]
      /\ o # g => /\ room'[g] = room[g] - WholeMB[l] /\ WholeMB[l] <= room[g]
                  /\ room'[o] = room[o] + SharedMB[l]
      /\ \A h \in GPUs \ {g, o} : room'[h] = room[h]
      /\ room \in [GPUs -> Nat] /\ room' \in [GPUs -> Nat]
  <2>1. room \in [GPUs -> Nat]
    BY <1>1 DEF PlacementTypes
  <2> HIDE DEF o
  <2>2. charge \in Nat /\ room[g] - charge \in Nat
    BY <1>5, <1>8, <2>1
  <2>3. CASE o = g
    BY <1>5, <2>1, <2>2, <2>3
  <2>4. CASE o # g
    <3>1. room' = [room EXCEPT ![g] = @ - charge, ![o] = @ + SharedMB[l]]
      BY <1>5, <2>4
    <3>2. room[o] + SharedMB[l] \in Nat
      BY <1>7, <1>8, <2>1
    <3>3. charge = WholeMB[l]
      BY <2>4
    <3> HIDE DEF charge
    <3> QED BY <1>5, <1>7, <2>1, <2>2, <2>4, <3>1, <3>2, <3>3
  <2> QED BY <2>3, <2>4
<1>10. PlacementTypes'
  <2>1. nextLayer' \in MoEStart..NumLayers
    BY <1>1, <1>4, <1>5, TheLayers DEF PlacementTypes, l
  <2>2. layersPer' \in [GPUs -> Nat]
    BY <1>1, <1>5 DEF PlacementTypes
  <2> QED BY <1>1, <1>3, <1>9, <2>1, <2>2 DEF PlacementTypes, gpuVars, roleVars, hostVars
<1>11. \A h \in GPUs : Loads(h)' => Loads(h)
  <2> SUFFICES ASSUME NEW h \in GPUs, Loads(h)' PROVE Loads(h)
    OBVIOUS
  <2>1. split'[h] = split[h] /\ (h # g => layersPer'[h] = layersPer[h])
    BY <1>1, <1>3, <1>5 DEF roleVars, PlacementTypes
  <2>2. CASE h = g
    BY <1>8, <1>9, <2>2 DEF Loads
  <2>3. CASE h = o
    BY <1>7, <2>3 DEF Loads
  <2>4. CASE h \notin {g, o}
    BY <1>9, <2>1, <2>4 DEF Loads
  <2> QED BY <2>2, <2>3, <2>4
<1>12. ASSUME NEW h \in GPUs
       PROVE  /\ LoadedMB(h) = BaseMB(h) + SharedOf(h) + ExpertsOf(h)
              /\ BaseMB(h) \in Nat /\ SharedOf(h) \in Nat /\ ExpertsOf(h) \in Nat
              /\ LoadedMB(h)' = BaseMB(h) + SharedOf(h)' + ExpertsOf(h)'
  <2>1. PinnedTo(h) \subseteq MoELayers
    BY <1>1, RangesAreOfLayers
  <2>2. LoadedMB(h) = BaseMB(h) + SharedOf(h) + ExpertsOf(h) /\ BaseMB(h) \in Nat /\ SharedOf(h) \in Nat /\ ExpertsOf(h) \in Nat
    BY <1>1, <2>1, LoadIsCounted
  <2>3. LoadedMB(h)' = BaseMB(h)' + SharedOf(h)' + ExpertsOf(h)'
    BY DEF LoadedMB, BaseMB, SharedOf, ExpertsOf
  <2>4. BaseMB(h)' = BaseMB(h)
    BY <1>3 DEF BaseMB, CacheMB, Owned, gpuVars, roleVars
  <2> QED BY <2>2, <2>3, <2>4
<1>13. ASSUME NEW h \in GPUs
       PROVE  /\ SharedOf(h)' \in Nat
              /\ SharedOf(h) = SharedOf(h)' + (IF h = o THEN SharedMB[l] ELSE 0)
  <2> DEFINE owned == Owned(split, h)
             T == owned \intersect (Unpinned \ {l})
  <2>1. SharedOf(h) = Total(SharedMB, owned \intersect Unpinned) /\ SharedOf(h)' = Total(SharedMB, T)
    <3>1. split' = split
      BY <1>3 DEF roleVars
    <3>2. Owned(split, h)' = Owned(split, h)
      BY <3>1 DEF Owned
    <3> QED BY <1>6, <3>2 DEF SharedOf
  <2>2. l \in owned <=> h = o
    BY <1>8 DEF Owned, l
  <2>3. IsFiniteSet(T) /\ \A x \in T \union {l} : SharedMB[x] \in Nat
    <3>1. T \subseteq MoELayers
      BY DEF Unpinned
    <3> HIDE DEF T
    <3> QED BY <1>6, <3>1, TheLayers, FS_Subset
  <2>4. Total(SharedMB, T) \in Nat
    BY <2>3, TotalIsCounted
  <2>5. CASE h = o
    <3>1. owned \intersect Unpinned = T \union {l} /\ l \notin T
      BY <1>6, <2>2, <2>5
    <3> HIDE DEF T
    <3>2. Total(SharedMB, T \union {l}) = Total(SharedMB, T) + SharedMB[l]
      BY <2>3, <3>1, TotalWith
    <3> QED BY <2>1, <2>4, <2>5, <3>1, <3>2
  <2>6. CASE h # o
    <3>1. owned \intersect Unpinned = T
      BY <2>2, <2>6
    <3>2. SharedOf(h) = Total(SharedMB, T)
      BY <2>1, <3>1
    <3> HIDE DEF T, o
    <3> QED BY <2>1, <2>4, <2>6, <3>2
  <2> QED BY <2>5, <2>6
<1>14. /\ ExpertsOf(g)' = ExpertsOf(g) + WholeMB[l]
       /\ \A h \in GPUs \ {g} : ExpertsOf(h)' = ExpertsOf(h)
  <2>1. ExpertsOf(g) = Total(WholeMB, PinnedTo(g)) /\ ExpertsOf(g)' = Total(WholeMB, PinnedTo(g) \union {l})
    BY <1>6 DEF ExpertsOf
  <2>2. PinnedTo(g) \subseteq MoELayers /\ l \notin PinnedTo(g)
    <3>1. PinnedTo(g) \subseteq MoEStart..(l - 1) /\ PinnedTo(g) \subseteq MoELayers
      BY <1>1, RangesAreOfLayers DEF l
    <3> QED BY <1>8, <3>1
  <2>3. IsFiniteSet(PinnedTo(g)) /\ \A x \in PinnedTo(g) \union {l} : WholeMB[x] \in Nat
    BY <1>6, <2>2, TheLayers, FS_Subset
  <2>4. Total(WholeMB, PinnedTo(g) \union {l}) = Total(WholeMB, PinnedTo(g)) + WholeMB[l]
    BY <2>2, <2>3, TotalWith
  <2>5. ASSUME NEW h \in GPUs \ {g} PROVE ExpertsOf(h)' = ExpertsOf(h)
    BY <1>6 DEF ExpertsOf
  <2> QED BY <2>1, <2>4, <2>5
<1>15. ASSUME NEW h \in GPUs, Loads(h)' PROVE room'[h] + LoadedMB(h)' <= free'[h]
  <2>1. room[h] + LoadedMB(h) <= free[h] /\ free' = free /\ free[h] \in Nat /\ room[h] \in Nat /\ room'[h] \in Nat
    BY <1>1, <1>3, <1>9, <1>11, <1>15 DEF gpuVars, PlacementTypes
  <2> HIDE DEF o
  <2>2. CASE h = g /\ h = o
    BY <1>8, <1>9, <1>12, <1>13, <1>14, <2>1, <2>2
  <2>3. CASE h = g /\ h # o
    BY <1>8, <1>9, <1>12, <1>13, <1>14, <2>1, <2>3
  <2>4. CASE h # g /\ h = o
    BY <1>8, <1>9, <1>12, <1>13, <1>14, <2>1, <2>4
  <2>5. CASE h # g /\ h # o
    BY <1>9, <1>12, <1>13, <1>14, <2>1, <2>5
  <2> QED BY <2>2, <2>3, <2>4, <2>5
<1> QED BY <1>1, <1>3, <1>6, <1>10, <1>15 DEF PlanFits, roleVars

\* Before the first layer is packed, every range is empty.
LEMMA NoRangesYet ==
  ASSUME PlacementTypes, layersPer = [g \in GPUs |-> 0], nextLayer = MoEStart
  PROVE  RangesMeet /\ Unpinned = MoELayers /\ \A g \in GPUs : PinnedTo(g) = {}
<1>1. \A S \in SUBSET GPUs : Total(layersPer, S) = 0
  <2> SUFFICES ASSUME NEW S \in SUBSET GPUs PROVE Total(layersPer, S) = 0
    OBVIOUS
  <2>1. \A x \in S : layersPer[x] = 0
    OBVIOUS
  <2>2. Total(layersPer, S) = Total(layersPer, {})
    BY <2>1, TotalWithout
  <2> QED BY <2>2, TotalOfNone
<1>2. MoEStart \in Nat
  BY TheLayers
<1>3. ASSUME NEW g \in GPUs PROVE PinnedTo(g) = {}
  <2>1. Before(g) \subseteq GPUs
    BY DEF Before
  <2>2. Range0(g) = MoEStart /\ layersPer[g] = 0
    BY <1>1, <1>2, <2>1 DEF Range0
  <2> QED BY <1>2, <2>2 DEF PinnedTo
<1>4. UNION {PinnedTo(g) : g \in GPUs} = {}
  BY <1>3
<1>5. MoEStart..(nextLayer - 1) = {}
  BY <1>2
<1>6. nextLayer = MoEStart + Total(layersPer, GPUs)
  BY <1>1, <1>2
<1>7. \A g \in GPUs : layersPer[g] = 0
  OBVIOUS
<1> QED BY <1>3, <1>4, <1>5, <1>6, <1>7 DEF RangesMeet, Unpinned

\* A GPU without a share of the split owns nothing.
LEMMA OwnsNothing ==
  ASSUME NEW sp \in [GPUs -> Nat], Total(sp, GPUs) > 0, NEW g \in GPUs, sp[g] = 0
  PROVE  Owned(sp, g) = {} /\ DeviceOf(sp, NumLayers) # g
<1>1. \A slot \in 0..NumLayers : sp[DeviceOf(sp, slot)] > 0
  BY EverySlotHasADevice
<1>2. NumLayers \in 0..NumLayers /\ Layers \subseteq 0..NumLayers
  BY TheLayers DEF Layers
<1>3. \A slot \in 0..NumLayers : DeviceOf(sp, slot) # g
  BY <1>1
<1> QED BY <1>2, <1>3 DEF Owned

\* What an owner needs for its layers is a number of MiB.
LEMMA NonExpertIsCounted ==
  ASSUME NEW sp, NEW g
  PROVE  /\ NonExpertMB(sp, g) \in Nat /\ Total(SharedMB, Owned(sp, g) \intersect MoELayers) \in Nat
         /\ Cardinality(Owned(sp, g)) * DenseMB \in Nat
<1> DEFINE S == Owned(sp, g) \intersect MoELayers
           n == Cardinality(Owned(sp, g))
<1>1. IsFiniteSet(S) /\ \A l \in S : SharedMB[l] \in Nat
  BY TheLayers, FS_Subset
<1>2. n \in Nat
  BY CacheIsCounted
<1>3. DenseMB \in Nat /\ HeadMB \in Nat
  BY PlacementAssumption
<1>4. NonExpertMB(sp, g) = n * DenseMB + Total(SharedMB, S) + (IF DeviceOf(sp, NumLayers) = g THEN HeadMB ELSE 0)
  BY DEF NonExpertMB
<1> HIDE DEF S, n
<1>5. Total(SharedMB, S) \in Nat
  BY <1>1, TotalIsCounted
<1>6. n * DenseMB \in Nat
  BY <1>2, <1>3
<1> QED BY <1>3, <1>4, <1>5, <1>6 DEF S, n

\* The room of each GPU is what is left beside the layers that it owns.
LEMMA SettlingFits ==
  ASSUME PlacementInv, Settle
  PROVE  PlacementTypes' /\ PlanFits'
<1>1. /\ PlacementTypes /\ layersPer = [g \in GPUs |-> 0] /\ nextLayer = MoEStart
      /\ used # {} /\ split' = SplitOver(used) /\ Overfull(split', used) = {}
      /\ UNCHANGED <<gpuVars, used, turn, nextLayer, layersPer, hostVars>>
  BY DEF PlacementInv, Settle
<1>2. /\ split' \in [GPUs -> Nat] /\ Total(split', GPUs) > 0
      /\ \A g \in GPUs \ used : split'[g] = 0
  <2>1. /\ free \in [GPUs -> Nat] /\ bandwidth \in [GPUs -> Nat \ {0}]
        /\ used \in SUBSET GPUs /\ \A g \in used : free[g] > SplitFixedMB
    BY <1>1 DEF PlacementTypes
  <2> QED BY <1>1, <2>1, SplitIsShared
<1> DEFINE fixed(g) == SplitFixedMB + NonExpertMB(split', g) + CacheMB(split', g)
<1>3. /\ expertOnly' \subseteq GPUs \ used
      /\ room' = [g \in GPUs |-> IF g \in expertOnly' THEN Less(free[g], ExpertOnlyFixedMB)
                                 ELSE IF split'[g] > 0 THEN Less(free[g], fixed(g)) ELSE 0]
  BY <1>1 DEF Settle, PlacementTypes
<1>4. SplitFixedMB \in Nat /\ ExpertOnlyFixedMB \in Nat /\ HeadMB \in Nat
  BY PlacementAssumption
<1>5. \A g \in GPUs : fixed(g) \in Nat /\ NonExpertMB(split', g) \in Nat /\ CacheMB(split', g) \in Nat /\ free[g] \in Nat
  <2> SUFFICES ASSUME NEW g \in GPUs
               PROVE  fixed(g) \in Nat /\ NonExpertMB(split', g) \in Nat /\ CacheMB(split', g) \in Nat /\ free[g] \in Nat
    OBVIOUS
  <2>1. NonExpertMB(split', g) \in Nat
    BY NonExpertIsCounted
  <2>2. CacheMB(split', g) \in Nat
    BY CacheIsCounted
  <2>3. free[g] \in Nat
    BY <1>1 DEF PlacementTypes
  <2> QED BY <1>4, <2>1, <2>2, <2>3
<1> HIDE DEF fixed
<1>6. \A g \in GPUs : Less(free[g], fixed(g)) \in Nat /\ Less(free[g], ExpertOnlyFixedMB) \in Nat
  BY <1>4, <1>5 DEF Less
<1>7. PlacementTypes'
  <2>1. room' \in [GPUs -> Nat]
    BY <1>3, <1>6
  <2> QED BY <1>1, <1>2, <1>3, <2>1 DEF PlacementTypes, gpuVars, hostVars
<1>8. RangesMeet' /\ Unpinned' = MoELayers /\ \A g \in GPUs : PinnedTo(g)' = {}
  <2>1. RangesMeet /\ Unpinned = MoELayers /\ \A g \in GPUs : PinnedTo(g) = {}
    BY <1>1, NoRangesYet
  <2>2. \A g \in GPUs : PinnedTo(g)' = PinnedTo(g) /\ Place(g)' = Place(g)
    BY <1>1 DEF PinnedTo, Range0, Place, Before, Rank, gpuVars
  <2>3. Unpinned' = Unpinned
    BY <2>2 DEF Unpinned
  <2>4. RangesMeet'
    BY <1>1, <2>1, <2>2 DEF RangesMeet
  <2> QED BY <2>1, <2>2, <2>3, <2>4
<1>9. ASSUME NEW g \in GPUs
      PROVE  LoadedMB(g)' = (IF split'[g] > 0 THEN SplitFixedMB ELSE ExpertOnlyFixedMB)
               + Cardinality(Owned(split', g)) * DenseMB + CacheMB(split', g)
               + (IF DeviceOf(split', NumLayers) = g THEN HeadMB ELSE 0)
               + Total(SharedMB, Owned(split', g) \intersect MoELayers)
  <2>1. Total(WholeMB, PinnedTo(g)') = 0
    BY <1>8, TotalOfNone
  <2>2. CacheMB(split, g)' = CacheMB(split', g) /\ Owned(split, g)' = Owned(split', g)
    BY <1>1 DEF CacheMB, gpuVars, Owned
  <2>3. LoadedMB(g)' = (IF split'[g] > 0 THEN SplitFixedMB ELSE ExpertOnlyFixedMB)
               + Cardinality(Owned(split', g)) * DenseMB + CacheMB(split', g)
               + (IF DeviceOf(split', NumLayers) = g THEN HeadMB ELSE 0)
               + Total(SharedMB, Owned(split', g) \intersect MoELayers) + 0
    BY <1>8, <2>1, <2>2 DEF LoadedMB
  <2> QED BY <1>4, <1>5, <2>3, NonExpertIsCounted
<1>10. ASSUME NEW g \in GPUs, Loads(g)' PROVE room'[g] + LoadedMB(g)' <= free'[g]
  <2>1. free'[g] = free[g] /\ layersPer'[g] = 0
    BY <1>1 DEF gpuVars
  <2>2. CASE g \in expertOnly'
    <3>1. split'[g] = 0
      BY <1>2, <1>3, <2>2
    <3>2. Owned(split', g) = {} /\ DeviceOf(split', NumLayers) # g
      BY <1>2, <3>1, OwnsNothing
    <3>3. CacheMB(split', g) = 0 /\ Cardinality(Owned(split', g)) = 0
      BY <3>2, CacheIsCounted
    <3>4. Total(SharedMB, Owned(split', g) \intersect MoELayers) = 0
      BY <3>2, TotalOfNone
    <3>5. DenseMB \in Nat
      BY PlacementAssumption
    <3>6. LoadedMB(g)' = ExpertOnlyFixedMB
      BY <1>4, <1>9, <3>1, <3>2, <3>3, <3>4, <3>5
    <3>7. room'[g] = Less(free[g], ExpertOnlyFixedMB) /\ room'[g] > 0
      BY <1>3, <1>10, <2>1, <2>2, <3>1 DEF Loads
    <3> QED BY <1>4, <1>5, <2>1, <3>6, <3>7 DEF Less
  <2>3. CASE g \notin expertOnly'
    <3>1. split'[g] > 0
      BY <1>2, <1>3, <1>10, <2>1, <2>3 DEF Loads
    <3>2. g \in used /\ room'[g] = Less(free[g], fixed(g))
      BY <1>2, <1>3, <2>3, <3>1
    <3>3. fixed(g) <= free[g]
      <4>1. ~(fixed(g) > free[g])
        BY <1>1, <3>2 DEF Overfull, fixed
      <4> QED BY <1>5, <4>1
    <3>4. LoadedMB(g)' = fixed(g)
      BY <1>4, <1>5, <1>9, <3>1, NonExpertIsCounted DEF fixed, NonExpertMB
    <3> QED BY <1>5, <2>1, <3>2, <3>3, <3>4 DEF Less
  <2> QED BY <2>2, <2>3
<1> QED BY <1>2, <1>7, <1>8, <1>10 DEF PlanFits

\* What is planned depends on the packing and the split only.
LEMMA PlanKept ==
  ASSUME UNCHANGED <<gpuVars, split, room, nextLayer, layersPer>>, turn' = turn
  PROVE  PlanFits => PlanFits'
<1>1. \A g \in GPUs : Place(g)' = Place(g) /\ PinnedTo(g)' = PinnedTo(g)
  BY DEF gpuVars, PinnedTo, Range0, Place, Before, Rank
<1>2. Unpinned' = Unpinned
  BY <1>1 DEF Unpinned
<1>3. \A g \in GPUs : LoadedMB(g)' = LoadedMB(g) /\ Loads(g)' = Loads(g)
  BY <1>1, <1>2 DEF gpuVars, LoadedMB, Owned, CacheMB, Loads
<1>4. RangesMeet' = RangesMeet
  BY <1>1 DEF RangesMeet
<1> QED BY <1>3, <1>4 DEF PlanFits, gpuVars

\* Going on to the next GPU changes no range.
LEMMA NextGPUFits ==
  ASSUME PlacementTypes, PlanFits, NextGPU
  PROVE  PlanFits'
<1>1. PICK g \in GPUs : Place(g) = turn
  BY DEF NextGPU
<1>2. turn' = turn + 1 /\ UNCHANGED <<gpuVars, split, room, nextLayer, layersPer>>
  BY DEF NextGPU, roleVars
<1>3. \A h \in GPUs : Place(h) \in Nat
  BY Places DEF PlacementTypes
<1>4. \A h \in GPUs : Place(h)' = Place(h) /\ PinnedTo(h)' = PinnedTo(h)
  BY <1>2 DEF gpuVars, PinnedTo, Range0, Place, Before, Rank
<1>5. Unpinned' = Unpinned
  BY <1>4 DEF Unpinned
<1>6. \A h \in GPUs : LoadedMB(h)' = LoadedMB(h) /\ Loads(h)' = Loads(h)
  BY <1>2, <1>4, <1>5 DEF gpuVars, LoadedMB, Owned, CacheMB, Loads
<1>7. RangesMeet'
  <2>1. ASSUME NEW h \in GPUs, Place(h)' > turn' PROVE layersPer'[h] = 0
    <3>1. Place(h) > turn
      BY <1>1, <1>2, <1>3, <1>4, <2>1
    <3> QED BY <1>2, <3>1 DEF PlanFits, RangesMeet
  <2>2. /\ nextLayer' = MoEStart + Total(layersPer', GPUs)
        /\ UNION {PinnedTo(h)' : h \in GPUs} = MoEStart..(nextLayer' - 1)
    BY <1>2, <1>4 DEF PlanFits, RangesMeet
  <2> QED BY <2>1, <2>2 DEF RangesMeet
<1> QED BY <1>2, <1>6, <1>7 DEF PlanFits, gpuVars

\* What no range names is counted against the host.
LEMMA PlanHolds ==
  ASSUME PlacementTypes, PlanFits, Plan
  PROVE  HostHolds'
<1>1. /\ NumLayers \in Nat /\ MoEStart \in Nat /\ nextLayer \in MoEStart..NumLayers
  BY TheLayers DEF PlacementTypes
<1>2. Unpinned' = nextLayer..(NumLayers - 1)
  <2>1. UNCHANGED <<gpuVars, layersPer, nextLayer>>
    BY DEF Plan, packVars
  <2>2. \A g \in GPUs : PinnedTo(g)' = PinnedTo(g)
    BY <2>1 DEF gpuVars, PinnedTo, Range0, Before, Rank
  <2>3. Unpinned' = MoELayers \ (MoEStart..(nextLayer - 1))
    BY <2>2 DEF Unpinned, PlanFits, RangesMeet
  <2> QED BY <1>1, <2>3 DEF MoELayers
<1> SUFFICES ASSUME Unpinned' # {}
             PROVE  (IF noMMap' \/ ~fileBacked' \/ ~mmap' THEN Total(RoutedMB, Unpinned') ELSE 0)
                      + PinnedHostMB' + (IF mmapRequired' THEN CheckpointMB ELSE 0) <= ram'
  BY DEF HostHolds
<1>3. nextLayer < NumLayers
  BY <1>1, <1>2
<1>4. Total(RoutedMB, Unpinned') = HostExpertsMB /\ HostExpertsMB \in Nat \ {0}
  <2> DEFINE S == nextLayer..(NumLayers - 1)
  <2>1. nextLayer \in S /\ IsFiniteSet(S) /\ \A l \in S : RoutedMB[l] \in Nat \ {0}
    <3>1. S \subseteq MoELayers /\ nextLayer \in S
      BY <1>1, <1>3 DEF MoELayers
    <3> HIDE DEF S
    <3> QED BY <3>1, TheLayers, FS_Subset
  <2> HIDE DEF S
  <2>2. Total(RoutedMB, S) \in Nat /\ RoutedMB[nextLayer] <= Total(RoutedMB, S)
    BY <2>1, TotalIsCounted, TotalCovers
  <2>3. Total(RoutedMB, S) \in Nat \ {0}
    BY <2>1, <2>2
  <2> QED BY <1>2, <2>3 DEF S, HostExpertsMB
<1>5. PinnedHostMB \in Nat /\ PinnedHostMB' = PinnedHostMB /\ CheckpointMB \in Nat /\ ram' \in Nat
  <2>1. RuntimeMB \in Nat /\ KVMB \in Nat /\ CheckpointMB \in Nat /\ RamMB \subseteq Nat
    BY PlacementAssumption
  <2>2. onCPU' = onCPU /\ ram' \in RamMB
    BY DEF Plan, gpuVars, Machine
  <2> QED BY <2>1, <2>2 DEF PinnedHostMB
<1> DEFINE needed == HostExpertsMB + PinnedHostMB + CheckpointMB
<1>6. /\ FitsResident \/ FitsMapped
      /\ mmapRequired' = (needed > ram' /\ FitsMapped)
      /\ mmap' = (~noMMap' /\ needed > ram')
  BY <1>3 DEF Plan
<1>7. CASE FitsMapped /\ needed > ram'
  <2>1. ~noMMap' /\ fileBacked' /\ ram' >= PinnedHostMB + CheckpointMB /\ mmap' = TRUE /\ mmapRequired' = TRUE
    BY <1>6, <1>7 DEF FitsMapped
  <2> QED BY <1>5, <2>1
<1>8. CASE ~(FitsMapped /\ needed > ram')
  <2>1. mmapRequired' = FALSE
    BY <1>6, <1>8
  <2>2. HostExpertsMB + PinnedHostMB <= ram'
    <3>1. CASE FitsResident
      <4>1. PICK e \in Nat \ {0}, p \in Nat, r \in Nat : e = HostExpertsMB /\ p = PinnedHostMB /\ r = ram'
        BY <1>4, <1>5
      <4>2. e <= (IF r > p THEN r - p ELSE 0)
        BY <3>1, <4>1 DEF FitsResident, Less
      <4>3. e + p <= r
        BY <4>2
      <4> QED BY <4>1, <4>3
    <3>2. CASE FitsMapped
      BY <1>4, <1>5, <1>8, <3>2
    <3> QED BY <1>6, <3>1, <3>2
  <2> QED BY <1>4, <1>5, <2>1, <2>2
<1> QED BY <1>7, <1>8

\* Before the first step nothing is owned and nothing packed.
LEMMA PlacementStart == Init => PlacementInv
<1> SUFFICES ASSUME PlacementInit PROVE PlacementInv
  BY DEF Init
<1>1. PlacementTypes
  <2>1. FreeMB \subseteq Nat /\ Bandwidths \subseteq Nat \ {0} /\ RamMB \subseteq Nat
    BY PlacementAssumption
  <2>2. MoEStart \in MoEStart..NumLayers
    BY TheLayers
  <2>3. free \in [GPUs -> Nat] /\ bandwidth \in [GPUs -> Nat \ {0}]
    BY <2>1 DEF PlacementInit
  <2>4. used = {g \in {} : free[g] > SplitFixedMB}
    BY DEF PlacementInit
  <2> QED BY <2>2, <2>3 DEF PlacementInit, PlacementTypes
<1> QED BY <1>1 DEF PlacementInit, PlacementInv, HostHolds

\* Every step of the planner keeps the invariant.
LEMMA PlacementSteps == PlacementInv /\ [PlacementNext]_placementVars => PlacementInv'
<1> SUFFICES ASSUME PlacementInv, [PlacementNext]_placementVars PROVE PlacementInv'
  OBVIOUS
<1>1. PlacementTypes /\ (planStep \in {"pack", "planned"} => PlanFits)
  BY DEF PlacementInv
<1>2. ASSUME Classify \/ \E g \in GPUs : ClassifyForced(g) PROVE PlacementInv'
  <2>1. /\ planStep = "classify" /\ planStep' = "split"
        /\ UNCHANGED <<gpuVars, split, packVars, hostVars>>
    BY <1>2 DEF Classify, ClassifyForced
  <2>2. /\ expertOnly' \subseteq GPUs /\ used' \subseteq {g \in GPUs : free[g] > SplitFixedMB}
        /\ used' \intersect expertOnly' = {}
    <3>1. CASE Classify
      <4>1. expertOnly' \subseteq GPUs
        BY <3>1 DEF Classify, ExpertOnlyGPUs, ExpertCandidates
      <4> QED BY <3>1, <4>1 DEF Classify
    <3>2. CASE \E g \in GPUs : ClassifyForced(g)
      BY <3>2 DEF ClassifyForced
    <3> QED BY <1>2, <3>1, <3>2
  <2>3. PlacementTypes'
    BY <1>1, <2>1, <2>2 DEF PlacementTypes, gpuVars, packVars, hostVars
  <2> QED BY <2>1, <2>3 DEF PlacementInv, HostHolds, packVars
<1>3. ASSUME NoOwner PROVE PlacementInv'
  <2>1. planStep' = "refused" /\ UNCHANGED <<gpuVars, roleVars, packVars, hostVars>>
    BY <1>3 DEF NoOwner
  <2>2. PlacementTypes'
    BY <1>1, <2>1 DEF PlacementTypes, gpuVars, roleVars, packVars, hostVars
  <2> QED BY <2>1, <2>2 DEF PlacementInv, HostHolds
<1>4. ASSUME Drop PROVE PlacementInv'
  <2>1. /\ planStep = "split" /\ used # {} /\ split' = SplitOver(used) /\ used' \subseteq used
        /\ UNCHANGED <<gpuVars, planStep, expertOnly, packVars, hostVars>>
    BY <1>4 DEF Drop
  <2>2. split' \in [GPUs -> Nat]
    <3>1. /\ free \in [GPUs -> Nat] /\ bandwidth \in [GPUs -> Nat \ {0}]
          /\ used \in SUBSET GPUs /\ \A g \in used : free[g] > SplitFixedMB
      BY <1>1 DEF PlacementTypes
    <3> QED BY <2>1, <3>1, SplitIsShared
  <2>3. PlacementTypes'
    BY <1>1, <2>1, <2>2 DEF PlacementTypes, gpuVars, packVars, hostVars
  <2> QED BY <2>1, <2>3 DEF PlacementInv, HostHolds, packVars
<1>5. ASSUME Settle PROVE PlacementInv'
  <2>1. planStep' = "pack"
    BY <1>5 DEF Settle
  <2> QED BY <1>5, <2>1, SettlingFits DEF PlacementInv, HostHolds
<1>6. ASSUME PackLayer PROVE PlacementInv'
  <2>1. planStep = "pack" /\ planStep' = planStep /\ split' = split
    BY <1>6 DEF PackLayer, roleVars
  <2> QED BY <1>1, <1>6, <2>1, PackingFits DEF PlacementInv, HostHolds
<1>7. ASSUME NextGPU PROVE PlacementInv'
  <2>1. planStep = "pack" /\ UNCHANGED <<gpuVars, planStep, roleVars, room, nextLayer, layersPer, hostVars>>
    BY <1>7 DEF NextGPU
  <2>2. PlacementTypes'
    BY <1>1, <2>1 DEF PlacementTypes, gpuVars, roleVars, hostVars
  <2>3. PlanFits'
    BY <1>1, <1>7, <2>1, NextGPUFits
  <2> QED BY <2>1, <2>2, <2>3 DEF PlacementInv, HostHolds
<1>8. ASSUME RefuseHost PROVE PlacementInv'
  <2>1. planStep' = "refused" /\ ram' \in Nat /\ UNCHANGED <<gpuVars, roleVars, packVars>>
    BY <1>8, PlacementAssumption DEF RefuseHost, Machine
  <2>2. PlacementTypes'
    BY <1>1, <2>1 DEF PlacementTypes, gpuVars, roleVars, packVars
  <2> QED BY <2>1, <2>2 DEF PlacementInv, HostHolds
<1>9. ASSUME Plan PROVE PlacementInv'
  <2>1. planStep = "pack" /\ planStep' = "planned" /\ ram' \in Nat /\ UNCHANGED <<gpuVars, roleVars, packVars>>
    BY <1>9, PlacementAssumption DEF Plan, Machine
  <2>2. PlacementTypes'
    BY <1>1, <2>1 DEF PlacementTypes, gpuVars, roleVars, packVars
  <2>3. PlanFits'
    BY <1>1, <2>1, PlanKept DEF roleVars, packVars
  <2>4. HostHolds'
    BY <1>1, <1>9, <2>1, PlanHolds
  <2> QED BY <2>1, <2>2, <2>3, <2>4 DEF PlacementInv
<1>10. ASSUME UNCHANGED placementVars PROVE PlacementInv'
  <2>1. UNCHANGED <<gpuVars, planStep, roleVars, packVars, hostVars>>
    BY <1>10 DEF placementVars
  <2>2. PlacementTypes'
    BY <1>1, <2>1 DEF PlacementTypes, gpuVars, roleVars, packVars, hostVars
  <2>3. PlanFits => PlanFits'
    BY <2>1, PlanKept DEF roleVars, packVars
  <2>4. HostHolds'
    <3>1. \A g \in GPUs : PinnedTo(g)' = PinnedTo(g)
      BY <2>1 DEF gpuVars, packVars, PinnedTo, Range0, Before, Rank
    <3>2. Unpinned' = Unpinned /\ PinnedHostMB' = PinnedHostMB
      BY <2>1, <3>1 DEF Unpinned, PinnedHostMB, gpuVars
    <3> QED BY <2>1, <3>2 DEF PlacementInv, HostHolds, hostVars
  <2> QED BY <1>1, <2>1, <2>2, <2>3, <2>4 DEF PlacementInv, packVars
<1> QED BY <1>2, <1>3, <1>4, <1>5, <1>6, <1>7, <1>8, <1>9, <1>10 DEF PlacementNext

\* A plan never loads onto a GPU more than it has free, whatever the machine and the
\* model: what an owner gets back for the experts another GPU took, and what a GPU
\* takes, are accounted in its room layer by layer, and a GPU whose share of the
\* split is rounded to nothing owns no layer under the backend's rule.
THEOREM DevicesAreNotOvercommitted == Spec => []NoDeviceOvercommitted
<1>1. PlacementInv => NoDeviceOvercommitted
  <2> SUFFICES ASSUME PlacementInv, planStep = "planned",
                      NEW g \in GPUs, layersPer[g] > 0 \/ split[g] > 0
               PROVE  LoadedMB(g) <= free[g]
    BY DEF NoDeviceOvercommitted
  <2>1. PlacementTypes /\ RangesMeet /\ room[g] + LoadedMB(g) <= free[g]
    BY DEF PlacementInv, PlanFits, Loads
  <2>2. LoadedMB(g) \in Nat /\ room[g] \in Nat /\ free[g] \in Nat
    <3>1. /\ LoadedMB(g) = BaseMB(g) + SharedOf(g) + ExpertsOf(g)
          /\ BaseMB(g) \in Nat /\ SharedOf(g) \in Nat /\ ExpertsOf(g) \in Nat
      BY <2>1, RangesAreOfLayers, LoadIsCounted
    <3> QED BY <2>1, <3>1 DEF PlacementTypes
  <2> QED BY <2>1, <2>2
<1>2. [Next]_plannerVars => [PlacementNext]_placementVars
  BY PlacementApart DEF plannerVars
<1> QED BY <1>1, <1>2, PlacementStart, PlacementSteps, PTL DEF Spec

\* The experts that no range names are those that the plan counted against the host's
\* memory: the ranges follow one another without a gap.
THEOREM HostHoldsWhatIsLeft == Spec => []HostHolds
<1>1. PlacementInv => HostHolds
  BY DEF PlacementInv
<1>2. [Next]_plannerVars => [PlacementNext]_placementVars
  BY PlacementApart DEF plannerVars
<1> QED BY <1>1, <1>2, PlacementStart, PlacementSteps, PTL DEF Spec
=============================================================================
