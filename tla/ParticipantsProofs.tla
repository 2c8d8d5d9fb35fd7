------------------------- MODULE ParticipantsProofs -------------------------
(***************************************************************************)
(* Dedupe for any slice: the function returns each account it was given    *)
(* once, and its pass never reads an entry it has overwritten.             *)
(*                                                                         *)
(* Participants for any transaction the network lets through: what is      *)
(* collected is at any moment what the changes and operations behind it    *)
(* bring in, because the searches of findInitatingBeginSponsoringOp and    *)
(* getSponsor come out where the protocol's own notions do.                *)
(***************************************************************************)
EXTENDS Participants, SequenceTheorems, FiniteSetTheorems,
        WellFoundedInduction, TLAPS

CalledWithGiven == stage = "called" => slice = given /\ cur = 2 /\ insert = 2

SortedGiven ==
    stage = "looping" =>
      /\ Len(slice) = Len(sorted) /\ Len(sorted) >= 2
      /\ InOrder(sorted)
      /\ ToSet(sorted) = ToSet(given)

AheadUntouched ==
    stage = "looping" => \A i \in cur - 1..Len(sorted) : slice[i] = sorted[i]

\* What is kept so far, place by place instead of as a sequence.
KeptIncreases ==
    stage = "looping" => \A i, j \in 1..insert - 1 : i < j => slice[i] < slice[j]

KeptIsSeen ==
    stage = "looping" =>
      /\ \A i \in 1..insert - 1 : \E k \in 1..cur - 1 : slice[i] = sorted[k]
      /\ \A k \in 1..cur - 1 : \E i \in 1..insert - 1 : slice[i] = sorted[k]

DedupeInv ==
    /\ DedupeTypeOK /\ CalledWithGiven
    /\ SortedGiven /\ AheadUntouched /\ KeptIncreases /\ KeptIsSeen
    /\ EachOnce

-----------------------------------------------------------------------------

\* A sorting has the entries of the slice, in order, and no others.
LEMMA SortingKeeps ==
    ASSUME NEW s \in Seq(Accounts), NEW t \in Sortings(s)
    PROVE  /\ t \in Seq(Accounts) /\ Len(t) = Len(s)
           /\ InOrder(t) /\ ToSet(t) = ToSet(s)
<1>1. InOrder(t) /\ Rearranges(s, t)
  BY DEF Sortings
<1>2. DOMAIN s = 1..Len(s) /\ Len(s) \in Nat /\ ToSet(s) \subseteq Accounts
  BY DEF ToSet
<1>3. t \in [1..Len(s) -> ToSet(s)]
  BY <1>1, <1>2 DEF Rearranges
<1>4. t \in Seq(Accounts) /\ Len(t) = Len(s) /\ DOMAIN t = DOMAIN s
  BY <1>2, <1>3
<1>5. ToSet(t) \subseteq ToSet(s)
  BY <1>2, <1>3 DEF ToSet
<1>6. ASSUME NEW a \in ToSet(s) PROVE a \in ToSet(t)
  <2>1. IsFiniteSet(PlacesOf(s, a)) /\ IsFiniteSet(PlacesOf(t, a))
    <3>1. IsFiniteSet(1..Len(s))
      BY <1>2, FS_Interval
    <3>2. PlacesOf(s, a) \subseteq 1..Len(s) /\ PlacesOf(t, a) \subseteq 1..Len(s)
      BY <1>2, <1>4 DEF PlacesOf
    <3>3. QED
      BY <3>1, <3>2, FS_Subset
  <2>2. PlacesOf(s, a) # {}
    BY DEF PlacesOf, ToSet
  <2>3. Cardinality(PlacesOf(t, a)) # 0
    BY <1>1, <2>1, <2>2, FS_EmptySet DEF Rearranges
  <2>4. PlacesOf(t, a) # {}
    BY <2>1, <2>3, FS_EmptySet
  <2>5. QED
    BY <2>4 DEF PlacesOf, ToSet
<1>7. QED
  BY <1>1, <1>4, <1>5, <1>6

\* What is kept, as a sequence.
LEMMA KeptEntries ==
    ASSUME DedupeTypeOK, SortedGiven, stage = "looping"
    PROVE  /\ Kept \in Seq(Accounts) /\ DOMAIN Kept = 1..insert - 1
           /\ \A i \in 1..insert - 1 : Kept[i] = slice[i]
<1>1. /\ slice \in Seq(Accounts) /\ Len(slice) \in Nat /\ insert \in Nat /\ insert >= 2
      /\ insert - 1 <= Len(slice)
  <2>1. cur \in 2..Len(sorted) + 1 /\ insert \in 2..cur /\ Len(sorted) = Len(slice)
    BY DEF DedupeTypeOK, SortedGiven
  <2>2. slice \in Seq(Accounts) /\ Len(slice) \in Nat
    BY DEF DedupeTypeOK
  <2>3. QED
    BY <2>1, <2>2
<1>2. \A i \in 1..insert - 1 : slice[i] \in Accounts
  BY <1>1
<1>3. /\ Kept \in Seq(Accounts)
      /\ Len(Kept) = IF 1 <= insert - 1 THEN insert - 1 - 1 + 1 ELSE 0
      /\ \A i \in 1..insert - 1 - 1 + 1 : Kept[i] = slice[1 + i - 1]
  BY <1>1, <1>2, SubSeqProperties DEF Kept
<1>4. insert - 1 - 1 + 1 = insert - 1 /\ 1 <= insert - 1 /\ \A i \in 1..insert - 1 : 1 + i - 1 = i
  BY <1>1
<1>5. QED
  BY <1>3, <1>4

LEMMA DedupeInvInit == DedupeInit => DedupeInv
<1> SUFFICES ASSUME DedupeInit PROVE DedupeInv
  OBVIOUS
<1>1. PICK s \in Seq(Accounts) : Called(s)
  BY DEF DedupeInit
<1>2. DedupeTypeOK
  BY <1>1 DEF Called, DedupeTypeOK
<1>3. QED
  BY <1>1, <1>2
  DEF Called, DedupeInv, CalledWithGiven, SortedGiven, AheadUntouched,
      KeptIncreases, KeptIsSeen, EachOnce

\* A slice of one entry or none has no repeats.
LEMMA ShortStep ==
    ASSUME DedupeInv, ReturnShort
    PROVE  DedupeInv'
<1>1. /\ slice = given /\ slice' = slice /\ given' = given /\ stage' = "returned"
      /\ slice \in Seq(Accounts) /\ Len(slice) <= 1
  BY DEF DedupeInv, CalledWithGiven, DedupeTypeOK, ReturnShort
<1>2. Increasing(slice)
  BY <1>1 DEF Increasing
<1>3. DedupeTypeOK'
  BY DEF DedupeInv, DedupeTypeOK, ReturnShort
<1>4. EachOnce'
  BY <1>1, <1>2 DEF EachOnce, Increasing, ToSet
<1>5. QED
  BY <1>1, <1>3, <1>4
  DEF DedupeInv, CalledWithGiven, SortedGiven, AheadUntouched, KeptIncreases, KeptIsSeen

\* The first entry is kept before the pass begins.
LEMMA SortStep ==
    ASSUME DedupeInv, SortSlice
    PROVE  DedupeInv'
<1>1. /\ slice = given /\ cur = 2 /\ insert = 2
      /\ slice \in Seq(Accounts) /\ given \in Seq(Accounts) /\ Len(slice) > 1
      /\ sorted' \in Sortings(slice) /\ slice' = sorted' /\ stage' = "looping"
      /\ UNCHANGED <<given, cur, insert>>
  BY DEF DedupeInv, CalledWithGiven, DedupeTypeOK, SortSlice
<1>2. /\ sorted' \in Seq(Accounts) /\ Len(sorted') = Len(slice)
      /\ InOrder(sorted') /\ ToSet(sorted') = ToSet(slice)
  BY <1>1, SortingKeeps
<1>3. Len(sorted') \in Nat /\ Len(sorted') >= 2
  BY <1>1, <1>2
<1>4. DedupeTypeOK'
  BY <1>1, <1>2, <1>3 DEF DedupeTypeOK
<1>5. SortedGiven'
  BY <1>1, <1>2, <1>3 DEF SortedGiven, InOrder, ToSet
<1>6. AheadUntouched' /\ KeptIncreases' /\ KeptIsSeen'
  BY <1>1 DEF AheadUntouched, KeptIncreases, KeptIsSeen
<1>7. QED
  BY <1>1, <1>4, <1>5, <1>6 DEF DedupeInv, CalledWithGiven, EachOnce

\* Where the pass stands, in numbers.
LEMMA LoopPlaces ==
    ASSUME DedupeInv, stage = "looping"
    PROVE  /\ Len(sorted) \in Nat /\ cur \in Nat /\ insert \in Nat
           /\ 2 <= insert /\ insert <= cur /\ cur <= Len(sorted) + 1
           /\ Len(slice) = Len(sorted) /\ DOMAIN slice = 1..Len(sorted)
           /\ DOMAIN sorted = 1..Len(sorted)
           /\ \A i \in 1..Len(sorted) : slice[i] \in Int /\ sorted[i] \in Int
<1>1. /\ cur \in 2..Len(sorted) + 1 /\ insert \in 2..cur /\ Len(sorted) = Len(slice)
      /\ slice \in Seq(Accounts) /\ sorted \in Seq(Accounts)
  BY DEF DedupeInv, DedupeTypeOK, SortedGiven
<1>2. Len(sorted) \in Nat
  BY <1>1
<1>3. \A i \in 1..Len(sorted) : slice[i] \in Accounts /\ sorted[i] \in Accounts
  BY <1>1
<1>4. \A i \in 1..Len(sorted) : slice[i] \in Int /\ sorted[i] \in Int
  BY <1>3, DedupeAssumption
<1>5. QED
  BY <1>1, <1>2, <1>4

\* An entry that equals the one before it is among what is kept already.
LEMMA SkipStep ==
    ASSUME DedupeInv, SkipRepeat
    PROVE  DedupeInv'
<1>1. /\ stage = "looping" /\ cur <= Len(slice) /\ slice[cur] = slice[cur - 1]
      /\ cur' = cur + 1 /\ UNCHANGED <<given, sorted, stage, slice, insert>>
  BY DEF SkipRepeat, Repeats
<1>2. /\ Len(sorted) \in Nat /\ cur \in Nat /\ insert \in Nat
      /\ 2 <= insert /\ insert <= cur /\ cur <= Len(sorted)
      /\ Len(slice) = Len(sorted)
  BY <1>1, LoopPlaces
<1>3. DedupeTypeOK'
  BY <1>1, <1>2 DEF DedupeInv, DedupeTypeOK
<1>4. SortedGiven' /\ KeptIncreases' /\ EachOnce' /\ CalledWithGiven'
  BY <1>1 DEF DedupeInv, SortedGiven, KeptIncreases, EachOnce, CalledWithGiven,
              InOrder, ToSet
<1>5. AheadUntouched'
  BY <1>1, <1>2 DEF DedupeInv, AheadUntouched
<1>6. sorted[cur] = sorted[cur - 1]
  BY <1>1, <1>2 DEF DedupeInv, AheadUntouched
<1>7. \A k \in 1..cur' - 1 : k \in 1..cur - 1 \/ k = cur
  BY <1>1, <1>2
<1>8. KeptIsSeen'
  <2>1. \A i \in 1..insert - 1 : \E k \in 1..cur' - 1 : slice[i] = sorted[k]
    <3>1. 1..cur - 1 \subseteq 1..cur' - 1
      BY <1>1, <1>2
    <3>2. QED
      BY <1>1, <3>1 DEF DedupeInv, KeptIsSeen
  <2>2. \A k \in 1..cur' - 1 : \E i \in 1..insert - 1 : slice[i] = sorted[k]
    BY <1>1, <1>2, <1>6, <1>7 DEF DedupeInv, KeptIsSeen
  <2>3. QED
    BY <1>1, <2>1, <2>2 DEF KeptIsSeen
<1>9. QED
  BY <1>3, <1>4, <1>5, <1>8 DEF DedupeInv

\* An entry that differs from the one before it is larger than all kept ones; the
\* place it goes to is not ahead of the pass.
LEMMA KeepStep ==
    ASSUME DedupeInv, KeepEntry
    PROVE  DedupeInv'
<1>1. /\ stage = "looping" /\ cur <= Len(slice) /\ slice[cur] # slice[cur - 1]
      /\ slice' = [slice EXCEPT ![insert] = slice[cur]]
      /\ insert' = insert + 1 /\ cur' = cur + 1 /\ UNCHANGED <<given, sorted, stage>>
  BY DEF KeepEntry, Repeats
<1>2. /\ Len(sorted) \in Nat /\ cur \in Nat /\ insert \in Nat
      /\ 2 <= insert /\ insert <= cur /\ cur <= Len(sorted)
      /\ Len(slice) = Len(sorted) /\ DOMAIN slice = 1..Len(sorted)
      /\ DOMAIN sorted = 1..Len(sorted)
      /\ \A i \in 1..Len(sorted) : slice[i] \in Int /\ sorted[i] \in Int
  BY <1>1, LoopPlaces
<1>3. /\ slice' \in Seq(Accounts) /\ Len(slice') = Len(sorted)
      /\ slice'[insert] = slice[cur]
      /\ \A i \in 1..Len(sorted) : i # insert => slice'[i] = slice[i]
  <2>1. slice \in Seq(Accounts) /\ slice[cur] \in Accounts
    BY <1>2 DEF DedupeInv, DedupeTypeOK
  <2>2. QED
    BY <1>1, <1>2, <2>1
<1>4. DedupeTypeOK'
  <2>1. cur' \in 2..Len(sorted) + 1 /\ insert' \in 2..cur'
    BY <1>1, <1>2
  <2>2. QED
    BY <1>1, <1>3, <2>1 DEF DedupeInv, DedupeTypeOK
<1>5. SortedGiven' /\ CalledWithGiven' /\ EachOnce'
  <2>1. SortedGiven'
    <3>1. SortedGiven /\ Len(sorted) >= 2
      BY <1>1 DEF DedupeInv, SortedGiven
    <3>2. Len(slice') = Len(sorted')
      BY <1>1, <1>3
    <3>3. InOrder(sorted') /\ ToSet(sorted') = ToSet(given')
      BY <1>1, <3>1 DEF SortedGiven
    <3>4. QED
      BY <1>1, <3>1, <3>2, <3>3 DEF SortedGiven, InOrder, ToSet
  <2>2. stage' = "looping"
    BY <1>1
  <2>3. CalledWithGiven' /\ EachOnce'
    BY <1>1, <2>2 DEF DedupeInv, CalledWithGiven, EachOnce
  <2>4. QED
    BY <2>1, <2>3
<1>6. slice[cur] = sorted[cur] /\ slice[cur - 1] = sorted[cur - 1]
  <2>1. cur \in cur - 1..Len(sorted) /\ cur - 1 \in cur - 1..Len(sorted)
    BY <1>2
  <2>2. \A i \in cur - 1..Len(sorted) : slice[i] = sorted[i]
    BY <1>1 DEF DedupeInv, AheadUntouched
  <2>3. QED
    BY <2>1, <2>2
<1>7. AheadUntouched'
  <2>1. ASSUME NEW i \in cur' - 1..Len(sorted) PROVE slice'[i] = sorted[i]
    <3>1. i \in cur - 1..Len(sorted) /\ i \in 1..Len(sorted) /\ i >= cur
      BY <1>1, <1>2
    <3>2. slice[i] = sorted[i]
      BY <1>1, <3>1 DEF DedupeInv, AheadUntouched
    <3>3. i = insert => i = cur
      BY <1>2, <3>1
    <3>4. QED
      BY <1>3, <3>1, <3>2, <3>3
  <2>2. QED
    BY <1>1, <2>1 DEF AheadUntouched
<1>8. ASSUME NEW k \in 1..cur - 1 PROVE sorted[k] < sorted[cur]
  <2>1. InOrder(sorted)
    BY <1>1 DEF DedupeInv, SortedGiven
  <2>2. sorted[cur - 1] < sorted[cur]
    <3>1. sorted[cur - 1] <= sorted[cur] /\ sorted[cur - 1] # sorted[cur]
      BY <1>1, <1>2, <1>6, <2>1 DEF InOrder
    <3>2. QED
      BY <1>2, <3>1
  <2>3. k = cur - 1 \/ sorted[k] <= sorted[cur - 1]
    BY <1>2, <2>1 DEF InOrder
  <2>4. sorted[k] \in Int /\ sorted[cur - 1] \in Int /\ sorted[cur] \in Int
    BY <1>2
  <2>5. QED
    BY <2>2, <2>3, <2>4
<1>9. \A i \in 1..insert - 1 : slice[i] < slice[cur] /\ slice'[i] = slice[i]
  <2>1. ASSUME NEW i \in 1..insert - 1
        PROVE  slice[i] < slice[cur] /\ slice'[i] = slice[i]
    <3>1. PICK k \in 1..cur - 1 : slice[i] = sorted[k]
      BY <1>1 DEF DedupeInv, KeptIsSeen
    <3>2. slice[i] < slice[cur]
      BY <1>6, <1>8, <3>1
    <3>3. i \in 1..Len(sorted) /\ i # insert
      BY <1>2
    <3>4. QED
      BY <1>3, <3>2, <3>3
  <2>2. QED
    BY <2>1
<1>10. \A i \in 1..insert' - 1 : i \in 1..insert - 1 \/ i = insert
  BY <1>1, <1>2
<1>11. KeptIncreases'
  <2>1. ASSUME NEW i \in 1..insert' - 1, NEW j \in 1..insert' - 1, i < j
        PROVE  slice'[i] < slice'[j]
    <3>1. i \in 1..insert - 1
      BY <1>1, <1>2, <2>1
    <3>2. CASE j \in 1..insert - 1
      BY <1>1, <1>9, <2>1, <3>1, <3>2 DEF DedupeInv, KeptIncreases
    <3>3. CASE j = insert
      BY <1>3, <1>9, <3>1, <3>3
    <3>4. QED
      BY <1>10, <3>2, <3>3
  <2>2. QED
    BY <1>1, <2>1 DEF KeptIncreases
<1>12. KeptIsSeen'
  <2>1. \A i \in 1..insert' - 1 : \E k \in 1..cur' - 1 : slice'[i] = sorted[k]
    <3>1. cur \in 1..cur' - 1 /\ 1..cur - 1 \subseteq 1..cur' - 1
      BY <1>1, <1>2
    <3>2. \A i \in 1..insert - 1 : \E k \in 1..cur' - 1 : slice'[i] = sorted[k]
      BY <1>1, <1>9, <3>1 DEF DedupeInv, KeptIsSeen
    <3>3. slice'[insert] = sorted[cur]
      BY <1>3, <1>6
    <3>4. QED
      BY <1>10, <3>1, <3>2, <3>3
  <2>2. \A k \in 1..cur' - 1 : \E i \in 1..insert' - 1 : slice'[i] = sorted[k]
    <3>1. insert \in 1..insert' - 1 /\ 1..insert - 1 \subseteq 1..insert' - 1
      BY <1>1, <1>2
    <3>2. \A k \in 1..cur' - 1 : k \in 1..cur - 1 \/ k = cur
      BY <1>1, <1>2
    <3>3. QED
      BY <1>1, <1>3, <1>6, <1>9, <3>1, <3>2 DEF DedupeInv, KeptIsSeen
  <2>3. QED
    BY <1>1, <2>1, <2>2 DEF KeptIsSeen
<1>13. QED
  BY <1>4, <1>5, <1>7, <1>11, <1>12 DEF DedupeInv

\* At the end of the pass what is kept has an entry for each of the sorted slice.
LEMMA ReturnStep ==
    ASSUME DedupeInv, ReturnKept
    PROVE  DedupeInv'
<1>1. /\ stage = "looping" /\ cur > Len(slice) /\ slice' = Kept /\ stage' = "returned"
      /\ UNCHANGED <<given, sorted, cur, insert>>
  BY DEF ReturnKept
<1>2. /\ Kept \in Seq(Accounts) /\ DOMAIN Kept = 1..insert - 1
      /\ \A i \in 1..insert - 1 : Kept[i] = slice[i]
  BY <1>1, KeptEntries DEF DedupeInv
<1>3. Len(sorted) \in Nat /\ DOMAIN sorted = 1..Len(sorted) /\ cur - 1 = Len(sorted)
  BY <1>1, LoopPlaces
<1>4. DedupeTypeOK'
  BY <1>1, <1>2 DEF DedupeInv, DedupeTypeOK
<1>5. Increasing(Kept)
  BY <1>1, <1>2 DEF Increasing, DedupeInv, KeptIncreases
<1>6. ToSet(Kept) = ToSet(sorted)
  <2>1. /\ \A i \in 1..insert - 1 : \E k \in 1..cur - 1 : Kept[i] = sorted[k]
        /\ \A k \in 1..cur - 1 : \E i \in 1..insert - 1 : Kept[i] = sorted[k]
    BY <1>1, <1>2 DEF DedupeInv, KeptIsSeen
  <2>2. DOMAIN sorted = 1..cur - 1
    BY <1>3
  <2>3. /\ ToSet(Kept) = {Kept[i] : i \in 1..insert - 1}
        /\ ToSet(sorted) = {sorted[k] : k \in 1..cur - 1}
    BY <1>2, <2>2 DEF ToSet
  <2>4. ToSet(Kept) \subseteq ToSet(sorted)
    BY <2>1, <2>3
  <2>5. ToSet(sorted) \subseteq ToSet(Kept)
    BY <2>1, <2>3
  <2>6. QED
    BY <2>4, <2>5
<1>7. Increasing(slice') /\ ToSet(slice') = ToSet(given')
  BY <1>1, <1>5, <1>6 DEF DedupeInv, SortedGiven, Increasing, ToSet
<1>8. EachOnce'
  BY <1>7 DEF EachOnce, Increasing, ToSet
<1>9. QED
  BY <1>1, <1>4, <1>8
  DEF DedupeInv, CalledWithGiven, SortedGiven, AheadUntouched, KeptIncreases, KeptIsSeen

LEMMA DedupeInvStep == DedupeInv /\ [DedupeNext]_dedupeVars => DedupeInv'
<1> SUFFICES ASSUME DedupeInv, [DedupeNext]_dedupeVars PROVE DedupeInv'
  OBVIOUS
<1>1. CASE UNCHANGED dedupeVars
  <2> USE <1>1 DEF dedupeVars, DedupeInv
  <2>1. DedupeTypeOK' /\ CalledWithGiven'
    BY DEF DedupeTypeOK, CalledWithGiven
  <2>2. SortedGiven' /\ EachOnce'
    BY DEF SortedGiven, InOrder, EachOnce, Increasing, ToSet
  <2>3. AheadUntouched' /\ KeptIncreases' /\ KeptIsSeen'
    BY DEF AheadUntouched, KeptIncreases, KeptIsSeen
  <2>4. QED
    BY <2>1, <2>2, <2>3
<1>2. QED
  BY <1>1, ShortStep, SortStep, SkipStep, KeepStep, ReturnStep DEF DedupeNext

LEMMA DedupeInvAlways == DedupeSpec => []DedupeInv
BY DedupeInvInit, DedupeInvStep, PTL DEF DedupeSpec

\* The indices of the pass stay within the slice, the one it writes at never
\* ahead of the one it reads at.
THEOREM DedupeTypeCorrect == DedupeSpec => []DedupeTypeOK
<1>1. DedupeInv => DedupeTypeOK
  BY DEF DedupeInv
<1>2. QED
  BY <1>1, DedupeInvAlways, PTL

\* dedupeParticipants returns each account of any slice exactly once, by address.
THEOREM DedupeReturnsEachOnce == DedupeSpec => []EachOnce
<1>1. DedupeInv => EachOnce
  BY DEF DedupeInv
<1>2. QED
  BY <1>1, DedupeInvAlways, PTL

LEMMA PassReadsUnwritten == DedupeInv => ReadsUnwritten
<1> SUFFICES ASSUME DedupeInv, stage = "looping"
             PROVE  Increasing(Kept) /\ ToSet(Kept) = {sorted[i] : i \in 1..cur - 1}
  BY DEF ReadsUnwritten, DedupeInv, AheadUntouched
<1>1. /\ DOMAIN Kept = 1..insert - 1
      /\ \A i \in 1..insert - 1 : Kept[i] = slice[i]
  BY KeptEntries DEF DedupeInv
<1>2. Increasing(Kept)
  BY <1>1 DEF Increasing, DedupeInv, KeptIncreases
<1>3. ToSet(Kept) = {sorted[i] : i \in 1..cur - 1}
  BY <1>1 DEF ToSet, DedupeInv, KeptIsSeen
<1>4. QED
  BY <1>2, <1>3

\* The pass compares and copies only entries it has not overwritten, and what it
\* has kept are the entries before, each once.
THEOREM DedupeReadsUnwritten == DedupeSpec => []ReadsUnwritten
BY PassReadsUnwritten, DedupeInvAlways, PTL

-----------------------------------------------------------------------------
(***************************************************************************)
(* What the helpers return                                                 *)
(***************************************************************************)

LEMMA HasSmallest ==
    ASSUME NEW T \in SUBSET Nat, T # {}
    PROVE  \E m \in T : \A k \in T : m <= k
<1> DEFINE R == OpToRel(<, Nat)
<1>1. \E m \in T : \A k \in T : ~(<<k, m>> \in R)
  BY NatLessThanWellFounded, WFMin
<1>2. \A k \in Nat : \A m \in Nat : k < m => <<k, m>> \in R
  BY DEF OpToRel
<1>3. \E m \in T : \A k \in T : ~(k < m)
  <2> HIDE DEF R
  <2>1. PICK m \in T : \A k \in T : ~(<<k, m>> \in R)
    BY <1>1
  <2>2. \A k \in T : ~(k < m)
    BY <1>2, <2>1
  <2>3. QED
    BY <2>2
<1>4. QED
  BY <1>3

LEMMA ToSetOfConcat ==
    ASSUME NEW S, NEW s \in Seq(S), NEW t \in Seq(S)
    PROVE  s \o t \in Seq(S) /\ ToSet(s \o t) = ToSet(s) \cup ToSet(t)
<1>1. /\ s \o t \in Seq(S) /\ Len(s \o t) = Len(s) + Len(t)
      /\ Len(s) \in Nat /\ Len(t) \in Nat
      /\ \A i \in 1..Len(s) + Len(t) :
           (s \o t)[i] = IF i <= Len(s) THEN s[i] ELSE t[i - Len(s)]
  BY ConcatProperties
<1>2. /\ DOMAIN s = 1..Len(s) /\ DOMAIN t = 1..Len(t)
      /\ DOMAIN (s \o t) = 1..Len(s) + Len(t)
  BY <1>1
<1>3. ASSUME NEW i \in DOMAIN s PROVE s[i] \in ToSet(s \o t)
  <2>1. i \in DOMAIN (s \o t) /\ (s \o t)[i] = s[i]
    BY <1>1, <1>2
  <2>2. QED
    BY <2>1 DEF ToSet
<1>4. ASSUME NEW i \in DOMAIN t PROVE t[i] \in ToSet(s \o t)
  <2>1. Len(s) + i \in DOMAIN (s \o t) /\ (s \o t)[Len(s) + i] = t[i]
    BY <1>1, <1>2
  <2>2. QED
    BY <2>1 DEF ToSet
<1>5. ASSUME NEW i \in DOMAIN (s \o t) PROVE (s \o t)[i] \in ToSet(s) \cup ToSet(t)
  <2>1. CASE i <= Len(s)
    <3>1. i \in DOMAIN s /\ (s \o t)[i] = s[i]
      BY <1>1, <1>2, <2>1
    <3>2. QED
      BY <3>1 DEF ToSet
  <2>2. CASE ~(i <= Len(s))
    <3>1. i - Len(s) \in DOMAIN t /\ (s \o t)[i] = t[i - Len(s)]
      BY <1>1, <1>2, <2>2
    <3>2. QED
      BY <3>1 DEF ToSet
  <2>3. QED
    BY <2>1, <2>2
<1>6. ToSet(s \o t) = ToSet(s) \cup ToSet(t)
  BY <1>3, <1>4, <1>5 DEF ToSet
<1>7. QED
  BY <1>1, <1>6

LEMMA ToSetOfOne ==
    ASSUME NEW S, NEW a \in S
    PROVE  <<a>> \in Seq(S) /\ ToSet(<<a>>) = {a}
BY DEF ToSet

LEMMA ListOfType ==
    ASSUME NEW a \in Accounts \cup {NoAccount}
    PROVE  ListOf(a) \in Seq(Accounts) /\ ToSet(ListOf(a)) = {a} \ {NoAccount}
BY ParticipantsAssumption DEF ListOf, ToSet

\* A place in the operations holds an operation, and its source is an account.
LEMMA OperationType ==
    ASSUME NEW t \in Transaction, NEW i \in DOMAIN t.ops
    PROVE  /\ t.ops[i] \in Operation /\ t.source \in Accounts
           /\ SourceOf(t, i) \in Accounts
           /\ t.ops[i].named \in Seq(Accounts) /\ t.ops[i].changes \in Seq(Change)
<1>1. t.ops \in Seq(Operation) /\ t.source \in Accounts
  BY DEF Transaction
<1>2. t.ops[i] \in Operation
  BY <1>1
<1>3. QED
  BY <1>1, <1>2 DEF Operation, SourceOf

\* The search back from an end finds the one begin that is open: an account cannot
\* be sponsored again before the end, so no later begin names it.
LEMMA InitiatingBeginIsOpen ==
    ASSUME NEW t \in Transaction, WellFormed(t), NEW i \in DOMAIN t.ops,
           t.ops[i].kind = "end", t.successful
    PROVE  /\ InitiatingBegin(t, i) \in 1..i - 1
           /\ OpenBegins(t, SourceOf(t, i), i) = {InitiatingBegin(t, i)}
<1> DEFINE a == SourceOf(t, i)
           begins == {j \in 1..i - 1 : t.ops[j].kind = "begin" /\ t.ops[j].named = <<a>>}
<1>0. i \in Nat /\ DOMAIN t.ops = 1..Len(t.ops) /\ Len(t.ops) \in Nat
  <2>1. t.ops \in Seq(Operation)
    BY DEF Transaction
  <2>2. QED
    BY <2>1
<1>1. PICK j0 \in OpenBegins(t, a, i) : TRUE
  BY DEF WellFormed
<1>2. /\ j0 \in begins
      /\ \A k \in j0 + 1..i - 1 : ~(t.ops[k].kind = "end" /\ SourceOf(t, k) = a)
  BY <1>1 DEF OpenBegins
<1>3. ASSUME NEW j \in begins PROVE j <= j0
  <2> SUFFICES ASSUME j > j0 PROVE FALSE
    BY <1>0, <1>2
  <2>1. a \in ToSet(t.ops[j].named)
    <3>1. t.ops[j].named = <<a>>
      OBVIOUS
    <3>2. 1 \in DOMAIN t.ops[j].named /\ t.ops[j].named[1] = a
      BY <3>1
    <3>3. QED
      BY <3>2 DEF ToSet
  <2>2. j \in DOMAIN t.ops
    BY <1>0
  <2>3. OpenBegins(t, a, j) = {}
    BY <2>1, <2>2 DEF WellFormed
  <2>4. j0 \in OpenBegins(t, a, j)
    <3>1. j0 \in 1..j - 1
      BY <1>0, <1>2
    <3>2. j0 + 1..j - 1 \subseteq j0 + 1..i - 1
      BY <1>0, <1>2
    <3>3. QED
      BY <1>2, <3>1, <3>2 DEF OpenBegins
  <2>5. QED
    BY <2>3, <2>4
<1>4. Max(begins) = j0
  <2>1. \A x \in begins : (\A y \in begins : x >= y) => x = j0
    BY <1>0, <1>2, <1>3
  <2>2. \A y \in begins : j0 >= y
    BY <1>0, <1>2, <1>3
  <2>3. QED
    BY <1>2, <2>1, <2>2 DEF Max
<1>5. InitiatingBegin(t, i) = j0
  BY <1>2, <1>4 DEF InitiatingBegin
<1>6. ASSUME NEW j \in OpenBegins(t, a, i) PROVE j = j0
  <2>1. /\ j \in begins
        /\ \A k \in j + 1..i - 1 : ~(t.ops[k].kind = "end" /\ SourceOf(t, k) = a)
    BY DEF OpenBegins
  <2>2. j <= j0
    BY <1>3, <2>1
  <2> SUFFICES ASSUME j < j0 PROVE FALSE
    BY <1>0, <1>2, <2>1, <2>2
  <2>3. a \in ToSet(t.ops[j0].named)
    <3>1. t.ops[j0].named = <<a>>
      BY <1>2
    <3>2. 1 \in DOMAIN t.ops[j0].named /\ t.ops[j0].named[1] = a
      BY <3>1
    <3>3. QED
      BY <3>2 DEF ToSet
  <2>4. j0 \in DOMAIN t.ops
    BY <1>0, <1>2
  <2>5. OpenBegins(t, a, j0) = {}
    BY <1>2, <2>3, <2>4 DEF WellFormed
  <2>6. j \in OpenBegins(t, a, j0)
    <3>1. j \in 1..j0 - 1
      BY <1>0, <1>2, <2>1
    <3>2. j + 1..j0 - 1 \subseteq j + 1..i - 1
      BY <1>0, <1>2, <2>1
    <3>3. QED
      BY <2>1, <3>1, <3>2 DEF OpenBegins
  <2>7. QED
    BY <2>5, <2>6
<1>7. QED
  BY <1>1, <1>2, <1>5, <1>6

\* A change shows a sponsor when it brings one in, and then it is one of those.
LEMMA SponsorShown ==
    ASSUME NEW op \in Operation
    PROVE  /\ \A i \in DOMAIN op.changes :
                SponsorIn(op.changes[i]) # NoAccount
                  => SponsorIn(op.changes[i]) \in SponsorsOf(op)
           /\ SponsorsOf(op) # {}
                => \E i \in DOMAIN op.changes : SponsorIn(op.changes[i]) # NoAccount
           /\ SponsorsOf(op) \subseteq Accounts
<1>1. op.changes \in Seq(Change)
  BY DEF Operation
<1>2. ASSUME NEW i \in DOMAIN op.changes, SponsorIn(op.changes[i]) # NoAccount
      PROVE  SponsorIn(op.changes[i]) \in SponsorsOf(op)
  BY <1>2 DEF SponsorIn, SponsorsOf, ToSet
<1>3. ASSUME NEW a \in SponsorsOf(op)
      PROVE  /\ \E i \in DOMAIN op.changes : SponsorIn(op.changes[i]) # NoAccount
             /\ a \in Accounts
  <2>1. PICK c \in ToSet(op.changes) :
          \/ c.signer # c.formerSigner /\ a = c.signer
          \/ c.created /\ a = c.sponsor
    BY DEF SponsorsOf
  <2>2. a # NoAccount
    BY DEF SponsorsOf
  <2>3. PICK i \in DOMAIN op.changes : c = op.changes[i]
    BY <2>1 DEF ToSet
  <2>4. c \in Change
    BY <1>1, <2>3
  <2>5. SponsorIn(c) # NoAccount
    BY <2>1, <2>2 DEF SponsorIn
  <2>6. QED
    BY <2>1, <2>2, <2>3, <2>4, <2>5 DEF Change
<1>4. QED
  BY <1>2, <1>3

\* getSponsor stops at the first change that shows a sponsor and misses none: there
\* is one to find.
LEMMA SponsorIsTheOne ==
    ASSUME NEW op \in Operation, \A a, b \in SponsorsOf(op) : a = b
    PROVE  /\ Sponsor(op) \in Accounts \cup {NoAccount}
           /\ {Sponsor(op)} \ {NoAccount} = SponsorsOf(op)
<1> DEFINE shown == {i \in DOMAIN op.changes : SponsorIn(op.changes[i]) # NoAccount}
<1>0. NoAccount \notin SponsorsOf(op)
  BY DEF SponsorsOf
<1>1. CASE shown = {}
  <2>1. Sponsor(op) = NoAccount
    BY <1>1 DEF Sponsor
  <2>2. SponsorsOf(op) = {}
    BY <1>1, SponsorShown
  <2>3. QED
    BY <2>1, <2>2
<1>2. CASE shown # {}
  <2>1. op.changes \in Seq(Change)
    BY DEF Operation
  <2>2. shown \in SUBSET Nat
    BY <2>1
  <2>3. PICK m \in shown : \A k \in shown : m <= k
    BY <1>2, <2>2, HasSmallest
  <2>4. Min(shown) \in shown
    BY <2>3 DEF Min
  <2>5. Sponsor(op) = SponsorIn(op.changes[Min(shown)])
    BY <1>2 DEF Sponsor
  <2>6. Sponsor(op) \in SponsorsOf(op)
    BY <2>4, <2>5, SponsorShown
  <2>7. QED
    BY <1>0, <2>6, SponsorShown
<1>3. QED
  BY <1>1, <1>2

\* What Participants gathers for an operation are its parties.
LEMMA OperationListNamesParties ==
    ASSUME NEW t \in Transaction, WellFormed(t), NEW i \in DOMAIN t.ops
    PROVE  /\ OperationList(t, i) \in Seq(Accounts)
           /\ ToSet(OperationList(t, i)) = PartiesOfOperation(t, i)
<1> DEFINE op == t.ops[i]
           begin == IF op.kind = "end" THEN InitiatingBegin(t, i) ELSE 0
           source == <<SourceOf(t, i)>>
           own == source \o op.named
           sponsor == ListOf(Sponsor(op))
           sponsoring == IF begin # 0 THEN <<SourceOf(t, begin)>> ELSE <<>>
           closed == IF t.successful /\ op.kind = "end"
                     THEN {SourceOf(t, j) : j \in OpenBegins(t, SourceOf(t, i), i)}
                     ELSE {}
<1>1. /\ op \in Operation /\ SourceOf(t, i) \in Accounts /\ op.named \in Seq(Accounts)
      /\ \A a, b \in SponsorsOf(op) : a = b
  BY OperationType DEF WellFormed
<1>2. own \in Seq(Accounts) /\ ToSet(own) = {SourceOf(t, i)} \cup ToSet(op.named)
  <2>1. source \in Seq(Accounts) /\ ToSet(source) = {SourceOf(t, i)}
    BY <1>1, ToSetOfOne
  <2>2. op.named \in Seq(Accounts)
    BY <1>1
  <2> HIDE DEF source, op
  <2>3. own \in Seq(Accounts) /\ ToSet(own) = ToSet(source) \cup ToSet(op.named)
    BY <2>1, <2>2, ToSetOfConcat
  <2>4. QED
    BY <2>1, <2>3
<1>3. sponsoring \in Seq(Accounts) /\ ToSet(sponsoring) = closed
  <2>1. CASE op.kind = "end" /\ t.successful
    <3>1. /\ begin \in 1..i - 1
          /\ OpenBegins(t, SourceOf(t, i), i) = {begin}
      BY <2>1, InitiatingBeginIsOpen
    <3>2. begin # 0 /\ begin \in DOMAIN t.ops
      <4>1. t.ops \in Seq(Operation)
        BY DEF Transaction
      <4>2. DOMAIN t.ops = 1..Len(t.ops) /\ Len(t.ops) \in Nat
        BY <4>1
      <4> HIDE DEF begin
      <4>3. QED
        BY <3>1, <4>2
    <3>3. SourceOf(t, begin) \in Accounts
      BY <3>2, OperationType
    <3>4. closed = {SourceOf(t, begin)} /\ sponsoring = <<SourceOf(t, begin)>>
      <4> HIDE DEF begin
      <4>1. QED
        BY <2>1, <3>1, <3>2
    <3> HIDE DEF begin
    <3>5. QED
      BY <3>3, <3>4, ToSetOfOne
  <2>2. CASE ~(op.kind = "end" /\ t.successful)
    <3>1. begin = 0
      BY <2>2 DEF InitiatingBegin
    <3>2. sponsoring = <<>> /\ closed = {}
      BY <2>2, <3>1
    <3>3. <<>> \in Seq(Accounts) /\ ToSet(<<>>) = {}
      BY DEF ToSet
    <3>4. QED
      BY <3>2, <3>3
  <2>3. QED
    BY <2>1, <2>2
<1>4. sponsor \in Seq(Accounts) /\ ToSet(sponsor) = SponsorsOf(op)
  <2>1. /\ Sponsor(op) \in Accounts \cup {NoAccount}
        /\ {Sponsor(op)} \ {NoAccount} = SponsorsOf(op)
    BY <1>1, SponsorIsTheOne
  <2> DEFINE s == Sponsor(op)
  <2> HIDE DEF s
  <2>2. ListOf(s) \in Seq(Accounts) /\ ToSet(ListOf(s)) = {s} \ {NoAccount}
    BY <2>1, ListOfType DEF s
  <2>3. QED
    BY <2>1, <2>2 DEF s
<1>5. OperationList(t, i) = own \o sponsoring \o sponsor
  BY DEF OperationList
<1>6. PartiesOfOperation(t, i)
        = {SourceOf(t, i)} \cup ToSet(op.named) \cup SponsorsOf(op) \cup closed
  BY DEF PartiesOfOperation
<1> HIDE DEF op, begin, own, sponsoring, closed, sponsor
<1> DEFINE front == own \o sponsoring
<1>7. front \in Seq(Accounts) /\ ToSet(front) = ToSet(own) \cup closed
  BY <1>2, <1>3, ToSetOfConcat
<1>8. OperationList(t, i) = front \o sponsor
  BY <1>5
<1> HIDE DEF front
<1>9. /\ front \o sponsor \in Seq(Accounts)
      /\ ToSet(front \o sponsor) = ToSet(front) \cup ToSet(sponsor)
  BY <1>4, <1>7, ToSetOfConcat
<1>10. QED
  BY <1>2, <1>4, <1>6, <1>7, <1>8, <1>9

-----------------------------------------------------------------------------
(***************************************************************************)
(* The run of getParticipants                                              *)
(***************************************************************************)

Phases == {"changes", "operations", "deduping", "done", "failed"}

CollectTypeOK ==
    /\ tx \in Transactions /\ phase \in Phases
    /\ at \in Nat \ {0}
    /\ phase = "changes" => at <= Len(tx.changes) + 1
    /\ phase \in {"operations", "deduping"} => at <= Len(tx.ops) + 1
    /\ collected \in Seq(Accounts)

\* The accounts of the envelope and of the first n changes.
PartiesOfChanges(t, n) ==
    ({t.source, t.feeBump} \cup {t.changes[k] : k \in 1..n}) \ {NoAccount}

\* Those of the envelope, all changes and the first n operations.
PartiesUpTo(t, n) ==
    PartiesOfChanges(t, Len(t.changes))
      \cup UNION {PartiesOfOperation(t, i) : i \in 1..n}

\* What is collected is what the changes and operations behind bring in.
CollectedSoFar ==
    /\ phase = "changes" => ToSet(collected) = PartiesOfChanges(tx, at - 1)
    /\ phase \in {"operations", "deduping"} =>
         ToSet(collected) = PartiesUpTo(tx, at - 1)

\* dedupeParticipants was called with the list of the operation, or with the whole.
CalledForTheRight ==
    phase = "deduping" =>
      given = IF at <= Len(tx.ops) THEN OperationList(tx, at) ELSE collected

CollectInv ==
    /\ CollectTypeOK /\ DedupeInv
    /\ CollectedSoFar /\ CalledForTheRight /\ ReturnsTheParties

\* The transaction is one the network let through, and its parts are sequences.
LEMMA TransactionType ==
    ASSUME tx \in Transactions
    PROVE  /\ tx \in Transaction /\ WellFormed(tx)
           /\ tx.changes \in Seq(Accounts \cup {NoAccount, NoType})
           /\ DOMAIN tx.changes = 1..Len(tx.changes) /\ Len(tx.changes) \in Nat
           /\ DOMAIN tx.ops = 1..Len(tx.ops) /\ Len(tx.ops) \in Nat
           /\ tx.source \in Accounts /\ tx.feeBump \in Accounts \cup {NoAccount}
<1>1. tx \in Transaction /\ WellFormed(tx)
  BY ParticipantsAssumption
<1>2. /\ tx.changes \in Seq(Accounts \cup {NoAccount, NoType})
      /\ tx.ops \in Seq(Operation)
      /\ tx.source \in Accounts /\ tx.feeBump \in Accounts \cup {NoAccount}
  BY <1>1 DEF Transaction
<1>3. QED
  BY <1>1, <1>2

\* One more operation adds its parties.
LEMMA PartiesGrow ==
    ASSUME NEW t, NEW n \in Nat \ {0}
    PROVE  PartiesUpTo(t, n) = PartiesUpTo(t, n - 1) \cup PartiesOfOperation(t, n)
<1>1. 1..n = (1..n - 1) \cup {n}
  OBVIOUS
<1>2. QED
  BY <1>1 DEF PartiesUpTo

LEMMA PartiesOfNone ==
    ASSUME NEW t
    PROVE  /\ PartiesUpTo(t, 0) = PartiesOfChanges(t, Len(t.changes))
           /\ PartiesOfChanges(t, 0) = {t.source, t.feeBump} \ {NoAccount}
BY DEF PartiesUpTo, PartiesOfChanges

\* At the end nothing is left out.
LEMMA PartiesOfAll ==
    ASSUME tx \in Transactions
    PROVE  PartiesUpTo(tx, Len(tx.ops)) = Parties(tx)
<1>1. ToSet(tx.changes) = {tx.changes[k] : k \in 1..Len(tx.changes)}
  BY TransactionType DEF ToSet
<1>2. ASSUME NEW i \in 1..Len(tx.ops)
      PROVE  NoAccount \notin PartiesOfOperation(tx, i)
  <2>1. i \in DOMAIN tx.ops
    BY TransactionType
  <2>2. /\ OperationList(tx, i) \in Seq(Accounts)
        /\ ToSet(OperationList(tx, i)) = PartiesOfOperation(tx, i)
    BY <2>1, TransactionType, OperationListNamesParties
  <2>3. ToSet(OperationList(tx, i)) \subseteq Accounts
    BY <2>2 DEF ToSet
  <2>4. QED
    BY <2>2, <2>3, ParticipantsAssumption
<1>3. DOMAIN tx.ops = 1..Len(tx.ops)
  BY TransactionType
<1>4. QED
  BY <1>1, <1>2, <1>3 DEF Parties, PartiesUpTo, PartiesOfChanges

-----------------------------------------------------------------------------

LEMMA CollectInit == Init => CollectInv
<1> SUFFICES ASSUME Init PROVE CollectInv
  OBVIOUS
<1>1. /\ tx \in Transactions /\ phase = "changes" /\ at = 1
      /\ collected = <<tx.source>> \o ListOf(tx.feeBump) /\ Called(<<>>)
  BY DEF Init
<1>2. DedupeInv
  <2>1. <<>> \in Seq(Accounts)
    OBVIOUS
  <2>2. DedupeInit
    BY <1>1, <2>1 DEF DedupeInit
  <2>3. QED
    BY <2>2, DedupeInvInit
<1>3. /\ collected \in Seq(Accounts)
      /\ ToSet(collected) = PartiesOfChanges(tx, 0)
  <2> DEFINE one == <<tx.source>>  fee == ListOf(tx.feeBump)
  <2>1. /\ one \in Seq(Accounts) /\ ToSet(one) = {tx.source}
        /\ fee \in Seq(Accounts) /\ ToSet(fee) = {tx.feeBump} \ {NoAccount}
        /\ collected = one \o fee /\ tx.source # NoAccount
    BY <1>1, TransactionType, ToSetOfOne, ListOfType, ParticipantsAssumption
  <2> HIDE DEF one, fee
  <2>2. collected \in Seq(Accounts) /\ ToSet(collected) = ToSet(one) \cup ToSet(fee)
    BY <2>1, ToSetOfConcat
  <2>3. QED
    BY <2>1, <2>2, PartiesOfNone
<1>4. Len(tx.changes) \in Nat
  BY <1>1, TransactionType
<1>5. CollectTypeOK
  BY <1>1, <1>3, <1>4 DEF CollectTypeOK, Phases
<1>6. QED
  BY <1>1, <1>2, <1>3, <1>5
  DEF CollectInv, CollectedSoFar, CalledForTheRight, ReturnsTheParties

\* Where nothing but the phase changes, or nothing at all, the call stands still.
LEMMA DedupeStandsStill == DedupeInv /\ UNCHANGED call => DedupeInv'
BY DedupeInvStep DEF call

LEMMA TakeChangeStep ==
    ASSUME CollectInv, TakeChange
    PROVE  CollectInv'
<1> DEFINE c == tx.changes[at]
<1>1. /\ tx \in Transactions /\ phase = "changes" /\ at \in Nat \ {0}
      /\ at <= Len(tx.changes) /\ c # NoType
      /\ collected \in Seq(Accounts) /\ collected' = collected \o ListOf(c)
      /\ at' = at + 1 /\ UNCHANGED <<tx, phase, call>>
      /\ ToSet(collected) = PartiesOfChanges(tx, at - 1)
  BY DEF CollectInv, CollectTypeOK, CollectedSoFar, TakeChange
<1>2. c \in Accounts \cup {NoAccount} /\ Len(tx.changes) \in Nat
  BY <1>1, TransactionType
<1>3. /\ collected' \in Seq(Accounts)
      /\ ToSet(collected') = PartiesOfChanges(tx, at)
  <2> DEFINE l == ListOf(c)
  <2>1. l \in Seq(Accounts) /\ ToSet(l) = {c} \ {NoAccount} /\ collected' = collected \o l
    BY <1>1, <1>2, ListOfType
  <2> HIDE DEF l
  <2>2. /\ collected' \in Seq(Accounts)
        /\ ToSet(collected') = ToSet(collected) \cup ToSet(l)
    BY <1>1, <2>1, ToSetOfConcat
  <2>3. 1..at = (1..at - 1) \cup {at}
    BY <1>1
  <2>4. PartiesOfChanges(tx, at) = PartiesOfChanges(tx, at - 1) \cup ({c} \ {NoAccount})
    BY <2>3 DEF PartiesOfChanges
  <2>5. QED
    BY <1>1, <2>1, <2>2, <2>4
<1>4. CollectTypeOK'
  BY <1>1, <1>2, <1>3 DEF CollectTypeOK, Phases
<1>5. DedupeInv'
  BY <1>1, DedupeStandsStill DEF CollectInv
<1>6. CollectedSoFar'
  <2>1. at' - 1 = at /\ phase' = "changes" /\ tx' = tx
    BY <1>1
  <2>2. ToSet(collected') = PartiesOfChanges(tx', at' - 1)
    BY <1>3, <2>1
  <2>3. ToSet(collected)' = ToSet(collected')
    BY DEF ToSet
  <2>4. QED
    BY <2>1, <2>2, <2>3 DEF CollectedSoFar, PartiesOfChanges
<1>7. QED
  BY <1>1, <1>4, <1>5, <1>6
  DEF CollectInv, CalledForTheRight, ReturnsTheParties

LEMMA ChangesDoneStep ==
    ASSUME CollectInv, ChangesDone
    PROVE  CollectInv'
<1>1. /\ tx \in Transactions /\ phase = "changes" /\ at \in Nat \ {0}
      /\ at <= Len(tx.changes) + 1 /\ at > Len(tx.changes)
      /\ collected \in Seq(Accounts)
      /\ phase' = "operations" /\ at' = 1 /\ UNCHANGED <<tx, collected, call>>
      /\ ToSet(collected) = PartiesOfChanges(tx, at - 1)
  BY DEF CollectInv, CollectTypeOK, CollectedSoFar, ChangesDone
<1>2. Len(tx.changes) \in Nat /\ Len(tx.ops) \in Nat
  BY <1>1, TransactionType
<1>3. at - 1 = Len(tx.changes)
  BY <1>1, <1>2
<1>4. ToSet(collected) = PartiesUpTo(tx, 0)
  BY <1>1, <1>3, PartiesOfNone
<1>5. CollectTypeOK'
  BY <1>1, <1>2 DEF CollectTypeOK, Phases
<1>6. DedupeInv'
  BY <1>1, DedupeStandsStill DEF CollectInv
<1>7. CollectedSoFar'
  <2>1. at' - 1 = 0
    BY <1>1
  <2>2. ToSet(collected') = PartiesUpTo(tx', at' - 1)
    BY <1>1, <1>4, <2>1
  <2>3. QED
    BY <1>1, <2>2 DEF CollectedSoFar
<1>8. QED
  BY <1>1, <1>5, <1>6, <1>7
  DEF CollectInv, CalledForTheRight, ReturnsTheParties

LEMMA FailStep ==
    ASSUME CollectInv, FailOnChange \/ FailOnOperation
    PROVE  CollectInv'
<1>1. phase' = "failed" /\ UNCHANGED <<tx, at, collected, call>>
  BY DEF FailOnChange, FailOnOperation
<1>2. DedupeInv'
  BY <1>1, DedupeStandsStill DEF CollectInv
<1>3. CollectTypeOK'
  BY <1>1 DEF CollectInv, CollectTypeOK, Phases
<1>4. QED
  BY <1>1, <1>2, <1>3
  DEF CollectInv, CollectedSoFar, CalledForTheRight, ReturnsTheParties

\* A call starts the pass on what it is given.
LEMMA CallStep ==
    ASSUME NEW s \in Seq(Accounts), CallDedupe(s)
    PROVE  DedupeInv'
<1>1. /\ given' = s /\ slice' = s /\ sorted' = <<>>
      /\ stage' = "called" /\ cur' = 2 /\ insert' = 2
  BY DEF CallDedupe
<1>2. DedupeTypeOK'
  BY <1>1 DEF DedupeTypeOK
<1>3. QED
  BY <1>1, <1>2
  DEF DedupeInv, CalledWithGiven, SortedGiven, AheadUntouched, KeptIncreases,
      KeptIsSeen, EachOnce

LEMMA TakeOperationStep ==
    ASSUME CollectInv, TakeOperation
    PROVE  CollectInv'
<1>1. /\ tx \in Transactions /\ phase = "operations" /\ at \in Nat \ {0}
      /\ at <= Len(tx.ops) /\ CallDedupe(OperationList(tx, at))
      /\ UNCHANGED <<tx, at, collected>>
  BY DEF CollectInv, CollectTypeOK, TakeOperation
<1>2. at \in DOMAIN tx.ops
  BY <1>1, TransactionType
<1>3. OperationList(tx, at) \in Seq(Accounts)
  BY <1>1, <1>2, TransactionType, OperationListNamesParties
<1>4. DedupeInv'
  BY <1>1, <1>3, CallStep
<1>5. phase' = "deduping" /\ given' = OperationList(tx, at)
  BY <1>1 DEF CallDedupe
<1>6. CollectTypeOK'
  BY <1>1, <1>5 DEF CollectInv, CollectTypeOK, Phases
<1>7. CollectedSoFar'
  <2>1. ToSet(collected) = PartiesUpTo(tx, at - 1)
    BY <1>1 DEF CollectInv, CollectedSoFar
  <2>2. ToSet(collected') = PartiesUpTo(tx', at' - 1)
    BY <1>1, <2>1
  <2>3. QED
    BY <1>5, <2>2 DEF CollectedSoFar
<1>8. CalledForTheRight'
  <2>1. given' = OperationList(tx', at') /\ at' <= Len(tx'.ops)
    BY <1>1, <1>5
  <2>2. QED
    BY <2>1 DEF CalledForTheRight
<1>9. QED
  BY <1>4, <1>5, <1>6, <1>7, <1>8 DEF CollectInv, ReturnsTheParties

LEMMA OperationsDoneStep ==
    ASSUME CollectInv, OperationsDone
    PROVE  CollectInv'
<1>1. /\ tx \in Transactions /\ phase = "operations" /\ at \in Nat \ {0}
      /\ at > Len(tx.ops) /\ CallDedupe(collected) /\ collected \in Seq(Accounts)
      /\ UNCHANGED <<tx, at, collected>>
  BY DEF CollectInv, CollectTypeOK, OperationsDone
<1>2. Len(tx.ops) \in Nat
  BY <1>1, TransactionType
<1>3. DedupeInv'
  BY <1>1, CallStep
<1>4. phase' = "deduping" /\ given' = collected
  BY <1>1 DEF CallDedupe
<1>5. CollectTypeOK'
  BY <1>1, <1>4 DEF CollectInv, CollectTypeOK, Phases
<1>6. CollectedSoFar'
  <2>1. ToSet(collected) = PartiesUpTo(tx, at - 1)
    BY <1>1 DEF CollectInv, CollectedSoFar
  <2>2. ToSet(collected') = PartiesUpTo(tx', at' - 1)
    BY <1>1, <2>1
  <2>3. QED
    BY <1>4, <2>2 DEF CollectedSoFar
<1>7. CalledForTheRight'
  <2>1. given' = collected' /\ ~(at' <= Len(tx'.ops))
    BY <1>1, <1>2, <1>4
  <2>2. QED
    BY <2>1 DEF CalledForTheRight
<1>8. QED
  BY <1>3, <1>4, <1>5, <1>6, <1>7 DEF CollectInv, ReturnsTheParties

LEMMA DedupeStepStep ==
    ASSUME CollectInv, DedupeStep
    PROVE  CollectInv'
<1>1. phase = "deduping" /\ DedupeNext /\ UNCHANGED <<tx, phase, at, collected>>
  BY DEF DedupeStep
<1>2. DedupeInv'
  BY <1>1, DedupeInvStep DEF CollectInv
<1>3. given' = given
  BY <1>1 DEF DedupeNext, ReturnShort, SortSlice, SkipRepeat, KeepEntry, ReturnKept
<1>4. CollectTypeOK'
  BY <1>1 DEF CollectInv, CollectTypeOK
<1>5. CollectedSoFar'
  <2>1. ToSet(collected) = PartiesUpTo(tx, at - 1)
    BY <1>1 DEF CollectInv, CollectedSoFar
  <2>2. ToSet(collected') = PartiesUpTo(tx', at' - 1)
    BY <1>1, <2>1
  <2>3. QED
    BY <1>1, <2>2 DEF CollectedSoFar
<1>6. CalledForTheRight'
  <2>1. given = IF at <= Len(tx.ops) THEN OperationList(tx, at) ELSE collected
    BY <1>1 DEF CollectInv, CalledForTheRight
  <2>2. given' = IF at' <= Len(tx'.ops) THEN OperationList(tx', at') ELSE collected'
    BY <1>1, <1>3, <2>1
  <2>3. QED
    BY <2>2 DEF CalledForTheRight
<1>7. QED
  BY <1>1, <1>2, <1>4, <1>5, <1>6 DEF CollectInv, ReturnsTheParties

\* The list that comes back has the parties of the operation.
LEMMA ReturnedNamesParties ==
    ASSUME CollectInv, phase = "deduping", stage = "returned", at <= Len(tx.ops)
    PROVE  slice \in Seq(Accounts) /\ ToSet(slice) = PartiesOfOperation(tx, at)
<1>1. /\ tx \in Transactions /\ at \in Nat \ {0}
      /\ given = OperationList(tx, at) /\ slice \in Seq(Accounts)
      /\ ToSet(slice) = ToSet(given)
  BY DEF CollectInv, CollectTypeOK, CalledForTheRight, DedupeInv, DedupeTypeOK,
         EachOnce
<1>2. at \in DOMAIN tx.ops
  BY <1>1, TransactionType
<1>3. ToSet(OperationList(tx, at)) = PartiesOfOperation(tx, at)
  BY <1>1, <1>2, TransactionType, OperationListNamesParties
<1>4. QED
  BY <1>1, <1>3

LEMMA OperationDedupedStep ==
    ASSUME CollectInv, OperationDeduped
    PROVE  CollectInv'
<1>1. /\ phase = "deduping" /\ stage = "returned" /\ at <= Len(tx.ops)
      /\ collected' = collected \o slice /\ at' = at + 1 /\ phase' = "operations"
      /\ UNCHANGED <<tx, call>>
      /\ tx \in Transactions /\ at \in Nat \ {0} /\ collected \in Seq(Accounts)
      /\ ToSet(collected) = PartiesUpTo(tx, at - 1)
  BY DEF CollectInv, CollectTypeOK, CollectedSoFar, OperationDeduped
<1>2. slice \in Seq(Accounts) /\ ToSet(slice) = PartiesOfOperation(tx, at)
  BY <1>1, ReturnedNamesParties
<1>3. /\ collected' \in Seq(Accounts)
      /\ ToSet(collected') = ToSet(collected) \cup ToSet(slice)
  BY <1>1, <1>2, ToSetOfConcat
<1>4. ToSet(collected') = PartiesUpTo(tx, at)
  BY <1>1, <1>2, <1>3, PartiesGrow
<1>5. Len(tx.ops) \in Nat
  BY <1>1, TransactionType
<1>6. CollectTypeOK'
  BY <1>1, <1>3, <1>5 DEF CollectTypeOK, Phases
<1>7. DedupeInv'
  BY <1>1, DedupeStandsStill DEF CollectInv
<1>8. CollectedSoFar'
  <2>1. at' - 1 = at
    BY <1>1
  <2>2. ToSet(collected') = PartiesUpTo(tx', at' - 1)
    BY <1>1, <1>4, <2>1
  <2>3. QED
    BY <1>1, <2>2 DEF CollectedSoFar
<1>9. QED
  BY <1>1, <1>6, <1>7, <1>8
  DEF CollectInv, CalledForTheRight, ReturnsTheParties

\* The last pass sorts and thins what was collected, and nothing was left out.
LEMMA AllDedupedStep ==
    ASSUME CollectInv, AllDeduped
    PROVE  CollectInv'
<1>1. /\ phase = "deduping" /\ stage = "returned" /\ at > Len(tx.ops)
      /\ collected' = slice /\ phase' = "done" /\ UNCHANGED <<tx, at, call>>
      /\ tx \in Transactions /\ at \in Nat \ {0} /\ at <= Len(tx.ops) + 1
      /\ ToSet(collected) = PartiesUpTo(tx, at - 1)
      /\ slice \in Seq(Accounts) /\ Increasing(slice) /\ ToSet(slice) = ToSet(given)
  BY DEF CollectInv, CollectTypeOK, CollectedSoFar, AllDeduped, DedupeInv,
         DedupeTypeOK, EachOnce
<1>2. Len(tx.ops) \in Nat
  BY <1>1, TransactionType
<1>3. at - 1 = Len(tx.ops) /\ ~(at <= Len(tx.ops))
  BY <1>1, <1>2
<1>4. given = collected
  BY <1>1, <1>3 DEF CollectInv, CalledForTheRight
<1>5. ToSet(slice) = Parties(tx)
  BY <1>1, <1>3, <1>4, PartiesOfAll
<1>6. CollectTypeOK'
  BY <1>1 DEF CollectTypeOK, Phases
<1>7. DedupeInv'
  BY <1>1, DedupeStandsStill DEF CollectInv
<1>8. ReturnsTheParties'
  <2>1. Increasing(collected') /\ ToSet(collected') = Parties(tx')
    BY <1>1, <1>5
  <2>2. QED
    BY <2>1 DEF ReturnsTheParties
<1>9. QED
  BY <1>1, <1>6, <1>7, <1>8 DEF CollectInv, CollectedSoFar, CalledForTheRight

LEMMA CollectStill ==
    ASSUME CollectInv, UNCHANGED vars
    PROVE  CollectInv'
<1>1. UNCHANGED <<tx, phase, at, collected>> /\ UNCHANGED call /\ given' = given
  BY DEF vars, call, dedupeVars
<1>2. DedupeInv'
  BY <1>1, DedupeStandsStill DEF CollectInv
<1>3. CollectTypeOK'
  BY <1>1 DEF CollectInv, CollectTypeOK
<1>4. CollectedSoFar'
  <2>1. /\ phase' = "changes" => ToSet(collected') = PartiesOfChanges(tx', at' - 1)
        /\ phase' \in {"operations", "deduping"} =>
             ToSet(collected') = PartiesUpTo(tx', at' - 1)
    BY <1>1 DEF CollectInv, CollectedSoFar
  <2>2. QED
    BY <2>1 DEF CollectedSoFar
<1>5. CalledForTheRight'
  <2>1. phase' = "deduping" =>
          given' = IF at' <= Len(tx'.ops) THEN OperationList(tx', at') ELSE collected'
    BY <1>1 DEF CollectInv, CalledForTheRight
  <2>2. QED
    BY <2>1 DEF CalledForTheRight
<1>6. ReturnsTheParties'
  <2>1. phase' = "done" => Increasing(collected') /\ ToSet(collected') = Parties(tx')
    BY <1>1 DEF CollectInv, ReturnsTheParties
  <2>2. QED
    BY <2>1 DEF ReturnsTheParties
<1>7. QED
  BY <1>2, <1>3, <1>4, <1>5, <1>6 DEF CollectInv

\* CollectInv is inductive.
THEOREM CollectInvariance == Spec => []CollectInv
<1>1. CollectInv /\ [Next]_vars => CollectInv'
  BY TakeChangeStep, ChangesDoneStep, FailStep, TakeOperationStep,
     OperationsDoneStep, DedupeStepStep, OperationDedupedStep, AllDedupedStep,
     CollectStill
  DEF Next
<1>2. QED
  BY <1>1, CollectInit, PTL DEF Spec

\* The list of an operation has its parties, whichever sponsorships were opened and
\* closed before it: the search finds the begin that is open, and no sponsor hides
\* behind a change without one.
THEOREM OperationNamesItsPartiesHolds == Spec => []OperationNamesItsParties
<1>1. CollectInv => OperationNamesItsParties
  BY ReturnedNamesParties DEF OperationNamesItsParties
<1>2. QED
  BY <1>1, CollectInvariance, PTL

\* getParticipants returns exactly the accounts that take part, each once, for any
\* transaction the network lets through.
THEOREM ReturnsThePartiesHolds == Spec => []ReturnsTheParties
<1>1. CollectInv => ReturnsTheParties
  BY DEF CollectInv
<1>2. QED
  BY <1>1, CollectInvariance, PTL

\* De-duplication keeps its promises in every call getParticipants makes.
THEOREM EveryCallReturnsEachOnce == Spec => [](EachOnce /\ ReadsUnwritten)
<1>1. CollectInv => EachOnce /\ ReadsUnwritten
  BY PassReadsUnwritten DEF CollectInv, DedupeInv
<1>2. QED
  BY <1>1, CollectInvariance, PTL
=============================================================================
