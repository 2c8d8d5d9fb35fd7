------------------------------- MODULE Dedupe -------------------------------
(***************************************************************************)
(* dedupeParticipants of cdp_processor/ingest.go: sort the slice, then     *)
(* close the gaps that repeated entries leave, in place and in one pass.   *)
(* An account stands for its address by the rank of the address in the     *)
(* order of strings.  Indices count from 1, the code's from 0.             *)
(***************************************************************************)
EXTENDS Integers, Sequences, FiniteSets, SequencesExt

CONSTANT Accounts  \* ranks of account addresses

ASSUME DedupeAssumption == Accounts \subseteq Int

VARIABLES
    given,   \* history: the slice at the call
    sorted,  \* history: the slice as sort.Slice left it
    stage,   \* "called", "looping" or "returned"
    slice,   \* the slice, overwritten in place; at the end what is returned
    cur,     \* the entry to look at next
    insert   \* the place of the next entry to keep

dedupeVars == <<given, sorted, stage, slice, cur, insert>>

DedupeTypeOK ==
    /\ given \in Seq(Accounts) /\ sorted \in Seq(Accounts) /\ slice \in Seq(Accounts)
    /\ stage \in {"called", "looping", "returned"}
    /\ cur \in 2..Len(sorted) + 1 \/ (cur = 2 /\ sorted = <<>>)
    /\ insert \in 2..cur

Called(s) ==
    /\ given = s /\ slice = s /\ sorted = <<>>
    /\ stage = "called" /\ cur = 2 /\ insert = 2

DedupeInit == \E s \in Seq(Accounts) : Called(s)

\* A slice of at most one entry is returned as it is.
ReturnShort ==
    /\ stage = "called"
    /\ Len(slice) <= 1
    /\ stage' = "returned"
    /\ UNCHANGED <<given, sorted, slice, cur, insert>>

InOrder(s) == \A i, j \in DOMAIN s : i < j => s[i] <= s[j]

\* The places where s has an a.
PlacesOf(s, a) == {i \in DOMAIN s : s[i] = a}

Rearranges(s, t) ==
    /\ t \in [DOMAIN s -> ToSet(s)]
    /\ \A a \in ToSet(s) : Cardinality(PlacesOf(t, a)) = Cardinality(PlacesOf(s, a))

\* Mutant: the slice is not sorted.
Unsorted(s) == {s}

\* What sort.Slice leaves: the entries of s by address, computed by SortSeq.  The
\* second line says all that the function relies on.
Sortings(s) == {t \in {SortSeq(s, <)} : InOrder(t) /\ Rearranges(s, t)}

SortSlice ==
    /\ stage = "called"
    /\ Len(slice) > 1
    /\ sorted' \in Sortings(slice)
    /\ slice' = sorted'
    /\ stage' = "looping"
    /\ UNCHANGED <<given, cur, insert>>

\* Mutant: the comparison is with the place that is written next.
RepeatsAtInsert == slice[cur] = slice[insert]

\* in[cur] equals the entry before it.
Repeats == slice[cur] = slice[cur - 1]

SkipRepeat ==
    /\ stage = "looping"
    /\ cur <= Len(slice)
    /\ Repeats
    /\ cur' = cur + 1
    /\ UNCHANGED <<given, sorted, stage, slice, insert>>

KeepEntry ==
    /\ stage = "looping"
    /\ cur <= Len(slice)
    /\ ~Repeats
    /\ slice' = [slice EXCEPT ![insert] = slice[cur]]
    /\ insert' = insert + 1
    /\ cur' = cur + 1
    /\ UNCHANGED <<given, sorted, stage>>

\* Mutant: the whole slice is returned.
WholeSlice == slice

\* in[:insert]
Kept == SubSeq(slice, 1, insert - 1)

ReturnKept ==
    /\ stage = "looping"
    /\ cur > Len(slice)
    /\ slice' = Kept
    /\ stage' = "returned"
    /\ UNCHANGED <<given, sorted, cur, insert>>

DedupeNext == ReturnShort \/ SortSlice \/ SkipRepeat \/ KeepEntry \/ ReturnKept

DedupeSpec == DedupeInit /\ [][DedupeNext]_dedupeVars

(***************************************************************************)
(* Properties                                                              *)
(***************************************************************************)

Increasing(s) == \A i, j \in DOMAIN s : i < j => s[i] < s[j]

\* dedupeParticipants returns every account it was given, once, by address.
EachOnce ==
    stage = "returned" => Increasing(slice) /\ ToSet(slice) = ToSet(given)

\* The pass writes behind what it still reads: the entry it compares with and
\* all after it are as the sort left them, and what it kept so far are the
\* entries before them, each once.
ReadsUnwritten ==
    stage = "looping" =>
      /\ \A i \in cur - 1..Len(sorted) : slice[i] = sorted[i]
      /\ Increasing(Kept)
      /\ ToSet(Kept) = {sorted[i] : i \in 1..cur - 1}
=============================================================================
