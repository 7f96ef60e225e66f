------------------------------- MODULE Versions -------------------------------
(***************************************************************************)
(* Version names as WordPress.org lists them, and what the repository makes *)
(* of them.  A name is a record: how it is written before the number (lead: *)
(* 0 nothing, 1 a blank, 2 "V", 3 "v", in the order of their bytes, or 4 a   *)
(* dot, as no version starts), its numbers, and the rank of its suffix (0   *)
(* for none, the others in their lexical order).  The name of trunk has no  *)
(* numbers.                                                                 *)
(*                                                                          *)
(* The code builds and reads its version maps in Go's map order, which is   *)
(* any order: the operators that depend on it take the names as a sequence  *)
(* (Latest: at least numbered).                                             *)
(***************************************************************************)
EXTENDS Integers, SequencesExt

Trunk == [lead |-> 0, num |-> <<>>, suf |-> 0]   \* "dev-trunk"
NoVersion == [lead |-> 0, num |-> <<-1>>, suf |-> 0]   \* the empty string

Name == [lead : 0 .. 4, num : Seq(Nat), suf : Nat]

IsValid(v) == v # NoVersion /\ v.lead # 4 /\ Len(v.num) \in 0 .. 4

Normalize(v) == IF IsValid(v) THEN [v EXCEPT !.lead = 0] ELSE NoVersion

\* Mutant: the last name seen wins.
preferRawLast(v, prev) == TRUE

\* A name that is already normalized wins, otherwise the smallest.
preferRawVersion(v, prev) ==
  IF (v.lead = 0) # (prev.lead = 0) THEN v.lead = 0 ELSE v.lead < prev.lead

\* The loop over the raw names: for each version the name it was taken from (its
\* download URL is that name's).
Take(chosen, v) ==
  LET n == Normalize(v)
  IN IF n = NoVersion \/ (n \in DOMAIN chosen /\ ~preferRawVersion(v, chosen[n]))
     THEN chosen
     ELSE [m \in DOMAIN chosen \cup {n} |-> IF m = n THEN v ELSE chosen[m]]

Nothing == [n \in {} |-> n]

NormalizeInOrder(names) == FoldLeft(Take, Nothing, names)

IsStable(v) == v.suf = 0

Sign(i) == IF i > 0 THEN 1 ELSE IF i < 0 THEN -1 ELSE 0
Part(v, i) == IF i <= Len(v.num) THEN v.num[i] ELSE 0

\* Segment by segment, a missing one counts as 0; then no suffix is above any.
Compare(a, b) ==
  LET differ == {i \in 1 .. 4 : Part(a, i) # Part(b, i)}
      first == Min(differ)
  IN IF differ # {} THEN Sign(Part(a, first) - Part(b, first))
     ELSE IF a.suf = 0 \/ b.suf = 0 THEN Sign(b.suf - a.suf)
     ELSE Sign(a.suf - b.suf)

\* Stable versions above max are not offered; pre-releases and trunk stay.
FilterNewerThan(map, max) ==
  IF Normalize(max) \in {NoVersion, Trunk} THEN map
  ELSE [v \in {w \in DOMAIN map : \/ w = Trunk \/ ~IsStable(w)
                                  \/ Compare(w, Normalize(max)) <= 0} |-> map[v]]

Higher(v, best) == IF best = NoVersion \/ Compare(v, best) > 0 THEN v ELSE best

\* The highest of the names with the indices I, the first of those that are equal.
Highest(names, I) == MapThenFoldSet(Higher, NoVersion, LAMBDA i : names[i], Max, I)

Tagged(names) == {i \in DOMAIN names : names[i] # Trunk}

\* Mutant: pre-releases count like releases.
LatestAny(names) == Highest(names, Tagged(names))

\* The loop of Latest: the highest stable version, or the highest of all. The names
\* are met in the order of their indices.
Latest(names) ==
  LET stable == {i \in Tagged(names) : IsStable(names[i])}
  IN Highest(names, IF stable = {} THEN Tagged(names) ELSE stable)

-----------------------------------------------------------------------------
(* The Composer files of a package.                                         *)

\* Tagged versions in the main file; trunk there only when there are no others.
MainFile(theme, versions) ==
  LET tagged == DOMAIN versions \ {Trunk}
  IN IF tagged = {} /\ ~theme THEN {Trunk} ELSE tagged

DevFile(theme) == IF theme THEN {} ELSE {Trunk}

\* The content hash covers the versions and their names, the trunk revision and
\* the published times, which may be NULL.
HashVersions(versions, trunkRevision, stamped, times) ==
  <<versions, trunkRevision, stamped, times>>

=============================================================================
