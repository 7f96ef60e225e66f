----------------------------- MODULE OgImagesProofs -----------------------------
(***************************************************************************)
(* A package that generate-og passes over has the image of its count, for    *)
(* every number of packages and workers, every buffer and all counts, through *)
(* failures, crashes and counts that grow while images are made.             *)
(***************************************************************************)
EXTENDS OgImages, TLAPS

-----------------------------------------------------------------------------
(* Labels.                                                                  *)

\* Rounded down, or up.
LEMMA ThousandsIs ==
  ASSUME NEW n \in Nat
  PROVE  LET q == n \div 1000
             r == n % 1000
         IN /\ q \in Nat /\ r \in 0 .. 999 /\ n = 1000 * q + r
            /\ Thousands(n) = IF r < 500 \/ (r = 500 /\ q % 2 = 0) THEN q ELSE q + 1
<1> DEFINE q == n \div 1000
           r == n % 1000
<1>1. q \in Nat /\ r \in 0 .. 999 /\ n = 1000 * q + r
  OBVIOUS
<1>2. CASE r = 500 /\ q % 2 = 0
  BY <1>1, <1>2 DEF Thousands
<1>3. CASE ~(r = 500 /\ q % 2 = 0)
  <2>1. Thousands(n) = (n + 500) \div 1000
    BY <1>3 DEF Thousands
  <2>2. r < 500 => (n + 500) \div 1000 = q
    BY <1>1
  <2>3. r >= 500 => (n + 500) \div 1000 = q + 1
    BY <1>1
  <2> QED BY <1>1, <1>3, <2>1, <2>2, <2>3
<1> QED BY <1>1, <1>2, <1>3

LEMMA ThousandsGrow ==
  ASSUME NEW n \in Nat, NEW k \in Nat, n <= k
  PROVE  Thousands(n) \in Nat /\ Thousands(k) \in Nat /\ Thousands(n) <= Thousands(k)
<1> DEFINE qn == n \div 1000
           rn == n % 1000
           qk == k \div 1000
           rk == k % 1000
<1>1. /\ qn \in Nat /\ rn \in 0 .. 999 /\ n = 1000 * qn + rn
      /\ Thousands(n) = IF rn < 500 \/ (rn = 500 /\ qn % 2 = 0) THEN qn ELSE qn + 1
  BY ThousandsIs
<1>2. /\ qk \in Nat /\ rk \in 0 .. 999 /\ k = 1000 * qk + rk
      /\ Thousands(k) = IF rk < 500 \/ (rk = 500 /\ qk % 2 = 0) THEN qk ELSE qk + 1
  BY ThousandsIs
<1> HIDE DEF qn, rn, qk, rk
<1>3. qn <= qk /\ (qn = qk => rn <= rk)
  BY <1>1, <1>2
<1>4. CASE qn < qk
  <2>1. Thousands(n) \in Nat /\ Thousands(n) <= qn + 1
    BY <1>1
  <2>2. Thousands(k) \in Nat /\ qk <= Thousands(k)
    BY <1>2
  <2> QED BY <1>1, <1>2, <1>4, <2>1, <2>2
<1>5. CASE qn = qk
  <2> DEFINE up == qn % 2 = 0
  <2>1. qk % 2 = 0 <=> up
    BY <1>5
  <2> HIDE DEF up
  <2>2. Thousands(n) = IF rn < 500 \/ (rn = 500 /\ up) THEN qn ELSE qn + 1
    BY <1>1 DEF up
  <2>3. Thousands(k) = IF rk < 500 \/ (rk = 500 /\ up) THEN qn ELSE qn + 1
    BY <1>2, <1>5, <2>1
  <2> QED BY <1>1, <1>2, <1>3, <1>5, <2>2, <2>3
<1> QED BY <1>1, <1>2, <1>3, <1>4, <1>5

Floor(n) == IF n >= 100 THEN (n \div 100) * 100 ELSE (n \div 10) * 10

\* Labels of the four ranges.
LEMMA LabelIs ==
  ASSUME NEW n \in Nat
  PROVE  /\ n >= 1000000 => FormatInstalls(n) = <<(n + 50000) \div 100000, "M">>
         /\ n >= 1000 /\ n < 1000000 => FormatInstalls(n) = <<Thousands(n), "k">>
         /\ n >= 10 /\ n < 1000 => FormatInstalls(n) = <<Floor(n), "+">>
         /\ n < 10 => FormatInstalls(n) = <<n, "none">>
<1>1. n >= 1000000 => FormatInstalls(n) = <<(n + 50000) \div 100000, "M">>
  BY SMT DEF FormatInstalls
<1>2. n >= 1000 /\ n < 1000000 => FormatInstalls(n) = <<Thousands(n), "k">>
  BY SMT DEF FormatInstalls
<1>3. n >= 10 /\ n < 1000 => FormatInstalls(n) = <<Floor(n), "+">>
  <2>1. n >= 100 /\ n < 1000 => FormatInstalls(n) = <<(n \div 100) * 100, "+">>
    BY SMT DEF FormatInstalls
  <2>2. n >= 10 /\ n < 100 => FormatInstalls(n) = <<(n \div 10) * 10, "+">>
    BY SMT DEF FormatInstalls
  <2> QED BY <2>1, <2>2, SMT DEF Floor
<1>4. n < 10 => FormatInstalls(n) = <<n, "none">>
  BY SMT DEF FormatInstalls
<1> QED BY <1>1, <1>2, <1>3, <1>4, SMT

LEMMA FloorGrows ==
  ASSUME NEW n \in Nat, NEW k \in Nat, n <= k
  PROVE  Floor(n) \in Nat /\ Floor(k) \in Nat /\ Floor(n) <= Floor(k)
BY SMT DEF Floor

LEMMA SameNumber == ASSUME NEW a, NEW b, NEW u, <<a, u>> = <<b, u>> PROVE a = b
OBVIOUS

LEMMA SameUnit == ASSUME NEW a, NEW b, NEW u, NEW w, <<a, u>> = <<b, w>> PROVE u = w
OBVIOUS

\* A count between two that read the same reads the same.
LEMMA Between ==
  ASSUME NEW n \in Nat, NEW k \in Nat, NEW m \in Nat, n <= k, k <= m,
         FormatInstalls(n) = FormatInstalls(m)
  PROVE  FormatInstalls(k) = FormatInstalls(n)
<1>1. CASE n >= 1000000
  <2>1. \A i \in {n, k, m} : FormatInstalls(i) = <<(i + 50000) \div 100000, "M">>
    BY <1>1, LabelIs, SMT
  <2>2. (n + 50000) \div 100000 <= (k + 50000) \div 100000
        /\ (k + 50000) \div 100000 <= (m + 50000) \div 100000
    BY SMT
  <2>3. (n + 50000) \div 100000 = (m + 50000) \div 100000
    BY <2>1, SMT
  <2>4. (k + 50000) \div 100000 = (n + 50000) \div 100000
    BY <2>2, <2>3, SMT
  <2> QED BY <2>1, <2>4, SMT
<1>2. CASE n >= 1000 /\ n < 1000000
  <2>1. FormatInstalls(n) = <<Thousands(n), "k">>
    BY <1>2, LabelIs, SMT
  <2>2. m < 1000000
    <3> DEFINE tenths == (m + 50000) \div 100000
    <3>1. m >= 1000000 => FormatInstalls(m) = <<tenths, "M">>
      BY LabelIs, SMT
    <3> HIDE DEF tenths
    <3>2. ASSUME FormatInstalls(m) = <<tenths, "M">> PROVE FALSE
      <4>1. <<Thousands(n), "k">> = <<tenths, "M">>
        BY <2>1, <3>2
      <4>2. "k" = "M"
        BY <4>1, SameUnit
      <4> QED BY <4>2, SMT
    <3> QED BY <3>1, <3>2, SMT
  <2>3. FormatInstalls(k) = <<Thousands(k), "k">> /\ FormatInstalls(m) = <<Thousands(m), "k">>
    BY <1>2, <2>2, LabelIs, SMT
  <2>4. Thousands(n) = Thousands(m)
    <3>1. <<Thousands(n), "k">> = <<Thousands(m), "k">>
      BY <2>1, <2>3
    <3> QED BY <3>1, SameNumber
  <2>5. Thousands(n) <= Thousands(k) /\ Thousands(k) <= Thousands(m)
        /\ Thousands(n) \in Nat /\ Thousands(k) \in Nat
    BY ThousandsGrow, SMT
  <2>6. Thousands(k) = Thousands(n)
    BY <2>4, <2>5, SMT
  <2> QED BY <2>1, <2>3, <2>6, SMT
<1>3. CASE n >= 10 /\ n < 1000
  <2>1. FormatInstalls(n) = <<Floor(n), "+">>
    BY <1>3, LabelIs, SMT
  <2>2. m < 1000
    <3> SUFFICES ASSUME m >= 1000 PROVE FALSE
      BY SMT
    <3>1. FormatInstalls(m) = <<(m + 50000) \div 100000, "M">> \/ FormatInstalls(m) = <<Thousands(m), "k">>
      BY LabelIs, SMT
    <3> QED BY <2>1, <3>1, SMT
  <2>3. /\ Floor(n) <= Floor(k) /\ Floor(k) <= Floor(m)
        /\ Floor(n) \in Nat /\ Floor(k) \in Nat /\ Floor(m) \in Nat
    BY FloorGrows, SMT
  <2>4. /\ FormatInstalls(n) = <<Floor(n), "+">> /\ FormatInstalls(k) = <<Floor(k), "+">>
        /\ FormatInstalls(m) = <<Floor(m), "+">>
    BY <1>3, <2>2, LabelIs, SMT
  <2>5. Floor(n) = Floor(m)
    <3>1. <<Floor(n), "+">> = <<Floor(m), "+">>
      BY <2>4
    <3> QED BY <3>1, SameNumber
  <2>6. Floor(k) = Floor(n)
    BY <2>3, <2>5, SMT
  <2> QED BY <2>4, <2>6, SMT
<1>4. CASE n < 10
  <2>1. FormatInstalls(n) = <<n, "none">>
    BY <1>4, LabelIs, SMT
  <2>2. m < 10
    <3> SUFFICES ASSUME m >= 10 PROVE FALSE
      BY SMT
    <3>1. \/ FormatInstalls(m) = <<(m + 50000) \div 100000, "M">>
          \/ FormatInstalls(m) = <<Thousands(m), "k">>
          \/ FormatInstalls(m) = <<Floor(m), "+">>
      BY LabelIs, SMT
    <3> QED BY <2>1, <3>1, SMT
  <2>3. FormatInstalls(m) = <<m, "none">>
    BY <2>2, LabelIs, SMT
  <2>4. n = m
    <3>1. <<n, "none">> = <<m, "none">>
      BY <2>1, <2>3
    <3> QED BY <3>1, SameNumber
  <2> QED BY <2>4, SMT
<1> QED BY <1>1, <1>2, <1>3, <1>4, SMT

-----------------------------------------------------------------------------
(* Images.                                                                  *)

\* Rows that workers are busy with, and rows whose image is uploaded.
Busy == {w \in Workers : worker[w].step # "free"}
Held == {w \in Workers : worker[w].step = "send"}
RowOf(w) == [pkg |-> worker[w].pkg, total |-> worker[w].total]
Queued == {updates[i] : i \in DOMAIN updates}

Uploaded == {RowOf(w) : w \in Held} \cup Queued
Flight == work \cup {RowOf(w) : w \in Busy} \cup Queued

Types == TypeOK /\ \A w \in Busy : worker[w].pkg \in Packages

WorkerState == [pkg : Packages \cup {NoPackage}, total : Totals, step : {"free", "upload", "send"}]

\* What a run has read of a package lies between what is marked and the count.
FlightInv ==
  /\ \A r \in Flight :
       /\ r.total <= total[r.pkg]
       /\ mark[r.pkg].made => mark[r.pkg].total <= r.total
  /\ \A r, s \in Flight : r.pkg = s.pkg => r.total = s.total
  /\ step = "idle" => Flight = {}

UploadedInv == \A r \in Uploaded : image[r.pkg] = FormatInstalls(r.total)

\* The image of a marked package shows a count that is not older than the mark.
Shown ==
  \A p \in Packages : mark[p].made =>
    \E n \in Totals : mark[p].total <= n /\ n <= total[p] /\ image[p] = FormatInstalls(n)

IInv == Types /\ FlightInv /\ UploadedInv /\ Shown

LEMMA ShownSuffices == ASSUME IInv PROVE ImageCurrent
<1> SUFFICES ASSUME NEW p \in Packages, mark[p].made,
                    FormatInstalls(total[p]) = FormatInstalls(mark[p].total)
             PROVE  image[p] = FormatInstalls(total[p])
  BY DEF ImageCurrent
<1>1. PICK n \in Totals : mark[p].total <= n /\ n <= total[p] /\ image[p] = FormatInstalls(n)
  BY DEF IInv, Shown
<1>2. n \in Nat /\ mark[p].total \in Nat /\ total[p] \in Nat
  BY OgAssumption DEF IInv, Types, TypeOK
<1>3. FormatInstalls(n) = FormatInstalls(mark[p].total)
  BY <1>1, <1>2, Between
<1> QED BY <1>1, <1>3

\* Rows in flight are rows.
LEMMA FlightRows ==
  ASSUME Types
  PROVE  /\ Flight \subseteq Row /\ Uploaded \subseteq Flight
         /\ \A r \in Row : r.pkg \in Packages /\ r.total \in Totals /\ r.total \in Nat
<1>1. Queued \subseteq Row
  BY DEF Types, TypeOK, Queued
<1>2. ASSUME NEW w \in Busy PROVE RowOf(w) \in Row
  BY DEF Types, TypeOK, Busy, RowOf, Row
<1>3. Held \subseteq Busy
  BY DEF Held, Busy
<1>4. Flight \subseteq Row
  BY <1>1, <1>2 DEF Types, TypeOK, Flight
<1>5. Uploaded \subseteq Flight
  BY <1>3 DEF Uploaded, Flight
<1>6. \A r \in Row : r.pkg \in Packages /\ r.total \in Totals /\ r.total \in Nat
  BY OgAssumption DEF Row
<1> QED BY <1>4, <1>5, <1>6

\* Steps that put nothing new into flight and upload and mark nothing.
LEMMA LessInFlight ==
  ASSUME IInv, Types', UNCHANGED <<total, mark, image>>,
         Flight' \subseteq Flight, Uploaded' \subseteq Uploaded, step' = "idle" => Flight' = {}
  PROVE  IInv'
<1>1. FlightInv'
  BY DEF IInv, FlightInv
<1>2. UploadedInv'
  BY DEF IInv, UploadedInv
<1>3. Shown'
  BY DEF IInv, Shown
<1> QED BY <1>1, <1>2, <1>3 DEF IInv

\* What the others hold does not change when one worker moves.
LEMMA WorkerMoves ==
  ASSUME Types, NEW w \in Workers, NEW s \in WorkerState, worker' = [worker EXCEPT ![w] = s],
         s.step # "free" => s.pkg \in Packages
  PROVE  /\ worker' \in [Workers -> WorkerState]
         /\ \A v \in Busy' : worker'[v].pkg \in Packages
         /\ \A v \in Busy' \ {w} : v \in Busy /\ RowOf(v)' = RowOf(v)
         /\ \A v \in Held' \ {w} : v \in Held /\ RowOf(v)' = RowOf(v)
         /\ w \in Busy' <=> s.step # "free"
         /\ w \in Held' <=> s.step = "send"
         /\ RowOf(w)' = [pkg |-> s.pkg, total |-> s.total]
<1>1. worker \in [Workers -> WorkerState] /\ \A v \in Busy : worker[v].pkg \in Packages
  BY DEF Types, TypeOK, WorkerState
<1>2. worker' \in [Workers -> WorkerState] /\ worker'[w] = s
      /\ \A v \in Workers \ {w} : worker'[v] = worker[v]
  BY <1>1
<1>3. \A v \in Busy' \ {w} : v \in Busy /\ RowOf(v)' = RowOf(v)
  BY <1>2 DEF Busy, RowOf
<1>4. \A v \in Held' \ {w} : v \in Held /\ RowOf(v)' = RowOf(v)
  BY <1>2 DEF Held, RowOf
<1>5. (w \in Busy' <=> s.step # "free") /\ (w \in Held' <=> s.step = "send")
      /\ RowOf(w)' = [pkg |-> s.pkg, total |-> s.total]
  BY <1>2 DEF Busy, Held, RowOf
<1>6. \A v \in Busy' : worker'[v].pkg \in Packages
  BY <1>1, <1>2, <1>3, <1>5
<1> QED BY <1>2, <1>3, <1>4, <1>5, <1>6

LEMMA FreeState == Free \in WorkerState /\ Free.step = "free"
BY OgAssumption DEF Free, WorkerState

\* The channel.
LEMMA Appended ==
  ASSUME Types, NEW r \in Row, updates' = Append(updates, r), Len(updates) < Buffer
  PROVE  updates' \in Seq(Row) /\ Len(updates') <= Buffer /\ Queued' = Queued \cup {r}
<1>1. updates \in Seq(Row) /\ Buffer \in Nat
  BY OgAssumption DEF Types, TypeOK
<1>2. /\ updates' \in Seq(Row) /\ Len(updates') = Len(updates) + 1 /\ Len(updates) \in Nat
      /\ DOMAIN updates = 1 .. Len(updates) /\ DOMAIN updates' = 1 .. Len(updates) + 1
      /\ \A i \in DOMAIN updates : updates'[i] = updates[i]
      /\ updates'[Len(updates) + 1] = r
  BY <1>1
<1>3. \A i \in DOMAIN updates' : i \in DOMAIN updates \/ i = Len(updates) + 1
  BY <1>2
<1>4. Queued' \subseteq Queued \cup {r}
  BY <1>2, <1>3 DEF Queued
<1>5. Queued \cup {r} \subseteq Queued'
  <2>1. Len(updates) + 1 \in DOMAIN updates' /\ DOMAIN updates \subseteq DOMAIN updates'
    BY <1>2
  <2> QED BY <1>2, <2>1 DEF Queued
<1> QED BY <1>1, <1>2, <1>4, <1>5

LEMMA Received ==
  ASSUME Types, updates # <<>>, updates' = Tail(updates)
  PROVE  /\ updates' \in Seq(Row) /\ Len(updates') <= Buffer
         /\ Head(updates) \in Queued /\ Queued' \subseteq Queued
<1>1. updates \in Seq(Row) /\ Len(updates) <= Buffer /\ Buffer \in Nat
  BY OgAssumption DEF Types, TypeOK
<1>2. /\ Len(updates) \in Nat /\ Len(updates) >= 1 /\ DOMAIN updates = 1 .. Len(updates)
      /\ updates' \in Seq(Row) /\ Len(updates') = Len(updates) - 1
      /\ DOMAIN updates' = 1 .. Len(updates) - 1
      /\ \A i \in 1 .. Len(updates) - 1 : updates'[i] = updates[i + 1]
      /\ Head(updates) = updates[1]
  BY <1>1
<1>3. 1 \in DOMAIN updates /\ \A i \in 1 .. Len(updates) - 1 : i + 1 \in DOMAIN updates
  BY <1>2
<1>4. Head(updates) \in Queued
  BY <1>2, <1>3 DEF Queued
<1>5. Queued' \subseteq Queued
  BY <1>2, <1>3 DEF Queued
<1> QED BY <1>1, <1>2, <1>4, <1>5

-----------------------------------------------------------------------------
(* Steps.                                                                   *)

LEMMA Initially == ASSUME Init PROVE IInv
<1>1. Queued = {} /\ Busy = {} /\ Held = {}
  BY DEF Init, Queued, Busy, Held, Free
<1>2. Flight = {} /\ Uploaded = {}
  BY <1>1 DEF Init, Flight, Uploaded
<1>3. worker \in [Workers -> WorkerState]
  BY FreeState DEF Init
<1>4. updates \in Seq(Row) /\ Len(updates) <= Buffer
  BY OgAssumption DEF Init
<1>5. /\ total \in [Packages -> Totals] /\ active \in [Packages -> BOOLEAN]
      /\ mark \in [Packages -> [made : BOOLEAN, total : Totals]]
      /\ step \in {"idle", "run"} /\ work \subseteq Row
  BY OgAssumption DEF Init
<1>6. image \in [Packages -> Labels \cup {<<>>}]
  <2> DEFINE none == <<>>
  <2>1. image = [p \in Packages |-> none]
    BY DEF Init
  <2> HIDE DEF none
  <2>2. image \in [Packages -> Labels \cup {none}]
    BY <2>1
  <2> QED BY <2>2 DEF none
<1>7. Types
  BY <1>1, <1>3, <1>4, <1>5, <1>6 DEF Types, TypeOK, WorkerState
<1>8. FlightInv /\ UploadedInv /\ Shown
  BY <1>2 DEF FlightInv, UploadedInv, Shown, Init
<1> QED BY <1>7, <1>8 DEF IInv

\* Where the three sets are read from.
LEMMA SameFlight ==
  ASSUME UNCHANGED worker
  PROVE  /\ Busy' = Busy /\ Held' = Held /\ \A w \in Workers : RowOf(w)' = RowOf(w)
         /\ UNCHANGED updates => Queued' = Queued /\ Uploaded' = Uploaded
         /\ UNCHANGED <<updates, work>> => Flight' = Flight
<1>1. Busy' = Busy /\ Held' = Held /\ \A w \in Workers : RowOf(w)' = RowOf(w)
  BY DEF Busy, Held, RowOf
<1>2. UNCHANGED updates => Queued' = Queued
  BY DEF Queued
<1>3. Held \subseteq Workers /\ Busy \subseteq Workers
  BY DEF Held, Busy
<1> QED BY <1>1, <1>2, <1>3 DEF Uploaded, Flight

\* A count that grows leaves what was read behind it, and what is shown too.
LEMMA InstallKeeps == ASSUME IInv, NEW p \in Packages, Install(p) PROVE IInv'
<1>1. PICK n \in Totals : n > total[p] /\ total' = [total EXCEPT ![p] = n]
  BY DEF Install
<1>2. UNCHANGED <<active, mark, image, step, work, worker, updates>>
  BY DEF Install
<1>3. Flight' = Flight /\ Uploaded' = Uploaded /\ Busy' = Busy
  BY <1>2, SameFlight
<1>4. Types'
  BY <1>1, <1>2, <1>3 DEF IInv, Types, TypeOK
<1>5. \A q \in Packages : total[q] <= total'[q] /\ total[q] \in Nat /\ total'[q] \in Nat
  <2> SUFFICES ASSUME NEW q \in Packages
               PROVE  total[q] <= total'[q] /\ total[q] \in Nat /\ total'[q] \in Nat
    OBVIOUS
  <2>1. total[q] \in Nat /\ n \in Nat
    BY OgAssumption DEF IInv, Types, TypeOK
  <2>2. total'[q] = IF q = p THEN n ELSE total[q]
    BY <1>1 DEF IInv, Types, TypeOK
  <2> QED BY <1>1, <2>1, <2>2
<1>6. FlightInv'
  <2>1. \A r \in Flight : r.pkg \in Packages /\ r.total \in Nat
    BY FlightRows DEF IInv
  <2>2. \A r \in Flight : r.total <= total'[r.pkg]
    BY <1>5, <2>1 DEF IInv, FlightInv
  <2> QED BY <1>2, <1>3, <2>2 DEF IInv, FlightInv
<1>7. UploadedInv'
  BY <1>2, <1>3 DEF IInv, UploadedInv
<1>8. Shown'
  <2> SUFFICES ASSUME NEW q \in Packages, mark[q].made
               PROVE  \E m \in Totals : mark[q].total <= m /\ m <= total'[q]
                                        /\ image[q] = FormatInstalls(m)
    BY <1>2 DEF Shown
  <2>1. PICK m \in Totals : mark[q].total <= m /\ m <= total[q] /\ image[q] = FormatInstalls(m)
    BY DEF IInv, Shown
  <2>2. m \in Nat
    BY OgAssumption
  <2>3. m <= total'[q]
    BY <1>5, <2>1, <2>2
  <2> QED BY <2>1, <2>3
<1> QED BY <1>4, <1>6, <1>7, <1>8 DEF IInv

LEMMA SetActiveKeeps == ASSUME IInv, NEW p \in Packages, SetActive(p) PROVE IInv'
<1>1. active' = [active EXCEPT ![p] = ~@]
      /\ UNCHANGED <<total, mark, image, step, work, worker, updates>>
  BY DEF SetActive
<1>2. Flight' = Flight /\ Uploaded' = Uploaded /\ Busy' = Busy
  BY <1>1, SameFlight
<1>3. active' \in [Packages -> BOOLEAN]
  BY <1>1, Zenon DEF IInv, Types, TypeOK
<1>4. Types'
  BY <1>1, <1>2, <1>3 DEF IInv, Types, TypeOK
<1>5. step' = "idle" => Flight' = {}
  BY <1>1, <1>2 DEF IInv, FlightInv
<1> QED BY <1>1, <1>2, <1>4, <1>5, LessInFlight

\* A run starts with nothing in flight and reads the counts of now.
LEMMA StartRunKeeps == ASSUME IInv, StartRun PROVE IInv'
<1>1. /\ step = "idle" /\ step' = "run"
      /\ work' = {[pkg |-> p, total |-> total[p]] : p \in Work}
      /\ UNCHANGED <<total, active, mark, image, worker, updates>>
  BY DEF StartRun
<1>2. Flight = {} /\ Queued = {} /\ Busy = {}
  BY <1>1 DEF IInv, FlightInv, Flight
<1>3. Queued' = {} /\ Busy' = {} /\ Held' = {}
  BY <1>1, <1>2, SameFlight DEF Busy, Held
<1>4. Flight' = work' /\ Uploaded' = {}
  BY <1>3 DEF Flight, Uploaded
<1>5. Work \subseteq Packages
  BY DEF Work, Candidates
<1>6. \A r \in work' : r \in Row /\ r.total = total[r.pkg] /\ r.pkg \in Packages
  BY <1>1, <1>5 DEF IInv, Types, TypeOK, Row
<1>7. Types'
  BY <1>1, <1>3, <1>6 DEF IInv, Types, TypeOK
<1>8. \A p \in Packages : /\ total[p] \in Nat /\ mark[p].total \in Nat
                          /\ mark[p].made => mark[p].total <= total[p]
  <2> SUFFICES ASSUME NEW p \in Packages
               PROVE  /\ total[p] \in Nat /\ mark[p].total \in Nat
                      /\ mark[p].made => mark[p].total <= total[p]
    OBVIOUS
  <2>1. total[p] \in Nat /\ mark[p].total \in Nat
    BY OgAssumption DEF IInv, Types, TypeOK
  <2>2. mark[p].made => \E m \in Totals : mark[p].total <= m /\ m <= total[p]
    BY DEF IInv, Shown
  <2>3. \A m \in Totals : m \in Nat
    BY OgAssumption
  <2> QED BY <2>1, <2>2, <2>3
<1>9. FlightInv'
  BY <1>1, <1>4, <1>6, <1>8 DEF FlightInv
<1>10. UploadedInv'
  BY <1>4 DEF UploadedInv
<1>11. Shown'
  BY <1>1 DEF IInv, Shown
<1> QED BY <1>7, <1>9, <1>10, <1>11 DEF IInv

\* A row leaves the list for a worker.
LEMMA SendKeeps == ASSUME IInv, NEW w \in Workers, NEW r \in work, Send(w, r) PROVE IInv'
<1> DEFINE s == [pkg |-> r.pkg, total |-> r.total, step |-> "upload"]
<1>1. /\ work' = work \ {r} /\ worker' = [worker EXCEPT ![w] = s]
      /\ UNCHANGED <<total, active, mark, image, step, updates>>
  BY DEF Send
<1>2. r \in Row /\ r \in Flight /\ r.pkg \in Packages /\ r.total \in Totals
  BY FlightRows DEF IInv, Flight
<1>3. s \in WorkerState /\ s.pkg \in Packages /\ s.step = "upload"
  BY <1>2 DEF WorkerState
<1>4. [pkg |-> s.pkg, total |-> s.total] = r
  BY <1>2 DEF Row
<1> HIDE DEF s
<1>5. /\ worker' \in [Workers -> WorkerState] /\ \A v \in Busy' : worker'[v].pkg \in Packages
      /\ \A v \in Busy' \ {w} : v \in Busy /\ RowOf(v)' = RowOf(v)
      /\ \A v \in Held' \ {w} : v \in Held /\ RowOf(v)' = RowOf(v)
      /\ w \notin Held' /\ RowOf(w)' = r
  BY <1>1, <1>3, <1>4, WorkerMoves DEF IInv
<1>6. Queued' = Queued
  BY <1>1 DEF Queued
<1>7. Flight' \subseteq Flight
  BY <1>1, <1>2, <1>5, <1>6 DEF Flight
<1>8. Uploaded' \subseteq Uploaded
  BY <1>5, <1>6 DEF Uploaded
<1>9. Types'
  BY <1>1, <1>5 DEF IInv, Types, TypeOK, WorkerState
<1>10. step' = "idle" => Flight' = {}
  BY <1>1, <1>7 DEF IInv, FlightInv
<1> QED BY <1>1, <1>7, <1>8, <1>9, <1>10, LessInFlight

LEMMA UploadFailsKeeps == ASSUME IInv, NEW w \in Workers, UploadFails(w) PROVE IInv'
<1>1. /\ worker' = [worker EXCEPT ![w] = Free]
      /\ UNCHANGED <<total, active, mark, image, step, work, updates>>
  BY DEF UploadFails
<1>2. /\ worker' \in [Workers -> WorkerState] /\ \A v \in Busy' : worker'[v].pkg \in Packages
      /\ \A v \in Busy' \ {w} : v \in Busy /\ RowOf(v)' = RowOf(v)
      /\ \A v \in Held' \ {w} : v \in Held /\ RowOf(v)' = RowOf(v)
      /\ w \notin Busy' /\ w \notin Held'
  BY <1>1, FreeState, WorkerMoves DEF IInv
<1>3. Queued' = Queued
  BY <1>1 DEF Queued
<1>4. Flight' \subseteq Flight /\ Uploaded' \subseteq Uploaded
  BY <1>1, <1>2, <1>3 DEF Flight, Uploaded
<1>5. Types'
  BY <1>1, <1>2 DEF IInv, Types, TypeOK, WorkerState
<1>6. step' = "idle" => Flight' = {}
  BY <1>1, <1>4 DEF IInv, FlightInv
<1> QED BY <1>1, <1>4, <1>5, <1>6, LessInFlight

\* The image shows what the run has read, which every row of the package agrees on.
LEMMA UploadKeeps == ASSUME IInv, NEW w \in Workers, Upload(w) PROVE IInv'
<1> DEFINE p == worker[w].pkg
           n == worker[w].total
           s == [worker[w] EXCEPT !.step = "send"]
<1>1. /\ worker[w].step = "upload"
      /\ image' = [image EXCEPT ![p] = FormatInstalls(n)]
      /\ worker' = [worker EXCEPT ![w] = s]
      /\ UNCHANGED <<total, active, mark, step, work, updates>>
  BY DEF Upload
<1>2. w \in Busy /\ p \in Packages /\ n \in Totals /\ worker[w] \in WorkerState
  BY <1>1 DEF IInv, Types, TypeOK, Busy, WorkerState
<1>3. s \in WorkerState /\ s.step = "send" /\ s.pkg = p /\ s.total = n
  BY <1>2 DEF WorkerState
<1>4. RowOf(w) = [pkg |-> p, total |-> n] /\ RowOf(w) \in Flight
  BY <1>2 DEF RowOf, Flight
<1>5. RowOf(w) = [pkg |-> s.pkg, total |-> s.total] /\ RowOf(w).pkg = p /\ RowOf(w).total = n
  BY <1>3, <1>4
<1> HIDE DEF p, n, s
<1>6. /\ worker' \in [Workers -> WorkerState] /\ \A v \in Busy' : worker'[v].pkg \in Packages
      /\ \A v \in Busy' \ {w} : v \in Busy /\ RowOf(v)' = RowOf(v)
      /\ \A v \in Held' \ {w} : v \in Held /\ RowOf(v)' = RowOf(v)
      /\ RowOf(w)' = RowOf(w)
  BY <1>1, <1>2, <1>3, <1>5, WorkerMoves DEF IInv
<1>7. Queued' = Queued
  BY <1>1 DEF Queued
<1>8. Flight' \subseteq Flight
  BY <1>1, <1>2, <1>6, <1>7 DEF Flight
<1>9. Uploaded' \subseteq Uploaded \cup {RowOf(w)}
  BY <1>6, <1>7 DEF Uploaded
<1>10. image \in [Packages -> Labels \cup {<<>>}] /\ FormatInstalls(n) \in Labels
  BY <1>2 DEF IInv, Types, TypeOK, Labels
<1>11. /\ image'[p] = FormatInstalls(n)
       /\ \A q \in Packages : q # p => image'[q] = image[q]
       /\ image' \in [Packages -> Labels \cup {<<>>}]
  BY <1>1, <1>2, <1>10, Zenon
<1>12. Types'
  BY <1>1, <1>6, <1>11 DEF IInv, Types, TypeOK, WorkerState
<1>13. FlightInv'
  BY <1>1, <1>8 DEF IInv, FlightInv
<1>14. \A r \in Flight : r.pkg \in Packages /\ (r.pkg = p => r.total = n)
  BY <1>4, <1>5, FlightRows DEF IInv, FlightInv
<1>15. UploadedInv'
  <2> SUFFICES ASSUME NEW r \in Uploaded' PROVE image'[r.pkg] = FormatInstalls(r.total)
    BY DEF UploadedInv
  <2>1. r \in Flight
    BY <1>4, <1>9, FlightRows DEF IInv
  <2>2. CASE r.pkg = p
    BY <1>11, <1>14, <2>1, <2>2
  <2>3. CASE r.pkg # p
    <3>1. r \in Uploaded
      BY <1>5, <1>9, <2>3
    <3> QED BY <1>11, <1>14, <2>1, <2>3, <3>1 DEF IInv, UploadedInv
  <2> QED BY <2>2, <2>3
<1>16. mark[p].made => mark[p].total <= n /\ n <= total[p]
  BY <1>4, <1>5 DEF IInv, FlightInv
<1>17. n <= total[p]
  BY <1>4, <1>5 DEF IInv, FlightInv
<1>18. Shown'
  <2> SUFFICES ASSUME NEW q \in Packages, mark[q].made
               PROVE  \E m \in Totals : mark[q].total <= m /\ m <= total[q]
                                        /\ image'[q] = FormatInstalls(m)
    BY <1>1 DEF Shown
  <2>1. CASE q = p
    BY <1>2, <1>11, <1>16, <1>17, <2>1
  <2>2. CASE q # p
    BY <1>11, <2>2 DEF IInv, Shown
  <2> QED BY <2>1, <2>2
<1> QED BY <1>12, <1>13, <1>15, <1>18 DEF IInv

\* The row goes from the worker to the channel.
LEMMA SendUpdateKeeps == ASSUME IInv, NEW w \in Workers, SendUpdate(w) PROVE IInv'
<1>1. /\ worker[w].step = "send" /\ Len(updates) < Buffer
      /\ updates' = Append(updates, RowOf(w))
      /\ worker' = [worker EXCEPT ![w] = Free]
      /\ UNCHANGED <<total, active, mark, image, step, work>>
  BY DEF SendUpdate, RowOf
<1>2. w \in Held /\ w \in Busy
  BY <1>1 DEF Held, Busy
<1>3. RowOf(w) \in Row /\ RowOf(w) \in Uploaded /\ RowOf(w) \in Flight
  BY <1>2, FlightRows DEF IInv, Uploaded, Flight
<1>4. updates' \in Seq(Row) /\ Len(updates') <= Buffer /\ Queued' = Queued \cup {RowOf(w)}
  BY <1>1, <1>3, Appended DEF IInv
<1>5. /\ worker' \in [Workers -> WorkerState] /\ \A v \in Busy' : worker'[v].pkg \in Packages
      /\ \A v \in Busy' \ {w} : v \in Busy /\ RowOf(v)' = RowOf(v)
      /\ \A v \in Held' \ {w} : v \in Held /\ RowOf(v)' = RowOf(v)
      /\ w \notin Busy' /\ w \notin Held'
  BY <1>1, FreeState, WorkerMoves DEF IInv
<1>6. Flight' \subseteq Flight
  BY <1>1, <1>3, <1>4, <1>5 DEF Flight
<1>7. Uploaded' \subseteq Uploaded
  BY <1>3, <1>4, <1>5 DEF Uploaded
<1>8. Types'
  BY <1>1, <1>4, <1>5 DEF IInv, Types, TypeOK, WorkerState
<1>9. step' = "idle" => Flight' = {}
  BY <1>1, <1>6 DEF IInv, FlightInv
<1> QED BY <1>1, <1>6, <1>7, <1>8, <1>9, LessInFlight

\* What is marked has been read and uploaded.
LEMMA MarkKeeps == ASSUME IInv, NEW ok \in BOOLEAN, markOGGenerated(ok) PROVE IInv'
<1> DEFINE r == Head(updates)
<1>1. /\ updates # <<>> /\ updates' = Tail(updates)
      /\ mark' = IF ok THEN [mark EXCEPT ![r.pkg] = [made |-> TRUE, total |-> r.total]] ELSE mark
      /\ UNCHANGED <<total, active, image, step, work, worker>>
  BY DEF markOGGenerated
<1>2. /\ updates' \in Seq(Row) /\ Len(updates') <= Buffer
      /\ r \in Queued /\ Queued' \subseteq Queued
  BY <1>1, Received DEF IInv
<1>3. r \in Uploaded /\ r \in Flight /\ r.pkg \in Packages /\ r.total \in Totals
  BY <1>2, FlightRows DEF IInv, Uploaded
<1> HIDE DEF r
<1>4. /\ Busy' = Busy /\ Held' = Held /\ \A w \in Workers : RowOf(w)' = RowOf(w)
      /\ Held \subseteq Workers /\ Busy \subseteq Workers
  BY <1>1, SameFlight DEF Held, Busy
<1>5. Flight' \subseteq Flight /\ Uploaded' \subseteq Uploaded
  BY <1>1, <1>2, <1>4 DEF Flight, Uploaded
<1>6. /\ mark' \in [Packages -> [made : BOOLEAN, total : Totals]]
      /\ \A p \in Packages : mark'[p] = mark[p] \/ (p = r.pkg /\ mark'[p].total = r.total)
  <2>1. mark \in [Packages -> [made : BOOLEAN, total : Totals]]
    BY DEF IInv, Types, TypeOK
  <2>2. [made |-> TRUE, total |-> r.total] \in [made : BOOLEAN, total : Totals]
    BY <1>3
  <2>3. CASE ok
    BY <1>1, <1>3, <2>1, <2>2, <2>3
  <2>4. CASE ~ok
    BY <1>1, <2>1, <2>4
  <2> QED BY <2>3, <2>4
<1>7. Types'
  BY <1>1, <1>2, <1>4, <1>6 DEF IInv, Types, TypeOK
<1>8. \A s \in Flight : s.pkg \in Packages /\ s.total \in Nat
                        /\ (s.pkg = r.pkg => s.total = r.total)
  BY <1>3, FlightRows DEF IInv, FlightInv
<1>9. FlightInv'
  <2>1. \A s \in Flight : mark'[s.pkg].made => mark'[s.pkg].total <= s.total
    <3> SUFFICES ASSUME NEW s \in Flight, mark'[s.pkg].made
                 PROVE  mark'[s.pkg].total <= s.total
      OBVIOUS
    <3>1. CASE mark'[s.pkg] = mark[s.pkg]
      BY <3>1 DEF IInv, FlightInv
    <3>2. CASE s.pkg = r.pkg /\ mark'[s.pkg].total = r.total
      BY <1>8, <3>2
    <3> QED BY <1>6, <1>8, <3>1, <3>2
  <2> QED BY <1>1, <1>5, <2>1 DEF IInv, FlightInv
<1>10. UploadedInv'
  BY <1>1, <1>5 DEF IInv, UploadedInv
<1>11. Shown'
  <2> SUFFICES ASSUME NEW p \in Packages, mark'[p].made
               PROVE  \E m \in Totals : mark'[p].total <= m /\ m <= total[p]
                                        /\ image[p] = FormatInstalls(m)
    BY <1>1 DEF Shown
  <2>1. CASE mark'[p] = mark[p]
    BY <2>1 DEF IInv, Shown
  <2>2. CASE p = r.pkg /\ mark'[p].total = r.total
    <3>1. image[p] = FormatInstalls(r.total) /\ r.total <= total[p]
      BY <1>3, <2>2 DEF IInv, UploadedInv, FlightInv
    <3>2. r.total \in Nat
      BY <1>3, <1>8
    <3> QED BY <1>3, <2>2, <3>1, <3>2
  <2> QED BY <1>6, <2>1, <2>2
<1> QED BY <1>7, <1>9, <1>10, <1>11 DEF IInv

\* The ends of a run drop what was in flight.
LEMMA EndsKeep == ASSUME IInv, Cancel \/ EndRun \/ Crash PROVE IInv'
<1>1. CASE Cancel
  <2>1. work' = {} /\ UNCHANGED <<total, active, mark, image, step, worker, updates>>
    BY <1>1 DEF Cancel
  <2>2. Busy' = Busy /\ Uploaded' = Uploaded /\ Queued' = Queued
        /\ \A w \in Workers : RowOf(w)' = RowOf(w)
    BY <2>1, SameFlight
  <2>3. Flight' \subseteq Flight
    BY <2>1, <2>2 DEF Flight, Busy
  <2>4. Types'
    BY <2>1, <2>2 DEF IInv, Types, TypeOK
  <2>5. step' = "idle" => Flight' = {}
    BY <2>1, <2>3 DEF IInv, FlightInv
  <2> QED BY <2>1, <2>2, <2>3, <2>4, <2>5, LessInFlight
<1>2. CASE EndRun
  <2>1. /\ work = {} /\ updates = <<>> /\ Busy = {} /\ step' = "idle"
        /\ UNCHANGED <<total, active, mark, image, work, worker, updates>>
    BY <1>2 DEF EndRun, Busy
  <2>2. Queued = {}
    BY <2>1 DEF Queued
  <2>3. Flight = {} /\ Flight' = Flight /\ Uploaded' = Uploaded /\ Busy' = Busy
    BY <2>1, <2>2, SameFlight DEF Flight
  <2>4. Types'
    BY <2>1, <2>3 DEF IInv, Types, TypeOK
  <2> QED BY <2>1, <2>3, <2>4, LessInFlight
<1>3. CASE Crash
  <2>1. /\ step' = "idle" /\ work' = {} /\ updates' = <<>>
        /\ worker' = [w \in Workers |-> Free]
        /\ UNCHANGED <<total, active, mark, image>>
    BY <1>3 DEF Crash
  <2>2. Queued' = {} /\ Busy' = {} /\ Held' = {}
    BY <2>1 DEF Queued, Busy, Held, Free
  <2>3. Flight' = {} /\ Uploaded' = {}
    BY <2>1, <2>2 DEF Flight, Uploaded
  <2>4. worker' \in [Workers -> WorkerState]
    BY <2>1, FreeState
  <2>5. updates' \in Seq(Row) /\ Len(updates') <= Buffer
    BY <2>1, OgAssumption
  <2>6. Types'
    BY <2>1, <2>2, <2>4, <2>5 DEF IInv, Types, TypeOK, WorkerState
  <2> QED BY <2>1, <2>3, <2>6, LessInFlight
<1> QED BY <1>1, <1>2, <1>3

LEMMA StutterKeeps == ASSUME IInv, UNCHANGED vars PROVE IInv'
<1>1. UNCHANGED <<total, active, mark, image, step, work, worker, updates>>
  BY DEF vars
<1>2. Flight' = Flight /\ Uploaded' = Uploaded /\ Busy' = Busy
  BY <1>1, SameFlight
<1>3. Types'
  BY <1>1, <1>2 DEF IInv, Types, TypeOK
<1> QED BY <1>1, <1>2, <1>3, LessInFlight DEF IInv, FlightInv

LEMMA NextKeeps == ASSUME IInv, [Next]_vars PROVE IInv'
<1>1. CASE StartRun \/ EndRun \/ Cancel \/ Crash
  BY <1>1, StartRunKeeps, EndsKeep
<1>2. CASE markOGGenerated(TRUE) \/ markOGGenerated(FALSE)
  BY <1>2, MarkKeeps
<1>3. CASE \E w \in Workers : Upload(w) \/ SendUpdate(w) \/ UploadFails(w) \/ \E r \in work : Send(w, r)
  BY <1>3, UploadKeeps, SendUpdateKeeps, UploadFailsKeeps, SendKeeps
<1>4. CASE \E p \in Packages : Install(p) \/ SetActive(p)
  BY <1>4, InstallKeeps, SetActiveKeeps
<1>5. CASE UNCHANGED vars
  BY <1>5, StutterKeeps
<1> QED BY <1>1, <1>2, <1>3, <1>4, <1>5 DEF Next, Good

-----------------------------------------------------------------------------
\* The variables keep their types: no worker is ever busy with nothing, and the
\* channel holds no more than its capacity.
THEOREM TypeCorrect == Spec => []TypeOK
<1>1. IInv => TypeOK
  BY DEF IInv, Types
<1> QED BY Initially, NextKeeps, <1>1, PTL DEF Spec

\* A package that generate-og passes over because its image would look the same
\* has that image, whichever runs have died on the way there and however its
\* count has grown meanwhile.
THEOREM PassedOverIsCurrent == Spec => []ImageCurrent
<1> QED BY Initially, NextKeeps, ShownSuffices, PTL DEF Spec

=============================================================================
