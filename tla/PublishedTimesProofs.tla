-------------------------- MODULE PublishedTimesProofs --------------------------
(***************************************************************************)
(* Theorems about published times, versions and hashes of one row, for every *)
(* package, every answer of the API, every log and every bound.  Each        *)
(* command reads the row and writes it later; check-status and commits fall  *)
(* in between.                                                               *)
(*                                                                           *)
(* First the loops over names, which the code runs in any order; then the    *)
(* times; then what ties the row to the log and to the answer.               *)
(***************************************************************************)
EXTENDS PublishedTimes, Extremes, FiniteSetTheorems

-----------------------------------------------------------------------------
(* The loops over names, which the code runs in any order.                  *)

\* The greatest of a set of numbers up to m, and what is left without it.
LEMMA GreatestUpTo ==
  ASSUME NEW m \in Nat, NEW d \in SUBSET (1 .. m), d # {}
  PROVE  /\ Max(d) \in d /\ \A k \in d : k <= Max(d)
         /\ m \in d => Max(d) = m
<1>1. d \in SUBSET Nat /\ \A k \in d : k <= m
  OBVIOUS
<1>2. Max(d) \in d /\ \A k \in d : k <= Max(d)
  BY <1>1, GreatestExists
<1>3. ASSUME m \in d PROVE Max(d) = m
  <2> DEFINE x == Max(d)
  <2>1. x \in Nat /\ x <= m /\ m <= x
    BY <1>1, <1>2, <1>3
  <2> HIDE DEF x
  <2>2. x = m
    BY <2>1
  <2> QED BY <2>2 DEF x
<1> QED BY <1>2, <1>3

Meet(s, f, d) == IF d = {} THEN Nothing ELSE Take(f[d \ {Max(d)}], s[Max(d)])

LEMMA MeetExists ==
  ASSUME NEW s, NEW n \in Nat
  PROVE  \E g : g = [d \in SUBSET (1 .. n) |-> Meet(s, g, d)]
<1> DEFINE A(m) == \E g : g = [d \in SUBSET (1 .. m) |-> Meet(s, g, d)]
           Bad == {m \in Nat : ~ A(m)}
<1>1. SUFFICES ASSUME Bad # {} PROVE FALSE
  OBVIOUS
<1>2. PICK m \in Bad : \A k \in Bad : m <= k
  <2> HIDE DEF Bad
  <2>1. Bad \in SUBSET Nat
    BY DEF Bad
  <2> QED BY <1>1, <2>1, LeastExists
<1>3. CASE m = 0
  <2> DEFINE g == [d \in SUBSET (1 .. 0) |-> Nothing]
  <2>1. \A d \in SUBSET (1 .. 0) : d = {}
    OBVIOUS
  <2>2. g = [d \in SUBSET (1 .. 0) |-> Meet(s, g, d)]
    BY <2>1 DEF Meet
  <2> QED BY <1>2, <1>3, <2>2
<1>4. CASE m # 0
  <2>1. m - 1 \in Nat /\ ~ (m <= m - 1)
    BY <1>2, <1>4
  <2>2. A(m - 1)
    BY <1>2, <2>1
  <2>3. PICK g : g = [d \in SUBSET (1 .. m - 1) |-> Meet(s, g, d)]
    BY <2>2
  <2> DEFINE h == [d \in SUBSET (1 .. m) |->
                     IF m \in d THEN Take(g[d \ {m}], s[m]) ELSE g[d]]
  <2>4. ASSUME NEW d \in SUBSET (1 .. m) PROVE h[d] = Meet(s, h, d)
    <3>1. CASE m \in d
      <4>1. d \ {m} \in SUBSET (1 .. m) /\ m \notin d \ {m}
        OBVIOUS
      <4>2. h[d \ {m}] = g[d \ {m}]
        BY <4>1
      <4>3. Max(d) = m
        BY <1>2, <3>1, GreatestUpTo
      <4> QED BY <3>1, <4>2, <4>3 DEF Meet
    <3>2. CASE m \notin d
      <4>1. d \in SUBSET (1 .. m - 1)
        BY <1>2, <1>4, <3>2
      <4>2. h[d] = Meet(s, g, d)
        BY <2>3, <3>2, <4>1
      <4>3. CASE d = {}
        BY <4>2, <4>3 DEF Meet
      <4>4. CASE d # {}
        <5>1. d \ {Max(d)} \in SUBSET (1 .. m) /\ m \notin d \ {Max(d)}
          BY <3>2
        <5>2. h[d \ {Max(d)}] = g[d \ {Max(d)}]
          BY <5>1
        <5> QED BY <4>2, <5>2 DEF Meet
      <4> QED BY <4>3, <4>4
    <3> QED BY <3>1, <3>2
  <2>5. h = [d \in SUBSET (1 .. m) |-> Meet(s, h, d)]
    <3> DEFINE w == [d \in SUBSET (1 .. m) |-> Meet(s, h, d)]
    <3>1. \A d \in SUBSET (1 .. m) : h[d] = w[d]
      BY <2>4
    <3>2. h = [d \in SUBSET (1 .. m) |-> h[d]]
      OBVIOUS
    <3> HIDE DEF h
    <3> QED BY <3>1, <3>2
  <2> QED BY <1>2, <2>5
<1> QED BY <1>3, <1>4

\* NormalizeInOrder takes the names one after the other.
LEMMA ChosenInOrder ==
  ASSUME NEW s, NEW n \in Nat, DOMAIN s = 1 .. n
  PROVE  \E c : /\ c[0] = Nothing
                /\ \A m \in 1 .. n : c[m] = Take(c[m - 1], s[m])
                /\ NormalizeInOrder(s) = c[n]
<1> DEFINE it == CHOOSE g : g = [d \in SUBSET (1 .. n) |-> Meet(s, g, d)]
           c == [m \in 0 .. n |-> it[1 .. m]]
<1>1. it = [d \in SUBSET (1 .. n) |-> Meet(s, it, d)]
  BY MeetExists
<1>2. NormalizeInOrder(s) = it[1 .. n]
  BY DEF NormalizeInOrder, FoldLeft, MapThenFoldSet, Meet
<1> HIDE DEF it
<1>3. c[0] = Nothing
  <2>1. 1 .. 0 = {} /\ 1 .. 0 \in SUBSET (1 .. n)
    OBVIOUS
  <2> QED BY <1>1, <2>1 DEF Meet
<1>4. ASSUME NEW m \in 1 .. n PROVE c[m] = Take(c[m - 1], s[m])
  <2>1. m \in Nat /\ m <= n /\ 1 .. m \in SUBSET (1 .. n) /\ m \in 1 .. m
    OBVIOUS
  <2>2. Max(1 .. m) = m
    BY <2>1, GreatestUpTo
  <2>3. (1 .. m) \ {m} = 1 .. m - 1 /\ m - 1 \in 0 .. n
    OBVIOUS
  <2>4. it[1 .. m] = Take(it[1 .. m - 1], s[m])
    BY <1>1, <2>1, <2>2, <2>3 DEF Meet
  <2> QED BY <2>3, <2>4
<1>5. c[n] = NormalizeInOrder(s)
  BY <1>2
<1> HIDE DEF c
<1> QED BY <1>3, <1>4, <1>5

\* Two names of one version differ in their leads.
LEMMA NamesOfVersion ==
  ASSUME NEW v \in Name, NEW w \in Name, Normalize(v) = Normalize(w),
         Normalize(v) # NoVersion, v.lead = w.lead
  PROVE  v = w
<1>1. Normalize(v) = [v EXCEPT !.lead = 0] /\ Normalize(w) = [w EXCEPT !.lead = 0]
  BY DEF Normalize
<1>2. /\ v = [lead |-> v.lead, num |-> v.num, suf |-> v.suf]
      /\ w = [lead |-> w.lead, num |-> w.num, suf |-> w.suf]
  BY DEF Name
<1>3. [v EXCEPT !.lead = 0].num = v.num /\ [w EXCEPT !.lead = 0].num = w.num
      /\ [v EXCEPT !.lead = 0].suf = v.suf /\ [w EXCEPT !.lead = 0].suf = w.suf
  BY <1>2
<1>4. v.num = w.num /\ v.suf = w.suf
  <2>1. [v EXCEPT !.lead = 0] = [w EXCEPT !.lead = 0]
    BY <1>1
  <2> QED BY <1>3, <2>1, Zenon
<1> QED BY <1>2, <1>4

\* preferRawVersion is an order on leads.
LEMMA PreferLead ==
  ASSUME NEW v \in Name, NEW w \in Name
  PROVE  preferRawVersion(v, w) <=> v.lead < w.lead
BY DEF preferRawVersion, Name

\* What is chosen after the first m names: for each version met the name of the
\* least lead.
Chosen(c, s, m) ==
  /\ c = [v \in DOMAIN c |-> c[v]]
  /\ \A v : v \in DOMAIN c <=> v # NoVersion /\ \E i \in 1 .. m : Normalize(s[i]) = v
  /\ \A v \in DOMAIN c :
       /\ \E i \in 1 .. m : c[v] = s[i] /\ Normalize(s[i]) = v
       /\ \A i \in 1 .. m : Normalize(s[i]) = v => c[v].lead <= s[i].lead

LEMMA TakeChooses ==
  ASSUME NEW m \in Nat \ {0}, NEW s, \A i \in 1 .. m : s[i] \in Name,
         NEW c, Chosen(c, s, m - 1)
  PROVE  Chosen(Take(c, s[m]), s, m)
<1> DEFINE n == Normalize(s[m])
           t == Take(c, s[m])
<1>1. /\ m \in 1 .. m /\ 1 .. m = 1 .. (m - 1) \cup {m} /\ s[m] \in Name
      /\ \A i \in 1 .. m - 1 : i \in 1 .. m /\ s[i] \in Name
  OBVIOUS
<1>2. \A v \in DOMAIN c : c[v] \in Name /\ Normalize(c[v]) = v /\ v # NoVersion
  BY <1>1 DEF Chosen
<1>3. \A v, w \in Name : v.lead \in Int
  BY DEF Name
<1>4. CASE n = NoVersion
  <2>1. t = c
    BY <1>4 DEF Take
  <2> QED BY <1>1, <1>4, <2>1 DEF Chosen
<1>5. CASE n # NoVersion /\ n \in DOMAIN c /\ ~preferRawVersion(s[m], c[n])
  <2>1. t = c
    BY <1>5 DEF Take
  <2>2. c[n].lead <= s[m].lead
    BY <1>1, <1>2, <1>3, <1>5, PreferLead
  <2> QED BY <1>1, <1>5, <2>1, <2>2 DEF Chosen
<1>6. CASE n # NoVersion /\ ~(n \in DOMAIN c /\ ~preferRawVersion(s[m], c[n]))
  <2>1. t = [v \in DOMAIN c \cup {n} |-> IF v = n THEN s[m] ELSE c[v]]
    BY <1>6 DEF Take
  <2> HIDE DEF t
  <2>2. /\ t = [v \in DOMAIN t |-> t[v]] /\ DOMAIN t = DOMAIN c \cup {n}
        /\ t[n] = s[m] /\ \A v \in DOMAIN c : v # n => t[v] = c[v]
    BY <2>1
  <2>3. \A i \in 1 .. m - 1 : Normalize(s[i]) = n => s[m].lead <= s[i].lead
    <3> SUFFICES ASSUME NEW i \in 1 .. m - 1, Normalize(s[i]) = n
                 PROVE  s[m].lead <= s[i].lead
      OBVIOUS
    <3>1. n \in DOMAIN c
      BY <1>6 DEF Chosen
    <3>2. s[m].lead < c[n].lead
      BY <1>1, <1>2, <1>6, <3>1, PreferLead
    <3>3. c[n].lead <= s[i].lead
      BY <3>1 DEF Chosen
    <3> QED BY <1>1, <1>2, <1>3, <3>1, <3>2, <3>3
  <2>4. s[m].lead <= s[m].lead
    BY <1>1, <1>3
  <2>5. \A v : v \in DOMAIN t <=> v # NoVersion /\ \E i \in 1 .. m : Normalize(s[i]) = v
    BY <1>1, <1>6, <2>2 DEF Chosen
  <2>6. ASSUME NEW v \in DOMAIN t
        PROVE  /\ \E i \in 1 .. m : t[v] = s[i] /\ Normalize(s[i]) = v
               /\ \A i \in 1 .. m : Normalize(s[i]) = v => t[v].lead <= s[i].lead
    <3>1. CASE v = n
      BY <1>1, <2>2, <2>3, <2>4, <3>1
    <3>2. CASE v # n
      BY <1>1, <2>2, <3>2 DEF Chosen
    <3> QED BY <3>1, <3>2
  <2> HIDE DEF n
  <2>7. Chosen(t, s, m)
    BY <2>2, <2>5, <2>6 DEF Chosen
  <2> QED BY <2>7 DEF t
<1> QED BY <1>4, <1>5, <1>6

LEMMA AllChosen ==
  ASSUME NEW s, NEW n \in Nat, DOMAIN s = 1 .. n, \A i \in 1 .. n : s[i] \in Name
  PROVE  Chosen(NormalizeInOrder(s), s, n)
<1>1. PICK c : /\ c[0] = Nothing
               /\ \A m \in 1 .. n : c[m] = Take(c[m - 1], s[m])
               /\ NormalizeInOrder(s) = c[n]
  BY ChosenInOrder
<1> DEFINE Bad == {m \in 0 .. n : ~Chosen(c[m], s, m)}
<1>2. SUFFICES ASSUME Bad # {} PROVE FALSE
  BY <1>1
<1>3. PICK m \in Bad : \A k \in Bad : m <= k
  <2> HIDE DEF Bad
  <2>1. Bad \in SUBSET Nat
    BY DEF Bad
  <2> QED BY <1>2, <2>1, LeastExists
<1>4. CASE m = 0
  BY <1>1, <1>3, <1>4 DEF Chosen, Nothing
<1>5. CASE m # 0
  <2>1. m \in Nat \ {0} /\ m \in 1 .. n /\ m - 1 \in 0 .. n /\ ~ (m <= m - 1)
        /\ \A i \in 1 .. m : s[i] \in Name
    BY <1>3, <1>5
  <2>2. Chosen(c[m - 1], s, m - 1)
    BY <1>3, <2>1
  <2>3. Chosen(Take(c[m - 1], s[m]), s, m)
    BY <2>1, <2>2, TakeChooses
  <2> QED BY <1>1, <1>3, <2>1, <2>3
<1> QED BY <1>4, <1>5

\* In whatever order the names are met, each version is taken from the same one.
LEMMA OrderIrrelevant ==
  ASSUME NEW s, NEW n \in Nat, DOMAIN s = 1 .. n, NEW t, NEW k \in Nat, DOMAIN t = 1 .. k,
         NEW N \in SUBSET Name, N = {s[i] : i \in 1 .. n}, N = {t[i] : i \in 1 .. k}
  PROVE  NormalizeInOrder(s) = NormalizeInOrder(t)
<1> DEFINE a == NormalizeInOrder(s)
           b == NormalizeInOrder(t)
<1>1. Chosen(a, s, n) /\ Chosen(b, t, k)
  BY AllChosen
<1> HIDE DEF a, b
<1>2. \A v : v \in DOMAIN a <=> v # NoVersion /\ \E w \in N : Normalize(w) = v
  BY <1>1 DEF Chosen
<1>3. \A v : v \in DOMAIN b <=> v # NoVersion /\ \E w \in N : Normalize(w) = v
  BY <1>1 DEF Chosen
<1>4. DOMAIN a = DOMAIN b
  BY <1>2, <1>3
<1>5. ASSUME NEW v \in DOMAIN a PROVE a[v] = b[v]
  <2>1. /\ a[v] \in N /\ Normalize(a[v]) = v
        /\ \A w \in N : Normalize(w) = v => a[v].lead <= w.lead
    BY <1>1 DEF Chosen
  <2>2. /\ b[v] \in N /\ Normalize(b[v]) = v
        /\ \A w \in N : Normalize(w) = v => b[v].lead <= w.lead
    <3>1. v \in DOMAIN b
      BY <1>4
    <3>2. /\ \E i \in 1 .. k : b[v] = t[i] /\ Normalize(t[i]) = v
          /\ \A i \in 1 .. k : Normalize(t[i]) = v => b[v].lead <= t[i].lead
      BY <1>1, <3>1 DEF Chosen
    <3>3. \A i \in 1 .. k : t[i] \in N
      OBVIOUS
    <3>4. \A w \in N : \E i \in 1 .. k : w = t[i]
      OBVIOUS
    <3> QED BY <3>2, <3>3, <3>4
  <2>3. a[v].lead \in Int /\ b[v].lead \in Int
    <3>1. \A w \in Name : w.lead \in Int
      BY DEF Name
    <3> QED BY <2>1, <2>2, <3>1
  <2>4. a[v].lead = b[v].lead
    BY <2>1, <2>2, <2>3
  <2> QED BY <1>2, <2>1, <2>2, <2>4, NamesOfVersion
<1>6. a = [v \in DOMAIN a |-> a[v]] /\ b = [v \in DOMAIN b |-> b[v]]
  BY <1>1 DEF Chosen
<1>7. a = b
  BY <1>4, <1>5, <1>6
<1> QED BY <1>7 DEF a, b

\* The indices in I up to m.
Upto(I, m) == {i \in I : i <= m}

LEMMA UptoFacts ==
  ASSUME NEW I, NEW n \in Nat, \A i \in I : i \in Nat /\ 1 <= i /\ i <= n
  PROVE  /\ Upto(I, 0) = {} /\ Upto(I, n) = I
         /\ \A m \in Nat \ {0} :
              /\ Upto(I, m) \in SUBSET I /\ Upto(I, m) \in SUBSET (1 .. m)
              /\ \A i \in Upto(I, m) : i \in I /\ (i # m => i \in Upto(I, m - 1))
              /\ m \notin I => Upto(I, m) = Upto(I, m - 1)
              /\ m \in I => m \in Upto(I, m) /\ Upto(I, m) \ {m} = Upto(I, m - 1)
<1>1. \A i \in I : ~ (i <= 0) /\ i <= n
  OBVIOUS
<1>2. Upto(I, 0) = {} /\ Upto(I, n) = I
  BY <1>1 DEF Upto
<1>3. ASSUME NEW m \in Nat \ {0}
      PROVE  /\ Upto(I, m) \in SUBSET I /\ Upto(I, m) \in SUBSET (1 .. m)
             /\ \A i \in Upto(I, m) : i \in I /\ (i # m => i \in Upto(I, m - 1))
             /\ m \notin I => Upto(I, m) = Upto(I, m - 1)
             /\ m \in I => m \in Upto(I, m) /\ Upto(I, m) \ {m} = Upto(I, m - 1)
  <2>1. \A i \in I : (i <= m - 1 <=> i <= m /\ i # m) /\ (i <= m => i \in 1 .. m)
    OBVIOUS
  <2>2. m <= m
    OBVIOUS
  <2> QED BY <2>1, <2>2 DEF Upto
<1> QED BY <1>2, <1>3

\* The same for the loop of Latest, over the indices I.
Climb(s, f, d) == IF d = {} THEN NoVersion ELSE Higher(s[Max(d)], f[d \ {Max(d)}])

LEMMA ClimbExists ==
  ASSUME NEW s, NEW n \in Nat, NEW I \in SUBSET (1 .. n)
  PROVE  \E g : g = [d \in SUBSET I |-> Climb(s, g, d)]
<1> DEFINE A(m) == \E g : g = [d \in SUBSET Upto(I, m) |-> Climb(s, g, d)]
           Bad == {m \in Nat : ~ A(m)}
<1>0. \A i \in I : i \in Nat /\ 1 <= i /\ i <= n
  OBVIOUS
<1>1. Upto(I, 0) = {} /\ Upto(I, n) = I
  BY <1>0, UptoFacts
<1>2. SUFFICES ASSUME Bad # {} PROVE FALSE
  <2>1. A(n) => \E g : g = [d \in SUBSET I |-> Climb(s, g, d)]
    BY <1>1
  <2> QED BY <2>1
<1>3. PICK m \in Bad : \A k \in Bad : m <= k
  <2> HIDE DEF Bad
  <2>1. Bad \in SUBSET Nat
    BY DEF Bad
  <2> QED BY <1>2, <2>1, LeastExists
<1>4. CASE m = 0
  <2> DEFINE g == [d \in SUBSET Upto(I, 0) |-> NoVersion]
  <2>2. g = [d \in SUBSET Upto(I, 0) |-> Climb(s, g, d)]
    BY <1>1 DEF Climb
  <2> QED BY <1>3, <1>4, <2>2
<1>5. CASE m # 0
  <2>1. m - 1 \in Nat /\ ~ (m <= m - 1)
    BY <1>3, <1>5
  <2>2. A(m - 1)
    BY <1>3, <2>1
  <2>3. PICK g : g = [d \in SUBSET Upto(I, m - 1) |-> Climb(s, g, d)]
    BY <2>2
  <2>4. Upto(I, m) \in SUBSET (1 .. m) /\ \A i \in Upto(I, m) : i # m => i \in Upto(I, m - 1)
    BY <1>0, <1>3, <2>1, UptoFacts
  <2> DEFINE h == [d \in SUBSET Upto(I, m) |->
                     IF m \in d THEN Higher(s[m], g[d \ {m}]) ELSE g[d]]
  <2>5. ASSUME NEW d \in SUBSET Upto(I, m) PROVE h[d] = Climb(s, h, d)
    <3>1. CASE m \in d
      <4>1. d \ {m} \in SUBSET Upto(I, m) /\ m \notin d \ {m}
        OBVIOUS
      <4>2. h[d \ {m}] = g[d \ {m}]
        BY <4>1
      <4>3. Max(d) = m
        BY <1>3, <2>4, <3>1, GreatestUpTo
      <4> QED BY <3>1, <4>2, <4>3 DEF Climb
    <3>2. CASE m \notin d
      <4>1. d \in SUBSET Upto(I, m - 1)
        BY <2>4, <3>2
      <4>2. h[d] = Climb(s, g, d)
        BY <2>3, <3>2, <4>1
      <4>3. CASE d = {}
        BY <4>2, <4>3 DEF Climb
      <4>4. CASE d # {}
        <5>1. d \ {Max(d)} \in SUBSET Upto(I, m) /\ m \notin d \ {Max(d)}
          BY <3>2
        <5>2. h[d \ {Max(d)}] = g[d \ {Max(d)}]
          BY <5>1
        <5> QED BY <4>2, <5>2 DEF Climb
      <4> QED BY <4>3, <4>4
    <3> QED BY <3>1, <3>2
  <2>6. h = [d \in SUBSET Upto(I, m) |-> Climb(s, h, d)]
    <3> DEFINE w == [d \in SUBSET Upto(I, m) |-> Climb(s, h, d)]
    <3>1. \A d \in SUBSET Upto(I, m) : h[d] = w[d]
      BY <2>5
    <3>2. h = [d \in SUBSET Upto(I, m) |-> h[d]]
      OBVIOUS
    <3> HIDE DEF h
    <3> QED BY <3>1, <3>2
  <2> QED BY <1>3, <2>6
<1> QED BY <1>4, <1>5

\* The best so far, index by index.
Ascent(c, s, I, n) ==
  /\ c[0] = NoVersion
  /\ \A m \in 1 .. n : c[m] = IF m \in I THEN Higher(s[m], c[m - 1]) ELSE c[m - 1]

LEMMA HighestInOrder ==
  ASSUME NEW s, NEW n \in Nat, NEW I \in SUBSET (1 .. n)
  PROVE  \E c : Ascent(c, s, I, n) /\ Highest(s, I) = c[n]
<1> DEFINE it == CHOOSE g : g = [d \in SUBSET I |-> Climb(s, g, d)]
           c == [m \in 0 .. n |-> it[Upto(I, m)]]
<1>0. \A i \in I : i \in Nat /\ 1 <= i /\ i <= n
  OBVIOUS
<1>1. it = [d \in SUBSET I |-> Climb(s, it, d)]
  BY ClimbExists
<1>2. Highest(s, I) = it[I]
  BY DEF Highest, MapThenFoldSet, Climb
<1> HIDE DEF it
<1>3. c[0] = NoVersion
  <2>1. Upto(I, 0) = {} /\ Upto(I, 0) \in SUBSET I
    BY <1>0, UptoFacts
  <2> QED BY <1>1, <2>1 DEF Climb
<1>4. ASSUME NEW m \in 1 .. n
      PROVE  c[m] = IF m \in I THEN Higher(s[m], c[m - 1]) ELSE c[m - 1]
  <2>1. m \in Nat \ {0} /\ m - 1 \in 0 .. n /\ m \in 0 .. n
    OBVIOUS
  <2>4. Upto(I, m) \in SUBSET I /\ Upto(I, m) \in SUBSET (1 .. m)
    BY <1>0, <2>1, UptoFacts
  <2>2. CASE m \in I
    <3>1. m \in Upto(I, m)
      BY <1>0, <2>1, <2>2, UptoFacts
    <3>2. Max(Upto(I, m)) = m
      BY <2>1, <2>4, <3>1, GreatestUpTo
    <3>3. Upto(I, m) \ {m} = Upto(I, m - 1)
      BY <1>0, <2>1, <2>2, UptoFacts
    <3>4. it[Upto(I, m)] = Higher(s[m], it[Upto(I, m - 1)])
      <4> DEFINE D == Upto(I, m)
      <4>1. it[D] = Climb(s, it, D)
        BY <1>1, <2>4
      <4>2. D # {} /\ Max(D) = m /\ D \ {m} = Upto(I, m - 1)
        BY <3>1, <3>2, <3>3
      <4>3. it[D] = Higher(s[m], it[Upto(I, m - 1)])
        <5> HIDE DEF D
        <5> QED BY <4>1, <4>2 DEF Climb
      <4> QED BY <4>3
    <3> QED BY <2>1, <2>2, <3>4
  <2>3. CASE m \notin I
    <3>1. Upto(I, m) = Upto(I, m - 1)
      BY <1>0, <2>1, <2>3, UptoFacts
    <3> QED BY <2>1, <2>3, <3>1
  <2> QED BY <2>2, <2>3
<1>5. c[n] = Highest(s, I)
  <2>1. Upto(I, n) = I
    BY <1>0, UptoFacts
  <2>2. n \in 0 .. n
    OBVIOUS
  <2> QED BY <1>2, <2>1, <2>2
<1> HIDE DEF c
<1> QED BY <1>3, <1>4, <1>5 DEF Ascent

\* The highest is one of the names, and none is above it when all are stable.
LEMMA HighestIsOne ==
  ASSUME NEW s, NEW n \in Nat, NEW I \in SUBSET (1 .. n)
  PROVE  /\ I = {} => Highest(s, I) = NoVersion
         /\ I # {} => \E i \in I : Highest(s, I) = s[i]
<1>0. \A i \in I : i \in Nat /\ 1 <= i /\ i <= n
  OBVIOUS
<1>1. PICK c : Ascent(c, s, I, n) /\ Highest(s, I) = c[n]
  BY HighestInOrder
<1>2. /\ c[0] = NoVersion
      /\ \A m \in 1 .. n : c[m] = IF m \in I THEN Higher(s[m], c[m - 1]) ELSE c[m - 1]
  BY <1>1 DEF Ascent
<1>3. /\ Upto(I, 0) = {} /\ Upto(I, n) = I
      /\ \A m \in Nat \ {0} :
           /\ \A i \in Upto(I, m) : i \in I /\ (i # m => i \in Upto(I, m - 1))
           /\ m \notin I => Upto(I, m) = Upto(I, m - 1)
           /\ m \in I => m \in Upto(I, m) /\ Upto(I, m) \ {m} = Upto(I, m - 1)
  BY <1>0, UptoFacts
<1> DEFINE Good(m) == \/ Upto(I, m) = {} /\ c[m] = NoVersion
                      \/ \E i \in Upto(I, m) : c[m] = s[i]
           Bad == {m \in 0 .. n : ~Good(m)}
<1>4. ASSUME Bad # {} PROVE FALSE
  <2>1. PICK m \in Bad : \A k \in Bad : m <= k
    <3> HIDE DEF Bad
    <3>1. Bad \in SUBSET Nat
      BY DEF Bad
    <3> QED BY <1>4, <3>1, LeastExists
  <2>2. m # 0
    BY <1>2, <1>3, <2>1
  <2>3. m \in Nat \ {0} /\ m \in 1 .. n /\ m - 1 \in 0 .. n /\ ~ (m <= m - 1)
    BY <2>1, <2>2
  <2>4. Good(m - 1)
    BY <2>1, <2>3
  <2>5. CASE m \in I
    <3>1. m \in Upto(I, m) /\ Upto(I, m - 1) \subseteq Upto(I, m)
      BY <1>3, <2>3, <2>5
    <3>2. c[m] \in {s[m], c[m - 1]} /\ (c[m - 1] = NoVersion => c[m] = s[m])
      BY <1>2, <2>3, <2>5 DEF Higher
    <3> QED BY <2>1, <2>4, <3>1, <3>2
  <2>6. CASE m \notin I
    <3>1. Upto(I, m - 1) = Upto(I, m)
      BY <1>3, <2>3, <2>6
    <3>2. c[m] = c[m - 1]
      BY <1>2, <2>3, <2>6
    <3> QED BY <2>1, <2>4, <3>1, <3>2
  <2> QED BY <2>5, <2>6
<1>5. Good(n)
  BY <1>4
<1> QED BY <1>1, <1>3, <1>5

-----------------------------------------------------------------------------
(* Compare.                                                                 *)

Parts(a) == a.suf = 0 /\ \A k \in 1 .. 4 : Part(a, k) \in Int

\* Of two stable versions one is above the other at the first part that differs.
LEMMA CompareStable ==
  ASSUME NEW a, NEW b, Parts(a), Parts(b)
  PROVE  /\ Compare(a, b) \in {-1, 0, 1}
         /\ Compare(a, b) = 1 <=>
              \E k \in 1 .. 4 : /\ Part(a, k) > Part(b, k)
                                /\ \A j \in 1 .. 4 : j < k => Part(a, j) = Part(b, j)
<1> DEFINE differ == {i \in 1 .. 4 : Part(a, i) # Part(b, i)}
           first == Min(differ)
<1>0. \A i \in Int : Sign(i) \in {-1, 0, 1} /\ (Sign(i) = 1 <=> i > 0)
  BY DEF Sign
<1>1. CASE differ = {}
  <2>1. Compare(a, b) = Sign(0)
    BY <1>1 DEF Compare, Parts
  <2>2. \A i \in 1 .. 4 : Part(a, i) = Part(b, i)
    BY <1>1
  <2> QED BY <1>0, <2>1, <2>2 DEF Parts
<1>2. CASE differ # {}
  <2>1. differ \in SUBSET Nat
    OBVIOUS
  <2>2. first \in differ /\ \A i \in differ : first <= i
    <3> HIDE DEF differ
    <3>1. \E x \in differ : \A y \in differ : x <= y
      BY <1>2, <2>1, LeastExists
    <3> QED BY <3>1 DEF Min
  <2>3. Compare(a, b) = Sign(Part(a, first) - Part(b, first))
    BY <1>2 DEF Compare
  <2> HIDE DEF first
  <2>4. /\ first \in 1 .. 4 /\ Part(a, first) # Part(b, first)
        /\ \A i \in 1 .. 4 : Part(a, i) # Part(b, i) => first <= i
    BY <2>2
  <2>5. Part(a, first) \in Int /\ Part(b, first) \in Int
    BY <2>4 DEF Parts
  <2>6. Compare(a, b) \in {-1, 0, 1} /\ (Compare(a, b) = 1 <=> Part(a, first) > Part(b, first))
    BY <1>0, <2>3, <2>5
  <2>7. \A j \in 1 .. 4 : j < first => Part(a, j) = Part(b, j)
    BY <2>4
  <2>8. ASSUME NEW k \in 1 .. 4, Part(a, k) > Part(b, k),
               \A j \in 1 .. 4 : j < k => Part(a, j) = Part(b, j)
        PROVE  k = first
    <3>1. Part(a, k) \in Int /\ Part(b, k) \in Int
      BY DEF Parts
    <3>2. first <= k
      BY <2>4, <2>8, <3>1
    <3>3. ~ (first < k)
      BY <2>4, <2>8
    <3> QED BY <2>4, <3>2, <3>3
  <2> QED BY <2>4, <2>6, <2>7, <2>8
<1> QED BY <1>1, <1>2

LEMMA CompareOrder ==
  ASSUME NEW a, NEW b, NEW v, Parts(a), Parts(b), Parts(v)
  PROVE  /\ Compare(a, a) <= 0
         /\ Compare(a, b) <= 0 /\ Compare(v, b) > 0 => Compare(a, v) <= 0
<1> DEFINE Above(x, y) == \E k \in 1 .. 4 :
                            /\ Part(x, k) > Part(y, k)
                            /\ \A j \in 1 .. 4 : j < k => Part(x, j) = Part(y, j)
<1>1. /\ Compare(a, a) \in {-1, 0, 1} /\ (Compare(a, a) = 1 <=> Above(a, a))
      /\ Compare(a, b) \in {-1, 0, 1} /\ (Compare(a, b) = 1 <=> Above(a, b))
      /\ Compare(v, b) \in {-1, 0, 1} /\ (Compare(v, b) = 1 <=> Above(v, b))
      /\ Compare(a, v) \in {-1, 0, 1} /\ (Compare(a, v) = 1 <=> Above(a, v))
  BY CompareStable
<1>2. ~Above(a, a)
  BY DEF Parts
<1>3. Above(a, v) /\ Above(v, b) => Above(a, b)
  <2> SUFFICES ASSUME Above(a, v), Above(v, b) PROVE Above(a, b)
    OBVIOUS
  <2>1. PICK k \in 1 .. 4 : /\ Part(a, k) > Part(v, k)
                            /\ \A j \in 1 .. 4 : j < k => Part(a, j) = Part(v, j)
    OBVIOUS
  <2>2. PICK i \in 1 .. 4 : /\ Part(v, i) > Part(b, i)
                            /\ \A j \in 1 .. 4 : j < i => Part(v, j) = Part(b, j)
    OBVIOUS
  <2>3. /\ Part(a, k) \in Int /\ Part(v, k) \in Int /\ Part(b, k) \in Int
        /\ Part(a, i) \in Int /\ Part(v, i) \in Int /\ Part(b, i) \in Int
    BY DEF Parts
  <2>4. CASE k <= i
    <3>1. Part(a, k) > Part(b, k)
      <4>1. CASE k = i
        BY <2>1, <2>2, <2>3, <4>1
      <4>2. CASE k < i
        BY <2>1, <2>2, <2>3, <4>2
      <4> QED BY <2>4, <4>1, <4>2
    <3>2. \A j \in 1 .. 4 : j < k => Part(a, j) = Part(b, j)
      BY <2>1, <2>2, <2>4
    <3> QED BY <3>1, <3>2
  <2>5. CASE i < k
    <3>1. Part(a, i) > Part(b, i)
      BY <2>1, <2>2, <2>3, <2>5
    <3>2. \A j \in 1 .. 4 : j < i => Part(a, j) = Part(b, j)
      BY <2>1, <2>2, <2>5
    <3> QED BY <3>1, <3>2
  <2> QED BY <2>4, <2>5
<1> HIDE DEF Above
<1> QED BY <1>1, <1>2, <1>3

\* No stable version is above the highest.
LEMMA NoneAbove ==
  ASSUME NEW s, NEW n \in Nat, NEW I \in SUBSET (1 .. n),
         \A i \in I : Parts(s[i]) /\ s[i] # NoVersion
  PROVE  \A i \in I : Compare(s[i], Highest(s, I)) <= 0
<1>0. \A i \in I : i \in Nat /\ 1 <= i /\ i <= n
  OBVIOUS
<1>1. PICK c : Ascent(c, s, I, n) /\ Highest(s, I) = c[n]
  BY HighestInOrder
<1>2. /\ c[0] = NoVersion
      /\ \A m \in 1 .. n : c[m] = IF m \in I THEN Higher(s[m], c[m - 1]) ELSE c[m - 1]
  BY <1>1 DEF Ascent
<1>3. /\ Upto(I, 0) = {} /\ Upto(I, n) = I
      /\ \A m \in Nat \ {0} :
           /\ \A i \in Upto(I, m) : i \in I /\ (i # m => i \in Upto(I, m - 1))
           /\ m \notin I => Upto(I, m) = Upto(I, m - 1)
           /\ m \in I => m \in Upto(I, m) /\ Upto(I, m) \ {m} = Upto(I, m - 1)
  BY <1>0, UptoFacts
<1> DEFINE Good(m) == /\ c[m] # NoVersion => Parts(c[m])
                      /\ Upto(I, m) # {} => c[m] # NoVersion
                      /\ \A i \in Upto(I, m) : Compare(s[i], c[m]) <= 0
           Bad == {m \in 0 .. n : ~Good(m)}
<1>4. ASSUME Bad # {} PROVE FALSE
  <2>1. PICK m \in Bad : \A k \in Bad : m <= k
    <3> HIDE DEF Bad
    <3>1. Bad \in SUBSET Nat
      BY DEF Bad
    <3> QED BY <1>4, <3>1, LeastExists
  <2>2. m # 0
    BY <1>2, <1>3, <2>1
  <2>3. m \in Nat \ {0} /\ m \in 1 .. n /\ m - 1 \in 0 .. n /\ ~ (m <= m - 1)
    BY <2>1, <2>2
  <2>4. Good(m - 1)
    BY <2>1, <2>3
  <2>5. CASE m \in I
    <3>1. \A i \in Upto(I, m) : i \in I /\ (i # m => i \in Upto(I, m - 1))
      BY <1>3, <2>3
    <3>2. Parts(s[m]) /\ s[m] # NoVersion /\ Compare(s[m], s[m]) <= 0
      BY <2>5, CompareOrder
    <3>3. c[m] = Higher(s[m], c[m - 1])
      BY <1>2, <2>3, <2>5
    <3>4. CASE c[m - 1] = NoVersion
      <4>1. c[m] = s[m] /\ Upto(I, m - 1) = {}
        BY <2>4, <3>3, <3>4 DEF Higher
      <4> QED BY <2>1, <3>1, <3>2, <4>1
    <3>5. CASE c[m - 1] # NoVersion /\ Compare(s[m], c[m - 1]) > 0
      <4>1. c[m] = s[m] /\ Parts(c[m - 1])
        BY <2>4, <3>3, <3>5 DEF Higher
      <4>2. ASSUME NEW i \in Upto(I, m) PROVE Compare(s[i], s[m]) <= 0
        <5>1. CASE i = m
          BY <3>2, <5>1
        <5>2. CASE i # m
          <6>1. Parts(s[i]) /\ Compare(s[i], c[m - 1]) <= 0
            BY <2>4, <3>1, <5>2
          <6> QED BY <3>2, <3>5, <4>1, <6>1, CompareOrder
        <5> QED BY <5>1, <5>2
      <4> QED BY <2>1, <3>2, <4>1, <4>2
    <3>6. CASE c[m - 1] # NoVersion /\ ~(Compare(s[m], c[m - 1]) > 0)
      <4>1. c[m] = c[m - 1] /\ Parts(c[m - 1])
        BY <2>4, <3>3, <3>6 DEF Higher
      <4>2. Compare(s[m], c[m - 1]) <= 0
        BY <3>2, <3>6, <4>1, CompareStable
      <4> QED BY <2>1, <2>4, <3>1, <3>6, <4>1, <4>2
    <3> QED BY <3>4, <3>5, <3>6
  <2>6. CASE m \notin I
    <3>1. Upto(I, m - 1) = Upto(I, m)
      BY <1>3, <2>3, <2>6
    <3>2. c[m] = c[m - 1]
      BY <1>2, <2>3, <2>6
    <3> QED BY <2>1, <2>4, <3>1, <3>2
  <2> QED BY <2>5, <2>6
<1>5. Good(n)
  BY <1>4
<1> QED BY <1>1, <1>3, <1>5

-----------------------------------------------------------------------------
(* What the versions of an answer become.                                   *)

\* An order of the names of an answer has each of them.
LEMMA OrderedNames ==
  ASSUME NEW l \in Listings, NEW order \in SetToSeqs(l.names)
  PROVE  /\ Cardinality(l.names) \in Nat /\ DOMAIN order = 1 .. Cardinality(l.names)
         /\ \A i \in 1 .. Cardinality(l.names) : order[i] \in Name
         /\ l.names \in SUBSET Name /\ l.names \subseteq Names
         /\ l.names = {order[i] : i \in 1 .. Cardinality(l.names)}
<1> DEFINE n == Cardinality(l.names)
           D == 1 .. n
<1>1. l.names \in SUBSET Names /\ Names \subseteq Name
  BY TimesAssumption DEF Names
<1>2. IsFiniteSet(l.names) /\ n \in Nat
  BY <1>1, TimesAssumption, FS_Subset, FS_CardinalityType
<1>3. order \in [D -> l.names] /\ \A i, j \in D : i # j => order[i] # order[j]
  BY DEF SetToSeqs
<1>4. order \in Injection(D, l.names)
  BY <1>3 DEF Injection, IsInjective
<1>5. Cardinality(D) = n
  BY <1>2, FS_Interval
<1>6. order \in Surjection(D, l.names)
  BY <1>2, <1>4, <1>5, FS_Injection
<1>7. \A w \in l.names : \E i \in D : order[i] = w
  BY <1>6 DEF Surjection
<1> QED BY <1>1, <1>2, <1>3, <1>7

\* A version is the name it is written with when nothing precedes the number.
LEMMA VersionsAreNames ==
  ASSUME NEW w \in Name, Normalize(w) # NoVersion
  PROVE  Normalize(w) \in Name /\ Normalize(w) = [w EXCEPT !.lead = 0]
<1>1. Normalize(w) = [w EXCEPT !.lead = 0]
  BY DEF Normalize
<1>2. [w EXCEPT !.lead = 0] \in Name
  BY DEF Name
<1> QED BY <1>1, <1>2

LEMMA StableParts ==
  ASSUME NEW v \in Name, IsStable(v)
  PROVE  Parts(v)
<1>1. v.num \in Seq(Nat) /\ v.suf = 0
  BY DEF Name, IsStable
<1>2. ASSUME NEW k \in 1 .. 4 PROVE Part(v, k) \in Int
  <2>1. Len(v.num) \in Nat /\ DOMAIN v.num = 1 .. Len(v.num)
    BY <1>1
  <2>2. k <= Len(v.num) => v.num[k] \in Nat
    BY <1>1, <2>1
  <2> QED BY <2>2 DEF Part
<1> QED BY <1>1, <1>2 DEF Parts

LEMMA FilterKeeps ==
  ASSUME NEW map, map = [v \in DOMAIN map |-> map[v]], NEW max
  PROVE  \E V \in SUBSET DOMAIN map : FilterNewerThan(map, max) = [v \in V |-> map[v]]
<1> DEFINE V == {w \in DOMAIN map : w = Trunk \/ ~IsStable(w) \/ Compare(w, Normalize(max)) <= 0}
<1>1. V \in SUBSET DOMAIN map /\ DOMAIN map \in SUBSET DOMAIN map
  OBVIOUS
<1>2. FilterNewerThan(map, max) \in {map, [v \in V |-> map[v]]}
  BY DEF FilterNewerThan
<1> HIDE DEF V
<1> QED BY <1>1, <1>2

LEMMA OutcomeFacts ==
  ASSUME NEW l \in Listings, NEW o \in Outcomes[l]
  PROVE  /\ o.versions \in Maps /\ DOMAIN o.versions \in SUBSET Vers
         /\ o.current \in Vers \cup {NoVersion}
         /\ HighestOf(DOMAIN o.versions \ {Trunk}, o.current)
<1>1. PICK order \in SetToSeqs(l.names) : o = Outcome(l, order)
  BY DEF Outcomes
<1> DEFINE n == Cardinality(l.names)
           map == NormalizeInOrder(order)
           versions == FilterNewerThan(map, l.stable)
           J == {j \in DOMAIN order : Normalize(order[j]) \in DOMAIN versions}
           met == [i \in J |-> Normalize(order[i])]
<1>2. /\ n \in Nat /\ DOMAIN order = 1 .. n /\ \A i \in 1 .. n : order[i] \in Name
      /\ l.names \subseteq Names /\ \A i \in 1 .. n : order[i] \in Names
  BY OrderedNames
<1>3. o.versions = versions /\ o.current = Latest(met)
  BY <1>1 DEF Outcome
<1>4. Chosen(map, order, n)
  BY <1>2, AllChosen
<1> HIDE DEF map, n
<1>5. /\ map = [v \in DOMAIN map |-> map[v]]
      /\ \A v \in DOMAIN map : /\ v # NoVersion /\ map[v] \in Names
                               /\ \E i \in 1 .. n : Normalize(order[i]) = v
  BY <1>2, <1>4 DEF Chosen
<1>6. DOMAIN map \in SUBSET Vers
  BY <1>2, <1>5 DEF Vers
<1>7. PICK V \in SUBSET DOMAIN map : versions = [v \in V |-> map[v]]
  BY <1>5, FilterKeeps
<1> HIDE DEF versions
<1>8. versions \in Maps /\ DOMAIN versions = V /\ V \in SUBSET Vers
  <2>1. V \in SUBSET Vers /\ [v \in V |-> map[v]] \in [V -> Names]
    BY <1>5, <1>6, <1>7
  <2> QED BY <1>7, <2>1 DEF Maps
<1>9. /\ J \in SUBSET (1 .. n) /\ DOMAIN met = J
      /\ \A i \in J : /\ met[i] \in V /\ met[i] \in Vers /\ met[i] # NoVersion
                      /\ met[i] \in Name
  <2>1. \A i \in J : met[i] \in V /\ i \in 1 .. n
    BY <1>2, <1>8
  <2>2. \A i \in J : met[i] # NoVersion /\ met[i] \in Vers
    BY <1>5, <1>7, <1>8, <2>1
  <2>3. \A i \in J : met[i] \in Name
    BY <1>2, <2>1, <2>2, VersionsAreNames
  <2> QED BY <2>1, <2>2, <2>3
<1>10. \A v \in V : \E i \in J : met[i] = v
  BY <1>2, <1>5, <1>7, <1>8
<1> HIDE DEF met, J
<1> DEFINE tagged == Tagged(met)
           stable == {i \in Tagged(met) : IsStable(met[i])}
           I == IF stable = {} THEN tagged ELSE stable
<1>11. Latest(met) = Highest(met, I)
  BY DEF Latest
<1>12. tagged = {i \in J : met[i] # Trunk} /\ I \in SUBSET (1 .. n) /\ I \subseteq tagged
  BY <1>9 DEF Tagged
<1>13. CASE tagged = {}
  <2>1. V \ {Trunk} = {}
    BY <1>10, <1>12, <1>13
  <2>2. I = {}
    BY <1>12, <1>13
  <2> HIDE DEF I
  <2>3. o.current = NoVersion
    BY <1>2, <1>3, <1>11, <1>12, <2>2, HighestIsOne
  <2> QED BY <1>3, <1>8, <2>1, <2>3 DEF HighestOf
<1>14. CASE tagged # {}
  <2>1. I # {}
    BY <1>14
  <2>2. \E i \in I : o.current = met[i]
    <3> HIDE DEF I
    <3> QED BY <1>2, <1>3, <1>11, <1>12, <2>1, HighestIsOne
  <2>3. o.current \in Vers /\ o.current \in V \ {Trunk}
    BY <1>9, <1>12, <2>2
  <2> DEFINE W == {v \in V \ {Trunk} : IsStable(v)}
  <2>4. W = {met[i] : i \in stable}
    BY <1>9, <1>10, <1>12
  <2>5. CASE stable = {}
    <3>1. W = {}
      BY <2>4, <2>5
    <3> QED BY <1>3, <1>8, <2>3, <3>1 DEF HighestOf
  <2>6. CASE stable # {}
    <3>1. I = stable
      BY <2>6
    <3>2. \A i \in I : Parts(met[i]) /\ met[i] # NoVersion
      BY <1>9, <1>12, <3>1, StableParts
    <3>3. \A i \in I : Compare(met[i], Highest(met, I)) <= 0
      <4> HIDE DEF I
      <4> QED BY <1>2, <1>12, <3>2, NoneAbove
    <3>4. W # {} /\ o.current \in W /\ \A v \in W : Compare(v, o.current) <= 0
      BY <1>3, <1>11, <2>2, <2>4, <2>6, <3>1, <3>3
    <3> QED BY <1>3, <1>8, <2>3, <3>4 DEF HighestOf
  <2> QED BY <2>5, <2>6
<1> QED BY <1>13, <1>14, <1>3, <1>8

\* One answer gives one set of versions, in whatever order its names are met.
LEMMA OutcomesAgree ==
  ASSUME NEW l \in Listings, NEW o \in Outcomes[l], NEW q \in Outcomes[l]
  PROVE  o.versions = q.versions
<1>1. PICK s \in SetToSeqs(l.names) : o = Outcome(l, s)
  BY DEF Outcomes
<1>2. PICK t \in SetToSeqs(l.names) : q = Outcome(l, t)
  BY DEF Outcomes
<1> DEFINE n == Cardinality(l.names)
<1>3. n \in Nat /\ DOMAIN s = 1 .. n /\ DOMAIN t = 1 .. n /\ l.names \in SUBSET Name
  BY OrderedNames
<1>4. l.names = {s[i] : i \in 1 .. n}
  BY OrderedNames
<1>5. l.names = {t[i] : i \in 1 .. n}
  BY OrderedNames
<1> HIDE DEF n
<1>6. NormalizeInOrder(s) = NormalizeInOrder(t)
  BY <1>3, <1>4, <1>5, OrderIrrelevant
<1> QED BY <1>1, <1>2, <1>6 DEF Outcome

-----------------------------------------------------------------------------
(* The row and the log.                                                     *)

Fields == {"active", "clean", "versions", "current", "answer", "trunk", "stamped", "times", "hash"}

\* A row, as far as its times are concerned.
IsRow(r) ==
  /\ r = [f \in Fields |-> r[f]]
  /\ r.times \in [Vers -> Nat] /\ r.stamped \in BOOLEAN

IsScan(s) == s = [f \in {"cursor", "reach", "head", "since", "read"} |-> s[f]]

\* The log is a sequence of commits of the past.
LogInv ==
  /\ clock \in Nat /\ Window < clock
  /\ svn \in Seq([date : Nat, changes : Commits \cup {{}}])
  /\ \A i \in DOMAIN svn : svn[i].date <= clock

\* A package that was not backfilled has no times.
RowInv == IsRow(row) /\ (~row.stamped => \A v \in Vers : row.times[v] = 0)

\* What is going to be written was read from this row and moved forward.
TaskInv ==
  /\ task = [f \in {"row", "sync"} |-> task[f]] /\ IsRow(task.row)
  /\ phase = "fetch" => task.row.times = row.times
  /\ phase = "write" => \A v \in Vers : task.row.times[v] >= row.times[v]

ScanInv ==
  /\ IsScan(scan)
  /\ scan.read \subseteq DOMAIN svn /\ scan.since \in 0 .. clock
  /\ phase = "walk" => scan.cursor \in 0 .. Len(svn)

TInv == LogInv /\ RowInv /\ TaskInv /\ ScanInv

-----------------------------------------------------------------------------
(* What the operators do to times.                                          *)

LEMMA SyncedTimes ==
  ASSUME NEW r, IsRow(r), NEW l, NEW o
  PROVE  IsRow(Synced(r, l, o)) /\ Synced(r, l, o).times = r.times /\ Synced(r, l, o).stamped = r.stamped
BY DEF IsRow, Fields, Synced

LEMMA MergedTimes ==
  ASSUME LogInv, NEW r, IsRow(r), NEW old, IsRow(old)
  PROVE  IsRow(Merge(r, old)) /\ \A v \in Vers : Merge(r, old).times[v] >= r.times[v]
<1> DEFINE merged == old.stamped \/ old.versions = Nothing
           times == [v \in Vers |-> IF merged /\ v \in DOMAIN r.versions \ {Trunk} /\ r.times[v] = 0
                                    THEN clock ELSE r.times[v]]
<1>1. merged \in BOOLEAN
  BY DEF IsRow
<1>2. times \in [Vers -> Nat] /\ \A v \in Vers : times[v] >= r.times[v]
  BY DEF IsRow, LogInv
<1>3. Merge(r, old) = [r EXCEPT !.stamped = merged, !.times = times]
  BY DEF Merge, IsRow, Fields
<1> HIDE DEF merged, times
<1>4. IsRow([r EXCEPT !.stamped = merged, !.times = times])
      /\ [r EXCEPT !.stamped = merged, !.times = times].times = times
  BY <1>1, <1>2 DEF IsRow, Fields
<1> QED BY <1>2, <1>3, <1>4

LEMMA ResetForward ==
  ASSUME LogInv, NEW I, NEW times \in [Vers -> Nat]
  PROVE  /\ ResetTimes(times, I) \in [Vers -> Nat]
         /\ \A v \in Vers : ResetTimes(times, I)[v] >= times[v]
         /\ \A v \in Vers : times[v] = 0 => ResetTimes(times, I)[v] = 0
BY DEF ResetTimes, LogInv

LEMMA LogEntry ==
  ASSUME LogInv, NEW i \in DOMAIN svn
  PROVE  svn[i] \in [date : Nat, changes : Commits \cup {{}}] /\ svn[i].date \in Nat
<1> DEFINE Entry == [date : Nat, changes : Commits \cup {{}}]
<1>1. svn \in Seq(Entry)
  BY DEF LogInv
<1>2. \A e \in Entry : e.date \in Nat
  OBVIOUS
<1> HIDE DEF Entry
<1>3. svn[i] \in Entry
  BY <1>1
<1> QED BY <1>2, <1>3 DEF Entry

\* The walk gives a time of the past, not before the start of the window nor before a
\* commit it has read.
LEMMA BackfillTimes ==
  ASSUME LogInv, ScanInv, NEW v
  PROVE  /\ BackfillTime(v) \in Nat /\ BackfillTime(v) >= scan.since /\ BackfillTime(v) <= clock
         /\ \A i \in scan.read : Changed(i, v) => BackfillTime(v) >= svn[i].date
<1> DEFINE N == {scan.since} \cup {svn[i].date : i \in {j \in scan.read : Changed(j, v)}}
<1>0. scan.since \in Nat /\ scan.since <= clock /\ clock \in Nat
  BY DEF LogInv, ScanInv
<1>1. ASSUME NEW i \in scan.read PROVE svn[i].date \in Nat /\ svn[i].date <= clock
  BY LogEntry DEF LogInv, ScanInv
<1>2. N \in SUBSET Nat /\ N # {} /\ \A n \in N : n <= clock
  BY <1>0, <1>1
<1>3. BackfillTime(v) = Max(N)
  BY DEF BackfillTime
<1>4. scan.since \in N /\ \A i \in scan.read : Changed(i, v) => svn[i].date \in N
  OBVIOUS
<1> HIDE DEF N
<1>5. Max(N) \in N /\ \A k \in N : k <= Max(N)
  BY <1>0, <1>2, GreatestExists
<1>6. \A k \in N : k \in Nat /\ k <= clock
  BY <1>2
<1> DEFINE m == Max(N)
<1> HIDE DEF m
<1>7. m \in Nat /\ m <= clock /\ \A k \in N : m >= k
  BY <1>5, <1>6 DEF m
<1> QED BY <1>3, <1>4, <1>7 DEF m

LEMMA BackfilledTimes ==
  ASSUME LogInv, ScanInv, NEW r, IsRow(r)
  PROVE  IsRow(Backfilled(r))
<1> DEFINE times == [v \in Vers |-> IF v \in DOMAIN r.versions \ {Trunk} THEN BackfillTime(v) ELSE 0]
           b == [r EXCEPT !.stamped = TRUE, !.times = times]
<1>1. times \in [Vers -> Nat]
  BY BackfillTimes
<1>2. Backfilled(r) = IF r.hash = NoHash THEN b ELSE [b EXCEPT !.hash = HashOf(b)]
  BY DEF Backfilled
<1> HIDE DEF times
<1>3. IsRow(b)
  BY <1>1 DEF IsRow, Fields
<1> HIDE DEF b
<1>4. \A h : IsRow([b EXCEPT !.hash = h])
  BY <1>3 DEF IsRow, Fields
<1> QED BY <1>2, <1>3, <1>4

\* The first revision of a chunk, counted down from n.
LEMMA FirstOf ==
  ASSUME NEW x \in Int
  PROVE  Max({1, x}) \in {1, x} /\ Max({1, x}) >= 1 /\ Max({1, x}) >= x
<1>1. CASE x >= 1
  <2>1. x \in {1, x} /\ \A y \in {1, x} : x >= y
    BY <1>1
  <2> QED BY <2>1 DEF Max
<1>2. CASE ~(x >= 1)
  <2>1. 1 \in {1, x} /\ \A y \in {1, x} : 1 >= y
    BY <1>2
  <2> QED BY <2>1 DEF Max
<1> QED BY <1>1, <1>2

-----------------------------------------------------------------------------
(* Steps.                                                                   *)

\* The steps that leave the log, and the times in the row, as they are.
Quiet ==
  /\ UNCHANGED <<clock, svn>>
  /\ IsRow(row') /\ row'.times = row.times /\ row'.stamped = row.stamped

LEMMA QuietStep ==
  ASSUME TInv, Quiet, TaskInv', ScanInv' PROVE TInv' /\ ForwardStep
<1>1. \A v \in Vers : row.times[v] \in Nat
  BY DEF TInv, RowInv, IsRow
<1>2. LogInv'
  BY DEF TInv, LogInv, Quiet
<1>3. RowInv'
  BY DEF TInv, RowInv, Quiet
<1>4. ForwardStep
  BY <1>1 DEF ForwardStep, Quiet
<1> QED BY <1>2, <1>3, <1>4 DEF TInv

\* What Unlock leaves.
LEMMA Unlocked ==
  ASSUME LogInv, LogInv', Unlock PROVE TaskInv' /\ ScanInv'
<1>1. IsRow(Shell)
  <2>1. NoTimes \in [Vers -> Nat]
    BY DEF NoTimes
  <2> QED BY <2>1 DEF IsRow, Fields, Shell
<1>2. TaskInv'
  BY <1>1 DEF Unlock, NoTask, TaskInv
<1>3. IsScan(NoScan)
  BY DEF IsScan, NoScan
<1>4. ScanInv'
  BY <1>3 DEF LogInv, Unlock, ScanInv, NoScan
<1> QED BY <1>2, <1>4

\* Time and commits.
LEMMA LogSteps ==
  ASSUME TInv, Tick \/ \E c \in Commits : Commit(c)
  PROVE  TInv' /\ ForwardStep
<1>1. UNCHANGED <<row, phase, scan, task>>
  BY DEF Tick, Commit
<1>2. LogInv' /\ DOMAIN svn \subseteq DOMAIN svn' /\ Len(svn) <= Len(svn') /\ clock <= clock'
      /\ Len(svn) \in Nat /\ Len(svn') \in Nat /\ clock' \in Nat
  <2>1. CASE Tick
    <3>1. clock \in Nat /\ Window \in Nat /\ Window <= clock /\ clock' = clock + 1 /\ svn' = svn
      BY <2>1, TimesAssumption DEF Tick, TInv, LogInv
    <3>2. ASSUME NEW i \in DOMAIN svn PROVE svn[i].date <= clock'
      <4>1. svn[i].date \in Nat /\ svn[i].date <= clock
        BY LogEntry DEF TInv, LogInv
      <4> QED BY <3>1, <4>1
    <3>3. svn \in Seq([date : Nat, changes : Commits \cup {{}}])
      BY DEF TInv, LogInv
    <3>4. Len(svn) \in Nat
      BY <3>3
    <3> QED BY <3>1, <3>2, <3>3, <3>4 DEF LogInv
  <2>2. ASSUME NEW c \in Commits, Commit(c)
        PROVE  LogInv' /\ DOMAIN svn \subseteq DOMAIN svn' /\ Len(svn) <= Len(svn')
               /\ clock <= clock' /\ Len(svn) \in Nat /\ Len(svn') \in Nat /\ clock' \in Nat
    <3> DEFINE e == [date |-> clock, changes |-> c]
    <3>1. e \in [date : Nat, changes : Commits \cup {{}}] /\ e.date = clock
      BY DEF TInv, LogInv
    <3>2. svn' = Append(svn, e) /\ clock' = clock
      BY <2>2 DEF Commit
    <3> DEFINE Entry == [date : Nat, changes : Commits \cup {{}}]
    <3>3. svn \in Seq(Entry) /\ \A i \in DOMAIN svn : svn[i].date <= clock
      BY DEF TInv, LogInv
    <3>4. e \in Entry
      BY <3>1
    <3> HIDE DEF e, Entry
    <3>5. /\ svn' \in Seq(Entry) /\ Len(svn') = Len(svn) + 1 /\ Len(svn) \in Nat
          /\ DOMAIN svn = 1 .. Len(svn) /\ DOMAIN svn' = 1 .. Len(svn')
          /\ \A i \in DOMAIN svn : svn'[i] = svn[i]
          /\ svn'[Len(svn')] = e
      BY <3>2, <3>3, <3>4
    <3>6. \A i \in DOMAIN svn' : svn'[i].date <= clock
      <4>1. ASSUME NEW i \in DOMAIN svn' PROVE i \in DOMAIN svn \/ i = Len(svn')
        BY <3>5
      <4>2. clock \in Nat
        BY DEF TInv, LogInv
      <4> QED BY <3>1, <3>3, <3>5, <4>1, <4>2
    <3>7. LogInv'
      BY <3>2, <3>5, <3>6 DEF Entry, TInv, LogInv
    <3> QED BY <3>2, <3>5, <3>7 DEF TInv, LogInv
  <2> QED BY <2>1, <2>2
<1>3. RowInv' /\ TaskInv' /\ ForwardStep
  BY <1>1 DEF TInv, RowInv, TaskInv, ForwardStep, IsRow
<1>4. ScanInv'
  BY <1>1, <1>2 DEF TInv, LogInv, ScanInv
<1> QED BY <1>2, <1>3, <1>4 DEF TInv

\* check-status.
LEMMA StatusSteps ==
  ASSUME TInv, Deactivate \/ Reactivate
  PROVE  TInv' /\ ForwardStep
<1>1. UNCHANGED <<clock, svn, phase, scan, task>>
  BY DEF Deactivate, Reactivate
<1>2. IsRow(row') /\ row'.times = row.times /\ row'.stamped = row.stamped
  <2>1. IsRow(row)
    BY DEF TInv, RowInv
  <2>2. CASE Deactivate
    BY <2>1, <2>2 DEF Deactivate, IsRow, Fields
  <2>3. CASE Reactivate
    BY <2>1, <2>3 DEF Reactivate, IsRow, Fields
  <2> QED BY <2>2, <2>3
<1>3. TaskInv' /\ ScanInv'
  BY <1>1, <1>2 DEF TInv, TaskInv, ScanInv
<1> QED BY <1>1, <1>2, <1>3, QuietStep DEF Quiet

LEMMA DiscoverSteps ==
  ASSUME TInv, Discover
  PROVE  TInv' /\ ForwardStep
<1>1. IsRow(row) /\ LogInv /\ IsScan(scan) /\ IsRow(task.row)
  BY DEF TInv, RowInv, ScanInv, TaskInv
<1>2. CASE FirstRun \/ StartScan
  <2>1. UNCHANGED <<clock, svn, row, task>> /\ phase' \in {"free", "scan", "save"}
    BY <1>2 DEF FirstRun, StartScan
  <2>2. TaskInv'
    BY <2>1 DEF TInv, TaskInv
  <2>3. ScanInv'
    <3>1. CASE FirstRun
      BY <2>1, <3>1 DEF FirstRun, TInv, ScanInv
    <3>2. CASE StartScan
      <4>1. IsScan(scan') /\ scan'.read = {} /\ scan'.since = 0
        BY <3>2 DEF StartScan, NoScan, IsScan
      <4> QED BY <1>1, <2>1, <4>1 DEF ScanInv, LogInv
    <3> QED BY <1>2, <3>1, <3>2
  <2> QED BY <1>1, <2>1, <2>2, <2>3, QuietStep DEF Quiet
<1>3. ASSUME NEW to \in 0 .. MaxCommits, ReadChunk(to) PROVE TInv' /\ ForwardStep
  <2> DEFINE times == ResetTimes(row.times, scan.cursor + 1 .. to)
  <2>1. /\ times \in [Vers -> Nat] /\ \A v \in Vers : times[v] >= row.times[v]
        /\ \A v \in Vers : row.times[v] = 0 => times[v] = 0
    BY <1>1, ResetForward DEF IsRow
  <2>2. row' = [row EXCEPT !.times = times] /\ UNCHANGED <<clock, svn, task>> /\ phase' = "mark"
    BY <1>1, <1>3 DEF ReadChunk, IsRow, Fields
  <2> HIDE DEF times
  <2>3. IsRow(row') /\ row'.times = times /\ row'.stamped = row.stamped
    BY <1>1, <2>1, <2>2 DEF IsRow, Fields
  <2>4. LogInv' /\ RowInv'
    BY <2>1, <2>2, <2>3 DEF TInv, LogInv, RowInv
  <2>5. TaskInv'
    BY <2>2 DEF TInv, TaskInv
  <2>6. IsScan(scan') /\ scan'.read = scan.read /\ scan'.since = scan.since
    BY <1>1, <1>3 DEF ReadChunk, IsScan
  <2>7. ScanInv'
    BY <2>2, <2>6 DEF TInv, ScanInv
  <2>8. ForwardStep
    BY <2>1, <2>3 DEF ForwardStep
  <2> QED BY <2>4, <2>5, <2>7, <2>8 DEF TInv
<1>4. CASE MarkChunk
  <2>1. UNCHANGED <<clock, svn, task>> /\ phase' \in {"scan", "save"}
    BY <1>4 DEF MarkChunk
  <2>2. IsRow(row') /\ row'.times = row.times /\ row'.stamped = row.stamped
    BY <1>1, <1>4 DEF MarkChunk, IsRow, Fields
  <2>3. TaskInv'
    BY <2>1 DEF TInv, TaskInv
  <2>4. IsScan(scan') /\ scan'.read = scan.read /\ scan'.since = scan.since
    BY <1>1, <1>4 DEF MarkChunk, IsScan
  <2>5. ScanInv'
    BY <2>1, <2>4 DEF TInv, ScanInv
  <2> QED BY <2>1, <2>2, <2>3, <2>5, QuietStep DEF Quiet
<1>5. CASE SaveRevision \/ FetchFailed
  <2>1. UNCHANGED <<clock, svn, row>> /\ Unlock
    BY <1>5 DEF SaveRevision, FetchFailed
  <2>2. LogInv'
    BY <1>1, <2>1 DEF LogInv
  <2>3. TaskInv' /\ ScanInv'
    BY <1>1, <2>1, <2>2, Unlocked
  <2> QED BY <1>1, <2>1, <2>3, QuietStep DEF Quiet
<1> QED BY <1>2, <1>3, <1>4, <1>5 DEF Discover

LEMMA UpdateSteps ==
  ASSUME TInv, Update
  PROVE  TInv' /\ ForwardStep
<1>1. IsRow(row) /\ LogInv /\ IsRow(task.row) /\ IsScan(scan)
  BY DEF TInv, RowInv, TaskInv, ScanInv
<1>2. CASE StartUpdate
  <2>1. UNCHANGED <<clock, svn, row, scan>> /\ phase' = "fetch" /\ task' = [NoTask EXCEPT !.row = row]
    BY <1>2 DEF StartUpdate
  <2>2. TaskInv'
    BY <1>1, <2>1 DEF NoTask, TaskInv
  <2>3. ScanInv'
    BY <2>1 DEF TInv, ScanInv
  <2> QED BY <1>1, <2>1, <2>2, <2>3, QuietStep DEF Quiet
<1>3. ASSUME NEW l, NEW o, NEW sync, FetchOk(l, o, sync)
      PROVE  TInv' /\ ForwardStep
  <2> DEFINE r == Merge(Synced(task.row, l, o), task.row)
  <2>1. /\ UNCHANGED <<clock, svn, row, scan>> /\ phase = "fetch" /\ phase' = "write"
        /\ task' = [row |-> [r EXCEPT !.hash = HashOf(r)], sync |-> sync]
    BY <1>3 DEF FetchOk
  <2>2. IsRow(Synced(task.row, l, o)) /\ Synced(task.row, l, o).times = task.row.times
    BY <1>1, SyncedTimes
  <2>3. IsRow(r) /\ \A v \in Vers : r.times[v] >= task.row.times[v]
    BY <1>1, <2>2, MergedTimes
  <2>4. task.row.times = row.times
    BY <2>1 DEF TInv, TaskInv
  <2> HIDE DEF r
  <2>5. \A h : IsRow([r EXCEPT !.hash = h]) /\ [r EXCEPT !.hash = h].times = r.times
    BY <2>3 DEF IsRow, Fields
  <2>6. IsRow(task'.row) /\ task'.row.times = r.times /\ task' = [f \in {"row", "sync"} |-> task'[f]]
    BY <2>1, <2>5
  <2>7. TaskInv'
    BY <2>1, <2>3, <2>4, <2>6 DEF TaskInv
  <2>8. ScanInv'
    BY <2>1 DEF TInv, ScanInv
  <2> QED BY <1>1, <2>1, <2>7, <2>8, QuietStep DEF Quiet
<1>4. CASE Flush
  <2> DEFINE q == task.row
             stamped == q.stamped \/ row.stamped
             times == IF q.stamped THEN q.times ELSE row.times
  <2>1. UNCHANGED <<clock, svn>> /\ phase = "write" /\ Unlock
    BY <1>4 DEF Flush
  <2>2. row' = [q EXCEPT !.active = TRUE, !.clean = task.sync \/ @, !.trunk = row.trunk,
                         !.stamped = stamped, !.times = times]
    BY <1>1, <1>4 DEF Flush
  <2>3. /\ times \in [Vers -> Nat] /\ stamped \in BOOLEAN
        /\ \A v \in Vers : times[v] >= row.times[v]
    BY <1>1, <2>1 DEF IsRow, TInv, TaskInv
  <2>4. ~stamped => times = row.times
    BY <1>1 DEF IsRow
  <2> HIDE DEF times, stamped
  <2>5. IsRow(row') /\ row'.times = times /\ row'.stamped = stamped
    BY <1>1, <2>2, <2>3 DEF IsRow, Fields
  <2>6. stamped = FALSE => row.stamped = FALSE
    BY <1>1 DEF stamped, IsRow
  <2>7. RowInv'
    BY <2>3, <2>4, <2>5, <2>6 DEF TInv, RowInv
  <2>8. LogInv'
    BY <1>1, <2>1 DEF LogInv
  <2>9. TaskInv' /\ ScanInv'
    BY <1>1, <2>1, <2>8, Unlocked
  <2>10. ForwardStep
    BY <2>3, <2>5 DEF ForwardStep
  <2> QED BY <2>7, <2>8, <2>9, <2>10 DEF TInv
<1> QED BY <1>2, <1>3, <1>4 DEF Update

LEMMA BackfillSteps ==
  ASSUME TInv, Backfill
  PROVE  TInv' /\ ForwardStep
<1>1. /\ IsRow(row) /\ LogInv /\ IsRow(task.row) /\ IsScan(scan) /\ ScanInv
      /\ clock \in Nat /\ Window \in Nat /\ Window <= clock
      /\ Len(svn) \in Nat /\ DOMAIN svn = 1 .. Len(svn)
  BY TimesAssumption DEF TInv, RowInv, TaskInv, ScanInv, LogInv
<1>2. CASE StartBackfill
  <2>1. UNCHANGED <<clock, svn, row, task>> /\ phase' = "walk"
    BY <1>2 DEF StartBackfill
  <2>2. TaskInv'
    BY <2>1 DEF TInv, TaskInv
  <2>3. /\ IsScan(scan') /\ scan'.read = {} /\ scan'.since = clock - Window
        /\ scan'.cursor = Len(svn)
    BY <1>2 DEF StartBackfill, NoScan, IsScan
  <2>4. ScanInv'
    BY <1>1, <2>1, <2>3 DEF ScanInv
  <2> QED BY <1>1, <2>1, <2>2, <2>4, QuietStep DEF Quiet
<1>3. CASE WalkChunk
  <2> DEFINE from == Max({1, scan.cursor - Chunk + 1})
  <2>1. UNCHANGED <<clock, svn, row, task>> /\ phase = "walk" /\ phase' \in {"walk", "rows"}
    BY <1>3 DEF WalkChunk
  <2>2. TaskInv'
    BY <2>1 DEF TInv, TaskInv
  <2>3. scan.cursor \in Nat /\ scan.cursor <= Len(svn) /\ Chunk \in Nat /\ Chunk >= 1
    BY <1>1, <2>1, TimesAssumption DEF ScanInv
  <2>4. from \in Nat /\ from >= 1 /\ from - 1 \in 0 .. Len(svn)
    <3>1. scan.cursor - Chunk + 1 \in Int
      BY <2>3
    <3>2. from \in {1, scan.cursor - Chunk + 1} /\ from >= 1
      BY <3>1, FirstOf
    <3> HIDE DEF from
    <3> QED BY <1>1, <2>3, <3>2
  <2>5. scan' = [scan EXCEPT !.read = scan.read \cup (from .. scan.cursor), !.cursor = from - 1]
    BY <1>1, <1>3 DEF WalkChunk
  <2> HIDE DEF from
  <2>6. /\ IsScan(scan') /\ scan'.since = scan.since /\ scan'.cursor = from - 1
        /\ scan'.read = scan.read \cup (from .. scan.cursor)
    BY <1>1, <2>5 DEF IsScan
  <2>7. from .. scan.cursor \subseteq DOMAIN svn
    BY <1>1, <2>3, <2>4
  <2>8. ScanInv'
    BY <1>1, <2>1, <2>4, <2>6, <2>7 DEF ScanInv
  <2> QED BY <1>1, <2>1, <2>2, <2>8, QuietStep DEF Quiet
<1>4. CASE ReadUntimed
  <2>1. UNCHANGED <<clock, svn, row, scan>> /\ phase' = "fill"
    BY <1>4 DEF ReadUntimed
  <2>2. IsRow(Backfilled(row))
    BY <1>1, BackfilledTimes
  <2>3. task' = task \/ task' = [task EXCEPT !.row = Backfilled(row)]
    BY <1>4 DEF ReadUntimed
  <2>4. task = [f \in {"row", "sync"} |-> task[f]]
    BY DEF TInv, TaskInv
  <2>5. IsRow(task'.row) /\ task' = [f \in {"row", "sync"} |-> task'[f]]
    BY <1>1, <2>2, <2>3, <2>4
  <2>6. TaskInv'
    BY <2>1, <2>5 DEF TaskInv
  <2>7. ScanInv'
    BY <2>1 DEF TInv, ScanInv
  <2> QED BY <1>1, <2>1, <2>6, <2>7, QuietStep DEF Quiet
<1>5. CASE FillUntimed
  <2>1. UNCHANGED <<clock, svn>> /\ Unlock
    BY <1>5 DEF FillUntimed
  <2>2. LogInv'
    BY <1>1, <2>1 DEF LogInv
  <2>3. TaskInv' /\ ScanInv'
    BY <1>1, <2>1, <2>2, Unlocked
  <2>4. CASE row.stamped
    <3>1. row' = row
      BY <1>5, <2>4 DEF FillUntimed
    <3> QED BY <1>1, <2>1, <2>3, <3>1, QuietStep DEF Quiet
  <2>5. CASE ~row.stamped
    <3>1. row' = [row EXCEPT !.stamped = TRUE, !.times = task.row.times, !.hash = task.row.hash]
      BY <1>5, <2>5 DEF FillUntimed
    <3>2. IsRow(row') /\ row'.times = task.row.times /\ row'.stamped = TRUE
      BY <1>1, <3>1 DEF IsRow, Fields
    <3>3. \A v \in Vers : row.times[v] = 0 /\ task.row.times[v] \in Nat
      BY <1>1, <2>5 DEF TInv, RowInv, IsRow
    <3>4. ForwardStep
      BY <3>2, <3>3 DEF ForwardStep
    <3>5. RowInv'
      BY <3>2 DEF RowInv
    <3> QED BY <2>2, <2>3, <3>4, <3>5 DEF TInv
  <2> QED BY <2>4, <2>5
<1> QED BY <1>2, <1>3, <1>4, <1>5 DEF Backfill

LEMMA TimesStep == ASSUME TInv, [Next]_vars PROVE TInv' /\ ForwardStep
<1>1. CASE Fail
  <2>1. UNCHANGED <<clock, svn, row>> /\ Unlock
    BY <1>1 DEF Fail
  <2>2. LogInv /\ LogInv' /\ IsRow(row)
    BY <2>1 DEF TInv, LogInv, RowInv
  <2>3. TaskInv' /\ ScanInv'
    BY <2>1, <2>2, Unlocked
  <2> QED BY <2>1, <2>2, <2>3, QuietStep DEF Quiet
<1>2. CASE UNCHANGED vars
  <2>1. TaskInv' /\ ScanInv'
    BY <1>2 DEF vars, TInv, TaskInv, ScanInv
  <2> QED BY <1>2, <2>1, QuietStep DEF vars, Quiet, TInv, RowInv
<1> QED BY <1>1, <1>2, LogSteps, StatusSteps, DiscoverSteps, UpdateSteps, BackfillSteps DEF Next

LEMMA TimesInit == ASSUME Init PROVE TInv
<1>1. Window \in Nat /\ clock = Window + 1 /\ svn = <<[date |-> 1, changes |-> {}]>>
  BY TimesAssumption DEF Init
<1>2. LogInv
  <2> DEFINE e == [date |-> 1, changes |-> {}]
             Entry == [date : Nat, changes : Commits \cup {{}}]
  <2>1. e \in Entry /\ e.date = 1
    OBVIOUS
  <2> HIDE DEF e, Entry
  <2>2. <<e>> \in Seq(Entry) /\ \A i \in DOMAIN <<e>> : <<e>>[i] = e
    BY <2>1
  <2>3. svn = <<e>>
    BY <1>1 DEF e
  <2> QED BY <1>1, <2>1, <2>2, <2>3 DEF LogInv, Entry
<1>3. NoTimes \in [Vers -> Nat] /\ \A v \in Vers : NoTimes[v] = 0
  BY DEF NoTimes
<1>4. IsRow(Shell) /\ Shell.times = NoTimes
  BY <1>3 DEF IsRow, Fields, Shell
<1>5. ASSUME NEW r \in {Shell} \cup OldRows PROVE IsRow(r) /\ r.times = NoTimes
  <2> DEFINE clean == [Shell EXCEPT !.clean = TRUE]
  <2>1. IsRow(clean) /\ clean.times = NoTimes
    BY <1>4 DEF IsRow, Fields
  <2> HIDE DEF clean
  <2>2. ASSUME NEW l, NEW o, NEW h
        PROVE  /\ IsRow([Synced(clean, l, o) EXCEPT !.hash = h])
               /\ [Synced(clean, l, o) EXCEPT !.hash = h].times = NoTimes
    <3>1. IsRow(Synced(clean, l, o)) /\ Synced(clean, l, o).times = NoTimes
      BY <2>1, SyncedTimes
    <3> QED BY <3>1 DEF IsRow, Fields
  <2>3. CASE r \in OldRows
    <3>1. PICK l, o : r = [Synced(clean, l, o) EXCEPT !.hash = HashOf(Synced(clean, l, o))]
      BY <2>3 DEF OldRows, clean
    <3> QED BY <2>2, <3>1
  <2> QED BY <1>4, <2>3
<1>6. RowInv
  BY <1>3, <1>5 DEF Init, RowInv
<1>7. TaskInv
  BY <1>4 DEF Init, TaskInv, NoTask
<1>8. IsScan(NoScan)
  BY DEF IsScan, NoScan
<1>9. ScanInv
  BY <1>1, <1>8 DEF Init, ScanInv, NoScan
<1> QED BY <1>2, <1>6, <1>7, <1>9 DEF TInv

\* A cooldown is never shortened: no command moves a published time back or forgets
\* it, whatever it read before (published_times.go:24-36, 172-178).
THEOREM NoTimeMovedBack == Spec => TimesOnlyForward
<1>1. Init => TInv
  BY TimesInit
<1>2. TInv /\ [Next]_vars => TInv' /\ ForwardStep
  BY TimesStep
<1> QED BY <1>1, <1>2, PTL DEF Spec, TimesOnlyForward

-----------------------------------------------------------------------------
(* What the steps that write a row leave in each of its columns.            *)

\* Only is_active and last_synced_at differ.
Kept(q, r) ==
  /\ q.versions = r.versions /\ q.current = r.current /\ q.answer = r.answer
  /\ q.trunk = r.trunk /\ q.stamped = r.stamped /\ q.times = r.times /\ q.hash = r.hash

LEMMA StatusEffect ==
  ASSUME IsRow(row), Deactivate \/ Reactivate
  PROVE  /\ Kept(row', row) /\ ~(row'.active /\ row'.clean)
         /\ UNCHANGED <<clock, svn, stored, base, phase, scan, task>>
BY DEF Deactivate, Reactivate, IsRow, Fields, Kept

LEMMA ReadEffect ==
  ASSUME IsRow(row), NEW to, ReadChunk(to)
  PROVE  /\ row'.times = ResetTimes(row.times, scan.cursor + 1 .. to)
         /\ row'.versions = row.versions /\ row'.current = row.current
         /\ row'.answer = row.answer /\ row'.trunk = row.trunk /\ row'.stamped = row.stamped
         /\ row'.hash = row.hash /\ row'.active = row.active /\ row'.clean = row.clean
<1> DEFINE times == ResetTimes(row.times, scan.cursor + 1 .. to)
<1>1. row' = [row EXCEPT !.times = times]
  BY DEF ReadChunk, IsRow, Fields
<1> HIDE DEF times
<1>2. /\ row'.times = times
      /\ row'.versions = row.versions /\ row'.current = row.current
      /\ row'.answer = row.answer /\ row'.trunk = row.trunk /\ row'.stamped = row.stamped
      /\ row'.hash = row.hash /\ row'.active = row.active /\ row'.clean = row.clean
  BY <1>1 DEF IsRow, Fields
<1> QED BY <1>2 DEF times

LEMMA MarkEffect ==
  ASSUME IsRow(row), MarkChunk
  PROVE  /\ row'.times = row.times /\ row'.versions = row.versions /\ row'.current = row.current
         /\ row'.answer = row.answer /\ row'.stamped = row.stamped /\ row'.hash = row.hash
         /\ row'.active = row.active
         /\ \/ row' = row /\ ~(scan.reach > scan.cursor /\ row.active)
            \/ ~row'.clean
BY DEF MarkChunk, IsRow, Fields

LEMMA FetchEffect ==
  ASSUME IsRow(task.row), NEW l, NEW o, NEW sync, FetchOk(l, o, sync),
         NEW merged, merged = (task.row.stamped \/ task.row.versions = Nothing)
  PROVE  LET q == task'.row
         IN /\ q.versions = o.versions /\ q.current = o.current /\ q.answer = l
            /\ q.trunk = task.row.trunk /\ q.stamped = merged /\ q.hash = HashOf(q)
            /\ q.times = [v \in Vers |->
                            IF merged /\ v \in DOMAIN o.versions \ {Trunk} /\ task.row.times[v] = 0
                            THEN clock ELSE task.row.times[v]]
<1> DEFINE s == Synced(task.row, l, o)
           r == Merge(s, task.row)
           times == [v \in Vers |->
                       IF merged /\ v \in DOMAIN o.versions \ {Trunk} /\ task.row.times[v] = 0
                       THEN clock ELSE task.row.times[v]]
<1>1. /\ s.versions = o.versions /\ s.current = o.current /\ s.answer = l
      /\ s.trunk = task.row.trunk /\ s.times = task.row.times /\ IsRow(s)
  BY DEF Synced, IsRow, Fields
<1>2. task' = [row |-> [r EXCEPT !.hash = HashOf(r)], sync |-> sync]
  BY DEF FetchOk
<1>3. r = [s EXCEPT !.stamped = merged, !.times = times]
  <2>1. r = [s EXCEPT !.stamped = merged,
                      !.times = [v \in Vers |->
                                   IF merged /\ v \in DOMAIN s.versions \ {Trunk} /\ s.times[v] = 0
                                   THEN clock ELSE s.times[v]]]
    BY <1>1 DEF Merge, IsRow, Fields
  <2> HIDE DEF s
  <2> QED BY <1>1, <2>1
<1> HIDE DEF s, times, r
<1>4. /\ r.versions = o.versions /\ r.current = o.current /\ r.answer = l
      /\ r.trunk = task.row.trunk /\ r.stamped = merged /\ r.times = times
      /\ r = [f \in Fields |-> r[f]]
  BY <1>1, <1>3 DEF IsRow, Fields
<1> DEFINE h == HashOf(r)
           q == [r EXCEPT !.hash = h]
<1> HIDE DEF h
<1>5. /\ q.versions = r.versions /\ q.current = r.current /\ q.answer = r.answer
      /\ q.trunk = r.trunk /\ q.stamped = r.stamped /\ q.times = r.times /\ q.hash = h
  BY <1>4 DEF Fields
<1>6. task'.row = q
  BY <1>2 DEF h
<1> HIDE DEF q
<1>7. HashOf(q) = h
  BY <1>5 DEF HashOf, h
<1> QED BY <1>4, <1>5, <1>6, <1>7 DEF times

LEMMA FlushEffect ==
  ASSUME IsRow(row), IsRow(task.row), Flush
  PROVE  /\ row'.versions = task.row.versions /\ row'.current = task.row.current
         /\ row'.answer = task.row.answer /\ row'.hash = task.row.hash
         /\ row'.trunk = row.trunk /\ row'.stamped = (task.row.stamped \/ row.stamped)
         /\ row'.times = IF task.row.stamped THEN task.row.times ELSE row.times
<1> DEFINE q == task.row
           stamped == q.stamped \/ row.stamped
           clean == task.sync \/ q.clean
           times == IF q.stamped THEN q.times ELSE row.times
<1>1. row' = [q EXCEPT !.active = TRUE, !.clean = clean, !.trunk = row.trunk,
                       !.stamped = stamped, !.times = times]
  BY DEF Flush, IsRow, Fields
<1> HIDE DEF stamped, clean, times
<1>2. /\ row'.versions = q.versions /\ row'.current = q.current
      /\ row'.answer = q.answer /\ row'.hash = q.hash
      /\ row'.trunk = row.trunk /\ row'.stamped = stamped /\ row'.times = times
  BY <1>1 DEF IsRow, Fields
<1> QED BY <1>2 DEF stamped, times

LEMMA ReadUntimedEffect ==
  ASSUME IsRow(row), IsRow(task.row), task = [f \in {"row", "sync"} |-> task[f]],
         ReadUntimed, ~row.stamped
  PROVE  LET q == task'.row
         IN /\ q.times = [v \in Vers |-> IF v \in DOMAIN row.versions \ {Trunk}
                                         THEN BackfillTime(v) ELSE 0]
            /\ q.hash = IF row.hash = NoHash THEN NoHash
                        ELSE HashVersions(row.versions, row.trunk, TRUE, q.times)
<1> DEFINE times == [v \in Vers |-> IF v \in DOMAIN row.versions \ {Trunk}
                                    THEN BackfillTime(v) ELSE 0]
           b == [row EXCEPT !.stamped = TRUE, !.times = times]
<1>1. task'.row = IF row.hash = NoHash THEN b ELSE [b EXCEPT !.hash = HashOf(b)]
  BY DEF ReadUntimed, Backfilled
<1> HIDE DEF times
<1>2. /\ b.times = times /\ b.versions = row.versions /\ b.trunk = row.trunk
      /\ b.stamped = TRUE /\ b.hash = row.hash /\ b = [f \in Fields |-> b[f]]
  BY DEF IsRow, Fields
<1> HIDE DEF b
<1> DEFINE h == HashVersions(row.versions, row.trunk, TRUE, times)
<1>3. HashOf(b) = h
  BY <1>2 DEF HashOf
<1> HIDE DEF h
<1>4. [b EXCEPT !.hash = h].times = times /\ [b EXCEPT !.hash = h].hash = h
  BY <1>2 DEF Fields
<1>5. CASE row.hash = NoHash
  BY <1>1, <1>2, <1>5 DEF times
<1>6. CASE row.hash # NoHash
  <2>1. task'.row.times = times /\ task'.row.hash = h
    BY <1>1, <1>3, <1>4, <1>6
  <2> QED BY <1>6, <2>1 DEF times, h
<1> QED BY <1>5, <1>6

LEMMA FillEffect ==
  ASSUME IsRow(row), FillUntimed
  PROVE  /\ row'.versions = row.versions /\ row'.current = row.current
         /\ row'.answer = row.answer /\ row'.trunk = row.trunk
         /\ row.stamped => row' = row
         /\ ~row.stamped => /\ row'.stamped = TRUE /\ row'.times = task.row.times
                            /\ row'.hash = task.row.hash
BY DEF FillUntimed, IsRow, Fields

-----------------------------------------------------------------------------
(* What ties the row to the log and to the answer it was synced from.        *)

Scanning == phase \in {"scan", "mark", "save"}

\* The revision up to which the times in the row are moved forward, and the one
\* up to which the row is marked: they run ahead of the stored one.
Reached == IF Scanning THEN scan.reach ELSE stored
Passed == IF Scanning THEN scan.cursor ELSE stored

OrderInv ==
  /\ base \in Nat /\ stored \in Nat /\ base <= stored /\ stored <= Len(svn)
  /\ stored = 0 => base = 0
  /\ \A i, j \in DOMAIN svn : i <= j => svn[i].date <= svn[j].date

\* What the scan and the walk have read of the log.
SpanInv ==
  /\ Scanning =>
       /\ scan.cursor \in Nat /\ scan.reach \in Nat /\ scan.head \in Nat
       /\ stored # 0 /\ stored <= scan.cursor /\ scan.cursor <= scan.reach
       /\ scan.reach <= scan.head /\ scan.head <= Len(svn)
  /\ phase \in {"scan", "save"} => scan.reach = scan.cursor
  /\ phase \in {"walk", "rows", "fill"} => scan.since # 0
  /\ phase = "walk" => \A i \in 1 .. stored : i > scan.cursor => i \in scan.read
  /\ phase \in {"rows", "fill"} =>
       \A i \in 1 .. stored : i \in scan.read \/ svn[i].date < scan.since

\* Versions, current version and answer of a row belong together.
Answered(r) ==
  \E l \in Listings : \E o \in Outcomes[l] :
    r.versions = o.versions /\ r.current = o.current /\ r.answer = l
Unsynced(r) == r.versions = Nothing /\ r.current = NoVersion /\ r.hash = NoHash

AnswerInv ==
  /\ Answered(row) \/ Unsynced(row)
  /\ phase = "write" => Answered(task.row)
  /\ phase = "fill" /\ ~row.stamped /\ row.hash = NoHash => task.row.hash = NoHash

Timed(r, times) == \A v \in DOMAIN r.versions \ {Trunk} : times[v] # 0
Covers(times, n) ==
  \A v \in Vers, i \in base + 1 .. n :
    times[v] # 0 /\ Changed(i, v) => times[v] >= svn[i].date

\* Every version has a time, none before a commit that was read.
CoverInv ==
  /\ row.stamped => Timed(row, row.times)
  /\ Covers(row.times, Reached)
  /\ phase = "fetch" => task.row.stamped = row.stamped
  /\ phase = "write" =>
       /\ row.stamped => task.row.stamped
       /\ task.row.stamped => Timed(task.row, task.row.times)
       /\ Covers(task.row.times, stored)
  /\ phase = "fill" /\ ~row.stamped =>
       Timed(row, task.row.times) /\ Covers(task.row.times, stored)

\* A commit that discover has not passed changed a version.
Pending == stored # 0 /\ \E i \in Passed + 1 .. Len(svn), v \in Vers : Changed(i, v)

\* The hash is current, or somebody is going to make it so.
HashInv ==
  /\ row.active /\ row.clean /\ row.hash # NoHash => row.hash = HashOf(row) \/ Pending
  /\ phase \in {"fetch", "write"} => task.row.trunk = row.trunk
  /\ phase = "write" =>
       /\ task.row.hash = HashOf(task.row)
       /\ ~task.row.stamped => task.row.times = row.times
  /\ phase = "fill" /\ ~row.stamped =>
       task.row.hash \in {NoHash, HashVersions(row.versions, row.trunk, TRUE, task.row.times)}

FullInv == TInv /\ OrderInv /\ SpanInv /\ AnswerInv /\ CoverInv /\ HashInv

-----------------------------------------------------------------------------
(* Steps.                                                                   *)

\* The facts about the log that the steps use.
LEMMA LogFacts ==
  ASSUME TInv, OrderInv
  PROVE  /\ clock \in Nat /\ Window \in Nat /\ Len(svn) \in Nat /\ DOMAIN svn = 1 .. Len(svn)
         /\ stored \in Nat /\ base \in Nat
         /\ \A i \in 1 .. Len(svn) : svn[i].date \in Nat /\ svn[i].date <= clock
<1>1. LogInv
  BY DEF TInv
<1>2. clock \in Nat /\ Window \in Nat /\ Len(svn) \in Nat /\ DOMAIN svn = 1 .. Len(svn)
  BY <1>1, TimesAssumption DEF LogInv
<1>3. ASSUME NEW i \in 1 .. Len(svn) PROVE svn[i].date \in Nat /\ svn[i].date <= clock
  BY <1>1, <1>2, LogEntry DEF LogInv
<1> QED BY <1>2, <1>3 DEF OrderInv

\* Time and commits.
LEMMA LogStepsFull ==
  ASSUME FullInv, TInv', Tick \/ \E c \in Commits : Commit(c)
  PROVE  FullInv'
<1>1. UNCHANGED <<stored, base, row, phase, scan, task>>
  BY DEF Tick, Commit
<1>2. /\ TInv /\ OrderInv /\ SpanInv /\ AnswerInv /\ CoverInv /\ HashInv
  BY DEF FullInv
<1>3. /\ clock \in Nat /\ Len(svn) \in Nat /\ DOMAIN svn = 1 .. Len(svn)
      /\ stored \in Nat /\ base \in Nat
      /\ \A i \in 1 .. Len(svn) : svn[i].date \in Nat /\ svn[i].date <= clock
  BY <1>2, LogFacts
<1>4. /\ Len(svn') \in Nat /\ Len(svn) <= Len(svn') /\ DOMAIN svn' = 1 .. Len(svn')
      /\ \A i \in 1 .. Len(svn) : svn'[i] = svn[i] /\ i \in DOMAIN svn'
      /\ \A i \in DOMAIN svn' \ DOMAIN svn : i = Len(svn) + 1 /\ svn'[i].date = clock
  <2>1. CASE Tick
    BY <1>3, <2>1 DEF Tick
  <2>2. ASSUME NEW c \in Commits, Commit(c)
        PROVE  /\ Len(svn') \in Nat /\ Len(svn) <= Len(svn') /\ DOMAIN svn' = 1 .. Len(svn')
               /\ \A i \in 1 .. Len(svn) : svn'[i] = svn[i] /\ i \in DOMAIN svn'
               /\ \A i \in DOMAIN svn' \ DOMAIN svn : i = Len(svn) + 1 /\ svn'[i].date = clock
    <3> DEFINE Entry == [date : Nat, changes : Commits \cup {{}}]
               e == [date |-> clock, changes |-> c]
    <3>1. svn \in Seq(Entry) /\ e \in Entry /\ e.date = clock /\ svn' = Append(svn, e)
      BY <1>2, <1>3, <2>2 DEF TInv, LogInv, Commit
    <3> HIDE DEF Entry, e
    <3>2. /\ Len(svn') = Len(svn) + 1 /\ DOMAIN svn' = 1 .. Len(svn')
          /\ \A i \in 1 .. Len(svn) : svn'[i] = svn[i]
          /\ svn'[Len(svn) + 1] = e
      BY <3>1
    <3> QED BY <1>3, <3>1, <3>2
  <2> QED BY <2>1, <2>2
<1>5. \A i \in 1 .. Len(svn) : svn'[i] = svn[i] /\ \A v : Changed(i, v)' = Changed(i, v)
  BY <1>4 DEF Changed
<1>6. OrderInv'
  <2>1. \A i, j \in DOMAIN svn' : i <= j => svn'[i].date <= svn'[j].date
    <3> SUFFICES ASSUME NEW i \in DOMAIN svn', NEW j \in DOMAIN svn', i <= j
                 PROVE  svn'[i].date <= svn'[j].date
      OBVIOUS
    <3>1. CASE j \in DOMAIN svn
      BY <1>2, <1>3, <1>4, <3>1 DEF OrderInv
    <3>2. CASE j \notin DOMAIN svn /\ i \in DOMAIN svn
      BY <1>3, <1>4, <3>2
    <3>3. CASE j \notin DOMAIN svn /\ i \notin DOMAIN svn
      BY <1>3, <1>4, <3>3
    <3> QED BY <3>1, <3>2, <3>3
  <2> QED BY <1>1, <1>2, <1>3, <1>4, <2>1 DEF OrderInv
<1>7. SpanInv'
  <2>1. \A i \in 1 .. stored : svn'[i] = svn[i]
    BY <1>2, <1>3, <1>5 DEF OrderInv
  <2> QED BY <1>1, <1>2, <1>3, <1>4, <2>1 DEF SpanInv, Scanning
<1>8. AnswerInv'
  BY <1>1, <1>2 DEF AnswerInv, Answered, Unsynced
<1>9. Reached \in Nat /\ Reached <= Len(svn) /\ Reached' = Reached /\ Passed' = Passed
      /\ Passed \in Nat
  BY <1>1, <1>2, <1>3 DEF Reached, Passed, Scanning, SpanInv, OrderInv
<1>10. ASSUME NEW times, NEW n \in Nat, n <= Len(svn), Covers(times, n)
       PROVE  \A v \in Vers, i \in base + 1 .. n :
                times[v] # 0 /\ Changed(i, v)' => times[v] >= svn'[i].date
  BY <1>3, <1>5, <1>10 DEF Covers
<1>11. CoverInv'
  <2>1. Covers(row.times, Reached)'
    BY <1>1, <1>2, <1>9, <1>10 DEF CoverInv, Covers
  <2>2. phase = "write" => Covers(task.row.times, stored)'
    BY <1>1, <1>2, <1>3, <1>10 DEF CoverInv, Covers, OrderInv
  <2>3. phase = "fill" /\ ~row.stamped => Covers(task.row.times, stored)'
    BY <1>1, <1>2, <1>3, <1>10 DEF CoverInv, Covers, OrderInv
  <2> QED BY <1>1, <1>2, <2>1, <2>2, <2>3 DEF CoverInv, Timed
<1>12. HashInv'
  <2>1. Pending => Pending'
    <3> SUFFICES ASSUME NEW i \in Passed + 1 .. Len(svn), NEW v \in Vers, Changed(i, v), stored # 0
                 PROVE  Pending'
      BY DEF Pending
    <3>1. i \in 1 .. Len(svn) /\ i \in Passed' + 1 .. Len(svn')
      BY <1>3, <1>4, <1>9
    <3>2. Changed(i, v)'
      BY <1>5, <3>1
    <3>3. Vers' = Vers
      OBVIOUS
    <3> QED BY <1>1, <3>1, <3>2 DEF Pending
  <2> QED BY <1>1, <1>2, <2>1 DEF HashInv, HashOf
<1> QED BY <1>6, <1>7, <1>8, <1>11, <1>12 DEF FullInv

\* Steps that leave the log.
LEMMA SameLog ==
  ASSUME OrderInv, UNCHANGED <<svn, base>>, stored' \in Nat, base <= stored', stored' <= Len(svn),
         stored' = 0 => stored = 0
  PROVE  OrderInv'
BY DEF OrderInv

\* check-status.
LEMMA StatusStepsFull ==
  ASSUME FullInv, TInv', Deactivate \/ Reactivate
  PROVE  FullInv' /\ row'.versions = row.versions
<1>1. /\ TInv /\ OrderInv /\ SpanInv /\ AnswerInv /\ CoverInv /\ HashInv /\ IsRow(row)
  BY DEF FullInv, TInv, RowInv
<1>2. /\ Kept(row', row) /\ ~(row'.active /\ row'.clean)
      /\ UNCHANGED <<clock, svn, stored, base, phase, scan, task>>
  BY <1>1, StatusEffect
<1>3. OrderInv'
  BY <1>1, <1>2 DEF OrderInv
<1>4. SpanInv'
  BY <1>1, <1>2 DEF SpanInv, Scanning
<1>5. AnswerInv'
  BY <1>1, <1>2 DEF AnswerInv, Answered, Unsynced, Kept
<1>6. CoverInv'
  BY <1>1, <1>2 DEF CoverInv, Timed, Covers, Changed, Reached, Scanning, Kept
<1>7. HashInv'
  BY <1>1, <1>2 DEF HashInv, HashOf, Kept
<1> QED BY <1>2, <1>3, <1>4, <1>5, <1>6, <1>7 DEF FullInv, Kept

\* A command ends without writing the row: the revision it stores is one up to which
\* it has read and marked.
LEMMA EndFull ==
  ASSUME FullInv, TInv', Unlock, UNCHANGED <<clock, svn, base, row>>,
         stored' = stored \/ (phase \in {"scan", "save"} /\ stored' = scan.cursor)
  PROVE  FullInv'
<1>1. /\ TInv /\ OrderInv /\ SpanInv /\ AnswerInv /\ CoverInv /\ HashInv
  BY DEF FullInv
<1>2. /\ stored \in Nat /\ base \in Nat /\ base <= stored /\ stored <= Len(svn)
      /\ Len(svn) \in Nat /\ phase' = "free"
  BY <1>1, LogFacts DEF OrderInv, Unlock
<1>3. /\ stored' \in Nat /\ stored <= stored' /\ stored' <= Len(svn)
      /\ Reached \in Nat /\ stored' <= Reached
      /\ Passed \in Nat /\ stored' <= Passed /\ (stored # 0 => stored' # 0)
      /\ (Scanning => stored # 0)
  <2>1. CASE stored' = stored
    BY <1>1, <1>2, <2>1 DEF SpanInv, Reached, Passed, Scanning
  <2>2. CASE phase \in {"scan", "save"} /\ stored' = scan.cursor
    <3>1. Scanning /\ scan.reach = scan.cursor
      BY <1>1, <2>2 DEF SpanInv, Scanning
    <3> QED BY <1>1, <1>2, <2>2, <3>1 DEF SpanInv, Reached, Passed
  <2> QED BY <2>1, <2>2
<1>4. OrderInv'
  BY <1>1, <1>2, <1>3, SameLog
<1>5. SpanInv'
  BY <1>2 DEF SpanInv, Scanning
<1>6. AnswerInv'
  BY <1>1, <1>2 DEF AnswerInv, Answered, Unsynced
<1>7. Reached' = stored' /\ Passed' = stored'
  BY <1>2 DEF Reached, Passed, Scanning
<1>8. CoverInv'
  <2>1. Covers(row.times, Reached)'
    BY <1>1, <1>2, <1>3, <1>7 DEF CoverInv, Covers, Changed
  <2> QED BY <1>1, <1>2, <2>1 DEF CoverInv, Timed
<1>9. HashInv'
  <2>1. Pending => Pending'
    <3> SUFFICES ASSUME Pending PROVE Pending'
      OBVIOUS
    <3>1. PICK i \in Passed + 1 .. Len(svn), v \in Vers : stored # 0 /\ Changed(i, v)
      BY DEF Pending
    <3>2. Passed' \in Nat /\ Passed' <= Passed /\ Passed \in Nat
      BY <1>3, <1>7
    <3>3. i \in Passed' + 1 .. Len(svn)
      <4>1. \A a, b, n \in Nat : b <= a => a + 1 .. n \subseteq b + 1 .. n
        OBVIOUS
      <4>2. Len(svn) \in Nat
        BY <1>2
      <4> QED BY <3>1, <3>2, <4>1, <4>2
    <3> QED BY <1>3, <3>1, <3>3 DEF Pending, Changed
  <2> QED BY <1>1, <1>2, <2>1 DEF HashInv, HashOf
<1> QED BY <1>4, <1>5, <1>6, <1>8, <1>9 DEF FullInv

\* The end of a chunk is not behind the head.
LEMMA ChunkEndFacts ==
  ASSUME scan.cursor \in Nat, scan.head \in Nat
  PROVE  ChunkEnd \in Nat /\ ChunkEnd <= scan.head
<1> DEFINE x == scan.cursor + Chunk
           h == scan.head
<1>1. x \in Nat /\ h \in Nat
  BY TimesAssumption
<1>2. ChunkEnd = Min({x, h})
  BY DEF ChunkEnd
<1> HIDE DEF x, h
<1>3. CASE x <= h
  <2>1. x \in {x, h} /\ \A y \in {x, h} : x <= y
    BY <1>1, <1>3
  <2>2. Min({x, h}) \in {x, h} /\ Min({x, h}) <= h
    BY <2>1 DEF Min
  <2> QED BY <1>1, <1>2, <2>2 DEF h
<1>4. CASE ~(x <= h)
  <2>1. h \in {x, h} /\ \A y \in {x, h} : h <= y
    BY <1>1, <1>4
  <2>2. Min({x, h}) \in {x, h} /\ Min({x, h}) <= h
    BY <2>1 DEF Min
  <2> QED BY <1>1, <1>2, <2>2 DEF h
<1> QED BY <1>3, <1>4

LEMMA FirstRunFull ==
  ASSUME FullInv, TInv', FirstRun
  PROVE  FullInv'
<1>1. /\ TInv /\ OrderInv /\ SpanInv /\ AnswerInv /\ CoverInv /\ HashInv
  BY DEF FullInv
<1>2. /\ UNCHANGED <<clock, svn, row, phase, scan, task>> /\ phase = "free"
      /\ stored = 0 /\ stored' = Len(svn) /\ base' = Len(svn) /\ Len(svn) \in Nat
  BY <1>1, LogFacts DEF FirstRun
<1>3. OrderInv'
  BY <1>1, <1>2 DEF OrderInv
<1>4. SpanInv'
  BY <1>2 DEF SpanInv, Scanning
<1>5. AnswerInv'
  BY <1>1, <1>2 DEF AnswerInv, Answered, Unsynced
<1>6. CoverInv'
  <2>1. Covers(row.times, Reached)'
    BY <1>2 DEF Covers, Reached, Scanning
  <2> QED BY <1>1, <1>2, <2>1 DEF CoverInv, Timed
<1>7. HashInv'
  <2>1. ~Pending
    BY <1>2 DEF Pending
  <2> QED BY <1>1, <1>2, <2>1 DEF HashInv, HashOf
<1> QED BY <1>3, <1>4, <1>5, <1>6, <1>7 DEF FullInv

LEMMA StartScanFull ==
  ASSUME FullInv, TInv', StartScan
  PROVE  FullInv'
<1>1. /\ TInv /\ OrderInv /\ SpanInv /\ AnswerInv /\ CoverInv /\ HashInv
  BY DEF FullInv
<1>2. /\ UNCHANGED <<clock, svn, row, stored, base, task>> /\ phase = "free" /\ stored # 0
      /\ phase' \in {"scan", "save"} /\ stored \in Nat /\ stored <= Len(svn) /\ Len(svn) \in Nat
  BY <1>1, LogFacts DEF StartScan, OrderInv
<1>3. scan'.cursor = stored /\ scan'.reach = stored /\ scan'.head = Len(svn)
  BY DEF StartScan, NoScan
<1>4. OrderInv'
  BY <1>1, <1>2 DEF OrderInv
<1>5. SpanInv'
  BY <1>2, <1>3 DEF SpanInv, Scanning
<1>6. AnswerInv'
  BY <1>1, <1>2 DEF AnswerInv, Answered, Unsynced
<1>7. Reached = stored /\ Passed = stored /\ Reached' = stored /\ Passed' = stored
  BY <1>2, <1>3 DEF Reached, Passed, Scanning
<1>8. CoverInv'
  BY <1>1, <1>2, <1>7 DEF CoverInv, Timed, Covers, Changed
<1>9. HashInv'
  <2>1. Pending => Pending'
    BY <1>2, <1>7 DEF Pending, Changed
  <2> QED BY <1>1, <1>2, <2>1 DEF HashInv, HashOf
<1> QED BY <1>4, <1>5, <1>6, <1>8, <1>9 DEF FullInv

LEMMA ReadChunkFull ==
  ASSUME FullInv, TInv', NEW to \in 0 .. MaxCommits, ReadChunk(to)
  PROVE  FullInv' /\ row'.versions = row.versions
<1> DEFINE I == scan.cursor + 1 .. to
<1>1. /\ TInv /\ OrderInv /\ SpanInv /\ AnswerInv /\ CoverInv /\ HashInv
      /\ IsRow(row) /\ LogInv /\ IsScan(scan)
  BY DEF FullInv, TInv, RowInv, ScanInv
<1>2. /\ UNCHANGED <<clock, svn, stored, base, task>> /\ phase = "scan" /\ phase' = "mark"
      /\ to \in scan.cursor .. ChunkEnd /\ scan' = [scan EXCEPT !.reach = to]
  BY DEF ReadChunk
<1>3. /\ row'.times = ResetTimes(row.times, I)
      /\ row'.versions = row.versions /\ row'.current = row.current
      /\ row'.answer = row.answer /\ row'.trunk = row.trunk /\ row'.stamped = row.stamped
      /\ row'.hash = row.hash /\ row'.active = row.active /\ row'.clean = row.clean
  BY <1>1, ReadEffect
<1>4. /\ scan'.cursor = scan.cursor /\ scan'.reach = to /\ scan'.head = scan.head
  BY <1>1, <1>2 DEF IsScan
<1>5. /\ scan.cursor \in Nat /\ scan.reach = scan.cursor /\ scan.head \in Nat
      /\ stored # 0 /\ stored <= scan.cursor /\ scan.head <= Len(svn)
  BY <1>1, <1>2 DEF SpanInv, Scanning
<1>6. /\ clock \in Nat /\ Len(svn) \in Nat /\ stored \in Nat /\ base \in Nat
      /\ \A i \in 1 .. Len(svn) : svn[i].date \in Nat /\ svn[i].date <= clock
  BY <1>1, LogFacts
<1>7. to \in Nat /\ scan.cursor <= to /\ to <= scan.head
  <2>1. ChunkEnd \in Nat /\ ChunkEnd <= scan.head
    BY <1>5, ChunkEndFacts
  <2> QED BY <1>2, <1>5, <2>1
<1>8. OrderInv'
  BY <1>1, <1>2 DEF OrderInv
<1>9. SpanInv'
  BY <1>2, <1>4, <1>5, <1>7 DEF SpanInv, Scanning
<1>10. AnswerInv'
  BY <1>1, <1>2, <1>3 DEF AnswerInv, Answered, Unsynced
<1>11. /\ \A v \in Vers : row'.times[v] >= row.times[v] /\ row.times[v] \in Nat
       /\ \A v \in Vers : row.times[v] = 0 => row'.times[v] = 0
       /\ row'.times \in [Vers -> Nat]
  <2>1. LogInv /\ row.times \in [Vers -> Nat]
    BY <1>1 DEF TInv, RowInv, IsRow
  <2>2. /\ ResetTimes(row.times, I) \in [Vers -> Nat]
        /\ \A v \in Vers : ResetTimes(row.times, I)[v] >= row.times[v]
        /\ \A v \in Vers : row.times[v] = 0 => ResetTimes(row.times, I)[v] = 0
    <3> HIDE DEF I
    <3> QED BY <2>1, ResetForward
  <2>3. \A v \in Vers : row.times[v] \in Nat
    BY <2>1
  <2>4. row'.times = ResetTimes(row.times, I)
    BY <1>3
  <2> QED BY <2>2, <2>3, <2>4
<1>12. \A v \in Vers, i \in I : row.times[v] # 0 /\ Changed(i, v) => row'.times[v] >= clock
  BY <1>3, <1>6, <1>11 DEF ResetTimes
<1>13. Reached = scan.cursor /\ Reached' = to /\ Passed = scan.cursor /\ Passed' = scan.cursor
  BY <1>2, <1>4, <1>5 DEF Reached, Passed, Scanning
<1>14. DOMAIN row.versions \subseteq Vers
  BY <1>1, OutcomeFacts DEF AnswerInv, Answered, Unsynced, Nothing
<1>15. CoverInv'
  <2>1. row'.stamped => Timed(row', row'.times)
    BY <1>1, <1>3, <1>11, <1>14 DEF CoverInv, Timed
  <2>2. Covers(row.times, Reached)'
    <3> SUFFICES ASSUME NEW v \in Vers, NEW i \in base + 1 .. to, row'.times[v] # 0, Changed(i, v)
                 PROVE  row'.times[v] >= svn[i].date
      BY <1>2, <1>13 DEF Covers, Changed
    <3>1. row.times[v] # 0 /\ i \in 1 .. Len(svn)
      BY <1>5, <1>6, <1>7, <1>11
    <3>2. CASE i \in I
      BY <1>6, <1>11, <1>12, <3>1, <3>2
    <3>3. CASE i \notin I
      <4>1. i \in base + 1 .. Reached
        BY <1>5, <1>6, <1>7, <1>13, <3>3
      <4>2. row.times[v] >= svn[i].date
        BY <1>1, <3>1, <4>1 DEF CoverInv, Covers
      <4> QED BY <1>6, <1>11, <3>1, <4>2
    <3> QED BY <3>2, <3>3
  <2> QED BY <1>2, <2>1, <2>2 DEF CoverInv
<1>16. HashInv'
  <2>1. Pending => Pending'
    BY <1>2, <1>13 DEF Pending, Changed
  <2>2. CASE \E v \in Vers, i \in I : Changed(i, v)
    <3>1. PICK v \in Vers, i \in I : Changed(i, v)
      BY <2>2
    <3>2. i \in Passed' + 1 .. Len(svn')
      BY <1>2, <1>5, <1>6, <1>7, <1>13
    <3>3. Pending'
      BY <1>2, <1>5, <3>1, <3>2 DEF Pending, Changed
    <3> QED BY <1>2, <3>3 DEF HashInv
  <2>3. CASE ~ \E v \in Vers, i \in I : Changed(i, v)
    <3>1. row'.times = row.times
      BY <1>1, <1>3, <2>3 DEF ResetTimes, IsRow
    <3> QED BY <1>1, <1>2, <1>3, <2>1, <3>1 DEF HashInv, HashOf
  <2> QED BY <2>2, <2>3
<1> QED BY <1>3, <1>8, <1>9, <1>10, <1>15, <1>16 DEF FullInv

LEMMA MarkChunkFull ==
  ASSUME FullInv, TInv', MarkChunk
  PROVE  FullInv' /\ row'.versions = row.versions
<1>1. /\ TInv /\ OrderInv /\ SpanInv /\ AnswerInv /\ CoverInv /\ HashInv
      /\ IsRow(row) /\ IsScan(scan)
  BY DEF FullInv, TInv, RowInv, ScanInv
<1>2. /\ UNCHANGED <<clock, svn, stored, base, task>> /\ phase = "mark"
      /\ phase' \in {"scan", "save"} /\ scan' = [scan EXCEPT !.cursor = scan.reach]
  BY DEF MarkChunk
<1>3. /\ row'.times = row.times /\ row'.versions = row.versions /\ row'.current = row.current
      /\ row'.answer = row.answer /\ row'.stamped = row.stamped /\ row'.hash = row.hash
      /\ row'.active = row.active
      /\ \/ row' = row /\ ~(scan.reach > scan.cursor /\ row.active)
         \/ ~row'.clean
  BY <1>1, MarkEffect
<1>4. scan'.cursor = scan.reach /\ scan'.reach = scan.reach /\ scan'.head = scan.head
  BY <1>1, <1>2 DEF IsScan
<1>5. /\ scan.cursor \in Nat /\ scan.reach \in Nat /\ scan.cursor <= scan.reach
      /\ scan.head \in Nat /\ stored \in Nat /\ stored # 0 /\ stored <= scan.cursor
      /\ scan.reach <= scan.head /\ scan.head <= Len(svn)
  BY <1>1, <1>2 DEF SpanInv, Scanning, OrderInv
<1>6. OrderInv'
  BY <1>1, <1>2 DEF OrderInv
<1>7. SpanInv'
  BY <1>2, <1>4, <1>5 DEF SpanInv, Scanning
<1>8. AnswerInv'
  BY <1>1, <1>2, <1>3 DEF AnswerInv, Answered, Unsynced
<1>9. Reached' = Reached /\ Passed' = scan.reach /\ Passed = scan.cursor
  BY <1>2, <1>4 DEF Reached, Passed, Scanning
<1>10. CoverInv'
  BY <1>1, <1>2, <1>3, <1>9 DEF CoverInv, Timed, Covers, Changed
<1>11. HashInv'
  <2>1. CASE ~row'.clean
    BY <1>2, <2>1 DEF HashInv
  <2>2. CASE row' = row /\ ~row.active
    BY <1>2, <2>2 DEF HashInv
  <2>3. CASE row' = row /\ ~(scan.reach > scan.cursor)
    <3>1. Passed' = Passed
      BY <1>5, <1>9, <2>3
    <3>2. Pending => Pending'
      BY <1>2, <3>1 DEF Pending, Changed
    <3> QED BY <1>1, <1>2, <2>3, <3>2 DEF HashInv, HashOf
  <2> QED BY <1>3, <2>1, <2>2, <2>3
<1> QED BY <1>3, <1>6, <1>7, <1>8, <1>10, <1>11 DEF FullInv

\* Steps that leave the log, the row and the stored revision and write what update
\* or backfill remembers, while nothing is scanned.
LEMMA SameRow ==
  ASSUME FullInv, UNCHANGED <<clock, svn, stored, base, row>>, ~Scanning, ~Scanning'
  PROVE  /\ OrderInv'
         /\ Answered(row') \/ Unsynced(row')
         /\ row'.stamped => Timed(row', row'.times)
         /\ Covers(row.times, Reached)'
         /\ row'.active /\ row'.clean /\ row'.hash # NoHash
              => row'.hash = HashOf(row') \/ Pending'
<1>1. /\ OrderInv /\ AnswerInv /\ CoverInv /\ HashInv
  BY DEF FullInv
<1>2. Reached' = Reached /\ Passed' = Passed
  BY DEF Reached, Passed
<1>3. OrderInv'
  BY <1>1 DEF OrderInv
<1>4. Answered(row') \/ Unsynced(row')
  BY <1>1 DEF AnswerInv
<1>5. (row'.stamped => Timed(row', row'.times)) /\ Covers(row.times, Reached)'
  BY <1>1, <1>2 DEF CoverInv, Timed, Covers, Changed
<1>6. row'.active /\ row'.clean /\ row'.hash # NoHash
        => row'.hash = HashOf(row') \/ Pending'
  <2>1. Pending => Pending'
    BY <1>2 DEF Pending, Changed
  <2> QED BY <1>1, <2>1 DEF HashInv, HashOf
<1> QED BY <1>3, <1>4, <1>5, <1>6

LEMMA StartUpdateFull ==
  ASSUME FullInv, TInv', StartUpdate
  PROVE  FullInv'
<1>1. /\ UNCHANGED <<clock, svn, stored, base, row, scan>> /\ phase = "free" /\ phase' = "fetch"
      /\ task'.row = row
  BY DEF StartUpdate, NoTask
<1>2. ~Scanning /\ ~Scanning'
  BY <1>1 DEF Scanning
<1>3. /\ OrderInv'
      /\ Answered(row') \/ Unsynced(row')
      /\ row'.stamped => Timed(row', row'.times)
      /\ Covers(row.times, Reached)'
      /\ row'.active /\ row'.clean /\ row'.hash # NoHash
           => row'.hash = HashOf(row') \/ Pending'
  BY <1>1, <1>2, SameRow
<1>4. SpanInv'
  BY <1>1, <1>2 DEF SpanInv
<1>5. AnswerInv' /\ CoverInv' /\ HashInv'
  BY <1>1, <1>3 DEF AnswerInv, CoverInv, HashInv
<1> QED BY <1>3, <1>4, <1>5 DEF FullInv

LEMMA FetchOkFull ==
  ASSUME FullInv, TInv', NEW l \in Listings, NEW o \in Outcomes[l], NEW sync, FetchOk(l, o, sync)
  PROVE  FullInv'
<1> DEFINE old == task.row
           q == task'.row
           merged == old.stamped \/ old.versions = Nothing
<1>1. /\ TInv /\ OrderInv /\ SpanInv /\ AnswerInv /\ CoverInv /\ HashInv
      /\ IsRow(row) /\ IsRow(old)
  BY DEF FullInv, TInv, RowInv, TaskInv
<1>2. /\ UNCHANGED <<clock, svn, stored, base, row, scan>> /\ phase = "fetch" /\ phase' = "write"
  BY DEF FetchOk
<1>3. /\ q.versions = o.versions /\ q.current = o.current /\ q.answer = l
      /\ q.trunk = old.trunk /\ q.stamped = merged /\ q.hash = HashOf(q)
      /\ q.times = [v \in Vers |->
                      IF merged /\ v \in DOMAIN o.versions \ {Trunk} /\ old.times[v] = 0
                      THEN clock ELSE old.times[v]]
  <2>1. ASSUME NEW m, m = merged
        PROVE  /\ q.versions = o.versions /\ q.current = o.current /\ q.answer = l
               /\ q.trunk = old.trunk /\ q.stamped = m /\ q.hash = HashOf(q)
               /\ q.times = [v \in Vers |->
                               IF m /\ v \in DOMAIN o.versions \ {Trunk} /\ old.times[v] = 0
                               THEN clock ELSE old.times[v]]
    BY <1>1, <2>1, FetchEffect
  <2> HIDE DEF merged, q, old
  <2> QED BY <2>1
<1> HIDE DEF merged, q, old
<1>4. /\ old.times = row.times /\ old.stamped = row.stamped /\ old.trunk = row.trunk
      /\ row.times \in [Vers -> Nat]
  BY <1>1, <1>2 DEF TInv, TaskInv, CoverInv, HashInv, IsRow, old
<1>5. (row.stamped => merged) /\ DOMAIN o.versions \subseteq Vers /\ merged \in BOOLEAN
  BY <1>1, <1>4, OutcomeFacts DEF merged, IsRow
<1>6. /\ clock \in Nat /\ clock > 0 /\ Len(svn) \in Nat /\ stored \in Nat /\ base \in Nat
      /\ stored <= Len(svn)
      /\ \A i \in 1 .. Len(svn) : svn[i].date \in Nat /\ svn[i].date <= clock
  <2>1. clock > 0
    BY <1>1, LogFacts DEF TInv, LogInv
  <2> QED BY <1>1, <2>1, LogFacts DEF OrderInv
<1>7. ~Scanning /\ ~Scanning' /\ Reached = stored
  BY <1>2 DEF Scanning, Reached
<1>8. /\ OrderInv'
      /\ Answered(row') \/ Unsynced(row')
      /\ row'.stamped => Timed(row', row'.times)
      /\ Covers(row.times, Reached)'
      /\ row'.active /\ row'.clean /\ row'.hash # NoHash
           => row'.hash = HashOf(row') \/ Pending'
  BY <1>2, <1>7, SameRow
<1>9. SpanInv'
  BY <1>2, <1>7 DEF SpanInv
<1>10. AnswerInv'
  <2>1. Answered(q)
    BY <1>3 DEF Answered
  <2> QED BY <1>2, <1>8, <2>1 DEF AnswerInv, q
<1>11. CoverInv'
  <2>1. row.stamped => q.stamped
    BY <1>3, <1>5
  <2>2. ASSUME q.stamped PROVE Timed(q, q.times)
    <3> SUFFICES ASSUME NEW v \in DOMAIN q.versions \ {Trunk} PROVE q.times[v] # 0
      BY DEF Timed
    <3>1. v \in DOMAIN o.versions \ {Trunk} /\ v \in Vers /\ merged
      BY <1>3, <1>5, <2>2
    <3>2. q.times[v] = IF old.times[v] = 0 THEN clock ELSE old.times[v]
      BY <1>3, <3>1
    <3> QED BY <1>6, <3>2
  <2>3. Covers(q.times, stored)
    <3> SUFFICES ASSUME NEW v \in Vers, NEW i \in base + 1 .. stored,
                        q.times[v] # 0, Changed(i, v)
                 PROVE  q.times[v] >= svn[i].date
      BY DEF Covers
    <3>1. i \in 1 .. Len(svn)
      BY <1>6
    <3>2. q.times[v] \in {clock, row.times[v]}
      BY <1>3, <1>4
    <3>3. row.times[v] # 0 => row.times[v] >= svn[i].date
      BY <1>1, <1>7 DEF CoverInv, Covers
    <3> QED BY <1>6, <3>1, <3>2, <3>3
  <2>4. Covers(task.row.times, stored)'
    BY <1>2, <2>3 DEF Covers, Changed, q
  <2> QED BY <1>2, <1>8, <2>1, <2>2, <2>4 DEF CoverInv, q
<1>12. HashInv'
  <2>1. q.trunk = row.trunk
    BY <1>3, <1>4
  <2>2. ASSUME ~q.stamped PROVE q.times = row.times
    <3>1. ~merged
      BY <1>3, <2>2
    <3>2. q.times = [v \in Vers |-> row.times[v]]
      BY <1>3, <1>4, <3>1
    <3> QED BY <1>4, <3>2
  <2> QED BY <1>2, <1>3, <1>8, <2>1, <2>2 DEF HashInv, q
<1> QED BY <1>8, <1>9, <1>10, <1>11, <1>12 DEF FullInv

LEMMA FlushFull ==
  ASSUME FullInv, TInv', Flush
  PROVE  FullInv' /\ SettleStep
<1> DEFINE q == task.row
<1>1. /\ TInv /\ OrderInv /\ SpanInv /\ AnswerInv /\ CoverInv /\ HashInv
      /\ IsRow(row) /\ IsRow(q)
  BY DEF FullInv, TInv, RowInv, TaskInv
<1>2. /\ UNCHANGED <<clock, svn, stored, base>> /\ phase = "write" /\ phase' = "free"
  BY DEF Flush, Unlock
<1>3. /\ row'.versions = q.versions /\ row'.current = q.current
      /\ row'.answer = q.answer /\ row'.hash = q.hash
      /\ row'.trunk = row.trunk /\ row'.stamped = (q.stamped \/ row.stamped)
      /\ row'.times = IF q.stamped THEN q.times ELSE row.times
  BY <1>1, FlushEffect
<1> HIDE DEF q
<1>4. /\ Answered(q) /\ q.trunk = row.trunk /\ q.hash = HashOf(q)
      /\ row.stamped => q.stamped
      /\ ~q.stamped => q.times = row.times
      /\ q.stamped => Timed(q, q.times)
      /\ Covers(q.times, stored)
      /\ q.stamped \in BOOLEAN /\ row.stamped \in BOOLEAN
  BY <1>1, <1>2 DEF AnswerInv, CoverInv, HashInv, IsRow, q
<1>5. row'.stamped = q.stamped /\ row'.times = q.times
  BY <1>3, <1>4
<1>6. OrderInv'
  BY <1>1, <1>2 DEF OrderInv
<1>7. SpanInv' /\ ~Scanning'
  BY <1>2 DEF SpanInv, Scanning
<1>8. Answered(row')
  BY <1>3, <1>4 DEF Answered
<1>9. AnswerInv'
  BY <1>2, <1>8 DEF AnswerInv
<1>10. CoverInv'
  <2>1. row'.stamped => Timed(row', row'.times)
    BY <1>3, <1>4, <1>5 DEF Timed
  <2>2. Covers(row.times, Reached)'
    BY <1>2, <1>4, <1>5, <1>7 DEF Covers, Changed, Reached
  <2> QED BY <1>2, <2>1, <2>2 DEF CoverInv
<1>11. HashInv'
  <2>1. row'.hash = HashOf(row')
    BY <1>3, <1>4, <1>5 DEF HashOf
  <2> QED BY <1>2, <2>1 DEF HashInv
<1>12. SettleStep
  <2> SUFFICES ASSUME row'.answer = row.answer, row.hash # NoHash
               PROVE  row'.versions = row.versions
    BY DEF SettleStep
  <2>1. Answered(row)
    BY <1>1 DEF AnswerInv, Unsynced
  <2>2. PICK l \in Listings : \E o \in Outcomes[l] : row.versions = o.versions /\ row.answer = l
    BY <2>1 DEF Answered
  <2>3. PICK k \in Listings : \E o \in Outcomes[k] : row'.versions = o.versions /\ row'.answer = k
    BY <1>8 DEF Answered
  <2> QED BY <2>2, <2>3, OutcomesAgree
<1> QED BY <1>6, <1>7, <1>9, <1>10, <1>11, <1>12 DEF FullInv

LEMMA StartBackfillFull ==
  ASSUME FullInv, TInv', StartBackfill
  PROVE  FullInv'
<1>1. /\ UNCHANGED <<clock, svn, stored, base, row, task>> /\ phase = "free" /\ phase' = "walk"
      /\ scan'.cursor = Len(svn) /\ scan'.since = clock - Window
  BY DEF StartBackfill, NoScan
<1>2. ~Scanning /\ ~Scanning'
  BY <1>1 DEF Scanning
<1>3. /\ OrderInv'
      /\ Answered(row') \/ Unsynced(row')
      /\ row'.stamped => Timed(row', row'.times)
      /\ Covers(row.times, Reached)'
      /\ row'.active /\ row'.clean /\ row'.hash # NoHash
           => row'.hash = HashOf(row') \/ Pending'
  BY <1>1, <1>2, SameRow
<1>4. SpanInv'
  <2>1. stored \in Nat /\ Len(svn) \in Nat /\ stored <= Len(svn)
    BY LogFacts DEF FullInv, OrderInv
  <2>2. clock - Window # 0
    BY LogFacts DEF FullInv, TInv, LogInv
  <2> QED BY <1>1, <1>2, <2>1, <2>2 DEF SpanInv
<1>5. AnswerInv' /\ CoverInv' /\ HashInv'
  BY <1>1, <1>3 DEF AnswerInv, CoverInv, HashInv
<1> QED BY <1>3, <1>4, <1>5 DEF FullInv

LEMMA WalkChunkFull ==
  ASSUME FullInv, TInv', WalkChunk
  PROVE  FullInv'
<1> DEFINE from == Max({1, scan.cursor - Chunk + 1})
           chunk == from .. scan.cursor
<1>1. /\ TInv /\ OrderInv /\ SpanInv /\ AnswerInv /\ CoverInv /\ HashInv /\ IsScan(scan)
  BY DEF FullInv, TInv, ScanInv
<1>2. /\ UNCHANGED <<clock, svn, stored, base, row, task>> /\ phase = "walk"
      /\ scan' = [scan EXCEPT !.read = scan.read \cup chunk, !.cursor = from - 1]
      /\ phase' = IF from = 1 \/ \E i \in chunk : svn[i].date < scan.since
                  THEN "rows" ELSE "walk"
  BY <1>1 DEF WalkChunk, IsScan
<1>3. /\ Len(svn) \in Nat /\ DOMAIN svn = 1 .. Len(svn) /\ stored \in Nat /\ stored <= Len(svn)
      /\ \A i \in 1 .. Len(svn) : svn[i].date \in Nat
  BY <1>1, LogFacts DEF OrderInv
<1>4. scan.cursor \in 0 .. Len(svn) /\ scan.since \in Nat /\ scan.since # 0
  BY <1>1, <1>2, LogFacts DEF TInv, ScanInv, SpanInv
<1>5. from \in Nat /\ from >= 1
  <2>1. Chunk \in Nat /\ scan.cursor \in Nat
    BY <1>3, <1>4, TimesAssumption
  <2>2. scan.cursor - Chunk + 1 \in Int
    BY <2>1
  <2>3. from \in {1, scan.cursor - Chunk + 1} /\ from >= 1
    BY <2>2, FirstOf
  <2> HIDE DEF from
  <2> QED BY <2>2, <2>3
<1> HIDE DEF from
<1>6. /\ scan'.cursor = from - 1 /\ scan'.read = scan.read \cup chunk
      /\ scan'.since = scan.since
  BY <1>1, <1>2 DEF IsScan
<1>7. ~Scanning /\ ~Scanning'
  BY <1>2 DEF Scanning
<1>8. /\ OrderInv'
      /\ Answered(row') \/ Unsynced(row')
      /\ row'.stamped => Timed(row', row'.times)
      /\ Covers(row.times, Reached)'
      /\ row'.active /\ row'.clean /\ row'.hash # NoHash
           => row'.hash = HashOf(row') \/ Pending'
  BY <1>2, <1>7, SameRow
<1>9. \A i \in 1 .. stored : i >= from => i \in scan'.read
  <2> SUFFICES ASSUME NEW i \in 1 .. stored, i >= from PROVE i \in scan'.read
    OBVIOUS
  <2>1. CASE i <= scan.cursor
    BY <1>3, <1>4, <1>5, <1>6, <2>1
  <2>2. CASE i > scan.cursor
    BY <1>1, <1>2, <1>6, <2>2 DEF SpanInv
  <2> QED BY <1>3, <1>4, <2>1, <2>2
<1>10. ASSUME phase' = "rows"
       PROVE  \A i \in 1 .. stored : i \in scan'.read \/ svn[i].date < scan.since
  <2> SUFFICES ASSUME NEW i \in 1 .. stored, ~(i >= from) PROVE svn[i].date < scan.since
    BY <1>9
  <2>1. from # 1
    BY <1>3, <1>5
  <2>2. PICK j \in chunk : svn[j].date < scan.since
    BY <1>2, <1>10, <2>1
  <2>3. j \in DOMAIN svn /\ i \in DOMAIN svn /\ i <= j
    BY <1>3, <1>4, <1>5
  <2>4. svn[i].date <= svn[j].date
    BY <1>1, <2>3 DEF OrderInv
  <2> QED BY <1>3, <1>4, <2>2, <2>3, <2>4
<1>11. SpanInv'
  <2>1. phase' = "walk" => \A i \in 1 .. stored : i > scan'.cursor => i \in scan'.read
    BY <1>3, <1>5, <1>6, <1>9
  <2>2. phase' \in {"walk", "rows"}
    BY <1>2
  <2> QED BY <1>2, <1>4, <1>6, <1>7, <1>10, <2>1, <2>2 DEF SpanInv
<1>12. phase' \in {"walk", "rows"}
  BY <1>2
<1>13. AnswerInv' /\ CoverInv' /\ HashInv'
  BY <1>2, <1>8, <1>12 DEF AnswerInv, CoverInv, HashInv
<1> QED BY <1>8, <1>11, <1>13 DEF FullInv

LEMMA ReadUntimedFull ==
  ASSUME FullInv, TInv', ReadUntimed
  PROVE  FullInv'
<1> DEFINE q == task'.row
<1>1. /\ TInv /\ OrderInv /\ SpanInv /\ AnswerInv /\ CoverInv /\ HashInv
      /\ IsRow(row) /\ IsRow(task.row) /\ LogInv /\ ScanInv
      /\ task = [f \in {"row", "sync"} |-> task[f]]
  BY DEF FullInv, TInv, RowInv, TaskInv
<1>2. /\ UNCHANGED <<clock, svn, stored, base, row, scan>> /\ phase = "rows" /\ phase' = "fill"
  BY DEF ReadUntimed
<1>3. ~Scanning /\ ~Scanning'
  BY <1>2 DEF Scanning
<1>4. /\ OrderInv'
      /\ Answered(row') \/ Unsynced(row')
      /\ row'.stamped => Timed(row', row'.times)
      /\ Covers(row.times, Reached)'
      /\ row'.active /\ row'.clean /\ row'.hash # NoHash
           => row'.hash = HashOf(row') \/ Pending'
  BY <1>2, <1>3, SameRow
<1>5. SpanInv'
  BY <1>1, <1>2, <1>3 DEF SpanInv
<1>6. CASE row.stamped
  BY <1>2, <1>4, <1>5, <1>6 DEF FullInv, AnswerInv, CoverInv, HashInv
<1>7. CASE ~row.stamped
  <2>1. /\ q.times = [v \in Vers |-> IF v \in DOMAIN row.versions \ {Trunk}
                                     THEN BackfillTime(v) ELSE 0]
        /\ q.hash = IF row.hash = NoHash THEN NoHash
                    ELSE HashVersions(row.versions, row.trunk, TRUE, q.times)
    BY <1>1, <1>7, ReadUntimedEffect
  <2> HIDE DEF q
  <2>2. DOMAIN row.versions \subseteq Vers
    BY <1>1, OutcomeFacts DEF AnswerInv, Answered, Unsynced, Nothing
  <2>3. /\ Len(svn) \in Nat /\ stored \in Nat /\ base \in Nat /\ stored <= Len(svn)
        /\ \A i \in 1 .. Len(svn) : svn[i].date \in Nat
        /\ scan.since \in Nat /\ scan.since # 0
    BY <1>1, <1>2, LogFacts DEF OrderInv, SpanInv, ScanInv
  <2>4. Timed(row, q.times)
    <3> SUFFICES ASSUME NEW v \in DOMAIN row.versions \ {Trunk} PROVE q.times[v] # 0
      BY DEF Timed
    <3>1. q.times[v] = BackfillTime(v)
      BY <2>1, <2>2
    <3>2. BackfillTime(v) \in Nat /\ BackfillTime(v) >= scan.since
      BY <1>1, BackfillTimes
    <3> QED BY <2>3, <3>1, <3>2
  <2>5. Covers(q.times, stored)
    <3> SUFFICES ASSUME NEW v \in Vers, NEW i \in base + 1 .. stored,
                        q.times[v] # 0, Changed(i, v)
                 PROVE  q.times[v] >= svn[i].date
      BY DEF Covers
    <3>1. q.times[v] = BackfillTime(v)
      BY <2>1
    <3>2. /\ BackfillTime(v) \in Nat /\ BackfillTime(v) >= scan.since
          /\ i \in scan.read => BackfillTime(v) >= svn[i].date
      BY <1>1, BackfillTimes
    <3>3. i \in 1 .. stored /\ i \in 1 .. Len(svn)
      BY <2>3
    <3>4. i \in scan.read \/ svn[i].date < scan.since
      BY <1>1, <1>2, <3>3 DEF SpanInv
    <3> QED BY <2>3, <3>1, <3>2, <3>3, <3>4
  <2>6. Covers(task.row.times, stored)'
    BY <1>2, <2>5 DEF Covers, Changed, q
  <2>7. AnswerInv'
    BY <1>2, <1>4, <2>1 DEF AnswerInv, q
  <2>8. CoverInv'
    BY <1>2, <1>4, <2>4, <2>6 DEF CoverInv, Timed, q
  <2>9. q.hash \in {NoHash, HashVersions(row.versions, row.trunk, TRUE, q.times)}
    BY <2>1
  <2>10. HashInv'
    BY <1>2, <1>4, <2>9 DEF HashInv, q
  <2> QED BY <1>4, <1>5, <2>7, <2>8, <2>10 DEF FullInv
<1> QED BY <1>6, <1>7

LEMMA FillUntimedFull ==
  ASSUME FullInv, TInv', FillUntimed
  PROVE  FullInv' /\ row'.versions = row.versions
<1>1. /\ TInv /\ OrderInv /\ SpanInv /\ AnswerInv /\ CoverInv /\ HashInv /\ IsRow(row)
  BY DEF FullInv, TInv, RowInv
<1>2. /\ UNCHANGED <<clock, svn, stored, base>> /\ phase = "fill" /\ Unlock
  BY DEF FillUntimed
<1>3. /\ row'.versions = row.versions /\ row'.current = row.current
      /\ row'.answer = row.answer /\ row'.trunk = row.trunk
      /\ row.stamped => row' = row
      /\ ~row.stamped => /\ row'.stamped = TRUE /\ row'.times = task.row.times
                         /\ row'.hash = task.row.hash
  BY <1>1, FillEffect
<1>4. CASE row.stamped
  <2>1. row' = row
    BY <1>3, <1>4
  <2> QED BY <1>2, <1>3, <2>1, EndFull
<1>5. CASE ~row.stamped
  <2>1. phase' = "free" /\ ~Scanning'
    BY <1>2 DEF Unlock, Scanning
  <2>2. OrderInv' /\ SpanInv'
    BY <1>1, <1>2, <2>1 DEF OrderInv, SpanInv
  <2>3. AnswerInv'
    BY <1>1, <1>2, <1>3, <1>5, <2>1 DEF AnswerInv, Answered, Unsynced
  <2>4. CoverInv'
    <3>1. Covers(row.times, Reached)'
      BY <1>1, <1>2, <1>3, <1>5, <2>1 DEF CoverInv, Covers, Changed, Reached
    <3>2. Timed(row', row'.times)
      BY <1>1, <1>2, <1>3, <1>5 DEF CoverInv, Timed
    <3> QED BY <2>1, <3>1, <3>2 DEF CoverInv
  <2>5. HashInv'
    <3>1. row'.hash = NoHash \/ row'.hash = HashOf(row')
      BY <1>1, <1>2, <1>3, <1>5 DEF HashInv, HashOf
    <3> QED BY <2>1, <3>1 DEF HashInv
  <2> QED BY <1>3, <2>2, <2>3, <2>4, <2>5 DEF FullInv
<1> QED BY <1>4, <1>5

\* There is an order in which an answer's names can be met.
LEMMA OutcomeExists == ASSUME NEW l \in Listings PROVE Outcomes[l] # {}
<1> DEFINE D == 1 .. Cardinality(l.names)
<1>1. IsFiniteSet(l.names)
  BY TimesAssumption, FS_Subset DEF Names
<1>2. PICK f : f \in Bijection(D, l.names)
  BY <1>1, FS_CardinalityType DEF ExistsBijection
<1>3. f \in [D -> l.names] /\ \A i, j \in D : i # j => f[i] # f[j]
  BY <1>2 DEF Bijection, Injection, Surjection, IsInjective
<1>4. f \in SetToSeqs(l.names)
  BY <1>3 DEF SetToSeqs
<1> QED BY <1>4 DEF Outcomes

\* The rows the first run finds.
LEMMA FirstRows ==
  ASSUME NEW r \in {Shell} \cup OldRows
  PROVE  /\ Answered(r) \/ Unsynced(r)
         /\ r.stamped = FALSE
         /\ r.active /\ r.clean /\ r.hash # NoHash => r.hash = HashOf(r)
<1>1. CASE r = Shell
  BY <1>1 DEF Shell, Unsynced
<1>2. CASE r \in OldRows
  <2> DEFINE clean == [Shell EXCEPT !.clean = TRUE]
  <2>1. PICK l \in Listings :
          LET s == Synced(clean, l, CHOOSE o \in Outcomes[l] : TRUE)
          IN r = [s EXCEPT !.hash = HashOf(s)]
    BY <1>2 DEF OldRows
  <2> DEFINE o == CHOOSE o \in Outcomes[l] : TRUE
             s == Synced(clean, l, o)
  <2>2. o \in Outcomes[l]
    BY OutcomeExists
  <2>3. IsRow(Shell) /\ Shell.stamped = FALSE
    BY DEF IsRow, Fields, Shell, NoTimes
  <2>4. IsRow(clean) /\ clean.stamped = FALSE
    BY <2>3 DEF IsRow, Fields
  <2> HIDE DEF clean, o
  <2>5. /\ s.versions = o.versions /\ s.current = o.current /\ s.answer = l
        /\ IsRow(s) /\ s.stamped = FALSE
    BY <2>4 DEF Synced, IsRow, Fields
  <2> DEFINE h == HashOf(s)
  <2>6. r = [s EXCEPT !.hash = h]
    BY <2>1 DEF o
  <2> HIDE DEF s, h
  <2>7. /\ r.versions = s.versions /\ r.current = s.current /\ r.answer = s.answer
        /\ r.stamped = s.stamped /\ r.times = s.times /\ r.trunk = s.trunk /\ r.hash = h
    BY <2>5, <2>6 DEF IsRow, Fields
  <2>8. r.hash = HashOf(r)
    BY <2>7 DEF HashOf, h
  <2> QED BY <2>2, <2>5, <2>7, <2>8 DEF Answered
<1> QED BY <1>1, <1>2

LEMMA FullInit == ASSUME Init PROVE FullInv
<1>1. TInv
  BY TimesInit
<1>2. /\ stored = 0 /\ base = 0 /\ phase = "free" /\ row \in {Shell} \cup OldRows
      /\ svn = <<[date |-> 1, changes |-> {}]>>
  BY DEF Init
<1>3. Len(svn) = 1 /\ DOMAIN svn = {1} /\ svn[1].date = 1
  BY <1>2
<1>4. ~Scanning
  BY <1>2 DEF Scanning
<1>5. /\ Answered(row) \/ Unsynced(row)
      /\ row.stamped = FALSE
      /\ row.active /\ row.clean /\ row.hash # NoHash => row.hash = HashOf(row)
  BY <1>2, FirstRows
<1>6. OrderInv
  BY <1>2, <1>3 DEF OrderInv
<1>7. SpanInv
  BY <1>2, <1>4 DEF SpanInv
<1>8. AnswerInv
  BY <1>2, <1>5 DEF AnswerInv
<1>9. CoverInv
  BY <1>2, <1>4, <1>5 DEF CoverInv, Covers, Reached
<1>10. HashInv
  BY <1>2, <1>5 DEF HashInv
<1> QED BY <1>1, <1>6, <1>7, <1>8, <1>9, <1>10 DEF FullInv

\* A step that leaves the versions has nothing to settle.
LEMMA SameVersions == ASSUME row'.versions = row.versions PROVE SettleStep
BY DEF SettleStep

LEMMA FullStep == ASSUME FullInv, [Next]_vars PROVE FullInv' /\ SettleStep
<1>1. TInv'
  BY TimesStep DEF FullInv
<1>2. CASE Tick \/ \E c \in Commits : Commit(c)
  BY <1>1, <1>2, LogStepsFull, SameVersions DEF Tick, Commit
<1>3. CASE Deactivate \/ Reactivate
  BY <1>1, <1>3, StatusStepsFull, SameVersions
<1>4. CASE Fail
  BY <1>1, <1>4, EndFull, SameVersions DEF Fail
<1>5. CASE Discover
  <2>1. CASE FirstRun
    BY <1>1, <2>1, FirstRunFull, SameVersions DEF FirstRun
  <2>2. CASE StartScan
    BY <1>1, <2>2, StartScanFull, SameVersions DEF StartScan
  <2>3. CASE MarkChunk
    BY <1>1, <2>3, MarkChunkFull, SameVersions
  <2>4. CASE SaveRevision
    BY <1>1, <2>4, EndFull, SameVersions DEF SaveRevision
  <2>5. CASE FetchFailed
    BY <1>1, <2>5, EndFull, SameVersions DEF FetchFailed
  <2>6. CASE \E to \in 0 .. MaxCommits : ReadChunk(to)
    BY <1>1, <2>6, ReadChunkFull, SameVersions
  <2> QED BY <1>5, <2>1, <2>2, <2>3, <2>4, <2>5, <2>6 DEF Discover
<1>6. CASE Update
  <2>1. CASE StartUpdate
    BY <1>1, <2>1, StartUpdateFull, SameVersions DEF StartUpdate
  <2>2. CASE Flush
    BY <1>1, <2>2, FlushFull
  <2>3. ASSUME NEW l \in Listings, NEW sync, NEW o \in Outcomes[l], FetchOk(l, o, sync)
        PROVE  FullInv' /\ SettleStep
    BY <1>1, <2>3, FetchOkFull, SameVersions DEF FetchOk
  <2> QED BY <1>6, <2>1, <2>2, <2>3 DEF Update
<1>7. CASE Backfill
  <2>1. CASE StartBackfill
    BY <1>1, <2>1, StartBackfillFull, SameVersions DEF StartBackfill
  <2>2. CASE WalkChunk
    BY <1>1, <2>2, WalkChunkFull, SameVersions DEF WalkChunk
  <2>3. CASE ReadUntimed
    BY <1>1, <2>3, ReadUntimedFull, SameVersions DEF ReadUntimed
  <2>4. CASE FillUntimed
    BY <1>1, <2>4, FillUntimedFull, SameVersions
  <2> QED BY <1>7, <2>1, <2>2, <2>3, <2>4 DEF Backfill
<1>8. CASE UNCHANGED vars
  <2>1. UNCHANGED <<clock, svn, stored, base, row, phase, scan, task>>
    BY <1>8 DEF vars
  <2>2. OrderInv' /\ SpanInv'
    BY <2>1 DEF FullInv, OrderInv, SpanInv, Scanning
  <2>3. AnswerInv' /\ CoverInv'
    BY <2>1 DEF FullInv, AnswerInv, Answered, Unsynced, CoverInv, Timed, Covers, Changed,
                Reached, Scanning
  <2>4. HashInv'
    BY <2>1 DEF FullInv, HashInv, HashOf, Pending, Passed, Scanning, Changed
  <2> QED BY <1>1, <2>1, <2>2, <2>3, <2>4, SameVersions DEF FullInv
<1> QED BY <1>2, <1>3, <1>4, <1>5, <1>6, <1>7, <1>8 DEF Next

\* The invariant FullInv shows what is served of a timed row.
LEMMA FullCovers == ASSUME FullInv PROVE ServedTimesCover
<1>1. TInv /\ OrderInv /\ SpanInv /\ AnswerInv /\ CoverInv
  BY DEF FullInv
<1>2. stored \in Nat /\ base \in Nat /\ Reached \in Nat /\ stored <= Reached
  BY <1>1 DEF OrderInv, SpanInv, Reached
<1>3. DOMAIN row.versions \subseteq Vers
  BY <1>1, OutcomeFacts DEF AnswerInv, Answered, Unsynced, Nothing
<1> SUFFICES ASSUME row.stamped, NEW v \in MainFile(Theme, row.versions) \ {Trunk}
             PROVE  /\ row.times[v] # 0
                    /\ \A i \in base + 1 .. stored : Changed(i, v) => row.times[v] >= svn[i].date
  BY DEF ServedTimesCover
<1>4. v \in DOMAIN row.versions \ {Trunk} /\ v \in Vers
  BY <1>3 DEF MainFile
<1>5. row.times[v] # 0
  BY <1>1, <1>4 DEF CoverInv, Timed
<1>6. \A i \in base + 1 .. stored : i \in base + 1 .. Reached
  BY <1>2
<1> QED BY <1>1, <1>4, <1>5, <1>6 DEF CoverInv, Covers

LEMMA FullHash == ASSUME FullInv PROVE HashCurrent
<1>1. OrderInv /\ SpanInv /\ HashInv
  BY DEF FullInv
<1>2. stored \in Nat /\ Len(svn) \in Nat /\ Passed \in Nat /\ stored <= Passed
  BY <1>1, LogFacts DEF FullInv, OrderInv, SpanInv, Passed
<1>3. \A i \in Passed + 1 .. Len(svn) : i \in stored + 1 .. Len(svn)
  BY <1>2
<1> QED BY <1>1, <1>3 DEF HashInv, HashCurrent, Pending

LEMMA FullCurrent == ASSUME FullInv PROVE CurrentIsHighest
<1>1. CASE Answered(row)
  BY <1>1, OutcomeFacts DEF Answered, CurrentIsHighest
<1>2. CASE Unsynced(row)
  BY <1>2 DEF Unsynced, Nothing, CurrentIsHighest, HighestOf
<1> QED BY <1>1, <1>2 DEF FullInv, AnswerInv

\* Every tagged version of a timed package is offered with a time, and with none
\* before a commit to its tags that discover's revision covers, whatever replica of
\* the log answered, which command failed or died, and what update or backfill wrote
\* from what they had read before (discover.go:295-305, published_times.go:172-178).
THEOREM TimesCoverCommits == Spec => []ServedTimesCover
<1>1. Init => FullInv
  BY FullInit
<1>2. FullInv /\ [Next]_vars => FullInv'
  BY FullStep
<1>3. FullInv => ServedTimesCover
  BY FullCovers
<1> QED BY <1>1, <1>2, <1>3, PTL DEF Spec

\* A row nobody is going to update has the hash of what it holds, though discover,
\* update and backfill each write a part of it (serialize.go:63-73).
THEOREM HashesAreCurrent == Spec => []HashCurrent
<1>1. Init => FullInv
  BY FullInit
<1>2. FullInv /\ [Next]_vars => FullInv'
  BY FullStep
<1>3. FullInv => HashCurrent
  BY FullHash
<1> QED BY <1>1, <1>2, <1>3, PTL DEF Spec

\* current_version is a stable version if there is one, and no stable version of the
\* row is above it, in whatever order Go's map yields them (normalize.go:147-149).
THEOREM CurrentVersionHighest == Spec => []CurrentIsHighest
<1>1. Init => FullInv
  BY FullInit
<1>2. FullInv /\ [Next]_vars => FullInv'
  BY FullStep
<1>3. FullInv => CurrentIsHighest
  BY FullCurrent
<1> QED BY <1>1, <1>2, <1>3, PTL DEF Spec

\* The same answer gives the same versions with the same download names, in whatever
\* order the map of its names is walked (normalize.go:52-58).
THEOREM SameAnswerSameVersions == Spec => VersionsSettle
<1>1. Init => FullInv
  BY FullInit
<1>2. FullInv /\ [Next]_vars => FullInv' /\ SettleStep
  BY FullStep
<1> QED BY <1>1, <1>2, PTL DEF Spec, VersionsSettle

-----------------------------------------------------------------------------
(* Types.                                                                   *)

Hashes == Maps \X Int \X BOOLEAN \X [Vers -> Nat]

\* A row whose times have passed.
Dated(r) == r \in Row /\ \A v \in Vers : r.times[v] <= clock

PlainInv ==
  /\ Dated(row) /\ Dated(task.row) /\ task.sync \in BOOLEAN
  /\ phase \in {"free", "scan", "mark", "save", "fetch", "write", "walk", "rows", "fill"}
  /\ {scan.cursor, scan.reach, scan.head} \subseteq Nat
  /\ phase = "free" => scan = NoScan /\ task = NoTask

LEMMA ShellTyped == NoHash \in Hashes /\ Shell \in Row /\ \A v \in Vers : Shell.times[v] = 0
<1>1. NoTimes \in [Vers -> Nat] /\ \A v \in Vers : NoTimes[v] = 0
  BY DEF NoTimes
<1>2. Nothing \in Maps
  <2>1. Nothing \in [{} -> Names]
    BY DEF Nothing
  <2> QED BY <2>1 DEF Maps
<1>3. NoHash \in Hashes
  <2>1. NoHash = <<Nothing, -1, FALSE, NoTimes>> /\ -1 \in Int
    BY DEF NoHash
  <2> HIDE DEF NoTimes, Nothing, Maps, NoHash
  <2> QED BY <1>1, <1>2, <2>1 DEF Hashes
<1>4. NoHash \in Maps \X Int \X BOOLEAN \X [Vers -> Nat]
  BY <1>3 DEF Hashes
<1> HIDE DEF Nothing, NoHash
<1> QED BY <1>1, <1>2, <1>3, <1>4 DEF Shell, Row

LEMMA RowFields ==
  ASSUME NEW r \in Row
  PROVE  /\ IsRow(r) /\ HashOf(r) \in Hashes
         /\ r.trunk \in Nat /\ r.active \in BOOLEAN /\ r.clean \in BOOLEAN /\ r.hash \in Hashes
         /\ r.versions \in Maps /\ r.times \in [Vers -> Nat]
<1>1. /\ IsRow(r) /\ r.trunk \in Nat /\ r.active \in BOOLEAN /\ r.clean \in BOOLEAN
      /\ r.versions \in Maps /\ r.stamped \in BOOLEAN /\ r.times \in [Vers -> Nat]
  BY DEF Row, IsRow, Fields
<1>2. r.hash \in Hashes
  BY DEF Row, Hashes
<1>3. HashOf(r) \in Hashes
  BY <1>1 DEF HashOf, HashVersions, Hashes
<1> QED BY <1>1, <1>2, <1>3

\* What the commands write into a row.
LEMMA RowWrites ==
  ASSUME NEW r \in Row
  PROVE  /\ \A h \in Hashes : [r EXCEPT !.hash = h] \in Row /\ [r EXCEPT !.hash = h].times = r.times
         /\ \A t \in [Vers -> Nat] : [r EXCEPT !.times = t] \in Row /\ [r EXCEPT !.times = t].times = t
BY DEF Row, Hashes

LEMMA SyncedTyped ==
  ASSUME NEW r \in Row, NEW l \in Listings, NEW o \in Outcomes[l]
  PROVE  Synced(r, l, o) \in Row /\ Synced(r, l, o).times = r.times
<1>1. o.versions \in Maps /\ o.current \in Vers \cup {NoVersion}
  BY OutcomeFacts
<1> QED BY <1>1 DEF Synced, Row

LEMMA PlainInit == ASSUME Init PROVE PlainInv
<1>1. Shell \in Row /\ (\A v \in Vers : Shell.times[v] = 0) /\ clock \in Nat
  BY ShellTyped, TimesAssumption DEF Init
<1>2. ASSUME NEW r \in {Shell} \cup OldRows PROVE Dated(r)
  <2>1. CASE r = Shell
    BY <1>1, <2>1 DEF Dated
  <2>2. CASE r \in OldRows
    <3> DEFINE clean == [Shell EXCEPT !.clean = TRUE]
    <3>1. clean \in Row /\ clean.times = Shell.times
      BY <1>1 DEF Row
    <3>2. PICK l \in Listings :
            LET s == Synced(clean, l, CHOOSE o \in Outcomes[l] : TRUE)
            IN r = [s EXCEPT !.hash = HashOf(s)]
      BY <2>2 DEF OldRows
    <3> DEFINE o == CHOOSE o \in Outcomes[l] : TRUE
               s == Synced(clean, l, o)
    <3>3. o \in Outcomes[l]
      BY OutcomeExists
    <3>4. r = [s EXCEPT !.hash = HashOf(s)]
      BY <3>2
    <3> HIDE DEF clean, o
    <3>5. s \in Row /\ s.times = Shell.times
      BY <3>1, <3>3, SyncedTyped
    <3> HIDE DEF s
    <3>6. HashOf(s) \in Hashes
      BY <3>5, RowFields
    <3>7. r \in Row /\ r.times = Shell.times
      BY <3>4, <3>5, <3>6, RowWrites
    <3> QED BY <1>1, <3>7 DEF Dated
  <2> QED BY <2>1, <2>2
<1>3. Dated(row) /\ Dated(task.row)
  BY <1>2 DEF Init, NoTask
<1> QED BY <1>3 DEF Init, PlainInv, NoScan, NoTask

\* Steps that leave or clear what the row and the task hold.
LEMMA PlainUnlock ==
  ASSUME TInv, PlainInv, Unlock, Dated(row') , clock' = clock
  PROVE  PlainInv'
<1>1. clock \in Nat /\ Shell \in Row /\ \A v \in Vers : Shell.times[v] = 0
  BY ShellTyped DEF TInv, LogInv
<1>2. Dated(Shell)
  BY <1>1 DEF Dated
<1>3. Dated(row)' /\ Dated(task.row)'
  BY <1>2 DEF Dated, Unlock, NoTask
<1> QED BY <1>3 DEF PlainInv, Unlock, NoScan, NoTask

LEMMA PlainDiscover ==
  ASSUME FullInv, PlainInv, Discover
  PROVE  PlainInv'
<1>1. /\ TInv /\ LogInv /\ OrderInv /\ SpanInv /\ Dated(row) /\ row \in Row /\ clock \in Nat
      /\ clock' = clock /\ Dated(row)' = Dated(row')
      /\ scan.cursor \in Nat /\ scan.reach \in Nat /\ scan.head \in Nat
      /\ stored \in Nat /\ Len(svn) \in Nat /\ IsScan(scan)
  BY LogFacts DEF FullInv, PlainInv, TInv, LogInv, ScanInv, Dated, Discover, FirstRun, StartScan, MarkChunk,
         SaveRevision, FetchFailed, ReadChunk
<1>2. CASE FirstRun
  BY <1>2 DEF FirstRun, PlainInv, Dated
<1>3. CASE StartScan
  <2>1. scan'.cursor = stored /\ scan'.reach = stored /\ scan'.head = Len(svn)
    BY <1>3 DEF StartScan, NoScan
  <2> QED BY <1>1, <1>3, <2>1 DEF StartScan, PlainInv, Dated
<1>4. CASE MarkChunk
  <2>1. scan'.cursor = scan.reach /\ scan'.reach = scan.reach /\ scan'.head = scan.head
    BY <1>1, <1>4 DEF MarkChunk, IsScan
  <2>2. row' = row \/ row' = [row EXCEPT !.clean = FALSE, !.trunk = scan.reach]
    BY <1>4 DEF MarkChunk
  <2>3. row' \in Row /\ row'.times = row.times
    BY <1>1, <2>2 DEF Row, Hashes
  <2>4. phase' \in {"scan", "save"} /\ UNCHANGED <<clock, task>>
    BY <1>4 DEF MarkChunk
  <2> QED BY <1>1, <2>1, <2>3, <2>4 DEF PlainInv, Dated
<1>5. CASE SaveRevision \/ FetchFailed
  <2>1. Unlock /\ row' = row
    BY <1>5 DEF SaveRevision, FetchFailed
  <2> QED BY <1>1, <2>1, PlainUnlock DEF FullInv
<1>6. ASSUME NEW to, ReadChunk(to) PROVE PlainInv'
  <2> DEFINE t == ResetTimes(row.times, scan.cursor + 1 .. to)
  <2>1. row.times \in [Vers -> Nat] /\ \A v \in Vers : row.times[v] <= clock
    BY <1>1, RowFields DEF Dated
  <2>2. t \in [Vers -> Nat] /\ \A v \in Vers : t[v] <= clock
    BY <1>1, <2>1 DEF ResetTimes
  <2>3. row' = [row EXCEPT !.times = t]
    BY <1>1, <1>6, RowFields DEF ReadChunk, IsRow, Fields
  <2> HIDE DEF t
  <2>4. row' \in Row /\ row'.times = t
    BY <1>1, <2>2, <2>3, RowWrites
  <2>5. phase = "scan" /\ to \in scan.cursor .. ChunkEnd /\ phase' = "mark" /\ task' = task
        /\ scan' = [scan EXCEPT !.reach = to]
    BY <1>6 DEF ReadChunk
  <2>6. ChunkEnd \in Nat
    BY <1>1, ChunkEndFacts
  <2>7. scan'.cursor = scan.cursor /\ scan'.reach = to /\ scan'.head = scan.head /\ to \in Nat
    BY <1>1, <2>5, <2>6 DEF IsScan
  <2> QED BY <1>1, <2>2, <2>4, <2>5, <2>7 DEF PlainInv, Dated
<1> QED BY <1>2, <1>3, <1>4, <1>5, <1>6 DEF Discover

LEMMA PlainUpdate ==
  ASSUME FullInv, PlainInv, Update
  PROVE  PlainInv'
<1>1. /\ TInv /\ Dated(row) /\ Dated(task.row) /\ row \in Row /\ task.row \in Row /\ clock \in Nat
      /\ task.sync \in BOOLEAN /\ clock' = clock
  BY DEF FullInv, PlainInv, TInv, LogInv, Dated, Update, StartUpdate, Flush, FetchOk
<1>2. CASE StartUpdate
  BY <1>1, <1>2 DEF StartUpdate, PlainInv, Dated, NoTask
<1>3. CASE Flush
  <2> DEFINE q == task.row
             clean == task.sync \/ q.clean
             stamped == q.stamped \/ row.stamped
             t == IF q.stamped THEN q.times ELSE row.times
  <2>1. /\ IsRow(q) /\ IsRow(row) /\ row.trunk \in Nat
        /\ clean \in BOOLEAN /\ stamped \in BOOLEAN /\ t \in [Vers -> Nat]
        /\ \A v \in Vers : t[v] <= clock
    BY <1>1, RowFields DEF IsRow, Dated
  <2>2. row' = [q EXCEPT !.active = TRUE, !.clean = clean, !.trunk = row.trunk,
                         !.stamped = stamped, !.times = t]
    BY <1>3, <2>1 DEF Flush, IsRow, Fields
  <2> HIDE DEF clean, stamped, t
  <2>3. row' \in Row /\ row'.times = t
    BY <1>1, <2>1, <2>2 DEF Row, Hashes
  <2>4. Dated(row')
    BY <2>1, <2>3 DEF Dated
  <2> QED BY <1>1, <1>3, <2>4, PlainUnlock DEF Flush
<1>4. ASSUME NEW l \in Listings, NEW sync \in BOOLEAN, NEW o \in Outcomes[l], FetchOk(l, o, sync)
      PROVE  PlainInv'
  <2> DEFINE s == Synced(task.row, l, o)
             m == task.row.stamped \/ task.row.versions = Nothing
             t == [v \in Vers |-> IF m /\ v \in DOMAIN s.versions \ {Trunk} /\ s.times[v] = 0
                                  THEN clock ELSE s.times[v]]
             r == Merge(s, task.row)
  <2>1. s \in Row /\ s.times = task.row.times
    BY <1>1, SyncedTyped
  <2>2. IsRow(s) /\ m \in BOOLEAN
    BY <1>1, <2>1, RowFields DEF IsRow
  <2>3. t \in [Vers -> Nat] /\ \A v \in Vers : t[v] <= clock
    BY <1>1, <2>1, RowFields DEF Dated
  <2>4. r = [s EXCEPT !.stamped = m, !.times = t]
    BY <2>2 DEF Merge, IsRow, Fields
  <2>5. task' = [row |-> [r EXCEPT !.hash = HashOf(r)], sync |-> sync]
    BY <1>4 DEF FetchOk
  <2> HIDE DEF s, m, t, r
  <2>6. r \in Row /\ r.times = t
    BY <2>1, <2>2, <2>3, <2>4 DEF Row, Hashes
  <2>7. HashOf(r) \in Hashes
    BY <2>6, RowFields
  <2>8. task'.row \in Row /\ task'.row.times = t /\ task'.sync = sync
    BY <2>5, <2>6, <2>7, RowWrites
  <2>9. UNCHANGED <<clock, row, scan>> /\ phase' = "write"
    BY <1>4 DEF FetchOk
  <2> QED BY <2>3, <2>8, <2>9 DEF PlainInv, Dated
<1> QED BY <1>2, <1>3, <1>4 DEF Update

LEMMA PlainBackfill ==
  ASSUME FullInv, PlainInv, Backfill
  PROVE  PlainInv'
<1>1. /\ TInv /\ Dated(row) /\ Dated(task.row) /\ row \in Row /\ task.row \in Row /\ clock \in Nat
      /\ clock' = clock /\ Len(svn) \in Nat /\ IsScan(scan)
      /\ task = [f \in {"row", "sync"} |-> task[f]]
      /\ scan.cursor \in Nat /\ scan.reach \in Nat /\ scan.head \in Nat
  BY DEF FullInv, PlainInv, TInv, LogInv, ScanInv, TaskInv, Dated, Backfill, StartBackfill,
         WalkChunk, ReadUntimed, FillUntimed
<1>2. CASE StartBackfill
  <2>1. scan'.cursor = Len(svn) /\ scan'.reach = 0 /\ scan'.head = 0
    BY <1>2 DEF StartBackfill, NoScan
  <2> QED BY <1>1, <1>2, <2>1 DEF StartBackfill, PlainInv, Dated
<1>3. CASE WalkChunk
  <2> DEFINE x == scan.cursor - Chunk + 1
             from == Max({1, x})
             chunk == from .. scan.cursor
  <2>1. scan' = [scan EXCEPT !.read = @ \cup chunk, !.cursor = from - 1]
    BY <1>3 DEF WalkChunk
  <2>2. x \in Int
    BY <1>1, TimesAssumption
  <2>3. from \in {1, x} /\ from >= 1
    BY <2>2, FirstOf
  <2> HIDE DEF from
  <2>4. from - 1 \in Nat
    BY <2>2, <2>3
  <2>5. scan'.cursor = from - 1 /\ scan'.reach = scan.reach /\ scan'.head = scan.head
    BY <1>1, <2>1 DEF IsScan
  <2>6. UNCHANGED <<clock, row, task>> /\ phase' \in {"rows", "walk"}
    BY <1>3 DEF WalkChunk
  <2> QED BY <1>1, <2>4, <2>5, <2>6 DEF PlainInv, Dated
<1>4. CASE ReadUntimed
  <2> DEFINE t == [v \in Vers |-> IF v \in DOMAIN row.versions \ {Trunk}
                                  THEN BackfillTime(v) ELSE 0]
             b == [row EXCEPT !.stamped = TRUE, !.times = t]
             q == Backfilled(row)
  <2>1. t \in [Vers -> Nat] /\ \A v \in Vers : t[v] <= clock
    BY <1>1, BackfillTimes DEF TInv
  <2>2. q = IF row.hash = NoHash THEN b ELSE [b EXCEPT !.hash = HashOf(b)]
    BY DEF Backfilled
  <2> HIDE DEF t, q
  <2>3. b \in Row /\ b.times = t
    BY <1>1, <2>1 DEF Row, Hashes
  <2> HIDE DEF b
  <2>4. HashOf(b) \in Hashes
    BY <2>3, RowFields
  <2>5. q \in Row /\ q.times = t
    BY <2>2, <2>3, <2>4, RowWrites
  <2>6. Dated(q)
    BY <2>1, <2>5 DEF Dated
  <2>7. task' = task \/ task' = [task EXCEPT !.row = q]
    BY <1>4 DEF ReadUntimed, q
  <2>8. task'.sync = task.sync /\ task'.row \in {task.row, q}
    BY <1>1, <2>7
  <2>9. UNCHANGED <<clock, row, scan>> /\ phase' = "fill"
    BY <1>4 DEF ReadUntimed
  <2> QED BY <1>1, <2>6, <2>8, <2>9 DEF PlainInv, Dated
<1>5. CASE FillUntimed
  <2> DEFINE q == task.row
  <2>1. row' = row \/ row' = [row EXCEPT !.stamped = TRUE, !.times = q.times, !.hash = q.hash]
    BY <1>5 DEF FillUntimed
  <2>2. q.times \in [Vers -> Nat] /\ q.hash \in Hashes /\ \A v \in Vers : q.times[v] <= clock
    BY <1>1, RowFields DEF Dated
  <2>3. row' \in Row /\ row'.times \in {row.times, q.times}
    BY <1>1, <2>1, <2>2 DEF Row, Hashes
  <2>4. Dated(row')
    BY <1>1, <2>2, <2>3 DEF Dated
  <2> QED BY <1>1, <1>5, <2>4, PlainUnlock DEF FillUntimed
<1> QED BY <1>2, <1>3, <1>4, <1>5 DEF Backfill

LEMMA PlainStep == ASSUME FullInv, PlainInv, [Next]_vars PROVE PlainInv'
<1>1. /\ TInv /\ row \in Row /\ clock \in Nat /\ Dated(row)
      /\ task.row \in Row
      /\ \A v \in Vers : row.times[v] \in Nat /\ row.times[v] <= clock
      /\ \A v \in Vers : task.row.times[v] \in Nat /\ task.row.times[v] <= clock
  BY RowFields DEF FullInv, PlainInv, TInv, LogInv, Dated
<1>2. CASE Tick \/ \E c \in Commits : Commit(c)
  <2>1. UNCHANGED <<row, phase, scan, task>> /\ clock' \in Nat /\ clock <= clock'
    <3>1. UNCHANGED <<row, phase, scan, task>>
      BY <1>2 DEF Tick, Commit
    <3>2. clock' = clock + 1 \/ clock' = clock
      BY <1>2 DEF Tick, Commit
    <3> QED BY <1>1, <3>1, <3>2
  <2>2. Dated(row)' /\ Dated(task.row)'
    BY <1>1, <2>1 DEF Dated
  <2> QED BY <2>1, <2>2 DEF PlainInv
<1>3. CASE Deactivate \/ Reactivate
  <2>1. row' = [row EXCEPT !.active = FALSE] \/ row' = [row EXCEPT !.active = TRUE, !.clean = FALSE]
    BY <1>3 DEF Deactivate, Reactivate
  <2>2. row' \in Row /\ row'.times = row.times
    BY <1>1, <2>1 DEF Row, Hashes
  <2>3. UNCHANGED <<clock, phase, scan, task>>
    BY <1>3 DEF Deactivate, Reactivate
  <2>4. Dated(row)' /\ Dated(task.row)'
    BY <1>1, <2>2, <2>3 DEF Dated
  <2> QED BY <2>3, <2>4 DEF PlainInv
<1>4. CASE Fail
  BY <1>1, <1>4, PlainUnlock DEF Fail
<1>5. CASE UNCHANGED vars
  BY <1>5 DEF vars, PlainInv, Dated
<1> QED BY <1>2, <1>3, <1>4, <1>5, PlainDiscover, PlainUpdate, PlainBackfill DEF Next

LEMMA TypesHold == ASSUME FullInv, PlainInv PROVE TypeOK
<1>1. TInv /\ OrderInv
  BY DEF FullInv
<1>2. clock \in Nat /\ svn \in Seq([date : Nat, changes : Commits \cup {{}}])
      /\ stored \in Nat /\ base \in Nat /\ DOMAIN svn \subseteq Nat
  BY <1>1, LogFacts DEF TInv, LogInv
<1>3. scan \in [cursor : Nat, reach : Nat, head : Nat, since : Nat, read : SUBSET Nat]
  <2>1. /\ scan = [f \in {"cursor", "reach", "head", "since", "read"} |-> scan[f]]
        /\ scan.read \subseteq Nat /\ scan.since \in Nat
        /\ scan.cursor \in Nat /\ scan.reach \in Nat /\ scan.head \in Nat
    BY <1>1, <1>2 DEF TInv, ScanInv, IsScan, PlainInv
  <2> QED BY <2>1
<1>4. task \in [row : Row, sync : BOOLEAN]
  <2>1. task = [f \in {"row", "sync"} |-> task[f]] /\ task.row \in Row /\ task.sync \in BOOLEAN
    BY <1>1 DEF TInv, TaskInv, PlainInv, Dated
  <2> QED BY <2>1
<1>5. Types
  BY <1>2, <1>3, <1>4 DEF Types, PlainInv, Dated
<1>6. \A v \in Vers : row.times[v] <= clock /\ (row.times[v] # 0 => row.stamped)
  BY <1>1 DEF TInv, RowInv, PlainInv, Dated
<1> QED BY <1>5, <1>6 DEF TypeOK, PlainInv

\* No time lies in the future, a package that was not backfilled has none, and a
\* command that ended leaves nothing behind (published_times.go:24-36).
THEOREM TypeCorrect == Spec => []TypeOK
<1>1. Init => FullInv /\ PlainInv
  BY FullInit, PlainInit
<1>2. FullInv /\ PlainInv /\ [Next]_vars => FullInv' /\ PlainInv'
  BY FullStep, PlainStep
<1>3. FullInv /\ PlainInv => TypeOK
  BY TypesHold
<1> QED BY <1>1, <1>2, <1>3, PTL DEF Spec

=============================================================================
