------------------------------- MODULE OgImages -------------------------------
(***************************************************************************)
(* Open Graph images: generate-og renders an image of each package whose     *)
(* install count reads differently since the last one.  Workers render and   *)
(* upload at the same time; one writer marks in the database what they have  *)
(* done.  Counts only grow (InstallTelemetry).                               *)
(***************************************************************************)
EXTENDS Integers, Sequences

CONSTANTS
  Packages,
  NoPackage,     \* the package of a worker without work
  Workers,       \* uploadConcurrency of them
  Buffer,        \* capacity of the channel to the writer
  Totals         \* the install counts packages go through

ASSUME OgAssumption ==
  /\ NoPackage \notin Packages
  /\ Buffer \in Nat /\ Totals \subseteq Nat /\ 0 \in Totals

VARIABLES
  total,    \* packages.wp_packages_installs_total
  active,   \* packages.is_active
  mark,     \* og_image_wp_installs, and whether og_image_generated_at is set
  image,    \* the label on the uploaded image, <<>> for none
  step,     \* of generate-og: "idle" or "run"
  work,     \* what has not been sent to the workers
  worker,   \* what each worker is doing
  updates   \* the channel to the writer

vars == <<total, active, mark, image, step, work, worker, updates>>

-----------------------------------------------------------------------------
\* The nearest thousand; the even one of two.
Thousands(n) ==
  IF n % 1000 = 500 /\ (n \div 1000) % 2 = 0 THEN n \div 1000 ELSE (n + 500) \div 1000

\* What is printed: a number and its unit (tenths for millions, where a tie goes up:
\* which way Go takes one depends on the binary fraction of n / 1000000).
FormatInstalls(n) ==
  IF n >= 1000000 THEN <<(n + 50000) \div 100000, "M">>
  ELSE IF n >= 1000 THEN <<Thousands(n), "k">>
  ELSE IF n >= 100 THEN <<(n \div 100) * 100, "+">>
  ELSE IF n >= 10 THEN <<(n \div 10) * 10, "+">>
  ELSE <<n, "none">>

Labels == {FormatInstalls(n) : n \in Totals}
Row == [pkg : Packages, total : Totals]   \* what a run has read
Free == [pkg |-> NoPackage, total |-> 0, step |-> "free"]

TypeOK ==
  /\ total \in [Packages -> Totals]
  /\ active \in [Packages -> BOOLEAN]
  /\ mark \in [Packages -> [made : BOOLEAN, total : Totals]]
  /\ image \in [Packages -> Labels \cup {<<>>}]
  /\ step \in {"idle", "run"}
  /\ work \subseteq Row
  /\ worker \in [Workers -> [pkg : Packages \cup {NoPackage}, total : Totals,
                             step : {"free", "upload", "send"}]]
  /\ updates \in Seq(Row) /\ Len(updates) <= Buffer

Init ==
  /\ total = [p \in Packages |-> 0]
  /\ active = [p \in Packages |-> TRUE]
  /\ mark = [p \in Packages |-> [made |-> FALSE, total |-> 0]]
  /\ image = [p \in Packages |-> <<>>]
  /\ step = "idle"
  /\ work = {}
  /\ worker = [w \in Workers |-> Free]
  /\ updates = <<>>

\* aggregate-installs.
Install(p) ==
  /\ total' \in {[total EXCEPT ![p] = n] : n \in {m \in Totals : m > total[p]}}
  /\ UNCHANGED <<active, mark, image, step, work, worker, updates>>

\* check-status.
SetActive(p) ==
  /\ active' = [active EXCEPT ![p] = ~@]
  /\ UNCHANGED <<total, mark, image, step, work, worker, updates>>

-----------------------------------------------------------------------------
(* GenerateAll.                                                             *)

\* getPackagesNeedingOG.
Candidates == {p \in Packages : active[p] /\ (~mark[p].made \/ total[p] # mark[p].total)}

\* Mutant: an image is made once.
WorkOnce == {p \in Candidates : ~mark[p].made}

\* Without those that would look the same.
Work ==
  {p \in Candidates :
     ~mark[p].made \/ FormatInstalls(total[p]) # FormatInstalls(mark[p].total)}

StartRun ==
  /\ step = "idle"
  /\ Work # {}
  /\ step' = "run"
  /\ work' = {[pkg |-> p, total |-> total[p]] : p \in Work}
  /\ UNCHANGED <<total, active, mark, image, worker, updates>>

\* A row goes to a worker that is free.
Send(w, r) ==
  /\ r \in work /\ worker[w].step = "free"
  /\ work' = work \ {r}
  /\ worker' = [worker EXCEPT ![w] = [pkg |-> r.pkg, total |-> r.total, step |-> "upload"]]
  /\ UNCHANGED <<total, active, mark, image, step, updates>>

\* Rendering or uploading fails: the row is left for the next run.
UploadFails(w) ==
  /\ worker[w].step = "upload"
  /\ worker' = [worker EXCEPT ![w] = Free]
  /\ UNCHANGED <<total, active, mark, image, step, work, updates>>

\* The image shows the count the run has read.
Upload(w) ==
  /\ worker[w].step = "upload"
  /\ image' = [image EXCEPT ![worker[w].pkg] = FormatInstalls(worker[w].total)]
  /\ worker' = [worker EXCEPT ![w].step = "send"]
  /\ UNCHANGED <<total, active, mark, step, work, updates>>

\* Mutant: the channel has no capacity to respect.
SendUnbounded(w) ==
  /\ worker[w].step = "send"
  /\ updates' = Append(updates, [pkg |-> worker[w].pkg, total |-> worker[w].total])
  /\ worker' = [worker EXCEPT ![w] = Free]
  /\ UNCHANGED <<total, active, mark, image, step, work>>

\* The writer may be waiting for the row, or the channel has room for it.
SendUpdate(w) ==
  /\ worker[w].step = "send"
  /\ Len(updates) < Buffer
  /\ updates' = Append(updates, [pkg |-> worker[w].pkg, total |-> worker[w].total])
  /\ worker' = [worker EXCEPT ![w] = Free]
  /\ UNCHANGED <<total, active, mark, image, step, work>>

\* Mutant: what is marked is the count of now.
MarkNow(ok) ==
  /\ updates # <<>>
  /\ updates' = Tail(updates)
  /\ LET r == Head(updates)
     IN mark' = IF ok THEN [mark EXCEPT ![r.pkg] = [made |-> TRUE, total |-> total[r.pkg]]]
                ELSE mark
  /\ UNCHANGED <<total, active, image, step, work, worker>>

\* Mutant: the writer is started when the workers are done.
MarkAfterwards(ok) ==
  /\ updates # <<>>
  /\ work = {} /\ \A w \in Workers : worker[w].step = "free"
  /\ updates' = Tail(updates)
  /\ mark' = IF ok THEN [mark EXCEPT ![Head(updates).pkg] =
                            [made |-> TRUE, total |-> Head(updates).total]]
             ELSE mark
  /\ UNCHANGED <<total, active, image, step, work, worker>>

\* An error is counted, and the writer goes on. A row stays in the channel until it
\* is written, so that one row fewer is under way than the code has room for.
markOGGenerated(ok) ==
  /\ updates # <<>>
  /\ updates' = Tail(updates)
  /\ LET r == Head(updates)
     IN mark' = IF ok THEN [mark EXCEPT ![r.pkg] = [made |-> TRUE, total |-> r.total]]
                ELSE mark
  /\ UNCHANGED <<total, active, image, step, work, worker>>

\* The context is cancelled: nothing more is sent. (What is under way ends, or fails.)
Cancel ==
  /\ step = "run" /\ work # {}
  /\ work' = {}
  /\ UNCHANGED <<total, active, mark, image, step, worker, updates>>

\* The channels are closed one after the other, and everybody is waited for.
EndRun ==
  /\ step = "run"
  /\ work = {} /\ updates = <<>> /\ \A w \in Workers : worker[w].step = "free"
  /\ step' = "idle"
  /\ UNCHANGED <<total, active, mark, image, work, worker, updates>>

Crash ==
  /\ step = "run"
  /\ step' = "idle" /\ work' = {} /\ updates' = <<>>
  /\ worker' = [w \in Workers |-> Free]
  /\ UNCHANGED <<total, active, mark, image>>

-----------------------------------------------------------------------------
Good ==
  \/ StartRun \/ EndRun \/ markOGGenerated(TRUE)
  \/ \E w \in Workers : Upload(w) \/ SendUpdate(w) \/ \E r \in work : Send(w, r)

Next ==
  \/ Good \/ Cancel \/ Crash \/ markOGGenerated(FALSE)
  \/ \E w \in Workers : UploadFails(w)
  \/ \E p \in Packages : Install(p) \/ SetActive(p)

Spec == Init /\ [][Next]_vars

\* A run that nobody kills goes on, whatever fails.
RunFairness ==
  /\ WF_vars(EndRun)
  /\ WF_vars(\E ok \in BOOLEAN : markOGGenerated(ok))
  /\ \A w \in Workers :
       WF_vars(Upload(w) \/ UploadFails(w)) /\ WF_vars(SendUpdate(w)) /\ WF_vars(\E r \in work : Send(w, r))

\* The timer goes on starting runs, and one day nothing fails any more.
LiveSpec == Spec /\ RunFairness /\ <>[][Good \/ \E p \in Packages : Install(p)]_vars /\ WF_vars(StartRun)

-----------------------------------------------------------------------------
(* Properties.                                                              *)

\* A package that is passed over because its image would look the same has that
\* image: uploads and marks are two steps, runs die between them, and counts grow
\* all the while (generate.go:50-63, 118-128, 173, 186-191).
ImageCurrent ==
  \A p \in Packages :
    mark[p].made /\ FormatInstalls(total[p]) = FormatInstalls(mark[p].total)
      => image[p] = FormatInstalls(total[p])

\* A run ends: workers, writer and channels never all wait for each other
\* (generate.go:136-203).
RunsEnd == step = "run" ~> step = "idle"

\* Every package that is served gets the image of its count in the end.
ImagesInTheEnd ==
  \A p \in Packages : <>[](active[p] => image[p] = FormatInstalls(total[p]))

=============================================================================
