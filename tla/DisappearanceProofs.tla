------------------------ MODULE DisappearanceProofs ------------------------
(***************************************************************************)
(* Proofs about disappearance, for any links, listings and runs.           *)
(***************************************************************************)
EXTENDS Disappearance, FiniteSetTheorems, WellFoundedInduction, TLAPS

-----------------------------------------------------------------------------
(* The inductive invariant.                                                 *)

Run == [at : 1 .. MaxTime, passed : BOOLEAN, seen : SUBSET Links]
LinkRow == [status : {"none", "ACTIVE", "MISSING", "REMOVED"}, run : 0 .. Len(runs)]
Finished == 1 .. Len(runs)

\* Runs start one after another, and not in the future.
InOrder ==
    /\ \A r \in Finished : runs[r].at <= now
    /\ \A q, r \in Finished : q < r => runs[q].at < runs[r].at

\* What was captured waits for its job or has reached the link.
Fresh == \A r \in Finished : \A l \in runs[r].seen : <<r, l>> \in pending \/ r <= link[l].run

\* What waits was captured.
Captured == \A r \in Finished, l \in Links : <<r, l>> \in pending => l \in runs[r].seen

\* After orderly processing of the latest run nothing waits.
Drained == ~disorderly /\ processed # 0 /\ processed = Len(runs) => pending = {}

IInv ==
    /\ TypeOK
    /\ InOrder
    /\ Fresh
    /\ Captured
    /\ Drained
    /\ StatusTellsTheLatestRun
    /\ HistoryTellsEverything

LEMMA Appended == ASSUME NEW S, NEW s \in Seq(S), NEW e \in S
                  PROVE  /\ Append(s, e) \in Seq(S)
                         /\ Len(s) \in Nat
                         /\ Len(Append(s, e)) = Len(s) + 1
                         /\ \A n \in 1 .. Len(s) : Append(s, e)[n] = s[n]
                         /\ Append(s, e)[Len(s) + 1] = e
OBVIOUS

LEMMA Elements == ASSUME NEW S, NEW s \in Seq(S)
                  PROVE  Len(s) \in Nat /\ \A n \in 1 .. Len(s) : s[n] \in S
OBVIOUS

LEMMA InitIInv == Init => IInv
<1> SUFFICES ASSUME Init PROVE IInv
  OBVIOUS
<1>1. Len(runs) = 0 /\ runs \in Seq(Run)
  BY DEF Init
<1>2. link \in [Links -> LinkRow] /\ \A l \in Links : link[l].status = "none" /\ link[l].run = 0
  BY <1>1 DEF Init, NoLink, LinkRow
<1>3. /\ now \in 0 .. MaxTime /\ processed \in 0 .. Len(runs)
      /\ pending \subseteq (1 .. Len(runs)) \X Links /\ disorderly \in BOOLEAN
  <2>1. now \in 0 .. MaxTime /\ processed \in 0 .. Len(runs)
    BY <1>1, DisappearanceAssumption DEF Init, DisappearanceAssumption
  <2> QED BY <2>1 DEF Init
<1>4. /\ life \in [Listings -> {"none", "CANDIDATE", "ACTIVE", "INACTIVE"}]
      /\ events \subseteq Listings \X {"MISSING_STARTED", "INACTIVATED"} \X (0 .. Len(runs))
  BY DEF Init
<1>5. TypeOK
  BY <1>1, <1>2, <1>3, <1>4 DEF TypeOK, Run, LinkRow
<1>6. InOrder /\ Fresh /\ Captured /\ Drained
  BY <1>1 DEF Init, InOrder, Fresh, Captured, Drained, Finished
<1>7. StatusTellsTheLatestRun /\ HistoryTellsEverything
  BY <1>2 DEF Init, StatusTellsTheLatestRun, HistoryTellsEverything
<1> QED BY <1>5, <1>6, <1>7 DEF IInv

\* The tables as the invariant types them.
LEMMA Tables ==
    ASSUME TypeOK
    PROVE  /\ runs \in Seq(Run) /\ Len(runs) \in Nat
           /\ \A r \in Finished : runs[r] \in Run
           /\ link \in [Links -> LinkRow]
           /\ \A l \in Links : /\ link[l].status \in {"none", "ACTIVE", "MISSING", "REMOVED"}
                               /\ link[l].run \in 0 .. Len(runs)
                               /\ link[l].status = "none" <=> link[l] = NoLink
                               /\ link[l].status # "none" => link[l].run \in Finished
<1>1. runs \in Seq(Run) /\ Len(runs) \in Nat /\ \A r \in Finished : runs[r] \in Run
  <2>1. runs \in Seq(Run)
    BY DEF TypeOK, Run
  <2> QED BY <2>1, Elements DEF Finished
<1>2. link \in [Links -> LinkRow]
  BY DEF TypeOK, LinkRow
<1>3. ASSUME NEW l \in Links
      PROVE  /\ link[l].status \in {"none", "ACTIVE", "MISSING", "REMOVED"}
             /\ link[l].run \in 0 .. Len(runs)
             /\ link[l].status = "none" <=> link[l] = NoLink
             /\ link[l].status # "none" => link[l].run \in Finished
  <2>1. link[l] \in LinkRow
    BY <1>2
  <2>2. link[l].status \in {"none", "ACTIVE", "MISSING", "REMOVED"} /\ link[l].run \in 0 .. Len(runs)
    BY <2>1 DEF LinkRow
  <2>3. link[l].status = "none" => link[l].run = 0
    BY DEF TypeOK
  <2>4. link[l] = [status |-> link[l].status, run |-> link[l].run]
    BY <2>1 DEF LinkRow
  <2>5. link[l].status = "none" <=> link[l] = NoLink
    BY <2>3, <2>4 DEF NoLink
  <2>6. link[l].status # "none" => link[l].run # 0
    BY DEF TypeOK
  <2> QED BY <1>1, <2>2, <2>5, <2>6 DEF Finished
<1> QED BY <1>1, <1>2, <1>3

LEMMA TickKeeps == IInv /\ Tick => IInv'
<1> SUFFICES ASSUME IInv, Tick PROVE IInv'
  OBVIOUS
<1>1. UNCHANGED <<runs, pending, link, life, events, processed, disorderly>>
      /\ now' \in 0 .. MaxTime /\ now <= now'
  BY DisappearanceAssumption DEF Tick, IInv, TypeOK, DisappearanceAssumption
<1>2. \A r \in Finished : runs[r].at \in Nat
  BY Tables DEF IInv, Run
<1>3. TypeOK'
  BY <1>1 DEF IInv, TypeOK
<1>4. now \in Nat /\ now' \in Nat
  BY <1>1 DEF IInv, TypeOK
<1>5. InOrder'
  BY <1>1, <1>2, <1>4 DEF IInv, InOrder, Finished
<1>6. Fresh' /\ Captured' /\ Drained'
  BY <1>1 DEF IInv, Fresh, Captured, Drained, Finished
<1>7. StatusTellsTheLatestRun' /\ HistoryTellsEverything'
  BY <1>1 DEF IInv, StatusTellsTheLatestRun, HistoryTellsEverything, Considered
<1> QED BY <1>3, <1>5, <1>6, <1>7 DEF IInv

LEMMA AdmitKeeps == ASSUME IInv, NEW x \in Listings, Admit(x) PROVE IInv'
<1>1. /\ UNCHANGED <<now, runs, pending, link, events, processed, disorderly>>
      /\ life[x] = "CANDIDATE" /\ life' = [life EXCEPT ![x] = "ACTIVE"]
  BY DEF Admit
<1>2. life \in [Listings -> {"none", "CANDIDATE", "ACTIVE", "INACTIVE"}]
  BY DEF IInv, TypeOK
<1>3. life' \in [Listings -> {"none", "CANDIDATE", "ACTIVE", "INACTIVE"}]
      /\ \A y \in Listings : life'[y] = "INACTIVE" <=> life[y] = "INACTIVE"
  BY <1>1, <1>2
<1>4. TypeOK'
  BY <1>1, <1>3 DEF IInv, TypeOK
<1>5. InOrder' /\ Fresh' /\ Captured' /\ Drained'
  BY <1>1 DEF IInv, InOrder, Fresh, Captured, Drained, Finished
<1>6. StatusTellsTheLatestRun' /\ HistoryTellsEverything'
  BY <1>1, <1>3 DEF IInv, StatusTellsTheLatestRun, HistoryTellsEverything, Considered
<1> QED BY <1>4, <1>5, <1>6 DEF IInv

LEMMA RunSourceKeeps ==
    ASSUME IInv, NEW seen \in SUBSET Links, NEW passed \in BOOLEAN, RunSource(seen, passed)
    PROVE  IInv'
<1> DEFINE run == [at |-> now', passed |-> passed, seen |-> seen]
           next == Len(runs) + 1
<1>1. /\ now < MaxTime /\ now' = now + 1 /\ runs' = Append(runs, run)
      /\ pending' = pending \cup ({next} \X seen)
      /\ UNCHANGED <<link, life, events, processed, disorderly>>
  BY DEF RunSource, Jobs
<1>2. now \in Nat /\ now' \in 1 .. MaxTime
  BY <1>1, DisappearanceAssumption DEF IInv, TypeOK, DisappearanceAssumption
<1>3. run \in Run /\ run.at = now' /\ run.seen = seen
  BY <1>2 DEF Run
<1>4. runs \in Seq(Run) /\ Len(runs) \in Nat /\ \A r \in Finished : runs[r] \in Run
  BY Tables DEF IInv
<1> HIDE DEF run
<1>5. /\ runs' \in Seq(Run) /\ Len(runs') = next /\ runs'[next] = run
      /\ \A r \in Finished : runs'[r] = runs[r]
  BY <1>1, <1>3, <1>4, Appended DEF Finished
<1>6. /\ Finished' = Finished \cup {next} /\ next \notin Finished
      /\ (0 .. Len(runs)) \subseteq 0 .. Len(runs')
      /\ \A r \in Finished : r < next
  BY <1>4, <1>5 DEF Finished
<1>7. pending \subseteq Finished \X Links
  BY DEF IInv, TypeOK, Finished
<1>8. TypeOK'
  <2>1. pending' \subseteq Finished' \X Links
    BY <1>1, <1>6, <1>7
  <2>2. link' \in [Links -> LinkRow']
    <3>1. LinkRow \subseteq LinkRow'
      BY <1>6 DEF LinkRow
    <3> QED BY <3>1, <1>1, Tables DEF IInv
  <2>3. ASSUME NEW l \in Links
        PROVE  IF link'[l].status = "none" THEN link'[l].run = 0
               ELSE link'[l].run # 0 /\ l \in runs'[link'[l].run].seen
    BY <1>1, <1>5, Tables DEF IInv, TypeOK
  <2>4. events' \subseteq Listings \X {"MISSING_STARTED", "INACTIVATED"} \X (0 .. Len(runs'))
    BY <1>1, <1>6 DEF IInv, TypeOK
  <2>5. processed' \in 0 .. Len(runs') /\ now' \in 0 .. MaxTime
    BY <1>1, <1>2, <1>6 DEF IInv, TypeOK
  <2>6. /\ life' \in [Listings -> {"none", "CANDIDATE", "ACTIVE", "INACTIVE"}]
        /\ disorderly' \in BOOLEAN
    BY <1>1 DEF IInv, TypeOK
  <2> QED BY <1>5, <2>1, <2>2, <2>3, <2>4, <2>5, <2>6 DEF TypeOK, Run, LinkRow, Finished
<1>9. InOrder'
  <2>1. \A r \in Finished : runs[r].at \in Nat /\ runs[r].at <= now
    BY <1>4 DEF IInv, InOrder, Run
  <2>2. ASSUME NEW r \in Finished PROVE runs'[r].at < now'
    <3>1. runs'[r].at = runs[r].at
      BY <1>5
    <3> QED BY <1>1, <1>2, <2>1, <3>1
  <2>3. ASSUME NEW r \in Finished' PROVE runs'[r].at <= now'
    <3>1. CASE r \in Finished
      <4>1. runs'[r].at = runs[r].at
        BY <1>5, <3>1
      <4> QED BY <1>1, <1>2, <2>1, <3>1, <4>1
    <3>2. CASE r = next
      BY <1>2, <1>3, <1>5, <3>2
    <3> QED BY <1>6, <3>1, <3>2
  <2>4. ASSUME NEW q \in Finished', NEW r \in Finished', q < r PROVE runs'[q].at < runs'[r].at
    <3>1. q \in Finished
      BY <1>4, <1>6, <2>4 DEF Finished
    <3>2. CASE r \in Finished
      BY <3>1, <3>2, <1>5, <2>4 DEF IInv, InOrder
    <3>3. CASE r = next
      BY <3>1, <3>3, <1>3, <1>5, <2>2
    <3> QED BY <3>2, <3>3, <1>6
  <2> QED BY <2>3, <2>4 DEF InOrder
<1>10. Fresh'
  BY <1>1, <1>3, <1>5, <1>6 DEF IInv, Fresh
<1>11. Captured'
  BY <1>1, <1>3, <1>5, <1>6, <1>7 DEF IInv, Captured
<1>12. processed' # Len(runs')
  BY <1>1, <1>4, <1>5 DEF IInv, TypeOK
<1>13. HistoryTellsEverything'
  BY <1>1, <1>6 DEF IInv, HistoryTellsEverything, Finished
<1> QED BY <1>8, <1>9, <1>10, <1>11, <1>12, <1>13 DEF IInv, Drained, StatusTellsTheLatestRun

LEMMA NormalizeKeeps ==
    ASSUME IInv, NEW r \in Finished, NEW l \in Links, Normalize(r, l) PROVE IInv'
<1>1. /\ <<r, l>> \in pending /\ pending' = pending \ {<<r, l>>}
      /\ UNCHANGED <<now, runs, events, processed, disorderly>>
  BY DEF Normalize
<1>2. l \in runs[r].seen
  BY <1>1 DEF IInv, Captured
<1>3. /\ Len(runs) \in Nat /\ link \in [Links -> LinkRow] /\ link[l] \in LinkRow
      /\ link[l].run \in 0 .. Len(runs) /\ r \in 1 .. Len(runs) /\ r # 0
      /\ link[l].status \in {"none", "ACTIVE", "MISSING", "REMOVED"}
      /\ link[l].status = "none" <=> link[l] = NoLink
  BY Tables DEF IInv, Finished
\* The row of the link that the observation is about.
<1>4. /\ link' \in [Links -> LinkRow] /\ \A k \in Links \ {l} : link'[k] = link[k]
      /\ link'[l].run >= r /\ link'[l].run >= link[l].run
      /\ link'[l].run # 0 /\ l \in runs[link'[l].run].seen
      /\ link'[l].status = (IF link[l].status = "none" THEN "ACTIVE" ELSE link[l].status)
      /\ life' \in [Listings -> {"none", "CANDIDATE", "ACTIVE", "INACTIVE"}]
      /\ \A x \in Listings : life'[x] = "INACTIVE" <=> life[x] = "INACTIVE"
  <2>1. life \in [Listings -> {"none", "CANDIDATE", "ACTIVE", "INACTIVE"}]
    BY DEF IInv, TypeOK
  <2>2. CASE link[l] = NoLink
    <3>1. /\ link' = [link EXCEPT ![l] = [status |-> "ACTIVE", run |-> r]]
          /\ life' = [life EXCEPT ![ListingOf[l]] = IF @ = "none" THEN "CANDIDATE" ELSE @]
      BY <2>2 DEF Normalize
    <3>2. /\ life' \in [Listings -> {"none", "CANDIDATE", "ACTIVE", "INACTIVE"}]
          /\ \A x \in Listings : life'[x] = "INACTIVE" <=> life[x] = "INACTIVE"
      BY <2>1, <3>1, DisappearanceAssumption DEF DisappearanceAssumption
    <3>3. [status |-> "ACTIVE", run |-> r] \in LinkRow
      BY <1>3 DEF LinkRow
    <3>4. link[l].run = 0 /\ link[l].status = "none"
      BY <2>2 DEF NoLink
    <3>5. /\ link' \in [Links -> LinkRow] /\ \A k \in Links \ {l} : link'[k] = link[k]
          /\ link'[l] = [status |-> "ACTIVE", run |-> r]
      BY <1>3, <3>1, <3>3
    <3>6. link'[l].run = r /\ link'[l].status = "ACTIVE"
      BY <3>5
    <3> QED BY <1>2, <1>3, <3>2, <3>4, <3>5, <3>6
  <2>3. CASE link[l] # NoLink
    <3>1. link' = [link EXCEPT ![l] = Touched(l, r)] /\ life' = life
      BY <2>3 DEF Normalize
    <3>2. link[l].status # "none" /\ link[l].run # 0 /\ l \in runs[link[l].run].seen
      BY <1>3, <2>3 DEF IInv, TypeOK
    <3>3. CASE r >= link[l].run
      <4>1. Touched(l, r) = [link[l] EXCEPT !.run = r]
        BY <3>3 DEF Touched
      <4>2. /\ [link[l] EXCEPT !.run = r] \in LinkRow
            /\ [link[l] EXCEPT !.run = r].run = r
            /\ [link[l] EXCEPT !.run = r].status = link[l].status
        BY <1>3 DEF LinkRow
      <4>3. /\ link' \in [Links -> LinkRow] /\ \A k \in Links \ {l} : link'[k] = link[k]
            /\ link'[l] = Touched(l, r)
        BY <1>3, <3>1, <4>1, <4>2
      <4>4. link'[l].run = r /\ link'[l].status = link[l].status
        BY <4>1, <4>2, <4>3
      <4> QED BY <1>2, <1>3, <2>1, <3>1, <3>2, <3>3, <4>3, <4>4
    <3>4. CASE ~(r >= link[l].run)
      <4>1. Touched(l, r) = link[l]
        BY <3>4 DEF Touched
      <4>2. link' = link
        BY <1>3, <3>1, <4>1
      <4> QED BY <1>3, <2>1, <3>1, <3>2, <3>4, <4>2
    <3> QED BY <3>3, <3>4
  <2> QED BY <2>2, <2>3
<1>5. TypeOK'
  <2>1. link'[l].status # "none"
    BY <1>3, <1>4
  <2>2. \A k \in Links : IF link'[k].status = "none" THEN link'[k].run = 0
                         ELSE link'[k].run # 0 /\ k \in runs[link'[k].run].seen
    BY <1>4, <2>1 DEF IInv, TypeOK
  <2>3. pending' \subseteq (1 .. Len(runs)) \X Links
    BY <1>1 DEF IInv, TypeOK
  <2> QED BY <1>1, <1>4, <2>2, <2>3 DEF IInv, TypeOK, LinkRow
<1>6. InOrder' /\ Captured'
  BY <1>1 DEF IInv, InOrder, Captured, Finished
<1>7. Fresh'
  <2> SUFFICES ASSUME NEW q \in Finished, NEW k \in runs[q].seen
               PROVE  <<q, k>> \in pending' \/ q <= link'[k].run
    BY <1>1 DEF Fresh, Finished
  <2>1. k \in Links
    <3>1. runs[q] \in Run
      BY Tables DEF IInv
    <3> QED BY <3>1 DEF Run
  <2>2. CASE q = r /\ k = l
    BY <1>4, <2>2
  <2>3. CASE ~(q = r /\ k = l)
    <3>1. <<q, k>> \in pending \/ q <= link[k].run
      BY DEF IInv, Fresh
    <3>2. <<q, k>> \in pending => <<q, k>> \in pending'
      BY <1>1, <2>3
    <3>3. q \in Nat /\ link'[k].run \in Nat /\ link[k].run \in Nat
      BY <1>3, <1>4, <2>1 DEF Finished, LinkRow
    <3>4. q <= link[k].run => q <= link'[k].run
      BY <1>4, <2>1, <3>3
    <3> QED BY <3>1, <3>2, <3>4
  <2> QED BY <2>2, <2>3
<1>8. ~(~disorderly' /\ processed' # 0 /\ processed' = Len(runs'))
  BY <1>1 DEF IInv, Drained
<1>9. HistoryTellsEverything'
  <2>1. \A k \in Links : link'[k].status = "MISSING" => link[k].status = "MISSING"
    BY <1>4
  <2> QED BY <1>1, <1>4, <2>1 DEF IInv, HistoryTellsEverything
<1> QED BY <1>5, <1>6, <1>7, <1>8, <1>9 DEF IInv, Drained, StatusTellsTheLatestRun

\* What processing makes of a link, and of the listings.
LEMMA Processed ==
    ASSUME IInv, NEW r \in Finished, ProcessSourceRun(r)
    PROVE  /\ UNCHANGED <<now, runs, pending>> /\ processed' = r
           /\ disorderly' = (disorderly \/ r # Len(runs) \/ pending # {})
           /\ link' \in [Links -> LinkRow]
           /\ \A l \in Links : /\ link'[l].status = StatusAfter(l, r)
                               /\ link'[l].run = link[l].run
           /\ life' \in [Listings -> {"none", "CANDIDATE", "ACTIVE", "INACTIVE"}]
           /\ \A x \in Listings :
                 life'[x] = IF x \in Inactivated(r) THEN "INACTIVE" ELSE life[x]
           /\ events' = events \cup Emitted(r)
<1>1. /\ UNCHANGED <<now, runs, pending>> /\ processed' = r
      /\ disorderly' = (disorderly \/ r # Len(runs) \/ pending # {})
      /\ link' = [l \in Links |-> [link[l] EXCEPT !.status = StatusAfter(l, r)]]
      /\ life' = [x \in Listings |-> IF x \in Inactivated(r) THEN "INACTIVE" ELSE life[x]]
      /\ events' = events \cup Emitted(r)
  BY DEF ProcessSourceRun
<1>2. ASSUME NEW l \in Links
      PROVE  /\ [link[l] EXCEPT !.status = StatusAfter(l, r)] \in LinkRow
             /\ [link[l] EXCEPT !.status = StatusAfter(l, r)].status = StatusAfter(l, r)
             /\ [link[l] EXCEPT !.status = StatusAfter(l, r)].run = link[l].run
  <2>1. link[l] \in LinkRow /\ link[l].status \in {"none", "ACTIVE", "MISSING", "REMOVED"}
    BY Tables DEF IInv
  <2>2. StatusAfter(l, r) \in {"none", "ACTIVE", "MISSING", "REMOVED"}
    BY <2>1 DEF StatusAfter
  <2> QED BY <2>1, <2>2 DEF LinkRow
<1>3. link' \in [Links -> LinkRow]
      /\ \A l \in Links : link'[l].status = StatusAfter(l, r) /\ link'[l].run = link[l].run
  BY <1>1, <1>2
<1>4. life' \in [Listings -> {"none", "CANDIDATE", "ACTIVE", "INACTIVE"}]
      /\ \A x \in Listings : life'[x] = IF x \in Inactivated(r) THEN "INACTIVE" ELSE life[x]
  BY <1>1 DEF IInv, TypeOK
<1> QED BY <1>1, <1>3, <1>4

\* With nothing waiting, a link points to the last run that captured it.
LEMMA LatestObservation ==
    ASSUME IInv, pending = {}, NEW l \in Links, link[l].status # "none"
    PROVE  /\ link[l].run \in Finished /\ l \in runs[link[l].run].seen
           /\ \A q \in Finished : l \in runs[q].seen => q <= link[l].run
  BY Tables DEF IInv, TypeOK, Fresh

\* With nothing waiting, the runs the code counts by time are those that missed
\* the link, and the time it counts from is that of the last capture.
LEMMA CountsAgree ==
    ASSUME IInv, pending = {}, NEW l \in Links, link[l].status # "none"
    PROVE  /\ MissedBy(l) = {q \in 1 .. Len(runs) : runs[q].passed
                                                  /\ runs[q].at > runs[link[l].run].at}
           /\ LastCapture(l) = link[l].run /\ link[l].run \in Finished
           /\ l \in runs[link[l].run].seen
<1> DEFINE k == link[l].run
<1>1. /\ k \in Finished /\ l \in runs[k].seen
      /\ \A q \in Finished : l \in runs[q].seen => q <= k
  BY LatestObservation
<1>2. /\ Len(runs) \in Nat /\ \A q \in Finished : runs[q].at \in Nat
      /\ \A p, q \in Finished : p < q => runs[p].at < runs[q].at
  BY Tables DEF IInv, InOrder, Run
<1> HIDE DEF k
<1>3. ASSUME NEW q \in Finished
      PROVE  runs[q].at > runs[k].at <=> \A p \in q .. Len(runs) : l \notin runs[p].seen
  <2>1. runs[q].at > runs[k].at <=> q > k
    BY <1>1, <1>2 DEF Finished
  <2>2. q > k => \A p \in q .. Len(runs) : l \notin runs[p].seen
    BY <1>1, <1>2 DEF Finished
  <2>3. q <= k => k \in q .. Len(runs)
    BY <1>1, <1>2 DEF Finished
  <2>4. q > k \/ q <= k
    BY <1>1, <1>2 DEF Finished
  <2> QED BY <1>1, <2>1, <2>2, <2>3, <2>4
<1>4. MissedBy(l) = {q \in 1 .. Len(runs) : runs[q].passed /\ runs[q].at > runs[k].at}
  BY <1>3 DEF MissedBy, Finished
<1>5. LastCapture(l) = k
  <2> DEFINE Last(q) == l \in runs[q].seen /\ \A p \in q + 1 .. Len(runs) : l \notin runs[p].seen
  <2>1. Last(k)
    BY <1>1, <1>2 DEF Finished
  <2>2. ASSUME NEW q \in 1 .. Len(runs), Last(q) PROVE q = k
    <3>1. q <= k
      BY <1>1, <2>2 DEF Finished
    <3>2. q < k => k \in q + 1 .. Len(runs)
      BY <1>1, <1>2 DEF Finished
    <3> QED BY <1>1, <1>2, <2>2, <3>1, <3>2 DEF Finished
  <2>3. k \in 1 .. Len(runs)
    BY <1>1 DEF Finished
  <2> QED BY <2>1, <2>2, <2>3 DEF LastCapture
<1> QED BY <1>1, <1>4, <1>5 DEF k

LEMMA ProcessSourceRunKeeps == ASSUME IInv, NEW r \in Finished, ProcessSourceRun(r) PROVE IInv'
<1>1. /\ UNCHANGED <<now, runs, pending>> /\ processed' = r
      /\ disorderly' = (disorderly \/ r # Len(runs) \/ pending # {})
      /\ events' = events \cup Emitted(r)
  BY Processed
<1>2. /\ link' \in [Links -> LinkRow]
      /\ \A l \in Links : link'[l].status = StatusAfter(l, r) /\ link'[l].run = link[l].run
  BY Processed
<1>3. /\ life' \in [Listings -> {"none", "CANDIDATE", "ACTIVE", "INACTIVE"}]
      /\ \A x \in Listings : life'[x] = IF x \in Inactivated(r) THEN "INACTIVE" ELSE life[x]
  BY Processed
<1>4. Len(runs) \in Nat /\ r \in 1 .. Len(runs) /\ r # 0
  BY Tables DEF IInv, Finished
<1>5. TypeOK'
  <2>1. ASSUME NEW l \in Links
        PROVE  IF link'[l].status = "none" THEN link'[l].run = 0
               ELSE link'[l].run # 0 /\ l \in runs[link'[l].run].seen
    <3>1. StatusAfter(l, r) = "none" <=> link[l].status = "none"
      BY DEF StatusAfter, Considered
    <3> QED BY <1>2, <3>1 DEF IInv, TypeOK
  <2>2. Emitted(r) \subseteq Listings \X {"MISSING_STARTED", "INACTIVATED"} \X (0 .. Len(runs))
    <3>1. Inactivated(r) \subseteq Listings /\ WentMissing(r) \subseteq Links
      BY DEF Inactivated, Eligible, WentMissing
    <3>2. 0 \in 0 .. Len(runs) /\ r \in 0 .. Len(runs)
      BY <1>4
    <3> QED BY <3>1, <3>2, DisappearanceAssumption DEF Emitted, DisappearanceAssumption
  <2>3. events' \subseteq Listings \X {"MISSING_STARTED", "INACTIVATED"} \X (0 .. Len(runs))
    BY <1>1, <2>2 DEF IInv, TypeOK
  <2>4. processed' \in 0 .. Len(runs) /\ disorderly' \in BOOLEAN
    BY <1>1, <1>4
  <2> QED BY <1>1, <1>2, <1>3, <2>1, <2>3, <2>4 DEF IInv, TypeOK, LinkRow
<1>6. InOrder' /\ Captured'
  BY <1>1 DEF IInv, InOrder, Captured, Finished
<1>7. Fresh'
  <2>1. \A q \in Finished : runs[q].seen \subseteq Links
    BY Tables DEF IInv, Run
  <2> QED BY <1>1, <1>2, <2>1 DEF IInv, Fresh, Finished
<1>8. Drained'
  BY <1>1 DEF Drained
<1>9. StatusTellsTheLatestRun'
  <2> SUFFICES ASSUME ~disorderly', NEW l \in Links, Considered(l)'
               PROVE  link'[l].status = "ACTIVE" <=> l \in runs[r].seen
    BY <1>1 DEF StatusTellsTheLatestRun
  <2>1. r = Len(runs) /\ pending = {}
    BY <1>1
  <2>2. Considered(l)
    BY <1>2 DEF Considered, StatusAfter
  <2>3. link'[l].status = "ACTIVE" <=> link[l].run = r
    BY <1>2, <2>2 DEF StatusAfter, Observed
  <2>4. /\ link[l].run \in Finished /\ l \in runs[link[l].run].seen
        /\ l \in runs[r].seen => r <= link[l].run
    BY <2>1, <2>2, LatestObservation DEF Considered
  <2>5. link[l].run = r <=> l \in runs[r].seen
    BY <1>4, <2>1, <2>4 DEF Finished
  <2> QED BY <2>3, <2>5
<1>10. HistoryTellsEverything'
  <2>1. ASSUME NEW x \in Listings
        PROVE  life'[x] = "INACTIVE" <=> <<x, "INACTIVATED", 0>> \in events'
    <3>1. <<x, "INACTIVATED", 0>> \in Emitted(r) <=> x \in Inactivated(r)
      BY DEF Emitted
    <3> QED BY <1>1, <1>3, <3>1 DEF IInv, HistoryTellsEverything
  <2>2. ASSUME NEW l \in Links, link'[l].status = "MISSING"
        PROVE  \E q \in Finished : <<ListingOf[l], "MISSING_STARTED", q>> \in events'
    <3>1. link[l].status \in {"ACTIVE", "MISSING"}
      BY <1>2, <2>2 DEF StatusAfter, Considered
    <3>2. CASE link[l].status = "ACTIVE"
      <4>1. l \in WentMissing(r)
        BY <1>2, <2>2, <3>2 DEF WentMissing
      <4>2. <<ListingOf[l], "MISSING_STARTED", r>> \in events'
        BY <1>1, <4>1 DEF Emitted
      <4> QED BY <4>2
    <3>3. CASE link[l].status = "MISSING"
      BY <1>1, <3>3 DEF IInv, HistoryTellsEverything, Finished
    <3> QED BY <3>1, <3>2, <3>3
  <2> QED BY <1>1, <2>1, <2>2 DEF HistoryTellsEverything, Finished
<1> QED BY <1>5, <1>6, <1>7, <1>8, <1>9, <1>10 DEF IInv

LEMMA StutterKeeps == IInv /\ UNCHANGED disappearanceVars => IInv'
<1> SUFFICES ASSUME IInv, UNCHANGED disappearanceVars PROVE IInv'
  OBVIOUS
<1>1. UNCHANGED <<now, runs, pending, link, life, events, processed, disorderly>>
  BY DEF disappearanceVars
<1>2. TypeOK' /\ InOrder' /\ Fresh' /\ Captured' /\ Drained'
  BY <1>1 DEF IInv, TypeOK, InOrder, Fresh, Captured, Drained, Finished
<1>3. StatusTellsTheLatestRun' /\ HistoryTellsEverything'
  BY <1>1 DEF IInv, StatusTellsTheLatestRun, HistoryTellsEverything, Considered
<1> QED BY <1>2, <1>3 DEF IInv

-----------------------------------------------------------------------------
(* The theorems.                                                            *)

\* The inductive invariant holds in every reachable state.
THEOREM Invariance == Spec => []IInv
<1>1. IInv /\ [Next]_disappearanceVars => IInv'
  <2> SUFFICES ASSUME IInv, [Next]_disappearanceVars PROVE IInv'
    OBVIOUS
  <2>1. CASE Tick
    BY <2>1, TickKeeps
  <2>2. ASSUME NEW seen \in SUBSET Links, NEW passed \in BOOLEAN, RunSource(seen, passed)
        PROVE  IInv'
    BY <2>2, RunSourceKeeps
  <2>3. ASSUME NEW r \in 1 .. Len(runs), NEW l \in Links, Normalize(r, l) PROVE IInv'
    BY <2>3, NormalizeKeeps DEF Finished
  <2>4. ASSUME NEW x \in Listings, Admit(x) PROVE IInv'
    BY <2>4, AdmitKeeps
  <2>5. ASSUME NEW r \in 1 .. Len(runs), ProcessSourceRun(r) PROVE IInv'
    BY <2>5, ProcessSourceRunKeeps DEF Finished
  <2>6. CASE UNCHANGED disappearanceVars
    BY <2>6, StutterKeeps
  <2> QED BY <2>1, <2>2, <2>3, <2>4, <2>5, <2>6 DEF Next
<1> QED BY InitIInv, <1>1, PTL DEF Spec

\* Every link that exists points to a run that captured it (normalization.py:604-610).
THEOREM TypeCorrect == Spec => []TypeOK
BY Invariance, PTL DEF IInv

\* disappearance.py:7, the statuses of the links tell who was in the latest run.
THEOREM LatestRunTells == Spec => []StatusTellsTheLatestRun
BY Invariance, PTL DEF IInv

\* disappearance.py:12, the history says what went missing or inactive.
THEOREM HistoryIsComplete == Spec => []HistoryTellsEverything
BY Invariance, PTL DEF IInv

\* disappearance.py:8-9, two healthy runs in a row and 36 hours justify a removal.
THEOREM RemovalJustified == Spec => RemovedAfterTwoMisses
<1> DEFINE Justified ==
        \A l \in Links :
            /\ link[l].status # "REMOVED" /\ link'[l].status = "REMOVED" /\ ~disorderly'
            => /\ Cardinality(MissedBy(l)) >= RemovalConsecutiveMisses
               /\ now - runs[LastCapture(l)].at >= MinElapsed
<1>1. IInv /\ [Next]_disappearanceVars => [Justified]_disappearanceVars
  <2> SUFFICES ASSUME IInv, Next, NEW l \in Links,
                      link[l].status # "REMOVED", link'[l].status = "REMOVED", ~disorderly'
               PROVE  /\ Cardinality(MissedBy(l)) >= RemovalConsecutiveMisses
                      /\ now - runs[LastCapture(l)].at >= MinElapsed
    OBVIOUS
  <2>1. \E r \in Finished : ProcessSourceRun(r)
    <3>1. ~Tick /\ ~\E x \in Listings : Admit(x)
      BY DEF Tick, Admit
    <3>2. ~\E seen \in SUBSET Links, passed \in BOOLEAN : RunSource(seen, passed)
      BY DEF RunSource
    <3>3. ASSUME NEW r \in Finished, NEW k \in Links, Normalize(r, k) PROVE FALSE
      <4>1. link \in [Links -> LinkRow] /\ link[l] \in LinkRow
        BY Tables DEF IInv
      <4>2. CASE link[k] = NoLink
        BY <3>3, <4>1, <4>2 DEF Normalize
      <4>3. CASE link[k] # NoLink
        <5>1. link' = [link EXCEPT ![k] = Touched(k, r)]
          BY <3>3, <4>3 DEF Normalize
        <5>2. Touched(l, r).status = link[l].status
          BY <4>1 DEF Touched, LinkRow
        <5> QED BY <4>1, <5>1, <5>2
      <4> QED BY <4>2, <4>3
    <3> QED BY <3>1, <3>2, <3>3 DEF Next, Finished
  <2>2. PICK r \in Finished : ProcessSourceRun(r)
    BY <2>1
  <2>3. pending = {} /\ Removable(l) /\ link[l].status # "none"
    BY <2>2, Processed DEF StatusAfter, Considered
  <2> QED BY <2>3, CountsAgree DEF Removable, HealthyRunsSince
<1> QED BY <1>1, Invariance, PTL DEF Spec, RemovedAfterTwoMisses

\* disappearance.py:15-17, a pass inactivates all it would, or nothing.
THEOREM BreakerHolds == Spec => AllOrNothing
<1> DEFINE Whole ==
        LET gone == {x \in Listings : life[x] # "INACTIVE" /\ life'[x] = "INACTIVE"}
            left == {x \in Listings : /\ life'[x] \in {"ACTIVE", "CANDIDATE"}
                                      /\ x \notin Overridden
                                      /\ \A l \in LinksOfListing(x) : link'[l].status = "REMOVED"}
        IN gone # {} => left = {}
<1>1. IInv /\ [Next]_disappearanceVars => [Whole]_disappearanceVars
  <2> SUFFICES ASSUME IInv, Next, NEW x \in Listings, life[x] # "INACTIVE", life'[x] = "INACTIVE",
                      NEW y \in Listings, life'[y] \in {"ACTIVE", "CANDIDATE"},
                      y \notin Overridden,
                      \A l \in LinksOfListing(y) : link'[l].status = "REMOVED"
               PROVE  FALSE
    OBVIOUS
  <2>1. life \in [Listings -> {"none", "CANDIDATE", "ACTIVE", "INACTIVE"}]
    BY DEF IInv, TypeOK
  <2>2. \E r \in Finished : ProcessSourceRun(r)
    BY <2>1 DEF Next, Tick, RunSource, Normalize, Admit, Finished
  <2>3. PICK r \in Finished : ProcessSourceRun(r)
    BY <2>2
  <2>4. /\ \A z \in Listings : life'[z] = IF z \in Inactivated(r) THEN "INACTIVE" ELSE life[z]
        /\ \A l \in Links : link'[l].status = StatusAfter(l, r)
    BY <2>3, Processed
  <2>5. x \in Inactivated(r) /\ y \notin Inactivated(r)
    BY <2>4
  <2>6. Inactivated(r) = Eligible(r)
    BY <2>5 DEF Inactivated
  <2>7. y \in Eligible(r)
    BY <2>4, <2>5 DEF Eligible, LinksOfListing
  <2> QED BY <2>5, <2>6, <2>7
<1> QED BY <1>1, Invariance, PTL DEF Spec, AllOrNothing

-----------------------------------------------------------------------------
(* Disappearance implements Presence.                                       *)

LEMMA LeastElement ==
    ASSUME NEW T, T \subseteq Nat, T # {} PROVE \E m \in T : \A k \in T : m <= k
<1> DEFINE Initial == {1 .. m : m \in T}
           Order == StrictSubsetOrdering(Nat)
<1>1. IsWellFoundedOn(Order, FiniteSubsetsOf(Nat))
  BY FS_StrictSubsetOrderingWellFounded
<1>2. Initial \subseteq FiniteSubsetsOf(Nat)
  BY FS_Interval DEF FiniteSubsetsOf
<1>3. Initial # {}
  OBVIOUS
<1>4. PICK x \in Initial : \A y \in Initial : ~ (<<y, x>> \in Order)
  <2> HIDE DEF Order, Initial
  <2> QED BY <1>1, <1>2, <1>3, WFMin
<1>5. PICK m \in T : x = 1 .. m
  OBVIOUS
<1>6. ASSUME NEW k \in T, k < m PROVE FALSE
  <2>1. 1 .. k \in Initial /\ 1 .. k \subseteq 1 .. m /\ m \in 1 .. m /\ m \notin 1 .. k
    BY <1>6
  <2>2. <<1 .. k, 1 .. m>> \in Order
    BY <2>1 DEF StrictSubsetOrdering
  <2> QED BY <2>1, <2>2, <1>4, <1>5
<1> QED BY <1>6

LEMMA GreatestElement ==
    ASSUME NEW n \in Nat, NEW T, T \subseteq 1 .. n, T # {} PROVE \E m \in T : \A k \in T : k <= m
<1> DEFINE Behind == {n - k : k \in T}
<1>1. Behind \subseteq Nat /\ Behind # {}
  OBVIOUS
<1>2. PICK d \in Behind : \A e \in Behind : d <= e
  <2> HIDE DEF Behind
  <2> QED BY <1>1, LeastElement
<1>3. PICK m \in T : d = n - m
  OBVIOUS
<1>4. ASSUME NEW k \in T PROVE k <= m
  <2>1. n - m <= n - k
    BY <1>2, <1>3
  <2> QED BY <2>1
<1> QED BY <1>4

\* MissedBy, LastCapture and FoundAt as functions of a sequence of runs.
Capturing(rs, l) == {r \in 1 .. Len(rs) : l \in rs[r].seen}
MissedIn(rs, l) ==
    {r \in 1 .. Len(rs) : rs[r].passed /\ \A q \in r .. Len(rs) : l \notin rs[q].seen}
IsLast(rs, l, k) ==
    k \in 1 .. Len(rs) /\ l \in rs[k].seen /\ \A q \in k + 1 .. Len(rs) : l \notin rs[q].seen
FoundIn(rs, l) ==
    IF \E r \in 1 .. Len(rs) : l \in rs[r].seen
      THEN rs[CHOOSE r \in 1 .. Len(rs) :
                l \in rs[r].seen /\ \A q \in r + 1 .. Len(rs) : l \notin rs[q].seen].at
      ELSE 0

LEMMA LastExists ==
    ASSUME NEW rs \in Seq(Run), NEW l, Capturing(rs, l) # {}
    PROVE  \E k : IsLast(rs, l, k)
<1>1. Len(rs) \in Nat
  OBVIOUS
<1>2. PICK k \in Capturing(rs, l) : \A q \in Capturing(rs, l) : q <= k
  BY <1>1, GreatestElement DEF Capturing
<1>3. \A q \in k + 1 .. Len(rs) : l \notin rs[q].seen
  BY <1>1, <1>2 DEF Capturing
<1> QED BY <1>2, <1>3 DEF Capturing, IsLast

LEMMA LastIsUnique ==
    ASSUME NEW rs \in Seq(Run), NEW l, NEW j, NEW k, IsLast(rs, l, j), IsLast(rs, l, k)
    PROVE  j = k
<1>1. Len(rs) \in Nat /\ j \in 1 .. Len(rs) /\ k \in 1 .. Len(rs)
  BY DEF IsLast
<1>2. j < k => k \in j + 1 .. Len(rs)
  BY <1>1
<1>3. k < j => j \in k + 1 .. Len(rs)
  BY <1>1
<1> QED BY <1>1, <1>2, <1>3 DEF IsLast

LEMMA FoundLast ==
    ASSUME NEW rs \in Seq(Run), NEW l, NEW k, IsLast(rs, l, k) PROVE FoundIn(rs, l) = rs[k].at
<1> DEFINE Last(q) == l \in rs[q].seen /\ \A p \in q + 1 .. Len(rs) : l \notin rs[p].seen
<1>1. \A q \in 1 .. Len(rs) : Last(q) => q = k
  BY LastIsUnique DEF IsLast
<1>2. (CHOOSE q \in 1 .. Len(rs) : Last(q)) = k
  BY <1>1 DEF IsLast
<1> QED BY <1>2 DEF FoundIn, IsLast

LEMMA NeverFound ==
    ASSUME NEW rs, NEW l, Capturing(rs, l) = {} PROVE FoundIn(rs, l) = 0
BY DEF FoundIn, Capturing

LEMMA MissedFinite ==
    ASSUME NEW rs \in Seq(Run), NEW l
    PROVE  /\ MissedIn(rs, l) \subseteq 1 .. Len(rs) /\ IsFiniteSet(MissedIn(rs, l))
           /\ Cardinality(MissedIn(rs, l)) \in Nat
<1>1. MissedIn(rs, l) \subseteq 1 .. Len(rs)
  BY DEF MissedIn
<1>2. IsFiniteSet(1 .. Len(rs))
  <2>1. 1 \in Int /\ Len(rs) \in Int
    OBVIOUS
  <2> QED BY <2>1, FS_Interval
<1>3. IsFiniteSet(MissedIn(rs, l))
  BY <1>1, <1>2, FS_Subset
<1> QED BY <1>1, <1>3, FS_CardinalityType

\* The counter of misses and the time of the last capture, over a further run.
LEMMA ScanCounts ==
    ASSUME NEW rs \in Seq(Run), NEW run \in Run, NEW l, NEW ss, ss = Append(rs, run)
    PROVE  /\ Cardinality(MissedIn(ss, l)) =
                IF l \in run.seen THEN 0
                ELSE IF run.passed THEN Cardinality(MissedIn(rs, l)) + 1
                ELSE Cardinality(MissedIn(rs, l))
           /\ FoundIn(ss, l) = IF l \in run.seen THEN run.at ELSE FoundIn(rs, l)
<1> DEFINE n == Len(rs)
<1>1. /\ n \in Nat /\ ss \in Seq(Run) /\ Len(ss) = n + 1 /\ ss[n + 1] = run
      /\ \A r \in 1 .. n : ss[r] = rs[r]
  BY Appended
<1> HIDE DEF n
<1>2. 1 .. Len(ss) = (1 .. n) \cup {n + 1}
  BY <1>1
<1>3. \A r \in 1 .. n + 1 : r .. n + 1 = (r .. n) \cup {n + 1}
  BY <1>1
<1>4. CASE l \in run.seen
  <2>1. \A r \in 1 .. Len(ss) : n + 1 \in r .. Len(ss) /\ l \in ss[n + 1].seen
    BY <1>1, <1>4
  <2>2. MissedIn(ss, l) = {}
    BY <2>1 DEF MissedIn
  <2>3. IsLast(ss, l, n + 1)
    BY <1>1, <1>4 DEF IsLast
  <2>4. Cardinality(MissedIn(ss, l)) = 0
    BY <2>2, FS_EmptySet
  <2>5. FoundIn(ss, l) = ss[n + 1].at
    BY <1>1, <2>3, FoundLast
  <2> QED BY <1>1, <1>4, <2>4, <2>5
<1>5. CASE l \notin run.seen
  <2>1. ASSUME NEW r \in 1 .. n
        PROVE  (\A q \in r .. Len(ss) : l \notin ss[q].seen)
                  <=> (\A q \in r .. n : l \notin rs[q].seen)
    <3>1. \A q \in r .. n : q \in 1 .. n /\ ss[q] = rs[q]
      BY <1>1
    <3>2. r .. Len(ss) = (r .. n) \cup {n + 1}
      BY <1>1, <1>3
    <3> QED BY <1>1, <1>5, <3>1, <3>2
  <2>2. \A q \in n + 1 .. Len(ss) : l \notin ss[q].seen
    BY <1>1, <1>5
  <2>3. \A r \in 1 .. n : r \in MissedIn(ss, l) <=> r \in MissedIn(rs, l)
    BY <1>1, <1>2, <2>1 DEF MissedIn, n
  <2>4. n + 1 \in MissedIn(ss, l) <=> run.passed
    BY <1>1, <1>2, <2>2 DEF MissedIn
  <2>5. MissedIn(ss, l) \subseteq (1 .. n) \cup {n + 1} /\ MissedIn(rs, l) \subseteq 1 .. n
    BY <1>2 DEF MissedIn, n
  <2>6. run.passed => MissedIn(ss, l) = MissedIn(rs, l) \cup {n + 1}
    BY <2>3, <2>4, <2>5
  <2>7. ~run.passed => MissedIn(ss, l) = MissedIn(rs, l)
    BY <2>3, <2>4, <2>5
  <2>8. ASSUME NEW k, IsLast(rs, l, k) PROVE IsLast(ss, l, k)
    <3>1. k \in 1 .. n /\ l \in rs[k].seen /\ \A q \in k + 1 .. n : l \notin rs[q].seen
      BY <2>8 DEF IsLast, n
    <3>2. ASSUME NEW q \in k + 1 .. Len(ss) PROVE l \notin ss[q].seen
      BY <1>1, <1>5, <3>1
    <3> QED BY <1>1, <1>2, <3>1, <3>2 DEF IsLast
  <2>9. Capturing(ss, l) = Capturing(rs, l)
    BY <1>1, <1>2, <1>5 DEF Capturing, n
  <2>10. FoundIn(ss, l) = FoundIn(rs, l)
    <3>1. CASE Capturing(rs, l) = {}
      BY <2>9, <3>1, NeverFound
    <3>2. CASE Capturing(rs, l) # {}
      <4>1. PICK k : IsLast(rs, l, k)
        BY <3>2, LastExists
      <4>2. FoundIn(ss, l) = ss[k].at /\ FoundIn(rs, l) = rs[k].at
        BY <1>1, <2>8, <4>1, FoundLast
      <4>3. k \in 1 .. n
        BY <4>1 DEF IsLast, n
      <4> QED BY <1>1, <4>2, <4>3
    <3> QED BY <3>1, <3>2
  <2>11. run.passed => Cardinality(MissedIn(ss, l)) = Cardinality(MissedIn(rs, l)) + 1
    <3>1. n + 1 \notin MissedIn(rs, l)
      BY <1>1, <2>5
    <3>2. Cardinality(MissedIn(rs, l) \cup {n + 1})
            = IF n + 1 \in MissedIn(rs, l) THEN Cardinality(MissedIn(rs, l))
              ELSE Cardinality(MissedIn(rs, l)) + 1
      BY MissedFinite, FS_AddElement
    <3> QED BY <2>6, <3>1, <3>2
  <2> QED BY <1>5, <2>7, <2>10, <2>11
<1> QED BY <1>4, <1>5

\* The mapping reads the runs only, for what was scanned.
LEMMA MappedRuns ==
    /\ \A l : MissedBy(l) = MissedIn(runs, l) /\ FoundAt(l) = FoundIn(runs, l)
    /\ \A l \in Links : MissedBy(l)' = MissedIn(runs', l) /\ FoundAt(l)' = FoundIn(runs', l)
<1>1. \A l : MissedBy(l) = MissedIn(runs, l)
  BY DEF MissedBy, MissedIn
<1>2. \A l : FoundAt(l) = FoundIn(runs, l)
  BY DEF FoundAt, FoundIn, LastCapture
<1>3. \A l \in Links : MissedBy(l)' = MissedIn(runs', l)
  BY DEF MissedBy, MissedIn
<1>4. \A l \in Links : FoundAt(l)' = FoundIn(runs', l)
  BY DEF FoundAt, FoundIn, LastCapture
<1> QED BY <1>1, <1>2, <1>3, <1>4

LEMMA NoScan ==
    ASSUME UNCHANGED runs
    PROVE  UNCHANGED <<Latest, [l \in Links |-> Cardinality(MissedBy(l))],
                       [l \in Links |-> FoundAt(l)]>>
<1>1. UNCHANGED Latest
  BY DEF Latest
<1>2. \A l \in Links : UNCHANGED <<MissedBy(l), FoundAt(l)>>
  BY MappedRuns
<1> QED BY <1>1, <1>2

LEMMA TickWaits == IInv /\ Tick => Promise!Wait
<1> SUFFICES ASSUME IInv, Tick PROVE Promise!Wait
  OBVIOUS
<1>1. now' = now + 1 /\ UNCHANGED <<runs, link, life, disorderly>>
  BY DEF Tick
<1> QED BY <1>1, NoScan DEF Promise!Wait

LEMMA RunSourceScans ==
    ASSUME IInv, NEW seen \in SUBSET Links, NEW passed \in BOOLEAN, RunSource(seen, passed)
    PROVE  Promise!Scan(seen, passed)
<1> DEFINE run == [at |-> now', passed |-> passed, seen |-> seen]
<1>1. now' = now + 1 /\ runs' = Append(runs, run) /\ UNCHANGED <<link, life, disorderly>>
  BY DEF RunSource
<1>2. runs \in Seq(Run) /\ Len(runs) \in Nat
  BY Tables DEF IInv
<1>3. run \in Run /\ run.at = now' /\ run.seen = seen /\ run.passed = passed
  <2>1. now' \in 1 .. MaxTime
    BY DisappearanceAssumption DEF RunSource, IInv, TypeOK, DisappearanceAssumption
  <2> QED BY <2>1 DEF Run
<1> HIDE DEF run
<1>4. Latest' = [found |-> seen, healthy |-> passed]
  <2>1. Len(runs') = Len(runs) + 1 /\ runs'[Len(runs')] = run /\ Len(runs') # 0
    BY <1>1, <1>2, <1>3, Appended
  <2> QED BY <1>3, <2>1 DEF Latest
<1>5. \A l \in Links : /\ Cardinality(MissedBy(l)') =
                             IF l \in seen THEN 0
                             ELSE IF passed THEN Cardinality(MissedBy(l)) + 1
                             ELSE Cardinality(MissedBy(l))
                       /\ FoundAt(l)' = IF l \in seen THEN now' ELSE FoundAt(l)
  <2>1. ASSUME NEW l \in Links
        PROVE  /\ Cardinality(MissedIn(runs', l)) =
                    IF l \in run.seen THEN 0
                    ELSE IF run.passed THEN Cardinality(MissedIn(runs, l)) + 1
                    ELSE Cardinality(MissedIn(runs, l))
               /\ FoundIn(runs', l) = IF l \in run.seen THEN run.at ELSE FoundIn(runs, l)
    BY <1>1, <1>2, <1>3, ScanCounts, Zenon
  <2>2. ASSUME NEW l \in Links
        PROVE  /\ MissedBy(l)' = MissedIn(runs', l) /\ FoundAt(l)' = FoundIn(runs', l)
               /\ MissedBy(l) = MissedIn(runs, l) /\ FoundAt(l) = FoundIn(runs, l)
    BY MappedRuns, Zenon
  <2> QED BY <1>3, <2>1, <2>2
<1> QED BY <1>1, <1>4, <1>5 DEF Promise!Scan

LEMMA NormalizeTakesIn ==
    ASSUME IInv, NEW r \in Finished, NEW l \in Links, Normalize(r, l)
    PROVE  Promise!TakeIn(l) \/ UNCHANGED Promise!presenceVars
<1>1. <<r, l>> \in pending /\ UNCHANGED <<now, runs, disorderly>>
  BY DEF Normalize
<1>2. link \in [Links -> LinkRow] /\ (link[l].status = "none" <=> link[l] = NoLink)
  BY Tables DEF IInv
<1>3. FoundAt(l) # 0
  <2>1. l \in runs[r].seen /\ runs \in Seq(Run)
    BY <1>1, Tables DEF IInv, Captured
  <2>2. PICK k : IsLast(runs, l, k)
    BY <2>1, LastExists DEF Capturing, Finished
  <2>3. FoundAt(l) = runs[k].at
    BY <2>1, <2>2, FoundLast, MappedRuns
  <2>4. runs[k].at \in 1 .. MaxTime
    BY <2>2, Tables DEF IInv, IsLast, Finished, Run
  <2> QED BY <2>3, <2>4
<1>4. CASE link[l] = NoLink
  <2>1. /\ link' = [link EXCEPT ![l] = [status |-> "ACTIVE", run |-> r]]
        /\ life' = [life EXCEPT ![ListingOf[l]] = IF @ = "none" THEN "CANDIDATE" ELSE @]
    BY <1>4 DEF Normalize
  <2>2. [k \in Links |-> link'[k].status]
          = [[k \in Links |-> link[k].status] EXCEPT ![l] = "ACTIVE"]
    BY <1>2, <2>1
  <2>3. Promise!TakeIn(l)
    BY <1>1, <1>2, <1>3, <1>4, <2>1, <2>2, NoScan DEF Promise!TakeIn
  <2> QED BY <2>3
<1>5. CASE link[l] # NoLink
  <2>1. link' = [link EXCEPT ![l] = Touched(l, r)] /\ life' = life
    BY <1>5 DEF Normalize
  <2>2. Touched(l, r).status = link[l].status
    BY <1>2 DEF Touched, LinkRow
  <2>3. \A k \in Links : link'[k].status = link[k].status
    BY <1>2, <2>1, <2>2
  <2>4. UNCHANGED [k \in Links |-> link[k].status]
    BY <2>3
  <2> QED BY <1>1, <2>1, <2>4, NoScan DEF Promise!presenceVars
<1> QED BY <1>4, <1>5

LEMMA AdmitAdvertises == ASSUME IInv, NEW x \in Listings, Admit(x) PROVE Promise!Advertise(x)
<1>1. /\ UNCHANGED <<now, runs, link, disorderly>> /\ life[x] = "CANDIDATE"
      /\ life' = [life EXCEPT ![x] = "ACTIVE"]
  BY DEF Admit
<1>2. \E l \in Links : ListingOf[l] = x /\ link[l].status = "ACTIVE"
  BY DEF Admit, LinksOfListing
<1> QED BY <1>1, <1>2, NoScan DEF Promise!Advertise

\* With nothing waiting, the rules of the code and of the promise agree.
LEMMA JudgedAlike ==
    ASSUME IInv, pending = {}, Len(runs) \in Finished, NEW l \in Links
    PROVE  /\ StatusAfter(l, Len(runs)) = Promise!Judged(l)
           /\ FoundAt(l) # 0 => link[l].status # "none"
<1>1. runs \in Seq(Run) /\ Len(runs) \in Nat /\ Len(runs) # 0
  BY Tables DEF IInv, Finished
<1>2. FoundAt(l) # 0 => link[l].status # "none"
  <2> SUFFICES ASSUME FoundAt(l) # 0, link[l].status = "none" PROVE FALSE
    OBVIOUS
  <2>1. PICK r \in Finished : l \in runs[r].seen
    BY NeverFound, MappedRuns DEF Capturing, Finished
  <2>2. r <= link[l].run
    BY <2>1 DEF IInv, Fresh
  <2>3. link[l].run = 0
    BY DEF IInv, TypeOK
  <2> QED BY <1>1, <2>2, <2>3 DEF Finished
<1>3. Latest.found = runs[Len(runs)].seen
  BY <1>1 DEF Latest
<1>4. CASE ~Considered(l)
  <2>1. link[l].status \in {"none", "REMOVED"}
    BY <1>4, Tables DEF IInv, Considered
  <2> QED BY <1>2, <1>4, <2>1 DEF StatusAfter, Promise!Judged
<1>5. CASE Considered(l)
  <2>1. link[l].status \notin {"none", "REMOVED"}
    BY <1>5 DEF Considered
  <2>2. /\ link[l].run \in Finished /\ l \in runs[link[l].run].seen
        /\ LastCapture(l) = link[l].run
        /\ HealthyRunsSince(l) = Cardinality(MissedBy(l))
    BY <2>1, CountsAgree DEF HealthyRunsSince
  <2>3. FoundAt(l) = runs[link[l].run].at
    BY <2>2 DEF FoundAt, Finished
  <2>4. Observed(l, Len(runs)) <=> l \in Latest.found
    <3>1. l \in runs[Len(runs)].seen => Len(runs) <= link[l].run
      BY <2>1, LatestObservation
    <3> QED BY <1>1, <1>3, <2>2, <3>1 DEF Observed, Finished
  <2>5. Removable(l) <=> Cardinality(MissedBy(l)) >= 2 /\ now - FoundAt(l) >= MinElapsed
    BY <2>2, <2>3 DEF Removable, RemovalConsecutiveMisses
  <2> QED BY <1>2, <1>5, <2>1, <2>4, <2>5 DEF StatusAfter, Promise!Judged
<1> QED BY <1>4, <1>5

LEMMA ProcessSourceRunJudges ==
    ASSUME IInv, NEW r \in Finished, ProcessSourceRun(r)
    PROVE  Promise!Judge \/ disorderly' = TRUE
<1>1. /\ UNCHANGED <<now, runs, pending>>
      /\ disorderly' = (disorderly \/ r # Len(runs) \/ pending # {})
      /\ \A l \in Links : link'[l].status = StatusAfter(l, r)
  BY Processed
<1>2. CASE disorderly \/ r # Len(runs) \/ pending # {}
  BY <1>1, <1>2
<1>3. CASE ~disorderly /\ r = Len(runs) /\ pending = {}
  <2>1. /\ runs[r].passed
        /\ life' = [x \in Listings |-> IF x \in Inactivated(r) THEN "INACTIVE" ELSE life[x]]
    BY DEF ProcessSourceRun
  <2>2. \A l \in Links : /\ StatusAfter(l, r) = Promise!Judged(l)
                         /\ FoundAt(l) # 0 => link[l].status # "none"
    BY <1>3, JudgedAlike
  <2>3. Latest.healthy
    BY <1>3, <2>1, Tables DEF Latest, IInv, Finished
  <2>4. Eligible(r) = Promise!Unsupported
    <3>1. ASSUME NEW l \in Links
          PROVE  link[l] # NoLink /\ StatusAfter(l, r) # "REMOVED"
                   <=> Promise!Judged(l) \notin {"none", "REMOVED"}
      <4>1. link[l].status \in {"none", "ACTIVE", "MISSING", "REMOVED"}
            /\ (link[l].status = "none" <=> link[l] = NoLink)
        BY Tables DEF IInv
      <4>2. StatusAfter(l, r) = "none" <=> link[l] = NoLink
        BY <4>1 DEF StatusAfter, Considered
      <4> QED BY <2>2, <4>2
    <3>2. ASSUME NEW x \in Listings
          PROVE  (\A l \in LinksOfListing(x) : StatusAfter(l, r) = "REMOVED")
                   <=> \A l \in Links : ListingOf[l] = x => Promise!Judged(l) \in {"none", "REMOVED"}
      BY <3>1 DEF LinksOfListing
    <3> QED BY <3>2 DEF Eligible, Promise!Unsupported
  <2>5. Inactivated(r) = {} \/ Inactivated(r) = Promise!Unsupported
    BY <2>4 DEF Inactivated
  <2>6. life' \in {life, [x \in Listings |-> IF x \in Promise!Unsupported THEN "INACTIVE"
                                             ELSE life[x]]}
    <3>1. life = [x \in Listings |-> life[x]]
      BY DEF IInv, TypeOK
    <3>2. CASE Inactivated(r) = {}
      BY <2>1, <3>1, <3>2
    <3>3. CASE Inactivated(r) = Promise!Unsupported
      BY <2>1, <3>3
    <3> QED BY <2>5, <3>2, <3>3
  <2>7. [l \in Links |-> link'[l].status] = [l \in Links |-> Promise!Judged(l)]
    BY <1>1, <2>2
  <2>8. UNCHANGED disorderly
    BY <1>1, <1>3 DEF IInv, TypeOK
  <2>9. Promise!Judge
    BY <1>1, <2>2, <2>3, <2>6, <2>7, <2>8, NoScan DEF Promise!Judge
  <2> QED BY <2>9
<1> QED BY <1>2, <1>3

LEMMA StepKeepsPromise ==
    IInv /\ [Next]_disappearanceVars => [Promise!PresenceNext]_(Promise!presenceVars)
<1> SUFFICES ASSUME IInv, [Next]_disappearanceVars
             PROVE  Promise!PresenceNext \/ UNCHANGED Promise!presenceVars
  OBVIOUS
<1>1. CASE Tick
  BY <1>1, TickWaits DEF Promise!PresenceNext
<1>2. ASSUME NEW seen \in SUBSET Links, NEW passed \in BOOLEAN, RunSource(seen, passed)
      PROVE  Promise!PresenceNext
  BY <1>2, RunSourceScans DEF Promise!PresenceNext
<1>3. ASSUME NEW r \in Finished, NEW l \in Links, Normalize(r, l)
      PROVE  Promise!PresenceNext \/ UNCHANGED Promise!presenceVars
  BY <1>3, NormalizeTakesIn DEF Promise!PresenceNext
<1>4. ASSUME NEW x \in Listings, Admit(x) PROVE Promise!PresenceNext
  BY <1>4, AdmitAdvertises DEF Promise!PresenceNext
<1>5. ASSUME NEW r \in Finished, ProcessSourceRun(r) PROVE Promise!PresenceNext
  BY <1>5, ProcessSourceRunJudges DEF Promise!PresenceNext
<1>6. CASE UNCHANGED disappearanceVars
  <2>1. UNCHANGED <<now, runs, link, life, disorderly>>
    BY <1>6 DEF disappearanceVars
  <2> QED BY <2>1, NoScan DEF Promise!presenceVars
<1> QED BY <1>1, <1>2, <1>3, <1>4, <1>5, <1>6 DEF Next, Finished

\* disappearance.py:5-17, run starts and observation pointers do the work of a
\* counter of misses kept for every advertisement, as long as runs are
\* processed in turn.
THEOREM DisappearanceImplementsPresence == Spec => ImplementsPresence
<1>1. Init => Promise!PresenceInit
  <2> SUFFICES ASSUME Init PROVE Promise!PresenceInit
    OBVIOUS
  <2>1. Len(runs) = 0 /\ runs \in Seq(Run)
    BY DEF Init
  <2>2. ASSUME NEW l \in Links PROVE MissedBy(l) = {} /\ FoundAt(l) = 0
    BY <2>1 DEF MissedBy, FoundAt
  <2>3. \A l \in Links : Cardinality(MissedBy(l)) = 0 /\ FoundAt(l) = 0 /\ link[l].status = "none"
    BY <2>2, FS_EmptySet DEF Init, NoLink
  <2> QED BY <2>1, <2>3 DEF Init, Latest, Promise!PresenceInit
<1> QED BY <1>1, StepKeepsPromise, Invariance, PTL
        DEF Spec, ImplementsPresence, Promise!PresenceSpec
=============================================================================
