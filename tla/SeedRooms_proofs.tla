--------------------------- MODULE SeedRooms_proofs ---------------------------
(***************************************************************************)
(* The report of seed-demo-rooms is true for any number of admins, rooms   *)
(* and demo payloads, with every write that arrives late.                  *)
(***************************************************************************)
EXTENDS SeedRooms, FiniteSetTheorems, TLAPS

\* The payloads a run has dealt with.
Done(a) == {Demo[i] : i \in 1..(next[a] - 1)}

\* Each of them is in one list, and "created" is what was written, except for
\* the room whose answer is on its way.
Accounts(a) ==
    LET r == result[a] IN
    /\ r.created \cup r.skipped \cup r.failed = Done(a)
    /\ r.created \cap r.skipped = {} /\ r.created \cap r.failed = {}
    /\ r.skipped \cap r.failed = {}
    /\ r.skipped \subseteq Present
    /\ dry[a] => wrote[a] = {}
    /\ ~dry[a] /\ answer[a] = "created" => wrote[a] = r.created \cup {sent[a]}
    /\ ~dry[a] /\ answer[a] # "created" => wrote[a] = r.created

RunFits(a) ==
    /\ existing[a] \subseteq Present
    /\ answer[a] # NULL => pc[a] = "posting"
    /\ pc[a] = "listing" => next[a] = 1 /\ result[a] = NoResult /\ wrote[a] = {}
    /\ pc[a] = "posting" =>
         ~dry[a] /\ next[a] <= Len(Demo) /\ sent[a] = Demo[next[a]]
    /\ pc[a] \in {"seeding", "posting", "rendered"} => Accounts(a)
    /\ pc[a] = "rendered" => next[a] = Len(Demo) + 1

IInv == SeedTypeOK /\ \A a \in Admins : RunFits(a)

\* The demo payloads are a finite list of distinct numbers.
LEMMA DemoType ==
    /\ Len(Demo) \in Nat
    /\ \A i \in 1..Len(Demo) : Demo[i] \in DemoNumbers
    /\ \A i, j \in 1..Len(Demo) : Demo[i] = Demo[j] => i = j
    /\ DemoNumbers \subseteq Numbers
    /\ NULL \notin Numbers
  BY SeedAssumption DEF DemoNumbers, Numbers

\* A run that does not move still fits: the backend never loses a room.
LEMMA OthersFit ==
  ASSUME NEW a \in Admins, RunFits(a), SeedTypeOK,
         Present \subseteq Present',
         pc'[a] = pc[a], dry'[a] = dry[a], existing'[a] = existing[a],
         next'[a] = next[a], sent'[a] = sent[a], answer'[a] = answer[a],
         result'[a] = result[a], wrote'[a] = wrote[a]
  PROVE  RunFits(a)'
<1>1. Done(a)' = Done(a)
  BY DEF Done
<1>2. Accounts(a) => Accounts(a)'
  BY <1>1 DEF Accounts
<1> QED BY <1>2 DEF RunFits

\* The next payload is none of those already dealt with.
LEMMA NextIsNew ==
  ASSUME NEW a \in Admins, SeedTypeOK, next[a] <= Len(Demo)
  PROVE  /\ Demo[next[a]] \in DemoNumbers
         /\ Demo[next[a]] \notin Done(a)
         /\ next'[a] = next[a] + 1 => Done(a)' = Done(a) \cup {Demo[next[a]]}
<1>1. next[a] \in 1..Len(Demo)
  BY DemoType DEF SeedTypeOK
<1>2. Demo[next[a]] \notin Done(a)
  BY <1>1, DemoType DEF Done
<1>3. ASSUME next'[a] = next[a] + 1 PROVE Done(a)' = Done(a) \cup {Demo[next[a]]}
  <2>1. Done(a)' = {Demo[i] : i \in 1..next[a]}
    BY <1>1, <1>3, DemoType DEF Done
  <2>2. 1..next[a] = 1..(next[a] - 1) \cup {next[a]}
    BY <1>1, DemoType
  <2> QED BY <2>1, <2>2 DEF Done
<1> QED BY <1>1, <1>2, <1>3, DemoType

\* No run has begun.
LEMMA InitIInv == SeedInit => IInv
<1> SUFFICES ASSUME SeedInit PROVE IInv
  OBVIOUS
<1>1. SeedTypeOK
  BY SeedAssumption, DemoType DEF SeedInit, SeedTypeOK, Steps, SeedResult, NoResult
<1>2. \A a \in Admins : RunFits(a)
  BY DEF SeedInit, RunFits
<1> QED BY <1>1, <1>2 DEF IInv

\* The rooms of the resort only become more.
LEMMA RoomsStay ==
  ASSUME SeedTypeOK, rooms' = rooms \/ \E n \in Numbers : rooms' = [rooms EXCEPT ![n] = @ + 1]
  PROVE  Present \subseteq Present'
  BY DEF SeedTypeOK, Present

\* Nothing of the run has changed.
Untouched(b) ==
    /\ pc'[b] = pc[b] /\ dry'[b] = dry[b] /\ existing'[b] = existing[b]
    /\ next'[b] = next[b] /\ sent'[b] = sent[b] /\ answer'[b] = answer[b]
    /\ result'[b] = result[b] /\ wrote'[b] = wrote[b]

\* One run's step keeps the invariant if that run still fits.
LEMMA OneMoves ==
  ASSUME IInv, NEW a \in Admins, SeedTypeOK', RunFits(a)',
         Present \subseteq Present',
         \A b \in Admins : b # a => Untouched(b)
  PROVE  IInv'
<1>1. ASSUME NEW b \in Admins, b # a PROVE RunFits(b)'
  BY <1>1, OthersFit DEF IInv, Untouched
<1> QED BY <1>1 DEF IInv

\* A new run forgets what the last one reported.
LEMMA StartKeeps ==
  ASSUME IInv, NEW a \in Admins, NEW dryRun \in BOOLEAN, Start(a, dryRun)
  PROVE  IInv'
<1> USE DEF IInv
<1>1. SeedTypeOK /\ RunFits(a)
  OBVIOUS
<1>2. SeedTypeOK'
  BY <1>1, DemoType DEF Start, SeedTypeOK, Steps, SeedResult, NoResult
<1>3. \A b \in Admins : b # a => Untouched(b)
  BY <1>1 DEF Start, Untouched, SeedTypeOK
<1>4. Present' = Present
  BY DEF Start, Present
<1>5. RunFits(a)'
  BY <1>1, <1>4 DEF Start, RunFits, SeedTypeOK
<1> QED BY <1>2, <1>3, <1>4, <1>5, OneMoves

\* What is listed is there.
LEMMA ListedKeeps ==
  ASSUME IInv, NEW a \in Admins, NEW page \in Pages, Listed(a, page)
  PROVE  IInv'
<1> USE DEF IInv
<1>1. SeedTypeOK /\ RunFits(a) /\ page \subseteq Present
  BY DEF Pages
<1>2. SeedTypeOK'
  BY <1>1 DEF Listed, SeedTypeOK, Steps, Present
<1>3. \A b \in Admins : b # a => Untouched(b)
  BY <1>1 DEF Listed, Untouched, SeedTypeOK
<1>4. Present' = Present
  BY DEF Listed, Present
<1>5. RunFits(a)'
  <2>1. /\ next'[a] = 1 /\ result'[a] = NoResult /\ wrote'[a] = {}
        /\ pc'[a] = "seeding" /\ existing'[a] = page /\ answer'[a] = NULL
    BY <1>1 DEF Listed, RunFits, SeedTypeOK
  <2>2. Done(a)' = {}
    BY <2>1 DEF Done
  <2>3. Accounts(a)'
    BY <2>1, <2>2, SeedNull DEF Accounts, NoResult
  <2> QED BY <1>1, <1>4, <2>1, <2>3 DEF RunFits
<1> QED BY <1>2, <1>3, <1>4, <1>5, OneMoves

\* A payload that is not sent enters one list.
LEMMA SkipKeeps ==
  ASSUME IInv, NEW a \in Admins, Skip(a)
  PROVE  IInv'
<1> USE DEF IInv
<1> DEFINE number == Demo[next[a]]
<1>1. SeedTypeOK /\ RunFits(a) /\ Accounts(a)
  BY DEF Skip, RunFits
<1>2. /\ number \in DemoNumbers /\ number \notin Done(a)
      /\ Done(a)' = Done(a) \cup {number}
  BY <1>1, NextIsNew DEF Skip, SeedTypeOK
<1>3. result[a] \in SeedResult /\ Present' = Present /\ next[a] \in 1..Len(Demo)
  BY <1>1, DemoType DEF SeedTypeOK, Skip, Present
<1>4. \/ /\ number \in existing[a]
         /\ result' = [result EXCEPT ![a] = [result[a] EXCEPT !.skipped = @ \cup {number}]]
      \/ /\ dry[a]
         /\ result' = [result EXCEPT ![a] = [result[a] EXCEPT !.created = @ \cup {number}]]
  BY DEF Skip
<1>5. /\ next'[a] = next[a] + 1
      /\ pc'[a] = "seeding" /\ pc[a] = "seeding"
      /\ UNCHANGED <<rooms, late, pc, dry, existing, sent, answer, wrote>>
  BY <1>1 DEF Skip, SeedTypeOK
<1>6. /\ result'[a] \in SeedResult
      /\ result' = [result EXCEPT ![a] = result'[a]]
      /\ result'[a].failed = result[a].failed
      /\ \/ /\ number \in existing[a] /\ result'[a].created = result[a].created
            /\ result'[a].skipped = result[a].skipped \cup {number}
         \/ /\ dry[a] /\ result'[a].skipped = result[a].skipped
            /\ result'[a].created = result[a].created \cup {number}
  BY <1>1, <1>2, <1>3, <1>4 DEF SeedTypeOK, SeedResult
<1>7. SeedTypeOK'
  <2>1. result' \in [Admins -> SeedResult]
    BY <1>1, <1>6 DEF SeedTypeOK
  <2>2. next' \in [Admins -> 1..Len(Demo) + 1]
    BY <1>1, <1>3, DemoType DEF Skip, SeedTypeOK
  <2> QED BY <1>1, <1>5, <2>1, <2>2 DEF SeedTypeOK
<1>8. \A b \in Admins : b # a => Untouched(b)
  BY <1>1, <1>6 DEF Skip, Untouched, SeedTypeOK
<1>9. Accounts(a)'
  BY <1>1, <1>2, <1>3, <1>5, <1>6 DEF Accounts, RunFits
<1>10. RunFits(a)'
  BY <1>1, <1>3, <1>5, <1>9 DEF RunFits
<1> QED BY <1>3, <1>7, <1>8, <1>10, OneMoves

\* A payload is sent only when it was not listed.
LEMMA PostKeeps ==
  ASSUME IInv, NEW a \in Admins, Post(a)
  PROVE  IInv'
<1> USE DEF IInv
<1>1. SeedTypeOK /\ RunFits(a) /\ Accounts(a) /\ answer[a] = NULL
  BY DEF Post, RunFits
<1>2. /\ Demo[next[a]] \in DemoNumbers /\ Demo[next[a]] # NULL
      /\ next[a] \in 1..Len(Demo) /\ ~dry[a]
  BY <1>1, DemoType DEF Post, SeedTypeOK
<1>3. SeedTypeOK'
  BY <1>1, <1>2 DEF Post, SeedTypeOK, Steps
<1>4. \A b \in Admins : b # a => Untouched(b)
  BY <1>1 DEF Post, Untouched, SeedTypeOK
<1>5. Present' = Present /\ Done(a)' = Done(a)
  BY DEF Post, Present, Done
<1>6. Accounts(a)'
  <2>1. /\ result'[a] = result[a] /\ dry'[a] = dry[a] /\ wrote'[a] = wrote[a]
        /\ answer'[a] = NULL
    BY <1>1 DEF Post
  <2>2. NULL # "created"
    BY SeedNull
  <2> QED BY <1>1, <1>2, <1>5, <2>1, <2>2 DEF Accounts
<1>7. RunFits(a)'
  BY <1>1, <1>2, <1>5, <1>6 DEF Post, RunFits, SeedTypeOK
<1> QED BY <1>3, <1>4, <1>5, <1>7, OneMoves

\* The answer decides which list the number enters.
LEMMA PostEndsKeeps ==
  ASSUME IInv, NEW a \in Admins, PostEnds(a)
  PROVE  IInv'
<1> USE DEF IInv
<1> DEFINE number == Demo[next[a]]
<1>1. /\ SeedTypeOK /\ RunFits(a) /\ Accounts(a) /\ sent[a] = number /\ ~dry[a]
      /\ next[a] <= Len(Demo)
  BY DEF PostEnds, RunFits
<1>2. /\ number \in DemoNumbers /\ number \notin Done(a)
      /\ Done(a)' = Done(a) \cup {number}
  BY <1>1, NextIsNew DEF PostEnds, SeedTypeOK
<1>3. result[a] \in SeedResult /\ Present' = Present /\ next[a] \in 1..Len(Demo)
  BY <1>1, DemoType DEF SeedTypeOK, PostEnds, Present
<1>4. \/ /\ answer[a] = "created"
         /\ result' = [result EXCEPT ![a] = [result[a] EXCEPT !.created = @ \cup {number}]]
      \/ /\ answer[a] = "refused"
         /\ result' = [result EXCEPT ![a] = [result[a] EXCEPT !.failed = @ \cup {number}]]
  BY <1>1 DEF PostEnds
<1>5. /\ next'[a] = next[a] + 1 /\ pc'[a] = "seeding" /\ sent'[a] = NULL
      /\ answer'[a] = NULL
      /\ UNCHANGED <<rooms, late, dry, existing, wrote>>
  BY <1>1 DEF PostEnds, SeedTypeOK
<1>6. /\ result'[a] \in SeedResult
      /\ result' = [result EXCEPT ![a] = result'[a]]
      /\ result'[a].skipped = result[a].skipped
      /\ \/ /\ answer[a] = "created" /\ result'[a].failed = result[a].failed
            /\ result'[a].created = result[a].created \cup {number}
         \/ /\ answer[a] # "created" /\ result'[a].created = result[a].created
            /\ result'[a].failed = result[a].failed \cup {number}
  BY <1>1, <1>2, <1>3, <1>4 DEF SeedTypeOK, SeedResult
<1>7. SeedTypeOK'
  <2>1. result' \in [Admins -> SeedResult]
    BY <1>1, <1>6 DEF SeedTypeOK
  <2>2. next' \in [Admins -> 1..Len(Demo) + 1]
    BY <1>1, <1>3, DemoType DEF PostEnds, SeedTypeOK
  <2> QED BY <1>1, <1>5, <2>1, <2>2 DEF SeedTypeOK, PostEnds, Steps
<1>8. \A b \in Admins : b # a => Untouched(b)
  BY <1>1, <1>6 DEF PostEnds, Untouched, SeedTypeOK
<1>9. NULL # "created"
  BY SeedNull
<1>10. Accounts(a)'
  <2>1. ~dry'[a] /\ answer'[a] # "created" /\ wrote'[a] = wrote[a]
    BY <1>1, <1>5, <1>9
  <2>2. number \notin result[a].created \cup result[a].skipped \cup result[a].failed
    BY <1>1, <1>2 DEF Accounts
  <2>3. CASE /\ answer[a] = "created" /\ result'[a].failed = result[a].failed
             /\ result'[a].created = result[a].created \cup {number}
    <3>1. wrote[a] = result'[a].created
      BY <1>1, <2>3 DEF Accounts
    <3> QED BY <1>1, <1>2, <1>3, <1>6, <2>1, <2>2, <2>3, <3>1 DEF Accounts
  <2>4. CASE /\ answer[a] # "created" /\ result'[a].created = result[a].created
             /\ result'[a].failed = result[a].failed \cup {number}
    <3>1. wrote[a] = result'[a].created
      BY <1>1, <2>4 DEF Accounts
    <3> QED BY <1>1, <1>2, <1>3, <1>6, <2>1, <2>2, <2>4, <3>1 DEF Accounts
  <2> QED BY <1>6, <2>3, <2>4
<1>11. RunFits(a)'
  BY <1>1, <1>3, <1>5, <1>10 DEF RunFits
<1> QED BY <1>3, <1>7, <1>8, <1>11, OneMoves

\* The report is printed after the last payload.
LEMMA RenderedKeeps ==
  ASSUME IInv, NEW a \in Admins, Rendered(a)
  PROVE  IInv'
<1> USE DEF IInv
<1>1. SeedTypeOK /\ RunFits(a) /\ Accounts(a)
  BY DEF Rendered, RunFits
<1>2. SeedTypeOK'
  BY <1>1 DEF Rendered, SeedTypeOK, Steps
<1>3. \A b \in Admins : b # a => Untouched(b)
  BY <1>1 DEF Rendered, Untouched, SeedTypeOK
<1>4. Present' = Present /\ Done(a)' = Done(a)
  BY DEF Rendered, Present, Done
<1>5. next[a] = Len(Demo) + 1
  BY <1>1, DemoType DEF Rendered, SeedTypeOK
<1>6. Accounts(a)'
  BY <1>1, <1>4 DEF Accounts, Rendered
<1>7. RunFits(a)'
  BY <1>1, <1>4, <1>5, <1>6 DEF Rendered, RunFits, SeedTypeOK
<1> QED BY <1>2, <1>3, <1>4, <1>7, OneMoves

\* A run that ends forgets its reading and its POST.
LEMMA StopsKeeps ==
  ASSUME IInv, NEW a \in Admins, RunAborts(a) \/ Exit(a)
  PROVE  IInv'
<1> USE DEF IInv
<1>1. SeedTypeOK /\ RunFits(a)
  OBVIOUS
<1>2. /\ pc' = [pc EXCEPT ![a] = "idle"] /\ existing' = [existing EXCEPT ![a] = {}]
      /\ UNCHANGED <<rooms, dry, next, result, wrote>>
      /\ sent'[a] = NULL /\ answer'[a] = NULL
  BY <1>1 DEF RunAborts, Exit, SeedTypeOK, RunFits
<1>3. sent' \in [Admins -> DemoNumbers \cup {NULL}] /\ answer' \in [Admins -> {"created", "refused", NULL}]
  BY <1>1 DEF RunAborts, Exit, SeedTypeOK
<1>4. late' \in [Admins -> SUBSET DemoNumbers]
  BY <1>1, DemoType DEF RunAborts, Exit, SeedTypeOK
<1>5. \A b \in Admins : b # a => Untouched(b)
  BY <1>1 DEF RunAborts, Exit, Untouched, SeedTypeOK
<1>6. SeedTypeOK'
  BY <1>1, <1>2, <1>3, <1>4, <1>5 DEF SeedTypeOK, Steps, Untouched
<1>7. Present' = Present
  BY <1>2 DEF Present
<1>8. RunFits(a)'
  BY <1>1, <1>2 DEF RunFits, SeedTypeOK
<1> QED BY <1>5, <1>6, <1>7, <1>8, OneMoves

\* A room written for a POST is owed to the "created" list.
LEMMA AnswerKeeps ==
  ASSUME IInv, NEW a \in Admins, CreatesRoom(a) \/ RefusesRoom(a)
  PROVE  IInv'
<1> USE DEF IInv
<1>1. SeedTypeOK /\ RunFits(a) /\ Accounts(a) /\ pc[a] = "posting" /\ answer[a] = NULL
  BY DEF CreatesRoom, RefusesRoom, RunFits
<1>2. /\ sent[a] \in DemoNumbers /\ sent[a] \in Numbers /\ ~dry[a]
      /\ UNCHANGED <<late, pc, dry, existing, next, sent, result>>
  BY <1>1, DemoType DEF CreatesRoom, RefusesRoom, RunFits, adminVars, SeedTypeOK
<1>3. Present \subseteq Present'
  BY <1>1, <1>2, RoomsStay DEF CreatesRoom, RefusesRoom
<1>4. SeedTypeOK'
  <2>1. rooms' \in [Numbers -> 0..MaxCopies]
    <3>1. rooms \in [Numbers -> 0..MaxCopies] /\ MaxCopies \in Nat
      BY <1>1, SeedAssumption DEF SeedTypeOK
    <3>2. CASE rooms' = rooms
      BY <3>1, <3>2
    <3>3. CASE /\ rooms[sent[a]] < MaxCopies
               /\ rooms' = [rooms EXCEPT ![sent[a]] = @ + 1]
      <4>1. rooms[sent[a]] + 1 \in 0..MaxCopies
        BY <1>2, <3>1, <3>3
      <4> QED BY <1>2, <3>1, <3>3, <4>1
    <3> QED BY <3>2, <3>3 DEF CreatesRoom, RefusesRoom
  <2>2. wrote' \in [Admins -> SUBSET DemoNumbers]
    <3>1. wrote \in [Admins -> SUBSET DemoNumbers]
      BY <1>1 DEF SeedTypeOK
    <3>2. wrote' = wrote \/ wrote' = [wrote EXCEPT ![a] = @ \cup {sent[a]}]
      BY DEF CreatesRoom, RefusesRoom
    <3> QED BY <1>2, <3>1, <3>2
  <2>3. answer' \in [Admins -> {"created", "refused", NULL}]
    BY <1>1 DEF CreatesRoom, RefusesRoom, SeedTypeOK
  <2> QED BY <1>1, <1>2, <2>1, <2>2, <2>3 DEF SeedTypeOK
<1>5. \A b \in Admins : b # a => Untouched(b)
  BY <1>1, <1>2 DEF CreatesRoom, RefusesRoom, Untouched, SeedTypeOK
<1>6. Done(a)' = Done(a)
  BY <1>2 DEF Done
<1>7. NULL # "created"
  BY SeedNull
<1>8. \/ answer'[a] = "created" /\ wrote'[a] = wrote[a] \cup {sent[a]}
      \/ answer'[a] = "refused" /\ wrote'[a] = wrote[a]
  BY <1>1 DEF CreatesRoom, RefusesRoom, SeedTypeOK
<1>9. Accounts(a)'
  BY <1>1, <1>2, <1>3, <1>6, <1>7, <1>8 DEF Accounts
<1>10. RunFits(a)'
  BY <1>1, <1>2, <1>3, <1>9 DEF RunFits
<1> QED BY <1>3, <1>4, <1>5, <1>10, OneMoves

\* A late write and a new room touch no run.
LEMMA BackendKeeps ==
  ASSUME IInv,
         \/ \E a \in Admins, number \in Numbers : CreatesLate(a, number)
         \/ \E number \in Numbers : OpensRoom(number)
  PROVE  IInv'
<1> USE DEF IInv
<1>1. \A b \in Admins : Untouched(b)
  BY DEF CreatesLate, OpensRoom, adminVars, Untouched
<1>2. \E n \in Numbers : rooms' = [rooms EXCEPT ![n] = @ + 1]
  <2>1. CASE \E a \in Admins, number \in Numbers : CreatesLate(a, number)
    BY <2>1 DEF CreatesLate
  <2>2. ASSUME NEW number \in Numbers, OpensRoom(number)
        PROVE  rooms' = [rooms EXCEPT ![number] = @ + 1]
    BY <2>2 DEF OpensRoom
  <2> QED BY <2>1, <2>2
<1>3. Present \subseteq Present'
  BY <1>2, RoomsStay
<1>4. SeedTypeOK'
  <2>1. SeedTypeOK
    OBVIOUS
  <2>2. rooms' \in [Numbers -> 0..MaxCopies] /\ late' \in [Admins -> SUBSET DemoNumbers]
    <3>1. ASSUME NEW a \in Admins, NEW number \in Numbers, CreatesLate(a, number)
          PROVE  rooms' \in [Numbers -> 0..MaxCopies] /\ late' \in [Admins -> SUBSET DemoNumbers]
      BY <2>1, <3>1, SeedAssumption DEF CreatesLate, SeedTypeOK
    <3>2. ASSUME NEW number \in Numbers, OpensRoom(number)
          PROVE  rooms' \in [Numbers -> 0..MaxCopies] /\ late' \in [Admins -> SUBSET DemoNumbers]
      BY <2>1, <3>2, SeedAssumption DEF OpensRoom, SeedTypeOK
    <3> QED BY <3>1, <3>2
  <2> QED BY <2>1, <2>2 DEF CreatesLate, OpensRoom, adminVars, SeedTypeOK
<1>5. \A b \in Admins : RunFits(b)'
  BY <1>1, <1>3, OthersFit DEF Untouched
<1> QED BY <1>4, <1>5

\* Every step keeps the invariant.
LEMMA NextIInv == IInv /\ [SeedNext]_seedVars => IInv'
<1> SUFFICES ASSUME IInv, [SeedNext]_seedVars PROVE IInv'
  OBVIOUS
<1>1. ASSUME NEW a \in Admins, Command(a) PROVE IInv'
  BY <1>1, StartKeeps, ListedKeeps, SkipKeeps, PostKeeps, PostEndsKeeps, RenderedKeeps,
     StopsKeeps DEF Command
<1>2. CASE Backend
  BY <1>2, AnswerKeeps, BackendKeeps DEF Backend
<1>3. CASE UNCHANGED seedVars
  <2>1. Present' = Present /\ \A a \in Admins : Untouched(a)
    BY <1>3 DEF seedVars, Present, Untouched
  <2>2. SeedTypeOK'
    BY <1>3 DEF IInv, seedVars, SeedTypeOK
  <2> QED BY <2>1, <2>2, OthersFit DEF IInv, Untouched
<1> QED BY <1>1, <1>2, <1>3 DEF SeedNext

\* Every reachable state satisfies the invariant.
THEOREM Invariance == SeedSpec => []IInv
  BY InitIInv, NextIInv, PTL DEF SeedSpec

\* Every variable has its type, and a run holds a POST exactly while it waits.
THEOREM TypeCorrect == SeedSpec => []SeedTypeOK
<1>1. IInv => SeedTypeOK
  BY DEF IInv
<1> QED BY Invariance, <1>1, PTL

\* For any rooms, pages, admins and interruptions the report says what was
\* done: a run that has rendered has dealt with the whole list.
THEOREM ReportsAreTrue == SeedSpec => []ReportIsTrue
<1>1. IInv => ReportIsTrue
  <2> SUFFICES ASSUME IInv, NEW a \in Admins, pc[a] = "rendered"
               PROVE  LET r == result[a] IN
                      /\ r.created \cup r.skipped \cup r.failed = DemoNumbers
                      /\ r.created \cap r.skipped = {} /\ r.created \cap r.failed = {}
                      /\ r.skipped \cap r.failed = {}
                      /\ r.skipped \subseteq Present
                      /\ wrote[a] = IF dry[a] THEN {} ELSE r.created
    BY DEF ReportIsTrue
  <2>1. Accounts(a) /\ answer[a] = NULL /\ next[a] = Len(Demo) + 1
    BY DEF IInv, RunFits
  <2>2. Done(a) = DemoNumbers
    BY <2>1, DemoType DEF Done, DemoNumbers
  <2>3. answer[a] # "created"
    BY <2>1, SeedNull
  <2> QED BY <2>1, <2>2, <2>3 DEF Accounts
<1> QED BY Invariance, <1>1, PTL

-----------------------------------------------------------------------------
(***************************************************************************)
(* No demo room is created twice.                                          *)
(***************************************************************************)
\* The whole resort is on the first page, with every copy late writes can make.
FitsOnAPage ==
    /\ IsFiniteSet(Numbers)
    /\ Cardinality({copy \in Numbers \X (1..MaxCopies) :
                       copy[1] \in LateWrites \/ copy[2] = 1}) <= PageLimit

\* A room has one copy unless it is written late.
OneCopyEach == \A number \in Numbers \ LateWrites : rooms[number] <= 1

\* Of the rooms a run has not listed, those it has yet to deal with are not
\* there, but for the one whose answer is on its way.
StillMissing(a) ==
    pc[a] \in {"seeding", "posting"} =>
        \A i \in next[a]..Len(Demo) :
            Demo[i] \notin LateWrites \cup existing[a] =>
                rooms[Demo[i]] = 0 \/ (i = next[a] /\ answer[a] # NULL)

WritesOnce(a) ==
    /\ late[a] \subseteq LateWrites
    /\ pc[a] = "posting" => sent[a] \notin existing[a]
    /\ StillMissing(a)

\* The invariant of a resort that one admin seeds.
OnceInv == IInv /\ OneCopyEach /\ \A a \in Admins : WritesOnce(a)

\* Under the bound of the page a list is complete.
LEMMA ListIsComplete ==
  ASSUME SeedTypeOK, OneCopyEach, FitsOnAPage, NEW page \in Pages
  PROVE  page = Present
<1> DEFINE all   == Numbers \X (1..MaxCopies)
           roomy == {copy \in all : copy[1] \in LateWrites \/ copy[2] = 1}
           have  == {copy \in all : copy[2] <= rooms[copy[1]]}
<1>1. have \subseteq roomy
  <2>1. ASSUME NEW copy \in all, copy[2] <= rooms[copy[1]], copy[1] \notin LateWrites
        PROVE  copy[2] = 1
    <3>1. /\ copy[1] \in Numbers /\ copy[2] \in 1..MaxCopies
          /\ rooms[copy[1]] \in 0..MaxCopies /\ rooms[copy[1]] <= 1
      BY <2>1 DEF SeedTypeOK, OneCopyEach
    <3> QED BY <2>1, <3>1, SeedAssumption
  <2> QED BY <2>1
<1>2. IsFiniteSet(roomy)
  <2>1. IsFiniteSet(1..MaxCopies)
    BY SeedAssumption, FS_Interval
  <2>2. IsFiniteSet(all)
    BY <2>1, FS_Product DEF FitsOnAPage
  <2> QED BY <2>2, FS_Subset
<1>3. IsFiniteSet(have) /\ Cardinality(have) <= Cardinality(roomy)
  BY <1>1, <1>2, FS_Subset
<1>4. Cardinality(have) \in Nat /\ Cardinality(roomy) \in Nat /\ PageLimit \in Nat
  BY <1>2, <1>3, FS_CardinalityType, SeedAssumption
<1>5. Cardinality(roomy) <= PageLimit
  BY DEF FitsOnAPage
<1>6. RoomCount = Cardinality(have)
  BY DEF RoomCount
<1> HIDE DEF have, roomy
<1>7. RoomCount <= PageLimit
  BY <1>3, <1>4, <1>5, <1>6
<1> QED BY <1>7 DEF Pages

\* Rooms that are not there before a step and get no copy in it are not there
\* after it.
LEMMA RunStillWritesOnce ==
  ASSUME NEW a \in Admins, WritesOnce(a), rooms' = rooms, late'[a] = late[a],
         pc'[a] = pc[a], existing'[a] = existing[a], next'[a] = next[a],
         sent'[a] = sent[a], answer'[a] = answer[a]
  PROVE  WritesOnce(a)'
  BY DEF WritesOnce, StillMissing

\* The steps of a run.
LEMMA CommandWritesOnce ==
  ASSUME OnceInv, IInv', FitsOnAPage, NEW a \in Admins, Admins = {a}, Command(a)
  PROVE  OnceInv'
<1> USE DEF OnceInv
<1>0. SeedTypeOK /\ RunFits(a) /\ WritesOnce(a)
  BY DEF IInv
<1>1. rooms' = rooms
  BY DEF Command, Start, Listed, Skip, Post, PostEnds, Rendered, RunAborts, Exit
<1>2. OneCopyEach'
  BY <1>1 DEF OneCopyEach
<1>3. /\ Len(Demo) \in Nat /\ next[a] \in 1..Len(Demo) + 1
      /\ \A i \in 1..Len(Demo) : Demo[i] \in Numbers
      /\ \A i \in 1..Len(Demo) : rooms[Demo[i]] \in 0..MaxCopies
  BY <1>0, DemoType DEF SeedTypeOK
<1>4. ASSUME NEW dryRun \in BOOLEAN, Start(a, dryRun) PROVE WritesOnce(a)'
  BY <1>0, <1>4 DEF Start, WritesOnce, StillMissing, SeedTypeOK
<1>5. ASSUME NEW page \in Pages, Listed(a, page) PROVE WritesOnce(a)'
  <2>1. page = Present
    BY <1>0, <1>5, ListIsComplete
  <2>2. existing'[a] = Present /\ pc'[a] = "seeding" /\ late'[a] = late[a]
    BY <1>0, <1>5, <2>1 DEF Listed, SeedTypeOK
  <2>3. next'[a] = 1
    BY <1>0, <1>5 DEF Listed, RunFits
  <2>4. \A i \in 1..Len(Demo) : Demo[i] \notin Present => rooms[Demo[i]] = 0
    BY <1>3, SeedAssumption DEF Present
  <2> QED BY <1>0, <1>1, <2>2, <2>3, <2>4 DEF WritesOnce, StillMissing
<1>6. ASSUME Skip(a) PROVE WritesOnce(a)'
  <2>1. /\ next'[a] = next[a] + 1 /\ pc'[a] = "seeding" /\ pc[a] = "seeding"
        /\ existing'[a] = existing[a] /\ answer'[a] = answer[a] /\ late'[a] = late[a]
    BY <1>0, <1>6 DEF Skip, SeedTypeOK
  <2>2. answer[a] = NULL
    BY <1>0, <2>1 DEF RunFits
  <2>3. StillMissing(a)'
    BY <1>0, <1>1, <1>3, <2>1, <2>2 DEF WritesOnce, StillMissing
  <2> QED BY <1>0, <2>1, <2>3 DEF WritesOnce
<1>7. ASSUME Post(a) PROVE WritesOnce(a)'
  <2>1. /\ pc'[a] = "posting" /\ pc[a] = "seeding" /\ sent'[a] = Demo[next[a]]
        /\ Demo[next[a]] \notin existing[a]
        /\ next'[a] = next[a] /\ existing'[a] = existing[a] /\ answer'[a] = answer[a]
        /\ late'[a] = late[a]
    BY <1>0, <1>7 DEF Post, SeedTypeOK
  <2>2. StillMissing(a)'
    BY <1>0, <1>1, <2>1 DEF WritesOnce, StillMissing
  <2> QED BY <1>0, <2>1, <2>2 DEF WritesOnce
<1>8. ASSUME PostEnds(a) PROVE WritesOnce(a)'
  <2>1. /\ pc'[a] = "seeding" /\ pc[a] = "posting" /\ next'[a] = next[a] + 1
        /\ existing'[a] = existing[a] /\ late'[a] = late[a] /\ answer'[a] = NULL
    BY <1>0, <1>8, <1>3, DemoType DEF PostEnds, SeedTypeOK
  <2>2. StillMissing(a)'
    BY <1>0, <1>1, <1>3, <2>1 DEF WritesOnce, StillMissing
  <2> QED BY <1>0, <2>1, <2>2 DEF WritesOnce
<1>9. ASSUME Rendered(a) PROVE WritesOnce(a)'
  BY <1>0, <1>9 DEF Rendered, WritesOnce, StillMissing, SeedTypeOK
<1>10. ASSUME RunAborts(a) \/ Exit(a) PROVE WritesOnce(a)'
  <2>1. pc'[a] = "idle" /\ late'[a] \subseteq LateWrites
    BY <1>0, <1>10 DEF RunAborts, Exit, WritesOnce, SeedTypeOK
  <2> QED BY <2>1 DEF WritesOnce, StillMissing
<1> QED BY <1>2, <1>4, <1>5, <1>6, <1>7, <1>8, <1>9, <1>10 DEF Command

\* The steps of the backend.
LEMMA BackendWritesOnce ==
  ASSUME OnceInv, IInv', Others \cap DemoNumbers = {}, NEW a \in Admins, Admins = {a},
         Backend
  PROVE  OnceInv'
<1> USE DEF OnceInv
<1>0. SeedTypeOK /\ RunFits(a) /\ WritesOnce(a)
  BY DEF IInv
<1>1. /\ Len(Demo) \in Nat /\ next[a] \in 1..Len(Demo) + 1
      /\ \A i \in 1..Len(Demo) : Demo[i] \in DemoNumbers /\ Demo[i] \in Numbers
      /\ \A i, j \in 1..Len(Demo) : Demo[i] = Demo[j] => i = j
  BY <1>0, DemoType DEF SeedTypeOK
<1>2. rooms \in [Numbers -> 0..MaxCopies] /\ MaxCopies \in Nat
  BY <1>0, SeedAssumption DEF SeedTypeOK
<1>3. CASE CreatesRoom(a)
  <2>1. /\ pc[a] = "posting" /\ answer[a] = NULL /\ answer'[a] = "created"
        /\ rooms' = [rooms EXCEPT ![sent[a]] = @ + 1]
        /\ UNCHANGED <<late, pc, existing, next, sent>>
    BY <1>0, <1>3 DEF CreatesRoom, adminVars, SeedTypeOK
  <2>2. /\ sent[a] = Demo[next[a]] /\ next[a] \in 1..Len(Demo)
        /\ sent[a] \notin existing[a]
    BY <1>0, <1>1, <2>1 DEF RunFits, WritesOnce
  <2>3. sent[a] \notin LateWrites => rooms[sent[a]] = 0
    BY <1>0, <1>1, <2>1, <2>2 DEF WritesOnce, StillMissing
  <2>4. OneCopyEach'
    BY <1>1, <1>2, <2>1, <2>2, <2>3 DEF OneCopyEach
  <2>5. answer'[a] # NULL
    BY <2>1, SeedNull
  <2>6. \A i \in next[a]..Len(Demo) : i # next[a] => rooms'[Demo[i]] = rooms[Demo[i]]
    BY <1>1, <1>2, <2>1, <2>2
  <2>7. StillMissing(a)'
    BY <1>0, <1>1, <2>1, <2>5, <2>6 DEF WritesOnce, StillMissing
  <2> QED BY <1>0, <2>1, <2>4, <2>7 DEF WritesOnce
<1>4. CASE RefusesRoom(a)
  <2>1. /\ answer' = [answer EXCEPT ![a] = "refused"]
        /\ UNCHANGED <<rooms, late, pc, existing, next, sent>>
    BY <1>4 DEF RefusesRoom, adminVars
  <2>2. answer'[a] # NULL
    BY <1>0, <2>1, SeedNull DEF SeedTypeOK
  <2> QED BY <1>0, <2>1, <2>2 DEF WritesOnce, StillMissing, OneCopyEach
<1>5. ASSUME NEW number \in Numbers, CreatesLate(a, number) PROVE OnceInv'
  <2>1. /\ number \in LateWrites /\ rooms' = [rooms EXCEPT ![number] = @ + 1]
        /\ late' = [late EXCEPT ![a] = @ \ {number}]
        /\ UNCHANGED <<pc, existing, next, sent, answer>>
    BY <1>0, <1>5 DEF CreatesLate, adminVars, WritesOnce
  <2>2. \A n \in Numbers \ LateWrites : rooms'[n] = rooms[n]
    BY <1>2, <2>1
  <2>3. OneCopyEach'
    BY <2>2 DEF OneCopyEach
  <2>4. late'[a] \subseteq LateWrites
    BY <1>0, <2>1 DEF WritesOnce, SeedTypeOK
  <2>5. StillMissing(a)'
    BY <1>0, <1>1, <2>1, <2>2 DEF WritesOnce, StillMissing
  <2> QED BY <1>0, <2>1, <2>3, <2>4, <2>5 DEF WritesOnce
<1>6. ASSUME NEW number \in Numbers, OpensRoom(number) PROVE OnceInv'
  <2>1. /\ number \in Others /\ number \notin DemoNumbers /\ rooms[number] = 0
        /\ rooms' = [rooms EXCEPT ![number] = 1]
        /\ UNCHANGED <<late, pc, existing, next, sent, answer>>
    BY <1>6 DEF OpensRoom, adminVars
  <2>2. OneCopyEach'
    BY <1>2, <2>1 DEF OneCopyEach
  <2>3. \A i \in 1..Len(Demo) : rooms'[Demo[i]] = rooms[Demo[i]]
    BY <1>1, <1>2, <2>1
  <2>4. StillMissing(a)'
    BY <1>0, <1>1, <2>1, <2>3 DEF WritesOnce, StillMissing
  <2> QED BY <1>0, <2>1, <2>2, <2>4 DEF WritesOnce
<1> QED BY <1>3, <1>4, <1>5, <1>6 DEF Backend

\* However often one admin's command is interrupted, loses an answer and is
\* run again, no demo room is created twice -- unless the backend carries out
\* a POST whose run has ended -- as long as the first page lists the resort.
\* With a second admin, or a longer list, this fails.
THEOREM NoRoomIsCreatedTwice ==
  ASSUME NEW admin, Admins = {admin}, FitsOnAPage, Others \cap DemoNumbers = {}
  PROVE  SeedSpec => []NoDuplicateRooms
<1>1. SeedInit => OnceInv
  <2> SUFFICES ASSUME SeedInit PROVE OnceInv
    OBVIOUS
  <2>1. OneCopyEach
    BY DEF SeedInit, OneCopyEach
  <2>2. \A a \in Admins : WritesOnce(a)
    BY DEF SeedInit, WritesOnce, StillMissing
  <2> QED BY <2>1, <2>2, InitIInv DEF OnceInv
<1>2. OnceInv /\ [SeedNext]_seedVars => OnceInv'
  <2> SUFFICES ASSUME OnceInv, [SeedNext]_seedVars PROVE OnceInv'
    OBVIOUS
  <2>1. IInv'
    BY NextIInv DEF OnceInv
  <2>2. CASE UNCHANGED seedVars
    BY <2>1, <2>2, RunStillWritesOnce DEF seedVars, OnceInv, OneCopyEach
  <2>3. CASE \E a \in Admins : Command(a)
    BY <2>1, <2>3, CommandWritesOnce
  <2>4. CASE Backend
    BY <2>1, <2>4, BackendWritesOnce
  <2> QED BY <2>2, <2>3, <2>4 DEF SeedNext
<1>3. OnceInv => NoDuplicateRooms
  BY DemoType DEF OnceInv, OneCopyEach, NoDuplicateRooms
<1> QED BY <1>1, <1>2, <1>3, PTL DEF SeedSpec
===============================================================================
