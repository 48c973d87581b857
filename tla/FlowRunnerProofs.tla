---------------------------- MODULE FlowRunnerProofs ----------------------------
(***************************************************************************)
(* Theorems about FlowRunner, for any number of replicas, subscriptions,   *)
(* records and faults: what a queue that will not drain may cost, and when *)
(* a subscription may be parked.                                           *)
(***************************************************************************)
EXTENDS FlowRunner, FiniteSetTheorems, TLAPS

USE FlowAssumption

-----------------------------------------------------------------------------
(* The invariant                                                            *)

InHand == \A w \in Runners : pc[w] \in {"failing", "working", "closing"} => job[w] \in Job

\* The replicas that have opened a run of s and may still close it.
Opened(s) == {w \in Runners : pc[w] \in {"working", "closing"} /\ job[w].sub = s}

RunsCover == \A s \in Subs : running[s] >= Cardinality(Opened(s))

\* A pass was begun, for each subscription it has still to report on, when that
\* one was not parked.
ReadUnparked ==
  \A w \in Runners, s \in Subs :
    s \in left[w] \/ (pc[w] \in {"failing", "working"} /\ job[w].sub = s) => snap[w][s] < MaxUnmoved

\* The row never counts further than the limit, and is parked when it gets there.
Full(s) == sub[s].unmoved <= MaxUnmoved /\ (sub[s].parked \/ sub[s].unmoved < MaxUnmoved)

\* Every turn in vain is in the row or among the lost.
Counted(s) == spent[s] <= sub[s].unmoved + lost[s]

\* A row that is not parked counts no verdict twice, unless passes wrote over
\* each other.
Deserved(s) == s \in muddled \/ sub[s].parked \/ sub[s].unmoved <= barren[s]

Honest == \A s \in Subs : Full(s) /\ Counted(s) /\ Deserved(s)

IInv == TypeOK /\ InHand /\ RunsCover /\ ReadUnparked /\ Honest

-----------------------------------------------------------------------------
(* A report                                                                 *)

TallyOK ==
  /\ sub \in [Subs -> Row] /\ muddled \subseteq Subs
  /\ barren \in [Subs -> Nat] /\ spent \in [Subs -> Nat] /\ lost \in [Subs -> Nat]

ParksWell == \A s \in Subs \ muddled' : sub'[s].parked /\ ~sub[s].parked => barren'[s] >= MaxUnmoved

\* The tally of one subscription, position by position.
LEMMA TalliedFacts ==
  ASSUME TallyOK, NEW s \in Subs, NEW moved \in BOOLEAN, NEW turn \in BOOLEAN, NEW missed \in Nat,
         Tallied(s, moved, turn, missed)
  PROVE  /\ barren' \in [Subs -> Nat] /\ spent' \in [Subs -> Nat] /\ lost' \in [Subs -> Nat]
         /\ barren'[s] = (IF moved THEN 0 ELSE barren[s] + 1)
         /\ spent'[s] = (IF moved THEN 0 ELSE IF turn THEN spent[s] + 1 ELSE spent[s])
         /\ lost'[s] = (IF moved THEN 0 ELSE lost[s] + missed)
         /\ \A t \in Subs \ {s} : barren'[t] = barren[t] /\ spent'[t] = spent[t] /\ lost'[t] = lost[t]
BY DEF Tallied, TallyOK

\* The row of one subscription after a report.
LEMMA ReportedFacts ==
  ASSUME TallyOK, NEW s \in Subs, NEW n \in Nat, Reported(s, n)
  PROVE  /\ sub' \in [Subs -> Row]
         /\ sub'[s].unmoved = n
         /\ sub'[s].parked <=> (sub[s].parked \/ n >= MaxUnmoved)
         /\ \A t \in Subs \ {s} : sub'[t] = sub[t]
<1> DEFINE b == sub[s].parked \/ n >= MaxUnmoved
           x == [sub[s] EXCEPT !.unmoved = n, !.parked = b]
<1>1. sub[s] \in Row /\ b \in BOOLEAN
  BY DEF TallyOK, Row
<1>2. sub' = [sub EXCEPT ![s] = x]
  BY DEF Reported
<1> HIDE DEF b
<1>3. x \in Row /\ x.unmoved = n /\ x.parked = b
  BY <1>1 DEF Row
<1> HIDE DEF x
<1> QED
  BY <1>2, <1>3 DEF TallyOK, b

\* A report of a run in which something moved, or nothing did: it says otherwise
\* only as a misled one, and the turns it makes the row forget are written off.
Sound(w, s, verdict, fact, missed, misled) ==
  /\ fact /\ ~verdict => misled
  /\ ~fact => sub[s].unmoved + 1 <= Unmoved(w, s, verdict) + missed

LEMMA ReportInv ==
  ASSUME TallyOK, Honest, NEW w \in Runners, NEW s \in Subs, NEW fact \in BOOLEAN, NEW turn \in BOOLEAN,
         snap[w][s] \in Nat, snap[w][s] < MaxUnmoved,
         NEW verdict \in BOOLEAN, NEW missed \in Nat, NEW misled \in BOOLEAN,
         \/ Report(w, s, verdict, fact, turn, missed, misled) /\ Sound(w, s, verdict, fact, missed, misled)
         \/ NoteLost(s, fact, turn)
  PROVE  TallyOK' /\ Honest' /\ ParksWell
<1> DEFINE k == snap[w][s]
           u == sub[s].unmoved
           n == Unmoved(w, s, verdict)
<1>1. /\ sub[s] \in Row /\ u \in Nat /\ sub[s].parked \in BOOLEAN
      /\ barren[s] \in Nat /\ spent[s] \in Nat /\ lost[s] \in Nat
      /\ MaxUnmoved \in Nat /\ MaxUnmoved > 0
  <2>1. sub[s] \in Row
    BY DEF TallyOK
  <2>2. sub[s].unmoved \in Nat /\ sub[s].parked \in BOOLEAN
    BY <2>1 DEF Row
  <2>3. MaxUnmoved \in Nat /\ MaxUnmoved > 0
    OBVIOUS
  <2> QED
    BY <2>1, <2>2, <2>3 DEF TallyOK
<1>2. n \in Nat /\ n = IF verdict THEN 0 ELSE k + 1
  BY DEF Unmoved
<1>3. n <= MaxUnmoved
  BY <1>1, <1>2
<1>4. Full(s) /\ Counted(s) /\ Deserved(s)
  BY DEF Honest
<1>6. CASE /\ Reported(s, n) /\ Tallied(s, fact, turn, missed)
           /\ muddled' = IF misled \/ k # u THEN muddled \cup {s} ELSE muddled
           /\ fact /\ ~verdict => misled
           /\ ~fact => u + 1 <= n + missed
  <2> HIDE DEF n, k
  <2>1. /\ sub' \in [Subs -> Row] /\ sub'[s].unmoved = n
        /\ sub'[s].parked <=> (sub[s].parked \/ n >= MaxUnmoved)
        /\ \A t \in Subs \ {s} : sub'[t] = sub[t]
    BY <1>2, <1>6, ReportedFacts
  <2>2. /\ barren' \in [Subs -> Nat] /\ spent' \in [Subs -> Nat] /\ lost' \in [Subs -> Nat]
        /\ barren'[s] = (IF fact THEN 0 ELSE barren[s] + 1)
        /\ spent'[s] = (IF fact THEN 0 ELSE IF turn THEN spent[s] + 1 ELSE spent[s])
        /\ lost'[s] = (IF fact THEN 0 ELSE lost[s] + missed)
        /\ \A t \in Subs \ {s} : barren'[t] = barren[t] /\ spent'[t] = spent[t] /\ lost'[t] = lost[t]
    <3>1. Tallied(s, fact, turn, missed)
      BY <1>6
    <3> QED
      BY <3>1, TalliedFacts
  <2>3. muddled' \subseteq Subs /\ muddled \subseteq muddled' /\ (s \notin muddled' => k = u /\ ~misled /\ s \notin muddled)
    BY <1>6 DEF TallyOK
  <2>4. Full(s)'
    <3>1. sub'[s].unmoved <= MaxUnmoved /\ (sub'[s].parked \/ sub'[s].unmoved < MaxUnmoved)
      BY <1>1, <1>2, <1>3, <2>1
    <3> QED
      BY <3>1 DEF Full
  <2>5. Counted(s)'
    <3>1. spent[s] <= u + lost[s]
      BY <1>4 DEF Counted
    <3>2. k \in Nat
      BY DEF k
    <3>3. spent'[s] <= n + lost'[s]
      BY <1>1, <1>2, <1>6, <2>2, <3>1, <3>2
    <3> QED
      BY <2>1, <3>3 DEF Counted
  <2>6. Deserved(s)' /\ (s \notin muddled' => sub[s].parked \/ n <= barren'[s])
    <3>1. s \notin muddled' => sub[s].parked \/ u <= barren[s]
      BY <1>4, <2>3 DEF Deserved
    <3>2. s \notin muddled' => sub[s].parked \/ n <= barren'[s]
      BY <1>1, <1>2, <1>6, <2>2, <2>3, <3>1
    <3> QED
      BY <2>1, <3>2 DEF Deserved
  <2>7. Honest'
    <3>1. ASSUME NEW t \in Subs \ {s}
          PROVE  Full(t)' /\ Counted(t)' /\ Deserved(t)'
      BY <2>1, <2>2, <2>3 DEF Honest, Full, Counted, Deserved
    <3> QED
      BY <2>4, <2>5, <2>6, <3>1 DEF Honest
  <2>8. ParksWell
    BY <1>1, <1>2, <2>1, <2>2, <2>6 DEF ParksWell
  <2> QED
    BY <2>1, <2>2, <2>3, <2>7, <2>8 DEF TallyOK
<1>7. CASE Tallied(s, fact, turn, 1) /\ sub' = sub
           /\ (muddled' = muddled \/ muddled' = muddled \cup {s}) /\ (fact => sub[s].parked \/ s \in muddled')
  <2>1. /\ barren' \in [Subs -> Nat] /\ spent' \in [Subs -> Nat] /\ lost' \in [Subs -> Nat]
        /\ barren'[s] = (IF fact THEN 0 ELSE barren[s] + 1)
        /\ spent'[s] = (IF fact THEN 0 ELSE IF turn THEN spent[s] + 1 ELSE spent[s])
        /\ lost'[s] = (IF fact THEN 0 ELSE lost[s] + 1)
        /\ \A t \in Subs \ {s} : barren'[t] = barren[t] /\ spent'[t] = spent[t] /\ lost'[t] = lost[t]
    <3> HIDE DEF k, u, n
    <3>1. Tallied(s, fact, turn, 1) /\ 1 \in Nat
      BY <1>7
    <3> QED
      BY <3>1, TalliedFacts
  <2>2. Full(s)' /\ Counted(s)' /\ Deserved(s)'
    <3>1. spent[s] <= u + lost[s] /\ (s \in muddled \/ sub[s].parked \/ u <= barren[s])
      BY <1>4 DEF Counted, Deserved
    <3>2. spent'[s] <= u + lost'[s]
      BY <1>1, <2>1, <3>1
    <3>3. s \in muddled' \/ sub[s].parked \/ u <= barren'[s]
      BY <1>1, <1>7, <2>1, <3>1
    <3> QED
      BY <1>4, <1>7, <3>2, <3>3 DEF Full, Counted, Deserved
  <2>3. ASSUME NEW t \in Subs \ {s}
        PROVE  Full(t)' /\ Counted(t)' /\ Deserved(t)'
    BY <1>7, <2>1 DEF Honest, Full, Counted, Deserved
  <2>4. ParksWell
    BY <1>7 DEF ParksWell
  <2> QED
    BY <1>7, <2>1, <2>2, <2>3, <2>4 DEF Honest, TallyOK
<1>8. CASE Report(w, s, verdict, fact, turn, missed, misled) /\ Sound(w, s, verdict, fact, missed, misled)
  <2>1. CASE Accepts(s, n)
    BY <1>6, <1>8, <2>1 DEF Report, Sound
  <2>2. CASE ~Accepts(s, n)
    <3>1. sub[s].parked
      BY <2>2 DEF Accepts
    <3> QED
      BY <1>7, <1>8, <2>2, <3>1 DEF Report
  <2> QED
    BY <1>8, <2>1, <2>2
<1>9. CASE NoteLost(s, fact, turn)
  BY <1>7, <1>9 DEF NoteLost
<1> QED
  BY <1>8, <1>9

\* How a run, or a check that failed, is told to the row: truly, misled or not at all.
Told(w, s, fact, turn) ==
  \/ NoteLost(s, fact, turn)
  \/ \E verdict \in BOOLEAN, missed \in Nat, misled \in BOOLEAN :
       Report(w, s, verdict, fact, turn, missed, misled) /\ Sound(w, s, verdict, fact, missed, misled)

LEMMA ToldInv ==
  ASSUME TallyOK, Honest, NEW w \in Runners, NEW s \in Subs, NEW fact \in BOOLEAN, NEW turn \in BOOLEAN,
         snap[w][s] \in Nat, snap[w][s] < MaxUnmoved, Told(w, s, fact, turn)
  PROVE  TallyOK' /\ Honest' /\ ParksWell
<1>1. CASE NoteLost(s, fact, turn)
  BY <1>1, ReportInv, 0 \in Nat
<1>2. CASE ~NoteLost(s, fact, turn)
  <2>1. PICK verdict \in BOOLEAN, missed \in Nat, misled \in BOOLEAN :
          Report(w, s, verdict, fact, turn, missed, misled) /\ Sound(w, s, verdict, fact, missed, misled)
    BY <1>2 DEF Told
  <2> QED
    BY <2>1, ReportInv
<1> QED
  BY <1>1, <1>2

\* A verdict that agrees with the facts is a sound report: what another pass has
\* counted since is written off as lost.
LEMMA NoteTold ==
  ASSUME TallyOK, NEW w \in Runners, NEW s \in Subs, NEW fact \in BOOLEAN, NEW turn \in BOOLEAN,
         snap[w][s] \in Nat, Note(w, s, fact, fact, turn)
  PROVE  Told(w, s, fact, turn)
<1>1. sub[s].unmoved \in Nat
  BY DEF TallyOK, Row
<1>2. /\ Missed(w, s) \in Nat
      /\ Missed(w, s) = IF snap[w][s] < sub[s].unmoved THEN sub[s].unmoved - snap[w][s] ELSE 0
  BY <1>1 DEF Missed
<1>3. Sound(w, s, fact, fact, Missed(w, s), FALSE)
  BY <1>1, <1>2 DEF Sound, Unmoved
<1>4. Report(w, s, fact, fact, turn, Missed(w, s), FALSE)
  BY DEF Note
<1> QED
  BY <1>2, <1>3, <1>4 DEF Told

\* Without the counts the verdict is anyone's guess, and the report is still sound.
LEMMA BlindTold ==
  ASSUME TallyOK, NEW w \in Runners, NEW s \in Subs, NEW fact \in BOOLEAN,
         snap[w][s] \in Nat, NEW verdict \in BOOLEAN,
         Report(w, s, verdict, fact, TRUE, Unseen(w, s, verdict), fact /\ ~verdict)
  PROVE  Told(w, s, fact, TRUE)
<1>1. sub[s].unmoved \in Nat
  BY DEF TallyOK, Row
<1>2. /\ Unseen(w, s, verdict) \in Nat
      /\ verdict => Unseen(w, s, verdict) = sub[s].unmoved + 1
      /\ ~verdict => Unseen(w, s, verdict) =
                      IF snap[w][s] < sub[s].unmoved THEN sub[s].unmoved - snap[w][s] ELSE 0
  BY <1>1 DEF Unseen, Missed
<1>3. Sound(w, s, verdict, fact, Unseen(w, s, verdict), fact /\ ~verdict)
  BY <1>1, <1>2 DEF Sound, Unmoved
<1> DEFINE misled == fact /\ ~verdict
<1>4. misled \in BOOLEAN
  OBVIOUS
<1> QED
  BY <1>2, <1>3, <1>4 DEF Told

-----------------------------------------------------------------------------
(* What a replica remembers                                                 *)

Places == {"absent", "resting", "passing", "failing", "working", "closing"}

MemoryOK ==
  /\ pc \in [Runners -> Places]
  /\ snap \in [Runners -> [Subs -> Nat]]
  /\ left \in [Runners -> SUBSET Subs]
  /\ age \in [Runners -> [Subs -> 0..Cadence]]
  /\ job \in [Runners -> Job \cup {None}]

WorldOK ==
  /\ ready \subseteq Subs /\ queue \in [Subs -> 0..MaxQueue] /\ running \in [Subs -> Nat]
  /\ faults \in 0..MaxFaults

LEMMA TypeParts == TypeOK <=> TallyOK /\ MemoryOK /\ WorldOK
BY DEF TypeOK, TallyOK, MemoryOK, WorldOK, Places

LEMMA PartsNext ==
  ASSUME TallyOK', MemoryOK', WorldOK', InHand', RunsCover', ReadUnparked', Honest'
  PROVE  IInv'
BY DEF IInv, TypeOK, TallyOK, MemoryOK, WorldOK, Places

LEMMA Bounds ==
  /\ MaxUnmoved \in Nat /\ MaxUnmoved > 0 /\ MaxFaults \in Nat /\ MaxQueue \in Nat /\ Cadence \in Nat
  /\ IsFiniteSet(Runners)
OBVIOUS

\* A step of one replica leaves the memory of the others alone.
Alone(w) ==
  \A v \in Runners \ {w} :
    pc'[v] = pc[v] /\ job'[v] = job[v] /\ left'[v] = left[v] /\ snap'[v] = snap[v]

LEMMA MemoryKept ==
  ASSUME InHand, ReadUnparked, NEW w \in Runners, Alone(w),
         pc'[w] \in {"failing", "working", "closing"} => job'[w] \in Job,
         \A s \in Subs : s \in left'[w] \/ (pc'[w] \in {"failing", "working"} /\ job'[w].sub = s) =>
           snap'[w][s] < MaxUnmoved
  PROVE  InHand' /\ ReadUnparked'
BY DEF InHand, ReadUnparked, Alone

LEMMA OlderType ==
  ASSUME NEW ages \in [Subs -> 0..Cadence]
  PROVE  Older(ages) \in [Subs -> 0..Cadence]
BY Bounds DEF Older

\* A replica that sleeps has nothing in hand.
LEMMA AsleepFacts ==
  ASSUME MemoryOK, InHand, ReadUnparked, NEW w \in Runners, Asleep(w),
         age' \in [Runners -> [Subs -> 0..Cadence]]
  PROVE  /\ MemoryOK' /\ InHand' /\ ReadUnparked' /\ Alone(w)
         /\ pc'[w] = "resting"
<1>1. /\ pc'[w] = "resting" /\ job'[w] = None /\ left'[w] = {}
      /\ Alone(w)
  BY DEF MemoryOK, Asleep, Alone
<1>2. MemoryOK'
  BY DEF MemoryOK, Asleep, Unread, Places
<1> QED
  BY <1>1, <1>2, MemoryKept

-----------------------------------------------------------------------------
(* Runs opened and closed                                                   *)

LEMMA FewerRuns ==
  ASSUME NEW S \in SUBSET Runners, NEW T \in SUBSET S
  PROVE  Cardinality(T) \in Nat /\ Cardinality(S) \in Nat /\ Cardinality(T) <= Cardinality(S)
<1>1. IsFiniteSet(Runners)
  BY Bounds
<1>2. IsFiniteSet(S)
  BY <1>1, FS_Subset
<1>3. IsFiniteSet(T)
  BY <1>2, FS_Subset
<1> QED
  BY <1>2, <1>3, FS_Subset, FS_CardinalityType

LEMMA OneMoreRun ==
  ASSUME NEW S \in SUBSET Runners, NEW w
  PROVE  Cardinality(S \cup {w}) <= Cardinality(S) + 1
<1>1. IsFiniteSet(S) /\ Cardinality(S) \in Nat
  <2>1. IsFiniteSet(Runners)
    BY Bounds
  <2>2. IsFiniteSet(S)
    BY <2>1, FS_Subset
  <2> QED
    BY <2>2, FS_CardinalityType
<1>2. Cardinality(S \cup {w}) = IF w \in S THEN Cardinality(S) ELSE Cardinality(S) + 1
  BY <1>1, FS_AddElement
<1> QED
  BY <1>1, <1>2

LEMMA OneRunLess ==
  ASSUME NEW S \in SUBSET Runners, NEW w \in S
  PROVE  Cardinality(S \ {w}) = Cardinality(S) - 1 /\ Cardinality(S) \in Nat /\ Cardinality(S) > 0
<1>1. IsFiniteSet(S) /\ Cardinality(S) \in Nat
  <2>1. IsFiniteSet(Runners)
    BY Bounds
  <2>2. IsFiniteSet(S)
    BY <2>1, FS_Subset
  <2> QED
    BY <2>2, FS_CardinalityType
<1>2. Cardinality(S \ {w}) = Cardinality(S) - 1
  BY <1>1, FS_RemoveElement
<1>3. Cardinality(S) # 0
  BY <1>1, FS_EmptySet
<1> QED
  BY <1>1, <1>2, <1>3

\* A row of a run may stay open for good, and none is closed twice.
RunsGrow == running' \in [Subs -> Nat] /\ \A s \in Subs : running'[s] >= running[s]

LEMMA GrownRuns ==
  ASSUME WorldOK, NEW s \in Subs, running' \in {running, [running EXCEPT ![s] = @ + 1]}
  PROVE  RunsGrow
BY DEF WorldOK, RunsGrow

LEMMA SameRuns ==
  ASSUME WorldOK, running' = running
  PROVE  RunsGrow
BY DEF WorldOK, RunsGrow

\* A step that closes no run, and opens none that it would have to close, keeps the
\* rows of runs covering.
LEMMA RunsKept ==
  ASSUME WorldOK, RunsCover, NEW w \in Runners, RunsGrow, Alone(w),
         pc'[w] \notin {"working", "closing"}
           \/ (pc[w] \in {"working", "closing"} /\ job'[w].sub = job[w].sub)
  PROVE  RunsCover'
<1> SUFFICES ASSUME NEW s \in Subs
             PROVE  running'[s] >= Cardinality(Opened(s)')
  BY DEF RunsCover
<1>1. Opened(s)' \in SUBSET Opened(s) /\ Opened(s) \in SUBSET Runners
  BY DEF Opened, Alone
<1>2. /\ Cardinality(Opened(s)') \in Nat /\ Cardinality(Opened(s)) \in Nat
      /\ Cardinality(Opened(s)') <= Cardinality(Opened(s))
  BY <1>1, FewerRuns
<1>3. /\ running[s] >= Cardinality(Opened(s)) /\ running[s] \in Nat
      /\ running'[s] \in Nat /\ running'[s] >= running[s]
  BY DEF RunsCover, WorldOK, RunsGrow
<1> QED
  BY <1>2, <1>3

\* A step that moves no row and no tally.
LEMMA TallyKept ==
  ASSUME TallyOK, Honest, UNCHANGED <<sub, tally>>
  PROVE  TallyOK' /\ Honest' /\ ParksWell
BY DEF TallyOK, Honest, Full, Counted, Deserved, ParksWell, tally

-----------------------------------------------------------------------------
(* The steps of a replica                                                   *)

LEMMA WakeInv ==
  ASSUME IInv, NEW w \in Runners, Wake(w)
  PROVE  IInv' /\ ParksWell
<1> USE DEF IInv
<1>1. TallyOK /\ MemoryOK /\ WorldOK
  BY TypeParts
<1>2. TallyOK' /\ Honest' /\ ParksWell
  BY <1>1, TallyKept DEF Wake, rows
<1>3. /\ pc'[w] = "passing" /\ job' = job /\ left'[w] = {s \in Subs : Due(w, s)}
      /\ snap'[w] = [s \in Subs |-> sub[s].unmoved] /\ Alone(w)
  BY <1>1 DEF Wake, MemoryOK, Alone
<1>4. \A s \in Subs : sub[s].unmoved \in Nat
  BY <1>1 DEF TallyOK, Row
<1>5. MemoryOK'
  BY <1>1, <1>4 DEF Wake, MemoryOK, Places
<1>6. \A s \in left'[w] : snap'[w][s] < MaxUnmoved
  BY <1>3 DEF Due, Honest, Full
<1>7. InHand' /\ ReadUnparked'
  BY <1>3, <1>6, MemoryKept
<1>8. WorldOK' /\ RunsCover'
  BY <1>1, <1>3, SameRuns, RunsKept DEF Wake, rows, WorldOK
<1> QED
  BY <1>2, <1>5, <1>7, <1>8, PartsNext

\* A pass that ends, or a replica that dies, with nothing to report.
LEMMA RestInv ==
  ASSUME IInv, NEW w \in Runners, Asleep(w), age' \in [Runners -> [Subs -> 0..Cadence]],
         UNCHANGED <<sub, ready, queue, tally>>, RunsGrow, faults' \in 0..MaxFaults
  PROVE  IInv' /\ ParksWell
<1> USE DEF IInv
<1>1. TallyOK /\ MemoryOK /\ WorldOK
  BY TypeParts
<1>2. TallyOK' /\ Honest' /\ ParksWell
  BY <1>1, TallyKept
<1>3. MemoryOK' /\ InHand' /\ ReadUnparked' /\ Alone(w) /\ pc'[w] = "resting"
  BY <1>1, AsleepFacts
<1>4. WorldOK' /\ RunsCover'
  BY <1>1, <1>3, RunsKept DEF WorldOK, RunsGrow
<1> QED
  BY <1>2, <1>3, <1>4, PartsNext

LEMMA FailsType ==
  ASSUME faults \in 0..MaxFaults, Fails \/ UNCHANGED faults
  PROVE  faults' \in 0..MaxFaults
BY Bounds DEF Fails

LEMMA OlderAge ==
  ASSUME MemoryOK, NEW w \in Runners
  PROVE  [age EXCEPT ![w] = Older(@)] \in [Runners -> [Subs -> 0..Cadence]]
<1>1. age[w] \in [Subs -> 0..Cadence] /\ age \in [Runners -> [Subs -> 0..Cadence]]
  BY DEF MemoryOK
<1>2. Older(age[w]) \in [Subs -> 0..Cadence]
  BY <1>1, OlderType
<1> QED
  BY <1>1, <1>2

LEMMA AgeTypes ==
  ASSUME MemoryOK, NEW w \in Runners, NEW s \in Subs
  PROVE  /\ Touched(w, s) \in [Subs -> 0..Cadence]
         /\ [age EXCEPT ![w] = Touched(w, s)] \in [Runners -> [Subs -> 0..Cadence]]
         /\ [age EXCEPT ![w] = Older(Touched(w, s))] \in [Runners -> [Subs -> 0..Cadence]]
<1>1. age[w] \in [Subs -> 0..Cadence] /\ age \in [Runners -> [Subs -> 0..Cadence]]
  BY DEF MemoryOK
<1>2. Touched(w, s) \in [Subs -> 0..Cadence]
  BY <1>1, Bounds DEF Touched
<1>3. Older(Touched(w, s)) \in [Subs -> 0..Cadence]
  BY <1>2, OlderType
<1> QED
  BY <1>1, <1>2, <1>3

\* The next subscription of a pass, whatever came of looking at it.
LEMMA DispatchInv ==
  ASSUME IInv, NEW w \in Runners, NEW s \in Subs, NEW where \in {"passing", "failing", "working"},
         NEW dispatched \in Job \cup {None}, Dispatch(w, s, where, dispatched),
         where # "passing" => dispatched \in Job /\ dispatched.sub = s,
         faults' \in 0..MaxFaults,
         running' = IF where = "working" THEN [running EXCEPT ![s] = @ + 1] ELSE running
  PROVE  IInv' /\ ParksWell
<1> USE DEF IInv
<1>1. TallyOK /\ MemoryOK /\ WorldOK
  BY TypeParts
<1>2. TallyOK' /\ Honest' /\ ParksWell
  BY <1>1, TallyKept DEF Dispatch
<1>3. /\ pc[w] = "passing" /\ s \in left[w]
      /\ pc'[w] = where /\ job'[w] = dispatched /\ left'[w] = left[w] \ {s} /\ snap' = snap
      /\ Alone(w)
  BY <1>1 DEF Dispatch, IsNext, MemoryOK, Alone
<1>4. MemoryOK'
  <2>1. age' \in [Runners -> [Subs -> 0..Cadence]]
    BY <1>1, AgeTypes DEF Dispatch
  <2> QED
    BY <1>1, <2>1 DEF Dispatch, MemoryOK, Places
<1>5. InHand' /\ ReadUnparked'
  <2>1. \A t \in Subs : t \in left'[w] \/ (pc'[w] \in {"failing", "working"} /\ job'[w].sub = t) =>
          snap'[w][t] < MaxUnmoved
    BY <1>3 DEF ReadUnparked
  <2> QED
    BY <1>3, <2>1, MemoryKept
<1>6. WorldOK'
  BY <1>1 DEF Dispatch, WorldOK
<1>7. CASE where # "working"
  <2>1. RunsCover'
    BY <1>1, <1>3, <1>7, SameRuns, RunsKept
  <2> QED
    BY <1>2, <1>4, <1>5, <1>6, <2>1, PartsNext
<1>8. CASE where = "working"
  <2>1. ASSUME NEW t \in Subs
        PROVE  running'[t] >= Cardinality(Opened(t)')
    <3>1. Opened(t) \in SUBSET Runners /\ Opened(t) \cup {w} \in SUBSET Runners
      BY DEF Opened
    <3>2. running[t] >= Cardinality(Opened(t)) /\ running[t] \in Nat
      BY <1>1 DEF RunsCover, WorldOK
    <3>3. CASE t = s
      <4>1. Opened(t)' \in SUBSET (Opened(t) \cup {w})
        BY <1>3 DEF Opened, Alone
      <4>2. /\ Cardinality(Opened(t)') <= Cardinality(Opened(t) \cup {w})
            /\ Cardinality(Opened(t)') \in Nat /\ Cardinality(Opened(t) \cup {w}) \in Nat
        BY <3>1, <4>1, FewerRuns
      <4>3. Cardinality(Opened(t) \cup {w}) <= Cardinality(Opened(t)) + 1
        BY <3>1, OneMoreRun
      <4>4. running'[t] = running[t] + 1
        BY <1>1, <1>8, <3>3 DEF WorldOK
      <4>5. Cardinality(Opened(t)) \in Nat
        BY <3>1, FewerRuns
      <4> QED
        BY <3>2, <4>2, <4>3, <4>4, <4>5
    <3>4. CASE t # s
      <4>1. Opened(t)' \in SUBSET Opened(t)
        BY <1>3, <1>8, <3>4 DEF Opened, Alone
      <4>2. /\ Cardinality(Opened(t)') <= Cardinality(Opened(t))
            /\ Cardinality(Opened(t)') \in Nat /\ Cardinality(Opened(t)) \in Nat
        BY <3>1, <4>1, FewerRuns
      <4>3. running'[t] = running[t]
        BY <1>1, <1>8, <3>4 DEF WorldOK
      <4> QED
        BY <3>2, <4>2, <4>3
    <3> QED
      BY <3>3, <3>4
  <2>2. RunsCover'
    BY <2>1 DEF RunsCover
  <2> QED
    BY <1>2, <1>4, <1>5, <1>6, <2>2, PartsNext
<1> QED
  BY <1>7, <1>8

LEMMA LookInv ==
  ASSUME IInv, NEW w \in Runners, Look(w)
  PROVE  IInv' /\ ParksWell
<1> USE DEF IInv
<1>1. TallyOK /\ MemoryOK /\ WorldOK
  BY TypeParts
<1>2. PICK s \in Subs : LookIdle(w, s) \/ LookFails(w, s) \/ LookFinds(w, s) \/ LookBreaks(w, s)
  BY DEF Look
<1>3. Fresh(s) \in Job /\ Fresh(s).sub = s
  BY <1>1, Bounds DEF Fresh, Job, WorldOK
<1>4. CASE LookIdle(w, s)
  <2>1. Dispatch(w, s, "passing", None) /\ running' = running /\ faults' \in 0..MaxFaults
    BY <1>1, <1>4 DEF LookIdle, WorldOK
  <2> QED
    BY <2>1, DispatchInv
<1>5. CASE LookFails(w, s)
  <2>1. Dispatch(w, s, "failing", Fresh(s)) /\ running' = running /\ faults' \in 0..MaxFaults
    BY <1>1, <1>5, FailsType DEF LookFails, WorldOK
  <2> QED
    BY <1>3, <2>1, DispatchInv
<1>6. CASE LookFinds(w, s)
  <2>1. /\ Dispatch(w, s, "working", Fresh(s)) /\ running' = [running EXCEPT ![s] = @ + 1]
        /\ faults' \in 0..MaxFaults
    BY <1>1, <1>6 DEF LookFinds, WorldOK
  <2> QED
    BY <1>3, <2>1, DispatchInv
<1>7. CASE LookBreaks(w, s)
  <2>1. /\ Asleep(w) /\ UNCHANGED <<sub, ready, queue, tally>> /\ faults' \in 0..MaxFaults
        /\ age' \in [Runners -> [Subs -> 0..Cadence]]
    BY <1>1, <1>7, FailsType, AgeTypes DEF LookBreaks, WorldOK
  <2>2. RunsGrow
    BY <1>1, <1>7, GrownRuns DEF LookBreaks
  <2> QED
    BY <2>1, <2>2, RestInv
<1> QED
  BY <1>2, <1>4, <1>5, <1>6, <1>7


\* What a pass has read of the subscription it is about to report on.
LEMMA InHandFacts ==
  ASSUME IInv, NEW w \in Runners, pc[w] \in {"failing", "working"}
  PROVE  /\ job[w] \in Job /\ job[w].sub \in Subs
         /\ snap[w][job[w].sub] \in Nat /\ snap[w][job[w].sub] < MaxUnmoved
<1> USE DEF IInv
<1>1. job[w] \in Job /\ job[w].sub \in Subs
  BY DEF InHand, Job
<1>2. snap[w] \in [Subs -> Nat]
  BY TypeParts DEF MemoryOK
<1>3. snap[w][job[w].sub] < MaxUnmoved
  BY <1>1 DEF ReadUnparked
<1> QED
  BY <1>1, <1>2, <1>3

\* A replica that has judged its run has told the row of it, and goes on.
LEMMA JudgedInv ==
  ASSUME IInv, NEW w \in Runners, NEW next \in {"passing", "closing"}, NEW held \in Job \cup {None},
         pc[w] \in {"failing", "working"},
         pc' = [pc EXCEPT ![w] = next], job' = [job EXCEPT ![w] = held],
         next = "closing" => pc[w] = "working" /\ held \in Job /\ held.sub = job[w].sub,
         NEW fact \in BOOLEAN, NEW turn \in BOOLEAN, Told(w, job[w].sub, fact, turn),
         UNCHANGED <<ready, queue, snap, left, age>>, RunsGrow, faults' \in 0..MaxFaults
  PROVE  IInv' /\ ParksWell
<1> USE DEF IInv
<1>1. TallyOK /\ MemoryOK /\ WorldOK
  BY TypeParts
<1>2. TallyOK' /\ Honest' /\ ParksWell
  BY <1>1, InHandFacts, ToldInv
<1>3. pc'[w] = next /\ job'[w] = held /\ Alone(w)
  BY <1>1 DEF MemoryOK, Alone
<1>4. MemoryOK'
  BY <1>1 DEF MemoryOK, Places
<1>5. InHand' /\ ReadUnparked'
  <2>1. \A t \in Subs : t \in left'[w] \/ (pc'[w] \in {"failing", "working"} /\ job'[w].sub = t) =>
          snap'[w][t] < MaxUnmoved
    BY <1>3 DEF ReadUnparked
  <2> QED
    BY <1>3, <2>1, MemoryKept
<1>6. WorldOK' /\ RunsCover'
  BY <1>1, <1>3, RunsKept DEF WorldOK, RunsGrow
<1> QED
  BY <1>2, <1>4, <1>5, <1>6, PartsNext

\* Or its pass is over, or it dies.
LEMMA BrokenInv ==
  ASSUME IInv, NEW w \in Runners, pc[w] \in {"failing", "working"}, Asleep(w),
         age' \in [Runners -> [Subs -> 0..Cadence]],
         NEW fact \in BOOLEAN, NEW turn \in BOOLEAN, Told(w, job[w].sub, fact, turn),
         UNCHANGED <<ready, queue>>, RunsGrow, faults' \in 0..MaxFaults
  PROVE  IInv' /\ ParksWell
<1> USE DEF IInv
<1>1. TallyOK /\ MemoryOK /\ WorldOK
  BY TypeParts
<1>2. TallyOK' /\ Honest' /\ ParksWell
  BY <1>1, InHandFacts, ToldInv
<1>3. MemoryOK' /\ InHand' /\ ReadUnparked' /\ Alone(w) /\ pc'[w] = "resting"
  BY <1>1, AsleepFacts
<1>4. WorldOK' /\ RunsCover'
  BY <1>1, <1>3, RunsKept DEF WorldOK, RunsGrow
<1> QED
  BY <1>2, <1>3, <1>4, PartsNext

LEMMA FailedCheckInv ==
  ASSUME IInv, NEW w \in Runners, FailedCheck(w)
  PROVE  IInv' /\ ParksWell
<1>1. TallyOK /\ WorldOK
  BY TypeParts DEF IInv
<1>2. RunsGrow /\ faults' \in 0..MaxFaults /\ UNCHANGED <<ready, queue, snap, left, age>>
  BY <1>1, SameRuns DEF FailedCheck, WorldOK
<1>3. pc[w] = "failing" /\ pc' = [pc EXCEPT ![w] = "passing"] /\ job' = [job EXCEPT ![w] = None]
  BY DEF FailedCheck
<1>4. Told(w, job[w].sub, FALSE, FALSE)
  BY <1>1, <1>3, InHandFacts, NoteTold DEF FailedCheck
<1> QED
  BY <1>2, <1>3, <1>4, JudgedInv

LEMMA FailedCheckFailsInv ==
  ASSUME IInv, NEW w \in Runners, FailedCheckFails(w)
  PROVE  IInv' /\ ParksWell
<1>1. TallyOK /\ WorldOK /\ MemoryOK
  BY TypeParts DEF IInv
<1>2. pc[w] = "failing" /\ job[w].sub \in Subs
  BY InHandFacts DEF FailedCheckFails
<1>3. RunsGrow
  BY <1>1, <1>2, GrownRuns DEF FailedCheckFails
<1>4. faults' \in 0..MaxFaults /\ UNCHANGED <<ready, queue>>
  BY <1>1 DEF FailedCheckFails, WorldOK
<1>5. Told(w, job[w].sub, FALSE, FALSE)
  <2>1. CASE Note(w, job[w].sub, FALSE, FALSE, FALSE)
    BY <1>1, <1>2, <2>1, InHandFacts, NoteTold
  <2>2. CASE NoteLost(job[w].sub, FALSE, FALSE)
    BY <2>2 DEF Told
  <2> QED
    BY <2>1, <2>2 DEF FailedCheckFails
<1>6. CASE /\ pc' = [pc EXCEPT ![w] = "passing"] /\ job' = [job EXCEPT ![w] = None]
           /\ UNCHANGED <<snap, left, age>>
  BY <1>2, <1>3, <1>4, <1>5, <1>6, JudgedInv
<1>7. CASE Asleep(w) /\ age' = [age EXCEPT ![w] = Older(@)]
  <2>1. age' \in [Runners -> [Subs -> 0..Cadence]]
    BY <1>1, <1>7, OlderAge
  <2> QED
    BY <1>2, <1>3, <1>4, <1>5, <1>7, <2>1, BrokenInv
<1> QED
  BY <1>6, <1>7 DEF FailedCheckFails

\* What the re-count and the marks say is what there was to be seen.
LEMMA MovedIsFact ==
  ASSUME IInv, NEW w \in Runners, pc[w] = "working", NEW ok, NEW claimed
  PROVE  /\ Moved(ok, claimed, Advanced(job[w].found, queue[job[w].sub]), job[w].grew) <=> Fact(w)
         /\ Fact(w) \in BOOLEAN
         /\ job[w].sub \in Subs
         /\ [Fresh(job[w].sub) EXCEPT !.found = 0] \in Job
         /\ [Fresh(job[w].sub) EXCEPT !.found = 0].sub = job[w].sub
         /\ LET advanced == Advanced(job[w].found, queue[job[w].sub])
                held == [Fresh(job[w].sub) EXCEPT !.found = 0, !.advanced = advanced]
            IN  held \in Job /\ held.sub = job[w].sub
<1>1. job[w] \in Job
  BY DEF IInv, InHand
<1>2. job[w].sub \in Subs /\ job[w].found \in Nat /\ job[w].grew \in BOOLEAN
  BY <1>1 DEF Job
<1>3. queue[job[w].sub] \in Nat
  <2>1. queue \in [Subs -> 0..MaxQueue]
    BY DEF IInv, TypeOK
  <2>2. queue[job[w].sub] \in 0..MaxQueue
    BY <1>2, <2>1
  <2> QED
    BY <2>2, Bounds
<1> DEFINE s == job[w].sub
           found == job[w].found
           advanced == Advanced(found, queue[s])
<1>4. advanced \in Nat /\ (advanced > 0 <=> found > queue[s])
  BY <1>2, <1>3 DEF Advanced
<1>5. /\ Fresh(s) \in Job /\ Fresh(s).sub = s
      /\ Fresh(s) = [sub |-> s, found |-> queue[s], grew |-> FALSE, advanced |-> 0]
  BY <1>2, <1>3 DEF Fresh, Job
<1>6. Moved(ok, claimed, advanced, job[w].grew) <=> Fact(w)
  BY <1>4 DEF Moved, Fact
<1>7. [Fresh(s) EXCEPT !.found = 0] \in Job /\ [Fresh(s) EXCEPT !.found = 0].sub = s
  BY <1>2, <1>5 DEF Job
<1>8. /\ [Fresh(s) EXCEPT !.found = 0, !.advanced = advanced] \in Job
      /\ [Fresh(s) EXCEPT !.found = 0, !.advanced = advanced].sub = s
  <2> HIDE DEF advanced
  <2> QED
    BY <1>2, <1>4, <1>5 DEF Job
<1>9. Fact(w) \in BOOLEAN
  BY <1>2 DEF Fact
<1> QED
  BY <1>2, <1>6, <1>7, <1>8, <1>9

LEMMA ConcludeInv ==
  ASSUME IInv, NEW w \in Runners, Conclude(w)
  PROVE  IInv' /\ ParksWell
<1> DEFINE s == job[w].sub
           advanced == Advanced(job[w].found, queue[s])
           held == [Fresh(s) EXCEPT !.found = 0, !.advanced = advanced]
<1>1. pc[w] = "working" /\ pc' = [pc EXCEPT ![w] = "closing"] /\ job' = [job EXCEPT ![w] = held]
  BY DEF Conclude
<1>2. PICK ok \in BOOLEAN, claimed \in {0, 1} :
        Note(w, s, Moved(ok, claimed, advanced, job[w].grew), Fact(w), TRUE) /\ UNCHANGED faults
  BY DEF Conclude
<1>3. /\ Moved(ok, claimed, advanced, job[w].grew) <=> Fact(w)
      /\ Fact(w) \in BOOLEAN /\ held \in Job /\ held.sub = s
  BY <1>1, MovedIsFact
<1>4. Moved(ok, claimed, advanced, job[w].grew) \in BOOLEAN
  BY <1>1 DEF Moved, IInv, InHand, Job
<1>5. Moved(ok, claimed, advanced, job[w].grew) = Fact(w)
  BY <1>3, <1>4
<1>6. Note(w, s, Fact(w), Fact(w), TRUE)
  BY <1>2, <1>5
<1>7. TallyOK /\ WorldOK
  BY TypeParts DEF IInv
<1>8. UNCHANGED <<ready, queue, snap, left, age>> /\ faults' \in 0..MaxFaults /\ RunsGrow
  BY <1>2, <1>7, SameRuns DEF Conclude, WorldOK
<1> HIDE DEF held
<1>9. Told(w, s, Fact(w), TRUE)
  BY <1>1, <1>3, <1>6, <1>7, InHandFacts, NoteTold
<1> QED
  BY <1>1, <1>3, <1>8, <1>9, JudgedInv

LEMMA ConcludeBlindInv ==
  ASSUME IInv, NEW w \in Runners, ConcludeBlind(w)
  PROVE  IInv' /\ ParksWell
<1> DEFINE s == job[w].sub
           held == [Fresh(s) EXCEPT !.found = 0]
<1>1. /\ pc[w] = "working" /\ pc' = [pc EXCEPT ![w] = "closing"] /\ job' = [job EXCEPT ![w] = held]
      /\ UNCHANGED <<ready, queue, running, snap, left, age>>
  BY DEF ConcludeBlind
<1>2. held \in Job /\ held.sub = s /\ Fact(w) \in BOOLEAN
  BY <1>1, MovedIsFact
<1>3. TallyOK /\ WorldOK
  BY TypeParts DEF IInv
<1>4. faults' \in 0..MaxFaults /\ RunsGrow
  BY <1>1, <1>3, FailsType, SameRuns DEF ConcludeBlind, WorldOK
<1>5. Told(w, s, Fact(w), TRUE)
  <2>1. CASE NoteLost(s, Fact(w), TRUE)
    BY <2>1 DEF Told
  <2>2. CASE ~NoteLost(s, Fact(w), TRUE)
    <3>1. PICK verdict \in BOOLEAN :
            Report(w, s, verdict, Fact(w), TRUE, Unseen(w, s, verdict), Fact(w) /\ ~verdict)
      BY <2>2 DEF ConcludeBlind
    <3> QED
      BY <1>1, <1>2, <1>3, <3>1, InHandFacts, BlindTold
  <2> QED
    BY <2>1, <2>2
<1> HIDE DEF held
<1> QED
  BY <1>1, <1>2, <1>4, <1>5, JudgedInv

LEMMA ConcludeBreaksInv ==
  ASSUME IInv, NEW w \in Runners, ConcludeBreaks(w)
  PROVE  IInv' /\ ParksWell
<1>1. TallyOK /\ WorldOK /\ MemoryOK
  BY TypeParts DEF IInv
<1>2. pc[w] = "working" /\ Asleep(w) /\ UNCHANGED <<ready, queue>> /\ RunsGrow
  BY <1>1, SameRuns DEF ConcludeBreaks
<1>3. faults' \in 0..MaxFaults
  BY <1>1, FailsType DEF ConcludeBreaks, WorldOK
<1>4. age' \in [Runners -> [Subs -> 0..Cadence]]
  BY <1>1, OlderAge DEF ConcludeBreaks
<1>5. Fact(w) \in BOOLEAN /\ Told(w, job[w].sub, Fact(w), TRUE)
  BY <1>2, MovedIsFact DEF ConcludeBreaks, Told
<1> QED
  BY <1>2, <1>3, <1>4, <1>5, BrokenInv

LEMMA CloseInv ==
  ASSUME IInv, NEW w \in Runners, Close(w)
  PROVE  IInv' /\ ParksWell
<1> USE DEF IInv
<1>1. TallyOK /\ MemoryOK /\ WorldOK
  BY TypeParts
<1> DEFINE s == job[w].sub
<1>2. pc[w] = "closing" /\ s \in Subs
  BY DEF Close, InHand, Job
<1>3. TallyOK' /\ Honest' /\ ParksWell
  BY <1>1, TallyKept DEF Close
<1>4. MemoryOK' /\ InHand' /\ ReadUnparked' /\ Alone(w) /\ pc'[w] = "resting"
  <2>1. Asleep(w) /\ age' \in [Runners -> [Subs -> 0..Cadence]]
    BY <1>1, OlderAge DEF Close
  <2> QED
    BY <1>1, <2>1, AsleepFacts
<1>5. running' = [running EXCEPT ![s] = @ - 1] /\ running \in [Subs -> Nat]
  BY <1>1 DEF Close, WorldOK
<1> HIDE DEF s
<1>6. ASSUME NEW t \in Subs
      PROVE  running'[t] \in Nat /\ running'[t] >= Cardinality(Opened(t)')
  <2>1. Opened(t) \in SUBSET Runners /\ running[t] \in Nat /\ running[t] >= Cardinality(Opened(t))
    BY <1>5 DEF Opened, RunsCover
  <2>2. CASE t = s
    <3>1. w \in Opened(t)
      BY <1>2, <2>2 DEF Opened, s
    <3>2. Opened(t)' \in SUBSET (Opened(t) \ {w})
      BY <1>4 DEF Opened, Alone
    <3>3. /\ Cardinality(Opened(t) \ {w}) = Cardinality(Opened(t)) - 1
          /\ Cardinality(Opened(t)) \in Nat /\ Cardinality(Opened(t)) > 0
      BY <2>1, <3>1, OneRunLess
    <3>4. Opened(t) \ {w} \in SUBSET Runners
      BY <2>1
    <3>5. /\ Cardinality(Opened(t)') \in Nat
          /\ Cardinality(Opened(t)') <= Cardinality(Opened(t) \ {w})
      BY <3>2, <3>4, FewerRuns
    <3>6. running'[t] = running[t] - 1
      BY <1>5, <2>2
    <3> QED
      BY <2>1, <3>3, <3>5, <3>6
  <2>3. CASE t # s
    <3>1. Opened(t)' \in SUBSET Opened(t)
      BY <1>4 DEF Opened, Alone
    <3>2. /\ Cardinality(Opened(t)') <= Cardinality(Opened(t))
          /\ Cardinality(Opened(t)') \in Nat /\ Cardinality(Opened(t)) \in Nat
      BY <2>1, <3>1, FewerRuns
    <3>3. running'[t] = running[t]
      BY <1>5, <2>3
    <3> QED
      BY <2>1, <3>2, <3>3
  <2> QED
    BY <2>2, <2>3
<1>7. running' \in [Subs -> Nat]
  BY <1>5, <1>6
<1>8. WorldOK' /\ RunsCover'
  BY <1>1, <1>6, <1>7 DEF Close, WorldOK, RunsCover
<1> QED
  BY <1>3, <1>4, <1>8, PartsNext

LEMMA CrashInv ==
  ASSUME IInv, NEW w \in Runners, Crash(w)
  PROVE  IInv' /\ ParksWell
<1> USE DEF IInv
<1>1. TallyOK /\ MemoryOK /\ WorldOK
  BY TypeParts
<1>2. faults' \in 0..MaxFaults
  BY <1>1, FailsType DEF Crash, WorldOK
<1>3. age' \in [Runners -> [Subs -> 0..Cadence]] /\ Asleep(w)
  BY <1>1, Bounds DEF Crash, MemoryOK
<1>4. CASE pc[w] = "working"
  <2>1. Fact(w) \in BOOLEAN /\ Told(w, job[w].sub, Fact(w), TRUE)
    BY <1>4, MovedIsFact DEF Crash, Told
  <2>2. UNCHANGED <<ready, queue>> /\ RunsGrow
    BY <1>1, SameRuns DEF Crash
  <2> QED
    BY <1>2, <1>3, <1>4, <2>1, <2>2, BrokenInv
<1>5. CASE pc[w] # "working"
  <2>1. UNCHANGED <<sub, ready, queue, tally>> /\ RunsGrow
    BY <1>1, <1>5, SameRuns DEF Crash
  <2> QED
    BY <1>2, <1>3, <2>1, RestInv
<1> QED
  BY <1>4, <1>5

LEMMA RunnerInv ==
  ASSUME IInv, NEW w \in Runners, RunnerStep(w)
  PROVE  IInv' /\ ParksWell
<1>1. MemoryOK /\ WorldOK /\ faults \in 0..MaxFaults
  BY TypeParts DEF IInv, TypeOK
<1>2. CASE Sleep(w) \/ CloseFails(w)
  <2>1. /\ Asleep(w) /\ UNCHANGED <<sub, ready, queue, tally>> /\ running' = running
        /\ Fails \/ UNCHANGED faults
        /\ age' = [age EXCEPT ![w] = Older(@)]
    BY <1>2 DEF Sleep, CloseFails, rows
  <2>2. age' \in [Runners -> [Subs -> 0..Cadence]]
    BY <1>1, <2>1, OlderAge
  <2>3. faults' \in 0..MaxFaults
    BY <1>1, <2>1, FailsType
  <2> QED
    BY <1>1, <2>1, <2>2, <2>3, SameRuns, RestInv
<1> QED
  BY <1>2, WakeInv, LookInv, FailedCheckInv, FailedCheckFailsInv, ConcludeInv, ConcludeBlindInv,
     ConcludeBreaksInv, CloseInv DEF RunnerStep

-----------------------------------------------------------------------------
(* The records and the tenant                                               *)

LEMMA ActsInv ==
  ASSUME IInv, NEW s \in Subs, Evidence(s), queue' \in [Subs -> 0..MaxQueue],
         UNCHANGED <<sub, ready, running, pc, snap, left, age, faults, tally>>
  PROVE  IInv' /\ ParksWell
<1> USE DEF IInv
<1>1. TallyOK /\ MemoryOK /\ WorldOK
  BY TypeParts
<1>2. TallyOK' /\ Honest' /\ ParksWell
  BY <1>1, TallyKept
<1>3. ASSUME NEW w \in Runners
      PROVE  /\ job'[w] \in Job \cup {None}
             /\ pc[w] \in {"failing", "working", "closing"} => job'[w] \in Job /\ job'[w].sub = job[w].sub
  <2>1. job[w] \in Job \cup {None} /\ (pc[w] \in {"failing", "working", "closing"} => job[w] \in Job)
    BY <1>1 DEF MemoryOK, InHand
  <2>2. job'[w] = IF pc[w] = "working" /\ job[w].sub = s
                  THEN [job[w] EXCEPT !.grew = TRUE] ELSE job[w]
    BY DEF Evidence
  <2>3. CASE pc[w] = "working" /\ job[w].sub = s
    <3>1. [job[w] EXCEPT !.grew = TRUE] \in Job /\ [job[w] EXCEPT !.grew = TRUE].sub = job[w].sub
      BY <2>1, <2>3 DEF Job
    <3> QED
      BY <2>2, <2>3, <3>1
  <2>4. CASE ~(pc[w] = "working" /\ job[w].sub = s)
    BY <2>1, <2>2, <2>4
  <2> QED
    BY <2>3, <2>4
<1>4. job' \in [Runners -> Job \cup {None}]
  BY <1>3 DEF Evidence
<1>5. MemoryOK'
  BY <1>1, <1>4 DEF MemoryOK
<1>6. InHand'
  BY <1>3 DEF InHand
<1>7. ReadUnparked'
  BY <1>3 DEF ReadUnparked
<1>8. \A t \in Subs : Opened(t)' = Opened(t)
  BY <1>3 DEF Opened
<1>9. WorldOK' /\ RunsCover'
  BY <1>1, <1>8 DEF WorldOK, RunsCover
<1> QED
  BY <1>2, <1>5, <1>6, <1>7, <1>9, PartsNext

LEMMA AgentActsInv ==
  ASSUME IInv, NEW w \in Runners, AgentActs(w)
  PROVE  IInv' /\ ParksWell
<1>1. pc[w] = "working" /\ queue \in [Subs -> 0..MaxQueue]
  BY DEF AgentActs, IInv, TypeOK
<1>2. job[w].sub \in Subs
  BY <1>1 DEF IInv, InHand, Job
<1>3. queue[job[w].sub] \in 0..MaxQueue /\ queue[job[w].sub] > 0
  BY <1>1, <1>2 DEF AgentActs
<1>4. PICK after \in {queue[job[w].sub] - 1, queue[job[w].sub]} :
        queue' = [queue EXCEPT ![job[w].sub] = after]
  BY DEF AgentActs
<1>5. after \in 0..MaxQueue
  BY <1>3, <1>4, Bounds
<1>6. queue' \in [Subs -> 0..MaxQueue]
  BY <1>1, <1>4, <1>5
<1>7. Evidence(job[w].sub) /\ UNCHANGED <<sub, ready, running, pc, snap, left, age, faults, tally>>
  BY DEF AgentActs
<1> QED
  BY <1>2, <1>6, <1>7, ActsInv

LEMMA ArrivesInv ==
  ASSUME IInv, NEW s \in Subs, Arrives(s)
  PROVE  IInv' /\ ParksWell
<1>1. queue \in [Subs -> 0..MaxQueue]
  BY DEF IInv, TypeOK
<1>2. queue[s] + 1 \in 0..MaxQueue
  BY <1>1, Bounds DEF Arrives
<1>3. queue' \in [Subs -> 0..MaxQueue]
  BY <1>1, <1>2 DEF Arrives
<1>4. Evidence(s) /\ UNCHANGED <<sub, ready, running, pc, snap, left, age, faults, tally>>
  BY DEF Arrives
<1> QED
  BY <1>3, <1>4, ActsInv

\* A step of the people of the tenant that leaves every replica its memory.
LEMMA OutsideInv ==
  ASSUME IInv, TallyOK', Honest', ready' \subseteq Subs, queue' \in [Subs -> 0..MaxQueue],
         UNCHANGED <<running, memory, faults>>
  PROVE  IInv'
<1>1. MemoryOK /\ WorldOK
  BY TypeParts DEF IInv
<1>2. MemoryOK' /\ WorldOK'
  BY <1>1 DEF MemoryOK, WorldOK, memory
<1>3. InHand' /\ ReadUnparked'
  BY DEF IInv, InHand, ReadUnparked, memory
<1>4. \A t \in Subs : Opened(t)' = Opened(t)
  BY DEF Opened, memory
<1>5. RunsCover'
  BY <1>4 DEF IInv, RunsCover
<1> QED
  BY <1>2, <1>3, <1>5, PartsNext

LEMMA WithdrawnInv ==
  ASSUME IInv, NEW s \in Subs, Withdrawn(s)
  PROVE  IInv' /\ ParksWell
<1>1. TallyOK' /\ Honest' /\ ParksWell
  BY TypeParts, TallyKept DEF IInv, Withdrawn
<1>2. queue \in [Subs -> 0..MaxQueue] /\ ready \subseteq Subs
  BY DEF IInv, TypeOK
<1>3. queue[s] - 1 \in 0..MaxQueue
  BY <1>2, Bounds DEF Withdrawn
<1>4. queue' \in [Subs -> 0..MaxQueue] /\ ready' \subseteq Subs
  BY <1>2, <1>3 DEF Withdrawn
<1> QED
  BY <1>1, <1>4, OutsideInv DEF Withdrawn

\* The row of one subscription after the tenant has cleared or switched it.
LEMMA UnparkInv ==
  ASSUME IInv, NEW s \in Subs, Unpark(s)
  PROVE  IInv' /\ ParksWell
<1>1. TallyOK /\ Honest
  BY TypeParts DEF IInv
<1>2. PICK on \in {TRUE, sub[s].enabled}, published \in {ready, ready \cup {s}} :
        /\ sub' = [sub EXCEPT ![s] = [enabled |-> on, parked |-> FALSE, unmoved |-> 0]]
        /\ ready' = published
  BY DEF Unpark
<1>3. on \in BOOLEAN
  BY <1>1, <1>2 DEF TallyOK, Row
<1> DEFINE x == [enabled |-> on, parked |-> FALSE, unmoved |-> 0]
<1>4. x \in Row /\ x.parked = FALSE /\ x.unmoved = 0
  BY <1>3 DEF Row
<1> HIDE DEF x
<1>5. /\ sub' \in [Subs -> Row] /\ sub'[s].parked = FALSE /\ sub'[s].unmoved = 0
      /\ \A t \in Subs \ {s} : sub'[t] = sub[t]
  BY <1>1, <1>2, <1>4 DEF TallyOK, x
<1>6. /\ barren' \in [Subs -> Nat] /\ spent' \in [Subs -> Nat] /\ lost' \in [Subs -> Nat]
      /\ barren'[s] = 0 /\ spent'[s] = 0 /\ lost'[s] = 0 /\ muddled' = muddled
      /\ \A t \in Subs \ {s} : barren'[t] = barren[t] /\ spent'[t] = spent[t] /\ lost'[t] = lost[t]
  BY <1>1 DEF TallyOK, Unpark, Cleared
<1>7. TallyOK'
  BY <1>1, <1>5, <1>6 DEF TallyOK
<1>8. Full(s)' /\ Counted(s)' /\ Deserved(s)'
  BY <1>5, <1>6, Bounds DEF Full, Counted, Deserved
<1>9. ASSUME NEW t \in Subs \ {s}
      PROVE  Full(t)' /\ Counted(t)' /\ Deserved(t)'
  BY <1>1, <1>5, <1>6 DEF Honest, Full, Counted, Deserved
<1>10. Honest'
  BY <1>8, <1>9 DEF Honest
<1>11. ParksWell
  BY <1>5 DEF ParksWell
<1>12. ready' \subseteq Subs /\ queue' \in [Subs -> 0..MaxQueue] /\ UNCHANGED <<running, memory, faults>>
  BY <1>2 DEF Unpark, IInv, TypeOK
<1> QED
  BY <1>7, <1>10, <1>11, <1>12, OutsideInv

LEMMA SwitchInv ==
  ASSUME IInv, NEW s \in Subs, Switch(s)
  PROVE  IInv' /\ ParksWell
<1>1. TallyOK /\ Honest
  BY TypeParts DEF IInv
<1> DEFINE x == [sub[s] EXCEPT !.enabled = ~@]
<1>2. sub' = [sub EXCEPT ![s] = x]
  BY DEF Switch
<1>3. sub[s] \in Row
  BY <1>1 DEF TallyOK
<1>4. x \in Row /\ x.parked = sub[s].parked /\ x.unmoved = sub[s].unmoved
  BY <1>3 DEF Row
<1> HIDE DEF x
<1>5. sub' \in [Subs -> Row] /\ \A t \in Subs : sub'[t].parked = sub[t].parked /\ sub'[t].unmoved = sub[t].unmoved
  BY <1>1, <1>2, <1>4 DEF TallyOK
<1>6. UNCHANGED tally
  BY DEF Switch
<1>7. TallyOK' /\ Honest'
  BY <1>1, <1>5, <1>6 DEF TallyOK, Honest, Full, Counted, Deserved, tally
<1>8. ParksWell
  BY <1>5 DEF ParksWell
<1>9. ready' \subseteq Subs /\ queue' \in [Subs -> 0..MaxQueue] /\ UNCHANGED <<running, memory, faults>>
  BY DEF Switch, IInv, TypeOK
<1> QED
  BY <1>7, <1>8, <1>9, OutsideInv

LEMMA PublishInv ==
  ASSUME IInv, NEW s \in Subs, Publish(s)
  PROVE  IInv' /\ ParksWell
<1>1. TallyOK' /\ Honest' /\ ParksWell
  BY TypeParts, TallyKept DEF IInv, Publish
<1>2. ready' \subseteq Subs /\ queue' \in [Subs -> 0..MaxQueue] /\ UNCHANGED <<running, memory, faults>>
  BY DEF Publish, IInv, TypeOK
<1> QED
  BY <1>1, <1>2, OutsideInv

-----------------------------------------------------------------------------
(* The theorems                                                             *)

LEMMA InitIInv ==
  ASSUME Init
  PROVE  IInv
<1>1. PICK fleet \in Fleets :
        /\ sub = [s \in Subs |-> [enabled |-> s \in fleet[2], parked |-> FALSE, unmoved |-> 0]]
        /\ pc = [w \in Runners |-> IF w \in fleet[1] THEN "resting" ELSE "absent"]
  BY DEF Init
<1>2. TallyOK /\ MemoryOK /\ WorldOK
  BY <1>1, Bounds DEF Init, TallyOK, MemoryOK, WorldOK, Row, Places, Unread
<1>3. InHand /\ ReadUnparked
  BY <1>1 DEF Init, InHand, ReadUnparked
<1>4. Honest
  BY <1>1, Bounds DEF Init, Honest, Full, Counted, Deserved
<1>5. ASSUME NEW s \in Subs
      PROVE  running[s] >= Cardinality(Opened(s))
  <2>1. Opened(s) = {} /\ running[s] = 0
    BY <1>1 DEF Opened, Init
  <2> QED
    BY <2>1, FS_EmptySet
<1> QED
  BY <1>2, <1>3, <1>4, <1>5, TypeParts DEF IInv, RunsCover

LEMMA NextIInv ==
  ASSUME IInv, Next
  PROVE  IInv' /\ ParksWell
<1>1. ASSUME NEW w \in Runners, RunnerStep(w) \/ AgentActs(w) \/ Crash(w)
      PROVE  IInv' /\ ParksWell
  BY <1>1, RunnerInv, AgentActsInv, CrashInv
<1>2. ASSUME NEW s \in Subs, Arrives(s) \/ Withdrawn(s)
      PROVE  IInv' /\ ParksWell
  BY <1>2, ArrivesInv, WithdrawnInv
<1>3. ASSUME NEW s \in Attended, Unpark(s) \/ Switch(s) \/ Publish(s)
      PROVE  IInv' /\ ParksWell
  BY <1>3, UnparkInv, SwitchInv, PublishInv
<1> QED
  BY <1>1, <1>2, <1>3 DEF Next

LEMMA StutterIInv ==
  ASSUME IInv, UNCHANGED vars
  PROVE  IInv' /\ ParksWell
<1>1. TallyOK' /\ Honest' /\ ParksWell
  BY TypeParts, TallyKept DEF IInv, vars, rows
<1>2. ready' \subseteq Subs /\ queue' \in [Subs -> 0..MaxQueue] /\ UNCHANGED <<running, memory, faults>>
  BY DEF vars, rows, IInv, TypeOK
<1> QED
  BY <1>1, <1>2, OutsideInv

\* The rows of the runs, the subscriptions and what each replica remembers stay
\* what the rest of the argument needs: the verdicts on a run that is gone, or
\* on a subscription that was parked when its pass began, do not occur.
THEOREM RunnerInvariance == Spec => []IInv
<1>1. Init => IInv
  BY InitIInv
<1>2. IInv /\ [Next]_vars => IInv'
  BY NextIInv, StutterIInv
<1> QED
  BY <1>1, <1>2, PTL DEF Spec

\* However few passes the cadence is: no run advances less than nothing, and close_run never closes more runs than
\* were opened, whatever fails or dies between the two.
THEOREM RunnerTypeCorrect == Spec => []TypeOK
<1>1. IInv => TypeOK
  BY DEF IInv
<1> QED
  BY <1>1, RunnerInvariance, PTL

\* What a queue that will not drain costs (max_unmoved_runs): with any number of
\* replicas, and whatever fails, the turns in a row in which nothing moved are no
\* more than the limit and those the row missed, as SpendIsBounded lists them.
THEOREM SpendBounded == Spec => []SpendIsBounded
<1>1. ASSUME IInv, NEW s \in Subs
      PROVE  spent[s] <= MaxUnmoved + lost[s]
  <2>1. spent[s] <= sub[s].unmoved + lost[s] /\ sub[s].unmoved <= MaxUnmoved
    BY <1>1 DEF IInv, Honest, Full, Counted
  <2>2. sub[s] \in Row /\ spent[s] \in Nat /\ lost[s] \in Nat
    BY <1>1 DEF IInv, TypeOK
  <2>3. sub[s].unmoved \in Nat
    BY <2>2 DEF Row
  <2> QED
    BY <2>1, <2>2, <2>3, Bounds
<1>2. IInv => SpendIsBounded
  BY <1>1 DEF SpendIsBounded
<1> QED
  BY <1>2, RunnerInvariance, PTL

\* note_progress parks a subscription only when max_unmoved_runs verdicts in a row
\* found that nothing had moved, unless two passes wrote its count over each other
\* or a report that something moved was lost or was made without the counts.
THEOREM ParkDeserved == Spec => ParkIsDeserved
<1>1. IInv /\ [Next]_vars =>
        [\A s \in Subs \ muddled' : sub'[s].parked /\ ~sub[s].parked => barren'[s] >= MaxUnmoved]_vars
  BY NextIInv DEF ParksWell
<1> QED
  BY <1>1, RunnerInvariance, PTL DEF Spec, ParkIsDeserved
=============================================================================
