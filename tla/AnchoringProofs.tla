-------------------------- MODULE AnchoringProofs --------------------------
(***************************************************************************)
(* Proofs about Anchoring, for any number of runs and receipts, any clock  *)
(* and any resolution of the authority's time that divides a day.          *)
(***************************************************************************)
EXTENDS Anchoring, NumberLemmas, TLAPS

-----------------------------------------------------------------------------
(* The clock *)

LEMMA ClockConstants ==
    DayLength \in Nat \ {0} /\ Grain \in Nat \ {0} /\ MaxTime \in Nat
  BY ClockIsPositive, AnchorBoundsAreNaturals

LEMMA DayOfTimes ==
    /\ \A t \in Times : t \in Nat /\ DayOf(t) \in Days
    /\ Days \subseteq Nat
  BY ClockConstants, Division, DivisionIsMonotone DEF DayOf, Days, Times

LEMMA DayBounds ==
    ASSUME NEW t \in Nat, NEW d \in Nat
    PROVE  /\ DayOf(t) \in Nat
           /\ d <= DayOf(t) <=> d * DayLength <= t
           /\ d * DayLength \in Nat
  BY ClockConstants, QuotientBounds, Division, ProductIsMonotone DEF DayOf

\* A midnight is a time that the authority can state exactly.
LEMMA MidnightIsAGrain ==
    ASSUME NEW d \in Nat
    PROVE  \E q \in Nat : d * DayLength = q * Grain
  <1> DEFINE k == DayLength \div Grain
  <1>1. k \in Nat /\ DayLength = Grain * k
    <2>1. DayLength % Grain = 0
      BY ClockIsPositive
    <2>2. DayLength = Grain * k + (DayLength % Grain) /\ k \in Nat
      BY ClockConstants, Division
    <2> QED
      BY <2>1, <2>2, ClockConstants
  <1> HIDE DEF k
  <1>2. d * DayLength = (d * k) * Grain /\ d * k \in Nat
    BY <1>1, ClockConstants
  <1> QED
    BY <1>2

-----------------------------------------------------------------------------
(* The inductive invariant *)

\* Receipts are signed in the order of the chain, and none in the future; what
\* an open transaction has signed is later than all that was committed when it
\* read the head.
ChainIsTimed ==
    /\ Len(receipts) <= MaxReceipts
    /\ \A i, k \in Committed : i <= k => SignedAt(i) <= SignedAt(k)
    /\ \A i \in Committed : SignedAt(i) <= now
    /\ \A x \in drafts :
           /\ x.seq <= Len(receipts)
           /\ x.signed <= now
           /\ \A i \in Committed : i < x.seq => SignedAt(i) <= x.signed

\* A day with receipts has a latest one.
DaysHaveALatest ==
    \A d \in Days :
        \/ ReceiptsOfDay(d) = {}
        \/ \E i \in ReceiptsOfDay(d) : \A k \in ReceiptsOfDay(d) : k <= i

\* i is a committed receipt of day d, and at, if any, a stamp not before it.
Witnesses(i, at, d) ==
    /\ i = None <=> at = None
    /\ i # None => i \in ReceiptsOfDay(d) /\ d * DayLength <= at

\* What a run knows fits how far it has come.
RunIsSound(j) ==
    /\ pc[j] # "idle" => run[j] \in 1 .. runs /\ day[j] \in Days
    /\ pc[j] \in {"idle", "read"} => root[j] = None /\ stamp[j] = None
    /\ pc[j] = "stamp" => root[j] \in ReceiptsOfDay(day[j]) /\ stamp[j] = None
    /\ pc[j] \in {"delete", "insert", "commit"} => Witnesses(root[j], stamp[j], day[j])

RowIsSound(d) ==
    anchors[d] # None =>
        /\ anchors[d].id <= runs
        /\ Witnesses(anchors[d].root, anchors[d].at, d)

\* Row ids are never used twice: not by two open runs, nor by an open run and a
\* row that is, or was, committed; so the tombstone that a run has read is the
\* only row that can have its id.
IdsAreFresh(j) ==
    pc[j] # "idle" =>
        /\ \A k \in Jobs \ {j} : pc[k] # "idle" => run[k] # run[j]
        /\ \A d \in Days : anchors[d] # None => anchors[d].id # run[j]
        /\ \A k \in Jobs : pc[k] # "idle" => old[k] # run[j]
        /\ old[j] # None =>
               /\ old[j] <= runs
               /\ RowId(day[j]) = old[j] => ~ Anchored(anchors[day[j]])

\* A run that is about to commit is alone with the entry of its day.
HasTheEntry(j) ==
    pc[j] = "commit" =>
        /\ RowId(day[j]) \in {None, old[j]}
        /\ \A k \in Jobs : Rival(j, k) => pc[k] # "commit"

AInv ==
    /\ TypeOK
    /\ ChainIsTimed
    /\ DaysHaveALatest
    /\ \A d \in Days : RowIsSound(d)
    /\ \A j \in Jobs : RunIsSound(j) /\ IdsAreFresh(j) /\ HasTheEntry(j)

-----------------------------------------------------------------------------
(* Steps *)

\* A step of run j that leaves the tables alone.
Advances(j) ==
    ReadLatest(j) \/ Stamp(j) \/ StampFails(j) \/ Delete(j) \/ Insert(j)

\* A run that ends without a row.
GivesUp(j) == pc[j] # "idle" /\ Close(j) /\ UNCHANGED anchors

LEMMA StepKinds ==
    ASSUME [Next]_vars
    PROVE  \/ UNCHANGED vars
           \/ Tick
           \/ Build
           \/ \E x \in drafts : Publish(x) \/ Discard(x)
           \/ \E d \in Days : AlreadyAnchored(d)
           \/ \E j \in Jobs : \/ \E d \in Days : Start(j, d)
                              \/ Advances(j) \/ GivesUp(j) \/ Commit(j)
  <1>1. ASSUME NEW j \in Jobs, Step(j) \/ Abort(j) PROVE Advances(j) \/ GivesUp(j) \/ Commit(j)
    BY <1>1 DEF Step, Abort, InsertFails, Advances, GivesUp
  <1> QED
    BY <1>1 DEF Next, Quiet, Ingest

\* The chain is as it was, or a draft has been put at its end.
LEMMA HowTheChainGrows ==
    ASSUME [Next]_vars
    PROVE  \/ UNCHANGED receipts
           \/ \E x \in drafts : Publish(x)
  <1>1. ASSUME NEW j \in Jobs, Advances(j) PROVE UNCHANGED receipts
    BY <1>1 DEF Advances, ReadLatest, Stamp, StampFails, Delete, Insert, chain
  <1>2. ASSUME NEW j \in Jobs, GivesUp(j) \/ Commit(j) PROVE UNCHANGED receipts
    BY <1>2 DEF GivesUp, Commit, Close, chain
  <1> QED
    BY <1>1, <1>2, StepKinds DEF vars, chain, Tick, Build, Discard, AlreadyAnchored, Start

\* The receipt that is put at the end of the chain.
LEMMA Published ==
    ASSUME TypeOK, ChainIsTimed, NEW x \in drafts, Publish(x)
    PROVE  /\ x.signed \in Times /\ x.seq \in Positions
           /\ Len(receipts) \in Nat /\ Len(receipts') = Len(receipts) + 1
           /\ Len(receipts) < MaxReceipts
           /\ Committed' = Committed \cup {Len(receipts)}
           /\ \A i \in Committed : SignedAt(i)' = SignedAt(i) /\ SignedAt(i) \in Times
           /\ receipts'[Len(receipts) + 1] = x.signed
           /\ \A i \in Committed : i < x.seq
           /\ receipts' \in Seq(Times)
           /\ Committed \subseteq Nat
  <1>1. x.signed \in Times /\ x.seq \in Positions /\ receipts \in Seq(Times)
    BY DEF TypeOK
  <1>2. receipts' = Append(receipts, x.signed) /\ x.seq = Len(receipts)
    BY DEF Publish
  <1>3. /\ Len(receipts) \in Nat /\ Len(receipts') = Len(receipts) + 1
        /\ receipts' \in Seq(Times)
    BY <1>1, <1>2
  <1>4. Len(receipts) < MaxReceipts
    BY <1>1, <1>2, <1>3, AnchorBoundsAreNaturals DEF Positions
  <1>5. Committed' = Committed \cup {Len(receipts)}
    BY <1>3 DEF Committed
  <1>6. receipts'[Len(receipts) + 1] = x.signed
    BY <1>1, <1>2, <1>3
  <1>7. \A i \in Committed : /\ i + 1 \in 1 .. Len(receipts) /\ i < x.seq /\ i \in Nat
                             /\ SignedAt(i)' = SignedAt(i) /\ SignedAt(i) \in Times
    BY <1>1, <1>2, <1>3 DEF SignedAt, Committed
  <1> QED
    BY <1>1, <1>3, <1>4, <1>5, <1>6, <1>7

\* What a receipt of a day is, it stays.
LEMMA ReceiptsOfDayStay ==
    ASSUME TypeOK, ChainIsTimed, [Next]_vars, NEW d
    PROVE  ReceiptsOfDay(d) \subseteq ReceiptsOfDay(d)'
  <1>1. CASE UNCHANGED receipts
    BY <1>1 DEF ReceiptsOfDay, Committed, SignedAt
  <1>2. ASSUME NEW x \in drafts, Publish(x) PROVE ReceiptsOfDay(d) \subseteq ReceiptsOfDay(d)'
    BY <1>2, Published DEF ReceiptsOfDay
  <1> QED
    BY <1>1, <1>2, HowTheChainGrows

LEMMA WitnessesStay ==
    ASSUME TypeOK, ChainIsTimed, [Next]_vars, NEW i, NEW at, NEW d, Witnesses(i, at, d)
    PROVE  /\ i = None <=> at = None
           /\ i # None => i \in ReceiptsOfDay(d)' /\ d * DayLength <= at
  BY ReceiptsOfDayStay DEF Witnesses

\* A step leaves receipts, drafts and clock alone, or is one of these.
LEMMA HowTheClockRuns ==
    ASSUME [Next]_vars
    PROVE  \/ UNCHANGED <<now, receipts, drafts>>
           \/ Tick
           \/ Build
           \/ \E x \in drafts : Publish(x) \/ Discard(x)
  <1>1. ASSUME NEW j \in Jobs, Advances(j) PROVE UNCHANGED <<now, receipts, drafts>>
    BY <1>1 DEF Advances, ReadLatest, Stamp, StampFails, Delete, Insert, chain
  <1>2. ASSUME NEW j \in Jobs, GivesUp(j) \/ Commit(j) PROVE UNCHANGED <<now, receipts, drafts>>
    BY <1>2 DEF GivesUp, Commit, Close, chain
  <1> QED
    BY <1>1, <1>2, StepKinds DEF vars, chain, AlreadyAnchored, Start

-----------------------------------------------------------------------------
(* Every step preserves the invariant *)

LEMMA ChainIsTimedNext ==
    ASSUME TypeOK, ChainIsTimed, [Next]_vars
    PROVE  ChainIsTimed'
  <1>0. /\ now \in Nat /\ receipts \in Seq(Times) /\ Len(receipts) \in Nat
        /\ MaxReceipts \in Nat /\ Times \subseteq Nat /\ Positions \subseteq Nat
        /\ \A i \in Committed : SignedAt(i) \in Times
        /\ drafts \subseteq [seq : Positions, signed : Times]
    BY ClockConstants, AnchorBoundsAreNaturals DEF TypeOK, Times, Positions, Committed, SignedAt
  <1>1. CASE UNCHANGED <<now, receipts, drafts>>
    BY <1>1 DEF ChainIsTimed, Committed, SignedAt
  <1>2. CASE Tick
    <2>1. receipts' = receipts /\ drafts' = drafts /\ now' = now + 1
      BY <1>2 DEF Tick, chain
    <2>2. Committed' = Committed /\ \A i : SignedAt(i)' = SignedAt(i)
      BY <2>1 DEF Committed, SignedAt
    <2>3. /\ \A i \in Committed : SignedAt(i) \in Nat
          /\ \A x \in drafts : x.signed \in Nat
      BY <1>0
    <2> QED
      BY <1>0, <2>1, <2>2, <2>3 DEF ChainIsTimed
  <1>3. CASE Build
    <2>1. /\ receipts' = receipts /\ now' = now
          /\ drafts' = drafts \cup {[seq |-> Len(receipts), signed |-> now]}
      BY <1>3 DEF Build
    <2>2. Committed' = Committed /\ \A i : SignedAt(i)' = SignedAt(i)
      BY <2>1 DEF Committed, SignedAt
    <2> QED
      BY <1>0, <2>1, <2>2 DEF ChainIsTimed
  <1>4. ASSUME NEW x \in drafts, Discard(x) PROVE ChainIsTimed'
    BY <1>4 DEF ChainIsTimed, Committed, SignedAt, Discard
  <1>5. ASSUME NEW x \in drafts, Publish(x) PROVE ChainIsTimed'
    <2> DEFINE n == Len(receipts)
    <2>1. /\ x.signed \in Nat /\ n \in Nat /\ Len(receipts') = n + 1 /\ n < MaxReceipts
          /\ Committed' = Committed \cup {n} /\ Committed \subseteq Nat
          /\ \A i \in Committed : receipts'[i + 1] = SignedAt(i) /\ SignedAt(i) \in Nat
          /\ receipts'[n + 1] = x.signed
          /\ \A i \in Committed : i < x.seq /\ i < n
      <3>1. \A i \in Committed : SignedAt(i)' = receipts'[i + 1] /\ i < n
        BY <1>0 DEF SignedAt, Committed
      <3> QED
        BY <1>0, <1>5, <3>1, Published
    <2>2. now' = now /\ drafts' = drafts \ {x}
      BY <1>5 DEF Publish
    <2>3. x.signed <= now /\ \A i \in Committed : SignedAt(i) <= x.signed
      BY <2>1 DEF ChainIsTimed
    <2> HIDE DEF n
    <2>4. \A i, k \in Committed' : i <= k => receipts'[i + 1] <= receipts'[k + 1]
      BY <2>1, <2>3 DEF ChainIsTimed
    <2>5. \A i \in Committed' : receipts'[i + 1] <= now'
      BY <2>1, <2>2, <2>3 DEF ChainIsTimed
    <2>6. ASSUME NEW y \in drafts'
          PROVE  /\ y.seq <= Len(receipts') /\ y.signed <= now'
                 /\ \A i \in Committed' : i < y.seq => receipts'[i + 1] <= y.signed
      <3>1. y \in drafts /\ y.seq \in Nat /\ y.seq <= n /\ y.signed <= now
        BY <1>0, <2>2 DEF ChainIsTimed, n
      <3> QED
        BY <2>1, <2>2, <3>1 DEF ChainIsTimed
    <2>7. Len(receipts') <= MaxReceipts
      BY <1>0, <2>1
    <2> QED
      BY <2>4, <2>5, <2>6, <2>7 DEF ChainIsTimed, SignedAt
  <1> QED
    BY <1>1, <1>2, <1>3, <1>4, <1>5, HowTheClockRuns

LEMMA DaysHaveALatestNext ==
    ASSUME TypeOK, ChainIsTimed, DaysHaveALatest, [Next]_vars
    PROVE  DaysHaveALatest'
  <1>1. CASE UNCHANGED receipts
    BY <1>1 DEF DaysHaveALatest, ReceiptsOfDay, Committed, SignedAt
  <1>2. ASSUME NEW x \in drafts, Publish(x), NEW d \in Days
        PROVE  \/ ReceiptsOfDay(d)' = {}
               \/ \E i \in ReceiptsOfDay(d)' : \A k \in ReceiptsOfDay(d)' : k <= i
    <2> DEFINE n == Len(receipts)
    <2>1. /\ n \in Nat /\ Committed' = Committed \cup {n} /\ Committed \subseteq Nat
          /\ \A i \in Committed : receipts'[i + 1] = receipts[i + 1]
          /\ \A i \in Committed : i <= n
      BY <1>2, Published DEF SignedAt, Committed
    <2> HIDE DEF n
    <2>2. ReceiptsOfDay(d)' =
              ReceiptsOfDay(d) \cup (IF DayOf(receipts'[n + 1]) = d THEN {n} ELSE {})
      BY <2>1 DEF ReceiptsOfDay, SignedAt
    <2>3. n \in Nat /\ \A i \in ReceiptsOfDay(d) : i \in Nat /\ i <= n
      <3>1. ReceiptsOfDay(d) \subseteq Committed
        BY DEF ReceiptsOfDay
      <3> QED
        BY <2>1, <3>1
    <2>4. CASE ReceiptsOfDay(d)' = ReceiptsOfDay(d)
      BY <2>4 DEF DaysHaveALatest
    <2>5. CASE ReceiptsOfDay(d)' = ReceiptsOfDay(d) \cup {n}
      <3> DEFINE R == ReceiptsOfDay(d)
                 S == ReceiptsOfDay(d)'
      <3>1. n <= n /\ \A k \in R : k <= n
        BY <2>3
      <3>2. S = R \cup {n}
        BY <2>5
      <3> HIDE DEF R, S
      <3>3. n \in S /\ \A k \in S : k <= n
        BY <3>1, <3>2
      <3> QED
        BY <3>3 DEF S
    <2>6. ReceiptsOfDay(d)' \in {ReceiptsOfDay(d), ReceiptsOfDay(d) \cup {n}}
      BY <2>2
    <2> QED
      BY <2>4, <2>5, <2>6
  <1> QED
    BY <1>1, <1>2, HowTheChainGrows DEF DaysHaveALatest

LEMMA RowIsSoundNext ==
    ASSUME AInv, [Next]_vars, NEW d \in Days
    PROVE  RowIsSound(d)'
  <1>0. TypeOK /\ ChainIsTimed /\ RowIsSound(d) /\ \A j \in Jobs : RunIsSound(j)
    BY DEF AInv
  <1>1. anchors \in [Days -> Row \cup {None}] /\ runs \in Nat /\ MaxRuns \in Nat
    BY <1>0, AnchorBoundsAreNaturals DEF TypeOK
  <1>2. CASE anchors'[d] = anchors[d] /\ runs' \in Nat /\ runs <= runs'
    <2>1. anchors[d] # None => anchors[d].id \in Nat
      BY <1>1, AnchorBoundsAreNaturals DEF Row
    <2>2. anchors'[d] # None =>
              /\ anchors'[d].id <= runs'
              /\ anchors'[d].root = None <=> anchors'[d].at = None
              /\ anchors'[d].root # None => /\ anchors'[d].root \in ReceiptsOfDay(d)'
                                            /\ d * DayLength <= anchors'[d].at
      BY <1>0, <1>1, <1>2, <2>1, WitnessesStay DEF RowIsSound
    <2> QED
      BY <2>2 DEF RowIsSound, Witnesses
  <1>3. ASSUME NEW j \in Jobs, Commit(j), day[j] = d PROVE RowIsSound(d)'
    <2>1. /\ anchors'[d] = [id |-> run[j], root |-> root[j], at |-> stamp[j]]
          /\ runs' = runs /\ receipts' = receipts
      BY <1>1, <1>3 DEF Commit, Close, chain
    <2>2. run[j] \in 1 .. runs /\ Witnesses(root[j], stamp[j], d)
      BY <1>0, <1>3 DEF RunIsSound, Commit
    <2>3. ReceiptsOfDay(d)' = ReceiptsOfDay(d)
      BY <2>1 DEF ReceiptsOfDay, Committed, SignedAt
    <2> QED
      BY <1>1, <2>1, <2>2, <2>3 DEF RowIsSound, Witnesses
  <1>4. ASSUME NEW j \in Jobs, Commit(j), day[j] # d PROVE anchors'[d] = anchors[d] /\ runs' = runs
    BY <1>1, <1>4 DEF Commit, Close
  <1>5. ASSUME NEW j \in Jobs, Advances(j) \/ GivesUp(j) PROVE anchors' = anchors /\ runs' = runs
    BY <1>5 DEF Advances, GivesUp, ReadLatest, Stamp, StampFails, Delete, Insert, Close
  <1>6. CASE \/ UNCHANGED vars \/ Tick \/ Build
             \/ \E x \in drafts : Publish(x) \/ Discard(x)
             \/ \E e \in Days : AlreadyAnchored(e) \/ \E j \in Jobs : Start(j, e)
    <2>1. anchors' = anchors /\ runs' \in {runs, runs + 1}
      BY <1>6 DEF vars, Tick, Build, Publish, Discard, AlreadyAnchored, Start
    <2> QED
      BY <1>1, <1>2, <2>1
  <1> QED
    BY <1>1, <1>2, <1>3, <1>4, <1>5, <1>6, StepKinds

\* What a run reads as the latest receipt of its day.
LEMMA LatestIsOfDay ==
    ASSUME DaysHaveALatest, NEW d \in Days
    PROVE  /\ ReceiptsOfDay(d) = {} => LatestOfDay(d) = None
           /\ ReceiptsOfDay(d) # {} => LatestOfDay(d) \in ReceiptsOfDay(d)
  BY DEF DaysHaveALatest, LatestOfDay

\* A receipt is a natural number, and so not None.
LEMMA ReceiptsOfDayType ==
    ASSUME TypeOK, ChainIsTimed, NEW d
    PROVE  /\ ReceiptsOfDay(d) \subseteq Positions /\ ReceiptsOfDay(d) \subseteq Committed
           /\ None \notin ReceiptsOfDay(d)
           /\ \A i \in Committed : i \in Nat /\ SignedAt(i) \in Times
  BY AnchorBoundsAreNaturals, NoneIsNoValue
     DEF ReceiptsOfDay, Committed, Positions, ChainIsTimed, TypeOK, SignedAt

\* The authority's time is not before the day of a receipt that is there.
LEMMA StampIsOnTheDay ==
    ASSUME TypeOK, ChainIsTimed, NEW d \in Days, ReceiptsOfDay(d) # {}
    PROVE  d * DayLength <= now - (now % Grain) /\ now - (now % Grain) \in Times
  <1>0. now \in Nat /\ d \in Nat /\ Grain \in Nat \ {0} /\ now \in Times
    BY ClockConstants, DayOfTimes DEF TypeOK
  <1>1. PICK i \in ReceiptsOfDay(d) : TRUE
    OBVIOUS
  <1>2. SignedAt(i) \in Nat /\ SignedAt(i) <= now /\ DayOf(SignedAt(i)) = d
    BY ReceiptsOfDayType, DayOfTimes DEF ReceiptsOfDay, ChainIsTimed
  <1>3. d * DayLength <= SignedAt(i) /\ d * DayLength \in Nat
    BY <1>0, <1>2, DayBounds
  <1>4. PICK q \in Nat : d * DayLength = q * Grain
    BY <1>0, MidnightIsAGrain
  <1>5. q * Grain <= now
    BY <1>0, <1>2, <1>3, <1>4
  <1>6. q * Grain <= now - (now % Grain)
    BY <1>0, <1>5, RoundingKeepsMultiples
  <1>7. now % Grain \in 0 .. Grain - 1 /\ now = Grain * (now \div Grain) + (now % Grain)
        /\ now \div Grain \in Nat
    BY <1>0, Division
  <1>8. Grain * (now \div Grain) \in Nat
    BY <1>0, <1>7
  <1>9. now - (now % Grain) \in Times
    BY <1>0, <1>7, <1>8, ClockConstants DEF Times
  <1> QED
    BY <1>4, <1>6, <1>9

LEMMA RunIsSoundNext ==
    ASSUME AInv, [Next]_vars, NEW j \in Jobs
    PROVE  RunIsSound(j)'
  <1>0. TypeOK /\ ChainIsTimed /\ DaysHaveALatest /\ \A k \in Jobs : RunIsSound(k)
    BY DEF AInv
  <1>1. /\ pc \in [Jobs -> {"idle", "read", "stamp", "delete", "insert", "commit"}]
        /\ run \in [Jobs -> 1 .. MaxRuns \cup {None}] /\ day \in [Jobs -> Days \cup {None}]
        /\ root \in [Jobs -> Positions \cup {None}] /\ stamp \in [Jobs -> Times \cup {None}]
        /\ runs \in Nat
    BY <1>0, AnchorBoundsAreNaturals DEF TypeOK
  <1>2. CASE /\ <<pc, run, day, root, stamp>>' = <<pc, run, day, root, stamp>>
             /\ runs' \in {runs, runs + 1}
    <2>1. \A i, at, d : Witnesses(i, at, d) => /\ i = None <=> at = None
                                               /\ i # None => i \in ReceiptsOfDay(d)'
                                                              /\ d * DayLength <= at
      BY <1>0, WitnessesStay
    <2>2. \A d : ReceiptsOfDay(d) \subseteq ReceiptsOfDay(d)'
      BY <1>0, ReceiptsOfDayStay
    <2>3. Witnesses(root[j], stamp[j], day[j]) => Witnesses(root[j], stamp[j], day[j])'
      BY <1>2, <2>1 DEF Witnesses
    <2> QED
      BY <1>0, <1>1, <1>2, <2>2, <2>3 DEF RunIsSound
  <1>3. CASE \/ UNCHANGED vars \/ Tick \/ Build
             \/ \E x \in drafts : Publish(x) \/ Discard(x)
             \/ \E e \in Days : AlreadyAnchored(e)
    BY <1>2, <1>3 DEF vars, job, Tick, Build, Publish, Discard, AlreadyAnchored
  <1>4. ASSUME NEW k \in Jobs, k # j,
               GivesUp(k) \/ Commit(k) \/ Advances(k) \/ \E d \in Days : Start(k, d)
        PROVE  RunIsSound(j)'
    <2>1. /\ pc'[j] = pc[j] /\ run'[j] = run[j] /\ day'[j] = day[j]
          /\ root'[j] = root[j] /\ stamp'[j] = stamp[j]
          /\ receipts' = receipts /\ runs' \in {runs, runs + 1}
      BY <1>1, <1>4
         DEF GivesUp, Commit, Advances, Start, Close, ReadLatest, Stamp, StampFails, Delete,
             Insert, Goto, chain
    <2>2. \A d : ReceiptsOfDay(d)' = ReceiptsOfDay(d)
      BY <2>1 DEF ReceiptsOfDay, Committed, SignedAt
    <2> QED
      BY <1>0, <1>1, <2>1, <2>2 DEF RunIsSound, Witnesses
  <1>5. ASSUME GivesUp(j) \/ Commit(j) PROVE RunIsSound(j)'
    BY <1>1, <1>5 DEF GivesUp, Commit, Close, RunIsSound
  <1>6. ASSUME NEW d \in Days, Start(j, d) PROVE RunIsSound(j)'
    BY <1>0, <1>1, <1>6 DEF Start, Goto, RunIsSound
  <1>7. ASSUME Advances(j) PROVE RunIsSound(j)'
    <2>1. run' = run /\ day' = day /\ runs' = runs /\ receipts' = receipts /\ pc[j] # "idle"
      BY <1>7 DEF Advances, ReadLatest, Stamp, StampFails, Delete, Insert, Goto, chain
    <2>2. day[j] \in Days /\ run[j] \in 1 .. runs
      BY <1>0, <2>1 DEF RunIsSound
    <2>3. \A d : ReceiptsOfDay(d)' = ReceiptsOfDay(d)
      BY <2>1 DEF ReceiptsOfDay, Committed, SignedAt
    <2>4. CASE ReadLatest(j)
      BY <1>0, <1>1, <2>1, <2>2, <2>3, <2>4, LatestIsOfDay, ReceiptsOfDayType
         DEF ReadLatest, Goto, RunIsSound, Witnesses
    <2>5. CASE Stamp(j)
      <3>1. root[j] \in ReceiptsOfDay(day[j]) /\ root' = root
        BY <1>0, <2>5 DEF Stamp, Goto, RunIsSound
      <3>2. /\ stamp'[j] = now - (now % Grain) /\ pc'[j] = "delete"
            /\ stamp'[j] \in Times /\ day[j] * DayLength <= stamp'[j]
        BY <1>0, <1>1, <2>2, <2>5, <3>1, StampIsOnTheDay DEF Stamp, Goto
      <3>3. root[j] # None /\ stamp'[j] # None
        BY <1>0, <3>1, <3>2, ReceiptsOfDayType, DayOfTimes, NoneIsNoValue
      <3> QED
        BY <2>1, <2>2, <2>3, <3>1, <3>2, <3>3 DEF RunIsSound, Witnesses
    <2>6. CASE StampFails(j)
      BY <1>0, <1>1, <2>1, <2>2, <2>6 DEF StampFails, Goto, RunIsSound, Witnesses
    <2>7. CASE Delete(j) \/ Insert(j)
      BY <1>0, <1>1, <2>1, <2>2, <2>3, <2>7 DEF Delete, Insert, Goto, RunIsSound, Witnesses
    <2> QED
      BY <1>7, <2>4, <2>5, <2>6, <2>7 DEF Advances
  <1> QED
    BY <1>3, <1>4, <1>5, <1>6, <1>7, StepKinds

\* What the other parts of the invariant say of ids, in the form used below.
LEMMA IdsInUse ==
    ASSUME AInv
    PROVE  /\ runs \in Nat /\ MaxRuns \in Nat /\ None \notin Nat
           /\ \A d \in Days : anchors[d] # None => anchors[d].id \in 1 .. runs
           /\ \A d \in Days : RowId(d) = None \/ RowId(d) \in 1 .. runs
           /\ \A d \in Days : anchors[d] # None => RowId(d) # None
           /\ \A j \in Jobs : pc[j] # "idle" => run[j] \in 1 .. runs /\ day[j] \in Days
           /\ \A j \in Jobs : pc[j] # "idle" => old[j] = None \/ old[j] \in 1 .. runs
  <1>1. TypeOK /\ runs \in Nat /\ MaxRuns \in Nat /\ None \notin Nat
    BY AnchorBoundsAreNaturals, NoneIsNoValue DEF AInv, TypeOK
  <1>2. \A d \in Days : anchors[d] # None => anchors[d].id \in 1 .. runs
    BY <1>1 DEF AInv, RowIsSound, TypeOK, Row
  <1>3. \A j \in Jobs : pc[j] # "idle" => old[j] = None \/ old[j] \in 1 .. runs
    BY <1>1 DEF AInv, IdsAreFresh, TypeOK
  <1> QED
    BY <1>1, <1>2, <1>3 DEF AInv, RunIsSound, RowId

LEMMA IdsAreFreshNext ==
    ASSUME AInv, [Next]_vars, NEW j \in Jobs
    PROVE  IdsAreFresh(j)'
  <1>0. /\ \A k \in Jobs : IdsAreFresh(k)
        /\ anchors \in [Days -> Row \cup {None}]
        /\ pc \in [Jobs -> {"idle", "read", "stamp", "delete", "insert", "commit"}]
        /\ run \in [Jobs -> 1 .. MaxRuns \cup {None}] /\ day \in [Jobs -> Days \cup {None}]
        /\ old \in [Jobs -> 1 .. MaxRuns \cup {None}]
    BY DEF AInv, TypeOK
  <1>1. CASE /\ <<anchors, run, day, old>>' = <<anchors, run, day, old>>
             /\ runs' \in {runs, runs + 1}
             /\ \A k \in Jobs : pc'[k] # "idle" => pc[k] # "idle"
    BY <1>0, <1>1, IdsInUse DEF IdsAreFresh, RowId, Anchored
  <1>2. CASE \/ UNCHANGED vars \/ Tick \/ Build
             \/ \E x \in drafts : Publish(x) \/ Discard(x)
             \/ \E e \in Days : AlreadyAnchored(e)
    BY <1>1, <1>2 DEF vars, job, Tick, Build, Publish, Discard, AlreadyAnchored
  <1>3. ASSUME NEW k \in Jobs, Advances(k) PROVE IdsAreFresh(j)'
    BY <1>0, <1>1, <1>3
       DEF Advances, ReadLatest, Stamp, StampFails, Delete, Insert, Goto
  <1>4. ASSUME NEW k \in Jobs, NEW d \in Days, Start(k, d) PROVE IdsAreFresh(j)'
    <2>1. /\ run' = [run EXCEPT ![k] = runs + 1] /\ day' = [day EXCEPT ![k] = d]
          /\ old' = [old EXCEPT ![k] = RowId(d)] /\ pc' = [pc EXCEPT ![k] = "read"]
          /\ runs' = runs + 1 /\ anchors' = anchors /\ ~ Anchored(anchors[d])
      BY <1>4 DEF Start, Goto
    <2> QED
      BY <1>0, <2>1, IdsInUse DEF IdsAreFresh, RowId, Anchored
  <1>5. ASSUME NEW k \in Jobs, GivesUp(k) PROVE IdsAreFresh(j)'
    BY <1>0, <1>5, IdsInUse DEF GivesUp, Close, IdsAreFresh, RowId, Anchored
  <1>6. ASSUME NEW k \in Jobs, Commit(k) PROVE IdsAreFresh(j)'
    <2>1. /\ pc[k] = "commit" /\ day[k] \in Days
          /\ anchors' = [anchors EXCEPT ![day[k]] = [id |-> run[k], root |-> root[k], at |-> stamp[k]]]
          /\ runs' = runs /\ pc' = [pc EXCEPT ![k] = "idle"]
          /\ \A i \in Jobs \ {k} : run'[i] = run[i] /\ day'[i] = day[i] /\ old'[i] = old[i]
      BY <1>0, <1>6, IdsInUse DEF Commit, Close
    <2>2. CASE j = k
      BY <1>0, <2>1, <2>2 DEF IdsAreFresh
    <2>3. CASE j # k /\ pc[j] # "idle"
      <3>1. /\ \A i \in Jobs \ {j} : pc'[i] # "idle" => run'[i] # run'[j]
            /\ \A i \in Jobs : pc'[i] # "idle" => old'[i] # run'[j]
        BY <1>0, <2>1, <2>3 DEF IdsAreFresh
      <3>2. run[k] # run[j] /\ old[j] # run[k]
        BY <1>0, <2>1, <2>3 DEF IdsAreFresh
      <3>3. \A d \in Days : anchors'[d] # None => anchors'[d].id # run'[j]
        BY <1>0, <2>1, <2>3, <3>2 DEF IdsAreFresh
      <3>4. old'[j] # None => old'[j] <= runs' /\ (RowId(day[j])' = old'[j] => ~ Anchored(anchors[day[j]])')
        <4>1. CASE day[j] = day[k]
          BY <1>0, <2>1, <2>3, <3>2, <4>1 DEF IdsAreFresh, RowId
        <4>2. CASE day[j] # day[k]
          BY <1>0, <2>1, <2>3, <4>2, IdsInUse DEF IdsAreFresh, RowId, Anchored
        <4> QED
          BY <4>1, <4>2
      <3> QED
        BY <3>1, <3>3, <3>4 DEF IdsAreFresh
    <2> QED
      BY <1>0, <2>1, <2>2, <2>3 DEF IdsAreFresh
  <1> QED
    BY <1>2, <1>3, <1>4, <1>5, <1>6, StepKinds

LEMMA HasTheEntryNext ==
    ASSUME AInv, [Next]_vars, NEW j \in Jobs
    PROVE  HasTheEntry(j)'
  <1>0. /\ \A k \in Jobs : HasTheEntry(k)
        /\ anchors \in [Days -> Row \cup {None}]
        /\ pc \in [Jobs -> {"idle", "read", "stamp", "delete", "insert", "commit"}]
        /\ day \in [Jobs -> Days \cup {None}]
        /\ old \in [Jobs -> 1 .. MaxRuns \cup {None}]
    BY DEF AInv, TypeOK
  <1>1. CASE \/ UNCHANGED vars \/ Tick \/ Build
             \/ \E x \in drafts : Publish(x) \/ Discard(x)
             \/ \E e \in Days : AlreadyAnchored(e)
    <2>1. <<anchors, pc, day, old>>' = <<anchors, pc, day, old>>
      BY <1>1 DEF vars, job, Tick, Build, Publish, Discard, AlreadyAnchored
    <2> QED
      BY <1>0, <2>1 DEF HasTheEntry, RowId, Rival
  <1>2. ASSUME NEW k \in Jobs, ReadLatest(k) \/ Stamp(k) \/ StampFails(k) \/ Delete(k)
        PROVE  HasTheEntry(j)'
    <2>1. <<anchors, day, old>>' = <<anchors, day, old>> /\ pc'[k] # "commit"
          /\ \A i \in Jobs \ {k} : pc'[i] = pc[i]
      BY <1>0, <1>2 DEF ReadLatest, Stamp, StampFails, Delete, Goto
    <2> QED
      BY <1>0, <2>1 DEF HasTheEntry, RowId, Rival
  <1>3. ASSUME NEW k \in Jobs, Insert(k) PROVE HasTheEntry(j)'
    <2>1. /\ <<anchors, day, old>>' = <<anchors, day, old>>
          /\ pc' = [pc EXCEPT ![k] = "commit"]
          /\ RowId(day[k]) \in {None, old[k]}
          /\ \A i \in Jobs : i # k /\ day[i] = day[k] => pc[i] # "commit"
      BY <1>3 DEF Insert, Goto, EntryTaken, EntryFree, Rival
    <2> QED
      BY <1>0, <2>1 DEF HasTheEntry, RowId, Rival
  <1>4. ASSUME NEW k \in Jobs, GivesUp(k) \/ \E d \in Days : Start(k, d) PROVE HasTheEntry(j)'
    <2>1. /\ anchors' = anchors /\ pc'[k] # "commit"
          /\ \A i \in Jobs \ {k} : pc'[i] = pc[i] /\ day'[i] = day[i] /\ old'[i] = old[i]
      BY <1>0, <1>4 DEF GivesUp, Close, Start, Goto
    <2> QED
      BY <1>0, <2>1 DEF HasTheEntry, RowId, Rival
  <1>5. ASSUME NEW k \in Jobs, Commit(k) PROVE HasTheEntry(j)'
    <2>1. /\ pc'[k] = "idle" /\ pc[k] = "commit"
          /\ \A d \in Days : d # day[k] => anchors'[d] = anchors[d]
          /\ \A i \in Jobs \ {k} : pc'[i] = pc[i] /\ day'[i] = day[i] /\ old'[i] = old[i]
      BY <1>0, <1>5 DEF Commit, Close
    <2>2. pc[j] = "commit" /\ j # k => day[j] # day[k] /\ day[j] \in Days
      BY <1>0, <2>1, IdsInUse DEF HasTheEntry, Rival
    <2> QED
      BY <1>0, <2>1, <2>2 DEF HasTheEntry, RowId, Rival
  <1> QED
    BY <1>1, <1>2, <1>3, <1>4, <1>5, StepKinds DEF Advances

LEMMA TypeNext ==
    ASSUME AInv, [Next]_vars
    PROVE  TypeOK'
  <1>0. TypeOK /\ ChainIsTimed /\ DaysHaveALatest /\ \A j \in Jobs : RunIsSound(j)
    BY DEF AInv
  <1>1. CASE UNCHANGED vars
    BY <1>0, <1>1 DEF vars, chain, job, TypeOK
  <1>2. CASE Tick
    BY <1>0, <1>2, ClockConstants DEF Tick, chain, job, TypeOK, Times
  <1>3. CASE Build
    <2>1. Len(receipts) \in Positions
      BY <1>0, <1>3, AnchorBoundsAreNaturals DEF Build, Positions, TypeOK
    <2> QED
      BY <1>0, <1>3, <2>1 DEF Build, chain, job, TypeOK
  <1>4. ASSUME NEW x \in drafts, Publish(x) PROVE TypeOK'
    BY <1>0, <1>4, Published DEF Publish, job, TypeOK
  <1>5. ASSUME NEW x \in drafts, Discard(x) PROVE TypeOK'
    BY <1>0, <1>5 DEF Discard, job, TypeOK
  <1>6. ASSUME NEW d \in Days, AlreadyAnchored(d) PROVE TypeOK'
    BY <1>0, <1>6, AnchorBoundsAreNaturals DEF AlreadyAnchored, chain, job, TypeOK
  <1>7. ASSUME NEW j \in Jobs, NEW d \in Days, Start(j, d) PROVE TypeOK'
    <2>1. RowId(d) \in 1 .. MaxRuns \cup {None} /\ runs + 1 \in 1 .. MaxRuns
      BY <1>0, <1>7, AnchorBoundsAreNaturals DEF RowId, TypeOK, Row, Start
    <2> QED
      BY <1>0, <1>7, <2>1 DEF Start, Goto, chain, TypeOK
  <1>8. ASSUME NEW j \in Jobs, ReadLatest(j) PROVE TypeOK'
    <2>1. LatestOfDay(day[j]) \in Positions \cup {None}
      BY <1>0, <1>8, LatestIsOfDay, ReceiptsOfDayType DEF ReadLatest, Goto, RunIsSound
    <2> QED
      BY <1>0, <1>8, <2>1 DEF ReadLatest, Goto, chain, TypeOK
  <1>9. ASSUME NEW j \in Jobs, Stamp(j) PROVE TypeOK'
    <2>1. now - (now % Grain) \in Times
      BY <1>0, <1>9, StampIsOnTheDay DEF Stamp, Goto, RunIsSound
    <2> QED
      BY <1>0, <1>9, <2>1 DEF Stamp, Goto, chain, TypeOK
  <1>10. ASSUME NEW j \in Jobs, StampFails(j) \/ Delete(j) \/ Insert(j) PROVE TypeOK'
    BY <1>0, <1>10 DEF StampFails, Delete, Insert, Goto, chain, TypeOK
  <1>11. ASSUME NEW j \in Jobs, GivesUp(j) PROVE TypeOK'
    BY <1>0, <1>11 DEF GivesUp, Close, chain, TypeOK
  <1>12. ASSUME NEW j \in Jobs, Commit(j) PROVE TypeOK'
    <2>1. /\ run[j] \in 1 .. MaxRuns /\ day[j] \in Days
          /\ root[j] = None <=> stamp[j] = None
      BY <1>0, <1>12, AnchorBoundsAreNaturals DEF Commit, RunIsSound, Witnesses, TypeOK
    <2> DEFINE row == [id |-> run[j], root |-> root[j], at |-> stamp[j]]
    <2>2. row \in Row /\ (row.root = None <=> row.at = None)
      BY <1>0, <2>1 DEF Row, TypeOK
    <2>3. anchors' = [anchors EXCEPT ![day[j]] = row]
      BY <1>12 DEF Commit
    <2> HIDE DEF row
    <2>4. /\ anchors' \in [Days -> Row \cup {None}]
          /\ \A d \in Days : anchors'[d] # None =>
                                 (anchors'[d].root = None <=> anchors'[d].at = None)
      BY <1>0, <2>1, <2>2, <2>3 DEF TypeOK
    <2> QED
      BY <1>0, <1>12, <2>4 DEF Commit, Close, chain, TypeOK
  <1> QED
    BY <1>1, <1>2, <1>3, <1>4, <1>5, <1>6, <1>7, <1>8, <1>9, <1>10, <1>11, <1>12, StepKinds
       DEF Advances

LEMMA AInvInit ==
    ASSUME Init
    PROVE  AInv
  <1>1. TypeOK
    BY AnchorBoundsAreNaturals, ClockConstants DEF Init, TypeOK, Times
  <1>2. ChainIsTimed /\ DaysHaveALatest
    BY AnchorBoundsAreNaturals DEF Init, ChainIsTimed, DaysHaveALatest, ReceiptsOfDay, Committed
  <1> QED
    BY <1>1, <1>2 DEF Init, AInv, RowIsSound, RunIsSound, IdsAreFresh, HasTheEntry

LEMMA AInvNext ==
    ASSUME AInv, [Next]_vars
    PROVE  AInv'
  BY TypeNext, ChainIsTimedNext, DaysHaveALatestNext, RowIsSoundNext, RunIsSoundNext,
     IdsAreFreshNext, HasTheEntryNext DEF AInv, Days

\* The invariant of the daily anchors.
THEOREM AnchoringInvariant == Spec => []AInv
  <1>1. Init => AInv
    BY AInvInit
  <1>2. AInv /\ [Next]_vars => AInv'
    BY AInvNext
  <1> QED
    BY <1>1, <1>2, PTL DEF Spec

\* Every variable keeps its type, and a committed row has a time of the
\* authority if and only if it has a root.
THEOREM AnchoringTypeCorrect == Spec => []TypeOK
  <1>1. AInv => TypeOK
    BY DEF AInv
  <1> QED
    BY <1>1, AnchoringInvariant, PTL

-----------------------------------------------------------------------------
(* An anchor stands *)

LEMMA AnchorStandsStep ==
    ASSUME AInv, [Next]_vars, NEW d \in Days, Anchored(anchors[d])
    PROVE  anchors'[d] = anchors[d]
  <1>0. anchors \in [Days -> Row \cup {None}]
    BY DEF AInv, TypeOK
  <1>1. ASSUME NEW j \in Jobs, Commit(j) PROVE day[j] # d
    <2>1. HasTheEntry(j) /\ IdsAreFresh(j) /\ pc[j] = "commit"
      BY <1>1 DEF AInv, Commit
    <2>2. RowId(d) # None
      BY IdsInUse DEF Anchored
    <2> QED
      BY <2>1, <2>2 DEF HasTheEntry, IdsAreFresh
  <1>2. ASSUME NEW j \in Jobs, Commit(j) PROVE anchors'[d] = anchors[d]
    BY <1>0, <1>1, <1>2 DEF Commit
  <1>3. ASSUME NEW j \in Jobs, Advances(j) \/ GivesUp(j) PROVE anchors' = anchors
    BY <1>3 DEF Advances, GivesUp, ReadLatest, Stamp, StampFails, Delete, Insert
  <1> QED
    BY <1>2, <1>3, StepKinds DEF vars, Tick, Build, Publish, Discard, AlreadyAnchored, Start

\* Once a day is anchored its row stands, however many runs overlap: the unique
\* entry of the day lets one of them through at a time, and a run that read the
\* tombstone deletes by its id, which no later row has.
THEOREM AnchorsStand == Spec => AnchorStands
  <1>1. AInv /\ [Next]_vars => [\A d \in Days : Anchored(anchors[d]) => anchors'[d] = anchors[d]]_vars
    BY AnchorStandsStep
  <1> QED
    BY <1>1, AnchoringInvariant, PTL DEF Spec, AnchorStands

-----------------------------------------------------------------------------
(* What an anchor proves *)

\* An anchored row has a receipt of its day for a root, and a time of the
\* authority that is not before that day.
LEMMA AnchoredRow ==
    ASSUME AInv, NEW d \in Days, Anchored(anchors[d])
    PROVE  /\ anchors[d].root \in Committed /\ anchors[d].root \in Nat
           /\ DayOf(SignedAt(anchors[d].root)) = d
           /\ anchors[d].at \in Nat /\ d * DayLength <= anchors[d].at
           /\ d \in Nat /\ d * DayLength \in Nat
           /\ \A i \in Committed : i \in Nat /\ SignedAt(i) \in Nat
           /\ \A i, k \in Committed : i <= k => SignedAt(i) <= SignedAt(k)
  <1>1. /\ TypeOK /\ ChainIsTimed
        /\ anchors[d].root \in ReceiptsOfDay(d) /\ d * DayLength <= anchors[d].at
    BY DEF AInv, RowIsSound, Witnesses, Anchored
  <1>2. anchors[d].at \in Times
    BY <1>1 DEF TypeOK, Row, Anchored
  <1>3. d \in Nat /\ d * DayLength \in Nat /\ anchors[d].at \in Nat
    BY <1>2, DayOfTimes, DayBounds
  <1> QED
    BY <1>1, <1>3, ReceiptsOfDayType, DayOfTimes DEF ReceiptsOfDay, ChainIsTimed

\* The receipts after i, up to the root, lead from i to the root.
LEMMA PathLeadsToTheRoot ==
    ASSUME NEW row, Anchored(row), row.root \in Nat,
           NEW i \in 0 .. row.root, SignedAt(i) <= row.at
    PROVE  Provable(i, row)
  <1> DEFINE n == row.root - i
             path == Path(i, row)
  <1>1. n \in Nat /\ path \in Seq(Nat) /\ Len(path) = n /\ \A k \in 1 .. n : path[k] = i + k
    BY DEF Path
  <1> HIDE DEF path
  <1>2. CASE path = <<>>
    <2>1. i = row.root
      BY <1>1, <1>2
    <2> QED
      BY <1>2, <2>1 DEF Provable, Verify, path
  <1>3. CASE path # <<>>
    <2>1. n >= 1
      BY <1>1, <1>3
    <2>2. path[1] - 1 = i /\ path[Len(path)] = row.root
      BY <1>1, <2>1
    <2>3. Linked(path)
      BY <1>1 DEF Linked
    <2> QED
      BY <1>3, <2>2, <2>3 DEF Provable, Verify, path
  <1> QED
    BY <1>2, <1>3

LEMMA AnchorProvesItsPastAlways ==
    ASSUME AInv
    PROVE  AnchorProvesItsPast
  <1> SUFFICES ASSUME NEW d \in Days, Anchored(anchors[d]), DayOf(anchors[d].at) > d,
                      NEW i \in 0 .. anchors[d].root
               PROVE  Provable(i, anchors[d])
    BY DEF AnchorProvesItsPast
  <1> DEFINE r == anchors[d].root
             t == anchors[d].at
  <1>1. /\ r \in Committed /\ r \in Nat /\ DayOf(SignedAt(r)) = d
        /\ t \in Nat /\ d \in Nat /\ SignedAt(r) \in Nat
    BY AnchoredRow
  <1>2. i \in Committed /\ i <= r
    BY <1>1 DEF Committed
  <1>3. SignedAt(i) \in Nat /\ SignedAt(i) <= SignedAt(r)
    BY <1>1, <1>2, AnchoredRow
  <1>4. (d + 1) * DayLength <= t
    <2>1. DayOf(t) \in Nat /\ d + 1 <= DayOf(t)
      BY <1>1, DayBounds
    <2> QED
      BY <1>1, <2>1, DayBounds
  <1>5. SignedAt(r) < (d + 1) * DayLength
    BY <1>1, DayBounds
  <1>6. SignedAt(i) <= t
    BY <1>1, <1>3, <1>4, <1>5, DayBounds
  <1> QED
    BY <1>1, <1>6, PathLeadsToTheRoot

LEMMA StragglersAreProvedAlways ==
    ASSUME AInv
    PROVE  StragglersAreProved
  <1> SUFFICES ASSUME NEW d \in Days, Anchored(anchors[d]),
                      NEW i \in Committed, DayOf(SignedAt(i)) < d
               PROVE  Provable(i, anchors[d])
    BY DEF StragglersAreProved
  <1> DEFINE r == anchors[d].root
             t == anchors[d].at
  <1>1. /\ r \in Committed /\ r \in Nat /\ DayOf(SignedAt(r)) = d
        /\ t \in Nat /\ d \in Nat /\ d * DayLength <= t /\ d * DayLength \in Nat
        /\ i \in Nat /\ SignedAt(i) \in Nat /\ SignedAt(r) \in Nat
    BY AnchoredRow
  <1>2. SignedAt(i) < d * DayLength
    BY <1>1, DayBounds
  <1>3. d * DayLength <= SignedAt(r)
    BY <1>1, DayBounds
  <1>4. i <= r
    BY <1>1, <1>2, <1>3, AnchoredRow
  <1> QED
    BY <1>1, <1>2, <1>4, PathLeadsToTheRoot

\* An anchor stamped after its day is over proves all the receipts up to its
\* root: the chain is signed in order, and the root before the stamp.
THEOREM AnchorsProveThePast == Spec => []AnchorProvesItsPast
  BY AnchorProvesItsPastAlways, AnchoringInvariant, PTL

\* A receipt that committed too late for the anchor of its day is proved by
\* every anchor of a later day.
THEOREM NoStragglerIsLost == Spec => []StragglersAreProved
  BY StragglersAreProvedAlways, AnchoringInvariant, PTL

\* Linked receipts lead forward only: if the first is i + 1, none is at or
\* before i, for the first such one would follow another.
LEMMA LinksLeadForward ==
    ASSUME NEW n \in Nat, NEW between \in [1 .. n -> Nat], NEW i \in Nat,
           n # 0 => between[1] - 1 = i,
           \A k \in 2 .. n : between[k] - 1 = between[k - 1]
    PROVE  \A k \in 1 .. n : between[k] > i
  <1> DEFINE S == {k \in 1 .. n : between[k] <= i}
  <1> SUFFICES ASSUME NEW l \in 1 .. n, ~ (between[l] > i) PROVE FALSE
    OBVIOUS
  <1>1. S # {}
    <2>1. between[l] \in Nat /\ between[l] <= i
      OBVIOUS
    <2>2. l \in S
      BY <2>1
    <2> QED
      BY <2>2
  <1>2. PICK m \in S : \A k \in S : m <= k
    <2>1. S \in SUBSET Nat
      OBVIOUS
    <2> HIDE DEF S
    <2> QED
      BY <1>1, <2>1, LeastElement
  <1>3. m \in 1 .. n /\ between[m] <= i /\ m # 1
    OBVIOUS
  <1>4. m \in 2 .. n /\ m - 1 \in 1 .. n
    BY <1>3
  <1>5. between[m] - 1 = between[m - 1] /\ between[m] \in Nat /\ between[m - 1] \in Nat
    BY <1>3, <1>4
  <1>6. m - 1 \in S
    BY <1>3, <1>4, <1>5
  <1> QED
    BY <1>2, <1>4, <1>6

LEMMA ProofsAreSoundAlways ==
    ASSUME AInv
    PROVE  ProofsAreSound
  <1> SUFFICES ASSUME NEW d \in Days, Anchored(anchors[d]),
                      NEW i \in Committed, i > anchors[d].root,
                      NEW n \in 0 .. Len(receipts),
                      NEW between \in [1 .. n -> Committed],
                      Verify(i, anchors[d], between)
               PROVE  FALSE
    BY DEF ProofsAreSound
  <1>1. /\ anchors[d].root \in Nat /\ i \in Nat /\ Committed \subseteq Nat
        /\ Len(receipts) \in Nat
    BY AnchoredRow DEF AInv, TypeOK
  <1>2. n \in Nat /\ between \in [1 .. n -> Nat] /\ between \in Seq(Nat) /\ Len(between) = n
    <2>1. n \in Nat
      BY <1>1
    <2>2. between \in [1 .. n -> Nat]
      BY <1>1
    <2> HIDE DEF Committed
    <2>3. between \in Seq(Nat)
      BY <2>1, <2>2
    <2> QED
      BY <2>1, <2>2, <2>3
  <1>3. between # <<>> /\ n # 0
    BY <1>1, <1>2 DEF Verify
  <1>4. /\ between[1] - 1 = i
        /\ \A k \in 2 .. n : between[k] - 1 = between[k - 1]
        /\ between[n] = anchors[d].root
    BY <1>2, <1>3 DEF Verify, Linked
  <1>5. between[n] > i
    <2>1. \A k \in 1 .. n : between[k] > i
      BY <1>1, <1>2, <1>4, LinksLeadForward
    <2> QED
      BY <1>2, <1>3, <2>1
  <1> QED
    BY <1>1, <1>4, <1>5

\* Whatever receipts are offered as the path, of any length, none that came
\* after the root of an anchor verifies against it.
THEOREM NoProofOfTheFuture == Spec => []ProofsAreSound
  BY ProofsAreSoundAlways, AnchoringInvariant, PTL

-----------------------------------------------------------------------------
(* The tables that readers see *)

\* The committed row of each day, as LedgerTables has it.
TablesRows == [d \in Days |-> IF anchors[d] = None THEN None ELSE [root |-> anchors[d].root]]

\* The names that LedgerTables and Anchoring share mean the same.
LEMMA SharedNames ==
    /\ Tables!Days = Days
    /\ \A d : Tables!ReceiptsOfDay(d) = ReceiptsOfDay(d)
    /\ Tables!Deferred = [root |-> None]
    /\ Tables!tables = <<receipts, TablesRows, <<>>>>
  BY DEF Tables!Days, Days, Tables!DayOf, DayOf, Tables!ReceiptsOfDay, ReceiptsOfDay,
         Tables!Committed, Committed, Tables!SignedAt, SignedAt, Tables!Deferred,
         Tables!tables, TablesRows

\* A run commits only over no row, or over a tombstone.
LEMMA CommitsOverNoAnchor ==
    ASSUME AInv, NEW j \in Jobs, Commit(j)
    PROVE  /\ day[j] \in Days
           /\ ~ Anchored(anchors[day[j]])
           /\ root[j] \in ReceiptsOfDay(day[j]) \cup {None}
           /\ [id |-> run[j], root |-> root[j], at |-> stamp[j]] # None
  <1>1. /\ day[j] \in Days /\ run[j] \in 1 .. MaxRuns
        /\ root[j] \in Positions \cup {None} /\ stamp[j] \in Times \cup {None}
    BY AnchorBoundsAreNaturals DEF AInv, RunIsSound, Commit, TypeOK
  <1>2. [id |-> run[j], root |-> root[j], at |-> stamp[j]] # None
    BY <1>1, NoneIsNoValue DEF Row
  <1> QED
    BY <1>1, <1>2, IdsInUse
       DEF AInv, RunIsSound, Witnesses, HasTheEntry, IdsAreFresh, Commit, Anchored

LEMMA ImplementsTablesInit ==
    ASSUME Init
    PROVE  Tables!TablesInit
  <1>1. <<>> = [j \in 1 .. 0 |-> None]
    OBVIOUS
  <1>2. TablesRows = [d \in Days |-> None]
    BY DEF Init, TablesRows
  <1> QED
    BY <1>1, <1>2, SharedNames DEF Init, Tables!TablesInit, Tables!JobIds, TablesRows

LEMMA ImplementsTablesStep ==
    ASSUME AInv, [Next]_vars
    PROVE  [Tables!WriteLedger \/ Tables!WriteJobs]_(Tables!tables)
  <1>0. TypeOK /\ ChainIsTimed /\ anchors \in [Days -> Row \cup {None}]
    BY DEF AInv, TypeOK
  <1>1. CASE UNCHANGED <<receipts, anchors>>
    BY <1>1, SharedNames DEF Tables!tables
  <1>2. ASSUME NEW x \in drafts, Publish(x) PROVE Tables!AppendReceipt
    <2>1. /\ x.signed \in Times /\ Len(receipts) \in Nat /\ Len(receipts) < MaxReceipts
          /\ receipts' = Append(receipts, x.signed) /\ anchors' = anchors
          /\ \A i \in Committed : i < x.seq
      BY <1>0, <1>2, Published DEF Publish
    <2>2. receipts # <<>> => receipts[Len(receipts)] <= x.signed
      <3>1. receipts \in Seq(Times)
        BY <1>0 DEF TypeOK
      <3>2. receipts # <<>> => Len(receipts) - 1 \in Committed
        BY <3>1, <2>1 DEF Committed
      <3>3. \A i \in Committed : SignedAt(i) <= x.signed
        BY <1>0, <2>1 DEF ChainIsTimed
      <3>4. receipts # <<>> => SignedAt(Len(receipts) - 1) = receipts[Len(receipts)]
        BY <2>1 DEF SignedAt
      <3> QED
        BY <3>2, <3>3, <3>4
    <2>3. x.signed \in Tables!LastSigned .. MaxTime
      <3>1. receipts \in Seq(Times)
        BY <1>0 DEF TypeOK
      <3>2. receipts # <<>> => receipts[Len(receipts)] \in Times
        BY <3>1
      <3> QED
        BY <2>1, <2>2, <3>2, ClockConstants DEF Tables!LastSigned, Times
    <2> QED
      BY <2>1, <2>3 DEF Tables!AppendReceipt
  <1>3. ASSUME NEW j \in Jobs, Commit(j) PROVE \E d \in Tables!Days : Tables!AnchorDay(d)
    <2> DEFINE d == day[j]
               row == [id |-> run[j], root |-> root[j], at |-> stamp[j]]
    <2>1. /\ d \in Days /\ ~ Anchored(anchors[d]) /\ row # None
          /\ root[j] \in ReceiptsOfDay(d) \cup {None}
      BY <1>3, CommitsOverNoAnchor
    <2>2. anchors' = [anchors EXCEPT ![d] = row] /\ receipts' = receipts
      BY <1>3 DEF Commit, Close, chain
    <2>3. TablesRows[d] \in {None, [root |-> None]}
      BY <2>1 DEF TablesRows, Anchored
    <2>4. TablesRows' = [TablesRows EXCEPT ![d] = [root |-> root[j]]]
      BY <1>0, <2>1, <2>2 DEF TablesRows
    <2> QED
      BY <2>1, <2>2, <2>3, <2>4, SharedNames DEF Tables!AnchorDay, TablesRows
  <1>4. ASSUME NEW j \in Jobs, Advances(j) \/ GivesUp(j) PROVE UNCHANGED <<receipts, anchors>>
    BY <1>4 DEF Advances, GivesUp, ReadLatest, Stamp, StampFails, Delete, Insert, Close, chain
  <1> QED
    BY <1>1, <1>2, <1>3, <1>4, StepKinds
       DEF vars, chain, Tick, Build, Discard, AlreadyAnchored, Start, Tables!WriteLedger

\* Ingest and overlapping runs do to the tables only what LedgerTables allows:
\* every commit of a receipt is AppendReceipt, every commit of a run AnchorDay,
\* and everything else a stutter.
THEOREM AnchoringImplementsTables == Spec => ImplementsTables
  <1>1. Init => Tables!TablesInit
    BY ImplementsTablesInit
  <1>2. AInv /\ [Next]_vars => [Tables!WriteLedger \/ Tables!WriteJobs]_(Tables!tables)
    BY ImplementsTablesStep
  <1> QED
    BY <1>1, <1>2, AnchoringInvariant, PTL DEF Spec, ImplementsTables, Tables!TablesSpec
=============================================================================
