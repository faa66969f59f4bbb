------------------------------ MODULE AIProofs ------------------------------
(***************************************************************************)
(* What holds of the AI features and of the two-way copy, for every value  *)
(* of the constants: reviews and suggestions (BackgroundAI), translations  *)
(* (Translations), memos and the decisions of a conversation (Assistant)   *)
(* and the API's two-way copy (ApiSync).                                   *)
(***************************************************************************)
EXTENDS TLAPS, MCOffice, FiniteSetTheorems, SequenceTheorems, WellFoundedInduction

----------------------------------------------------------------------------
\* Offers.  A suggestion that nobody else has open has its task when it is accepted, and
\* none before.

Figures == Nat
OfferStates == {"pending", "accepted", "dismissed", "expired"}
Offers == [about : Figures, tasks : Figures, crossed : BOOLEAN, status : OfferStates]
Deciders == [offer : Figures, accepts : BOOLEAN]

OfferTypes ==
    /\ offers \in Seq(Offers) /\ desk \in [Reviewers -> Deciders]
    /\ \A p \in Reviewers : desk[p].offer # 0 => desk[p].offer \in OfferIds

TasksMatch ==
    \A o \in OfferIds :
        /\ offers[o].status = "accepted" => offers[o].tasks >= 1
        /\ ~offers[o].crossed =>
              /\ offers[o].tasks = IF offers[o].status = "accepted" THEN 1 ELSE 0
              /\ \A p, q \in Reviewers : desk[p].offer = o /\ desk[q].offer = o => p = q
              /\ \A p \in Reviewers : desk[p].offer = o => offers[o].status # "accepted"

OfferInv == OfferTypes /\ TasksMatch

LEMMA OfferFacts == NoDesk \in Deciders /\ NoDesk.offer = 0
BY DEF NoDesk, Deciders, Figures

LEMMA OfferRow ==
    ASSUME OfferTypes
    PROVE  /\ Len(offers) \in Nat /\ DOMAIN offers = OfferIds /\ offers \in [OfferIds -> Offers]
           /\ \A o \in OfferIds : offers[o] \in Offers /\ offers[o].tasks \in Nat
                                  /\ o \in Nat /\ o # 0
<1>1. offers \in Seq(Offers)
  BY DEF OfferTypes
<1>2. Len(offers) \in Nat /\ DOMAIN offers = 1..Len(offers) /\ offers \in [1..Len(offers) -> Offers]
  BY <1>1, LenProperties
<1>3. \A o \in OfferIds : offers[o] \in Offers /\ o \in Nat /\ o # 0
  BY <1>2 DEF OfferIds
<1>4. \A r \in Offers : r.tasks \in Nat
  BY DEF Offers, Figures
<1>5. QED BY <1>2, <1>3, <1>4 DEF OfferIds

LEMMA OfferInvInit == SuggestInit => OfferInv
<1> SUFFICES ASSUME SuggestInit PROVE OfferInv
  OBVIOUS
<1> DEFINE first == [about |-> 0, tasks |-> 0, crossed |-> FALSE, status |-> "pending"]
<1>1. offers = << >> \/ offers = <<first>>
  BY DEF SuggestInit
<1>2. \A p \in Reviewers : desk[p].offer = 0
  BY OfferFacts DEF SuggestInit
<1>3. desk \in [Reviewers -> Deciders]
  BY OfferFacts DEF SuggestInit
<1>4. /\ first \in Offers /\ ~first.crossed /\ first.tasks = 0 /\ first.status = "pending"
  BY DEF Offers, OfferStates, Figures
<1> HIDE DEF first
<1>5. CASE offers = << >>
  <2>1. offers \in Seq(Offers) /\ Len(offers) = 0
    BY <1>5, EmptySeq
  <2>2. OfferIds = {}
    BY <2>1 DEF OfferIds
  <2>3. QED BY <1>2, <1>3, <2>1, <2>2 DEF OfferInv, OfferTypes, TasksMatch
<1>6. CASE offers = <<first>>
  <2>1. offers \in Seq(Offers) /\ Len(offers) = 1 /\ offers[1] = first
    BY <1>4, <1>6
  <2>2. OfferIds = {1}
    BY <2>1 DEF OfferIds
  <2>3. OfferTypes
    BY <1>2, <1>3, <2>1 DEF OfferTypes
  <2>4. TasksMatch
    BY <1>2, <1>4, <2>1, <2>2 DEF TasksMatch
  <2>5. QED BY <2>3, <2>4 DEF OfferInv
<1>7. QED BY <1>1, <1>5, <1>6

\* Suggestions change where they may: pending ones expire.
LEMMA OffersExpire ==
    ASSUME OfferInv, NEW due, offers' = Expired(due), desk' = desk PROVE OfferInv'
<1> DEFINE old(o) == [offers[o] EXCEPT !.status = "expired"]
           new(o) == IF o \in due /\ offers[o].status = "pending" THEN old(o) ELSE offers[o]
<1>1. Len(offers) \in Nat /\ \A o \in OfferIds : offers[o] \in Offers
  BY OfferRow DEF OfferInv
<1>2. \A o \in OfferIds :
          /\ old(o) \in Offers /\ old(o).status = "expired"
          /\ old(o).tasks = offers[o].tasks /\ old(o).crossed = offers[o].crossed
  BY <1>1 DEF Offers, OfferStates
<1>3. offers' = [o \in 1..Len(offers) |-> new(o)]
  BY DEF Expired, OfferIds
<1> HIDE DEF old
<1>4. \A o \in 1..Len(offers) : new(o) \in Offers
  BY <1>1, <1>2 DEF OfferIds
<1>5. offers' \in [1..Len(offers) -> Offers]
  BY <1>3, <1>4
<1>6. offers' \in Seq(Offers) /\ Len(offers') = Len(offers)
  <2>1. offers' \in Seq(Offers)
    BY <1>1, <1>5, SeqDef
  <2>2. DOMAIN offers' = 1..Len(offers) /\ DOMAIN offers' = 1..Len(offers') /\ Len(offers') \in Nat
    BY <1>5, <2>1, LenProperties
  <2>3. QED BY <1>1, <2>1, <2>2
<1>7. OfferIds' = OfferIds
  BY <1>6 DEF OfferIds
<1>8. \A o \in OfferIds :
          /\ offers'[o].tasks = offers[o].tasks /\ offers'[o].crossed = offers[o].crossed
          /\ \/ offers'[o].status = offers[o].status
             \/ offers[o].status = "pending" /\ offers'[o].status = "expired"
  BY <1>2, <1>3 DEF OfferIds
<1>9. OfferTypes'
  BY <1>6, <1>7 DEF OfferInv, OfferTypes
<1>10. TasksMatch'
  BY <1>7, <1>8 DEF OfferInv, TasksMatch
<1>11. QED BY <1>9, <1>10 DEF OfferInv

LEMMA OffersGrow ==
    ASSUME OfferInv, NEW r \in Offers, offers' = Append(offers, r), desk' = desk,
           r.tasks = 0, r.status = "pending"
    PROVE  OfferInv'
<1>1. Len(offers) \in Nat /\ \A o \in OfferIds : o \in Nat /\ o # 0
  BY OfferRow DEF OfferInv
<1>2. /\ offers' \in Seq(Offers) /\ Len(offers') = Len(offers) + 1
      /\ \A o \in OfferIds : offers'[o] = offers[o]
      /\ offers'[Len(offers) + 1] = r
  BY <1>1 DEF OfferInv, OfferTypes, OfferIds
<1>3. /\ OfferIds' = OfferIds \cup {Len(offers) + 1} /\ Len(offers) + 1 \notin OfferIds
      /\ Len(offers) + 1 # 0
  BY <1>1, <1>2 DEF OfferIds
<1>4. OfferTypes'
  BY <1>2, <1>3 DEF OfferInv, OfferTypes
<1>5. \A p \in Reviewers : desk[p].offer # Len(offers) + 1
  BY <1>3 DEF OfferInv, OfferTypes
<1>6. TasksMatch'
  <2>1. ASSUME NEW o \in OfferIds
        PROVE  /\ offers'[o].status = "accepted" => offers'[o].tasks >= 1
               /\ ~offers'[o].crossed =>
                     /\ offers'[o].tasks = IF offers'[o].status = "accepted" THEN 1 ELSE 0
                     /\ \A p, q \in Reviewers : desk[p].offer = o /\ desk[q].offer = o => p = q
                     /\ \A p \in Reviewers : desk[p].offer = o => offers'[o].status # "accepted"
    BY <1>2 DEF OfferInv, TasksMatch
  <2>2. QED BY <1>2, <1>3, <1>5, <2>1 DEF TasksMatch
<1>7. QED BY <1>4, <1>6 DEF OfferInv

\* One suggestion o becomes r, and one request has d open.
LEMMA OfferMoves ==
    ASSUME OfferTypes, NEW o \in OfferIds, NEW r \in Offers, offers' = [offers EXCEPT ![o] = r],
           NEW p \in Reviewers, NEW d \in Deciders, desk' = [desk EXCEPT ![p] = d],
           d.offer = 0 \/ d.offer = o
    PROVE  /\ OfferTypes' /\ OfferIds' = OfferIds
           /\ offers'[o] = r /\ \A n \in OfferIds \ {o} : offers'[n] = offers[n]
           /\ desk'[p] = d /\ \A q \in Reviewers \ {p} : desk'[q] = desk[q]
<1>1. offers \in Seq(Offers) /\ o \in 1..Len(offers)
  BY DEF OfferTypes, OfferIds
<1>2. /\ offers' \in Seq(Offers) /\ Len(offers') = Len(offers)
      /\ offers'[o] = r /\ \A n \in OfferIds \ {o} : offers'[n] = offers[n]
  BY <1>1, ExceptSeq DEF OfferIds
<1>3. OfferIds' = OfferIds
  BY <1>2 DEF OfferIds
<1>4. /\ desk' \in [Reviewers -> Deciders]
      /\ desk'[p] = d /\ \A q \in Reviewers \ {p} : desk'[q] = desk[q]
  BY DEF OfferTypes
<1>5. QED BY <1>2, <1>3, <1>4 DEF OfferTypes

LEMMA FindPendingStep ==
    ASSUME OfferInv, NEW p \in Reviewers, NEW o \in OfferIds, NEW accepts \in BOOLEAN,
           FindPending(p, o, accepts)
    PROVE  OfferInv'
<1> DEFINE d == [offer |-> o, accepts |-> accepts]
           x == offers[o].crossed \/ \E q \in Reviewers : desk[q].offer = o
           r == [offers[o] EXCEPT !.crossed = x]
<1>1. /\ desk[p].offer = 0 /\ offers[o].status = "pending"
      /\ desk' = [desk EXCEPT ![p] = d] /\ offers' = [offers EXCEPT ![o] = r]
  BY DEF FindPending
<1>2. offers[o] \in Offers /\ o \in Nat /\ o # 0 /\ offers[o].tasks \in Nat
  BY OfferRow DEF OfferInv
<1>3. d \in Deciders /\ d.offer = o
  BY <1>2 DEF Deciders, Figures
<1>4. x \in BOOLEAN /\ (x <=> offers[o].crossed \/ \E q \in Reviewers : desk[q].offer = o)
  BY <1>2 DEF Offers
<1> HIDE DEF d, x
<1>5. /\ r \in Offers /\ r.tasks = offers[o].tasks /\ r.status = offers[o].status
      /\ r.crossed = x
  BY <1>2, <1>4 DEF Offers
<1> HIDE DEF r
<1>6. /\ OfferTypes' /\ OfferIds' = OfferIds
      /\ offers'[o] = r /\ \A n \in OfferIds \ {o} : offers'[n] = offers[n]
      /\ desk'[p] = d /\ \A q \in Reviewers \ {p} : desk'[q] = desk[q]
  <2>1. OfferTypes /\ offers' = [offers EXCEPT ![o] = r] /\ desk' = [desk EXCEPT ![p] = d]
    BY <1>1 DEF OfferInv
  <2> HIDE DEF OfferInv
  <2>2. /\ o \in OfferIds /\ p \in Reviewers
        /\ r \in Offers /\ d \in Deciders /\ (d.offer = 0 \/ d.offer = o)
    BY <1>3, <1>5
  <2>3. OfferTypes' /\ OfferIds' = OfferIds
    BY <2>1, <2>2, OfferMoves
  <2>4. offers'[o] = r /\ \A n \in OfferIds \ {o} : offers'[n] = offers[n]
    <3>1. offers \in Seq(Offers) /\ o \in 1..Len(offers)
      BY <2>1, <2>2 DEF OfferTypes, OfferIds
    <3>2. QED BY <2>1, <2>2, <3>1, ExceptSeq DEF OfferIds
  <2>5. desk'[p] = d /\ \A q \in Reviewers \ {p} : desk'[q] = desk[q]
    BY <2>1, <2>2 DEF OfferTypes
  <2>6. QED BY <2>3, <2>4, <2>5
<1>7. TasksMatch'
  BY <1>1, <1>2, <1>3, <1>4, <1>5, <1>6 DEF OfferInv, TasksMatch
<1>8. QED BY <1>6, <1>7 DEF OfferInv

LEMMA DecideOfferStep == ASSUME OfferInv, NEW p \in Reviewers, DecideOffer(p) PROVE OfferInv'
<1> DEFINE o == desk[p].offer
           s == IF desk[p].accepts THEN "accepted" ELSE "dismissed"
           n == IF desk[p].accepts THEN offers[o].tasks + 1 ELSE offers[o].tasks
           r == [offers[o] EXCEPT !.status = s, !.tasks = n]
<1>1. /\ o # 0 /\ desk' = [desk EXCEPT ![p] = NoDesk]
      /\ offers' = [offers EXCEPT ![o] = r]
  BY DEF DecideOffer
<1>2. o \in OfferIds /\ offers[o] \in Offers /\ offers[o].tasks \in Nat
  BY <1>1, OfferRow DEF OfferInv, OfferTypes
<1>3. /\ s \in {"accepted", "dismissed"} /\ n \in Figures
      /\ n = IF s = "accepted" THEN offers[o].tasks + 1 ELSE offers[o].tasks
  BY <1>2 DEF Figures
<1> HIDE DEF s, n
<1>4. r \in Offers /\ r.tasks = n /\ r.status = s /\ r.crossed = offers[o].crossed
  BY <1>2, <1>3 DEF Offers, OfferStates
<1> HIDE DEF r
<1>5. /\ OfferTypes' /\ OfferIds' = OfferIds
      /\ offers'[o] = r /\ \A m \in OfferIds \ {o} : offers'[m] = offers[m]
      /\ desk'[p] = NoDesk /\ \A q \in Reviewers \ {p} : desk'[q] = desk[q]
  <2>1. OfferTypes /\ offers' = [offers EXCEPT ![o] = r] /\ desk' = [desk EXCEPT ![p] = NoDesk]
    BY <1>1 DEF OfferInv
  <2> HIDE DEF o, OfferInv
  <2>2. NoDesk \in Deciders /\ (NoDesk.offer = 0 \/ NoDesk.offer = o)
    BY OfferFacts
  <2>3. QED BY <1>2, <1>4, <2>1, <2>2, OfferMoves
<1>6. \A m \in OfferIds : m # 0
  BY OfferRow DEF OfferInv
<1>7. TasksMatch'
  BY <1>2, <1>3, <1>4, <1>5, <1>6, OfferFacts DEF OfferInv, TasksMatch
<1>8. QED BY <1>5, <1>7 DEF OfferInv

LEMMA OfferInvStep == OfferInv /\ [RunsNext \/ OffersNext]_suggestVars => OfferInv'
<1> SUFFICES ASSUME OfferInv, [RunsNext \/ OffersNext]_suggestVars PROVE OfferInv'
  OBVIOUS
<1>1. ASSUME UNCHANGED offerVars PROVE OfferInv'
  BY <1>1 DEF OfferInv, OfferTypes, TasksMatch, OfferIds, offerVars
<1>2. CASE \/ Hour \/ Log \/ QueueDue \/ UNCHANGED suggestVars
           \/ \E c \in LogIds : Appear(c)
           \/ \E w \in Runners : Succeed(w) \/ Fail(w) \/ StopRun(w)
  BY <1>1, <1>2 DEF Hour, Log, QueueDue, Appear, Succeed, Fail, StopRun, suggestVars
<1>3. ASSUME NEW w \in Runners, NEW i \in RunIds, BeginRun(w, i) PROVE OfferInv'
  BY <1>3, OffersExpire DEF BeginRun
<1>4. ASSUME NEW w \in Runners, NEW c \in LogIds, Review(w, c) PROVE OfferInv'
  <2> DEFINE r == [about |-> c, tasks |-> 0, crossed |-> FALSE, status |-> "pending"]
  <2>1. desk' = desk /\ (offers' = offers \/ offers' = Append(offers, r))
    BY <1>4 DEF Review
  <2>2. r \in Offers /\ r.tasks = 0 /\ r.status = "pending"
    BY DEF Offers, OfferStates, Figures, LogIds
  <2> HIDE DEF r
  <2>3. QED BY <1>1, <2>1, <2>2, OffersGrow DEF offerVars
<1>5. ASSUME NEW due \in SUBSET OfferIds, ExpireDue(due) PROVE OfferInv'
  BY <1>5, OffersExpire DEF ExpireDue
<1>6. QED
  BY <1>2, <1>3, <1>4, <1>5, FindPendingStep, DecideOfferStep DEF RunsNext, OffersNext

LEMMA OffersDecided == OfferInv => OneTaskEach
<1> SUFFICES ASSUME OfferInv PROVE OneTaskEach
  OBVIOUS
<1>1. \A o \in OfferIds : offers[o].tasks \in Nat
  BY OfferRow DEF OfferInv
<1>2. QED BY <1>1 DEF OfferInv, TasksMatch, OneTaskEach

----------------------------------------------------------------------------
\* The runs.  What lies before a run's cursor has been dealt with.

RunStates == {"queued", "running", "succeeded", "failed"}
Marks == SUBSET Figures
LogEntries == [at : Figures, seen : BOOLEAN]
RunRows == [status : RunStates, kept : BOOLEAN, created : Figures, cursor : Figures,
            finished : Figures]
Works == [run : Figures, since : Figures, until : Figures, seen : Marks, items : Marks,
          left : Marks]

RunTypes ==
    /\ hour \in Nat /\ hour >= 1
    /\ log \in Seq(LogEntries) /\ runs \in Seq(RunRows) /\ under \in [Runners -> Works]

\* The communications are in the order they were logged, none in the future.
LoggedInTime ==
    \A c \in LogIds : /\ log[c].at >= 1 /\ log[c].at <= hour
                      /\ \A d \in LogIds : c <= d => log[c].at <= log[d].at

\* All that was logged up to this time has been reviewed or may be passed over.
DealtWith(t) == \A c \in LogIds : log[c].at <= t => c \in reviewed \cup excused

CursorHolds(run) ==
    run.cursor <= hour /\ (run.status = "succeeded" => DealtWith(run.cursor))

\* A run under way starts where all before is dealt with, and has read all it ends at.
WorkHolds(work) ==
    /\ work.run \in RunIds /\ work.since <= work.until /\ work.until <= hour
    /\ DealtWith(work.since)
    /\ work.items \ work.left \subseteq reviewed
    /\ \A c \in LogIds : work.since < log[c].at /\ log[c].at < work.until /\ c \in work.seen
                             => c \in work.items

RunInv ==
    /\ RunTypes /\ LoggedInTime
    /\ \A i \in RunIds : CursorHolds(runs[i])
    /\ \A w \in Runners : under[w].run # 0 => WorkHolds(under[w])

LEMMA LogRow ==
    ASSUME RunTypes
    PROVE  /\ Len(log) \in Nat /\ log \in Seq(LogEntries)
           /\ \A c \in LogIds : /\ c \in Nat /\ c # 0 /\ log[c] \in LogEntries
                                /\ log[c].at \in Nat /\ log[c].seen \in BOOLEAN
<1>1. log \in Seq(LogEntries)
  BY DEF RunTypes
<1>2. Len(log) \in Nat /\ log \in [1..Len(log) -> LogEntries]
  BY <1>1, LenProperties
<1>3. \A r \in LogEntries : r.at \in Nat /\ r.seen \in BOOLEAN
  BY DEF LogEntries, Figures
<1>4. QED BY <1>1, <1>2, <1>3 DEF LogIds

LEMMA RunRow ==
    ASSUME RunTypes
    PROVE  /\ Len(runs) \in Nat /\ runs \in Seq(RunRows)
           /\ \A i \in RunIds : /\ i \in Nat /\ i # 0 /\ runs[i] \in RunRows
                                /\ runs[i].cursor \in Nat
<1>1. runs \in Seq(RunRows)
  BY DEF RunTypes
<1>2. Len(runs) \in Nat /\ runs \in [1..Len(runs) -> RunRows]
  BY <1>1, LenProperties
<1>3. \A r \in RunRows : r.cursor \in Nat
  BY DEF RunRows, Figures
<1>4. QED BY <1>1, <1>2, <1>3 DEF RunIds

LEMMA WorkRow ==
    ASSUME RunTypes, NEW w \in Runners
    PROVE  /\ under[w] \in Works /\ under[w].since \in Nat /\ under[w].until \in Nat
           /\ under[w].run \in Nat
<1>1. under[w] \in Works
  BY DEF RunTypes
<1>2. QED BY <1>1 DEF Works, Figures

LEMMA IdleRun == NoRun \in Works /\ NoRun.run = 0
<1>1. {} \in Marks
  BY DEF Marks
<1>2. QED BY <1>1 DEF NoRun, Works, Figures

LEMMA RunInvInit == SuggestInit => RunInv
<1> SUFFICES ASSUME SuggestInit PROVE RunInv
  OBVIOUS
<1>1. log \in Seq(LogEntries) /\ runs \in Seq(RunRows) /\ Len(log) = 0 /\ Len(runs) = 0
  BY EmptySeq DEF SuggestInit
<1>2. LogIds = {} /\ RunIds = {}
  BY <1>1 DEF LogIds, RunIds
<1>3. under \in [Runners -> Works] /\ \A w \in Runners : under[w].run = 0
  BY IdleRun DEF SuggestInit
<1>4. hour = 1
  BY DEF SuggestInit
<1>5. QED BY <1>1, <1>2, <1>3, <1>4 DEF RunInv, RunTypes, LoggedInTime

----------------------------------------------------------------------------
\* The least and the greatest of some numbers

LEMMA LeastOf ==
    ASSUME NEW S \in SUBSET Nat, S # {}
    PROVE  \E m \in S : \A n \in S : m <= n
<1> DEFINE Smaller == {p \in Nat \X Nat : p[1] < p[2]}
<1>1. IsWellFoundedOn(Smaller, Nat)
  BY NatLessThanWellFounded DEF OpToRel
<1> HIDE DEF Smaller
<1>2. PICK m \in S : \A n \in S : <<n, m>> \notin Smaller
  BY <1>1, WFMin
<1>3. ASSUME NEW n \in S PROVE m <= n
  <2>1. ASSUME n < m PROVE FALSE
    <3>1. <<n, m>> \in Smaller
      BY <2>1 DEF Smaller
    <3>2. QED BY <1>2, <3>1
  <2>2. QED BY <2>1
<1>4. QED BY <1>3

LEMMA GreatestOf ==
    ASSUME NEW S \in SUBSET Nat, S # {}, NEW limit \in Nat, \A n \in S : n <= limit
    PROVE  Max(S) \in S /\ \A n \in S : n <= Max(S)
<1> DEFINE T == {k \in Nat : limit - k \in S}
<1>1. PICK n \in S : TRUE
  OBVIOUS
<1>2. limit - n \in T
  OBVIOUS
<1>3. T # {} /\ T \in SUBSET Nat
  BY <1>2
<1> HIDE DEF T
<1>4. PICK k \in T : \A j \in T : k <= j
  BY <1>3, LeastOf
<1>5. limit - k \in S /\ k \in Nat
  BY <1>4 DEF T
<1>6. \A j \in S : limit - k >= j
  <2> TAKE j \in S
  <2>1. limit - j \in T
    BY DEF T
  <2>2. k <= limit - j
    BY <1>4, <2>1
  <2>3. QED BY <1>5, <2>2
<1>7. \E x \in S : \A y \in S : x >= y
  BY <1>5, <1>6
<1>8. Max(S) \in S /\ \A y \in S : Max(S) >= y
  BY <1>7 DEF Max
<1>9. QED BY <1>8

----------------------------------------------------------------------------
\* What a run reads: all that can be seen after its start, up to its end, but for what has
\* the moment of its end.

LEMMA WindowFinite ==
    ASSUME RunInv, NEW since
    PROVE  /\ Window(since) \subseteq LogIds /\ IsFiniteSet(Window(since))
           /\ Cardinality(Window(since)) \in Nat
<1>1. LogIds = 1..Len(log) /\ Len(log) \in Nat
  BY LogRow DEF RunInv, LogIds
<1>2. IsFiniteSet(LogIds)
  BY <1>1, FS_Interval
<1>3. Window(since) \in SUBSET LogIds
  BY DEF Window
<1>4. IsFiniteSet(Window(since))
  BY <1>2, <1>3, FS_Subset
<1>5. QED BY <1>3, <1>4, FS_CardinalityType

LEMMA FewAreAll ==
    ASSUME RunInv, NEW since, ~(Cardinality(Window(since)) > PerRun)
    PROVE  Oldest(Window(since)) = Window(since)
<1> DEFINE W == Window(since)
<1>1. IsFiniteSet(W) /\ Cardinality(W) \in Nat /\ PerRun \in Nat
  BY WindowFinite, SuggestionsAssumption
<1>2. ~(Cardinality(W) > PerRun)
  OBVIOUS
<1> HIDE DEF W
<1>3. ASSUME NEW c \in W PROVE Cardinality({d \in W : d <= c}) <= PerRun
  <2> DEFINE V == {d \in W : d <= c}
  <2>1. V \in SUBSET W
    OBVIOUS
  <2> HIDE DEF V
  <2>2. Cardinality(V) <= Cardinality(W) /\ IsFiniteSet(V)
    BY <1>1, <2>1, FS_Subset
  <2>3. Cardinality(V) \in Nat
    BY <2>2, FS_CardinalityType
  <2>4. Cardinality(V) <= PerRun
    BY <1>1, <1>2, <2>2, <2>3
  <2>5. QED BY <2>4 DEF V
<1>4. Oldest(W) = W
  BY <1>3 DEF Oldest
<1>5. QED BY <1>4 DEF W

LEMMA OldestReach ==
    ASSUME RunInv, NEW since, Cardinality(Window(since)) > PerRun
    PROVE  LET m == Max(Oldest(Window(since)))
           IN  /\ m \in Oldest(Window(since)) /\ m \in Window(since)
               /\ \A c \in Window(since) : c <= m => c \in Oldest(Window(since))
<1> DEFINE W == Window(since)
           m == Max(Oldest(W))
<1>1. /\ IsFiniteSet(W) /\ Cardinality(W) \in Nat /\ PerRun \in Nat /\ PerRun >= 1
      /\ W \subseteq LogIds /\ Cardinality(W) > PerRun
  BY WindowFinite, SuggestionsAssumption
<1>2. Len(log) \in Nat /\ LogIds = 1..Len(log)
  BY LogRow DEF RunInv, LogIds
<1> HIDE DEF W
<1>3. W # {} /\ W \in SUBSET Nat /\ \A c \in W : c <= Len(log)
  BY <1>1, <1>2, FS_EmptySet
<1>4. PICK a \in W : \A c \in W : a <= c
  BY <1>3, LeastOf
<1>5. {d \in W : d <= a} = {a}
  <2>1. \A d \in W : d <= a <=> d = a
    BY <1>3, <1>4
  <2>2. QED BY <1>4, <2>1
<1>6. Cardinality({d \in W : d <= a}) <= PerRun
  BY <1>1, <1>5, FS_Singleton
<1>7. a \in Oldest(W) /\ Oldest(W) \subseteq W
  BY <1>6 DEF Oldest
<1>8. m \in Oldest(W) /\ \A c \in Oldest(W) : c <= m
  <2> DEFINE O == Oldest(W)
  <2>1. O \in SUBSET Nat /\ O # {} /\ \A c \in O : c <= Len(log)
    BY <1>3, <1>7
  <2> HIDE DEF O
  <2>2. Max(O) \in O /\ \A c \in O : c <= Max(O)
    BY <1>2, <2>1, GreatestOf
  <2>3. QED BY <2>2 DEF O
<1> HIDE DEF m
<1>9. ASSUME NEW c \in W, c <= m PROVE c \in Oldest(W)
  <2> DEFINE V == {d \in W : d <= c}
             U == {d \in W : d <= m}
  <2>1. V \in SUBSET U /\ U \in SUBSET W
    <3>1. c \in Nat /\ m \in Nat /\ W \subseteq Nat
      BY <1>3, <1>7, <1>8
    <3>2. \A d \in W : d <= c => d <= m
      BY <1>9, <3>1
    <3>3. QED BY <3>2
  <2>2. Cardinality(U) <= PerRun
    BY <1>8 DEF Oldest
  <2> HIDE DEF V, U
  <2>3. IsFiniteSet(U)
    BY <1>1, <2>1, FS_Subset
  <2>4. IsFiniteSet(V) /\ Cardinality(V) <= Cardinality(U)
    BY <2>1, <2>3, FS_Subset
  <2>5. Cardinality(V) \in Nat /\ Cardinality(U) \in Nat
    BY <2>3, <2>4, FS_CardinalityType
  <2>6. Cardinality(V) <= PerRun
    BY <1>1, <2>2, <2>4, <2>5
  <2>7. QED BY <2>6 DEF V, Oldest
<1>10. QED BY <1>7, <1>8, <1>9 DEF W, m

LEMMA ReadsToItsEnd ==
    ASSUME RunInv, NEW since \in Nat, since <= hour
    PROVE  /\ NextCursor(since) \in Nat /\ since <= NextCursor(since) /\ NextCursor(since) <= hour
           /\ \A c \in LogIds : since < log[c].at /\ log[c].at < NextCursor(since) /\ log[c].seen
                                    => c \in Oldest(Window(since))
<1>1. /\ hour \in Nat
      /\ \A c \in LogIds : c \in Nat /\ log[c].at \in Nat /\ log[c].at <= hour
  BY LogRow DEF RunInv, RunTypes, LoggedInTime
<1>2. \A c \in LogIds : c \in Window(since) <=> log[c].seen /\ log[c].at > since
  BY <1>1 DEF Window
<1>3. CASE Cardinality(Window(since)) > PerRun
  <2> DEFINE m == Max(Oldest(Window(since)))
  <2>1. /\ m \in Window(since)
        /\ \A c \in Window(since) : c <= m => c \in Oldest(Window(since))
    BY <1>3, OldestReach
  <2>2. NextCursor(since) = log[m].at
    BY <1>3 DEF NextCursor
  <2> HIDE DEF m
  <2>3. m \in LogIds /\ log[m].at > since
    BY <2>1 DEF Window
  <2>4. ASSUME NEW c \in LogIds, since < log[c].at, log[c].at < log[m].at, log[c].seen
        PROVE  c \in Oldest(Window(since))
    <3>1. c \in Window(since)
      BY <1>1, <1>2, <2>4
    <3>2. m <= c => log[m].at <= log[c].at
      BY <2>3 DEF RunInv, LoggedInTime
    <3>3. c <= m
      BY <1>1, <2>3, <2>4, <3>2
    <3>4. QED BY <2>1, <3>1, <3>3
  <2>5. QED BY <1>1, <2>2, <2>3, <2>4
<1>4. CASE ~(Cardinality(Window(since)) > PerRun)
  <2>1. Oldest(Window(since)) = Window(since) /\ NextCursor(since) = hour
    BY <1>4, FewAreAll DEF NextCursor
  <2>2. QED BY <1>1, <1>2, <2>1
<1>5. QED BY <1>3, <1>4

----------------------------------------------------------------------------
\* The steps of the runs.

\* What was logged stays in order, and what is dealt with stays dealt with.
LEMMA AllStays ==
    ASSUME RunInv, LogIds' = LogIds, \A c \in LogIds : log'[c].at = log[c].at,
           reviewed \subseteq reviewed', excused \subseteq excused',
           hour' \in Nat, hour <= hour', log' \in Seq(LogEntries)
    PROVE  /\ LoggedInTime' /\ \A t \in Nat : DealtWith(t) => DealtWith(t)'
<1>1. LoggedInTime'
  <2>1. \A c \in LogIds : log[c].at \in Nat /\ log[c].at >= 1 /\ log[c].at <= hour
    BY LogRow DEF RunInv, LoggedInTime
  <2>2. hour \in Nat
    BY DEF RunInv, RunTypes
  <2>3. \A c \in LogIds : log[c].at <= hour'
    BY <2>1, <2>2
  <2>4. QED BY <2>1, <2>3 DEF RunInv, LoggedInTime
<1>2. \A t \in Nat : DealtWith(t) => DealtWith(t)'
  BY DEF DealtWith
<1>3. QED BY <1>1, <1>2

\* Runs and work that stay as they were hold what they held.
LEMMA UntouchedHold ==
    ASSUME RunInv, RunIds \subseteq RunIds', LogIds' = LogIds,
           \A c \in LogIds : log'[c].at = log[c].at,
           hour \in Nat, hour' \in Nat, hour <= hour',
           reviewed \subseteq reviewed', excused \subseteq excused',
           \A t \in Nat : DealtWith(t) => DealtWith(t)'
    PROVE  /\ \A i \in RunIds : runs'[i] = runs[i] => CursorHolds(runs[i])'
           /\ \A w \in Runners : under[w].run # 0 /\ under'[w] = under[w] => WorkHolds(under[w])'
<1>1. ASSUME NEW i \in RunIds, runs'[i] = runs[i] PROVE CursorHolds(runs[i])'
  <2>1. runs[i].cursor \in Nat /\ CursorHolds(runs[i])
    BY RunRow DEF RunInv
  <2>2. runs[i].cursor <= hour' /\ (runs[i].status = "succeeded" => DealtWith(runs[i].cursor))
    BY <2>1 DEF CursorHolds
  <2>3. PICK t \in Nat : t = runs[i].cursor
    BY <2>1
  <2>4. DealtWith(t) => DealtWith(t)'
    BY <2>3
  <2>5. t <= hour' /\ (runs[i].status = "succeeded" => DealtWith(t)')
    BY <2>2, <2>3, <2>4
  <2>6. runs'[i].cursor = t /\ runs'[i].status = runs[i].status
    BY <1>1, <2>3
  <2>7. DealtWith(t)' => DealtWith(runs[i].cursor)'
    BY <2>6 DEF DealtWith
  <2>8. QED BY <2>5, <2>6, <2>7 DEF CursorHolds
<1>2. ASSUME NEW w \in Runners, under[w].run # 0, under'[w] = under[w]
      PROVE  WorkHolds(under[w])'
  <2>1. under[w].since \in Nat /\ under[w].until \in Nat /\ WorkHolds(under[w])
    BY <1>2, WorkRow DEF RunInv
  <2>2. PICK t \in Nat : t = under[w].since
    BY <2>1
  <2>3. DealtWith(t)'
    BY <2>1, <2>2 DEF WorkHolds
  <2>4. under'[w].since = t
    BY <1>2, <2>2
  <2>5. DealtWith(under[w].since)'
    BY <2>3, <2>4 DEF DealtWith
  <2>6. under[w].until <= hour'
    BY <2>1 DEF WorkHolds
  <2>7. QED BY <1>2, <2>1, <2>5, <2>6 DEF WorkHolds
<1>3. QED BY <1>1, <1>2

LEMMA HourStep == ASSUME RunInv, Hour PROVE RunInv'
<1>1. /\ hour \in Nat /\ hour' = hour + 1 /\ UNCHANGED <<log, runs, under, reviewed, excused>>
      /\ log \in Seq(LogEntries)
  BY DEF Hour, RunInv, RunTypes
<1>2. hour' \in Nat /\ hour <= hour' /\ LogIds' = LogIds /\ RunIds' = RunIds
  BY <1>1 DEF LogIds, RunIds
<1>3. LoggedInTime' /\ \A t \in Nat : DealtWith(t) => DealtWith(t)'
  BY <1>1, <1>2, AllStays
<1>4. /\ \A i \in RunIds : runs'[i] = runs[i] => CursorHolds(runs[i])'
      /\ \A w \in Runners : under[w].run # 0 /\ under'[w] = under[w] => WorkHolds(under[w])'
  BY <1>1, <1>2, <1>3, UntouchedHold
<1>5. RunTypes'
  BY <1>1, <1>2 DEF RunInv, RunTypes
<1>6. QED BY <1>1, <1>2, <1>3, <1>4, <1>5 DEF RunInv

LEMMA LogStep == ASSUME RunInv, Log PROVE RunInv'
<1>1. PICK seen \in BOOLEAN : log' = Append(log, [at |-> hour, seen |-> seen])
  BY DEF Log
<1>2. /\ UNCHANGED <<hour, runs, under, reviewed, excused>>
      /\ \A w \in Runners : under[w].until < hour
      /\ \A i \in RunIds : runs[i].cursor < hour
      /\ hour \in Nat /\ hour >= 1
  BY DEF Log, RunInv, RunTypes
<1> DEFINE r == [at |-> hour, seen |-> seen]
           n == Len(log) + 1
<1>3. r \in LogEntries /\ r.at = hour
  BY <1>2 DEF LogEntries, Figures
<1> HIDE DEF r
<1>4. log \in Seq(LogEntries) /\ Len(log) \in Nat
  BY LogRow DEF RunInv
<1>5. /\ log' \in Seq(LogEntries) /\ Len(log') = n /\ log'[n] = r
      /\ \A c \in LogIds : log'[c] = log[c]
  <2>1. log' = Append(log, r)
    BY <1>1 DEF r
  <2>2. QED BY <1>3, <1>4, <2>1 DEF LogIds
<1>6. /\ LogIds' = LogIds \cup {n} /\ RunIds' = RunIds
      /\ \A c \in LogIds : c \in Nat /\ c < n
  BY <1>2, <1>4, <1>5 DEF LogIds, RunIds
<1>7. RunTypes'
  BY <1>2, <1>5 DEF RunInv, RunTypes
<1>8. LoggedInTime'
  <2>1. \A c \in LogIds : /\ log[c].at >= 1 /\ log[c].at <= hour
                          /\ \A d \in LogIds : c <= d => log[c].at <= log[d].at
    BY DEF RunInv, LoggedInTime
  <2>2. log'[n].at = hour /\ \A c \in LogIds : log'[c].at = log[c].at
    BY <1>3, <1>5
  <2>3. n \in Nat /\ \A c \in LogIds : ~(n <= c)
    BY <1>4, <1>6
  <2> HIDE DEF n
  <2>4. \A c \in LogIds' : log'[c].at >= 1 /\ log'[c].at <= hour
    BY <1>2, <1>6, <2>1, <2>2
  <2>5. ASSUME NEW c \in LogIds', NEW d \in LogIds', c <= d PROVE log'[c].at <= log'[d].at
    <3>1. CASE c \in LogIds /\ d \in LogIds
      BY <2>1, <2>2, <2>5, <3>1
    <3>2. CASE d = n
      BY <1>2, <2>2, <2>4, <3>2
    <3>3. CASE c = n /\ d \in LogIds
      BY <2>3, <2>5, <3>3
    <3>4. QED BY <1>6, <3>1, <3>2, <3>3
  <2>6. QED BY <1>2, <2>4, <2>5 DEF LoggedInTime
<1> HIDE DEF n
<1>9. \A t \in Nat : t < hour /\ DealtWith(t) => DealtWith(t)'
  <2> SUFFICES ASSUME NEW t \in Nat, t < hour, DealtWith(t), NEW c \in LogIds', log'[c].at <= t
               PROVE  c \in reviewed \cup excused
    BY <1>2 DEF DealtWith
  <2>1. CASE c \in LogIds
    BY <1>5, <2>1 DEF DealtWith
  <2>2. CASE c = n
    BY <1>2, <1>3, <1>5, <2>2
  <2>3. QED BY <1>6, <2>1, <2>2
<1>10. ASSUME NEW i \in RunIds PROVE CursorHolds(runs[i])'
  <2>1. PICK t \in Nat : t = runs[i].cursor
    BY RunRow DEF RunInv
  <2>2. t < hour /\ t <= hour /\ (runs[i].status = "succeeded" => DealtWith(t))
    BY <1>2, <2>1 DEF RunInv, CursorHolds
  <2>3. runs[i].status = "succeeded" => DealtWith(t)'
    BY <1>9, <2>2
  <2>4. DealtWith(t)' => DealtWith(runs[i].cursor)'
    BY <1>2, <2>1 DEF DealtWith
  <2>5. QED BY <1>2, <2>1, <2>2, <2>3, <2>4 DEF CursorHolds
<1>11. ASSUME NEW w \in Runners, under[w].run # 0 PROVE WorkHolds(under[w])'
  <2>1. /\ under[w].since \in Nat /\ under[w].until \in Nat /\ WorkHolds(under[w])
        /\ under[w].until < hour
    BY <1>2, <1>11, WorkRow DEF RunInv
  <2>2. PICK t \in Nat : t = under[w].since
    BY <2>1
  <2>3. t < hour /\ DealtWith(t)
    BY <1>2, <2>1, <2>2 DEF WorkHolds
  <2>4. DealtWith(under[w].since)'
    <3>1. DealtWith(t)'
      BY <1>9, <2>3
    <3>2. QED BY <1>2, <2>2, <3>1 DEF DealtWith
  <2>5. ASSUME NEW c \in LogIds', under[w].since < log'[c].at, log'[c].at < under[w].until,
               c \in under[w].seen
        PROVE  c \in under[w].items
    <3>1. CASE c \in LogIds
      BY <1>5, <2>1, <2>5, <3>1 DEF WorkHolds
    <3>2. CASE c = n
      BY <1>2, <1>3, <1>5, <2>1, <2>5, <3>2
    <3>3. QED BY <1>6, <3>1, <3>2
  <2>6. QED BY <1>2, <1>6, <2>1, <2>4, <2>5 DEF WorkHolds
<1>12. QED BY <1>2, <1>6, <1>7, <1>8, <1>10, <1>11 DEF RunInv

LEMMA AppearStep == ASSUME RunInv, NEW c \in LogIds, Appear(c) PROVE RunInv'
<1> DEFINE r == [log[c] EXCEPT !.seen = TRUE]
<1>1. /\ log' = [log EXCEPT ![c] = r]
      /\ UNCHANGED <<hour, runs, under, reviewed, excused>> /\ hour \in Nat
  BY DEF Appear, RunInv, RunTypes
<1>2. log[c] \in LogEntries /\ log \in Seq(LogEntries) /\ c \in 1..Len(log)
  BY LogRow DEF RunInv, LogIds
<1>3. r \in LogEntries /\ r.at = log[c].at
  BY <1>2 DEF LogEntries
<1> HIDE DEF r
<1>4. /\ log' \in Seq(LogEntries) /\ Len(log') = Len(log)
      /\ \A d \in LogIds : log'[d].at = log[d].at
  BY <1>1, <1>2, <1>3, ExceptSeq DEF LogIds
<1>5. LogIds' = LogIds /\ RunIds' = RunIds /\ hour' \in Nat /\ hour <= hour'
  BY <1>1, <1>4 DEF LogIds, RunIds
<1>6. LoggedInTime' /\ \A t \in Nat : DealtWith(t) => DealtWith(t)'
  BY <1>1, <1>4, <1>5, AllStays
<1>7. /\ \A i \in RunIds : runs'[i] = runs[i] => CursorHolds(runs[i])'
      /\ \A w \in Runners : under[w].run # 0 /\ under'[w] = under[w] => WorkHolds(under[w])'
  BY <1>1, <1>4, <1>5, <1>6, UntouchedHold
<1>8. RunTypes'
  BY <1>1, <1>4 DEF RunInv, RunTypes
<1>9. QED BY <1>1, <1>5, <1>6, <1>7, <1>8 DEF RunInv

LEMMA QueueDueStep == ASSUME RunInv, QueueDue PROVE RunInv'
<1> DEFINE fresh == [status |-> "queued", kept |-> TRUE, created |-> hour, cursor |-> 0,
                     finished |-> 0]
           new == Append(runs, fresh)
           stay == Newest(Kept \cup {Len(new)})
           after(i) == [new[i] EXCEPT !.kept = i \in stay]
<1>1. /\ runs' = [i \in 1..Len(new) |-> after(i)]
      /\ UNCHANGED <<hour, log, under, reviewed, excused>> /\ hour \in Nat
  BY DEF QueueDue, RunInv, RunTypes
<1>2. fresh \in RunRows /\ fresh.status = "queued" /\ fresh.cursor = 0
  BY <1>1 DEF RunRows, RunStates, Figures
<1>3. runs \in Seq(RunRows) /\ Len(runs) \in Nat
  BY RunRow DEF RunInv
<1> HIDE DEF fresh
<1>4. /\ new \in Seq(RunRows) /\ Len(new) = Len(runs) + 1 /\ Len(new) \in Nat
      /\ \A i \in RunIds : new[i] = runs[i]
      /\ new[Len(new)] = fresh
  BY <1>2, <1>3 DEF RunIds
<1> HIDE DEF new, stay
<1>5. \A i \in 1..Len(new) : new[i] \in RunRows
  BY <1>4
<1>6. \A i \in 1..Len(new) :
          after(i) \in RunRows /\ after(i).status = new[i].status /\ after(i).cursor = new[i].cursor
  <2> TAKE i \in 1..Len(new)
  <2> DEFINE b == i \in stay
             r == [new[i] EXCEPT !.kept = b]
  <2>1. after(i) = r
    OBVIOUS
  <2>2. b \in BOOLEAN /\ new[i] \in RunRows
    BY <1>5
  <2> HIDE DEF b, after
  <2>3. r \in RunRows /\ r.status = new[i].status /\ r.cursor = new[i].cursor
    BY <2>2 DEF RunRows
  <2>4. QED BY <2>1, <2>3
<1> HIDE DEF after
<1>7. runs' \in [1..Len(new) -> RunRows] /\ \A i \in 1..Len(new) : runs'[i] = after(i)
  BY <1>1, <1>6
<1>8. runs' \in Seq(RunRows) /\ Len(runs') = Len(new)
  <2>1. runs' \in Seq(RunRows)
    BY <1>4, <1>7, SeqDef
  <2>2. DOMAIN runs' = 1..Len(new) /\ DOMAIN runs' = 1..Len(runs') /\ Len(runs') \in Nat
    BY <1>7, <2>1, LenProperties
  <2>3. QED BY <1>4, <2>1, <2>2
<1>9. /\ LogIds' = LogIds /\ RunIds' = 1..Len(new) /\ RunIds \subseteq RunIds'
      /\ hour' \in Nat /\ hour <= hour' /\ log \in Seq(LogEntries)
      /\ RunIds' = RunIds \cup {Len(new)}
  BY <1>1, <1>3, <1>4, <1>8 DEF LogIds, RunIds, RunInv, RunTypes
<1>10. LoggedInTime' /\ \A t \in Nat : DealtWith(t) => DealtWith(t)'
  BY <1>1, <1>9, AllStays
<1>11. \A w \in Runners : under[w].run # 0 /\ under'[w] = under[w] => WorkHolds(under[w])'
  BY <1>1, <1>9, <1>10, UntouchedHold
<1>12. RunTypes'
  BY <1>1, <1>8 DEF RunInv, RunTypes
<1>13. ASSUME NEW i \in RunIds' PROVE CursorHolds(runs[i])'
  <2>1. CASE i \in RunIds
    <3>1. runs[i].cursor \in Nat /\ CursorHolds(runs[i])
      BY <2>1, RunRow DEF RunInv
    <3>2. PICK t \in Nat : t = runs[i].cursor
      BY <3>1
    <3>3. runs'[i].cursor = t /\ runs'[i].status = runs[i].status
      BY <1>4, <1>6, <1>7, <1>9, <2>1, <3>2
    <3>4. t <= hour' /\ (runs[i].status = "succeeded" => DealtWith(t)')
      BY <1>1, <1>10, <3>1, <3>2 DEF CursorHolds
    <3>5. DealtWith(t)' => DealtWith(runs[i].cursor)'
      BY <3>3 DEF DealtWith
    <3>6. QED BY <3>3, <3>4, <3>5 DEF CursorHolds
  <2>2. CASE i = Len(new)
    <3>1. runs'[i].cursor = 0 /\ runs'[i].status = "queued"
      BY <1>2, <1>4, <1>6, <1>7, <1>9, <2>2
    <3>2. QED BY <1>1, <3>1 DEF CursorHolds
  <2>3. QED BY <1>9, <2>1, <2>2
<1>14. QED BY <1>1, <1>9, <1>10, <1>11, <1>12, <1>13 DEF RunInv

\* One run i becomes r, and one worker w goes on with k.
LEMMA RunMoves ==
    ASSUME RunInv, NEW i \in RunIds, NEW r \in RunRows, runs' = [runs EXCEPT ![i] = r],
           NEW w \in Runners, NEW k \in Works, under' = [under EXCEPT ![w] = k],
           hour' = hour, log' = log,
           reviewed \subseteq reviewed', excused \subseteq excused',
           r.cursor <= hour, r.status = "succeeded" => \A c \in LogIds :
               log[c].at <= r.cursor => c \in reviewed' \cup excused',
           k.run # 0 =>
               /\ k.run \in RunIds /\ k.since <= k.until /\ k.until <= hour
               /\ \A c \in LogIds : log[c].at <= k.since => c \in reviewed' \cup excused'
               /\ k.items \ k.left \subseteq reviewed'
               /\ \A c \in LogIds : k.since < log[c].at /\ log[c].at < k.until /\ c \in k.seen
                                        => c \in k.items
    PROVE  RunInv'
<1>1. /\ hour \in Nat /\ hour' \in Nat /\ hour <= hour' /\ log \in Seq(LogEntries)
      /\ runs \in Seq(RunRows) /\ i \in 1..Len(runs) /\ LogIds' = LogIds
  BY RunRow DEF RunInv, RunTypes, RunIds, LogIds
<1>2. /\ runs' \in Seq(RunRows) /\ Len(runs') = Len(runs)
      /\ runs'[i] = r /\ \A j \in RunIds \ {i} : runs'[j] = runs[j]
  BY <1>1, ExceptSeq DEF RunIds
<1>3. RunIds' = RunIds
  BY <1>2 DEF RunIds
<1>4. /\ under' \in [Runners -> Works] /\ under'[w] = k
      /\ \A v \in Runners \ {w} : under'[v] = under[v]
  BY DEF RunInv, RunTypes
<1>5. LoggedInTime' /\ \A t \in Nat : DealtWith(t) => DealtWith(t)'
  BY <1>1, AllStays
<1>6. /\ \A j \in RunIds : runs'[j] = runs[j] => CursorHolds(runs[j])'
      /\ \A v \in Runners : under[v].run # 0 /\ under'[v] = under[v] => WorkHolds(under[v])'
  BY <1>1, <1>3, <1>5, UntouchedHold
<1>7. RunTypes'
  BY <1>1, <1>2, <1>4 DEF RunInv, RunTypes
<1>8. CursorHolds(runs[i])'
  BY <1>1, <1>2 DEF CursorHolds, DealtWith
<1>9. k.run # 0 => WorkHolds(under[w])'
  BY <1>1, <1>3, <1>4 DEF WorkHolds, DealtWith
<1>10. \A j \in RunIds' : CursorHolds(runs[j])'
  BY <1>2, <1>3, <1>6, <1>8
<1>11. \A v \in Runners : under'[v].run # 0 => WorkHolds(under[v])'
  BY <1>4, <1>6, <1>9
<1>12. QED BY <1>5, <1>7, <1>10, <1>11 DEF RunInv

\* Where the next run starts, all before is dealt with.
LEMMA StartsDealtWith ==
    ASSUME RunInv, NEW cursor \in LastCursors
    PROVE  /\ cursor \in Nat /\ cursor <= hour
           /\ cursor # 0 => DealtWith(cursor)
<1>1. cursor = 0 \/ \E i \in RunIds : runs[i].status = "succeeded" /\ cursor = runs[i].cursor
  BY DEF LastCursors, Successes, Kept
<1>2. \A i \in RunIds : CursorHolds(runs[i]) /\ runs[i].cursor \in Nat
  BY RunRow DEF RunInv
<1>3. hour \in Nat
  BY DEF RunInv, RunTypes
<1>4. QED BY <1>1, <1>2, <1>3 DEF CursorHolds

LEMMA BeginRunStep ==
    ASSUME RunInv, NEW w \in Runners, NEW i \in RunIds, BeginRun(w, i)
    PROVE  RunInv'
<1>1. PICK cursor \in LastCursors :
        LET since == IF cursor # 0 THEN cursor
                     ELSE IF hour > FirstLookback THEN hour - FirstLookback ELSE 0 IN
        /\ under' = [under EXCEPT ![w] =
              [run |-> i, since |-> since, until |-> NextCursor(since),
               seen |-> {c \in LogIds : log[c].seen},
               items |-> Oldest(Window(since)), left |-> Oldest(Window(since))]]
        /\ excused' = IF cursor # 0 THEN excused
                      ELSE excused \cup {c \in LogIds : log[c].at <= since}
  BY DEF BeginRun
<1> DEFINE since == IF cursor # 0 THEN cursor
                    ELSE IF hour > FirstLookback THEN hour - FirstLookback ELSE 0
           batch == Oldest(Window(since))
           k == [run |-> i, since |-> since, until |-> NextCursor(since),
                 seen |-> {c \in LogIds : log[c].seen}, items |-> batch, left |-> batch]
           r == [runs[i] EXCEPT !.status = "running"]
<1>2. /\ under' = [under EXCEPT ![w] = k]
      /\ excused' = IF cursor # 0 THEN excused
                    ELSE excused \cup {c \in LogIds : log[c].at <= since}
  BY <1>1
<1>3. /\ runs' = [runs EXCEPT ![i] = r] /\ UNCHANGED <<hour, log, reviewed>>
  BY DEF BeginRun
<1>4. /\ hour \in Nat /\ cursor \in Nat /\ cursor <= hour
      /\ cursor # 0 => DealtWith(cursor)
  BY StartsDealtWith DEF RunInv, RunTypes
<1>5. since \in Nat /\ since <= hour /\ (cursor # 0 => DealtWith(since))
  BY <1>4, SuggestionsAssumption
<1> HIDE DEF since
<1>6. \A c \in LogIds : log[c].at <= since => c \in reviewed' \cup excused'
  BY <1>2, <1>3, <1>5 DEF DealtWith
<1>7. /\ NextCursor(since) \in Nat /\ since <= NextCursor(since) /\ NextCursor(since) <= hour
      /\ \A c \in LogIds : since < log[c].at /\ log[c].at < NextCursor(since) /\ log[c].seen
                               => c \in batch
  BY <1>5, ReadsToItsEnd
<1>8. /\ i \in Nat /\ runs[i] \in RunRows /\ runs[i].cursor <= hour
      /\ LogIds \subseteq Nat
  BY RunRow, LogRow DEF RunInv, CursorHolds
<1>9. r \in RunRows /\ r.status = "running" /\ r.cursor = runs[i].cursor
  BY <1>8 DEF RunRows, RunStates
<1>10. batch \subseteq LogIds
  BY DEF Oldest, Window
<1> HIDE DEF batch, r
<1>11. k \in Works
  <2>1. batch \in Marks /\ {c \in LogIds : log[c].seen} \in Marks
    BY <1>8, <1>10 DEF Marks, Figures
  <2>2. i \in Figures /\ since \in Figures /\ NextCursor(since) \in Figures
    BY <1>5, <1>7, <1>8 DEF Figures
  <2>3. QED BY <2>1, <2>2 DEF Works
<1>12. /\ k.run = i /\ k.since = since /\ k.until = NextCursor(since)
       /\ k.items \ k.left = {} /\ k.items = batch
       /\ \A c \in LogIds : c \in k.seen <=> log[c].seen
  OBVIOUS
<1> HIDE DEF k
<1>13. excused \subseteq excused' /\ reviewed \subseteq reviewed' /\ hour' = hour /\ log' = log
  BY <1>2, <1>3
<1>14. /\ k.run \in RunIds /\ k.since <= k.until /\ k.until <= hour
       /\ \A c \in LogIds : log[c].at <= k.since => c \in reviewed' \cup excused'
       /\ k.items \ k.left \subseteq reviewed'
       /\ \A c \in LogIds : k.since < log[c].at /\ log[c].at < k.until /\ c \in k.seen
                                => c \in k.items
  BY <1>6, <1>7, <1>12
<1>15. r.cursor <= hour /\ r.status # "succeeded"
  BY <1>8, <1>9
<1>16. QED BY <1>2, <1>3, <1>9, <1>11, <1>13, <1>14, <1>15, RunMoves

LEMMA ReviewStep ==
    ASSUME RunInv, NEW w \in Runners, NEW c \in LogIds, Review(w, c) PROVE RunInv'
<1> DEFINE k == [under[w] EXCEPT !.left = @ \ {c}]
<1>1. /\ under' = [under EXCEPT ![w] = k] /\ reviewed' = reviewed \cup {c}
      /\ UNCHANGED <<hour, log, runs, excused>> /\ log \in Seq(LogEntries)
      /\ hour \in Nat /\ hour' \in Nat /\ hour <= hour' /\ LogIds' = LogIds /\ RunIds' = RunIds
      /\ reviewed \subseteq reviewed' /\ excused \subseteq excused'
  BY DEF Review, RunInv, RunTypes, LogIds, RunIds
<1>2. under[w] \in Works
  BY WorkRow DEF RunInv
<1>3. /\ k \in Works /\ k.run = under[w].run /\ k.since = under[w].since
      /\ k.until = under[w].until /\ k.seen = under[w].seen /\ k.items = under[w].items
      /\ k.left = under[w].left \ {c}
  BY <1>2 DEF Works, Marks
<1> HIDE DEF k
<1>4. /\ under' \in [Runners -> Works] /\ under'[w] = k
      /\ \A v \in Runners \ {w} : under'[v] = under[v]
  BY <1>1, <1>3 DEF RunInv, RunTypes
<1>5. LoggedInTime' /\ \A t \in Nat : DealtWith(t) => DealtWith(t)'
  BY <1>1, AllStays
<1>6. /\ \A j \in RunIds : runs'[j] = runs[j] => CursorHolds(runs[j])'
      /\ \A v \in Runners : under[v].run # 0 /\ under'[v] = under[v] => WorkHolds(under[v])'
  BY <1>1, <1>5, UntouchedHold
<1>7. RunTypes'
  BY <1>1, <1>4 DEF RunInv, RunTypes
<1>8. ASSUME under'[w].run # 0 PROVE WorkHolds(under[w])'
  <2>1. WorkHolds(under[w])
    BY <1>3, <1>4, <1>8 DEF RunInv
  <2>2. DealtWith(under[w].since)'
    <3>1. \A d \in LogIds : log[d].at <= under[w].since => d \in reviewed' \cup excused'
      BY <1>1, <2>1 DEF WorkHolds, DealtWith
    <3>2. under'[w].since = under[w].since
      BY <1>3, <1>4
    <3>3. QED BY <1>1, <3>1, <3>2 DEF DealtWith
  <2>3. under'[w].items \ under'[w].left \subseteq reviewed'
    BY <1>1, <1>3, <1>4, <2>1 DEF WorkHolds
  <2>4. QED BY <1>1, <1>3, <1>4, <2>1, <2>2, <2>3 DEF WorkHolds
<1>9. \A v \in Runners : under'[v].run # 0 => WorkHolds(under[v])'
  BY <1>4, <1>6, <1>8
<1>10. QED BY <1>1, <1>5, <1>6, <1>7, <1>9 DEF RunInv

LEMMA ClosedRow ==
    ASSUME RunInv, NEW i \in RunIds, NEW status \in RunStates, NEW cursor \in Nat,
           runs' = Closed(i, status, cursor)
    PROVE  \E r \in RunRows :
               r.status = status /\ r.cursor = cursor /\ runs' = [runs EXCEPT ![i] = r]
<1> DEFINE r == [runs[i] EXCEPT !.status = status, !.kept = TRUE, !.cursor = cursor,
                                !.finished = hour]
<1>1. runs' = [runs EXCEPT ![i] = r]
  BY DEF Closed
<1>2. runs[i] \in RunRows /\ hour \in Nat
  BY RunRow DEF RunInv, RunTypes
<1>3. r \in RunRows /\ r.status = status /\ r.cursor = cursor
  BY <1>2 DEF RunRows, Figures
<1> HIDE DEF r
<1>4. QED BY <1>1, <1>3

LEMMA SucceedStep == ASSUME RunInv, NEW w \in Runners, Succeed(w) PROVE RunInv'
<1> DEFINE k == under[w]
<1>1. /\ k.run # 0 /\ k.left = {} /\ runs' = Closed(k.run, "succeeded", k.until)
      /\ excused' = excused \cup PassedOver(k) /\ under' = [under EXCEPT ![w] = NoRun]
      /\ UNCHANGED <<hour, log, reviewed>>
  BY DEF Succeed
<1>2. k.run \in RunIds /\ k.until \in Nat /\ k.since \in Nat /\ k.until <= hour /\ WorkHolds(k)
  <2>1. WorkHolds(k)
    BY <1>1 DEF RunInv
  <2>2. QED BY <2>1, WorkRow DEF RunInv, WorkHolds
<1>3. "succeeded" \in RunStates
  BY DEF RunStates
<1>4. PICK r \in RunRows : /\ r.status = "succeeded" /\ r.cursor = k.until
                           /\ runs' = [runs EXCEPT ![k.run] = r]
  <2> HIDE DEF k
  <2>1. QED BY <1>1, <1>2, <1>3, ClosedRow
<1>5. ASSUME NEW c \in LogIds, log[c].at <= k.until PROVE c \in reviewed' \cup excused'
  <2>1. log[c].at \in Nat
    BY LogRow DEF RunInv
  <2> HIDE DEF k
  <2>2. CASE log[c].at <= k.since
    BY <1>1, <1>2, <2>2 DEF WorkHolds, DealtWith
  <2>3. CASE ~(log[c].at <= k.since)
    <3>1. log[c].at > k.since
      BY <1>2, <2>1, <2>3
    <3>2. CASE c \in k.items
      BY <1>1, <1>2, <3>2 DEF WorkHolds
    <3>3. CASE c \notin k.items
      <4>1. c \notin k.seen \/ log[c].at = k.until
        BY <1>2, <1>5, <2>1, <3>1, <3>3 DEF WorkHolds
      <4>2. c \in PassedOver(k)
        BY <1>5, <3>1, <3>3, <4>1 DEF PassedOver
      <4>3. QED BY <1>1, <4>2
    <3>4. QED BY <3>2, <3>3
  <2>4. QED BY <2>2, <2>3
<1> HIDE DEF k
<1>6. /\ hour' = hour /\ log' = log /\ reviewed \subseteq reviewed' /\ excused \subseteq excused'
      /\ r.cursor <= hour
      /\ \A c \in LogIds : log[c].at <= r.cursor => c \in reviewed' \cup excused'
  BY <1>1, <1>2, <1>4, <1>5
<1>7. QED BY <1>1, <1>2, <1>4, <1>6, IdleRun, RunMoves

LEMMA FailStep == ASSUME RunInv, NEW w \in Runners, Fail(w) PROVE RunInv'
<1> DEFINE i == under[w].run
<1>1. /\ i # 0 /\ runs' = Closed(i, "failed", 0) /\ under' = [under EXCEPT ![w] = NoRun]
      /\ UNCHANGED <<hour, log, reviewed, excused>>
  BY DEF Fail
<1>2. i \in RunIds /\ hour \in Nat
  BY <1>1 DEF RunInv, WorkHolds, RunTypes
<1>3. "failed" \in RunStates
  BY DEF RunStates
<1> HIDE DEF i
<1>4. PICK r \in RunRows : r.status = "failed" /\ r.cursor = 0 /\ runs' = [runs EXCEPT ![i] = r]
  BY <1>1, <1>2, <1>3, ClosedRow
<1>5. /\ hour' = hour /\ log' = log /\ reviewed \subseteq reviewed' /\ excused \subseteq excused'
      /\ r.cursor <= hour /\ r.status # "succeeded"
  BY <1>1, <1>2, <1>4
<1>6. QED BY <1>1, <1>2, <1>4, <1>5, IdleRun, RunMoves

LEMMA StopRunStep == ASSUME RunInv, NEW w \in Runners, StopRun(w) PROVE RunInv'
<1> DEFINE i == under[w].run
           r == runs[i]
<1>1. /\ i # 0 /\ under' = [under EXCEPT ![w] = NoRun]
      /\ UNCHANGED <<hour, log, runs, reviewed, excused>>
  BY DEF StopRun
<1>2. i \in RunIds /\ hour \in Nat
  BY <1>1 DEF RunInv, WorkHolds, RunTypes
<1> HIDE DEF i
<1>3. r \in RunRows /\ CursorHolds(r) /\ runs \in Seq(RunRows) /\ i \in 1..Len(runs)
  BY <1>2, RunRow DEF RunInv, RunIds
<1>4. runs' = [runs EXCEPT ![i] = r]
  BY <1>1, <1>3
<1> HIDE DEF r
<1>5. /\ hour' = hour /\ log' = log /\ reviewed \subseteq reviewed' /\ excused \subseteq excused'
      /\ r.cursor <= hour
      /\ r.status = "succeeded" =>
            \A c \in LogIds : log[c].at <= r.cursor => c \in reviewed' \cup excused'
  BY <1>1, <1>3 DEF CursorHolds, DealtWith
<1>6. QED BY <1>1, <1>2, <1>3, <1>4, <1>5, IdleRun, RunMoves

LEMMA RunInvStep == RunInv /\ [RunsNext \/ OffersNext]_suggestVars => RunInv'
<1> SUFFICES ASSUME RunInv, [RunsNext \/ OffersNext]_suggestVars PROVE RunInv'
  OBVIOUS
<1>1. ASSUME UNCHANGED runVars PROVE RunInv'
  <2>1. UNCHANGED <<hour, log, runs, under, reviewed, excused>>
    BY <1>1 DEF runVars
  <2>2. QED BY <2>1 DEF RunInv, RunTypes, LoggedInTime, CursorHolds, WorkHolds, DealtWith,
                        LogIds, RunIds
<1>2. CASE UNCHANGED suggestVars
  BY <1>1, <1>2 DEF suggestVars
<1>3. CASE OffersNext
  BY <1>1, <1>3 DEF OffersNext, ExpireDue, FindPending, DecideOffer
<1>4. CASE RunsNext
  BY <1>4, HourStep, LogStep, QueueDueStep, AppearStep, BeginRunStep, ReviewStep, SucceedStep,
     FailStep, StopRunStep DEF RunsNext
<1>5. QED BY <1>2, <1>3, <1>4

LEMMA NoneIsBehind == RunInv => NothingBehind
<1> SUFFICES ASSUME RunInv, NEW c \in LogIds, c \notin reviewed \cup excused,
                    NEW cursor \in LastCursors
             PROVE  log[c].at > cursor
  BY DEF NothingBehind
<1>1. cursor \in Nat /\ (cursor # 0 => DealtWith(cursor))
  BY StartsDealtWith
<1>2. log[c].at \in Nat /\ log[c].at >= 1
  BY LogRow DEF RunInv, LoggedInTime
<1>3. ~(log[c].at <= cursor)
  BY <1>1, <1>2 DEF DealtWith
<1>4. QED BY <1>1, <1>2, <1>3

\* No communication is passed over unseen by the runs, and a suggestion makes one task when it
\* is accepted, for any number of workers, requests, communications and runs (jobs.py,
\* suggestions.py, feature_views.py).
THEOREM SuggestionsStay == SuggestSpec => []SuggestionsInOrder
<1>1. SuggestInit => OfferInv /\ RunInv
  BY OfferInvInit, RunInvInit
<1>2. OfferInv /\ RunInv /\ [RunsNext \/ OffersNext]_suggestVars => OfferInv' /\ RunInv'
  BY OfferInvStep, RunInvStep
<1>3. OfferInv /\ RunInv => SuggestionsInOrder
  BY OffersDecided, NoneIsBehind DEF SuggestionsInOrder
<1>4. QED BY <1>1, <1>2, <1>3, PTL DEF SuggestSpec

----------------------------------------------------------------------------
\* Translations.  What a request has an answer for and what it still has to send make up the
\* texts it read.

TextNumbers == DOMAIN TextVersions
Passages == Nat \X Nat
Lists == Seq(Passages)
AskSteps == {"idle", "asking", "answered", "replacing"}
Queries == [step : AskSteps, into : Languages \cup {"none"}, of : TextNumbers,
            byAI : BOOLEAN, left : Lists, got : Lists]

HoldsTexts(k) ==
    /\ k.step # "idle" => k.into \in Languages
    /\ k.step = "asking" => k.left # << >> /\ k.got \o k.left = TextsOf(k.of)
    /\ k.step \in {"answered", "replacing"} => k.got = TextsOf(k.of)

TextInv ==
    /\ version \in TextNumbers
    /\ inquiry \in [Inquirers -> Queries]
    /\ \A q \in Inquirers : HoldsTexts(inquiry[q]) /\ inquiry[q].of <= version
    /\ LinedUp

\* The versions are numbered from 1, and the texts of each are a list.
LEMMA TextsInOrder ==
    /\ TextNumbers \subseteq Nat \ {0} /\ 1 \in TextNumbers
    /\ \A v \in TextNumbers : TextsOf(v) \in Lists /\ TextVersions[v] \in Seq(Nat)
<1>1. TextVersions \in Seq(Seq(Nat)) /\ TextVersions # << >>
  BY TranslationsAssumption
<1>2. TextNumbers = 1..Len(TextVersions) /\ Len(TextVersions) \in Nat \ {0}
  <2>1. Len(TextVersions) \in Nat \ {0}
    BY <1>1, EmptySeq
  <2>2. DOMAIN TextVersions = 1..Len(TextVersions)
    BY <1>1, LenProperties
  <2>3. QED BY <2>1, <2>2 DEF TextNumbers
<1>3. ASSUME NEW v \in TextNumbers PROVE TextsOf(v) \in Lists /\ TextVersions[v] \in Seq(Nat)
  <2>1. v \in Nat
    BY <1>2
  <2>2. TextVersions[v] \in Seq(Nat)
    <3>1. TextVersions \in [1..Len(TextVersions) -> Seq(Nat)]
      BY <1>1, LenProperties
    <3>2. QED BY <1>2, <3>1
  <2>3. PICK n \in Nat : DOMAIN TextVersions[v] = 1..n
    BY <2>2
  <2>4. TextsOf(v) = [i \in 1..n |-> <<v, i>>]
    BY <2>3 DEF TextsOf
  <2>5. \A i \in 1..n : <<v, i>> \in Passages
    BY <2>1 DEF Passages
  <2>6. [i \in 1..n |-> <<v, i>>] \in Seq(Passages)
    BY <2>5
  <2>7. QED BY <2>2, <2>4, <2>6 DEF Lists
<1>4. QED BY <1>2, <1>3

LEMMA NoQuery == NotAsking \in Queries /\ HoldsTexts(NotAsking) /\ NotAsking.of = 1
<1>1. << >> \in Lists
  BY EmptySeq DEF Lists
<1>2. 1 \in TextNumbers
  BY TextsInOrder
<1>3. NotAsking \in Queries
  BY <1>1, <1>2 DEF NotAsking, Queries, AskSteps
<1>4. HoldsTexts(NotAsking) /\ NotAsking.of = 1
  BY DEF HoldsTexts, NotAsking
<1>5. QED BY <1>3, <1>4

\* A call sends the first of the texts that are left, one at least.
LEMMA SentFirst ==
    ASSUME NEW k \in Queries, k.left # << >>
    PROVE  \E n \in 1..Len(k.left) : Sent(k) = SubSeq(k.left, 1, n)
<1> DEFINE left == k.left
<1>1. left \in Lists /\ left # << >>
  BY DEF Queries
<1>2. Len(left) \in Nat \ {0}
  BY <1>1, EmptySeq DEF Lists
<1>3. CASE k.byAI
  <2>1. Sent(k) = left
    BY <1>3 DEF Sent
  <2>2. SubSeq(left, 1, Len(left)) = left
    BY <1>1, SubSeqFull DEF Lists
  <2>3. QED BY <1>2, <2>1, <2>2
<1>4. CASE ~k.byAI
  <2>1. Sent(k) = NextBatch(left)
    BY <1>4 DEF Sent
  <2> DEFINE C == Cuts(left)
  <2>2. C \subseteq 1..Len(left) /\ Len(left) \in C
    BY <1>2 DEF Cuts
  <2> HIDE DEF left
  <2>3. NextBatch(left) = SubSeq(left, 1, CHOOSE n \in C : \A m \in C : n <= m)
    BY DEF NextBatch
  <2> HIDE DEF C
  <2>4. C \in SUBSET Nat /\ C # {}
    BY <1>2, <2>2
  <2>5. \E n \in C : \A m \in C : n <= m
    BY <2>4, LeastOf
  <2>6. (CHOOSE n \in C : \A m \in C : n <= m) \in C
    BY <2>5
  <2>7. QED BY <2>1, <2>2, <2>3, <2>6 DEF left
<1>5. QED BY <1>3, <1>4

\* After a call, what was sent is answered and the rest is left, in the same order.
LEMMA SentInOrder ==
    ASSUME NEW k \in Queries, HoldsTexts(k), k.step = "asking"
    PROVE  LET sent == Sent(k)
               rest == SubSeq(k.left, Len(sent) + 1, Len(k.left)) IN
           /\ sent \in Lists /\ rest \in Lists /\ k.got \o sent \in Lists
           /\ (k.got \o sent) \o rest = TextsOf(k.of)
           /\ sent = k.left => k.got \o sent = TextsOf(k.of)
           /\ sent # k.left => rest # << >>
<1> DEFINE left == k.left
           got == k.got
           sent == Sent(k)
           rest == SubSeq(left, Len(sent) + 1, Len(left))
<1>1. left \in Lists /\ got \in Lists /\ left # << >> /\ got \o left = TextsOf(k.of)
  BY DEF Queries, HoldsTexts
<1>2. PICK n \in 1..Len(left) : sent = SubSeq(left, 1, n)
  BY <1>1, SentFirst
<1> HIDE DEF left, got, sent
<1>3. Len(left) \in Nat /\ n \in Nat /\ \A i \in 1..Len(left) : left[i] \in Passages
  BY <1>1 DEF Lists
<1>4. sent \in Seq(Passages) /\ Len(sent) = n
  <2>1. \A i \in 1..n : left[i] \in Passages
    BY <1>2, <1>3
  <2>2. /\ SubSeq(left, 1, n) \in Seq(Passages)
        /\ Len(SubSeq(left, 1, n)) = IF 1 <= n THEN n - 1 + 1 ELSE 0
    BY <1>3, <2>1, SubSeqProperties
  <2>3. 1 <= n
    BY <1>2
  <2>4. QED BY <1>2, <1>3, <2>2, <2>3
<1>5. rest = SubSeq(left, n + 1, Len(left))
  BY <1>4
<1>6. /\ rest \in Seq(Passages)
      /\ Len(rest) = IF n + 1 <= Len(left) THEN Len(left) - (n + 1) + 1 ELSE 0
  <2>1. \A i \in n + 1..Len(left) : left[i] \in Passages
    BY <1>3
  <2>2. n + 1 \in Int /\ Len(left) \in Int
    BY <1>3
  <2>3. /\ SubSeq(left, n + 1, Len(left)) \in Seq(Passages)
        /\ Len(SubSeq(left, n + 1, Len(left)))
             = IF n + 1 <= Len(left) THEN Len(left) - (n + 1) + 1 ELSE 0
    BY <2>1, <2>2, SubSeqProperties
  <2>4. QED BY <1>5, <2>3
<1>7. sent \o rest = left
  <2>1. left \in Seq(Passages)
    BY <1>1 DEF Lists
  <2>2. 1 \in 1..Len(left) + 1 /\ n \in 1 - 1..Len(left) /\ Len(left) \in n..Len(left)
    BY <1>2, <1>3
  <2>3. SubSeq(left, 1, n) \o SubSeq(left, n + 1, Len(left)) = SubSeq(left, 1, Len(left))
    BY <2>1, <2>2, ConcatAdjacentSubSeq
  <2>4. SubSeq(left, 1, Len(left)) = left
    BY <2>1, SubSeqFull
  <2>5. QED BY <1>2, <1>5, <2>3, <2>4
<1> HIDE DEF rest
<1>8. (got \o sent) \o rest = TextsOf(k.of)
  <2>1. \A s \in Seq(Passages) : \A t \in Seq(Passages) : \A u \in Seq(Passages) :
           (s \o t) \o u = s \o (t \o u)
    BY ConcatAssociative
  <2>2. got \in Seq(Passages) /\ sent \in Seq(Passages) /\ rest \in Seq(Passages)
    BY <1>1, <1>4, <1>6 DEF Lists
  <2>3. (got \o sent) \o rest = got \o (sent \o rest)
    BY ONLY <2>1, <2>2, Zenon
  <2>4. QED BY <1>1, <1>7, <2>3
<1>9. got \o sent \in Seq(Passages)
  BY <1>1, <1>4, ConcatProperties DEF Lists
<1>10. ASSUME sent # left PROVE rest # << >>
  <2>1. CASE n = Len(left)
    <3>1. SubSeq(left, 1, Len(left)) = left
      BY <1>1, SubSeqFull DEF Lists
    <3>2. QED BY <1>2, <1>10, <2>1, <3>1
  <2>2. CASE n # Len(left)
    <3>1. n + 1 <= Len(left)
      BY <1>2, <1>3, <2>2
    <3>2. Len(rest) # 0
      BY <1>3, <1>6, <3>1
    <3>3. Len(<< >>) = 0
      BY EmptySeq
    <3>4. QED BY <3>2, <3>3
  <2>3. QED BY <2>1, <2>2
<1>11. sent = left => got \o sent = TextsOf(k.of)
  BY <1>1
<1>12. /\ sent \in Lists /\ rest \in Lists /\ got \o sent \in Lists
       /\ (got \o sent) \o rest = TextsOf(k.of)
       /\ sent = left => got \o sent = TextsOf(k.of)
       /\ sent # left => rest # << >>
  BY <1>4, <1>6, <1>8, <1>9, <1>10, <1>11 DEF Lists
<1>13. QED BY <1>12 DEF left, got, sent, rest

\* One request moves.
LEMMA QueryMoves ==
    ASSUME TextInv, NEW q \in Inquirers, NEW r \in Queries, HoldsTexts(r), r.of <= version,
           inquiry' = [inquiry EXCEPT ![q] = r], version' = version, LinedUp'
    PROVE  TextInv'
<1>1. inquiry \in [Inquirers -> Queries] /\ inquiry' \in [Inquirers -> Queries]
  BY DEF TextInv
<1>2. inquiry'[q] = r /\ \A p \in Inquirers \ {q} : inquiry'[p] = inquiry[p]
  BY <1>1
<1>3. \A p \in Inquirers : HoldsTexts(inquiry'[p]) /\ inquiry'[p].of <= version'
  BY <1>2 DEF TextInv
<1>4. \A p \in Inquirers : HoldsTexts(inquiry[p])'
  BY <1>3 DEF HoldsTexts
<1>5. QED BY <1>1, <1>3, <1>4 DEF TextInv

LEMMA TextInvInit == TranslationsInit => TextInv
<1> SUFFICES ASSUME TranslationsInit PROVE TextInv
  OBVIOUS
<1>1. version \in TextNumbers /\ version = 1
  BY TextsInOrder DEF TranslationsInit
<1>2. inquiry \in [Inquirers -> Queries] /\ \A q \in Inquirers : inquiry[q] = NotAsking
  BY NoQuery DEF TranslationsInit
<1>3. \A q \in Inquirers : HoldsTexts(inquiry[q]) /\ inquiry[q].of <= version
  BY <1>1, <1>2, NoQuery
<1>4. LinedUp
  BY DEF TranslationsInit, LinedUp
<1>5. QED BY <1>1, <1>2, <1>3, <1>4 DEF TextInv

LEMMA TextsGrowStep == ASSUME TextInv, TextsGrow PROVE TextInv'
<1>1. version' \in TextNumbers /\ version' = version + 1 /\ inquiry' = inquiry /\ kept' = kept
  BY DEF TextsGrow, TextNumbers
<1>2. version \in Nat /\ \A q \in Inquirers : inquiry[q].of \in Nat
  BY TextsInOrder DEF TextInv, Queries
<1>3. \A q \in Inquirers : inquiry[q].of <= version'
  BY <1>1, <1>2 DEF TextInv
<1>4. QED BY <1>1, <1>3 DEF TextInv, HoldsTexts, LinedUp

LEMMA AskForTexts ==
    ASSUME TextInv, NEW q \in Inquirers, NEW language \in Languages, NEW byAI \in BOOLEAN,
           AskFor(q, language, byAI)
    PROVE  TextInv'
<1> DEFINE texts == TextsOf(version)
           r == [step |-> "asking", into |-> language, of |-> version, byAI |-> byAI,
                 left |-> texts, got |-> << >>]
<1>1. version \in TextNumbers /\ version \in Nat /\ texts \in Lists /\ texts # << >>
  BY TextsInOrder DEF TextInv, AskFor
<1>2. inquiry' = [inquiry EXCEPT ![q] = r] /\ version' = version /\ kept' = kept
  BY DEF AskFor
<1> HIDE DEF texts
<1>3. << >> \in Lists /\ << >> \o texts = texts
  BY <1>1, EmptySeq, ConcatEmptySeq DEF Lists
<1>4. r \in Queries /\ r.of <= version
  BY <1>1, <1>3 DEF Queries, AskSteps
<1>5. r.step = "asking" /\ r.into = language /\ r.left = texts /\ r.got = << >> /\ r.of = version
  OBVIOUS
<1> HIDE DEF r
<1>6. HoldsTexts(r)
  BY <1>1, <1>3, <1>5 DEF HoldsTexts, texts
<1>7. LinedUp'
  BY <1>2 DEF TextInv, LinedUp
<1>8. QED BY <1>2, <1>4, <1>6, <1>7, QueryMoves

LEMMA TranslateTexts == ASSUME TextInv, NEW q \in Inquirers, Translate(q) PROVE TextInv'
<1> DEFINE k == inquiry[q]
           sent == Sent(k)
           rest == SubSeq(k.left, Len(sent) + 1, Len(k.left))
           step == IF sent = k.left THEN "answered" ELSE "asking"
           r == [k EXCEPT !.left = rest, !.got = k.got \o sent, !.step = step]
<1>1. inquiry \in [Inquirers -> Queries] /\ k \in Queries /\ HoldsTexts(k) /\ k.of <= version
  BY DEF TextInv
<1>2. k.step = "asking" /\ version' = version /\ kept' = kept
  BY DEF Translate
<1>3. inquiry' = [inquiry EXCEPT ![q] = r]
  BY <1>1 DEF Translate
<1>4. /\ sent \in Lists /\ rest \in Lists /\ k.got \o sent \in Lists
      /\ (k.got \o sent) \o rest = TextsOf(k.of)
      /\ sent = k.left => k.got \o sent = TextsOf(k.of)
      /\ sent # k.left => rest # << >>
  BY <1>1, <1>2, SentInOrder
<1> HIDE DEF k, sent, rest
<1>5. step \in {"asking", "answered"} /\ (step = "answered" <=> sent = k.left)
  OBVIOUS
<1> HIDE DEF step
<1>6. /\ r.step = step /\ r.into = k.into /\ r.of = k.of /\ r.left = rest
      /\ r.got = k.got \o sent /\ r.byAI = k.byAI
  BY <1>1 DEF Queries
<1>7. r \in Queries
  BY <1>1, <1>4, <1>5 DEF Queries, AskSteps
<1> HIDE DEF r
<1>8. HoldsTexts(r)
  BY <1>1, <1>2, <1>4, <1>5, <1>6 DEF HoldsTexts
<1>9. LinedUp' /\ r.of <= version
  BY <1>1, <1>2, <1>6 DEF TextInv, LinedUp
<1>10. QED BY <1>2, <1>3, <1>7, <1>8, <1>9, QueryMoves

LEMMA KeepNewTexts == ASSUME TextInv, NEW q \in Inquirers, KeepNew(q) PROVE TextInv'
<1> DEFINE k == inquiry[q]
           content == [i \in DOMAIN TextVersions[k.of] |-> k.got[i]]
<1>1. k \in Queries /\ HoldsTexts(k) /\ k.step = "replacing" /\ version' = version
  BY DEF TextInv, KeepNew
<1>2. /\ inquiry' = [inquiry EXCEPT ![q] = NotAsking]
      /\ kept' = kept \cup {[into |-> k.into, of |-> k.of, by |-> q, content |-> content]}
  BY DEF KeepNew
<1>3. content = TextsOf(k.of)
  BY <1>1 DEF HoldsTexts, TextsOf
<1> HIDE DEF content
<1>4. LinedUp'
  BY <1>2, <1>3 DEF TextInv, LinedUp
<1>5. version \in Nat \ {0}
  BY TextsInOrder DEF TextInv
<1>6. NotAsking.of <= version
  BY <1>5, NoQuery
<1>7. QED BY <1>1, <1>2, <1>4, <1>6, NoQuery, QueryMoves

LEMMA TextInvStep == TextInv /\ [TranslationsNext]_translateVars => TextInv'
<1> SUFFICES ASSUME TextInv, [TranslationsNext]_translateVars PROVE TextInv'
  OBVIOUS
<1>1. CASE TextsGrow
  BY <1>1, TextsGrowStep
<1>2. CASE AllowSharing
  BY <1>2 DEF AllowSharing, TextInv, HoldsTexts, LinedUp
<1>3. ASSUME NEW q \in Inquirers, NEW language \in Languages, NEW byAI \in BOOLEAN,
             AskFor(q, language, byAI)
      PROVE TextInv'
  BY <1>3, AskForTexts
<1>4. ASSUME NEW q \in Inquirers, Translate(q) PROVE TextInv'
  BY <1>4, TranslateTexts
<1>5. ASSUME NEW q \in Inquirers, NotTranslated(q) \/ CutOff(q) PROVE TextInv'
  <2>1. inquiry' = [inquiry EXCEPT ![q] = NotAsking] /\ version' = version /\ kept' = kept
    BY <1>5 DEF NotTranslated, CutOff
  <2>2. LinedUp'
    BY <2>1 DEF TextInv, LinedUp
  <2>3. version \in Nat \ {0}
    BY TextsInOrder DEF TextInv
  <2>4. NotAsking.of <= version
    BY <2>3, NoQuery
  <2>5. QED BY <2>1, <2>2, <2>4, NoQuery, QueryMoves
<1>6. ASSUME NEW q \in Inquirers, DropEarlier(q) PROVE TextInv'
  <2> DEFINE k == inquiry[q]
             r == [k EXCEPT !.step = "replacing"]
  <2>1. inquiry \in [Inquirers -> Queries] /\ k \in Queries /\ HoldsTexts(k) /\ k.of <= version
    BY DEF TextInv
  <2>2. k.step = "answered" /\ version' = version /\ kept' \subseteq kept
    BY <1>6 DEF DropEarlier
  <2>3. inquiry' = [inquiry EXCEPT ![q] = r]
    BY <1>6, <2>1 DEF DropEarlier
  <2> HIDE DEF k
  <2>4. r \in Queries /\ r.step = "replacing" /\ r.into = k.into /\ r.of = k.of /\ r.got = k.got
    BY <2>1 DEF Queries, AskSteps
  <2> HIDE DEF r
  <2>5. HoldsTexts(r)
    BY <2>1, <2>2, <2>4 DEF HoldsTexts
  <2>6. LinedUp' /\ r.of <= version
    BY <2>1, <2>2, <2>4 DEF TextInv, LinedUp
  <2>7. QED BY <2>2, <2>3, <2>4, <2>5, <2>6, QueryMoves
<1>7. ASSUME NEW q \in Inquirers, KeepNew(q) PROVE TextInv'
  BY <1>7, KeepNewTexts
<1>8. CASE UNCHANGED translateVars
  BY <1>8 DEF translateVars, TextInv, HoldsTexts, LinedUp
<1>9. QED BY <1>1, <1>2, <1>3, <1>4, <1>5, <1>6, <1>7, <1>8 DEF TranslationsNext

----------------------------------------------------------------------------
\* A language that no save was cut short in, and no two met in, has one translation at most,
\* and none while a request is about to put a new one in its place.

Replacing(q, l) == inquiry[q].into = l /\ inquiry[q].step = "replacing"

OneIn(l) ==
    /\ \A j, k \in kept : j.into = l /\ k.into = l => j = k
    /\ \A q \in Inquirers : Replacing(q, l) =>
          /\ \A k \in kept : k.into # l
          /\ \A p \in Inquirers : Replacing(p, l) => p = q
    /\ read[l] > 0 => \/ \E k \in kept : k.into = l
                      \/ \E q \in Inquirers : Replacing(q, l)

OneInv == read \in [Languages -> Nat] /\ \A l \in Languages \ dropped : OneIn(l)

LEMMA OneInvInit == TranslationsInit => OneInv
<1> SUFFICES ASSUME TranslationsInit PROVE OneInv
  OBVIOUS
<1>1. /\ read \in [Languages -> Nat] /\ \A l \in Languages : read[l] = 0
      /\ kept = {} /\ \A q \in Inquirers : inquiry[q] = NotAsking
  BY DEF TranslationsInit
<1>2. NotAsking.step # "replacing"
  BY DEF NotAsking
<1>3. QED BY <1>1, <1>2 DEF OneInv, OneIn, Replacing

\* A step that leaves a language's translations and saves alone
LEMMA OneInStays ==
    ASSUME NEW l \in Languages, OneIn(l), read'[l] = read[l],
           \A k : k \in kept' /\ k.into = l <=> k \in kept /\ k.into = l,
           \A q \in Inquirers : Replacing(q, l)' <=> Replacing(q, l)
    PROVE  OneIn(l)'
<1>1. \A j, k \in kept' : j.into = l /\ k.into = l => j = k
  BY DEF OneIn
<1>2. ASSUME NEW q \in Inquirers, Replacing(q, l)'
      PROVE  /\ \A k \in kept' : k.into # l
             /\ \A p \in Inquirers : Replacing(p, l)' => p = q
  <2>1. Replacing(q, l)
    BY <1>2
  <2>2. (\A k \in kept : k.into # l) /\ \A p \in Inquirers : Replacing(p, l) => p = q
    BY <2>1 DEF OneIn
  <2>3. QED BY <2>2
<1>3. ASSUME read'[l] > 0
      PROVE (\E k \in kept' : k.into = l) \/ \E q \in Inquirers : Replacing(q, l)'
  <2>1. (\E k \in kept : k.into = l) \/ \E q \in Inquirers : Replacing(q, l)
    BY <1>3 DEF OneIn
  <2>2. QED BY <2>1
<1>4. QED BY <1>1, <1>2, <1>3 DEF OneIn

\* One request moves from a step to another.
LEMMA StepMoves ==
    ASSUME TextInv, NEW q \in Inquirers, NEW r \in Queries, inquiry' = [inquiry EXCEPT ![q] = r],
           NEW l
    PROVE  /\ \A p \in Inquirers \ {q} : Replacing(p, l)' <=> Replacing(p, l)
           /\ Replacing(q, l)' <=> r.into = l /\ r.step = "replacing"
<1>1. inquiry'[q] = r /\ \A p \in Inquirers \ {q} : inquiry'[p] = inquiry[p]
  BY DEF TextInv
<1>2. QED BY <1>1 DEF Replacing

\* A step of a request that neither begins a save nor ends one
LEMMA OneInvQuiet ==
    ASSUME TextInv, OneInv, NEW q \in Inquirers, NEW r \in Queries,
           inquiry' = [inquiry EXCEPT ![q] = r], kept' = kept, read' = read, dropped' = dropped,
           r.step # "replacing", inquiry[q].step # "replacing"
    PROVE  OneInv'
<1>1. ASSUME NEW l \in Languages \ dropped PROVE OneIn(l)'
  <2>1. \A p \in Inquirers : Replacing(p, l)' <=> Replacing(p, l)
    BY StepMoves DEF Replacing
  <2>2. OneIn(l)
    BY DEF OneInv
  <2>3. QED BY <2>1, <2>2, OneInStays
<1>2. QED BY <1>1 DEF OneInv

LEMMA OneInvDrop == ASSUME TextInv, OneInv, NEW q \in Inquirers, DropEarlier(q) PROVE OneInv'
<1> DEFINE k == inquiry[q]
           r == [k EXCEPT !.step = "replacing"]
<1>1. inquiry \in [Inquirers -> Queries] /\ k \in Queries /\ HoldsTexts(k)
  BY DEF TextInv
<1>2. k.step = "answered" /\ read' = read /\ kept' = kept \ Replaced(k.into)
  BY DEF DropEarlier
<1>3. inquiry' = [inquiry EXCEPT ![q] = r]
  BY <1>1 DEF DropEarlier
<1>4. dropped' = IF \E p \in InHandFor(k.into) : inquiry[p].step = "replacing"
                 THEN dropped \cup {k.into} ELSE dropped
  BY DEF DropEarlier
<1>5. PICK x \in Languages : x = k.into
  BY <1>1, <1>2 DEF HoldsTexts
<1>6. kept' = {j \in kept : j.into # x}
  BY <1>2, <1>5 DEF Replaced
<1>7. ~Replacing(q, x)
  BY <1>2 DEF Replacing
<1> HIDE DEF k
<1>8. r \in Queries /\ r.step = "replacing" /\ r.into = k.into
  BY <1>1 DEF Queries, AskSteps
<1> HIDE DEF r
<1>9. ASSUME NEW l \in Languages \ dropped, l # x PROVE OneIn(l)'
  <2>1. \A p \in Inquirers : Replacing(p, l)' <=> Replacing(p, l)
    <3>1. ~Replacing(q, l) /\ ~Replacing(q, l)'
      BY <1>3, <1>5, <1>8, <1>9, StepMoves DEF Replacing, k
    <3>2. QED BY <1>3, <1>8, <3>1, StepMoves
  <2>2. OneIn(l)
    BY DEF OneInv
  <2>3. QED BY <1>2, <1>6, <1>9, <2>1, <2>2, OneInStays
<1>10. ASSUME x \notin dropped' PROVE OneIn(x)'
  <2>1. \A p \in Inquirers : ~Replacing(p, x)
    BY <1>4, <1>5, <1>10 DEF Replacing, InHandFor
  <2>2. \A p \in Inquirers : Replacing(p, x)' <=> p = q
    BY <1>3, <1>5, <1>8, <2>1, StepMoves
  <2>3. QED BY <1>6, <2>2 DEF OneIn
<1>11. dropped \subseteq dropped'
  BY <1>4
<1>12. QED BY <1>2, <1>9, <1>10, <1>11 DEF OneInv

LEMMA OneInvKeep == ASSUME TextInv, OneInv, NEW q \in Inquirers, KeepNew(q) PROVE OneInv'
<1> DEFINE k == inquiry[q]
           new == [into |-> k.into, of |-> k.of, by |-> q,
                   content |-> [i \in DOMAIN TextVersions[k.of] |-> k.got[i]]]
<1>1. k \in Queries /\ HoldsTexts(k) /\ k.step = "replacing" /\ dropped' = dropped
  BY DEF TextInv, KeepNew
<1>2. inquiry' = [inquiry EXCEPT ![q] = NotAsking] /\ kept' = kept \cup {new}
  BY DEF KeepNew
<1>3. read' = [read EXCEPT ![k.into] = IF k.of > read[k.into] THEN k.of ELSE read[k.into]]
  BY DEF KeepNew
<1>4. PICK x \in Languages : x = k.into
  BY <1>1 DEF HoldsTexts
<1>5. new.into = x
  BY <1>4
<1>6. Replacing(q, x) /\ \A l : l # x => ~Replacing(q, l)
  BY <1>1, <1>4 DEF Replacing
<1> HIDE DEF k, new
<1>7. NotAsking \in Queries /\ NotAsking.step # "replacing" /\ k.of \in Nat
  BY <1>1, NoQuery, TextsInOrder DEF NotAsking, Queries
<1>8. read' \in [Languages -> Nat] /\ \A l \in Languages \ {x} : read'[l] = read[l]
  BY <1>3, <1>4, <1>7 DEF OneInv
<1>9. ASSUME NEW l \in Languages \ dropped, l # x PROVE OneIn(l)'
  <2>1. \A p \in Inquirers : Replacing(p, l)' <=> Replacing(p, l)
    BY <1>2, <1>6, <1>7, <1>9, StepMoves
  <2>2. \A j : j \in kept' /\ j.into = l <=> j \in kept /\ j.into = l
    BY <1>2, <1>5, <1>9
  <2>3. OneIn(l) /\ read'[l] = read[l]
    BY <1>8, <1>9 DEF OneInv
  <2>4. QED BY <2>1, <2>2, <2>3, OneInStays
<1>10. ASSUME x \notin dropped PROVE OneIn(x)'
  <2>1. (\A j \in kept : j.into # x) /\ \A p \in Inquirers : Replacing(p, x) => p = q
    BY <1>6, <1>10 DEF OneInv, OneIn
  <2>2. \A p \in Inquirers : ~Replacing(p, x)'
    BY <1>2, <1>7, <2>1, StepMoves
  <2>3. \A j \in kept' : j.into = x <=> j = new
    BY <1>2, <1>5, <2>1
  <2>4. new \in kept'
    BY <1>2
  <2>5. QED BY <1>5, <2>2, <2>3, <2>4 DEF OneIn
<1>11. QED BY <1>1, <1>8, <1>9, <1>10 DEF OneInv

LEMMA OneInvCut == ASSUME TextInv, OneInv, NEW q \in Inquirers, CutOff(q) PROVE OneInv'
<1>1. /\ inquiry' = [inquiry EXCEPT ![q] = NotAsking] /\ kept' = kept /\ read' = read
      /\ dropped' = IF inquiry[q].step = "replacing" THEN dropped \cup {inquiry[q].into}
                    ELSE dropped
  BY DEF CutOff
<1>2. NotAsking \in Queries /\ NotAsking.step # "replacing"
  BY NoQuery DEF NotAsking
<1>3. ASSUME NEW l \in Languages \ dropped' PROVE OneIn(l)'
  <2>1. ~Replacing(q, l)
    BY <1>1, <1>3 DEF Replacing
  <2>2. \A p \in Inquirers : Replacing(p, l)' <=> Replacing(p, l)
    BY <1>1, <1>2, <2>1, StepMoves
  <2>3. OneIn(l)
    BY <1>1, <1>3 DEF OneInv
  <2>4. QED BY <1>1, <2>2, <2>3, OneInStays
<1>4. QED BY <1>1, <1>3 DEF OneInv

LEMMA OneInvStep == TextInv /\ OneInv /\ [TranslationsNext]_translateVars => OneInv'
<1> SUFFICES ASSUME TextInv, OneInv, [TranslationsNext]_translateVars PROVE OneInv'
  OBVIOUS
<1>1. CASE TextsGrow \/ AllowSharing \/ UNCHANGED translateVars
  <2>1. inquiry' = inquiry /\ kept' = kept /\ read' = read /\ dropped' = dropped
    BY <1>1 DEF TextsGrow, AllowSharing, translateVars
  <2>2. QED BY <2>1 DEF OneInv, OneIn, Replacing
<1>2. ASSUME NEW q \in Inquirers, NEW language \in Languages, NEW byAI \in BOOLEAN,
             AskFor(q, language, byAI)
      PROVE OneInv'
  <2>1. /\ inquiry'[q].step = "asking" /\ inquiry'[q] \in Queries
        /\ inquiry[q].step # "replacing"
        /\ kept' = kept /\ read' = read /\ dropped' = dropped
    <3>1. inquiry' \in [Inquirers -> Queries]
      BY <1>2, AskForTexts DEF TextInv
    <3>2. QED BY <1>2, <3>1 DEF AskFor, NotAsking, TextInv
  <2>2. \E r \in Queries : inquiry' = [inquiry EXCEPT ![q] = r] /\ r.step # "replacing"
    <3> DEFINE r == inquiry'[q]
    <3>1. inquiry' = [inquiry EXCEPT ![q] = r]
      BY <1>2 DEF AskFor, TextInv
    <3>2. QED BY <2>1, <3>1
  <2>3. PICK r \in Queries : inquiry' = [inquiry EXCEPT ![q] = r] /\ r.step # "replacing"
    BY <2>2
  <2>4. QED BY <2>1, <2>3, OneInvQuiet
<1>3. ASSUME NEW q \in Inquirers, Translate(q) PROVE OneInv'
  <2>1. /\ inquiry'[q].step # "replacing" /\ inquiry[q].step # "replacing"
        /\ kept' = kept /\ read' = read /\ dropped' = dropped
    BY <1>3 DEF Translate, TextInv, Queries
  <2>2. inquiry' \in [Inquirers -> Queries]
    BY <1>3, TranslateTexts DEF TextInv
  <2>3. inquiry' = [inquiry EXCEPT ![q] = inquiry'[q]]
    BY <1>3 DEF Translate, TextInv
  <2>4. PICK r \in Queries : inquiry' = [inquiry EXCEPT ![q] = r] /\ r.step # "replacing"
    BY <2>1, <2>2, <2>3
  <2>5. QED BY <2>1, <2>4, OneInvQuiet
<1>4. ASSUME NEW q \in Inquirers, NotTranslated(q) PROVE OneInv'
  <2>1. /\ inquiry' = [inquiry EXCEPT ![q] = NotAsking] /\ inquiry[q].step # "replacing"
        /\ kept' = kept /\ read' = read /\ dropped' = dropped
    BY <1>4 DEF NotTranslated
  <2>2. NotAsking \in Queries /\ NotAsking.step # "replacing"
    BY NoQuery DEF NotAsking
  <2>3. QED BY <2>1, <2>2, OneInvQuiet
<1>5. ASSUME NEW q \in Inquirers, DropEarlier(q) PROVE OneInv'
  BY <1>5, OneInvDrop
<1>6. ASSUME NEW q \in Inquirers, KeepNew(q) PROVE OneInv'
  BY <1>6, OneInvKeep
<1>7. ASSUME NEW q \in Inquirers, CutOff(q) PROVE OneInv'
  BY <1>7, OneInvCut
<1>8. QED BY <1>1, <1>2, <1>3, <1>4, <1>5, <1>6, <1>7 DEF TranslationsNext

LEMMA OneEach == OneInv => OneEachLanguage
<1> SUFFICES ASSUME OneInv, NEW l \in Languages \ dropped
             PROVE  /\ Cardinality(Into(l)) <= 1
                    /\ read[l] > 0 => \/ Into(l) # {}
                                      \/ \E q \in InHandFor(l) : inquiry[q].step = "replacing"
  BY DEF OneEachLanguage
<1>1. OneIn(l)
  BY DEF OneInv
<1>2. Cardinality(Into(l)) <= 1
  <2>1. CASE Into(l) = {}
    <3>1. Cardinality({}) = 0
      BY FS_EmptySet
    <3>2. QED BY <2>1, <3>1
  <2>2. CASE Into(l) # {}
    <3>1. PICK k \in Into(l) : TRUE
      BY <2>2
    <3>2. Into(l) = {k}
      BY <1>1, <3>1 DEF Into, OneIn
    <3>3. Cardinality({k}) = 1
      BY FS_Singleton
    <3>4. QED BY <3>2, <3>3
  <2>3. QED BY <2>1, <2>2
<1>3. ASSUME read[l] > 0
      PROVE Into(l) # {} \/ \E q \in InHandFor(l) : inquiry[q].step = "replacing"
  BY <1>1, <1>3 DEF OneIn, Into, InHandFor, Replacing
<1>4. QED BY <1>2, <1>3

----------------------------------------------------------------------------
\* A language that no two requests were for at once: the request under way has read texts as
\* new as any that were translated, and what is kept is of the newest.

Active(q, l) == inquiry[q].into = l /\ inquiry[q].step # "idle"

NewIn(l) ==
    /\ \A q \in Inquirers : Active(q, l) =>
          /\ read[l] <= inquiry[q].of
          /\ \A p \in Inquirers : Active(p, l) => p = q
          /\ inquiry[q].step = "replacing" => \A k \in kept : k.into # l
    /\ \A k \in kept : k.into = l => k.of = read[l]

NewInv ==
    /\ read \in [Languages -> Nat] /\ \A l \in Languages : read[l] <= version
    /\ \A l \in Languages \ overlapped : NewIn(l)

LEMMA NewInvInit == TranslationsInit => NewInv
<1> SUFFICES ASSUME TranslationsInit PROVE NewInv
  OBVIOUS
<1>1. /\ read \in [Languages -> Nat] /\ \A l \in Languages : read[l] = 0
      /\ kept = {} /\ version = 1 /\ \A q \in Inquirers : inquiry[q] = NotAsking
  BY DEF TranslationsInit
<1>2. NotAsking.step = "idle"
  BY DEF NotAsking
<1>3. QED BY <1>1, <1>2 DEF NewInv, NewIn, Active

\* A step that begins no request for a language and keeps nothing new in it
LEMMA NewInStays ==
    ASSUME NEW l \in Languages, NewIn(l), read'[l] = read[l],
           \A k : k \in kept' /\ k.into = l => k \in kept,
           \A q \in Inquirers : Active(q, l)' =>
              /\ Active(q, l) /\ inquiry'[q].of = inquiry[q].of
              /\ inquiry'[q].step = "replacing" =>
                    inquiry[q].step = "replacing" \/ \A k \in kept' : k.into # l
    PROVE  NewIn(l)'
<1>1. ASSUME NEW q \in Inquirers, Active(q, l)'
      PROVE  /\ read'[l] <= inquiry'[q].of
             /\ \A p \in Inquirers : Active(p, l)' => p = q
             /\ inquiry'[q].step = "replacing" => \A k \in kept' : k.into # l
  <2>1. Active(q, l) /\ inquiry'[q].of = inquiry[q].of
    BY <1>1
  <2>2. /\ read[l] <= inquiry[q].of /\ \A p \in Inquirers : Active(p, l) => p = q
        /\ inquiry[q].step = "replacing" => \A k \in kept : k.into # l
    BY <2>1 DEF NewIn
  <2>3. \A p \in Inquirers : Active(p, l)' => p = q
    BY <2>2
  <2>4. ASSUME inquiry'[q].step = "replacing" PROVE \A k \in kept' : k.into # l
    BY <1>1, <2>2, <2>4
  <2>5. QED BY <2>1, <2>2, <2>3, <2>4
<1>2. \A k \in kept' : k.into = l => k.of = read'[l]
  BY DEF NewIn
<1>3. QED BY <1>1, <1>2 DEF NewIn

\* A step of one request that stays for the same texts, or ends
LEMMA NewInvQuiet ==
    ASSUME TextInv, NewInv, NEW q \in Inquirers, NEW r \in Queries,
           inquiry' = [inquiry EXCEPT ![q] = r], kept' \subseteq kept,
           read' = read, version' = version, overlapped' = overlapped,
           r.step # "idle" =>
              /\ inquiry[q].step # "idle" /\ r.into = inquiry[q].into /\ r.of = inquiry[q].of,
           r.step = "replacing" => \A k \in kept' : k.into # r.into
    PROVE  NewInv'
<1>1. inquiry'[q] = r /\ \A p \in Inquirers \ {q} : inquiry'[p] = inquiry[p]
  BY DEF TextInv
<1>2. ASSUME NEW l \in Languages \ overlapped PROVE NewIn(l)'
  <2>1. NewIn(l)
    BY DEF NewInv
  <2>2. ASSUME NEW p \in Inquirers, Active(p, l)'
        PROVE  /\ Active(p, l) /\ inquiry'[p].of = inquiry[p].of
               /\ inquiry'[p].step = "replacing" =>
                     inquiry[p].step = "replacing" \/ \A k \in kept' : k.into # l
    BY <1>1, <2>2 DEF Active
  <2>3. QED BY <2>1, <2>2, NewInStays
<1>3. QED BY <1>2 DEF NewInv

LEMMA NewInvAsk ==
    ASSUME TextInv, NewInv, NEW q \in Inquirers, NEW language \in Languages,
           NEW byAI \in BOOLEAN, AskFor(q, language, byAI)
    PROVE  NewInv'
<1>1. /\ inquiry'[q].into = language /\ inquiry'[q].step = "asking" /\ inquiry'[q].of = version
      /\ \A p \in Inquirers \ {q} : inquiry'[p] = inquiry[p]
  BY DEF AskFor, TextInv
<1>2. kept' = kept /\ read' = read /\ version' = version
  BY DEF AskFor
<1>3. overlapped' = IF InHandFor(language) = {} THEN overlapped ELSE overlapped \cup {language}
  BY DEF AskFor
<1>4. ASSUME NEW l \in Languages \ overlapped, l # language PROVE NewIn(l)'
  <2>1. NewIn(l)
    BY DEF NewInv
  <2>2. ASSUME NEW p \in Inquirers, Active(p, l)'
        PROVE  /\ Active(p, l) /\ inquiry'[p].of = inquiry[p].of
               /\ inquiry'[p].step = "replacing" => inquiry[p].step = "replacing"
    BY <1>1, <1>4, <2>2 DEF Active
  <2>3. QED BY <1>2, <2>1, <2>2, NewInStays
<1>5. ASSUME language \notin overlapped' PROVE NewIn(language)'
  <2>1. InHandFor(language) = {} /\ language \notin overlapped
    BY <1>3, <1>5
  <2>2. \A p \in Inquirers : Active(p, language)' => p = q
    BY <1>1, <2>1 DEF Active, InHandFor
  <2>3. read[language] <= version /\ NewIn(language)
    BY <2>1 DEF NewInv
  <2>4. QED BY <1>1, <1>2, <2>2, <2>3 DEF NewIn
<1>6. overlapped \subseteq overlapped'
  BY <1>3
<1>7. QED BY <1>2, <1>4, <1>5, <1>6 DEF NewInv

LEMMA NewInvKeep == ASSUME TextInv, NewInv, NEW q \in Inquirers, KeepNew(q) PROVE NewInv'
<1> DEFINE k == inquiry[q]
           new == [into |-> k.into, of |-> k.of, by |-> q,
                   content |-> [i \in DOMAIN TextVersions[k.of] |-> k.got[i]]]
<1>1. /\ k \in Queries /\ HoldsTexts(k) /\ k.step = "replacing" /\ k.of <= version
      /\ overlapped' = overlapped /\ version' = version
  BY DEF TextInv, KeepNew
<1>2. inquiry' = [inquiry EXCEPT ![q] = NotAsking] /\ kept' = kept \cup {new}
  BY DEF KeepNew
<1>3. read' = [read EXCEPT ![k.into] = IF k.of > read[k.into] THEN k.of ELSE read[k.into]]
  BY DEF KeepNew
<1>4. PICK x \in Languages : x = k.into
  BY <1>1 DEF HoldsTexts
<1>5. new.into = x /\ new.of = k.of
  BY <1>4
<1>6. Active(q, x)
  BY <1>1, <1>4 DEF Active
<1>7. /\ inquiry'[q].step = "idle"
      /\ \A p \in Inquirers \ {q} : inquiry'[p] = inquiry[p]
  BY <1>2 DEF TextInv, NotAsking
<1>8. NewIn(x) =>
        /\ read[x] <= k.of /\ (\A j \in kept : j.into # x)
        /\ \A p \in Inquirers : Active(p, x) => p = q
  BY <1>1, <1>6 DEF NewIn
<1> HIDE DEF k, new
<1>9. k.of \in Nat /\ read[x] \in Nat /\ version \in Nat
  BY <1>1, TextsInOrder DEF Queries, NewInv, TextInv
<1>10. /\ read' \in [Languages -> Nat] /\ \A l \in Languages \ {x} : read'[l] = read[l]
       /\ read'[x] = IF k.of > read[x] THEN k.of ELSE read[x]
  BY <1>3, <1>4, <1>9 DEF NewInv
<1>11. \A l \in Languages : read'[l] <= version
  BY <1>1, <1>9, <1>10 DEF NewInv
<1>12. ASSUME NEW l \in Languages \ overlapped, l # x PROVE NewIn(l)'
  <2>1. NewIn(l) /\ read'[l] = read[l]
    BY <1>10, <1>12 DEF NewInv
  <2>2. \A j : j \in kept' /\ j.into = l => j \in kept
    BY <1>2, <1>5, <1>12
  <2>3. ASSUME NEW p \in Inquirers, Active(p, l)'
        PROVE  Active(p, l) /\ inquiry'[p].of = inquiry[p].of /\ inquiry'[p].step = inquiry[p].step
    BY <1>7, <2>3 DEF Active
  <2>4. \A p \in Inquirers : Active(p, l)' =>
              /\ Active(p, l) /\ inquiry'[p].of = inquiry[p].of
              /\ inquiry'[p].step = "replacing" =>
                    inquiry[p].step = "replacing" \/ \A j \in kept' : j.into # l
    BY <2>3
  <2>5. QED BY <2>1, <2>2, <2>4, NewInStays
<1>13. ASSUME x \notin overlapped PROVE NewIn(x)'
  <2>1. /\ read[x] <= k.of /\ (\A j \in kept : j.into # x)
        /\ \A p \in Inquirers : Active(p, x) => p = q
    BY <1>8, <1>13 DEF NewInv
  <2>2. read'[x] = k.of
    BY <1>9, <1>10, <2>1
  <2>3. \A p \in Inquirers : ~Active(p, x)'
    BY <1>7, <2>1 DEF Active
  <2>4. \A j \in kept' : j.into = x => j = new
    BY <1>2, <2>1
  <2>5. QED BY <1>5, <2>2, <2>3, <2>4 DEF NewIn
<1>14. QED BY <1>1, <1>10, <1>11, <1>12, <1>13 DEF NewInv

LEMMA NewInvStep == TextInv /\ NewInv /\ [TranslationsNext]_translateVars => NewInv'
<1> SUFFICES ASSUME TextInv, NewInv, [TranslationsNext]_translateVars PROVE NewInv'
  OBVIOUS
<1>1. CASE TextsGrow
  <2>1. /\ inquiry' = inquiry /\ kept' = kept /\ read' = read /\ overlapped' = overlapped
        /\ version' = version + 1 /\ version \in Nat
    BY <1>1, TextsInOrder DEF TextsGrow, TextInv
  <2>2. \A l \in Languages : read'[l] <= version'
    BY <2>1 DEF NewInv
  <2>3. QED BY <2>1, <2>2 DEF NewInv, NewIn, Active
<1>2. CASE AllowSharing \/ UNCHANGED translateVars
  <2>1. /\ inquiry' = inquiry /\ kept' = kept /\ read' = read /\ overlapped' = overlapped
        /\ version' = version
    BY <1>2 DEF AllowSharing, translateVars
  <2>2. QED BY <2>1 DEF NewInv, NewIn, Active
<1>3. ASSUME NEW q \in Inquirers, NEW language \in Languages, NEW byAI \in BOOLEAN,
             AskFor(q, language, byAI)
      PROVE NewInv'
  BY <1>3, NewInvAsk
<1>4. ASSUME NEW q \in Inquirers, Translate(q) PROVE NewInv'
  <2>1. /\ inquiry'[q].step \in {"asking", "answered"} /\ inquiry[q].step = "asking"
        /\ inquiry'[q].into = inquiry[q].into /\ inquiry'[q].of = inquiry[q].of
        /\ kept' = kept /\ read' = read /\ version' = version /\ overlapped' = overlapped
    BY <1>4 DEF Translate, TextInv, Queries
  <2>2. inquiry' \in [Inquirers -> Queries]
    BY <1>4, TranslateTexts DEF TextInv
  <2>3. inquiry' = [inquiry EXCEPT ![q] = inquiry'[q]]
    BY <1>4 DEF Translate, TextInv
  <2>4. PICK r \in Queries : /\ inquiry' = [inquiry EXCEPT ![q] = r] /\ r.step # "replacing"
                             /\ r.into = inquiry[q].into /\ r.of = inquiry[q].of
    BY <2>1, <2>2, <2>3
  <2>5. QED BY <2>1, <2>4, NewInvQuiet
<1>5. ASSUME NEW q \in Inquirers, NotTranslated(q) \/ CutOff(q) PROVE NewInv'
  <2>1. /\ inquiry' = [inquiry EXCEPT ![q] = NotAsking]
        /\ kept' = kept /\ read' = read /\ version' = version /\ overlapped' = overlapped
    BY <1>5 DEF NotTranslated, CutOff
  <2>2. NotAsking \in Queries /\ NotAsking.step = "idle"
    BY NoQuery DEF NotAsking
  <2>3. QED BY <2>1, <2>2, NewInvQuiet
<1>6. ASSUME NEW q \in Inquirers, DropEarlier(q) PROVE NewInv'
  <2> DEFINE k == inquiry[q]
             r == [k EXCEPT !.step = "replacing"]
  <2>1. inquiry \in [Inquirers -> Queries] /\ k \in Queries
    BY DEF TextInv
  <2>2. /\ k.step = "answered" /\ kept' = kept \ Replaced(k.into)
        /\ read' = read /\ version' = version /\ overlapped' = overlapped
    BY <1>6 DEF DropEarlier
  <2>3. inquiry' = [inquiry EXCEPT ![q] = r]
    BY <1>6, <2>1 DEF DropEarlier
  <2>4. r \in Queries /\ r.step = "replacing" /\ r.into = k.into /\ r.of = k.of
    BY <2>1 DEF Queries, AskSteps
  <2> HIDE DEF r
  <2>5. kept' \subseteq kept /\ \A j \in kept' : j.into # r.into
    BY <2>2, <2>4 DEF Replaced
  <2>6. QED BY <2>2, <2>3, <2>4, <2>5, NewInvQuiet
<1>7. ASSUME NEW q \in Inquirers, KeepNew(q) PROVE NewInv'
  BY <1>7, NewInvKeep
<1>8. QED BY <1>1, <1>2, <1>3, <1>4, <1>5, <1>6, <1>7 DEF TranslationsNext

\* In every behaviour of the translations a language has one of them at most, of the newest
\* text translated and with its texts in order; it loses one to a newer one only.  Excepted
\* are languages a save was cut short in or two met in, and those asked for twice at once.
THEOREM TranslationsStay == TranslationsSpec => []TranslationsKept
<1>1. TranslationsInit => TextInv /\ OneInv /\ NewInv
  BY TextInvInit, OneInvInit, NewInvInit
<1>2. TextInv /\ OneInv /\ NewInv /\ [TranslationsNext]_translateVars
        => (TextInv /\ OneInv /\ NewInv)'
  BY TextInvStep, OneInvStep, NewInvStep
<1>3. TextInv /\ OneInv /\ NewInv => TranslationsKept
  BY OneEach DEF TranslationsKept, TextInv, NewInv, NewIn, NewestTranslated, Into
<1>4. QED BY <1>1, <1>2, <1>3, PTL DEF TranslationsSpec

----------------------------------------------------------------------------
\* The memo.  While no two drafts met, the one under way began from the memo as it still is,
\* and from records at least as new as any a memo was drafted from.

MemoStates == {"none", "preparing", "ready", "failed"}
MemoRows == [status : MemoStates, body : Figures, digest : Figures, error : BOOLEAN,
             recent : BOOLEAN]
DraftRows == [step : {"idle", "ask", "wait"}, asked : BOOLEAN, records : Figures, body : Figures]

MemoTypes ==
    /\ facts \in Nat /\ memo \in MemoRows /\ asking \in [Askers -> BOOLEAN]
    /\ queued \in Nat /\ draft \in [Drafters -> DraftRows]
    /\ best \in Nat /\ ended \in BOOLEAN /\ met \in BOOLEAN

UnderWay(w) == draft[w].step # "idle"

DraftsInOrder ==
    /\ facts >= 1 /\ best <= facts
    /\ memo.status = "none" => memo.body = 0
    /\ \A w \in Drafters : UnderWay(w) =>
          /\ draft[w].records >= 1 /\ draft[w].records <= facts
          /\ draft[w].body # 0 => memo.body # 0
    /\ ~met => \A w \in Drafters : UnderWay(w) =>
          /\ draft[w].body = memo.body /\ best <= draft[w].records
          /\ \A v \in Drafters : UnderWay(v) => v = w

MemoInv == MemoTypes /\ DraftsInOrder /\ MemosKept

LEMMA NoDrafts == NoDraft \in DraftRows /\ NoDraft.step = "idle"
  BY DEF NoDraft, DraftRows, Figures

LEMMA NoMemos ==
    /\ NoMemo \in MemoRows /\ NoMemo.status = "none" /\ NoMemo.body = 0
    /\ NewMemo \in MemoRows /\ NewMemo.status = "preparing" /\ NewMemo.body = 0
<1>1. NoMemo \in MemoRows /\ NoMemo.status = "none" /\ NoMemo.body = 0
  BY DEF NoMemo, MemoRows, MemoStates, Figures
<1>2. NewMemo \in MemoRows /\ NewMemo.status = "preparing" /\ NewMemo.body = NoMemo.body
  BY <1>1 DEF NewMemo, MemoRows, MemoStates
<1>3. QED BY <1>1, <1>2

LEMMA MemoInvInit == MemoInit => MemoInv
<1> SUFFICES ASSUME MemoInit PROVE MemoInv
  OBVIOUS
<1>1. MemoTypes
  BY NoMemos, NoDrafts DEF MemoInit, MemoTypes
<1>2. memo = NoMemo /\ best = 0 /\ facts = 1 /\ \A w \in Drafters : ~UnderWay(w)
  BY NoDrafts DEF MemoInit, UnderWay
<1>3. DraftsInOrder /\ MemosKept
  BY <1>2, NoMemos DEF DraftsInOrder, MemosKept, PreparingIsPrepared, EarlierIsKept
<1>4. QED BY <1>1, <1>3 DEF MemoInv

\* A save writes the row as it is given.
LEMMA SavedFacts ==
    ASSUME NEW next \in MemoRows, Saved(next)
    PROVE  memo' \in MemoRows /\ memo'.status = next.status /\ memo'.body = next.body
<1>1. memo' = [next EXCEPT !.recent = TRUE]
  BY DEF Saved
<1>2. QED BY <1>1 DEF MemoRows

\* A step that begins no draft and leaves the memo's text as it was
LEMMA MemoStays ==
    ASSUME MemoInv, MemoTypes', facts' >= facts, memo'.body = memo.body, best' = best, met' = met,
           memo'.status = "none" => memo.status = "none",
           \A w \in Drafters : UnderWay(w)' =>
              UnderWay(w) /\ draft'[w].records = draft[w].records /\ draft'[w].body = draft[w].body,
           memo'.status = "ready" => memo.body # 0,
           memo'.status = "failed" => memo.body = 0 \/ met \/ ended',
           PreparingIsPrepared'
    PROVE  MemoInv'
<1>1. MemoTypes /\ DraftsInOrder /\ MemosKept
  BY DEF MemoInv
<1>2. /\ facts \in Nat /\ facts' \in Nat /\ best \in Nat
      /\ \A w \in Drafters : draft[w].records \in Nat
  BY <1>1 DEF MemoTypes, DraftRows, Figures
<1>3. facts' >= 1 /\ best' <= facts' /\ (memo'.status = "none" => memo'.body = 0)
  BY <1>1, <1>2 DEF DraftsInOrder
<1>4. ASSUME NEW w \in Drafters, UnderWay(w)'
      PROVE  /\ draft'[w].records >= 1 /\ draft'[w].records <= facts'
             /\ draft'[w].body # 0 => memo'.body # 0
  <2>1. UnderWay(w) /\ draft'[w].records = draft[w].records /\ draft'[w].body = draft[w].body
    BY <1>4
  <2>2. QED BY <1>1, <1>2, <2>1 DEF DraftsInOrder
<1>5. ASSUME ~met', NEW w \in Drafters, UnderWay(w)'
      PROVE  /\ draft'[w].body = memo'.body /\ best' <= draft'[w].records
             /\ \A v \in Drafters : UnderWay(v)' => v = w
  <2>1. UnderWay(w) /\ draft'[w].records = draft[w].records /\ draft'[w].body = draft[w].body
    BY <1>5
  <2>2. QED BY <1>1, <1>5, <2>1 DEF DraftsInOrder
<1>6. DraftsInOrder'
  BY <1>3, <1>4, <1>5 DEF DraftsInOrder
<1>7. EarlierIsKept'
  BY <1>1 DEF EarlierIsKept, MemosKept
<1>8. QED BY <1>6, <1>7 DEF MemoInv, MemosKept

\* Staff ask, look first, and the records or the settings change.
LEMMA RequestSteps ==
    ASSUME MemoInv,
           ChangeFacts \/ SwitchAI \/ HourPasses
             \/ \E p \in Askers : LookFirst(p) \/ AskForMemo(p)
    PROVE  MemoInv'
<1>1. MemoTypes /\ DraftsInOrder /\ MemosKept
  BY DEF MemoInv
<1>2. CASE ChangeFacts \/ SwitchAI
  <2>1. /\ memo' = memo /\ asking' = asking /\ queued' = queued /\ draft' = draft
        /\ best' = best /\ ended' = ended /\ met' = met /\ facts' \in Nat /\ facts' >= facts
    BY <1>1, <1>2 DEF ChangeFacts, SwitchAI, MemoTypes
  <2>2. MemoTypes' /\ PreparingIsPrepared'
    BY <1>1, <2>1 DEF MemoTypes, MemosKept, PreparingIsPrepared, Drafting
  <2>3. \A w \in Drafters : UnderWay(w)' <=> UnderWay(w)
    BY <2>1 DEF UnderWay
  <2>4. QED BY <1>1, <2>1, <2>2, <2>3, MemoStays DEF MemosKept, EarlierIsKept
<1>3. CASE HourPasses
  <2>1. /\ facts' = facts /\ asking' = asking /\ queued' = queued /\ draft' = draft
        /\ best' = best /\ ended' = ended /\ met' = met
        /\ memo' = [memo EXCEPT !.recent = FALSE]
    BY <1>3 DEF HourPasses
  <2>2. memo' \in MemoRows /\ memo'.status = memo.status /\ memo'.body = memo.body
    BY <1>1, <2>1 DEF MemoTypes, MemoRows
  <2>3. MemoTypes' /\ PreparingIsPrepared' /\ facts' >= facts
    BY <1>1, <2>1, <2>2 DEF MemoTypes, MemosKept, PreparingIsPrepared, Drafting
  <2>4. \A w \in Drafters : UnderWay(w)' <=> UnderWay(w)
    BY <2>1 DEF UnderWay
  <2>5. QED BY <1>1, <2>1, <2>2, <2>3, <2>4, MemoStays DEF MemosKept, EarlierIsKept
<1>4. ASSUME NEW p \in Askers, LookFirst(p) PROVE MemoInv'
  <2>1. /\ facts' = facts /\ queued' = queued /\ draft' = draft
        /\ best' = best /\ ended' = ended /\ met' = met
        /\ asking' \in [Askers -> BOOLEAN] /\ asking'[p]
    BY <1>1, <1>4 DEF LookFirst, MemoTypes
  <2>2. /\ memo' \in MemoRows /\ memo'.body = memo.body
        /\ memo' # memo => memo'.status = "preparing"
    <3>1. CASE memo.status = "none"
      <4>1. Saved(NewMemo)
        BY <1>4, <3>1 DEF LookFirst
      <4>2. memo.body = 0
        BY <1>1, <3>1 DEF DraftsInOrder
      <4>3. QED BY <4>1, <4>2, NoMemos, SavedFacts
    <3>2. CASE memo.status # "none"
      BY <1>1, <1>4, <3>2 DEF LookFirst, MemoTypes
    <3>3. QED BY <3>1, <3>2
  <2>3. MemoTypes' /\ PreparingIsPrepared' /\ facts' >= facts
    BY <1>1, <2>1, <2>2 DEF MemoTypes, PreparingIsPrepared
  <2>4. \A w \in Drafters : UnderWay(w)' <=> UnderWay(w)
    BY <2>1 DEF UnderWay
  <2>5. QED BY <1>1, <2>1, <2>2, <2>3, <2>4, MemoStays DEF MemosKept, EarlierIsKept
<1>5. ASSUME NEW p \in Askers, AskForMemo(p) PROVE MemoInv'
  <2> DEFINE next == [memo EXCEPT !.status = "preparing", !.error = FALSE]
  <2>1. /\ facts' = facts /\ draft' = draft /\ best' = best /\ ended' = ended /\ met' = met
        /\ queued' \in Nat /\ queued' > 0 /\ asking' \in [Askers -> BOOLEAN] /\ Saved(next)
    BY <1>1, <1>5 DEF AskForMemo, MemoTypes
  <2>2. next \in MemoRows /\ next.status = "preparing" /\ next.body = memo.body
    BY <1>1 DEF MemoTypes, MemoRows, MemoStates
  <2> HIDE DEF next
  <2>3. memo' \in MemoRows /\ memo'.status = "preparing" /\ memo'.body = memo.body
    BY <2>1, <2>2, SavedFacts
  <2>4. MemoTypes' /\ PreparingIsPrepared' /\ facts' >= facts
    BY <1>1, <2>1, <2>3 DEF MemoTypes, PreparingIsPrepared
  <2>5. \A w \in Drafters : UnderWay(w)' <=> UnderWay(w)
    BY <2>1 DEF UnderWay
  <2>6. QED BY <1>1, <2>1, <2>3, <2>4, <2>5, MemoStays
<1>6. QED BY <1>2, <1>3, <1>4, <1>5

\* A draft begins, from the records and the memo as they are.
LEMMA BeginDraftStep ==
    ASSUME MemoInv, NEW w \in Drafters, NEW forStaff \in BOOLEAN, draft[w] = NoDraft,
           queued' \in Nat, BeginDraft(w, forStaff)
    PROVE  MemoInv'
<1>1. MemoTypes /\ DraftsInOrder /\ MemosKept
  BY DEF MemoInv
<1> DEFINE r == [step |-> "ask", asked |-> forStaff, records |-> facts, body |-> memo.body]
<1>2. /\ draft' = [draft EXCEPT ![w] = r] /\ facts' = facts /\ asking' = asking
      /\ best' = best /\ ended' = ended /\ met' = (met \/ Drafting # {})
  BY DEF BeginDraft
<1>3. r \in DraftRows /\ r.step = "ask" /\ r.records = facts /\ r.body = memo.body
  BY <1>1 DEF DraftRows, MemoTypes, MemoRows, Figures
<1> HIDE DEF r
<1>4. /\ draft' \in [Drafters -> DraftRows] /\ draft'[w] = r
      /\ \A v \in Drafters \ {w} : draft'[v] = draft[v]
  BY <1>1, <1>2, <1>3 DEF MemoTypes
<1>5. memo' \in MemoRows /\ memo'.body = memo.body /\ (memo' # memo => memo'.status = "preparing")
  <2>1. CASE memo.status = "none"
    <3>1. Saved(NewMemo) /\ memo.body = 0
      BY <1>1, <2>1 DEF BeginDraft, DraftsInOrder
    <3>2. QED BY <3>1, NoMemos, SavedFacts
  <2>2. CASE memo.status # "none"
    BY <1>1, <2>2 DEF BeginDraft, MemoTypes
  <2>3. QED BY <2>1, <2>2
<1>6. met' \in BOOLEAN
  BY <1>1, <1>2 DEF MemoTypes
<1>7. MemoTypes'
  BY <1>1, <1>2, <1>4, <1>5, <1>6 DEF MemoTypes
<1>8. UnderWay(w)' /\ PreparingIsPrepared'
  BY <1>3, <1>4 DEF UnderWay, PreparingIsPrepared, Drafting
<1>9. facts \in Nat /\ facts >= 1 /\ best <= facts /\ best \in Nat
  BY <1>1 DEF MemoTypes, DraftsInOrder
<1>10. ASSUME NEW v \in Drafters, UnderWay(v)'
       PROVE  /\ draft'[v].records >= 1 /\ draft'[v].records <= facts'
              /\ draft'[v].body # 0 => memo'.body # 0
  <2>1. CASE v = w
    BY <1>2, <1>3, <1>4, <1>5, <1>9, <2>1
  <2>2. CASE v # w
    <3>1. UnderWay(v) /\ draft'[v] = draft[v]
      BY <1>4, <1>10, <2>2 DEF UnderWay
    <3>2. QED BY <1>1, <1>2, <1>5, <3>1 DEF DraftsInOrder
  <2>3. QED BY <2>1, <2>2
<1>11. ASSUME ~met', NEW v \in Drafters, UnderWay(v)'
       PROVE  /\ draft'[v].body = memo'.body /\ best' <= draft'[v].records
              /\ \A u \in Drafters : UnderWay(u)' => u = v
  <2>1. \A u \in Drafters : ~UnderWay(u)
    BY <1>2, <1>11 DEF Drafting, UnderWay
  <2>2. \A u \in Drafters : UnderWay(u)' => u = w
    BY <1>4, <2>1 DEF UnderWay
  <2>3. QED BY <1>2, <1>3, <1>4, <1>5, <1>9, <1>11, <2>2
<1>12. memo'.status = "none" => memo'.body = 0
  BY <1>1, <1>5 DEF DraftsInOrder
<1>13. DraftsInOrder'
  BY <1>2, <1>9, <1>10, <1>11, <1>12 DEF DraftsInOrder
<1>14. EarlierIsKept'
  BY <1>1, <1>2, <1>5 DEF EarlierIsKept, MemosKept
<1>15. QED BY <1>7, <1>8, <1>13, <1>14 DEF MemoInv, MemosKept

\* A draft that ends without a text
LEMMA DraftEnds ==
    ASSUME MemoInv, NEW w \in Drafters, UnderWay(w), draft' = [draft EXCEPT ![w] = NoDraft]
    PROVE  /\ draft' \in [Drafters -> DraftRows] /\ ~UnderWay(w)'
           /\ \A v \in Drafters : UnderWay(v)' =>
                 /\ UnderWay(v) /\ v # w /\ draft'[v].records = draft[v].records
                 /\ draft'[v].body = draft[v].body
<1>1. draft \in [Drafters -> DraftRows]
  BY DEF MemoInv, MemoTypes
<1>2. /\ draft' \in [Drafters -> DraftRows] /\ draft'[w] = NoDraft
      /\ \A v \in Drafters \ {w} : draft'[v] = draft[v]
  BY <1>1, NoDrafts
<1>3. QED BY <1>2, NoDrafts DEF UnderWay

LEMMA SaveMemoStep == ASSUME MemoInv, NEW w \in Drafters, SaveMemo(w) PROVE MemoInv'
<1>1. MemoTypes /\ DraftsInOrder /\ MemosKept
  BY DEF MemoInv
<1> DEFINE d == draft[w]
           next == [memo EXCEPT !.status = "ready", !.body = d.records, !.digest = d.records,
                               !.error = FALSE]
<1>2. /\ UnderWay(w) /\ draft' = [draft EXCEPT ![w] = NoDraft] /\ Saved(next)
      /\ best' = (IF d.records > best THEN d.records ELSE best)
      /\ facts' = facts /\ asking' = asking /\ queued' = queued /\ ended' = ended /\ met' = met
  BY DEF SaveMemo, UnderWay
<1>3. d.records \in Nat /\ d.records >= 1 /\ d.records <= facts
  BY <1>1, <1>2 DEF MemoTypes, DraftRows, Figures, DraftsInOrder
<1>4. best \in Nat /\ facts \in Nat /\ best <= facts /\ facts >= 1
  BY <1>1 DEF MemoTypes, DraftsInOrder
<1>5. ~met => best <= d.records /\ \A v \in Drafters : UnderWay(v) => v = w
  BY <1>1, <1>2 DEF DraftsInOrder
<1> HIDE DEF d
<1>6. next \in MemoRows /\ next.status = "ready" /\ next.body = d.records
  BY <1>1, <1>3 DEF MemoTypes, MemoRows, MemoStates, Figures
<1> HIDE DEF next
<1>7. memo' \in MemoRows /\ memo'.status = "ready" /\ memo'.body = d.records
  BY <1>2, <1>6, SavedFacts
<1>8. /\ draft' \in [Drafters -> DraftRows]
      /\ \A v \in Drafters : UnderWay(v)' =>
            /\ UnderWay(v) /\ v # w /\ draft'[v].records = draft[v].records
            /\ draft'[v].body = draft[v].body
  BY <1>2, DraftEnds
<1>9. best' \in Nat /\ best' <= facts' /\ (~met => best' = d.records)
  BY <1>2, <1>3, <1>4, <1>5
<1>10. MemoTypes'
  BY <1>1, <1>2, <1>7, <1>8, <1>9 DEF MemoTypes
<1>11. ASSUME NEW v \in Drafters, UnderWay(v)'
       PROVE  /\ draft'[v].records >= 1 /\ draft'[v].records <= facts'
              /\ draft'[v].body # 0 => memo'.body # 0
              /\ met'
  <2>1. UnderWay(v) /\ v # w /\ draft'[v].records = draft[v].records
    BY <1>8, <1>11
  <2>2. draft[v].records >= 1 /\ draft[v].records <= facts
    BY <1>1, <2>1 DEF DraftsInOrder
  <2>3. met'
    BY <1>2, <1>5, <2>1
  <2>4. memo'.body # 0
    BY <1>3, <1>7
  <2>5. QED BY <1>2, <2>1, <2>2, <2>3, <2>4
<1>12. DraftsInOrder'
  BY <1>2, <1>4, <1>7, <1>9, <1>11 DEF DraftsInOrder
<1>13. PreparingIsPrepared' /\ EarlierIsKept'
  BY <1>2, <1>3, <1>7, <1>9 DEF PreparingIsPrepared, EarlierIsKept
<1>14. QED BY <1>10, <1>12, <1>13 DEF MemoInv, MemosKept

\* A draft fails, breaks off, or its worker or a request goes away.
LEMMA DraftFails == ASSUME MemoInv, NEW w \in Drafters, FailMemo(w) PROVE MemoInv'
<1>1. MemoTypes /\ DraftsInOrder /\ MemosKept
  BY DEF MemoInv
<1> DEFINE next == [memo EXCEPT !.status = StatusAfter(w), !.error = TRUE]
<1>2. /\ UnderWay(w) /\ draft' = [draft EXCEPT ![w] = NoDraft] /\ Saved(next)
      /\ facts' = facts /\ asking' = asking /\ queued' = queued /\ ended' = ended /\ met' = met
      /\ best' = best
  BY DEF FailMemo, UnderWay
<1>3. StatusAfter(w) \in {"ready", "failed"} /\ (StatusAfter(w) = "ready" <=> draft[w].body # 0)
  BY DEF StatusAfter
<1>4. next \in MemoRows /\ next.status = StatusAfter(w) /\ next.body = memo.body
  BY <1>1, <1>3 DEF MemoTypes, MemoRows, MemoStates
<1> HIDE DEF next
<1>5. memo' \in MemoRows /\ memo'.status = StatusAfter(w) /\ memo'.body = memo.body
  BY <1>2, <1>4, SavedFacts
<1>6. /\ draft' \in [Drafters -> DraftRows]
      /\ \A v \in Drafters : UnderWay(v)' =>
            /\ UnderWay(v) /\ draft'[v].records = draft[v].records
            /\ draft'[v].body = draft[v].body
  BY <1>2, DraftEnds
<1>7. /\ draft[w].body # 0 => memo.body # 0
      /\ ~met => draft[w].body = memo.body
  BY <1>1, <1>2 DEF DraftsInOrder
<1>8. MemoTypes' /\ PreparingIsPrepared' /\ facts' >= facts
  BY <1>1, <1>2, <1>3, <1>5, <1>6 DEF MemoTypes, PreparingIsPrepared
<1>9. QED BY <1>2, <1>3, <1>5, <1>6, <1>7, <1>8, MemoStays

LEMMA DraftBreaks == ASSUME MemoInv, NEW w \in Drafters, BreakDraft(w) PROVE MemoInv'
<1>1. MemoTypes /\ DraftsInOrder /\ MemosKept
  BY DEF MemoInv
<1>2. /\ UnderWay(w) /\ draft' = [draft EXCEPT ![w] = NoDraft] /\ ended'
      /\ ended' \in BOOLEAN
      /\ facts' = facts /\ asking' = asking /\ queued' = queued /\ met' = met /\ best' = best
  BY DEF BreakDraft, UnderWay
<1>3. /\ memo' \in MemoRows /\ memo'.body = memo.body
      /\ memo'.status = "failed" \/ memo' = memo
  <2>1. CASE draft[w].asked
    <3>1. memo' = [memo EXCEPT !.status = "failed", !.error = TRUE]
      BY <2>1 DEF BreakDraft
    <3>2. QED BY <1>1, <3>1 DEF MemoTypes, MemoRows, MemoStates
  <2>2. CASE ~draft[w].asked
    BY <1>1, <2>2 DEF BreakDraft, MemoTypes
  <2>3. QED BY <2>1, <2>2
<1>4. /\ draft' \in [Drafters -> DraftRows]
      /\ \A v \in Drafters : UnderWay(v)' =>
            /\ UnderWay(v) /\ draft'[v].records = draft[v].records
            /\ draft'[v].body = draft[v].body
  BY <1>2, DraftEnds
<1>5. MemoTypes' /\ PreparingIsPrepared' /\ facts' >= facts
  BY <1>1, <1>2, <1>3, <1>4 DEF MemoTypes, PreparingIsPrepared
<1>6. memo'.status = "ready" => memo.body # 0
  BY <1>1, <1>3 DEF MemosKept, EarlierIsKept
<1>7. memo'.status = "none" => memo.status = "none"
  BY <1>3
<1>8. QED BY <1>2, <1>3, <1>4, <1>5, <1>6, <1>7, MemoStays

LEMMA SomeoneVanishes == ASSUME MemoInv, Vanish PROVE MemoInv'
<1>1. MemoTypes /\ DraftsInOrder /\ MemosKept
  BY DEF MemoInv
<1>2. /\ ended' /\ ended' \in BOOLEAN /\ memo' = memo
      /\ facts' = facts /\ queued' = queued /\ met' = met /\ best' = best
  BY DEF Vanish
<1>3. /\ asking' \in [Askers -> BOOLEAN] /\ draft' \in [Drafters -> DraftRows]
      /\ \A v \in Drafters : UnderWay(v)' =>
            /\ UnderWay(v) /\ draft'[v].records = draft[v].records
            /\ draft'[v].body = draft[v].body
  <2>1. CASE draft' = draft /\ \E p \in Askers : asking' = [asking EXCEPT ![p] = FALSE]
    BY <1>1, <2>1 DEF MemoTypes, UnderWay
  <2>2. CASE asking' = asking /\ \E w \in Drafting : draft' = [draft EXCEPT ![w] = NoDraft]
    <3>1. PICK w \in Drafters : UnderWay(w) /\ draft' = [draft EXCEPT ![w] = NoDraft]
      BY <2>2 DEF Drafting, UnderWay
    <3>2. asking' \in [Askers -> BOOLEAN]
      BY <1>1, <2>2 DEF MemoTypes
    <3>3. QED BY <3>1, <3>2, DraftEnds
  <2>3. QED BY <2>1, <2>2 DEF Vanish
<1>4. MemoTypes' /\ PreparingIsPrepared' /\ facts' >= facts
  BY <1>1, <1>2, <1>3 DEF MemoTypes, PreparingIsPrepared
<1>5. QED BY <1>1, <1>2, <1>3, <1>4, MemoStays DEF MemosKept, EarlierIsKept

LEMMA MemoInvStep == MemoInv /\ [MemoNext]_memoVars => MemoInv'
<1> SUFFICES ASSUME MemoInv, [MemoNext]_memoVars PROVE MemoInv'
  OBVIOUS
<1>1. MemoTypes /\ DraftsInOrder /\ MemosKept
  BY DEF MemoInv
<1>2. ASSUME NEW w \in Drafters, DraftDue(w) PROVE MemoInv'
  <2>1. draft[w] = NoDraft /\ FALSE \in BOOLEAN /\ queued' \in Nat /\ BeginDraft(w, FALSE)
    BY <1>1, <1>2 DEF DraftDue, MemoTypes
  <2>2. QED BY <2>1, BeginDraftStep
<1>3. ASSUME NEW w \in Drafters, DraftAsked(w) PROVE MemoInv'
  <2>1. draft[w] = NoDraft /\ queued' \in Nat
    BY <1>1, <1>3 DEF DraftAsked, MemoTypes
  <2>2. CASE BeginDraft(w, TRUE)
    BY <2>1, <2>2, BeginDraftStep
  <2>3. CASE ~BeginDraft(w, TRUE)
    <3> DEFINE next == [memo EXCEPT !.status = "failed", !.error = TRUE]
    <3>1. /\ Saved(next) /\ ended' /\ ended' \in BOOLEAN /\ facts' = facts /\ asking' = asking
          /\ draft' = draft /\ best' = best /\ met' = met
      BY <1>3, <2>3 DEF DraftAsked
    <3>2. next \in MemoRows /\ next.status = "failed" /\ next.body = memo.body
      BY <1>1 DEF MemoTypes, MemoRows, MemoStates
    <3> HIDE DEF next
    <3>3. memo' \in MemoRows /\ memo'.status = "failed" /\ memo'.body = memo.body
      BY <3>1, <3>2, SavedFacts
    <3>4. MemoTypes' /\ PreparingIsPrepared' /\ facts' >= facts
      BY <1>1, <2>1, <3>1, <3>3 DEF MemoTypes, PreparingIsPrepared
    <3>5. \A v \in Drafters : UnderWay(v)' <=> UnderWay(v)
      BY <3>1 DEF UnderWay
    <3>6. QED BY <3>1, <3>3, <3>4, <3>5, MemoStays
  <2>4. QED BY <2>2, <2>3
<1>4. ASSUME NEW w \in Drafters, AskModel(w) PROVE MemoInv'
  <2> DEFINE d == draft[w]
             r == [d EXCEPT !.step = "wait"]
  <2>1. d \in DraftRows /\ d.step = "ask" /\ draft' = [draft EXCEPT ![w] = r]
    BY <1>1, <1>4 DEF AskModel, MemoTypes
  <2>2. /\ facts' = facts /\ memo' = memo /\ asking' = asking /\ queued' = queued
        /\ best' = best /\ ended' = ended /\ met' = met
    BY <1>4 DEF AskModel
  <2>3. UnderWay(w)
    BY <2>1 DEF UnderWay
  <2>4. r \in DraftRows /\ r.step = "wait" /\ r.records = draft[w].records /\ r.body = draft[w].body
    BY <2>1 DEF DraftRows
  <2> HIDE DEF d, r
  <2>5. /\ draft' \in [Drafters -> DraftRows] /\ draft'[w] = r
        /\ \A v \in Drafters \ {w} : draft'[v] = draft[v]
    BY <1>1, <2>1, <2>4 DEF MemoTypes
  <2>6. UnderWay(w)' /\ PreparingIsPrepared'
    BY <2>4, <2>5 DEF UnderWay, PreparingIsPrepared, Drafting
  <2>7. MemoTypes' /\ facts' >= facts
    BY <1>1, <2>2, <2>5 DEF MemoTypes
  <2>8. ASSUME NEW v \in Drafters, UnderWay(v)'
        PROVE /\ UnderWay(v) /\ draft'[v].records = draft[v].records
              /\ draft'[v].body = draft[v].body
    BY <2>3, <2>4, <2>5, <2>8 DEF UnderWay
  <2>9. QED BY <1>1, <2>2, <2>6, <2>7, <2>8, MemoStays DEF MemosKept, EarlierIsKept
<1>5. CASE UNCHANGED memoVars
  <2>1. /\ facts' = facts /\ memo' = memo /\ asking' = asking /\ queued' = queued
        /\ draft' = draft /\ best' = best /\ ended' = ended /\ met' = met
    BY <1>5 DEF memoVars
  <2>2. QED BY <1>1, <2>1 DEF MemoInv, MemoTypes, DraftsInOrder, UnderWay, MemosKept,
                              PreparingIsPrepared, EarlierIsKept, Drafting
<1>6. QED
  BY <1>2, <1>3, <1>4, <1>5, RequestSteps, SaveMemoStep, DraftFails, DraftBreaks, SomeoneVanishes
  DEF MemoNext

\* In every behaviour of the memo: one that is being prepared has someone at it, unless one
\* of them went away; one shown as ready has a text, and one that has a text is never shown
\* as failed, and is of the newest draft, unless two drafts met or one broke off.
THEOREM MemosStay == MemoSpec => []MemosKept
<1>1. MemoInv => MemosKept
  BY DEF MemoInv
<1>2. QED BY <1>1, MemoInvInit, MemoInvStep, PTL DEF MemoSpec

----------------------------------------------------------------------------
\* The conversation.  Until two of its requests or tasks act beside each other it is in one
\* hand: a request about to send, a task queued, a task in its turn, or requests that each
\* decide a change of their own that waits.

CallStates == {"none", "asked", "answered", "waiting", "confirmed", "declined"}
TabRows == [step : {"idle", "send", "read", "save"}, of : Calls \cup {"none"},
            confirm : BOOLEAN, last : BOOLEAN]
CallSets == SUBSET Calls
TurnRows == [step : {"idle", "ask", "answer"}, calls : CallSets, todo : CallSets, rounds : Figures]

TalkTypes ==
    /\ call \in [Calls -> CallStates] /\ done \in [Changes -> Nat]
    /\ tab \in [Tabs -> TabRows] /\ turn \in [Answerers -> TurnRows]
    /\ tasks \in Nat /\ died \in BOOLEAN /\ clash \in BOOLEAN

\* The calls a task still has to answer are asked, and no other task's.
TodoIsAsked ==
    \A a \in Answerers :
        /\ turn[a].todo \subseteq turn[a].calls
        /\ turn[a].step # "answer" => turn[a].todo = {}
        /\ \A c \in turn[a].todo :
              call[c] = "asked" /\ \A b \in Answerers : c \in turn[b].todo => b = a

AskedIsInHand == \A c \in Calls : call[c] = "asked" => \E a \in Answerers : c \in turn[a].todo

Sending(t) == tab[t].step = "send"
Deciding(t) == tab[t].step \in {"read", "save"}
NoneWaits == \A c \in Calls : ~Waits(c)
NoneInTurn == \A a \in Answerers : turn[a].step = "idle"

SendersAlone ==
    \A t \in Tabs : Sending(t) =>
        /\ tasks = 0 /\ NoneInTurn /\ NoneWaits
        /\ \A u \in Tabs : Sending(u) => u = t

TasksAlone ==
    /\ tasks <= 1
    /\ tasks > 0 => NoneInTurn /\ NoneWaits

DecidersApart ==
    \A t \in Tabs : Deciding(t) =>
        /\ NoneInTurn
        /\ tab[t].of \in Changes /\ Waits(tab[t].of)
        /\ \A u \in Tabs : Deciding(u) /\ tab[u].of = tab[t].of => u = t
        /\ tab[t].step = "save" /\ tab[t].last => NothingElseWaits(tab[t].of)

TurnsApart ==
    \A a \in Answerers : turn[a].step # "idle" =>
        /\ \A b \in Answerers : turn[b].step # "idle" => b = a
        /\ turn[a].step = "ask" => NoneWaits
        /\ \A c \in Calls : Waits(c) => c \in turn[a].calls /\ c \in Changes

InOneHand == SendersAlone /\ TasksAlone /\ DecidersApart /\ TurnsApart

\* Who decides has found the change waiting; it may have been decided since.
Opened ==
    \A t \in Tabs : Deciding(t) =>
        tab[t].of \in Changes /\ call[tab[t].of] \in {"waiting", "confirmed", "declined"}

TalkInv ==
    /\ TalkTypes /\ TodoIsAsked /\ Opened
    /\ ~died => AskedIsInHand
    /\ MadeAsDecided
    /\ ~clash => InOneHand

LEMMA TalkFacts ==
    /\ NoTab \in TabRows /\ NoTab.step = "idle"
    /\ NoTurn \in TurnRows /\ NoTurn.step = "idle" /\ NoTurn.todo = {} /\ NoTurn.calls = {}
    /\ Changes \subseteq Calls /\ MaxRounds \in Nat
<1>1. NoTab \in TabRows /\ NoTab.step = "idle"
  BY DEF NoTab, TabRows
<1>2. {} \in CallSets
  BY DEF CallSets
<1>3. NoTurn \in TurnRows /\ NoTurn.step = "idle" /\ NoTurn.todo = {} /\ NoTurn.calls = {}
  BY <1>2 DEF NoTurn, TurnRows, Figures
<1>4. QED BY <1>1, <1>3, AssistantAssumption

\* The task that is about to ask the model has left no call without its answer.
LEMMA KnownIsAnswered == TalkInv => ActsAsDecided
<1> SUFFICES ASSUME TalkInv, ~died, ~clash, NEW a \in Answerers, turn[a].step = "ask",
                    NEW c \in Calls
             PROVE  call[c] \notin {"asked", "waiting"}
  BY DEF ActsAsDecided, AskedWithAnswers, TalkInv
<1>1. TurnsApart /\ AskedIsInHand /\ TodoIsAsked
  BY DEF TalkInv, InOneHand
<1>2. \A b \in Answerers : turn[b].todo = {}
  BY <1>1 DEF TurnsApart, TodoIsAsked
<1>3. call[c] # "asked"
  BY <1>1, <1>2 DEF AskedIsInHand
<1>4. call[c] # "waiting"
  BY <1>1 DEF TurnsApart, NoneWaits, Waits
<1>5. QED BY <1>3, <1>4

LEMMA TalkInvInit == TalkInit => TalkInv
<1> SUFFICES ASSUME TalkInit PROVE TalkInv
  OBVIOUS
<1>1. /\ call = [c \in Calls |-> "none"] /\ done = [c \in Changes |-> 0]
      /\ tab = [t \in Tabs |-> NoTab] /\ turn = [a \in Answerers |-> NoTurn]
      /\ tasks = 0 /\ died = FALSE /\ clash = FALSE
  BY DEF TalkInit
<1>2. TalkTypes
  BY <1>1, TalkFacts DEF TalkTypes, CallStates
<1>3. /\ \A c \in Calls : call[c] = "none"
      /\ \A c \in Changes : done[c] = 0 /\ call[c] = "none"
      /\ \A t \in Tabs : tab[t].step = "idle"
      /\ \A a \in Answerers : turn[a].step = "idle" /\ turn[a].todo = {} /\ turn[a].calls = {}
  BY <1>1, TalkFacts
<1>4. TodoIsAsked /\ AskedIsInHand /\ MadeAsDecided /\ Opened
  BY <1>3 DEF TodoIsAsked, AskedIsInHand, MadeAsDecided, Opened, Deciding
<1>5. InOneHand
  BY <1>1, <1>3
  DEF InOneHand, SendersAlone, TasksAlone, DecidersApart, TurnsApart, Sending, Deciding
<1>6. QED BY <1>2, <1>4, <1>5 DEF TalkInv

\* One request moves, one task moves.
LEMMA TabMoves ==
    ASSUME TalkTypes, NEW t \in Tabs, NEW r \in TabRows, tab' = [tab EXCEPT ![t] = r]
    PROVE  /\ tab' \in [Tabs -> TabRows] /\ tab'[t] = r
           /\ \A u \in Tabs \ {t} : tab'[u] = tab[u]
  BY DEF TalkTypes

LEMMA TurnMoves ==
    ASSUME TalkTypes, NEW a \in Answerers, NEW r \in TurnRows, turn' = [turn EXCEPT ![a] = r]
    PROVE  /\ turn' \in [Answerers -> TurnRows] /\ turn'[a] = r
           /\ \A b \in Answerers \ {a} : turn'[b] = turn[b]
  BY DEF TalkTypes

\* A step of requests only keeps what is said of calls and tasks.
LEMMA CallsStay ==
    ASSUME TalkInv, call' = call, done' = done, turn' = turn, died' = died, clash' \in BOOLEAN,
           clash => clash', tab' \in [Tabs -> TabRows], tasks' \in Nat, ~clash' => InOneHand',
           \A u \in Tabs : Deciding(u)' =>
              \/ Deciding(u) /\ tab'[u].of = tab[u].of
              \/ tab'[u].of \in Changes /\ Waits(tab'[u].of)
    PROVE  TalkInv'
<1>1. TalkTypes'
  BY DEF TalkInv, TalkTypes
<1>2. TodoIsAsked' /\ (~died' => AskedIsInHand')
  BY DEF TalkInv, TodoIsAsked, AskedIsInHand
<1>3. MadeAsDecided'
  BY DEF TalkInv, MadeAsDecided
<1>4. Opened'
  <2>1. ASSUME NEW u \in Tabs, Deciding(u)'
        PROVE  tab'[u].of \in Changes /\ call'[tab'[u].of] \in {"waiting", "confirmed", "declined"}
    BY <2>1 DEF TalkInv, Opened, Waits
  <2>2. QED BY <2>1 DEF Opened
<1>5. QED BY <1>1, <1>2, <1>3, <1>4 DEF TalkInv

LEMMA CheckSendStep == ASSUME TalkInv, NEW t \in Tabs, CheckSend(t) PROVE TalkInv'
<1> DEFINE r == [tab[t] EXCEPT !.step = "send"]
<1>1. /\ tab[t] = NoTab /\ tab' = [tab EXCEPT ![t] = r] /\ NoneWaits
      /\ call' = call /\ done' = done /\ turn' = turn /\ tasks' = tasks /\ died' = died
      /\ clash' = (clash \/ tasks > 0 \/ InTurn # {} \/ \E u \in Tabs : tab[u].step = "send")
  BY DEF CheckSend, TalkInv, TalkTypes, NoneWaits
<1>2. TalkTypes /\ (~clash => InOneHand) /\ clash \in BOOLEAN
  BY DEF TalkInv, TalkTypes
<1>3. tab[t].step = "idle" /\ tab[t] \in TabRows
  BY <1>1, TalkFacts
<1>4. r \in TabRows /\ r.step = "send"
  BY <1>3 DEF TabRows
<1> HIDE DEF r
<1>5. /\ tab' \in [Tabs -> TabRows] /\ tab'[t] = r /\ \A u \in Tabs \ {t} : tab'[u] = tab[u]
  BY <1>1, <1>2, <1>4, TabMoves
<1>6. ASSUME ~clash' PROVE InOneHand'
  <2>1. InOneHand /\ tasks = 0 /\ NoneInTurn /\ \A u \in Tabs : tab[u].step # "send"
    <3>1. ~clash /\ ~(tasks > 0) /\ InTurn = {} /\ ~(\E u \in Tabs : tab[u].step = "send")
      BY <1>1, <1>6
    <3>2. tasks = 0
      BY <1>2, <3>1 DEF TalkTypes
    <3>3. NoneInTurn
      BY <3>1 DEF InTurn, NoneInTurn
    <3>4. QED BY <1>2, <3>1, <3>2, <3>3
  <2>2. NoneWaits' /\ NoneInTurn'
    BY <1>1, <2>1 DEF NoneWaits, Waits, NoneInTurn
  <2>3. \A u \in Tabs : Sending(u)' => u = t
    BY <1>5, <2>1 DEF Sending
  <2>4. SendersAlone'
    BY <1>1, <2>1, <2>2, <2>3 DEF SendersAlone
  <2>5. \A u \in Tabs : ~Deciding(u)'
    <3>1. ASSUME NEW u \in Tabs, Deciding(u)' PROVE FALSE
      <4>1. u # t /\ Deciding(u)
        BY <1>4, <1>5, <3>1 DEF Deciding
      <4>2. Waits(tab[u].of) /\ tab[u].of \in Calls
        BY <2>1, <4>1, TalkFacts DEF InOneHand, DecidersApart
      <4>3. QED BY <1>1, <4>2 DEF NoneWaits
    <3>2. QED BY <3>1
  <2>6. DecidersApart' /\ TasksAlone' /\ TurnsApart'
    BY <1>1, <2>1, <2>2, <2>5 DEF DecidersApart, TasksAlone, TurnsApart, NoneInTurn
  <2>7. QED BY <2>4, <2>6 DEF InOneHand
<1>7. clash' \in BOOLEAN /\ (clash => clash')
  BY <1>1, <1>2
<1>8. tasks' \in Nat
  BY <1>1, <1>2 DEF TalkTypes
<1>9. \A u \in Tabs : Deciding(u)' => Deciding(u) /\ tab'[u].of = tab[u].of
  BY <1>4, <1>5 DEF Deciding
<1>10. QED BY <1>1, <1>5, <1>6, <1>7, <1>8, <1>9, CallsStay

LEMMA SendStep == ASSUME TalkInv, NEW t \in Tabs, Send(t) PROVE TalkInv'
<1>1. /\ Sending(t) /\ tab' = [tab EXCEPT ![t] = NoTab] /\ tasks' = tasks + 1
      /\ call' = call /\ done' = done /\ turn' = turn /\ died' = died /\ clash' = clash
  BY DEF Send, Sending
<1>2. TalkTypes /\ (~clash => InOneHand) /\ tasks \in Nat /\ clash \in BOOLEAN
  BY DEF TalkInv, TalkTypes
<1>3. /\ tab' \in [Tabs -> TabRows] /\ tab'[t] = NoTab /\ \A u \in Tabs \ {t} : tab'[u] = tab[u]
  BY <1>1, <1>2, TalkFacts, TabMoves
<1>4. ASSUME ~clash' PROVE InOneHand'
  <2>1. InOneHand
    BY <1>1, <1>2, <1>4
  <2>2. tasks = 0 /\ NoneInTurn /\ NoneWaits /\ \A u \in Tabs : Sending(u) => u = t
    BY <1>1, <2>1 DEF InOneHand, SendersAlone
  <2>3. NoneWaits' /\ NoneInTurn'
    BY <1>1, <2>2 DEF NoneWaits, Waits, NoneInTurn
  <2>4. \A u \in Tabs : ~Sending(u)' /\ ~Deciding(u)'
    <3>1. ASSUME NEW u \in Tabs \ {t} PROVE ~Sending(u)' /\ ~Deciding(u)'
      <4>1. ~Sending(u) /\ tab'[u] = tab[u]
        BY <1>3, <2>2
      <4>2. ~Deciding(u)
        BY <2>1, <2>2, TalkFacts DEF InOneHand, DecidersApart, NoneWaits
      <4>3. QED BY <4>1, <4>2 DEF Sending, Deciding
    <3>2. ~Sending(t)' /\ ~Deciding(t)'
      BY <1>3, TalkFacts DEF Sending, Deciding
    <3>3. QED BY <3>1, <3>2
  <2>5. QED BY <1>1, <2>2, <2>3, <2>4 DEF InOneHand, SendersAlone, TasksAlone, DecidersApart,
                                          TurnsApart, NoneInTurn
<1>5. tasks' \in Nat
  BY <1>1, <1>2
<1>6. \A u \in Tabs : Deciding(u)' => Deciding(u) /\ tab'[u].of = tab[u].of
  BY <1>3, TalkFacts DEF Deciding
<1>7. QED BY <1>1, <1>2, <1>3, <1>4, <1>5, <1>6, CallsStay

\* A request ends without having done anything.
LEMMA GiveUpStep == ASSUME TalkInv, NEW t \in Tabs, GiveUp(t) PROVE TalkInv'
<1>1. /\ tab' = [tab EXCEPT ![t] = NoTab] /\ tasks' = tasks
      /\ call' = call /\ done' = done /\ turn' = turn /\ died' = died /\ clash' = clash
  BY DEF GiveUp
<1>2. TalkTypes /\ (~clash => InOneHand) /\ tasks \in Nat /\ clash \in BOOLEAN
  BY DEF TalkInv, TalkTypes
<1>3. /\ tab' \in [Tabs -> TabRows] /\ tab'[t] = NoTab /\ \A u \in Tabs \ {t} : tab'[u] = tab[u]
  BY <1>1, <1>2, TalkFacts, TabMoves
<1>4. ASSUME ~clash' PROVE InOneHand'
  <2>1. InOneHand
    BY <1>1, <1>2, <1>4
  <2>2. \A u \in Tabs :
           /\ Sending(u)' => Sending(u)
           /\ Deciding(u)' => Deciding(u) /\ tab'[u] = tab[u]
    BY <1>3, TalkFacts DEF Sending, Deciding
  <2>3. (NoneWaits' <=> NoneWaits) /\ (NoneInTurn' <=> NoneInTurn)
    BY <1>1 DEF NoneWaits, Waits, NoneInTurn
  <2>4. SendersAlone' /\ TasksAlone'
    BY <1>1, <2>1, <2>2, <2>3 DEF InOneHand, SendersAlone, TasksAlone
  <2>5. DecidersApart'
    <3>1. ASSUME NEW u \in Tabs, Deciding(u)'
          PROVE  /\ NoneInTurn' /\ tab'[u].of \in Changes /\ Waits(tab[u].of)'
                 /\ \A v \in Tabs : Deciding(v)' /\ tab'[v].of = tab'[u].of => v = u
                 /\ tab'[u].step = "save" /\ tab'[u].last => NothingElseWaits(tab[u].of)'
      <4>1. Deciding(u) /\ tab'[u] = tab[u]
        BY <2>2, <3>1
      <4>2. /\ NoneInTurn /\ tab[u].of \in Changes /\ Waits(tab[u].of)
            /\ \A v \in Tabs : Deciding(v) /\ tab[v].of = tab[u].of => v = u
            /\ tab[u].step = "save" /\ tab[u].last => NothingElseWaits(tab[u].of)
        BY <2>1, <4>1 DEF InOneHand, DecidersApart
      <4>3. \A v \in Tabs : Deciding(v)' /\ tab'[v].of = tab'[u].of => v = u
        BY <2>2, <4>1, <4>2
      <4>4. QED BY <1>1, <2>3, <4>1, <4>2, <4>3 DEF Waits, NothingElseWaits
    <3>2. QED BY <3>1, <2>2 DEF DecidersApart, Waits, NothingElseWaits
  <2>6. TurnsApart'
    BY <1>1, <2>1, <2>3 DEF InOneHand, TurnsApart, Waits
  <2>7. QED BY <2>4, <2>5, <2>6 DEF InOneHand
<1>5. \A u \in Tabs : Deciding(u)' => Deciding(u) /\ tab'[u].of = tab[u].of
  BY <1>3, TalkFacts DEF Deciding
<1>6. QED BY <1>1, <1>2, <1>3, <1>4, <1>5, CallsStay

LEMMA OpenDecisionStep ==
    ASSUME TalkInv, NEW t \in Tabs, NEW c \in Calls, NEW confirm \in BOOLEAN,
           OpenDecision(t, c, confirm)
    PROVE  TalkInv'
<1> DEFINE r == [NoTab EXCEPT !.step = "read", !.of = c, !.confirm = confirm]
<1>1. /\ tab[t] = NoTab /\ tab' = [tab EXCEPT ![t] = r] /\ c \in Changes /\ Waits(c)
      /\ call' = call /\ done' = done /\ turn' = turn /\ tasks' = tasks /\ died' = died
      /\ clash' = (clash \/ InTurn # {} \/ \E u \in Tabs : tab[u].of = c)
  BY DEF OpenDecision
<1>2. TalkTypes /\ (~clash => InOneHand) /\ tasks \in Nat /\ clash \in BOOLEAN
  BY DEF TalkInv, TalkTypes
<1>3. r \in TabRows /\ r.step = "read" /\ r.of = c
  BY TalkFacts DEF TabRows
<1> HIDE DEF r
<1>4. /\ tab' \in [Tabs -> TabRows] /\ tab'[t] = r /\ \A u \in Tabs \ {t} : tab'[u] = tab[u]
  BY <1>1, <1>2, <1>3, TabMoves
<1>5. ASSUME ~clash' PROVE InOneHand'
  <2>1. ~clash /\ InTurn = {} /\ ~(\E u \in Tabs : tab[u].of = c)
    BY <1>1, <1>5
  <2>2. InOneHand /\ NoneInTurn /\ \A u \in Tabs : tab[u].of # c
    BY <1>2, <2>1 DEF InTurn, NoneInTurn
  <2>3. ~NoneWaits
    BY <1>1 DEF NoneWaits
  <2>4. (\A u \in Tabs : ~Sending(u)) /\ ~(tasks > 0)
    BY <2>2, <2>3 DEF InOneHand, SendersAlone, TasksAlone
  <2>5. NoneInTurn' /\ \A u \in Tabs : ~Sending(u)'
    BY <1>1, <1>3, <1>4, <2>2, <2>4 DEF NoneInTurn, Sending
  <2>6. SendersAlone' /\ TurnsApart'
    BY <2>5 DEF SendersAlone, TurnsApart, NoneInTurn
  <2>7. TasksAlone'
    BY <1>1, <2>2, <2>4 DEF InOneHand, TasksAlone
  <2>8. ASSUME NEW u \in Tabs, Deciding(u)'
        PROVE  /\ tab'[u].of \in Changes /\ Waits(tab[u].of)'
               /\ \A v \in Tabs : Deciding(v)' /\ tab'[v].of = tab'[u].of => v = u
               /\ tab'[u].step = "save" /\ tab'[u].last => NothingElseWaits(tab[u].of)'
    <3>1. CASE u = t
      <4>1. \A v \in Tabs : tab'[v].of = c => v = t
        BY <1>4, <2>2
      <4>2. tab'[u].of = c /\ tab'[u].step = "read"
        BY <1>3, <1>4, <3>1
      <4>3. QED BY <1>1, <3>1, <4>1, <4>2 DEF Waits
    <3>2. CASE u # t
      <4>1. Deciding(u) /\ tab'[u] = tab[u]
        BY <1>4, <2>8, <3>2 DEF Deciding
      <4>2. /\ tab[u].of \in Changes /\ Waits(tab[u].of)
            /\ \A v \in Tabs : Deciding(v) /\ tab[v].of = tab[u].of => v = u
            /\ tab[u].step = "save" /\ tab[u].last => NothingElseWaits(tab[u].of)
        BY <2>2, <4>1 DEF InOneHand, DecidersApart
      <4>3. \A v \in Tabs : Deciding(v)' /\ tab'[v].of = tab'[u].of => v = u
        <5>1. ASSUME NEW v \in Tabs, Deciding(v)', tab'[v].of = tab'[u].of PROVE v = u
          <6>1. v # t
            BY <1>3, <1>4, <2>2, <4>1, <5>1
          <6>2. QED BY <1>4, <4>1, <4>2, <5>1, <6>1 DEF Deciding
        <5>2. QED BY <5>1
      <4>4. QED BY <1>1, <4>1, <4>2, <4>3 DEF Waits, NothingElseWaits
    <3>3. QED BY <3>1, <3>2
  <2>9. DecidersApart'
    BY <2>5, <2>8 DEF DecidersApart, Waits, NothingElseWaits
  <2>10. QED BY <2>6, <2>7, <2>9 DEF InOneHand
<1>6. clash' \in BOOLEAN /\ (clash => clash') /\ tasks' \in Nat
  BY <1>1, <1>2
<1>7. \A u \in Tabs : Deciding(u)' =>
          \/ Deciding(u) /\ tab'[u].of = tab[u].of
          \/ tab'[u].of \in Changes /\ Waits(tab'[u].of)
  BY <1>1, <1>3, <1>4 DEF Deciding
<1>8. QED BY <1>1, <1>4, <1>5, <1>6, <1>7, CallsStay

LEMMA DecideStep == ASSUME TalkInv, NEW t \in Tabs, Decide(t) PROVE TalkInv'
<1> DEFINE k == tab[t]
           last == NothingElseWaits(k.of)
           r == [k EXCEPT !.step = "save", !.last = last]
<1>1. TalkTypes /\ (~clash => InOneHand) /\ tasks \in Nat /\ clash \in BOOLEAN /\ k \in TabRows
  BY DEF TalkInv, TalkTypes
<1>2. /\ k.step = "read" /\ tab' = [tab EXCEPT ![t] = r] /\ tasks' = tasks
      /\ call' = call /\ done' = done /\ turn' = turn /\ died' = died /\ clash' = clash
  BY <1>1 DEF Decide, TalkTypes
<1>3. last \in BOOLEAN /\ (last => NothingElseWaits(k.of))
  BY DEF NothingElseWaits
<1>4. Deciding(t)
  BY <1>2 DEF Deciding
<1> HIDE DEF last, k
<1>5. r \in TabRows /\ r.step = "save" /\ r.of = k.of /\ (r.last => last)
  BY <1>1, <1>3 DEF TabRows
<1> HIDE DEF r
<1>6. /\ tab' \in [Tabs -> TabRows] /\ tab'[t] = r /\ \A u \in Tabs \ {t} : tab'[u] = tab[u]
  BY <1>1, <1>2, <1>5, TabMoves
<1>7. /\ \A u \in Tabs : tab'[u].of = tab[u].of
      /\ \A u \in Tabs : Deciding(u)' => Deciding(u)
      /\ \A u \in Tabs : Sending(u)' => Sending(u)
  BY <1>4, <1>5, <1>6 DEF Deciding, Sending, k
<1>8. ASSUME ~clash' PROVE InOneHand'
  <2>1. InOneHand
    BY <1>1, <1>2, <1>8
  <2>2. (NoneWaits' <=> NoneWaits) /\ (NoneInTurn' <=> NoneInTurn)
    BY <1>2 DEF NoneWaits, Waits, NoneInTurn
  <2>3. SendersAlone' /\ TasksAlone'
    BY <1>2, <1>7, <2>1, <2>2 DEF InOneHand, SendersAlone, TasksAlone
  <2>4. TurnsApart'
    BY <1>2, <2>1, <2>2 DEF InOneHand, TurnsApart, Waits
  <2>5. ASSUME NEW u \in Tabs, Deciding(u)'
        PROVE  /\ NoneInTurn' /\ tab'[u].of \in Changes /\ Waits(tab[u].of)'
               /\ \A v \in Tabs : Deciding(v)' /\ tab'[v].of = tab'[u].of => v = u
               /\ tab'[u].step = "save" /\ tab'[u].last => NothingElseWaits(tab[u].of)'
    <3>1. Deciding(u) /\ tab'[u].of = tab[u].of
      BY <1>7, <2>5
    <3>2. /\ NoneInTurn /\ tab[u].of \in Changes /\ Waits(tab[u].of)
          /\ \A v \in Tabs : Deciding(v) /\ tab[v].of = tab[u].of => v = u
          /\ tab[u].step = "save" /\ tab[u].last => NothingElseWaits(tab[u].of)
      BY <2>1, <3>1 DEF InOneHand, DecidersApart
    <3>3. ASSUME tab'[u].step = "save", tab'[u].last PROVE NothingElseWaits(tab[u].of)
      BY <1>3, <1>5, <1>6, <3>2, <3>3 DEF k
    <3>4. \A v \in Tabs : Deciding(v)' /\ tab'[v].of = tab'[u].of => v = u
      BY <1>7, <3>2
    <3>5. QED BY <1>2, <2>2, <3>1, <3>2, <3>3, <3>4 DEF Waits, NothingElseWaits
  <2>6. DecidersApart'
    BY <2>5 DEF DecidersApart, Waits, NothingElseWaits
  <2>7. QED BY <2>3, <2>4, <2>6 DEF InOneHand
<1>9. QED BY <1>1, <1>2, <1>6, <1>7, <1>8, CallsStay

LEMMA CommitDecisionStep == ASSUME TalkInv, NEW t \in Tabs, CommitDecision(t) PROVE TalkInv'
<1> DEFINE k == tab[t]
           to == IF k.confirm THEN "confirmed" ELSE "declined"
<1>1. TalkTypes /\ TodoIsAsked /\ Opened /\ (~clash => InOneHand) /\ k \in TabRows
  BY DEF TalkInv, TalkTypes
<1>2. /\ k.step = "save" /\ tab' = [tab EXCEPT ![t] = NoTab]
      /\ call' = [call EXCEPT ![k.of] = to]
      /\ done' = IF k.confirm THEN [done EXCEPT ![k.of] = done[k.of] + 1] ELSE done
      /\ (k.last => tasks' = tasks + 1) /\ (~k.last => tasks' = tasks)
      /\ turn' = turn /\ died' = died /\ clash' = clash
  BY DEF CommitDecision
<1>3. Deciding(t)
  BY <1>2 DEF Deciding
<1>4. PICK c \in Changes : c = k.of /\ call[c] \in {"waiting", "confirmed", "declined"}
  BY <1>1, <1>3 DEF Opened
<1>5. c \in Calls
  BY TalkFacts
<1>6. to \in {"confirmed", "declined"} /\ (to = "confirmed" <=> k.confirm)
  OBVIOUS
<1> HIDE DEF to, k
<1>7. /\ call' \in [Calls -> CallStates] /\ call'[c] = to
      /\ \A d \in Calls \ {c} : call'[d] = call[d]
  BY <1>1, <1>2, <1>4, <1>5, <1>6 DEF TalkTypes, CallStates
<1>8. /\ done' \in [Changes -> Nat] /\ \A d \in Changes \ {c} : done'[d] = done[d]
      /\ done'[c] = IF k.confirm THEN done[c] + 1 ELSE done[c]
  BY <1>1, <1>2, <1>4 DEF TalkTypes
<1>9. /\ tab' \in [Tabs -> TabRows] /\ tab'[t] = NoTab /\ \A u \in Tabs \ {t} : tab'[u] = tab[u]
  BY <1>1, <1>2, TalkFacts, TabMoves
<1>10. tasks \in Nat /\ tasks' \in Nat /\ clash' \in BOOLEAN
  BY <1>1, <1>2 DEF TalkTypes
<1>11. TalkTypes'
  BY <1>1, <1>2, <1>7, <1>8, <1>9, <1>10 DEF TalkTypes
<1>12. \A d \in Calls : call'[d] = "asked" <=> call[d] = "asked"
  BY <1>4, <1>6, <1>7
<1>13. TodoIsAsked' /\ (~died' => AskedIsInHand')
  <2>1. \A a \in Answerers : turn[a].todo \subseteq Calls
    BY <1>1 DEF TalkTypes, TurnRows, CallSets
  <2>2. TodoIsAsked'
    BY <1>1, <1>2, <1>12, <2>1 DEF TodoIsAsked
  <2>3. ~died' => AskedIsInHand'
    BY <1>2, <1>12 DEF TalkInv, AskedIsInHand
  <2>4. QED BY <2>2, <2>3
<1>14. \A u \in Tabs : Deciding(u)' => u # t /\ Deciding(u) /\ tab'[u] = tab[u]
  BY <1>9, TalkFacts DEF Deciding
<1>15. Opened'
  <2>1. ASSUME NEW u \in Tabs, Deciding(u)'
        PROVE  tab'[u].of \in Changes /\ call'[tab'[u].of] \in {"waiting", "confirmed", "declined"}
    <3>1. /\ tab'[u] = tab[u] /\ tab[u].of \in Changes
          /\ call[tab[u].of] \in {"waiting", "confirmed", "declined"}
      BY <1>1, <1>14, <2>1 DEF Opened
    <3>2. tab[u].of \in Calls
      BY <3>1, TalkFacts
    <3>3. QED BY <1>6, <1>7, <3>1, <3>2
  <2>2. QED BY <2>1 DEF Opened
<1>16. ASSUME ~clash
       PROVE  /\ InOneHand /\ Waits(c) /\ NoneInTurn /\ tasks = 0
              /\ \A u \in Tabs : ~Sending(u)
              /\ \A u \in Tabs : Deciding(u) /\ tab[u].of = c => u = t
              /\ k.last => NothingElseWaits(c)
  <2>1. InOneHand
    BY <1>1, <1>16
  <2>2. /\ Waits(c) /\ NoneInTurn /\ (k.last => NothingElseWaits(c))
        /\ \A u \in Tabs : Deciding(u) /\ tab[u].of = c => u = t
    BY <1>2, <1>3, <1>4, <2>1 DEF InOneHand, DecidersApart, k
  <2>3. ~NoneWaits
    BY <1>5, <2>2 DEF NoneWaits
  <2>4. tasks = 0 /\ \A u \in Tabs : ~Sending(u)
    BY <1>10, <2>1, <2>3 DEF InOneHand, TasksAlone, SendersAlone
  <2>5. QED BY <2>1, <2>2, <2>4
<1>17. MadeAsDecided'
  <2>1. ASSUME ~clash, NEW d \in Changes
        PROVE  done'[d] = IF call'[d] = "confirmed" THEN 1 ELSE 0
    <3>1. done[d] = IF call[d] = "confirmed" THEN 1 ELSE 0
      BY <2>1 DEF TalkInv, MadeAsDecided
    <3>2. CASE d # c
      BY <1>7, <1>8, <3>1, <3>2, TalkFacts
    <3>3. CASE d = c
      <4>1. done[c] = 0
        BY <1>16, <2>1, <3>1, <3>3 DEF Waits
      <4>2. QED BY <1>6, <1>7, <1>8, <3>3, <4>1
    <3>4. QED BY <3>2, <3>3
  <2>2. QED BY <1>2, <2>1 DEF MadeAsDecided
<1>18. ASSUME ~clash' PROVE InOneHand'
  <2>1. /\ InOneHand /\ Waits(c) /\ NoneInTurn /\ tasks = 0
        /\ \A u \in Tabs : ~Sending(u)
        /\ \A u \in Tabs : Deciding(u) /\ tab[u].of = c => u = t
        /\ k.last => NothingElseWaits(c)
    BY <1>2, <1>16, <1>18
  <2>2. NoneInTurn' /\ \A u \in Tabs : ~Sending(u)'
    BY <1>2, <1>9, <2>1, TalkFacts DEF NoneInTurn, Sending
  <2>3. SendersAlone' /\ TurnsApart'
    BY <2>2 DEF SendersAlone, TurnsApart, NoneInTurn
  <2>4. k.last => NoneWaits'
    <3>1. ASSUME k.last, NEW d \in Calls PROVE ~Waits(d)'
      <4>1. CASE d = c
        BY <1>6, <1>7, <4>1 DEF Waits
      <4>2. CASE d # c
        BY <1>7, <2>1, <3>1, <4>2 DEF Waits, NothingElseWaits
      <4>3. QED BY <4>1, <4>2
    <3>2. QED BY <3>1 DEF NoneWaits
  <2>5. TasksAlone'
    <3>1. CASE k.last
      BY <1>2, <2>1, <2>2, <2>4, <3>1 DEF TasksAlone
    <3>2. CASE ~k.last
      BY <1>2, <2>1, <3>2 DEF TasksAlone
    <3>3. QED BY <3>1, <3>2
  <2>6. ASSUME NEW u \in Tabs, Deciding(u)'
        PROVE  /\ tab'[u].of \in Changes /\ call'[tab'[u].of] = "waiting"
               /\ \A v \in Tabs : Deciding(v)' /\ tab'[v].of = tab'[u].of => v = u
               /\ tab'[u].step = "save" /\ tab'[u].last =>
                     \A d \in Calls \ {tab'[u].of} : call'[d] # "waiting"
    <3>1. u # t /\ Deciding(u) /\ tab'[u] = tab[u] /\ tab[u].of # c
      BY <1>14, <2>1, <2>6
    <3>2. /\ tab[u].of \in Changes /\ Waits(tab[u].of)
          /\ \A v \in Tabs : Deciding(v) /\ tab[v].of = tab[u].of => v = u
          /\ tab[u].step = "save" /\ tab[u].last => NothingElseWaits(tab[u].of)
      BY <2>1, <3>1 DEF InOneHand, DecidersApart
    <3>3. \A v \in Tabs : Deciding(v)' /\ tab'[v].of = tab'[u].of => v = u
      BY <1>14, <3>1, <3>2
    <3>4. call'[tab'[u].of] = "waiting"
      BY <1>7, <3>1, <3>2, TalkFacts DEF Waits
    <3>5. tab'[u].step = "save" /\ tab'[u].last =>
             \A d \in Calls \ {tab'[u].of} : call'[d] # "waiting"
      BY <1>6, <1>7, <3>1, <3>2 DEF Waits, NothingElseWaits
    <3>6. QED BY <3>1, <3>2, <3>3, <3>4, <3>5
  <2>7. DecidersApart'
    BY <2>2, <2>6 DEF DecidersApart, Waits, NothingElseWaits
  <2>8. QED BY <2>3, <2>5, <2>7 DEF InOneHand
<1>19. QED BY <1>11, <1>13, <1>15, <1>17, <1>18 DEF TalkInv

LEMMA TakeTurnStep == ASSUME TalkInv, NEW a \in Answerers, TakeTurn(a) PROVE TalkInv'
<1> DEFINE r == [NoTurn EXCEPT !.step = "ask", !.rounds = Rounds]
<1>1. TalkTypes /\ TodoIsAsked /\ (~clash => InOneHand) /\ tasks \in Nat /\ clash \in BOOLEAN
  BY DEF TalkInv, TalkTypes
<1>2. /\ tasks > 0 /\ tasks' = tasks - 1 /\ turn[a] = NoTurn
      /\ call' = call /\ done' = done /\ tab' = tab /\ died' = died
  BY DEF TakeTurn
<1>3. /\ r \in TurnRows /\ r.step = "ask" /\ r.todo = {} /\ r.calls = {}
  BY TalkFacts DEF TurnRows, Rounds, Figures
<1> HIDE DEF r
<1>4. CASE turn' = turn /\ clash' = clash
  <2>1. tasks' \in Nat
    BY <1>1, <1>2
  <2>2. ASSUME ~clash' PROVE InOneHand'
    <3>1. InOneHand /\ ~(\E u \in Tabs : Sending(u))
      BY <1>1, <1>2, <1>4, <2>2 DEF InOneHand, SendersAlone
    <3>2. (NoneWaits' <=> NoneWaits) /\ (NoneInTurn' <=> NoneInTurn)
      BY <1>2, <1>4 DEF NoneWaits, Waits, NoneInTurn
    <3>3. SendersAlone' /\ TasksAlone'
      BY <1>1, <1>2, <3>1, <3>2 DEF InOneHand, SendersAlone, Sending, TasksAlone
    <3>4. DecidersApart' /\ TurnsApart'
      BY <1>2, <1>4, <3>1, <3>2 DEF InOneHand, DecidersApart, TurnsApart, Deciding, Waits,
                                    NothingElseWaits
    <3>5. QED BY <3>3, <3>4 DEF InOneHand
  <2>3. /\ tab' \in [Tabs -> TabRows]
        /\ \A u \in Tabs : Deciding(u)' => Deciding(u) /\ tab'[u].of = tab[u].of
    BY <1>1, <1>2 DEF TalkTypes, Deciding
  <2>4. QED BY <1>1, <1>2, <1>4, <2>1, <2>2, <2>3, CallsStay
<1>5. CASE turn' = [turn EXCEPT ![a] = r] /\ clash' = (clash \/ InTurn # {})
  <2>1. /\ turn' \in [Answerers -> TurnRows] /\ turn'[a] = r
        /\ \A b \in Answerers \ {a} : turn'[b] = turn[b]
    BY <1>1, <1>3, <1>5, TurnMoves
  <2>2. \A b \in Answerers : turn'[b].todo = turn[b].todo
    BY <1>2, <1>3, <2>1, TalkFacts
  <2>3. TalkTypes'
    BY <1>1, <1>2, <1>5, <2>1 DEF TalkTypes
  <2>4. TodoIsAsked'
    BY <1>1, <1>2, <1>3, <2>1, <2>2 DEF TodoIsAsked
  <2>5. ~died' => AskedIsInHand'
    BY <1>2, <2>2 DEF TalkInv, AskedIsInHand
  <2>6. Opened'
    BY <1>2 DEF TalkInv, Opened, Deciding
  <2>7. MadeAsDecided'
    BY <1>2, <1>5 DEF TalkInv, MadeAsDecided
  <2>8. ASSUME ~clash' PROVE InOneHand'
    <3>1. ~clash /\ InTurn = {}
      BY <1>5, <2>8
    <3>2. InOneHand /\ NoneInTurn /\ NoneWaits /\ tasks' = 0
      BY <1>1, <1>2, <3>1 DEF InOneHand, TasksAlone
    <3>3. \A u \in Tabs : ~Sending(u) /\ ~Deciding(u)
      BY <1>1, <1>2, <3>2, TalkFacts DEF InOneHand, SendersAlone, DecidersApart, NoneWaits
    <3>4. SendersAlone' /\ DecidersApart'
      BY <1>2, <3>3 DEF SendersAlone, DecidersApart, Sending, Deciding
    <3>5. NoneWaits' /\ \A b \in Answerers : turn'[b].step # "idle" => b = a
      BY <1>2, <2>1, <3>2 DEF NoneWaits, Waits, NoneInTurn
    <3>6. TasksAlone' /\ TurnsApart'
      BY <3>2, <3>5 DEF TasksAlone, TurnsApart, NoneWaits
    <3>7. QED BY <3>4, <3>6 DEF InOneHand
  <2>9. QED BY <2>3, <2>4, <2>5, <2>6, <2>7, <2>8 DEF TalkInv
<1>6. QED BY <1>4, <1>5 DEF TakeTurn, r

\* While a task is in its turn, and none acts beside it, no request sends or decides.
LEMMA InItsTurn ==
    ASSUME TalkInv, ~clash, NEW a \in Answerers, turn[a].step # "idle"
    PROVE  /\ InOneHand /\ tasks = 0
           /\ \A u \in Tabs : ~Sending(u) /\ ~Deciding(u)
           /\ \A b \in Answerers : turn[b].step # "idle" => b = a
<1>1. InOneHand /\ tasks \in Nat /\ ~NoneInTurn
  BY DEF TalkInv, TalkTypes, NoneInTurn
<1>2. QED BY <1>1 DEF InOneHand, SendersAlone, TasksAlone, DecidersApart, TurnsApart

LEMMA TurnEnds ==
    ASSUME TalkInv, NEW a \in Answerers, turn' = [turn EXCEPT ![a] = NoTurn],
           call' = call, done' = done, tab' = tab, tasks' = tasks, clash' = clash,
           died' \in BOOLEAN, died => died', turn[a].todo = {} \/ died'
    PROVE  TalkInv'
<1>1. TalkTypes /\ TodoIsAsked /\ (~clash => InOneHand)
  BY DEF TalkInv
<1>2. /\ turn' \in [Answerers -> TurnRows] /\ turn'[a] = NoTurn
      /\ \A b \in Answerers \ {a} : turn'[b] = turn[b]
  BY <1>1, TalkFacts, TurnMoves
<1>3. TalkTypes'
  BY <1>1, <1>2 DEF TalkTypes
<1>4. \A b \in Answerers : turn'[b].todo \subseteq turn[b].todo
  BY <1>2, TalkFacts
<1>5. TodoIsAsked'
  BY <1>1, <1>2, <1>4, TalkFacts DEF TodoIsAsked
<1>6. ASSUME ~died' PROVE AskedIsInHand'
  <2>1. AskedIsInHand /\ turn[a].todo = {}
    BY <1>6 DEF TalkInv
  <2>2. \A b \in Answerers : turn'[b].todo = turn[b].todo
    BY <1>2, <2>1, TalkFacts
  <2>3. QED BY <2>1, <2>2 DEF AskedIsInHand
<1>7. Opened' /\ MadeAsDecided'
  BY DEF TalkInv, Opened, Deciding, MadeAsDecided
<1>8. ASSUME ~clash' PROVE InOneHand'
  <2>1. InOneHand
    BY <1>1, <1>8
  <2>2. \A b \in Answerers : turn'[b].step # "idle" => b # a /\ turn'[b] = turn[b]
    BY <1>2, TalkFacts
  <2>3. (NoneInTurn => NoneInTurn') /\ (NoneWaits <=> NoneWaits')
    BY <2>2 DEF NoneInTurn, NoneWaits, Waits
  <2>4. SendersAlone' /\ TasksAlone'
    BY <2>1, <2>3 DEF InOneHand, SendersAlone, TasksAlone, Sending
  <2>5. DecidersApart'
    BY <2>1, <2>3 DEF InOneHand, DecidersApart, Deciding, Waits, NothingElseWaits
  <2>6. TurnsApart'
    BY <2>1, <2>2, <2>3 DEF InOneHand, TurnsApart, Waits
  <2>7. QED BY <2>4, <2>5, <2>6 DEF InOneHand
<1>9. QED BY <1>3, <1>5, <1>6, <1>7, <1>8 DEF TalkInv

\* The task goes on to its next request to the model.
LEMMA TurnGoesOn ==
    ASSUME TalkInv, NEW a \in Answerers, turn[a].step = "answer", turn[a].todo = {},
           turn[a].calls \cap Changes = {}, turn' = [turn EXCEPT ![a].step = "ask"],
           call' = call, done' = done, tab' = tab, tasks' = tasks, clash' = clash, died' = died
    PROVE  TalkInv'
<1> DEFINE k == turn[a]
           r == [k EXCEPT !.step = "ask"]
<1>1. TalkTypes /\ TodoIsAsked /\ k \in TurnRows /\ turn' = [turn EXCEPT ![a] = r]
  BY DEF TalkInv, TalkTypes
<1>2. r \in TurnRows /\ r.step = "ask" /\ r.todo = {} /\ r.calls = turn[a].calls
  BY <1>1 DEF TurnRows
<1> HIDE DEF r
<1>3. /\ turn' \in [Answerers -> TurnRows] /\ turn'[a] = r
      /\ \A b \in Answerers \ {a} : turn'[b] = turn[b]
  BY <1>1, <1>2, TurnMoves
<1>4. TalkTypes'
  BY <1>1, <1>3 DEF TalkTypes
<1>5. \A b \in Answerers : turn'[b].todo = turn[b].todo /\ turn'[b].calls = turn[b].calls
  BY <1>2, <1>3
<1>6. TodoIsAsked'
  BY <1>1, <1>2, <1>3, <1>5 DEF TodoIsAsked
<1>7. ~died' => AskedIsInHand'
  BY <1>5 DEF TalkInv, AskedIsInHand
<1>8. Opened' /\ MadeAsDecided'
  BY DEF TalkInv, Opened, Deciding, MadeAsDecided
<1>9. ASSUME ~clash' PROVE InOneHand'
  <2>1. /\ InOneHand /\ tasks = 0 /\ \A u \in Tabs : ~Sending(u) /\ ~Deciding(u)
        /\ \A b \in Answerers : turn[b].step # "idle" => b = a
    BY <1>9, InItsTurn
  <2>2. \A c \in Calls : ~Waits(c)
    BY <2>1 DEF InOneHand, TurnsApart
  <2>3. NoneWaits'
    BY <2>2 DEF NoneWaits, Waits
  <2>4. \A b \in Answerers : turn'[b].step # "idle" => b = a
    BY <1>3, <2>1
  <2>5. SendersAlone' /\ DecidersApart' /\ TasksAlone'
    BY <2>1 DEF SendersAlone, DecidersApart, TasksAlone, Sending, Deciding
  <2>6. TurnsApart'
    BY <2>3, <2>4 DEF TurnsApart, NoneWaits
  <2>7. QED BY <2>5, <2>6 DEF InOneHand
<1>10. QED BY <1>4, <1>6, <1>7, <1>8, <1>9 DEF TalkInv

LEMMA AskStep == ASSUME TalkInv, NEW a \in Answerers, NEW new \in SUBSET Calls, Ask(a, new)
                 PROVE  TalkInv'
<1> DEFINE k == turn[a]
           r == [step |-> "answer", calls |-> new, todo |-> new, rounds |-> k.rounds - 1]
<1>1. TalkTypes /\ TodoIsAsked /\ k \in TurnRows
  BY DEF TalkInv, TalkTypes
<1>2. /\ k.step = "ask" /\ k.rounds > 0 /\ (\A c \in new : call[c] = "none")
      /\ call' = [c \in Calls |-> IF c \in new THEN "asked" ELSE call[c]]
      /\ done' = done /\ tab' = tab /\ tasks' = tasks /\ died' = died /\ clash' = clash
  BY DEF Ask
<1>3. k.todo = {}
  BY <1>1, <1>2 DEF TodoIsAsked
<1>4. CASE new = {}
  <2>1. call' = call /\ turn' = [turn EXCEPT ![a] = NoTurn]
    BY <1>1, <1>2, <1>4 DEF Ask, Finish, TalkTypes
  <2>2. died' \in BOOLEAN
    BY <1>1, <1>2 DEF TalkTypes
  <2>3. QED BY <1>2, <1>3, <2>1, <2>2, TurnEnds
<1>5. CASE new # {}
  <2>1. turn' = [turn EXCEPT ![a] = r]
    BY <1>1, <1>5 DEF Ask, TalkTypes
  <2>2. r \in TurnRows /\ r.step = "answer" /\ r.calls = new /\ r.todo = new
    <3>1. k.rounds - 1 \in Nat
      BY <1>1, <1>2 DEF TurnRows, Figures
    <3>2. QED BY <3>1 DEF TurnRows, CallSets, Figures
  <2> HIDE DEF r
  <2>3. /\ turn' \in [Answerers -> TurnRows] /\ turn'[a] = r
        /\ \A b \in Answerers \ {a} : turn'[b] = turn[b]
    BY <1>1, <2>1, <2>2, TurnMoves
  <2>4. /\ call' \in [Calls -> CallStates] /\ \A c \in new : call'[c] = "asked"
        /\ \A c \in Calls \ new : call'[c] = call[c]
    BY <1>1, <1>2 DEF TalkTypes, CallStates
  <2>5. TalkTypes'
    BY <1>1, <1>2, <2>3, <2>4 DEF TalkTypes
  <2>6. \A b \in Answerers : turn[b].todo \subseteq Calls
    BY <1>1 DEF TalkTypes, TurnRows, CallSets
  <2>7. ASSUME NEW b \in Answerers
        PROVE  /\ turn'[b].todo \subseteq turn'[b].calls
               /\ turn'[b].step # "answer" => turn'[b].todo = {}
    BY <1>1, <2>2, <2>3 DEF TodoIsAsked
  <2>8. ASSUME NEW b \in Answerers, NEW c \in turn'[b].todo
        PROVE  call'[c] = "asked" /\ \A d \in Answerers : c \in turn'[d].todo => d = b
    <3>1. CASE b = a
      <4>1. c \in new
        BY <2>2, <2>3, <2>8, <3>1
      <4>2. \A d \in Answerers : c \notin turn[d].todo
        BY <1>1, <1>2, <4>1 DEF TodoIsAsked
      <4>3. QED BY <2>3, <2>4, <3>1, <4>1, <4>2
    <3>2. CASE b # a
      <4>1. c \in turn[b].todo /\ call[c] = "asked" /\ c \in Calls
        BY <1>1, <2>3, <2>6, <2>8, <3>2 DEF TodoIsAsked
      <4>2. c \notin new
        BY <1>2, <4>1
      <4>3. \A d \in Answerers : c \in turn'[d].todo => d = b
        BY <1>1, <2>2, <2>3, <4>1, <4>2 DEF TodoIsAsked
      <4>4. QED BY <2>4, <4>1, <4>2, <4>3
    <3>3. QED BY <3>1, <3>2
  <2>9. TodoIsAsked'
    BY <2>7, <2>8 DEF TodoIsAsked
  <2>10. ASSUME ~died' PROVE AskedIsInHand'
    <3>1. AskedIsInHand
      BY <1>2, <2>10 DEF TalkInv
    <3>2. ASSUME NEW c \in Calls, call'[c] = "asked" PROVE \E b \in Answerers : c \in turn'[b].todo
      <4>1. CASE c \in new
        BY <2>2, <2>3, <4>1
      <4>2. CASE c \notin new
        <5>1. PICK b \in Answerers : c \in turn[b].todo
          BY <2>4, <3>1, <3>2, <4>2 DEF AskedIsInHand
        <5>2. b # a
          BY <1>3, <5>1
        <5>3. QED BY <2>3, <5>1, <5>2
      <4>3. QED BY <4>1, <4>2
    <3>3. QED BY <3>2 DEF AskedIsInHand
  <2>11. Opened'
    <3>1. ASSUME NEW t \in Tabs, Deciding(t)
          PROVE  tab'[t].of \in Changes /\ call'[tab'[t].of] \in {"waiting", "confirmed", "declined"}
      <4>1. tab[t].of \in Changes /\ call[tab[t].of] \in {"waiting", "confirmed", "declined"}
        BY <3>1 DEF TalkInv, Opened
      <4>2. tab[t].of \in Calls \ new
        BY <1>2, <4>1, TalkFacts
      <4>3. QED BY <1>2, <2>4, <4>1, <4>2
    <3>2. \A t \in Tabs : Deciding(t)' <=> Deciding(t)
      BY <1>2 DEF Deciding
    <3>3. QED BY <3>1, <3>2 DEF Opened
  <2>12. MadeAsDecided'
    <3>1. \A c \in Changes : call'[c] = "confirmed" <=> call[c] = "confirmed"
      BY <1>2, <2>4, TalkFacts
    <3>2. QED BY <1>2, <3>1 DEF TalkInv, MadeAsDecided
  <2>13. ASSUME ~clash' PROVE InOneHand'
    <3>1. turn[a].step # "idle" /\ ~clash
      BY <1>2, <2>13
    <3>2. /\ InOneHand /\ tasks = 0 /\ \A u \in Tabs : ~Sending(u) /\ ~Deciding(u)
          /\ \A b \in Answerers : turn[b].step # "idle" => b = a
      BY <3>1, InItsTurn
    <3>3. NoneWaits
      BY <1>2, <3>1, <3>2 DEF InOneHand, TurnsApart
    <3>4. NoneWaits'
      BY <2>4, <3>3 DEF NoneWaits, Waits
    <3>5. \A b \in Answerers : turn'[b].step # "idle" => b = a
      BY <2>3, <3>2
    <3>6. SendersAlone' /\ DecidersApart' /\ TasksAlone'
      BY <1>2, <3>2 DEF SendersAlone, DecidersApart, TasksAlone, Sending, Deciding
    <3>7. TurnsApart'
      BY <3>4, <3>5 DEF TurnsApart, NoneWaits
    <3>8. QED BY <3>6, <3>7 DEF InOneHand
  <2>14. QED BY <2>5, <2>9, <2>10, <2>11, <2>12, <2>13 DEF TalkInv
<1>6. QED BY <1>4, <1>5

LEMMA AnswerCallStep ==
    ASSUME TalkInv, NEW a \in Answerers, NEW c \in Calls, AnswerCall(a, c)
    PROVE  TalkInv'
<1> DEFINE k == turn[a]
           to == IF c \in Changes THEN "waiting" ELSE "answered"
           r == [k EXCEPT !.todo = k.todo \ {c}]
<1>1. TalkTypes /\ TodoIsAsked /\ k \in TurnRows /\ (~died => AskedIsInHand)
  BY DEF TalkInv, TalkTypes
<1>2. /\ c \in k.todo /\ call' = [call EXCEPT ![c] = to] /\ turn' = [turn EXCEPT ![a] = r]
      /\ done' = done /\ tab' = tab /\ tasks' = tasks /\ died' = died /\ clash' = clash
  BY <1>1 DEF AnswerCall, TalkTypes
<1>3. to \in {"waiting", "answered"} /\ (to = "waiting" <=> c \in Changes)
  OBVIOUS
<1>4. /\ call[c] = "asked" /\ k.step = "answer" /\ k.todo \subseteq k.calls /\ c \in k.calls
      /\ \A b \in Answerers : c \in turn[b].todo => b = a
  BY <1>1, <1>2 DEF TodoIsAsked
<1> HIDE DEF to
<1>5. /\ r \in TurnRows /\ r.step = "answer" /\ r.calls = k.calls /\ r.todo = k.todo \ {c}
  <2>1. k.todo \ {c} \in CallSets
    BY <1>1 DEF TurnRows, CallSets
  <2>2. QED BY <1>1, <1>4, <2>1 DEF TurnRows
<1> HIDE DEF r
<1>6. /\ turn' \in [Answerers -> TurnRows] /\ turn'[a] = r
      /\ \A b \in Answerers \ {a} : turn'[b] = turn[b]
  BY <1>1, <1>2, <1>5, TurnMoves
<1>7. /\ call' \in [Calls -> CallStates] /\ call'[c] = to
      /\ \A d \in Calls \ {c} : call'[d] = call[d]
  BY <1>1, <1>2, <1>3 DEF TalkTypes, CallStates
<1>8. TalkTypes'
  BY <1>1, <1>2, <1>6, <1>7 DEF TalkTypes
<1>9. \A b \in Answerers : turn'[b].todo = turn[b].todo \ {c} /\ turn'[b].calls = turn[b].calls
  <2>1. ASSUME NEW b \in Answerers, b # a
        PROVE  turn'[b].todo = turn[b].todo \ {c} /\ turn'[b].calls = turn[b].calls
    BY <1>4, <1>6, <2>1
  <2>2. turn'[a].todo = turn[a].todo \ {c} /\ turn'[a].calls = turn[a].calls
    BY <1>5, <1>6
  <2>3. QED BY <2>1, <2>2
<1>10. \A b \in Answerers : turn[b].todo \subseteq Calls /\ turn'[b].step = turn[b].step
  BY <1>1, <1>4, <1>5, <1>6 DEF TalkTypes, TurnRows, CallSets
<1>11. TodoIsAsked'
  <2>1. ASSUME NEW b \in Answerers
        PROVE  /\ turn'[b].todo \subseteq turn'[b].calls
               /\ turn'[b].step # "answer" => turn'[b].todo = {}
    <3>1. turn[b].todo \subseteq turn[b].calls /\ (turn[b].step # "answer" => turn[b].todo = {})
      BY <1>1 DEF TodoIsAsked
    <3>2. QED BY <1>9, <1>10, <3>1
  <2>2. ASSUME NEW b \in Answerers, NEW d \in turn'[b].todo
        PROVE  call'[d] = "asked" /\ \A e \in Answerers : d \in turn'[e].todo => e = b
    <3>1. d \in turn[b].todo /\ d # c /\ d \in Calls
      BY <1>9, <1>10, <2>2
    <3>2. call[d] = "asked" /\ \A e \in Answerers : d \in turn[e].todo => e = b
      BY <1>1, <3>1 DEF TodoIsAsked
    <3>3. QED BY <1>7, <1>9, <3>1, <3>2
  <2>3. QED BY <2>1, <2>2 DEF TodoIsAsked
<1>12. ASSUME ~died' PROVE AskedIsInHand'
  <2>1. ASSUME NEW d \in Calls, call'[d] = "asked" PROVE \E b \in Answerers : d \in turn'[b].todo
    <3>1. d # c /\ call[d] = "asked"
      BY <1>3, <1>7, <2>1
    <3>2. PICK b \in Answerers : d \in turn[b].todo
      BY <1>1, <1>2, <1>12, <3>1 DEF AskedIsInHand
    <3>3. QED BY <1>9, <3>1, <3>2
  <2>2. QED BY <2>1 DEF AskedIsInHand
<1>13. Opened'
  <2>1. ASSUME NEW t \in Tabs, Deciding(t)
        PROVE  tab'[t].of \in Changes /\ call'[tab'[t].of] \in {"waiting", "confirmed", "declined"}
    <3>1. tab[t].of \in Changes /\ call[tab[t].of] \in {"waiting", "confirmed", "declined"}
      BY <2>1 DEF TalkInv, Opened
    <3>2. tab[t].of \in Calls /\ tab[t].of # c
      BY <1>4, <3>1, TalkFacts
    <3>3. QED BY <1>2, <1>7, <3>1, <3>2
  <2>2. \A t \in Tabs : Deciding(t)' <=> Deciding(t)
    BY <1>2 DEF Deciding
  <2>3. QED BY <2>1, <2>2 DEF Opened
<1>14. MadeAsDecided'
  <2>1. \A d \in Changes : call'[d] = "confirmed" <=> call[d] = "confirmed"
    BY <1>3, <1>4, <1>7, TalkFacts
  <2>2. QED BY <1>2, <2>1 DEF TalkInv, MadeAsDecided
<1>15. ASSUME ~clash' PROVE InOneHand'
  <2>1. turn[a].step # "idle" /\ ~clash
    BY <1>2, <1>4, <1>15
  <2>2. /\ InOneHand /\ tasks = 0 /\ \A u \in Tabs : ~Sending(u) /\ ~Deciding(u)
        /\ \A b \in Answerers : turn[b].step # "idle" => b = a
    BY <2>1, InItsTurn
  <2>3. ASSUME NEW d \in Calls, Waits(d)' PROVE d \in turn'[a].calls /\ d \in Changes
    <3>1. CASE d = c
      BY <1>3, <1>4, <1>5, <1>6, <1>7, <2>3, <3>1 DEF Waits
    <3>2. CASE d # c
      <4>1. Waits(d)
        BY <1>7, <2>3, <3>2 DEF Waits
      <4>2. d \in turn[a].calls /\ d \in Changes
        BY <2>1, <2>2, <4>1 DEF InOneHand, TurnsApart
      <4>3. QED BY <1>9, <4>2
    <3>3. QED BY <3>1, <3>2
  <2>4. /\ turn'[a].step = "answer"
        /\ \A b \in Answerers : turn'[b].step # "idle" => b = a
    BY <1>5, <1>6, <2>2
  <2>5. TurnsApart'
    BY <2>3, <2>4 DEF TurnsApart
  <2>6. SendersAlone' /\ DecidersApart' /\ TasksAlone'
    BY <1>2, <2>2 DEF SendersAlone, DecidersApart, TasksAlone, Sending, Deciding
  <2>7. QED BY <2>5, <2>6 DEF InOneHand
<1>16. QED BY <1>8, <1>11, <1>12, <1>13, <1>14, <1>15 DEF TalkInv

LEMMA EndRoundStep ==
    ASSUME TalkInv, NEW a \in Answerers, EndAsking(a) \/ EndRound(a) \/ Die(a)
    PROVE  TalkInv'
<1>1. TalkTypes /\ TodoIsAsked
  BY DEF TalkInv
<1>2. CASE EndAsking(a)
  <2>1. turn[a].todo = {} /\ died' \in BOOLEAN
    BY <1>1, <1>2 DEF EndAsking, TodoIsAsked, TalkTypes
  <2>2. QED BY <1>2, <2>1, TurnEnds DEF EndAsking, Finish
<1>3. CASE EndRound(a)
  <2>1. turn[a].todo = {} /\ died' \in BOOLEAN /\ turn[a].step = "answer"
    BY <1>1, <1>3 DEF EndRound, TalkTypes
  <2>2. CASE turn[a].calls \cap Changes # {}
    BY <1>3, <2>1, <2>2, TurnEnds DEF EndRound, Finish
  <2>3. CASE turn[a].calls \cap Changes = {}
    BY <1>3, <2>1, <2>3, TurnGoesOn DEF EndRound
  <2>4. QED BY <2>2, <2>3
<1>4. CASE Die(a)
  BY <1>4, TurnEnds DEF Die
<1>5. QED BY <1>2, <1>3, <1>4

LEMMA TalkInvStep == TalkInv /\ [TalkNext]_talkVars => TalkInv'
<1> SUFFICES ASSUME TalkInv, [TalkNext]_talkVars PROVE TalkInv'
  OBVIOUS
<1>1. CASE GoStale \/ UNCHANGED talkVars
  <2>1. /\ call' = call /\ done' = done /\ tab' = tab /\ turn' = turn /\ tasks' = tasks
        /\ died' = died /\ clash' = clash
    BY <1>1 DEF GoStale, talkVars
  <2>2. TalkTypes' /\ TodoIsAsked' /\ Opened' /\ (~died' => AskedIsInHand') /\ MadeAsDecided'
    BY <2>1 DEF TalkInv, TalkTypes, TodoIsAsked, Opened, Deciding, AskedIsInHand, MadeAsDecided
  <2>3. ~clash' => InOneHand'
    BY <2>1 DEF TalkInv, InOneHand, SendersAlone, TasksAlone, DecidersApart, TurnsApart, Sending,
                Deciding, NoneWaits, NoneInTurn, Waits, NothingElseWaits
  <2>4. QED BY <2>2, <2>3 DEF TalkInv
<1>2. ASSUME NEW t \in Tabs,
             CheckSend(t) \/ Send(t) \/ Decide(t) \/ CommitDecision(t) \/ GiveUp(t)
      PROVE  TalkInv'
  BY <1>2, CheckSendStep, SendStep, DecideStep, CommitDecisionStep, GiveUpStep
<1>3. ASSUME NEW t \in Tabs, NEW c \in Calls, NEW confirm \in BOOLEAN, OpenDecision(t, c, confirm)
      PROVE  TalkInv'
  BY <1>3, OpenDecisionStep
<1>4. ASSUME NEW a \in Answerers, TakeTurn(a) PROVE TalkInv'
  BY <1>4, TakeTurnStep
<1>5. ASSUME NEW a \in Answerers, EndAsking(a) \/ EndRound(a) \/ Die(a) PROVE TalkInv'
  BY <1>5, EndRoundStep
<1>6. ASSUME NEW a \in Answerers, NEW new \in SUBSET Calls, Ask(a, new) PROVE TalkInv'
  BY <1>6, AskStep
<1>7. ASSUME NEW a \in Answerers, NEW c \in Calls, AnswerCall(a, c) PROVE TalkInv'
  BY <1>7, AnswerCallStep
<1>8. QED BY <1>1, <1>2, <1>3, <1>4, <1>5, <1>6, <1>7 DEF TalkNext

\* In every behaviour of a conversation, for any number of requests and tasks: until two of
\* them act beside each other, a change the assistant proposes is made once if its owner
\* confirmed it and never otherwise; and the model is asked again only when every call it
\* made has its answer, unless a task died in its turn.
THEOREM DecisionsKept == TalkSpec => []ActsAsDecided
<1>1. QED BY KnownIsAnswered, TalkInvInit, TalkInvStep, PTL DEF TalkSpec

----------------------------------------------------------------------------
\* The AI features together, as MCOffice runs them

\* In every behaviour of MCOffice: the assistant acts on its owner's decisions only, reviews
\* pass nothing over, a memo is as its last good draft left it, and a translation is whole,
\* the newest, and the only one in its language.
THEOREM AIKeepsOrder == Spec => []AIInOrder
<1> DEFINE Inv == TalkInv /\ OfferInv /\ RunInv /\ MemoInv /\ TextInv /\ OneInv /\ NewInv
<1>1. Init => Inv
  BY TalkInvInit, OfferInvInit, RunInvInit, MemoInvInit, TextInvInit, OneInvInit, NewInvInit
  DEF Init
<1>2. [Next]_allVars => /\ [TalkNext]_talkVars /\ [RunsNext \/ OffersNext]_suggestVars
                        /\ [MemoNext]_memoVars /\ [TranslationsNext]_translateVars
  BY DEF Next, allVars
<1>3. Inv /\ [Next]_allVars => Inv'
  BY <1>2, TalkInvStep, OfferInvStep, RunInvStep, MemoInvStep, TextInvStep, OneInvStep, NewInvStep
<1>4. Inv => AIInOrder
  <2>1. TalkInv => ActsAsDecided
    BY KnownIsAnswered
  <2>2. OfferInv /\ RunInv => SuggestionsInOrder
    BY OffersDecided, NoneIsBehind DEF SuggestionsInOrder
  <2>3. MemoInv => MemosKept
    BY DEF MemoInv
  <2>4. TextInv /\ OneInv /\ NewInv => TranslationsKept
    BY OneEach DEF TranslationsKept, TextInv, NewInv, NewIn, NewestTranslated, Into
  <2>5. QED BY <2>1, <2>2, <2>3, <2>4 DEF AIInOrder
<1>5. QED BY <1>1, <1>3, <1>4, PTL DEF Spec

----------------------------------------------------------------------------
\* The list a poll goes through.  A record's place is the number of those before it: it
\* falls by one at most when another record is saved, and only when that record was before it.

RecordRows == [at : Figures, version : Figures]
RecordStates == [Rows -> RecordRows]
Before(list, r) == {q \in Rows : ChangedSince(list, q) /\ SortsBefore(list, q, r)}

LEMMA PlaceFinite ==
    ASSUME NEW list, NEW r
    PROVE  /\ IsFiniteSet(Before(list, r)) /\ Place(list, r) = Cardinality(Before(list, r))
           /\ Place(list, r) \in Nat
<1>1. IsFiniteSet(Rows) /\ Before(list, r) \subseteq Rows
  BY ApiSyncAssumption DEF Before
<1>2. IsFiniteSet(Before(list, r))
  BY <1>1, FS_Subset
<1>3. Place(list, r) = Cardinality(Before(list, r))
  BY DEF Place, Before
<1>4. QED BY <1>2, <1>3, FS_CardinalityType

\* One set in another with one element more is smaller, or as large, and a proper one smaller.
LEMMA OneMore ==
    ASSUME NEW S, NEW T, NEW e, IsFiniteSet(S), IsFiniteSet(T)
    PROVE  /\ S \subseteq T => Cardinality(S) <= Cardinality(T)
           /\ S \subseteq T \cup {e} => Cardinality(S) <= Cardinality(T) + 1
           /\ S \cup {e} \subseteq T /\ e \notin S => Cardinality(S) < Cardinality(T)
<1>1. Cardinality(S) \in Nat /\ Cardinality(T) \in Nat
  BY FS_CardinalityType
<1>2. /\ IsFiniteSet(T \cup {e})
      /\ Cardinality(T \cup {e}) = IF e \in T THEN Cardinality(T) ELSE Cardinality(T) + 1
  BY FS_AddElement
<1>3. e \notin S => Cardinality(S \cup {e}) = Cardinality(S) + 1
  BY FS_AddElement
<1>4. S \subseteq T => Cardinality(S) <= Cardinality(T)
  BY FS_Subset
<1>5. S \subseteq T \cup {e} => Cardinality(S) <= Cardinality(T \cup {e})
  BY <1>2, FS_Subset
<1>6. S \cup {e} \subseteq T => Cardinality(S \cup {e}) <= Cardinality(T)
  BY FS_Subset
<1>7. QED BY <1>1, <1>2, <1>3, <1>4, <1>5, <1>6

\* The places are in the order of the list, from 0 to one less than its length.
LEMMA PlacesInOrder ==
    ASSUME polled \in Nat, NEW list \in RecordStates, NEW q \in Rows, ChangedSince(list, q)
    PROVE  /\ \A r \in Rows : SortsBefore(list, q, r) => Place(list, q) < Place(list, r)
           /\ Place(list, q) < Cardinality({r \in Rows : ChangedSince(list, r)})
           /\ Cardinality({r \in Rows : ChangedSince(list, r)}) \in Nat
<1> DEFINE listed == {r \in Rows : ChangedSince(list, r)}
<1>1. Rows \subseteq Nat /\ IsFiniteSet(Rows) /\ \A r \in Rows : list[r].at \in Nat
  BY ApiSyncAssumption DEF RecordStates, RecordRows, Figures
<1>2. IsFiniteSet(Before(list, q)) /\ Place(list, q) = Cardinality(Before(list, q))
  BY PlaceFinite
<1>3. q \notin Before(list, q)
  BY <1>1 DEF Before, SortsBefore
<1>4. ASSUME NEW r \in Rows, SortsBefore(list, q, r) PROVE Place(list, q) < Place(list, r)
  <2>1. \A d \in Rows : SortsBefore(list, d, q) => SortsBefore(list, d, r)
    BY <1>1, <1>4 DEF SortsBefore
  <2>2. Before(list, q) \cup {q} \subseteq Before(list, r)
    BY <1>4, <2>1 DEF Before
  <2>3. IsFiniteSet(Before(list, r)) /\ Place(list, r) = Cardinality(Before(list, r))
    BY PlaceFinite
  <2>4. QED BY <1>2, <1>3, <2>2, <2>3, OneMore
<1>5. listed \subseteq Rows /\ Before(list, q) \cup {q} \subseteq listed
  BY DEF Before
<1> HIDE DEF listed
<1>6. IsFiniteSet(listed)
  BY <1>1, <1>5, FS_Subset
<1>7. Cardinality(Before(list, q)) < Cardinality(listed) /\ Cardinality(listed) \in Nat
  BY <1>2, <1>3, <1>5, <1>6, OneMore, FS_CardinalityType
<1>8. QED BY <1>2, <1>4, <1>7 DEF listed

\* A record that comes to lie before the offset, when another was saved, lay at it, and the
\* other went from before the offset to behind it.
LEMMA OnePulled ==
    ASSUME polled \in Nat, NEW list \in RecordStates, NEW later \in RecordStates,
           NEW r \in Rows, NEW q \in Rows, q # r, NEW offset \in Nat,
           \A d \in Rows \ {r} : later[d].at = list[d].at, list[r].at <= later[r].at,
           ChangedSince(later, q), Place(later, q) < offset, ~(Place(list, q) < offset)
    PROVE  /\ ChangedSince(list, q) /\ Place(list, q) = offset
           /\ ChangedSince(list, r) /\ Place(list, r) < offset /\ Place(later, r) >= offset
<1>1. /\ Rows \subseteq Nat
      /\ \A d \in Rows : list[d].at \in Nat /\ later[d].at \in Nat
  BY ApiSyncAssumption DEF RecordStates, RecordRows, Figures
<1> DEFINE S == Before(list, q)
           T == Before(later, q)
<1>2. \A d \in Rows \ {r} : d \in S <=> d \in T
  BY DEF Before, ChangedSince, SortsBefore
<1>3. /\ IsFiniteSet(S) /\ Place(list, q) = Cardinality(S) /\ Place(list, q) \in Nat
      /\ IsFiniteSet(T) /\ Place(later, q) = Cardinality(T) /\ Place(later, q) \in Nat
  BY PlaceFinite
<1>4. S \subseteq Rows /\ T \subseteq Rows
  BY DEF Before
<1>5. ChangedSince(list, q)
  BY DEF ChangedSince
<1> HIDE DEF S, T
<1>6. S \subseteq T \cup {r} /\ (S \subseteq T => Cardinality(S) <= Cardinality(T))
  BY <1>2, <1>3, <1>4, OneMore
<1>7. Cardinality(S) <= Cardinality(T) + 1
  BY <1>3, <1>6, OneMore
<1>8. ~(S \subseteq T) /\ Place(list, q) = offset
  BY <1>3, <1>6, <1>7
<1>9. r \in S /\ r \notin T
  BY <1>6, <1>8
<1>10. ChangedSince(list, r) /\ SortsBefore(list, r, q)
  BY <1>9 DEF S, Before
<1>11. Place(list, r) < offset
  BY <1>8, <1>10, PlacesInOrder
<1>12. ChangedSince(later, r)
  BY <1>1, <1>10 DEF ChangedSince
<1>13. SortsBefore(later, q, r)
  BY <1>1, <1>9, <1>12 DEF T, Before, SortsBefore
<1>14. Place(later, q) < Place(later, r)
  BY <1>13, PlacesInOrder
<1>15. Place(later, r) \in Nat
  BY PlaceFinite
<1>16. Place(later, q) + 1 = offset
  BY <1>3, <1>7, <1>8
<1>17. QED BY <1>3, <1>5, <1>8, <1>10, <1>11, <1>14, <1>15, <1>16

----------------------------------------------------------------------------
\* Staying in step.  The poll has given the other system what lies before its offset, and
\* earlier ones all from before the last of them; a change that is still to commit is no
\* older than what its record shows.

SaveRows == [of : Figures, at : Figures]
PollRows == [on : BOOLEAN, began : Figures, offset : Figures]

SyncTypes ==
    /\ now \in Nat /\ polled \in Nat
    /\ row \in RecordStates /\ saver \in [Savers -> SaveRows] /\ poll \in PollRows
    /\ mirror \in [Rows -> Figures]

SavesInTime ==
    /\ \A r \in Rows : row[r].at <= now
    /\ \A s \in Savers : saver[s] # NoSave =>
          /\ saver[s].of \in Rows /\ saver[s].at <= now
          /\ row[saver[s].of].at <= saver[s].at
          /\ \A t \in Savers : saver[t].of = saver[s].of => t = s

HasOlder == \A r \in Rows \ missed : row[r].at < polled => mirror[r] = row[r].version

HasRead ==
    poll.on => \A r \in Rows \ missed :
        ChangedSince(row, r) /\ Place(row, r) < poll.offset /\ row[r].at < poll.began
            => mirror[r] = row[r].version

PollInv == SyncTypes /\ SavesInTime /\ HasOlder /\ HasRead

LEMMA PollInvInit == SyncInit => PollInv
<1> SUFFICES ASSUME SyncInit PROVE PollInv
  OBVIOUS
<1>1. Rows \subseteq Nat
  BY ApiSyncAssumption
<1>2. row = [r \in Rows |-> [at |-> 0, version |-> 0]] /\ now = 0 /\ polled = 0 /\ mirror = [r \in Rows |-> 0]
  BY DEF SyncInit
<1>3. saver \in [Savers -> SaveRows] /\ \A s \in Savers : saver[s] = NoSave
  BY DEF SyncInit, NoSave, SaveRows, Figures
<1>4. poll \in PollRows /\ ~poll.on
  BY DEF SyncInit, NoPoll, PollRows, Figures
<1>5. row \in RecordStates /\ mirror \in [Rows -> Figures]
  BY <1>2 DEF RecordStates, RecordRows, Figures
<1>6. \A r \in Rows : row[r].at = 0 /\ row[r].version = 0 /\ mirror[r] = 0
  BY <1>2
<1>7. QED BY <1>2, <1>3, <1>4, <1>5, <1>6
          DEF PollInv, SyncTypes, SavesInTime, HasOlder, HasRead

\* What the records show stays where it was.
LEMMA SameList ==
    ASSUME \A r \in Rows : row'[r].at = row[r].at, polled' = polled
    PROVE  \A r \in Rows : /\ ChangedSince(row, r)' <=> ChangedSince(row, r)
                           /\ Place(row, r)' = Place(row, r)
<1>1. \A q, r \in Rows : /\ ChangedSince(row, r)' <=> ChangedSince(row, r)
                         /\ SortsBefore(row, q, r)' <=> SortsBefore(row, q, r)
  BY DEF ChangedSince, SortsBefore
<1>2. ASSUME NEW r \in Rows PROVE Place(row, r)' = Place(row, r)
  <2>1. {q \in Rows : ChangedSince(row, q)' /\ SortsBefore(row, q, r)'}
          = {q \in Rows : ChangedSince(row, q) /\ SortsBefore(row, q, r)}
    BY <1>1
  <2>2. QED BY <2>1 DEF Place
<1>3. QED BY <1>1, <1>2

LEMMA TickStep == ASSUME PollInv, Tick PROVE PollInv'
<1>1. /\ now' = now + 1 /\ row' = row /\ saver' = saver /\ poll' = poll /\ polled' = polled
      /\ mirror' = mirror /\ missed' = missed
  BY DEF Tick
<1>2. now \in Nat /\ SyncTypes'
  BY <1>1 DEF PollInv, SyncTypes
<1>3. /\ \A r \in Rows : row[r].at \in Nat /\ \A s \in Savers : saver[s].at \in Nat
  BY DEF PollInv, SyncTypes, RecordStates, RecordRows, SaveRows, Figures
<1>4. SavesInTime'
  BY <1>1, <1>2, <1>3 DEF PollInv, SavesInTime, NoSave
<1>5. HasOlder' /\ HasRead'
  BY <1>1 DEF PollInv, HasOlder, HasRead, Place, ChangedSince, SortsBefore
<1>6. QED BY <1>2, <1>4, <1>5 DEF PollInv

LEMMA SaveBegins == ASSUME PollInv, NEW s \in Savers, NEW r \in Rows, Save(s, r) PROVE PollInv'
<1> DEFINE k == [of |-> r, at |-> now]
<1>1. /\ now' = now /\ row' = row /\ poll' = poll /\ polled' = polled
      /\ mirror' = mirror /\ missed' = missed /\ saver' = [saver EXCEPT ![s] = k]
      /\ \A t \in Savers : saver[t].of # r
  BY DEF Save
<1>2. r \in Nat /\ SyncTypes /\ now \in Nat /\ row[r].at <= now
  BY ApiSyncAssumption DEF PollInv, SyncTypes, SavesInTime
<1>3. k \in SaveRows /\ k.of = r /\ k.at = now
  BY <1>2 DEF SaveRows, Figures
<1> HIDE DEF k
<1>4. /\ saver' \in [Savers -> SaveRows] /\ saver'[s] = k
      /\ \A t \in Savers \ {s} : saver'[t] = saver[t]
  BY <1>1, <1>2, <1>3 DEF SyncTypes
<1>5. SyncTypes'
  BY <1>1, <1>2, <1>4 DEF SyncTypes
<1>6. ASSUME NEW t \in Savers, saver'[t] # NoSave
      PROVE  /\ saver'[t].of \in Rows /\ saver'[t].at <= now'
             /\ row'[saver'[t].of].at <= saver'[t].at
             /\ \A u \in Savers : saver'[u].of = saver'[t].of => u = t
  <2>1. CASE t = s
    BY <1>1, <1>2, <1>3, <1>4, <2>1
  <2>2. CASE t # s
    <3>1. saver'[t] = saver[t] /\ saver[t] # NoSave /\ saver[t].of # r
      BY <1>1, <1>4, <1>6, <2>2
    <3>2. /\ saver[t].of \in Rows /\ saver[t].at <= now
          /\ row[saver[t].of].at <= saver[t].at
          /\ \A u \in Savers : saver[u].of = saver[t].of => u = t
      BY <3>1 DEF PollInv, SavesInTime
    <3>3. QED BY <1>1, <1>3, <1>4, <3>1, <3>2
  <2>3. QED BY <2>1, <2>2
<1>7. SavesInTime'
  BY <1>1, <1>6 DEF PollInv, SavesInTime, NoSave
<1>8. HasOlder' /\ HasRead'
  BY <1>1 DEF PollInv, HasOlder, HasRead, Place, ChangedSince, SortsBefore
<1>9. QED BY <1>5, <1>7, <1>8 DEF PollInv

LEMMA ChangeNestedStep == ASSUME PollInv, NEW r \in Rows, ChangeNested(r) PROVE PollInv'
<1> DEFINE k == [row[r] EXCEPT !.version = row[r].version + 1]
<1>1. /\ now' = now /\ saver' = saver /\ poll' = poll /\ polled' = polled
      /\ mirror' = mirror /\ missed' = missed \cup {r} /\ row' = [row EXCEPT ![r] = k]
  BY DEF ChangeNested, PollInv, SyncTypes, RecordStates
<1>2. SyncTypes /\ row[r] \in RecordRows
  BY DEF PollInv, SyncTypes, RecordStates
<1>3. k \in RecordRows /\ k.at = row[r].at
  BY <1>2 DEF RecordRows, Figures
<1> HIDE DEF k
<1>4. /\ row' \in RecordStates /\ row'[r] = k /\ \A q \in Rows \ {r} : row'[q] = row[q]
  BY <1>1, <1>2, <1>3 DEF SyncTypes, RecordStates
<1>5. \A q \in Rows : row'[q].at = row[q].at
  BY <1>3, <1>4
<1>6. SyncTypes' /\ SavesInTime'
  BY <1>1, <1>2, <1>4, <1>5 DEF PollInv, SyncTypes, SavesInTime, NoSave
<1>7. \A q \in Rows : /\ ChangedSince(row, q)' <=> ChangedSince(row, q)
                      /\ Place(row, q)' = Place(row, q)
  BY <1>1, <1>5, SameList
<1>8. HasOlder' /\ HasRead'
  BY <1>1, <1>4, <1>5, <1>7 DEF PollInv, HasOlder, HasRead
<1>9. QED BY <1>6, <1>8 DEF PollInv

LEMMA BeginPollStep == ASSUME PollInv, BeginPoll PROVE PollInv'
<1> DEFINE k == [on |-> TRUE, began |-> now, offset |-> 0]
<1>1. /\ now' = now /\ saver' = saver /\ row' = row /\ polled' = polled
      /\ mirror' = mirror /\ missed' = missed /\ poll' = k
  BY DEF BeginPoll
<1>2. k \in PollRows /\ k.offset = 0
  BY DEF PollInv, SyncTypes, PollRows, Figures
<1>3. poll' \in PollRows /\ poll'.offset = 0
  BY <1>1, <1>2
<1>4. SyncTypes' /\ SavesInTime' /\ HasOlder'
  BY <1>1, <1>3 DEF PollInv, SyncTypes, SavesInTime, HasOlder, NoSave
<1>5. \A r \in Rows : Place(row, r)' = Place(row, r) /\ Place(row, r) \in Nat
  BY <1>1, SameList, PlaceFinite
<1>6. HasRead'
  BY <1>3, <1>5 DEF HasRead
<1>7. QED BY <1>4, <1>6 DEF PollInv

LEMMA CommitStep == ASSUME PollInv, NEW s \in Savers, Commit(s) PROVE PollInv'
<1> DEFINE k == [at |-> saver[s].at, version |-> row[saver[s].of].version + 1]
           later == [row EXCEPT ![saver[s].of] = k]
           behind == poll.on /\ saver[s].at < poll.began /\ Place(later, saver[s].of) < poll.offset
           pulls == poll.on /\ ChangedSince(row, saver[s].of) /\ Place(row, saver[s].of) < poll.offset
                      /\ Place(later, saver[s].of) >= poll.offset
           pulled == {q \in Rows : ChangedSince(row, q) /\ Place(row, q) = poll.offset}
<1>1. SyncTypes /\ SavesInTime /\ HasOlder /\ HasRead
  BY DEF PollInv
<1>2. /\ saver[s] # NoSave /\ row' = later /\ saver' = [saver EXCEPT ![s] = NoSave]
      /\ missed' = missed \cup (IF saver[s].at < polled \/ behind THEN {saver[s].of} ELSE {})
                          \cup (IF pulls THEN pulled ELSE {})
      /\ now' = now /\ poll' = poll /\ polled' = polled /\ mirror' = mirror
  BY <1>1 DEF Commit, SyncTypes, RecordStates
<1>3. PICK r \in Rows : r = saver[s].of
  BY <1>1, <1>2 DEF SavesInTime
<1>4. /\ k.at = saver[s].at /\ saver[s].at \in Nat /\ saver[s].at <= now /\ row[r].at <= saver[s].at
      /\ k \in RecordRows
  <2>1. saver[s].at \in Nat /\ row[r].version \in Nat
    BY <1>1, <1>3 DEF SyncTypes, SaveRows, RecordStates, RecordRows, Figures
  <2>2. saver[s].at <= now /\ row[r].at <= saver[s].at
    BY <1>1, <1>2, <1>3 DEF SavesInTime
  <2>3. QED BY <1>3, <2>1, <2>2 DEF RecordRows, Figures
<1> HIDE DEF k
<1>5. /\ later \in RecordStates /\ later[r] = k /\ \A q \in Rows \ {r} : later[q] = row[q]
  BY <1>1, <1>3, <1>4 DEF SyncTypes, RecordStates
<1> HIDE DEF later
<1>6. /\ saver' \in [Savers -> SaveRows] /\ saver'[s] = NoSave
      /\ \A t \in Savers \ {s} : saver'[t] = saver[t]
  BY <1>1, <1>2 DEF SyncTypes, NoSave, SaveRows, Figures
<1>7. SyncTypes'
  BY <1>1, <1>2, <1>5, <1>6 DEF SyncTypes
<1>8. SavesInTime'
  <2>1. \A q \in Rows : row'[q].at <= now'
    BY <1>1, <1>2, <1>4, <1>5 DEF SavesInTime
  <2>2. ASSUME NEW t \in Savers, saver'[t] # NoSave
        PROVE  /\ saver'[t].of \in Rows /\ saver'[t].at <= now'
               /\ row'[saver'[t].of].at <= saver'[t].at
               /\ \A u \in Savers : saver'[u].of = saver'[t].of => u = t
    <3>1. t # s /\ saver'[t] = saver[t]
      BY <1>6, <2>2
    <3>2. /\ saver[t].of \in Rows /\ saver[t].at <= now
          /\ row[saver[t].of].at <= saver[t].at
          /\ \A u \in Savers : saver[u].of = saver[t].of => u = t
      BY <1>1, <2>2, <3>1 DEF SavesInTime
    <3>3. saver[t].of # r
      BY <1>3, <3>1, <3>2
    <3>4. row'[saver[t].of] = row[saver[t].of]
      BY <1>2, <1>5, <3>2, <3>3
    <3>5. 0 \notin Rows
      BY ApiSyncAssumption
    <3>6. \A u \in Savers : saver'[u].of = saver'[t].of => u = t
      BY <1>6, <3>1, <3>2, <3>5 DEF NoSave
    <3>7. QED BY <1>2, <3>1, <3>2, <3>4, <3>6
  <2>3. QED BY <2>1, <2>2 DEF SavesInTime, NoSave
<1>9. /\ missed \subseteq missed' /\ (saver[s].at < polled \/ behind => r \in missed')
      /\ (pulls => pulled \subseteq missed')
  BY <1>2, <1>3
<1>10. \A q \in Rows \ {r} : row'[q] = row[q]
  BY <1>2, <1>5
<1>11. row'[r].at = saver[s].at
  BY <1>2, <1>4, <1>5
<1>12. HasOlder'
  <2>1. ASSUME NEW q \in Rows \ missed', row'[q].at < polled PROVE mirror[q] = row'[q].version
    <3>1. q # r
      BY <1>9, <1>11, <2>1
    <3>2. QED BY <1>1, <1>9, <1>10, <2>1, <3>1 DEF HasOlder
  <2>2. QED BY <1>2, <2>1 DEF HasOlder
<1>13. \A q \in Rows : /\ ChangedSince(row, q)' <=> ChangedSince(later, q)
                       /\ Place(row, q)' = Place(later, q)
  <2>1. \A p, q \in Rows : /\ ChangedSince(row, q)' <=> ChangedSince(later, q)
                           /\ SortsBefore(row, p, q)' <=> SortsBefore(later, p, q)
    BY <1>2 DEF ChangedSince, SortsBefore
  <2>2. ASSUME NEW q \in Rows PROVE Place(row, q)' = Place(later, q)
    <3>1. {p \in Rows : ChangedSince(row, p)' /\ SortsBefore(row, p, q)'}
            = {p \in Rows : ChangedSince(later, p) /\ SortsBefore(later, p, q)}
      BY <2>1
    <3>2. QED BY <3>1 DEF Place
  <2>3. QED BY <2>1, <2>2
<1>14. HasRead'
  <2>1. ASSUME poll.on, NEW q \in Rows \ missed', ChangedSince(later, q),
               Place(later, q) < poll.offset, row'[q].at < poll.began
        PROVE  mirror[q] = row'[q].version
    <3>1. q # r
      <4>1. ASSUME q = r PROVE FALSE
        <5>1. behind
          BY <1>3, <1>11, <2>1, <4>1
        <5>2. QED BY <1>9, <2>1, <4>1, <5>1
      <4>2. QED BY <4>1
    <3>2. q \notin missed /\ row'[q] = row[q] /\ ChangedSince(row, q)
      BY <1>5, <1>9, <1>10, <2>1, <3>1 DEF ChangedSince
    <3>3. CASE Place(row, q) < poll.offset
      BY <1>1, <2>1, <3>2, <3>3 DEF HasRead
    <3>4. CASE ~(Place(row, q) < poll.offset)
      <4>1. polled \in Nat /\ row \in RecordStates /\ poll.offset \in Nat
        BY <1>1 DEF SyncTypes, PollRows, Figures
      <4>2. /\ \A d \in Rows \ {r} : later[d].at = row[d].at
            /\ row[r].at <= later[r].at
        BY <1>4, <1>5
      <4>3. /\ Place(row, q) = poll.offset
            /\ ChangedSince(row, r) /\ Place(row, r) < poll.offset /\ Place(later, r) >= poll.offset
        BY <1>5, <2>1, <3>1, <3>4, <4>1, <4>2, OnePulled
      <4>4. pulls /\ q \in pulled
        BY <1>3, <2>1, <3>2, <4>3
      <4>5. QED BY <1>9, <2>1, <4>4
    <3>5. QED BY <3>3, <3>4
  <2>2. QED BY <1>2, <1>13, <2>1 DEF HasRead
<1>15. QED BY <1>7, <1>8, <1>12, <1>14 DEF PollInv

LEMMA ReadPageStep == ASSUME PollInv, ReadPage PROVE PollInv'
<1> DEFINE listed == {r \in Rows : ChangedSince(row, r)}
           end == poll.offset + PageSize
           sheet == {r \in listed : poll.offset <= Place(row, r) /\ Place(row, r) < end}
           further == Cardinality(listed) > end
           next == [poll EXCEPT !.offset = end]
<1>1. SyncTypes /\ SavesInTime /\ HasOlder /\ HasRead
  BY DEF PollInv
<1>2. /\ poll.on /\ mirror' = [r \in Rows |-> IF r \in sheet THEN row[r].version ELSE mirror[r]]
      /\ missed' = missed \ sheet /\ poll' = (IF further THEN next ELSE NoPoll)
      /\ polled' = (IF further THEN polled ELSE poll.began)
      /\ now' = now /\ row' = row /\ saver' = saver
  BY DEF ReadPage, Shown
<1>3. poll \in PollRows /\ poll.offset \in Nat /\ poll.began \in Nat /\ end \in Nat
  BY <1>1, ApiSyncAssumption DEF SyncTypes, PollRows, Figures
<1>4. next \in PollRows /\ next.began = poll.began /\ next.offset = end
  BY <1>3 DEF PollRows, Figures
<1>5. NoPoll \in PollRows /\ ~NoPoll.on
  BY DEF NoPoll, PollRows, Figures
<1> HIDE DEF next
<1>6. \A r \in Rows : row[r] \in RecordRows /\ row[r].version \in Figures /\ mirror[r] \in Figures
  BY <1>1 DEF SyncTypes, RecordStates, RecordRows
<1>7. /\ mirror' \in [Rows -> Figures]
      /\ \A r \in sheet : mirror'[r] = row[r].version
      /\ \A r \in Rows \ sheet : mirror'[r] = mirror[r]
  BY <1>2, <1>6
<1>8. \A r \in Rows : Place(row, r) \in Nat
  BY PlaceFinite
<1>9. \A r \in listed : Place(row, r) < end => r \in sheet \/ Place(row, r) < poll.offset
  BY <1>3, <1>8
<1>10. \A r \in listed : Place(row, r) < Cardinality(listed) /\ Cardinality(listed) \in Nat
  BY <1>1, PlacesInOrder DEF SyncTypes
<1>11. \A r \in Rows \ listed : row[r].at < polled
  BY <1>1, <1>6 DEF SyncTypes, ChangedSince, RecordRows, Figures
<1>12. sheet \subseteq listed /\ listed \subseteq Rows
  OBVIOUS
<1>13. \A r \in listed : r \in Rows /\ ChangedSince(row, r)
  OBVIOUS
<1>14. \A r \in listed : ~(row[r].at < polled)
  BY <1>1, <1>6 DEF SyncTypes, ChangedSince, RecordRows, Figures
<1> HIDE DEF sheet, listed
<1>15. SyncTypes'
  BY <1>1, <1>2, <1>3, <1>4, <1>5, <1>7 DEF SyncTypes
<1>16. SavesInTime'
  BY <1>1, <1>2 DEF SavesInTime, NoSave
\* A record that lies before the page's end is in the page, or was read before.
<1>17. ASSUME NEW r \in listed \ missed', Place(row, r) < end, row[r].at < poll.began
       PROVE  mirror'[r] = row[r].version
  <2>1. CASE r \in sheet
    BY <1>7, <2>1
  <2>2. CASE r \notin sheet
    <3>1. Place(row, r) < poll.offset /\ r \notin missed /\ mirror'[r] = mirror[r]
      BY <1>2, <1>7, <1>9, <1>12, <1>17, <2>2
    <3>2. QED BY <1>1, <1>2, <1>13, <1>17, <3>1 DEF HasRead
  <2>3. QED BY <2>1, <2>2
<1>18. ASSUME NEW r \in Rows \ missed', row[r].at < polled PROVE mirror'[r] = row[r].version
  <2>1. r \notin sheet
    BY <1>12, <1>14, <1>18
  <2>2. r \notin missed /\ mirror'[r] = mirror[r]
    BY <1>2, <1>7, <1>18, <2>1
  <2>3. QED BY <1>1, <1>18, <2>2 DEF HasOlder
<1>19. CASE further
  <2>1. polled' = polled /\ poll' = next
    BY <1>2, <1>19
  <2>2. HasOlder'
    BY <1>2, <1>18, <2>1 DEF HasOlder
  <2>3. \A r \in Rows : /\ ChangedSince(row, r)' <=> ChangedSince(row, r)
                        /\ Place(row, r)' = Place(row, r)
    BY <1>2, <2>1, SameList
  <2>4. HasRead'
    <3>1. ASSUME NEW r \in Rows \ missed', ChangedSince(row, r), Place(row, r) < end,
                 row[r].at < poll.began
          PROVE  mirror'[r] = row[r].version
      BY <1>17, <3>1 DEF listed
    <3>2. QED BY <1>2, <1>4, <2>1, <2>3, <3>1 DEF HasRead
  <2>5. QED BY <1>15, <1>16, <2>2, <2>4 DEF PollInv
<1>20. CASE ~further
  <2>1. polled' = poll.began /\ poll' = NoPoll
    BY <1>2, <1>20
  <2>2. ASSUME NEW r \in Rows \ missed', row[r].at < poll.began PROVE mirror'[r] = row[r].version
    <3>1. CASE r \in listed
      <4>1. Place(row, r) < end
        BY <1>3, <1>8, <1>10, <1>20, <3>1
      <4>2. QED BY <1>17, <2>2, <3>1, <4>1
    <3>2. CASE r \notin listed
      BY <1>11, <1>18, <2>2, <3>2
    <3>3. QED BY <3>1, <3>2
  <2>3. HasOlder'
    BY <1>2, <2>1, <2>2 DEF HasOlder
  <2>4. HasRead'
    BY <1>5, <2>1 DEF HasRead
  <2>5. QED BY <1>15, <1>16, <2>3, <2>4 DEF PollInv
<1>21. QED BY <1>19, <1>20

----------------------------------------------------------------------------
\* Posting.  Until a communication is sent again beside itself, the request that found none
\* is the only one, and none is stored.

PostSteps == {"new", "not_found", "made", "answered"}

PostInv ==
    /\ poster \in [Posters -> PostSteps] /\ posted \in Nat /\ resent \in BOOLEAN
    /\ ~resent =>
          /\ posted <= 1
          /\ \A p \in Posters : poster[p] = "not_found" =>
                posted = 0 /\ \A q \in Posters : poster[q] = "not_found" => q = p

LEMMA PostInvInit == SyncInit => PostInv
<1> SUFFICES ASSUME SyncInit PROVE PostInv
  OBVIOUS
<1>1. /\ poster = [p \in Posters |-> "new"] /\ posted = 0 /\ resent = FALSE
  BY DEF SyncInit
<1>2. poster \in [Posters -> PostSteps] /\ \A p \in Posters : poster[p] = "new"
  BY <1>1 DEF PostSteps
<1>3. posted \in Nat /\ posted <= 1
  BY <1>1
<1>4. resent \in BOOLEAN
  BY <1>1
<1>5. \A p \in Posters : poster[p] # "not_found"
  BY <1>2
<1>6. QED BY <1>2, <1>3, <1>4, <1>5 DEF PostInv

LEMMA FindPostedStep == ASSUME PostInv, NEW p \in Posters, FindPosted(p) PROVE PostInv'
<1> DEFINE to == IF posted > 0 THEN "answered" ELSE "not_found"
<1>1. /\ poster' = [poster EXCEPT ![p] = to] /\ posted' = posted
      /\ resent' = (resent \/ \E q \in Posters : poster[q] = "not_found")
  BY DEF FindPosted
<1>2. to \in {"answered", "not_found"} /\ (to = "not_found" => ~(posted > 0))
  OBVIOUS
<1> HIDE DEF to
<1>3. /\ poster' \in [Posters -> PostSteps] /\ poster'[p] = to
      /\ \A q \in Posters \ {p} : poster'[q] = poster[q]
  BY <1>1, <1>2 DEF PostInv, PostSteps
<1>4. posted \in Nat /\ resent' \in BOOLEAN
  BY <1>1 DEF PostInv
<1>5. ASSUME ~resent'
      PROVE  /\ posted <= 1
             /\ \A q \in Posters : poster'[q] = "not_found" =>
                   posted = 0 /\ \A u \in Posters : poster'[u] = "not_found" => u = q
  <2>1. ~resent /\ \A q \in Posters : poster[q] # "not_found"
    BY <1>1, <1>5
  <2>2. \A q \in Posters : poster'[q] = "not_found" => q = p
    BY <1>3, <2>1
  <2>3. poster'[p] = "not_found" => posted = 0
    BY <1>2, <1>3, <1>4
  <2>4. QED BY <2>1, <2>2, <2>3 DEF PostInv
<1>6. QED BY <1>1, <1>3, <1>4, <1>5 DEF PostInv

LEMMA PostInvStep == PostInv /\ [SyncNext]_syncVars => PostInv'
<1> SUFFICES ASSUME PostInv, [SyncNext]_syncVars PROVE PostInv'
  OBVIOUS
<1>1. CASE PollNext \/ UNCHANGED syncVars
  <2>1. UNCHANGED postVars
    BY <1>1 DEF PollNext, Tick, BeginPoll, ReadPage, Commit, Save, ChangeNested, syncVars, postVars
  <2>2. QED BY <2>1 DEF postVars, PostInv
<1>2. ASSUME NEW p \in Posters, FindPosted(p) PROVE PostInv'
  BY <1>2, FindPostedStep
<1>3. ASSUME NEW p \in Posters, Make(p) PROVE PostInv'
  <2>1. /\ poster[p] = "not_found" /\ posted' = posted + 1 /\ resent' = resent
        /\ poster' = [poster EXCEPT ![p] = "made"]
    BY <1>3 DEF Make, rowVars
  <2>2. /\ poster' \in [Posters -> PostSteps] /\ poster'[p] = "made"
        /\ \A q \in Posters \ {p} : poster'[q] = poster[q]
    BY <2>1 DEF PostInv, PostSteps
  <2>3. posted' \in Nat /\ resent' \in BOOLEAN
    BY <2>1 DEF PostInv
  <2>4. ASSUME ~resent' PROVE posted' = 1 /\ \A q \in Posters : poster'[q] # "not_found"
    <3>1. posted = 0 /\ \A q \in Posters : poster[q] = "not_found" => q = p
      BY <2>1, <2>4 DEF PostInv
    <3>2. QED BY <2>1, <2>2, <3>1
  <2>5. QED BY <2>2, <2>3, <2>4 DEF PostInv
<1>4. ASSUME NEW p \in Posters, PostFails(p) PROVE PostInv'
  <2>1. /\ posted' = posted /\ resent' = resent /\ poster' = [poster EXCEPT ![p] = "new"]
    BY <1>4 DEF PostFails, rowVars
  <2>2. /\ poster' \in [Posters -> PostSteps] /\ poster'[p] = "new"
        /\ \A q \in Posters \ {p} : poster'[q] = poster[q]
    BY <2>1 DEF PostInv, PostSteps
  <2>3. QED BY <2>1, <2>2 DEF PostInv
<1>5. QED BY <1>1, <1>2, <1>3, <1>4 DEF SyncNext, PostNext

LEMMA PollInvStep == PollInv /\ [SyncNext]_syncVars => PollInv'
<1> SUFFICES ASSUME PollInv, [SyncNext]_syncVars PROVE PollInv'
  OBVIOUS
<1>1. CASE PostNext \/ UNCHANGED syncVars
  <2>1. UNCHANGED rowVars
    BY <1>1 DEF PostNext, FindPosted, Make, PostFails, syncVars, rowVars
  <2>2. /\ now' = now /\ row' = row /\ saver' = saver /\ poll' = poll /\ polled' = polled
        /\ mirror' = mirror /\ missed' = missed
    BY <2>1 DEF rowVars
  <2>3. QED BY <2>2 DEF PollInv, SyncTypes, SavesInTime, HasOlder, HasRead, NoSave, Place,
                        ChangedSince, SortsBefore
<1>2. CASE Tick \/ BeginPoll \/ ReadPage
  BY <1>2, TickStep, BeginPollStep, ReadPageStep
<1>3. ASSUME NEW s \in Savers, Commit(s) PROVE PollInv'
  BY <1>3, CommitStep
<1>4. ASSUME NEW s \in Savers, NEW r \in Rows, Save(s, r) PROVE PollInv'
  BY <1>4, SaveBegins
<1>5. ASSUME NEW r \in Rows, ChangeNested(r) PROVE PollInv'
  BY <1>5, ChangeNestedStep
<1>6. QED BY <1>1, <1>2, <1>3, <1>4, <1>5 DEF SyncNext, PollNext

\* In every behaviour of the API's two-way copy, for any list, page size and number of
\* transactions: between polls the other system has every record that was saved before the
\* last poll began, those excepted that the model names; and a communication is stored once
\* however often it is posted, unless it was sent again while it was being stored.
THEOREM StaysInStep == SyncSpec => []InStepBothWays
<1>1. PollInv /\ PostInv => InStepBothWays
  BY DEF PollInv, HasOlder, PostInv, InStepBothWays, InStep, PostedOnce
<1>2. QED BY <1>1, PollInvInit, PollInvStep, PostInvInit, PostInvStep, PTL DEF SyncSpec

=============================================================================
