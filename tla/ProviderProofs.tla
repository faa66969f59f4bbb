--------------------------- MODULE ProviderProofs ----------------------------
(***************************************************************************)
(* What holds of what the CRM keeps at providers, for every value of the   *)
(* constants: an appointment's video meeting (Meetings), the copies of     *)
(* documents (DocumentStorage) and an appointment on the calendars         *)
(* (Calendars); last, what the composition MCConnect keeps of what is      *)
(* outside the CRM, from these and from ConnectProofs.                     *)
(***************************************************************************)
EXTENDS TLAPS, ConnectProofs, FiniteSetTheorems, SequenceTheorems

----------------------------------------------------------------------------
\* Meetings.  As long as there was no mishap one push at most is in hand, and what it has
\* made, linked or dropped so far is all that the refs and the providers differ by.

MeetingOf(r) == [id |-> r.id, of |-> r.of, at |-> r.print]
MeetingsOf(S) == {MeetingOf(r) : r \in S}

Pushes == [step : {"idle", "begun", "made", "linked"}, item : Items,
           ref : SUBSET Refs, drop : SUBSET Refs, got : 0..MaxMeetings]

\* No ref that t knows of is of a meeting made later than the first n, and one that t made
\* was to be made.
WithinMade(t, n) ==
    /\ t.got <= n
    /\ t.step = "made" => Wanted(t.item) /\ t.got # 0
    /\ \A r \in t.ref \cup t.drop : r.id <= n

\* What is linked, or waits to be removed, was made; and nothing waits while there is an
\* appointment, since another comes only if no meeting was made for the first.
MadeBefore ==
    /\ \A r \in refs : r.id <= made
    /\ \A id \in removals : id <= made
    /\ \A p \in Pushers : WithinMade(push[p], made)
    /\ item.there => removals = {}

OneRef == \A r, s \in refs : r = s
OnePush == \A p, q \in Busy : p = q

SameTime(i, j) == i.who = j.who /\ i.at = j.at /\ i.done = j.done

\* The meeting t has made, and its ref.
Arranged(t) == [id |-> t.got, of |-> t.item.who, at |-> t.item.at]
Linking(t) == [of |-> t.item.who, id |-> t.got, print |-> t.item.at]

\* How far t has come.
PushKnows(t) ==
    /\ t.step = "begun" =>
          /\ refs = t.ref \cup t.drop /\ t.ref \cap t.drop = {} /\ held = MeetingsOf(refs)
          /\ \A r \in t.ref : Wanted(t.item) /\ r.of = t.item.who
    /\ t.step = "made" => refs = t.ref
    /\ t.step = "linked" => refs = {Linking(t)}
    /\ t.step \in {"made", "linked"} => Wanted(t.item) /\ held = {Arranged(t)}

PushInStep ==
    \A p \in Busy : item.there /\ PushKnows(push[p]) /\ (queued \/ SameTime(item, push[p].item))

NothingInHand ==
    Busy = {} =>
        /\ item.there => held = MeetingsOf(refs)
        /\ item.there /\ ~queued => \A r \in refs : /\ Wanted(item) /\ r.of = item.who
                                                    /\ item.done \/ r.print = item.at
        /\ ~item.there => refs = {} /\ {m.id : m \in held} = removals

MeetInv ==
    /\ MeetTypeOK /\ MadeBefore
    /\ ~mishap => OneRef /\ OnePush /\ PushInStep /\ NothingInHand

LEMMA MeetShapes == ASSUME MeetInv
    PROVE /\ item \in Items /\ refs \subseteq Refs /\ made \in 0..MaxMeetings /\ made \in Nat
          /\ held \subseteq [id : Ids, of : Hosts, at : Times] /\ removals \subseteq Ids
          /\ queued \in BOOLEAN /\ mishap \in BOOLEAN /\ form \in [open : BOOLEAN, url : Urls]
          /\ push \in [Pushers -> Pushes] /\ MaxMeetings \in Nat
          /\ \A p \in Pushers : push[p] \in Pushes /\ push[p].item \in Items
          /\ \A id \in Ids : id \in Nat
  BY MeetingsAssumption DEF MeetInv, MeetTypeOK, Pushes, Ids

LEMMA MeetTypesNext ==
    ASSUME item' \in Items, form' \in [open : BOOLEAN, url : Urls], refs' \subseteq Refs,
           held' \subseteq [id : Ids, of : Hosts, at : Times], made' \in 0..MaxMeetings,
           queued' \in BOOLEAN, mishap' \in BOOLEAN, removals' \subseteq Ids,
           push' \in [Pushers -> Pushes]
    PROVE  MeetTypeOK'
  BY DEF MeetTypeOK, Pushes

LEMMA NoItemIsItem == NoItem \in Items /\ ~NoItem.there /\ NoForm \in [open : BOOLEAN, url : Urls]
  BY DEF NoItem, NoForm, Items, Urls

LEMMA NoPushIsPush == ASSUME MeetInv PROVE NoPush \in Pushes /\ NoPush.step = "idle" /\ NoPush.ref = {} /\ NoPush.drop = {}
<1>1. NoItem \in Items /\ 0 \in 0..MaxMeetings
  BY NoItemIsItem, MeetShapes
<1>2. QED BY <1>1 DEF NoPush, Pushes

\* The push of p is t now, and the others are what they were.
PushIs(p, t) ==
    push' \in [Pushers -> Pushes] /\ push'[p] = t /\ \A q \in Pushers \ {p} : push'[q] = push[q]

\* A push that goes on keeps the order, if what it knows is right again.
LEMMA PushGoesOn ==
    ASSUME MeetInv, NEW p \in Busy, NEW t \in Pushes, t.step # "idle", PushIs(p, t),
           ~mishap' => /\ ~mishap /\ item'.there /\ PushKnows(t)' /\ OneRef'
                       /\ queued' \/ SameTime(item', t.item)
    PROVE  ~mishap' => OneRef' /\ OnePush' /\ PushInStep' /\ NothingInHand'
<1>1. p \in Pushers /\ push[p].step # "idle"
  BY DEF Busy
<1>2. push' \in [Pushers -> Pushes] /\ push'[p] = t /\ \A q \in Pushers \ {p} : push'[q] = push[q]
  BY DEF PushIs
<1>3. Busy' = Busy
  BY <1>1, <1>2 DEF Busy
<1>4. ASSUME ~mishap' PROVE OneRef' /\ OnePush' /\ PushInStep' /\ NothingInHand'
  <2>1. \A q \in Busy : q = p
    BY <1>4 DEF MeetInv, OnePush
  <2>2. OnePush' /\ NothingInHand'
    BY <1>3, <2>1 DEF OnePush, NothingInHand
  <2>3. PushKnows(push[p])' /\ (queued' \/ SameTime(item', push'[p].item))
    BY <1>2, <1>4
  <2>4. PushInStep'
    BY <1>3, <1>4, <2>1, <2>3 DEF PushInStep, SameTime
  <2>5. QED BY <1>4, <2>2, <2>4
<1>5. QED BY <1>4

\* The push of p is over.
LEMMA PushIsOver ==
    ASSUME MeetInv, NEW p \in Busy, push' = [push EXCEPT ![p] = NoPush], ~mishap' => ~mishap
    PROVE  /\ push' \in [Pushers -> Pushes] /\ push'[p] = NoPush /\ \A q \in Pushers \ {p} : push'[q] = push[q]
           /\ ~mishap' => Busy' = {} /\ OnePush' /\ PushInStep'
<1>1. p \in Pushers
  BY DEF Busy
<1>2. push' \in [Pushers -> Pushes] /\ push'[p] = NoPush /\ \A q \in Pushers \ {p} : push'[q] = push[q]
  BY <1>1, MeetShapes, NoPushIsPush
<1>3. ~mishap' => \A q \in Busy : q = p
  BY DEF MeetInv, OnePush
<1>4. ~mishap' => Busy' = {}
  BY <1>2, <1>3, NoPushIsPush DEF Busy
<1>5. QED BY <1>2, <1>4 DEF OnePush, PushInStep

LEMMA MadeKnown ==
    ASSUME MeetInv
    PROVE  /\ \A r \in refs : r.id \in Nat /\ r.id <= made
           /\ \A id \in removals : id \in Nat /\ id <= made
           /\ \A p \in Pushers : WithinMade(push[p], made) /\ push[p].got \in Nat
           /\ item.there => removals = {}
<1>1. MadeBefore
  BY DEF MeetInv
<1>2. \A r \in refs : r.id \in Nat
  BY MeetShapes DEF Refs
<1>3. \A p \in Pushers : push[p].got \in Nat
  BY MeetShapes DEF Pushes
<1>4. QED BY <1>1, <1>2, <1>3, MeetShapes DEF MadeBefore

LEMMA StillWithin ==
    ASSUME NEW t \in Pushes, NEW m \in Nat, NEW n \in Nat, m <= n, WithinMade(t, m), MaxMeetings \in Nat
    PROVE  WithinMade(t, n)
<1>1. t.got \in Nat /\ t.ref \subseteq Refs /\ t.drop \subseteq Refs
  BY DEF Pushes
<1>2. \A r \in t.ref \cup t.drop : r.id \in Nat
  BY <1>1 DEF Refs, Ids
<1>3. t.got <= n
  BY <1>1 DEF WithinMade
<1>4. \A r \in t.ref \cup t.drop : r.id <= n
  BY <1>2 DEF WithinMade
<1>5. QED BY <1>3, <1>4 DEF WithinMade

\* What is linked and handed over stays made before, as long as no more is added.
LEMMA MadeStill ==
    ASSUME MeetInv, made' \in Nat, made <= made', refs' \subseteq refs, removals' \subseteq removals,
           item'.there => item.there,
           \A p \in Pushers : WithinMade(push'[p], made')
    PROVE  MadeBefore'
<1>1. made \in Nat
  BY MeetShapes
<1>2. (\A r \in refs' : r.id <= made') /\ (\A id \in removals' : id <= made')
  BY <1>1, MadeKnown
<1>3. item'.there => removals' = {}
  BY MadeKnown
<1>4. \A p \in Pushers : WithinMade(push[p], made)'
  BY DEF WithinMade, Wanted
<1>5. QED BY <1>2, <1>3, <1>4 DEF MadeBefore

LEMMA PushDoneMadeStill ==
    ASSUME MeetInv, NEW p \in Pushers, push'[p] = NoPush, \A q \in Pushers \ {p} : push'[q] = push[q],
           made' = made, refs' = refs, removals' = removals, item'.there => item.there
    PROVE  MadeBefore'
<1>1. NoPush.ref = {} /\ NoPush.drop = {} /\ NoPush.step = "idle" /\ NoPush.got = 0 /\ made \in Nat
  BY NoPushIsPush, MeetShapes DEF NoPush
<1>2. WithinMade(NoPush, made)
  BY <1>1 DEF WithinMade
<1>3. \A q \in Pushers : WithinMade(push'[q], made')
  BY <1>2, MadeKnown
<1>4. QED BY <1>1, <1>3, MadeStill

\* A save of an appointment queues a push for what it may change.
LEMMA SavedStep ==
    ASSUME MeetInv, NEW i \in Items, i.there, item.there \/ (item = NoItem /\ made = 0 /\ Busy = {}), Saved(i),
           form' \in [open : BOOLEAN, url : Urls]
    PROVE  MeetInv'
<1>1. /\ item' = i /\ queued' = (queued \/ PushOnSave(i)) /\ mishap' = (mishap \/ (Busy # {} /\ ~PushOnSave(i)))
      /\ UNCHANGED <<refs, held, made, removals, push>>
  BY DEF Saved
<1>2. Busy' = Busy
  BY <1>1 DEF Busy
<1>3. queued' \in BOOLEAN /\ mishap' \in BOOLEAN
  BY <1>1, MeetShapes
<1>4. MeetTypeOK'
  BY <1>1, <1>3, MeetShapes, MeetTypesNext
<1>5. item.there \/ (removals = {} /\ held = {} /\ refs = {}) \/ (removals = {} /\ mishap)
  <2>1. ~item.there => removals = {}
    <3>1. \A id \in removals : id \in 1..MaxMeetings /\ id <= made
      BY MeetShapes, MadeKnown DEF Ids
    <3>2. ASSUME ~item.there PROVE removals = {}
      BY <3>1, <3>2, MeetShapes
    <3>3. QED BY <3>2
  <2>2. ~item.there /\ ~mishap => refs = {} /\ {m.id : m \in held} = removals
    BY DEF MeetInv, NothingInHand
  <2>3. QED BY <2>1, <2>2
<1>6. MadeBefore'
  BY <1>1, <1>5 DEF MeetInv, MadeBefore
<1>7. ASSUME ~mishap' PROVE OneRef' /\ OnePush' /\ PushInStep' /\ NothingInHand'
  <2>1. ~mishap /\ (Busy # {} => queued')
    BY <1>1, <1>7
  <2>2. OneRef' /\ OnePush'
    BY <1>1, <1>2, <2>1 DEF MeetInv, OneRef, OnePush
  <2>3. \A p \in Busy : PushKnows(push[p])'
    BY <1>1, <2>1 DEF MeetInv, PushInStep, PushKnows, Wanted, Linking, Arranged
  <2>4. PushInStep'
    BY <1>1, <1>2, <2>1, <2>3 DEF PushInStep
  <2>5. ASSUME Busy = {}
        PROVE  held = MeetingsOf(refs) /\ (queued' \/ \A r \in refs : Wanted(i) /\ r.of = i.who /\ (i.done \/ r.print = i.at))
    <3>1. refs # {} => queued'
      BY <1>1 DEF PushOnSave
    <3>2. held = MeetingsOf(refs)
      BY <1>5, <2>1, <2>5 DEF MeetInv, NothingInHand, MeetingsOf
    <3>3. QED BY <3>1, <3>2
  <2>6. NothingInHand'
    BY <1>1, <1>2, <2>5 DEF NothingInHand, MeetingsOf
  <2>7. QED BY <2>2, <2>4, <2>6
<1>8. QED BY <1>4, <1>6, <1>7 DEF MeetInv

LEMMA CreateStep ==
    ASSUME MeetInv, NEW who \in Hosts \cup {"none"}, NEW at \in Times \cup {"none"}, Create(who, at) PROVE MeetInv'
<1> DEFINE new == [NoItem EXCEPT !.there = TRUE, !.who = who, !.at = at]
<1>1. item = NoItem /\ made = 0 /\ Busy = {} /\ Saved(new) /\ form' = NoForm
  BY DEF Create
<1>2. new \in Items /\ new.there
  BY NoItemIsItem DEF NoItem, Items
<1> HIDE DEF new
<1>3. QED BY <1>1, <1>2, SavedStep, NoItemIsItem

LEMMA SaveFormStep ==
    ASSUME MeetInv, NEW who \in Hosts \cup {"none"}, NEW at \in Times \cup {"none"}, NEW url \in Urls,
           SaveForm(who, at, url)
    PROVE  MeetInv'
<1> DEFINE new == [item EXCEPT !.who = who, !.at = at, !.url = url]
<1>1. item.there /\ Saved(new) /\ form' = NoForm
  BY DEF SaveForm
<1>2. new \in Items /\ new.there
  BY <1>1, MeetShapes DEF Items
<1> HIDE DEF new
<1>3. QED BY <1>1, <1>2, SavedStep, NoItemIsItem

LEMMA ToggleStep == ASSUME MeetInv, Toggle PROVE MeetInv'
<1> DEFINE new == [item EXCEPT !.done = ~@]
<1>1. item.there /\ Saved(new) /\ form' = form
  BY DEF Toggle
<1>2. new \in Items /\ new.there
  BY <1>1, MeetShapes DEF Items
<1> HIDE DEF new
<1>3. QED BY <1>1, <1>2, SavedStep, MeetShapes

LEMMA OpenFormStep == ASSUME MeetInv, OpenForm PROVE MeetInv'
<1>1. /\ UNCHANGED <<item, refs, held, made, queued, removals, push, mishap>>
      /\ form' \in [open : BOOLEAN, url : Urls]
  BY MeetShapes DEF OpenForm, Items
<1>2. MeetTypeOK'
  BY <1>1, MeetShapes, MeetTypesNext
<1>3. QED BY <1>1, <1>2 DEF MeetInv, MadeBefore, OneRef, OnePush, PushInStep, NothingInHand, PushKnows, Busy,
                            MeetingsOf, Wanted, Arranged, Linking, SameTime

LEMMA DeleteStep == ASSUME MeetInv, Delete PROVE MeetInv'
<1>1. /\ item.there /\ item' = NoItem /\ removals' = removals \cup {r.id : r \in refs} /\ refs' = {}
      /\ form' = NoForm /\ mishap' = (mishap \/ Busy # {}) /\ UNCHANGED <<held, made, queued, push>>
  BY DEF Delete
<1>2. removals' \subseteq Ids /\ removals = {} /\ mishap' \in BOOLEAN
  BY <1>1, MeetShapes, MadeKnown DEF Refs
<1>3. MeetTypeOK'
  BY <1>1, <1>2, MeetShapes, MeetTypesNext, NoItemIsItem
<1>4. MadeBefore'
  BY <1>1, NoItemIsItem DEF MeetInv, MadeBefore
<1>5. ASSUME ~mishap' PROVE OneRef' /\ OnePush' /\ PushInStep' /\ NothingInHand'
  <2>1. ~mishap /\ Busy = {} /\ Busy' = {}
    BY <1>1, <1>5 DEF Busy
  <2>2. held = MeetingsOf(refs)
    BY <1>1, <2>1 DEF MeetInv, NothingInHand
  <2>3. {m.id : m \in held} = {r.id : r \in refs}
    <3>1. \A r \in refs : MeetingOf(r).id = r.id /\ MeetingOf(r) \in held
      BY <2>2 DEF MeetingsOf, MeetingOf
    <3>2. \A m \in held : \E r \in refs : m.id = r.id
      BY <2>2 DEF MeetingsOf, MeetingOf
    <3>3. QED BY <3>1, <3>2
  <2>4. QED BY <1>1, <1>2, <2>1, <2>3, NoItemIsItem DEF OneRef, OnePush, PushInStep, NothingInHand
<1>6. QED BY <1>3, <1>4, <1>5 DEF MeetInv

LEMMA BeginPushStep == ASSUME MeetInv, NEW p \in Pushers, BeginPush(p) PROVE MeetInv'
<1>1. /\ queued /\ queued' = FALSE /\ push[p] = NoPush /\ mishap' = (mishap \/ (item.there /\ Busy # {}))
      /\ UNCHANGED <<item, form, refs, held, made, removals>>
  BY DEF BeginPush
<1>2. CASE ~item.there
  <2>1. push' = push /\ mishap' = mishap /\ Busy' = Busy
    BY <1>1, <1>2, MeetShapes DEF BeginPush, Busy
  <2>2. MeetTypeOK'
    BY <1>1, <2>1, MeetShapes, MeetTypesNext
  <2>3. MadeBefore'
    BY <1>1, <2>1 DEF MeetInv, MadeBefore
  <2>4. ASSUME ~mishap' PROVE OneRef' /\ OnePush' /\ PushInStep' /\ NothingInHand'
    <3>1. Busy = {}
      BY <1>2, <2>1, <2>4 DEF MeetInv, PushInStep
    <3>2. QED BY <1>1, <1>2, <2>1, <2>4, <3>1 DEF MeetInv, OneRef, OnePush, PushInStep, NothingInHand
  <2>5. QED BY <2>2, <2>3, <2>4 DEF MeetInv
<1>3. CASE item.there
  <2> DEFINE own == {r \in refs : Wanted(item) /\ r.of = item.who}
  <2>1. PICK kept \in SUBSET own :
           /\ own # {} => kept # {}
           /\ push' = [push EXCEPT ![p] = [step |-> "begun", item |-> item, ref |-> kept, drop |-> refs \ kept, got |-> 0]]
    BY <1>3 DEF BeginPush
  <2> DEFINE begun == [step |-> "begun", item |-> item, ref |-> kept, drop |-> refs \ kept, got |-> 0]
  <2>2. kept \subseteq refs /\ \A r \in kept : Wanted(item) /\ r.of = item.who
    OBVIOUS
  <2> HIDE DEF own
  <2>3. 0 \in 0..MaxMeetings /\ kept \subseteq Refs /\ refs \subseteq Refs /\ item \in Items
    BY <2>2, MeetShapes
  <2>4. begun \in Pushes
    BY <2>3 DEF Pushes
  <2> PICK t \in Pushes : t = begun
    BY <2>4
  <2>5. t.step = "begun" /\ t.item = item /\ t.ref = kept /\ t.drop = refs \ kept /\ t.got = 0 /\ push' = [push EXCEPT ![p] = t]
    BY <2>1
  <2> HIDE DEF begun
  <2>6. push' \in [Pushers -> Pushes] /\ push'[p] = t /\ \A q \in Pushers \ {p} : push'[q] = push[q]
    BY <2>5, MeetShapes
  <2>7. MeetTypeOK'
    BY <1>1, <2>6, MeetShapes, MeetTypesNext
  <2>8. MadeBefore'
    <3>1. WithinMade(t, made)
      <4>1. t.got <= made
        BY <2>5, MeetShapes
      <4>2. \A r \in t.ref \cup t.drop : r.id <= made
        BY <2>2, <2>5, MadeKnown
      <4>3. QED BY <2>5, <4>1, <4>2 DEF WithinMade
    <3>2. \A q \in Pushers : WithinMade(push'[q], made')
      BY <1>1, <2>6, <3>1, MadeKnown
    <3>3. QED BY <1>1, <3>2, MadeStill, MeetShapes
  <2>9. ASSUME ~mishap' PROVE OneRef' /\ OnePush' /\ PushInStep' /\ NothingInHand'
    <3>1. ~mishap /\ Busy = {}
      BY <1>1, <1>3, <2>9
    <3>2. Busy' = {p}
      BY <2>5, <2>6, <3>1 DEF Busy
    <3>3. held = MeetingsOf(refs) /\ OneRef
      BY <1>3, <3>1 DEF MeetInv, NothingInHand
    <3>4. PushKnows(t)'
      <4>1. refs' = t.ref \cup t.drop /\ t.ref \cap t.drop = {} /\ held' = MeetingsOf(refs')
        BY <1>1, <2>2, <2>5, <3>3 DEF MeetingsOf
      <4>2. \A r \in t.ref : Wanted(t.item) /\ r.of = t.item.who
        BY <2>2, <2>5
      <4>3. QED BY <2>5, <4>1, <4>2 DEF PushKnows, MeetingsOf, Wanted
    <3>5. SameTime(item', t.item)
      BY <1>1, <2>5 DEF SameTime
    <3>6. PushKnows(push[p])' /\ SameTime(item', push'[p].item)
      BY <2>6, <3>4, <3>5
    <3>7. PushInStep'
      BY <1>1, <1>3, <3>2, <3>6 DEF PushInStep, SameTime
    <3>8. QED BY <1>1, <3>2, <3>3, <3>7 DEF OneRef, OnePush, NothingInHand
  <2>10. QED BY <2>7, <2>8, <2>9 DEF MeetInv
<1>4. QED BY <1>2, <1>3

LEMMA DropStaleStep ==
    ASSUME MeetInv, NEW p \in Pushers, NEW r \in Refs, NEW ok \in BOOLEAN, DropStale(p, r, ok) PROVE MeetInv'
<1>1. /\ push[p].step = "begun" /\ r \in push[p].drop /\ refs' = refs \ {r} /\ mishap' = (mishap \/ ~ok)
      /\ held' = IF ok THEN Without(r.id) ELSE held
      /\ item' = IF item.there THEN [item EXCEPT !.url = 0] ELSE item
      /\ UNCHANGED <<form, made, queued, removals>>
  BY DEF DropStale
<1>2. /\ item' \in Items /\ SameTime(item', item) /\ item'.there = item.there
  BY <1>1, MeetShapes DEF Items, Urls, SameTime
<1>3. /\ held' \subseteq held /\ mishap' \in BOOLEAN /\ p \in Busy
  BY <1>1, MeetShapes DEF Without, Busy
<1> DEFINE stripped == [push[p].item EXCEPT !.url = 0]
<1>4. stripped \in Items /\ SameTime(stripped, push[p].item) /\ stripped.there = push[p].item.there
  BY MeetShapes DEF Items, Urls, SameTime
<1>5. /\ push' \in [Pushers -> Pushes] /\ \A q \in Pushers \ {p} : push'[q] = push[q]
      /\ push'[p].step = "begun" /\ push'[p].ref = push[p].ref /\ push'[p].drop = push[p].drop \ {r}
      /\ push'[p].got = push[p].got /\ push'[p].item = stripped
  BY <1>4, MeetShapes DEF DropStale, Pushes
<1> HIDE DEF stripped
<1>6. PICK t \in Pushes : t = push'[p]
  BY <1>5
<1>7. PushIs(p, t)
  BY <1>5, <1>6 DEF PushIs
<1>8. MeetTypeOK'
  BY <1>1, <1>2, <1>3, <1>5, MeetShapes, MeetTypesNext
<1>9. MadeBefore'
  <2>1. WithinMade(t, made)
    <3>1. WithinMade(push[p], made)
      BY MadeKnown
    <3>2. t.step = "begun" /\ t.got = push[p].got /\ t.ref = push[p].ref /\ t.drop \subseteq push[p].drop
      BY <1>5, <1>6
    <3>3. QED BY <3>1, <3>2 DEF WithinMade
  <2>2. \A q \in Pushers : WithinMade(push'[q], made')
    BY <1>1, <1>5, <1>6, <2>1, MadeKnown
  <2>3. QED BY <1>1, <1>2, <2>2, MadeStill, MeetShapes
<1>10. ~mishap' => ~mishap /\ item'.there /\ PushKnows(t)' /\ OneRef' /\ (queued' \/ SameTime(item', t.item))
  <2>1. SUFFICES ASSUME ~mishap'
                 PROVE  ~mishap /\ item'.there /\ PushKnows(t)' /\ OneRef' /\ (queued' \/ SameTime(item', t.item))
    OBVIOUS
  <2>2. ~mishap /\ ok /\ OneRef /\ item.there /\ PushKnows(push[p]) /\ (queued \/ SameTime(item, push[p].item))
    BY <1>1, <1>3, <2>1 DEF MeetInv, PushInStep
  <2>3. refs = {r} /\ push[p].ref = {} /\ push[p].drop = {r}
    BY <1>1, <2>2 DEF PushKnows, OneRef
  <2>4. held' = {} /\ refs' = {}
    BY <1>1, <2>2, <2>3 DEF PushKnows, MeetingsOf, MeetingOf, Without
  <2>5. t.step = "begun" /\ t.ref = {} /\ t.drop = {}
    BY <1>5, <1>6, <2>3
  <2>6. PushKnows(t)'
    BY <2>4, <2>5 DEF PushKnows, MeetingsOf
  <2>7. queued' \/ SameTime(item', t.item)
    BY <1>1, <1>2, <1>4, <1>5, <1>6, <2>2 DEF SameTime
  <2>8. QED BY <1>2, <2>2, <2>4, <2>6, <2>7 DEF OneRef
<1>11. t.step # "idle"
  BY <1>5, <1>6
<1>12. QED BY <1>3, <1>7, <1>8, <1>9, <1>10, <1>11, PushGoesOn DEF MeetInv

LEMMA EndPushStep == ASSUME MeetInv, NEW p \in Pushers, EndPush(p) PROVE MeetInv'
<1>1. /\ push[p].step = "begun" /\ push[p].drop = {} /\ ~CallNeeded(p) /\ push' = [push EXCEPT ![p] = NoPush]
      /\ UNCHANGED <<item, form, refs, held, made, queued, removals, mishap>>
  BY DEF EndPush
<1>2. p \in Busy
  BY <1>1 DEF Busy
<1>3. /\ push' \in [Pushers -> Pushes] /\ push'[p] = NoPush /\ \A q \in Pushers \ {p} : push'[q] = push[q]
      /\ ~mishap' => Busy' = {} /\ OnePush' /\ PushInStep'
  BY <1>1, <1>2, PushIsOver
<1>4. MeetTypeOK'
  BY <1>1, <1>3, MeetShapes, MeetTypesNext
<1>5. MadeBefore'
  BY <1>1, <1>3, PushDoneMadeStill
<1>6. ASSUME ~mishap' PROVE OneRef' /\ NothingInHand'
  <2>1. ~mishap /\ OneRef /\ item.there /\ PushKnows(push[p]) /\ (queued \/ SameTime(item, push[p].item))
    BY <1>1, <1>2, <1>6 DEF MeetInv, PushInStep
  <2>2. /\ refs = push[p].ref /\ held = MeetingsOf(refs)
        /\ \A r \in refs : Wanted(push[p].item) /\ r.of = push[p].item.who
    BY <1>1, <2>1 DEF PushKnows
  <2>3. \A r \in refs : push[p].item.done \/ r.print = push[p].item.at
    BY <1>1, <2>1, <2>2 DEF CallNeeded, OneRef
  <2>4. ~queued => \A r \in refs : Wanted(item) /\ r.of = item.who /\ (item.done \/ r.print = item.at)
    BY <2>1, <2>2, <2>3 DEF SameTime, Wanted
  <2>5. QED BY <1>1, <2>1, <2>2, <2>4 DEF OneRef, NothingInHand, MeetingsOf, Wanted
<1>7. QED BY <1>3, <1>4, <1>5, <1>6 DEF MeetInv

LEMMA CallProviderStep == ASSUME MeetInv, NEW p \in Pushers, CallProvider(p) PROVE MeetInv'
<1> DEFINE i == push[p].item
           old == {r.id : r \in push[p].ref} \cap {m.id : m \in held}
           meetingId == IF old # {} THEN CHOOSE o \in old : TRUE ELSE made + 1
<1>1. /\ push[p].step = "begun" /\ push[p].drop = {} /\ Wanted(i) /\ meetingId \in Ids
      /\ held' = Without(meetingId) \cup {[id |-> meetingId, of |-> i.who, at |-> i.at]}
      /\ made' = IF old # {} THEN made ELSE meetingId
      /\ push' = [push EXCEPT ![p].step = "made", ![p].got = meetingId]
      /\ UNCHANGED <<item, form, refs, queued, removals, mishap>>
  BY DEF CallProvider, CallNeeded
<1>2. old # {} => meetingId \in old
  OBVIOUS
<1>3. old = {} => meetingId = made + 1
  OBVIOUS
<1> HIDE DEF meetingId
<1>4. PICK id \in Ids : id = meetingId
  BY <1>1
<1>5. i \in Items /\ i.who \in Hosts /\ i.at \in Times /\ push[p] \in Pushes /\ made \in Nat /\ id \in Nat /\ id \in 0..MaxMeetings
  BY <1>1, <1>4, MeetShapes DEF Items, Wanted, Ids
<1> HIDE DEF i
<1>6. made' \in 0..MaxMeetings /\ made' \in Nat /\ made <= made' /\ id <= made'
  <2>1. CASE old # {}
    <3>1. PICK r \in push[p].ref : id = r.id
      BY <1>2, <1>4, <2>1
    <3>2. WithinMade(push[p], made)
      BY MadeKnown
    <3>3. id <= made
      BY <3>1, <3>2 DEF WithinMade
    <3>4. made' = made
      BY <1>1, <2>1
    <3>5. QED BY <1>5, <3>3, <3>4, MeetShapes
  <2>2. CASE old = {}
    <3>1. made' = id /\ id = made + 1
      BY <1>1, <1>3, <1>4, <2>2
    <3>2. QED BY <1>5, <3>1
  <2>3. QED BY <2>1, <2>2
<1>7. held' \subseteq [id : Ids, of : Hosts, at : Times]
  BY <1>1, <1>4, <1>5, MeetShapes DEF Without
<1> DEFINE after == [push[p] EXCEPT !.step = "made", !.got = id]
<1>8. /\ after \in Pushes /\ after.step = "made" /\ after.got = id /\ after.item = i
      /\ after.ref = push[p].ref /\ after.drop = push[p].drop
  BY <1>5 DEF Pushes, i
<1>9. push' = [push EXCEPT ![p] = after]
  BY <1>1, <1>4, <1>5 DEF Pushes
<1> HIDE DEF after
<1>10. PICK t \in Pushes : t = after
  BY <1>8
<1>11. PushIs(p, t)
  BY <1>9, <1>10, MeetShapes DEF PushIs
<1>12. MeetTypeOK'
  BY <1>1, <1>6, <1>7, <1>11, MeetShapes, MeetTypesNext DEF PushIs
<1>13. MadeBefore'
  <2>1. WithinMade(push[p], made) /\ WithinMade(push[p], made')
    BY <1>5, <1>6, MadeKnown, MeetShapes, StillWithin
  <2>2. WithinMade(t, made')
    <3>1. /\ t.ref = push[p].ref /\ t.drop = push[p].drop /\ t.got = id /\ id # 0 /\ Wanted(t.item)
      BY <1>1, <1>8, <1>10, <1>5 DEF Ids
    <3>2. QED BY <1>6, <2>1, <3>1 DEF WithinMade
  <2>3. \A q \in Pushers : WithinMade(push[q], made')
    BY <1>5, <1>6, MadeKnown, MeetShapes, StillWithin
  <2>4. \A q \in Pushers : WithinMade(push'[q], made')
    BY <1>11, <2>2, <2>3 DEF PushIs
  <2>5. QED BY <1>1, <1>6, <2>4, MadeStill
<1>14. p \in Busy
  BY <1>1 DEF Busy
<1>15. ~mishap' => ~mishap /\ item'.there /\ PushKnows(t)' /\ OneRef' /\ (queued' \/ SameTime(item', t.item))
  <2>1. SUFFICES ASSUME ~mishap
                 PROVE  item'.there /\ PushKnows(t)' /\ OneRef' /\ (queued' \/ SameTime(item', t.item))
    BY <1>1
  <2>2. OneRef /\ item.there /\ PushKnows(push[p]) /\ (queued \/ SameTime(item, push[p].item))
    BY <1>14, <2>1 DEF MeetInv, PushInStep
  <2>3. refs = push[p].ref /\ held = MeetingsOf(refs)
    BY <1>1, <2>2 DEF PushKnows
  <2>4. held' = {[id |-> id, of |-> i.who, at |-> i.at]}
    <3>1. CASE refs = {}
      BY <1>1, <1>4, <2>3, <3>1 DEF MeetingsOf, Without
    <3>2. CASE refs # {}
      <4>1. PICK r \in refs : refs = {r}
        BY <2>2, <3>2 DEF OneRef
      <4>2. held = {MeetingOf(r)} /\ MeetingOf(r).id = r.id
        BY <2>3, <4>1 DEF MeetingsOf, MeetingOf
      <4>3. old = {r.id}
        BY <2>3, <4>1, <4>2
      <4>4. id = r.id
        BY <1>2, <1>4, <4>3
      <4>5. Without(id) = {}
        BY <4>2, <4>4 DEF Without
      <4>6. QED BY <1>1, <1>4, <4>5
    <3>3. QED BY <3>1, <3>2
  <2>5. t.step = "made" /\ t.got = id /\ t.item = i /\ t.ref = push[p].ref
    BY <1>8, <1>10
  <2>6. PushKnows(t)'
    BY <1>1, <2>3, <2>4, <2>5 DEF PushKnows, Arranged, Wanted
  <2>7. QED BY <1>1, <2>2, <2>5, <2>6 DEF OneRef, SameTime, i
<1>16. t.step # "idle"
  BY <1>8, <1>10
<1>17. QED BY <1>11, <1>12, <1>13, <1>14, <1>15, <1>16, PushGoesOn DEF MeetInv

LEMMA PushFailsStep == ASSUME MeetInv, NEW p \in Pushers, PushFails(p) PROVE MeetInv'
<1>1. /\ push[p].step # "idle" /\ push' = [push EXCEPT ![p] = NoPush] /\ mishap'
      /\ UNCHANGED <<item, form, refs, held, made, queued, removals>>
  BY DEF PushFails
<1>2. p \in Busy
  BY <1>1 DEF Busy
<1>3. push' \in [Pushers -> Pushes] /\ push'[p] = NoPush /\ \A q \in Pushers \ {p} : push'[q] = push[q]
  BY <1>1, <1>2, PushIsOver
<1>4. mishap' \in BOOLEAN
  BY DEF PushFails
<1>5. MeetTypeOK'
  BY <1>1, <1>3, <1>4, MeetShapes, MeetTypesNext
<1>6. MadeBefore'
  BY <1>1, <1>3, PushDoneMadeStill
<1>7. QED BY <1>1, <1>5, <1>6 DEF MeetInv

LEMMA LinkMeetingStep == ASSUME MeetInv, NEW p \in Pushers, LinkMeeting(p) PROVE MeetInv'
<1>1. PICK was \in Pushes : was = push[p]
  BY MeetShapes
<1>2. /\ was.step = "made" /\ push' = [push EXCEPT ![p].step = "linked"]
      /\ refs' = {s \in refs \ was.ref : s.id # was.got} \cup {Linking(was)}
      /\ UNCHANGED <<item, form, held, made, queued, removals, mishap>>
  BY <1>1 DEF LinkMeeting, Linking
<1>3. Wanted(was.item) /\ was.got # 0 /\ was.got <= made /\ was.item \in Items /\ was.got \in 0..MaxMeetings
  <2>1. WithinMade(was, made)
    BY <1>1, MadeKnown
  <2>2. was \in Pushes
    BY <1>1, MeetShapes
  <2>3. QED BY <1>2, <2>1, <2>2 DEF WithinMade, Pushes
<1>4. was.got \in Ids /\ was.got \in Nat /\ was.item.who \in Hosts /\ was.item.at \in Times
  BY <1>3, MeetShapes DEF Ids, Wanted, Items
<1>5. Linking(was) \in Refs /\ Linking(was).id = was.got
  BY <1>4 DEF Linking, Refs
<1> DEFINE after == [was EXCEPT !.step = "linked"]
<1>6. /\ after \in Pushes /\ after.step = "linked" /\ after.got = was.got /\ after.item = was.item
      /\ after.ref = was.ref /\ after.drop = was.drop
  BY DEF Pushes
<1>7. push' = [push EXCEPT ![p] = after]
  BY <1>1, <1>2
<1> HIDE DEF after
<1>8. PICK t \in Pushes : t = after
  BY <1>6
<1>9. PushIs(p, t) /\ p \in Busy
  BY <1>1, <1>2, <1>7, <1>8, MeetShapes DEF PushIs, Busy
<1>10. MeetTypeOK'
  BY <1>2, <1>5, <1>9, MeetShapes, MeetTypesNext DEF PushIs
<1>11. MadeBefore'
  <2>1. \A r \in refs' : r.id <= made'
    BY <1>2, <1>3, <1>5, MadeKnown
  <2>2. WithinMade(t, made)
    <3>1. WithinMade(was, made) /\ t.step = "linked" /\ t.got = was.got /\ t.ref = was.ref /\ t.drop = was.drop
      BY <1>1, <1>6, <1>8, MadeKnown
    <3>2. QED BY <3>1 DEF WithinMade
  <2>3. \A q \in Pushers : WithinMade(push'[q], made')
    BY <1>2, <1>9, <2>2, MadeKnown DEF PushIs
  <2>4. \A q \in Pushers : WithinMade(push[q], made)'
    BY <2>3 DEF WithinMade, Wanted
  <2>5. QED BY <1>2, <2>1, <2>4, MadeKnown DEF MadeBefore
<1>12. ~mishap' => ~mishap /\ item'.there /\ PushKnows(t)' /\ OneRef' /\ (queued' \/ SameTime(item', t.item))
  <2>1. SUFFICES ASSUME ~mishap
                 PROVE  item'.there /\ PushKnows(t)' /\ OneRef' /\ (queued' \/ SameTime(item', t.item))
    BY <1>2
  <2>2. item.there /\ PushKnows(was) /\ (queued \/ SameTime(item, was.item))
    BY <1>1, <1>9, <2>1 DEF MeetInv, PushInStep
  <2>3. refs = was.ref /\ held = {Arranged(was)}
    BY <1>2, <2>2 DEF PushKnows
  <2>4. t.step = "linked" /\ t.got = was.got /\ t.item = was.item
    BY <1>6, <1>8
  <2>5. refs' = {Linking(t)} /\ held' = {Arranged(t)}
    BY <1>2, <2>3, <2>4 DEF Linking, Arranged
  <2>6. PushKnows(t)'
    BY <1>3, <2>4, <2>5 DEF PushKnows, Wanted, Linking, Arranged
  <2>7. QED BY <1>2, <2>2, <2>4, <2>5, <2>6 DEF OneRef, SameTime
<1>13. t.step # "idle"
  BY <1>6, <1>8
<1>14. QED BY <1>9, <1>10, <1>11, <1>12, <1>13, PushGoesOn DEF MeetInv

LEMMA SetLinkStep == ASSUME MeetInv, NEW p \in Pushers, SetLink(p) PROVE MeetInv'
<1>1. PICK t \in Pushes : t = push[p]
  BY MeetShapes
<1>2. /\ t.step = "linked" /\ push' = [push EXCEPT ![p] = NoPush]
      /\ item' = IF item.there /\ t.got # t.item.url THEN [item EXCEPT !.url = t.got] ELSE item
      /\ UNCHANGED <<form, refs, held, made, queued, removals, mishap>>
  BY <1>1 DEF SetLink
<1>3. t.got \in Urls
  BY MeetShapes DEF Pushes, Urls, Ids
<1>4. item' \in Items /\ SameTime(item', item) /\ item'.there = item.there
  BY <1>2, <1>3, MeetShapes DEF Items, SameTime
<1>5. p \in Busy
  BY <1>1, <1>2 DEF Busy
<1>6. /\ push' \in [Pushers -> Pushes] /\ push'[p] = NoPush /\ \A q \in Pushers \ {p} : push'[q] = push[q]
      /\ ~mishap' => Busy' = {} /\ OnePush' /\ PushInStep'
  BY <1>2, <1>5, PushIsOver
<1>7. MeetTypeOK'
  BY <1>2, <1>4, <1>6, MeetShapes, MeetTypesNext
<1>8. MadeBefore'
  BY <1>2, <1>4, <1>6, PushDoneMadeStill
<1>9. ASSUME ~mishap' PROVE OneRef' /\ NothingInHand'
  <2>1. ~mishap /\ OneRef /\ item.there /\ PushKnows(t) /\ (queued \/ SameTime(item, t.item))
    BY <1>1, <1>2, <1>5, <1>9 DEF MeetInv, PushInStep
  <2>2. refs = {Linking(t)} /\ held = {Arranged(t)} /\ Wanted(t.item)
    BY <1>2, <2>1 DEF PushKnows
  <2>3. /\ Linking(t).of = t.item.who /\ Linking(t).print = t.item.at /\ MeetingOf(Linking(t)) = Arranged(t)
    BY DEF Linking, MeetingOf, Arranged
  <2>4. held = MeetingsOf(refs)
    BY <2>2, <2>3 DEF MeetingsOf
  <2>5. ASSUME ~queued, NEW r \in refs PROVE Wanted(item') /\ r.of = item'.who /\ (item'.done \/ r.print = item'.at)
    BY <1>4, <2>1, <2>2, <2>3, <2>5 DEF SameTime, Wanted
  <2>6. QED BY <1>2, <1>4, <2>1, <2>4, <2>5 DEF OneRef, NothingInHand, MeetingsOf, Wanted
<1>10. QED BY <1>6, <1>7, <1>8, <1>9 DEF MeetInv

LEMMA RemoveStep == ASSUME MeetInv, NEW id \in Ids, NEW ok \in BOOLEAN, Remove(id, ok) PROVE MeetInv'
<1>1. /\ id \in removals /\ removals' = removals \ {id} /\ mishap' = (mishap \/ ~ok)
      /\ held' = IF ok THEN Without(id) ELSE held
      /\ UNCHANGED <<item, form, refs, made, queued, push>>
  BY DEF Remove
<1>2. ~item.there /\ mishap' \in BOOLEAN /\ held' \subseteq held
  BY <1>1, MeetShapes, MadeKnown DEF Without
<1>3. MeetTypeOK'
  BY <1>1, <1>2, MeetShapes, MeetTypesNext
<1>4. MadeBefore'
  BY <1>1, <1>2, MadeKnown DEF MadeBefore
<1>5. ASSUME ~mishap' PROVE OneRef' /\ OnePush' /\ PushInStep' /\ NothingInHand'
  <2>1. ~mishap /\ ok /\ Busy = {} /\ Busy' = {}
    BY <1>1, <1>2, <1>5 DEF MeetInv, PushInStep, Busy
  <2>2. refs = {} /\ {m.id : m \in held} = removals
    BY <1>2, <2>1 DEF MeetInv, NothingInHand
  <2>3. {m.id : m \in held'} = removals'
    BY <1>1, <2>1, <2>2 DEF Without
  <2>4. QED BY <1>1, <1>2, <2>1, <2>2, <2>3 DEF OneRef, OnePush, PushInStep, NothingInHand
<1>6. QED BY <1>3, <1>4, <1>5 DEF MeetInv

LEMMA VanishStep == ASSUME MeetInv, NEW m \in held, Vanish(m) PROVE MeetInv'
<1>1. held' = held \ {m} /\ mishap' = TRUE /\ UNCHANGED <<item, form, refs, made, queued, removals, push>>
  BY DEF Vanish
<1>2. MeetTypeOK'
  BY <1>1, MeetShapes, MeetTypesNext
<1>3. MadeBefore'
  BY <1>1, MadeKnown DEF MadeBefore
<1>4. QED BY <1>1, <1>2, <1>3 DEF MeetInv

LEMMA MeetStart == ASSUME MeetInit PROVE MeetInv
<1>1. MaxMeetings \in Nat /\ NoPush \in Pushes /\ NoItem \in Items /\ ~NoItem.there /\ NoForm \in [open : BOOLEAN, url : Urls]
  <2>1. NoItem \in Items /\ 0 \in 0..MaxMeetings
    BY NoItemIsItem, MeetingsAssumption
  <2>2. QED BY <2>1, NoItemIsItem, MeetingsAssumption DEF NoPush, Pushes
<1>2. MeetTypeOK
  <2>1. push \in [Pushers -> Pushes] /\ made \in 0..MaxMeetings
    BY <1>1 DEF MeetInit
  <2>2. QED BY <1>1, <2>1 DEF MeetInit, MeetTypeOK, Pushes
<1>3. \A p \in Pushers : /\ push[p] = NoPush /\ push[p].ref = {} /\ push[p].drop = {} /\ push[p].got = 0
                         /\ push[p].step = "idle"
  BY DEF MeetInit, NoPush
<1>4. Busy = {}
  BY <1>3 DEF Busy
<1>5. MadeBefore
  BY <1>1, <1>3 DEF MeetInit, MadeBefore, WithinMade
<1>6. OneRef /\ OnePush /\ PushInStep /\ NothingInHand
  BY <1>1, <1>4 DEF MeetInit, OneRef, OnePush, PushInStep, NothingInHand
<1>7. QED BY <1>2, <1>5, <1>6 DEF MeetInv

LEMMA MeetStep == ASSUME MeetInv, [MeetNext]_meetVars PROVE MeetInv'
<1>1. CASE UNCHANGED meetVars
  BY <1>1 DEF meetVars, MeetInv, MeetTypeOK, MadeBefore, OneRef, OnePush, PushInStep, NothingInHand, PushKnows, Busy,
              MeetingsOf, Wanted, Arranged, Linking, SameTime
<1>2. CASE MeetNext
  BY <1>2, OpenFormStep, ToggleStep, DeleteStep, CreateStep, SaveFormStep, BeginPushStep, EndPushStep, CallProviderStep,
     PushFailsStep, LinkMeetingStep, SetLinkStep, DropStaleStep, RemoveStep, VanishStep DEF MeetNext
<1>3. QED BY <1>1, <1>2

LEMMA MeetInvMatches == ASSUME MeetInv PROVE MeetingMatches
<1>1. SUFFICES ASSUME ~queued, removals = {}, Busy = {}, ~mishap
               PROVE  /\ {m.id : m \in held} = {r.id : r \in refs}
                      /\ Cardinality(held) <= 1
                      /\ \A m \in held : Wanted(item) /\ m.of = item.who /\ (item.done \/ m.at = item.at)
  BY DEF MeetingMatches
<1>2. OneRef /\ NothingInHand
  BY <1>1 DEF MeetInv
<1>3. CASE ~item.there
  <2>1. refs = {} /\ held = {}
    BY <1>1, <1>2, <1>3 DEF NothingInHand
  <2>2. QED BY <2>1, FS_EmptySet
<1>4. CASE item.there
  <2>1. held = MeetingsOf(refs)
    BY <1>1, <1>2, <1>4 DEF NothingInHand
  <2>2. \A r \in refs : Wanted(item) /\ r.of = item.who /\ (item.done \/ r.print = item.at)
    BY <1>1, <1>2, <1>4 DEF NothingInHand
  <2>3. CASE refs = {}
    <3>1. held = {}
      BY <2>1, <2>3 DEF MeetingsOf
    <3>2. QED BY <2>3, <3>1, FS_EmptySet
  <2>4. CASE refs # {}
    <3>1. PICK r \in refs : refs = {r}
      BY <1>2, <2>4 DEF OneRef
    <3>2. held = {MeetingOf(r)} /\ MeetingOf(r).id = r.id /\ MeetingOf(r).of = r.of /\ MeetingOf(r).at = r.print
      BY <2>1, <3>1 DEF MeetingsOf, MeetingOf
    <3>3. Cardinality(held) = 1
      BY <3>2, FS_Singleton
    <3>4. QED BY <2>2, <3>1, <3>2, <3>3
  <2>5. QED BY <2>3, <2>4
<1>5. QED BY <1>3, <1>4

\* A video meeting: when no task waits or runs and no call failed, the meetings at the
\* providers are those the appointment is linked to, one at most, with its host and at its
\* time, whatever was edited, and in whatever order, while they ran (crm/meetings.py).
THEOREM MeetingsStay == MeetSpec => []MeetingMatches
<1>1. MeetSpec => []MeetInv
  BY MeetStart, MeetStep, PTL DEF MeetSpec
<1>2. QED BY <1>1, MeetInvMatches, PTL

----------------------------------------------------------------------------
\* The copies at the drive.  As long as nothing was lost or crossed, each copy that is not
\* in the trash is linked, waits to be trashed, or is in the hand of the task that made it.

DriveItem == [of : Copied, name : 0..MaxTitles, trashed : BOOLEAN]
CopierRow == [step : {"none", "look", "folder", "keep_folder", "file", "keep"},
              list : Seq(Papers), title : 0..MaxTitles, had : SUBSET RefRows,
              item : 0..MaxItems]

DriveShapes ==
    /\ matter \in [there : BOOLEAN, title : 1..MaxTitles]
    /\ document \in [Papers -> {"new", "there", "gone"}]
    /\ drive \in Seq(DriveItem) /\ Len(drive) <= MaxItems
    /\ copyRefs \subseteq RefRows /\ copyTasks \subseteq Tasks
    /\ copier \in [Copiers -> CopierRow]
    /\ outran \in BOOLEAN

TrashOf(i) == [do |-> "trash", on |-> i]
RenameTask == [do |-> "rename", on |-> 0]
ItemIs(i, x) == i \in DOMAIN drive /\ drive[i].of = x

\* What a task has in hand is on the drive, and was read before now.
HandOnDrive(t) ==
    /\ t.step = "folder" => (t.had = {} /\ t.item = 0) \/ \E r \in t.had : t.had = {r} /\ t.item = r.item
    /\ t.step = "keep_folder" =>
          /\ t.had = {} \/ \E r \in t.had : t.had = {r} /\ (t.item = r.item \/ (r.item \in DOMAIN drive /\ drive[r.item].trashed))
          /\ t.item # 0
    /\ t.step \in {"folder", "keep_folder"} =>
          /\ t.item = 0 \/ ItemIs(t.item, 0)
          /\ \A r \in t.had : r.name # t.title
    /\ t.step \in {"file", "keep"} => t.list # <<>>
    /\ t.step = "keep" => ItemIs(t.item, t.list[1])
    /\ t.title <= matter.title

OnDrive ==
    /\ \A r \in copyRefs : ItemIs(r.item, r.of)
    /\ \A i \in 1..MaxItems : TrashOf(i) \in copyTasks => i \in DOMAIN drive
    /\ \A c \in Copiers : HandOnDrive(copier[c])

\* A record has one ref, as long as it is there, to what is on the drive and stays.
RefsInPlace ==
    /\ \A r, s \in copyRefs : r.of = s.of => r = s
    /\ \A r \in copyRefs : /\ ~drive[r.item].trashed /\ TrashOf(r.item) \notin copyTasks
                           /\ r.of = 0 => matter.there
                           /\ r.of # 0 => document[r.of] = "there"

\* A task has made what it has not linked yet.
NotLinked(t) == t.step = "keep" \/ (t.step = "keep_folder" /\ t.had = {})
InHand(t) == IF t.step \in {"folder", "keep_folder", "keep"} THEN t.item ELSE 0
NotLinkedAlone ==
    \A c \in Copiers : NotLinked(copier[c]) =>
        /\ ~drive[copier[c].item].trashed /\ TrashOf(copier[c].item) \notin copyTasks
        /\ copier[c].step = "keep_folder" => drive[copier[c].item].name = copier[c].title
        /\ \A r \in copyRefs : r.item # copier[c].item
        /\ \A d \in Copiers \ {c} : InHand(copier[d]) # copier[c].item

\* Nothing is on the drive that nobody knows of.
AllKnown ==
    \A i \in DOMAIN drive :
        \/ drive[i].trashed \/ TrashOf(i) \in copyTasks
        \/ \E r \in copyRefs : r.item = i
        \/ \E c \in Copiers : copier[c].step \in {"keep_folder", "keep"} /\ copier[c].item = i

\* The folder has the name its ref says, or one that a task has given it and is about to
\* note, as no other task can without a mishap.
Naming(r) == {c \in Copiers : copier[c].step = "keep_folder" /\ copier[c].item = r.item}
MayNote(t) == RefFor(0) = t.had /\ matter.there /\ matter.title = t.title
FolderNamed ==
    \A r \in RefFor(0) :
        \/ \E c \in Naming(r) : copier[c].title = drive[r.item].name
        \/ r.name = drive[r.item].name /\ \A c \in Naming(r) : ~MayNote(copier[c])

\* The folder has the matter's title, or a task to rename it waits or runs.
Renaming(t) == t.step \in {"look", "folder", "keep_folder"} /\ t.list = <<>> /\ t.title = matter.title
TitleKnown ==
    \A r \in RefFor(0) : r.name = matter.title \/ RenameTask \in copyTasks \/ \E c \in Copiers : Renaming(copier[c])

DriveKept == RefsInPlace /\ NotLinkedAlone /\ AllKnown /\ FolderNamed /\ TitleKnown
DriveInv == DriveShapes /\ OnDrive /\ (~outran => DriveKept)

\* What was on the drive is still there, and the matter's title is no earlier one.
DriveGrows ==
    /\ \A i \in DOMAIN drive : /\ i \in DOMAIN drive' /\ drive'[i].of = drive[i].of
                               /\ drive[i].trashed => drive'[i].trashed
    /\ matter.title <= matter'.title

\* The task c has come to t, and the others are where they were.
CopierIs(c, t) ==
    copier' \in [Copiers -> CopierRow] /\ copier'[c] = t /\ \A d \in Copiers \ {c} : copier'[d] = copier[d]

\* The same copies wait to be trashed.
SameTrash == \A i \in 1..MaxItems : TrashOf(i) \in copyTasks' <=> TrashOf(i) \in copyTasks

LEMMA DriveKnown ==
    ASSUME DriveInv
    PROVE  /\ DriveShapes /\ OnDrive /\ (~outran => DriveKept)
           /\ matter \in [there : BOOLEAN, title : 1..MaxTitles] /\ matter.title \in Nat /\ matter.title \in 0..MaxTitles
           /\ MaxTitles \in Nat /\ MaxItems \in Nat /\ MaxPapers \in Nat
           /\ DOMAIN drive = 1..Len(drive) /\ Len(drive) \in Nat /\ Len(drive) <= MaxItems /\ drive \in Seq(DriveItem)
           /\ \A i \in DOMAIN drive : drive[i] \in DriveItem /\ i # 0 /\ i \in 1..MaxItems /\ i \in 0..MaxItems
           /\ \A r \in copyRefs : /\ r \in RefRows /\ r.item \in 1..MaxItems /\ r.item \in DOMAIN drive
                                  /\ drive[r.item].of = r.of /\ r.of \in Copied
           /\ \A c \in Copiers : copier[c] \in CopierRow /\ HandOnDrive(copier[c])
           /\ copyTasks \subseteq Tasks /\ copyRefs \subseteq RefRows /\ document \in [Papers -> {"new", "there", "gone"}]
           /\ copier \in [Copiers -> CopierRow] /\ outran \in BOOLEAN
<1>1. DriveShapes /\ OnDrive
  BY DEF DriveInv
<1>2. /\ drive \in Seq(DriveItem) /\ Len(drive) <= MaxItems
      /\ MaxTitles \in Nat /\ MaxItems \in Nat /\ MaxPapers \in Nat
  BY <1>1, DocumentStorageAssumption DEF DriveShapes
<1>3. DOMAIN drive = 1..Len(drive) /\ Len(drive) \in Nat
  BY <1>2
<1>4. \A i \in DOMAIN drive : drive[i] \in DriveItem
  BY <1>2, <1>3
<1>5. \A i \in DOMAIN drive : i # 0 /\ i \in 1..MaxItems /\ i \in 0..MaxItems
  BY <1>2, <1>3
<1>6. matter.title \in Nat /\ matter.title \in 0..MaxTitles
  BY <1>1, <1>2 DEF DriveShapes
<1>7. \A r \in copyRefs : /\ r \in RefRows /\ r.item \in 1..MaxItems /\ r.item \in DOMAIN drive
                          /\ drive[r.item].of = r.of /\ r.of \in Copied
  BY <1>1 DEF DriveShapes, OnDrive, ItemIs, RefRows
<1>8. \A c \in Copiers : copier[c] \in CopierRow /\ HandOnDrive(copier[c])
  BY <1>1 DEF DriveShapes, OnDrive
<1>9. QED BY <1>1, <1>2, <1>3, <1>4, <1>5, <1>6, <1>7, <1>8 DEF DriveShapes, DriveInv

LEMMA HandShapes ==
    ASSUME NEW t \in CopierRow, MaxTitles \in Nat, MaxItems \in Nat
    PROVE  /\ t.title \in Nat /\ t.title \in 0..MaxTitles /\ t.list \in Seq(Papers) /\ t.had \subseteq RefRows
           /\ t.item \in 0..MaxItems /\ t.step \in {"none", "look", "folder", "keep_folder", "file", "keep"}
           /\ \A r \in t.had : r.item \in 1..MaxItems
  BY DEF CopierRow, RefRows

LEMMA IdleRow ==
    ASSUME DriveInv
    PROVE  /\ NoCopying \in CopierRow /\ NoCopying.step = "none" /\ NoCopying.title = 0
           /\ HandOnDrive(NoCopying) /\ InHand(NoCopying) = 0 /\ ~NotLinked(NoCopying)
<1>1. MaxTitles \in Nat /\ MaxItems \in Nat /\ 0 \in 0..MaxTitles /\ 0 \in 0..MaxItems /\ matter.title \in Nat
  BY DriveKnown
<1>2. <<>> \in Seq(Papers)
  OBVIOUS
<1>3. NoCopying \in CopierRow /\ NoCopying.step = "none" /\ NoCopying.title = 0
  BY <1>1, <1>2 DEF NoCopying, CopierRow
<1>4. QED BY <1>1, <1>3 DEF HandOnDrive, InHand, NotLinked

\* What a task has in hand stays on the drive, whatever others do.
LEMMA HandStays ==
    ASSUME NEW t \in CopierRow, HandOnDrive(t), DriveGrows, matter.title \in Nat, matter'.title \in Nat,
           MaxTitles \in Nat, MaxItems \in Nat
    PROVE  HandOnDrive(t)'
<1>1. t.title \in Nat /\ t.title <= matter'.title
  BY HandShapes DEF HandOnDrive, DriveGrows
<1>2. \A i, x : ItemIs(i, x) => i \in DOMAIN drive' /\ drive'[i].of = x
  BY DEF ItemIs, DriveGrows
<1>3. \A i : i \in DOMAIN drive /\ drive[i].trashed => i \in DOMAIN drive' /\ drive'[i].trashed
  BY DEF DriveGrows
<1>4. t.step = "keep_folder" =>
          /\ t.had = {} \/ \E r \in t.had : t.had = {r} /\ (t.item = r.item \/ (r.item \in DOMAIN drive' /\ drive'[r.item].trashed))
          /\ t.item # 0
  BY <1>3 DEF HandOnDrive
<1>5. /\ t.step \in {"folder", "keep_folder"} => t.item = 0 \/ (t.item \in DOMAIN drive' /\ drive'[t.item].of = 0)
      /\ t.step = "keep" => t.item \in DOMAIN drive' /\ drive'[t.item].of = t.list[1]
  BY <1>2 DEF HandOnDrive
<1>6. QED BY <1>1, <1>4, <1>5 DEF HandOnDrive, ItemIs

LEMMA OnDriveNext ==
    ASSUME DriveInv, DriveGrows, matter'.title \in Nat,
           \A r \in copyRefs' : r \in copyRefs \/ ItemIs(r.item, r.of)',
           \A i \in 1..MaxItems : TrashOf(i) \in copyTasks' => TrashOf(i) \in copyTasks \/ i \in DOMAIN drive,
           \A c \in Copiers : copier'[c] = copier[c] \/ HandOnDrive(copier[c])'
    PROVE  OnDrive'
<1>1. \A r \in copyRefs' : ItemIs(r.item, r.of)'
  BY DriveKnown DEF DriveGrows, ItemIs
<1>2. \A i \in 1..MaxItems : TrashOf(i) \in copyTasks' => i \in DOMAIN drive'
  BY DriveKnown DEF DriveGrows, OnDrive
<1>3. ASSUME NEW c \in Copiers PROVE HandOnDrive(copier[c])'
  <2>1. CASE copier'[c] = copier[c]
    <3>1. PICK t \in CopierRow : t = copier[c] /\ HandOnDrive(t)
      BY DriveKnown
    <3>2. HandOnDrive(t)'
      BY <3>1, HandStays, DriveKnown
    <3>3. QED BY <2>1, <3>1, <3>2
  <2>2. QED BY <2>1
<1>4. (\A i \in 1..MaxItems : TrashOf(i) \in copyTasks => i \in DOMAIN drive)'
  BY <1>2 DEF TrashOf
<1>5. QED BY <1>1, <1>3, <1>4 DEF OnDrive

LEMMA DriveSame == ASSUME DriveInv, drive' = drive, matter.title <= matter'.title PROVE DriveGrows
  BY DEF DriveGrows

\* A task that has made nothing that is not linked goes on, or ends.
LEMMA ReadStep ==
    ASSUME DriveInv, NEW c \in Copiers, NEW t \in CopierRow, CopierIs(c, t), HandOnDrive(t),
           UNCHANGED <<matter, document, drive, copyRefs>>, copyTasks' \subseteq copyTasks, SameTrash, outran' \in BOOLEAN,
           InHand(t) = 0 \/ \E r \in copyRefs : InHand(t) = r.item,
           ~outran' => /\ ~outran /\ TitleKnown'
                       /\ copier[c].step \notin {"keep_folder", "keep"} /\ t.step \notin {"keep_folder", "keep"}
    PROVE  DriveInv'
<1>1. copier' \in [Copiers -> CopierRow] /\ copier'[c] = t /\ \A d \in Copiers \ {c} : copier'[d] = copier[d]
  BY DEF CopierIs
<1>2. DriveShapes'
  <2>1. copyTasks' \subseteq Tasks
    BY DriveKnown
  <2>2. QED BY <1>1, <2>1, DriveKnown DEF DriveShapes, RefRows, CopierRow
<1>3. OnDrive'
  <2>1. HandOnDrive(t)'
    BY DriveKnown, HandStays, DriveSame
  <2>2. HandOnDrive(copier[c])'
    BY <1>1, <2>1
  <2>3. \A d \in Copiers : copier'[d] = copier[d] \/ HandOnDrive(copier[d])'
    BY <1>1, <2>2
  <2>4. QED BY <2>3, DriveSame, DriveKnown, OnDriveNext DEF SameTrash
<1>4. ASSUME ~outran' PROVE DriveKept'
  <2>1. /\ RefsInPlace /\ NotLinkedAlone /\ AllKnown /\ FolderNamed /\ TitleKnown'
        /\ copier[c].step \notin {"keep_folder", "keep"} /\ t.step \notin {"keep_folder", "keep"}
    BY <1>4 DEF DriveInv, DriveKept
  <2>2. RefsInPlace'
    BY <2>1, DriveKnown DEF RefsInPlace, SameTrash, TrashOf
  <2>3. NotLinkedAlone'
    <3>1. SUFFICES ASSUME NEW d \in Copiers, NotLinked(copier'[d])
                   PROVE  /\ ~drive[copier'[d].item].trashed /\ TrashOf(copier'[d].item) \notin copyTasks'
                          /\ copier'[d].step = "keep_folder" => drive[copier'[d].item].name = copier'[d].title
                          /\ \A r \in copyRefs : r.item # copier'[d].item
                          /\ \A e \in Copiers \ {d} : InHand(copier'[e]) # copier'[d].item
      BY DEF NotLinkedAlone, NotLinked, InHand, TrashOf
    <3>2. d # c /\ copier'[d] = copier[d] /\ NotLinked(copier[d])
      BY <1>1, <2>1, <3>1 DEF NotLinked
    <3>3. /\ ~drive[copier[d].item].trashed /\ TrashOf(copier[d].item) \notin copyTasks
          /\ copier[d].step = "keep_folder" => drive[copier[d].item].name = copier[d].title
          /\ \A r \in copyRefs : r.item # copier[d].item
          /\ \A e \in Copiers \ {d} : InHand(copier[e]) # copier[d].item
      BY <2>1, <3>2 DEF NotLinkedAlone
    <3>4. copier[d].item # 0
      BY <3>2, DriveKnown DEF NotLinked, HandOnDrive, ItemIs
    <3>5. \A e \in Copiers \ {d} : InHand(copier'[e]) # copier[d].item
      BY <1>1, <3>3, <3>4
    <3>6. QED BY <3>2, <3>3, <3>5
  <2>4. AllKnown'
    <3>1. ASSUME NEW i \in DOMAIN drive
          PROVE  \/ drive[i].trashed \/ TrashOf(i) \in copyTasks'
                 \/ \E r \in copyRefs : r.item = i
                 \/ \E d \in Copiers : copier'[d].step \in {"keep_folder", "keep"} /\ copier'[d].item = i
      <4>1. \/ drive[i].trashed \/ TrashOf(i) \in copyTasks
            \/ \E r \in copyRefs : r.item = i
            \/ \E d \in Copiers \ {c} : copier[d].step \in {"keep_folder", "keep"} /\ copier[d].item = i
        BY <2>1 DEF AllKnown
      <4>2. TrashOf(i) \in copyTasks => TrashOf(i) \in copyTasks'
        BY DriveKnown DEF SameTrash
      <4>3. QED BY <1>1, <4>1, <4>2
    <3>2. QED BY <3>1 DEF AllKnown, TrashOf
  <2>5. FolderNamed'
    <3>1. \A r : Naming(r)' = Naming(r)
      BY <1>1, <2>1 DEF Naming
    <3>2. \A d \in Copiers \ {c} : copier'[d] = copier[d]
      BY <1>1
    <3>3. \A r : c \notin Naming(r)
      BY <2>1 DEF Naming
    <3>4. RefFor(0)' = RefFor(0)
      BY DEF RefFor
    <3>5. ASSUME NEW r \in RefFor(0)
          PROVE  \/ \E d \in Naming(r) : copier'[d].title = drive[r.item].name
                 \/ r.name = drive[r.item].name /\ \A d \in Naming(r) : ~MayNote(copier'[d])
      <4>1. Naming(r) \subseteq Copiers
        BY DEF Naming
      <4>2. QED BY <2>1, <3>2, <3>3, <4>1 DEF FolderNamed
    <3>6. \A u : MayNote(u)' <=> MayNote(u)
      BY <3>4 DEF MayNote
    <3>7. QED BY <3>1, <3>4, <3>5, <3>6 DEF FolderNamed, MayNote, Naming
  <2>6. QED BY <2>1, <2>2, <2>3, <2>4, <2>5 DEF DriveKept
<1>5. QED BY <1>2, <1>3, <1>4 DEF DriveInv

\* TitleKnown still holds when no task that renames is lost.
LEMMA TitleStays ==
    ASSUME DriveInv, ~outran, NEW c \in Copiers, NEW t, CopierIs(c, t), matter' = matter, copyRefs' = copyRefs,
           RenameTask \in copyTasks => RenameTask \in copyTasks' \/ Renaming(t) \/ RefFor(0) = {},
           Renaming(copier[c]) => Renaming(t) \/ \A r \in RefFor(0) : r.name = matter.title
    PROVE  TitleKnown'
<1>1. TitleKnown
  BY DEF DriveInv, DriveKept
<1>2. RefFor(0)' = RefFor(0)
  BY DEF RefFor
<1>3. copier'[c] = t /\ \A d \in Copiers \ {c} : copier'[d] = copier[d]
  BY DEF CopierIs
<1>4. \A u : Renaming(u)' <=> Renaming(u)
  BY DEF Renaming
<1>5. ASSUME NEW r \in RefFor(0)
      PROVE  r.name = matter.title \/ RenameTask \in copyTasks' \/ \E d \in Copiers : Renaming(copier'[d])
  BY <1>1, <1>3, <1>5 DEF TitleKnown
<1>6. RenameTask' = RenameTask
  BY DEF RenameTask
<1>7. QED BY <1>2, <1>4, <1>5, <1>6 DEF TitleKnown, Renaming

LEMMA BegunRow ==
    ASSUME DriveInv, NEW list \in Seq(Papers)
    PROVE  /\ Begun(list) \in CopierRow /\ Begun(list).step = "look" /\ Begun(list).list = list
           /\ Begun(list).title = matter.title /\ HandOnDrive(Begun(list)) /\ InHand(Begun(list)) = 0
<1>1. NoCopying \in CopierRow /\ matter.title \in 0..MaxTitles /\ matter.title \in Nat
  BY IdleRow, DriveKnown
<1>2. /\ Begun(list) \in CopierRow /\ Begun(list).step = "look" /\ Begun(list).list = list
      /\ Begun(list).title = matter.title
  BY <1>1 DEF Begun, CopierRow
<1>3. QED BY <1>1, <1>2 DEF HandOnDrive, InHand

LEMMA TasksDiffer ==
    /\ \A i : TrashOf(i) # RenameTask /\ \A p : TrashOf(i) # [do |-> "copy", on |-> p] /\ RenameTask # [do |-> "copy", on |-> p]
    /\ \A i, j : TrashOf(i) = TrashOf(j) => i = j
<1>1. ASSUME NEW i PROVE TrashOf(i).do = "trash" /\ TrashOf(i).on = i
  BY DEF TrashOf
<1>2. RenameTask.do = "rename" /\ \A p : [do |-> "copy", on |-> p].do = "copy"
  BY DEF RenameTask
<1>3. QED BY <1>1, <1>2

\* A free task moves.
LEMMA CopierActs ==
    ASSUME DriveInv, NEW c \in Copiers, NEW t \in CopierRow, Acts(c, t) PROVE CopierIs(c, t)
  BY DriveKnown DEF Acts, CopierIs

LEMMA TakeCopyStep == ASSUME DriveInv, NEW c \in Copiers, NEW p \in Papers, TakeCopy(c, p) PROVE DriveInv'
<1>1. /\ copier[c].step = "none" /\ copyTasks' = copyTasks \ {[do |-> "copy", on |-> p]}
      /\ Acts(c, Begun(<<p>>)) \/ copier' = copier
      /\ UNCHANGED <<matter, document, drive, copyRefs, outran>>
  BY DEF TakeCopy, Takes, Free
<1>2. <<p>> \in Seq(Papers) /\ <<p>> # <<>>
  OBVIOUS
<1>3. PICK t \in CopierRow : /\ CopierIs(c, t) /\ t.step \in {"none", "look"} /\ HandOnDrive(t) /\ InHand(t) = 0
  <2>1. CASE Acts(c, Begun(<<p>>))
    BY <1>2, <2>1, BegunRow, CopierActs
  <2>2. CASE copier' = copier
    <3>1. CopierIs(c, copier[c])
      BY <2>2, DriveKnown DEF CopierIs
    <3>2. InHand(copier[c]) = 0
      BY <1>1 DEF InHand
    <3>3. QED BY <1>1, <3>1, <3>2, DriveKnown
  <2>3. QED BY <1>1, <2>1, <2>2
<1>4. SameTrash
  BY <1>1, TasksDiffer DEF SameTrash
<1>5. ~outran => TitleKnown'
  BY <1>1, <1>3, TasksDiffer, TitleStays DEF Renaming
<1>6. outran' \in BOOLEAN
  BY <1>1, DriveKnown
<1>7. QED BY <1>1, <1>3, <1>4, <1>5, <1>6, ReadStep

LEMMA CopyPendingStep == ASSUME DriveInv, NEW c \in Copiers, CopyPending(c) PROVE DriveInv'
<1>1. /\ copier[c].step = "none" /\ UNCHANGED <<matter, document, drive, copyRefs, copyTasks, outran>>
      /\ BatchSize \in Nat
  BY DocumentStorageAssumption DEF CopyPending, Free
<1>2. PICK n \in 1..BatchSize : \E list \in [1..n -> Missing] : Acts(c, Begun(list))
  BY DEF CopyPending
<1>3. PICK list \in [1..n -> Missing] : Acts(c, Begun(list))
  BY <1>2
<1>4. list \in Seq(Papers)
  BY <1>1 DEF Missing
<1>5. PICK t \in CopierRow : t = Begun(list)
  BY <1>4, BegunRow
<1>6. CopierIs(c, t) /\ t.step = "look" /\ HandOnDrive(t) /\ InHand(t) = 0
  BY <1>3, <1>4, <1>5, BegunRow, CopierActs
<1>7. SameTrash /\ outran' \in BOOLEAN
  BY <1>1, DriveKnown DEF SameTrash
<1>8. ~outran => TitleKnown'
  BY <1>1, <1>6, TitleStays DEF Renaming
<1>9. QED BY <1>1, <1>6, <1>7, <1>8, ReadStep

LEMMA RenameFolderStep == ASSUME DriveInv, NEW c \in Copiers, RenameFolder(c) PROVE DriveInv'
<1>1. /\ copier[c].step = "none" /\ copyTasks' = copyTasks \ {RenameTask}
      /\ IF matter.there /\ RefFor(0) # {} THEN Acts(c, Begun(<<>>)) ELSE copier' = copier
      /\ UNCHANGED <<matter, document, drive, copyRefs, outran>>
  BY DEF RenameFolder, Takes, Free, RenameTask
<1>2. <<>> \in Seq(Papers)
  OBVIOUS
<1>3. PICK t \in CopierRow : /\ CopierIs(c, t) /\ t.step \in {"none", "look"} /\ HandOnDrive(t) /\ InHand(t) = 0
                             /\ matter.there /\ RefFor(0) # {} => Renaming(t)
  <2>1. CASE matter.there /\ RefFor(0) # {}
    <3>1. Renaming(Begun(<<>>))
      BY <1>2, BegunRow DEF Renaming
    <3>2. QED BY <1>1, <1>2, <2>1, <3>1, BegunRow, CopierActs
  <2>2. CASE ~(matter.there /\ RefFor(0) # {})
    <3>1. CopierIs(c, copier[c])
      BY <1>1, <2>2, DriveKnown DEF CopierIs
    <3>2. InHand(copier[c]) = 0
      BY <1>1 DEF InHand
    <3>3. QED BY <1>1, <2>2, <3>1, <3>2, DriveKnown
  <2>3. QED BY <2>1, <2>2
<1>4. SameTrash
  BY <1>1, TasksDiffer DEF SameTrash
<1>5. ~outran => TitleKnown'
  <2>1. ~outran /\ RefFor(0) # {} => matter.there
    BY DEF DriveInv, DriveKept, RefsInPlace, RefFor
  <2>2. ~Renaming(copier[c])
    BY <1>1 DEF Renaming
  <2>3. QED BY <1>1, <1>3, <2>1, <2>2, TitleStays
<1>6. outran' \in BOOLEAN
  BY <1>1, DriveKnown
<1>7. QED BY <1>1, <1>3, <1>4, <1>5, <1>6, ReadStep

LEMMA NextPaperRow ==
    ASSUME DriveInv, NEW c \in Copiers
    PROVE  /\ NextPaper(c) \in CopierRow /\ NextPaper(c).step \in {"none", "look"}
           /\ HandOnDrive(NextPaper(c)) /\ InHand(NextPaper(c)) = 0
<1>1. PICK t \in CopierRow : t = copier[c]
  BY DriveKnown
<1>2. t.list \in Seq(Papers) /\ t.title \in Nat /\ t.title <= matter.title /\ MaxItems \in Nat /\ 0 \in 0..MaxItems
  BY <1>1, DriveKnown, HandShapes DEF HandOnDrive
<1>3. CASE Len(t.list) < 2
  BY <1>1, <1>3, IdleRow DEF NextPaper
<1>4. CASE ~(Len(t.list) < 2)
  <2>1. Tail(t.list) \in Seq(Papers)
    BY <1>2, <1>4
  <2> DEFINE u == [t EXCEPT !.step = "look", !.list = Tail(t.list), !.had = {}, !.item = 0]
  <2>2. u \in CopierRow /\ u.step = "look" /\ u.title = t.title
    BY <1>2, <2>1 DEF CopierRow
  <2>3. NextPaper(c) = u
    BY <1>1, <1>4 DEF NextPaper
  <2> HIDE DEF u
  <2>4. HandOnDrive(u) /\ InHand(u) = 0
    BY <1>2, <2>2 DEF HandOnDrive, InHand
  <2>5. QED BY <2>2, <2>3, <2>4
<1>5. QED BY <1>3, <1>4

\* A task goes on to another step, with what it has read or been given.
LEMMA ThenRow ==
    ASSUME DriveInv, NEW c \in Copiers, NEW step \in {"folder", "keep_folder", "file", "keep"},
           NEW had \in SUBSET RefRows, NEW item_ \in 0..MaxItems, Then(c, step, had, item_)
    PROVE  \E t \in CopierRow : /\ CopierIs(c, t) /\ t.step = step /\ t.had = had /\ t.item = item_
                                /\ t.list = copier[c].list /\ t.title = copier[c].title
<1>1. copier[c] \in CopierRow
  BY DriveKnown
<1> DEFINE u == [copier[c] EXCEPT !.step = step, !.had = had, !.item = item_]
<1>2. /\ u \in CopierRow /\ u.step = step /\ u.had = had /\ u.item = item_
      /\ u.list = copier[c].list /\ u.title = copier[c].title
  BY <1>1 DEF CopierRow
<1>3. Acts(c, u)
  BY DEF Then
<1> HIDE DEF u
<1>4. QED BY <1>2, <1>3, CopierActs

LEMMA LookStep == ASSUME DriveInv, NEW c \in Copiers, Look(c) PROVE DriveInv'
<1>1. /\ copier[c].step = "look" /\ UNCHANGED <<matter, document, drive, copyRefs, copyTasks, outran>>
  BY DEF Look
<1>2. /\ copier[c] \in CopierRow /\ copier[c].list \in Seq(Papers) /\ copier[c].title \in Nat
      /\ copier[c].title <= matter.title /\ MaxItems \in Nat /\ 0 \in 0..MaxItems
  BY DriveKnown, HandShapes DEF HandOnDrive
<1>3. SameTrash /\ outran' \in BOOLEAN
  BY <1>1, DriveKnown DEF SameTrash
<1>4. CASE copier[c].list # <<>> /\ Acts(c, NextPaper(c))
  <2>1. PICK t \in CopierRow : /\ t.step \in {"none", "look"} /\ CopierIs(c, t) /\ HandOnDrive(t) /\ InHand(t) = 0
    BY <1>4, NextPaperRow, CopierActs
  <2>2. ~Renaming(copier[c])
    BY <1>4 DEF Renaming
  <2>3. ~outran => TitleKnown'
    BY <1>1, <2>1, <2>2, TitleStays
  <2>4. QED BY <1>1, <1>3, <2>1, <2>3, ReadStep
<1>5. CASE RefFor(0) = {} /\ Then(c, "folder", {}, 0)
  <2>1. {} \in SUBSET RefRows
    OBVIOUS
  <2>2. PICK t \in CopierRow : /\ CopierIs(c, t) /\ t.step = "folder" /\ t.had = {} /\ t.item = 0
                               /\ t.list = copier[c].list /\ t.title = copier[c].title
    BY <1>2, <1>5, <2>1, ThenRow
  <2>3. HandOnDrive(t) /\ InHand(t) = 0
    BY <1>2, <2>2 DEF HandOnDrive, InHand
  <2>4. ~outran => TitleKnown'
    BY <1>1, <1>5, <2>2, TitleStays
  <2>5. QED BY <1>1, <1>3, <2>2, <2>3, <2>4, ReadStep
<1>6. ASSUME NEW r \in RefFor(0), r.name # copier[c].title, Then(c, "folder", {r}, r.item) PROVE DriveInv'
  <2>1. r \in copyRefs /\ r \in RefRows /\ r.item \in 1..MaxItems /\ r.item \in 0..MaxItems /\ ItemIs(r.item, 0)
    BY <1>2, DriveKnown DEF RefFor, ItemIs
  <2>2. PICK t \in CopierRow : /\ CopierIs(c, t) /\ t.step = "folder" /\ t.had = {r} /\ t.item = r.item
                               /\ t.list = copier[c].list /\ t.title = copier[c].title
    BY <1>6, <2>1, ThenRow
  <2>3. HandOnDrive(t) /\ InHand(t) = r.item
    BY <1>2, <1>6, <2>1, <2>2 DEF HandOnDrive, InHand
  <2>4. Renaming(copier[c]) => Renaming(t)
    BY <2>2 DEF Renaming
  <2>5. ~outran => TitleKnown'
    BY <1>1, <2>2, <2>4, TitleStays
  <2>6. QED BY <1>1, <1>3, <2>1, <2>2, <2>3, <2>5, ReadStep
<1>7. ASSUME NEW r \in RefFor(0), r.name = copier[c].title, copier[c].list = <<>>, Acts(c, NoCopying) PROVE DriveInv'
  <2>1. PICK t \in CopierRow : /\ t.step = "none" /\ CopierIs(c, t) /\ HandOnDrive(t) /\ InHand(t) = 0
    BY <1>7, IdleRow, CopierActs
  <2>2. ~outran => TitleKnown'
    <3>1. SUFFICES ASSUME ~outran PROVE TitleKnown'
      OBVIOUS
    <3>2. \A s \in RefFor(0) : s = r
      BY <3>1 DEF DriveInv, DriveKept, RefsInPlace, RefFor
    <3>3. Renaming(copier[c]) => \A s \in RefFor(0) : s.name = matter.title
      BY <1>7, <3>2 DEF Renaming
    <3>4. QED BY <1>1, <2>1, <3>1, <3>3, TitleStays
  <2>3. QED BY <1>1, <1>3, <2>1, <2>2, ReadStep
<1>8. ASSUME NEW r \in RefFor(0), copier[c].list # <<>>, Then(c, "file", {r}, r.item) PROVE DriveInv'
  <2>1. r \in RefRows /\ r.item \in 0..MaxItems
    BY <1>2, DriveKnown DEF RefFor
  <2>2. PICK t \in CopierRow : /\ CopierIs(c, t) /\ t.step = "file"
                               /\ t.list = copier[c].list /\ t.title = copier[c].title
    BY <1>8, <2>1, ThenRow
  <2>3. HandOnDrive(t) /\ InHand(t) = 0
    BY <1>2, <1>8, <2>2 DEF HandOnDrive, InHand
  <2>4. ~Renaming(copier[c])
    BY <1>8 DEF Renaming
  <2>5. ~outran => TitleKnown'
    BY <1>1, <2>2, <2>4, TitleStays
  <2>6. QED BY <1>1, <1>3, <2>2, <2>3, <2>5, ReadStep
<1>9. QED BY <1>4, <1>5, <1>6, <1>7, <1>8 DEF Look

LEMMA NotCopiedStep == ASSUME DriveInv, NEW c \in Copiers, NotCopied(c) PROVE DriveInv'
<1>1. /\ copier[c].step \in {"folder", "file"} /\ outran' = (outran \/ copier[c].list = <<>>) /\ Acts(c, NoCopying)
      /\ UNCHANGED <<matter, document, drive, copyRefs, copyTasks>>
  BY DEF NotCopied
<1>2. PICK t \in CopierRow : /\ t.step = "none" /\ CopierIs(c, t) /\ HandOnDrive(t) /\ InHand(t) = 0
  BY <1>1, IdleRow, CopierActs
<1>3. SameTrash /\ outran' \in BOOLEAN
  BY <1>1, DriveKnown DEF SameTrash
<1>4. ~outran' => TitleKnown'
  BY <1>1, <1>2, TitleStays DEF Renaming
<1>5. QED BY <1>1, <1>2, <1>3, <1>4, ReadStep

LEMMA CopierDiesStep == ASSUME DriveInv, NEW c \in Copiers, CopierDies(c) PROVE DriveInv'
<1>1. /\ outran' = (outran \/ copier[c].step \in {"keep_folder", "keep"} \/ copier[c].list = <<>>) /\ Acts(c, NoCopying)
      /\ UNCHANGED <<matter, document, drive, copyRefs, copyTasks>>
  BY DEF CopierDies
<1>2. PICK t \in CopierRow : /\ t.step = "none" /\ CopierIs(c, t) /\ HandOnDrive(t) /\ InHand(t) = 0
  BY <1>1, IdleRow, CopierActs
<1>3. SameTrash /\ outran' \in BOOLEAN
  BY <1>1, DriveKnown DEF SameTrash
<1>4. ~outran' => TitleKnown'
  BY <1>1, <1>2, TitleStays DEF Renaming
<1>5. QED BY <1>1, <1>2, <1>3, <1>4, ReadStep

\* What staff do: refs that go leave their copies to be trashed, and a new title a rename.
LEMMA DriveStaffStep ==
    ASSUME DriveInv, UNCHANGED <<drive, copier, outran>>, copyRefs' \subseteq copyRefs, copyTasks' \subseteq Tasks,
           matter' \in [there : BOOLEAN, title : 1..MaxTitles], matter.title <= matter'.title,
           document' \in [Papers -> {"new", "there", "gone"}],
           \A i \in 1..MaxItems : TrashOf(i) \in copyTasks' <=>
                TrashOf(i) \in copyTasks \/ \E r \in copyRefs \ copyRefs' : r.item = i,
           ~outran => \A r \in copyRefs' : (r.of = 0 => matter'.there) /\ (r.of # 0 => document'[r.of] = "there"),
           \/ RefFor(0)' = {}
           \/ /\ RefFor(0)' = RefFor(0) /\ copyTasks \subseteq copyTasks'
              /\ matter' = matter \/ (RenameTask \in copyTasks' /\ matter.title < matter'.title)
    PROVE  DriveInv'
<1>1. matter'.title \in Nat /\ DriveGrows
  BY DriveKnown, DriveSame
<1>2. DriveShapes'
  BY DriveKnown DEF DriveShapes, RefRows, CopierRow
<1>3. OnDrive'
  <2>1. \A i \in 1..MaxItems : TrashOf(i) \in copyTasks' => TrashOf(i) \in copyTasks \/ i \in DOMAIN drive
    BY DriveKnown
  <2>2. \A r \in copyRefs' : r \in copyRefs
    OBVIOUS
  <2>3. QED BY <1>1, <2>1, <2>2, OnDriveNext
<1>4. ASSUME ~outran' PROVE DriveKept'
  <2>1. ~outran /\ RefsInPlace /\ NotLinkedAlone /\ AllKnown /\ FolderNamed /\ TitleKnown
    BY <1>4 DEF DriveInv, DriveKept
  <2>2. \A r, s \in copyRefs : r.item = s.item => r = s
    BY <2>1, DriveKnown DEF RefsInPlace
  <2>3. RefsInPlace'
    <3>1. ASSUME NEW r \in copyRefs'
          PROVE  /\ ~drive[r.item].trashed /\ TrashOf(r.item) \notin copyTasks'
                 /\ r.of = 0 => matter'.there
                 /\ r.of # 0 => document'[r.of] = "there"
      BY <2>1, <2>2, DriveKnown DEF RefsInPlace
    <3>2. \A r, s \in copyRefs' : r.of = s.of => r = s
      BY <2>1 DEF RefsInPlace
    <3>3. QED BY <3>1, <3>2 DEF RefsInPlace, TrashOf
  <2>4. NotLinkedAlone'
    <3>1. SUFFICES ASSUME NEW d \in Copiers, NotLinked(copier[d])
                   PROVE  /\ ~drive[copier[d].item].trashed /\ TrashOf(copier[d].item) \notin copyTasks'
                          /\ copier[d].step = "keep_folder" => drive[copier[d].item].name = copier[d].title
                          /\ \A r \in copyRefs' : r.item # copier[d].item
                          /\ \A e \in Copiers \ {d} : InHand(copier[e]) # copier[d].item
      BY DEF NotLinkedAlone, NotLinked, InHand, TrashOf
    <3>2. /\ ~drive[copier[d].item].trashed /\ TrashOf(copier[d].item) \notin copyTasks
          /\ copier[d].step = "keep_folder" => drive[copier[d].item].name = copier[d].title
          /\ \A r \in copyRefs : r.item # copier[d].item
          /\ \A e \in Copiers \ {d} : InHand(copier[e]) # copier[d].item
      BY <2>1, <3>1 DEF NotLinkedAlone
    <3>3. copier[d].item \in 1..MaxItems
      BY <3>1, DriveKnown DEF NotLinked, HandOnDrive, ItemIs
    <3>4. QED BY <3>2, <3>3
  <2>5. AllKnown'
    <3>1. ASSUME NEW i \in DOMAIN drive
          PROVE  \/ drive[i].trashed \/ TrashOf(i) \in copyTasks'
                 \/ \E r \in copyRefs' : r.item = i
                 \/ \E d \in Copiers : copier[d].step \in {"keep_folder", "keep"} /\ copier[d].item = i
      <4>1. i \in 1..MaxItems
        BY DriveKnown
      <4>2. QED BY <2>1, <4>1 DEF AllKnown
    <3>2. QED BY <3>1 DEF AllKnown, TrashOf
  <2>6. CASE RefFor(0)' = {}
    BY <2>3, <2>4, <2>5, <2>6 DEF DriveKept, FolderNamed, TitleKnown
  <2>7. CASE /\ RefFor(0)' = RefFor(0) /\ copyTasks \subseteq copyTasks'
             /\ matter' = matter \/ (RenameTask \in copyTasks' /\ matter.title < matter'.title)
    <3>1. ASSUME NEW d \in Copiers, MayNote(copier[d])' PROVE MayNote(copier[d])
      <4>1. copier[d].title \in Nat /\ copier[d].title <= matter.title /\ matter.title \in Nat
        BY DriveKnown, HandShapes DEF HandOnDrive
      <4>2. RefFor(0)' = copier[d].had /\ matter'.there /\ matter'.title = copier[d].title
        BY <3>1 DEF MayNote
      <4>3. QED BY <1>1, <2>7, <4>1, <4>2 DEF MayNote
    <3>2. \A r : Naming(r)' = Naming(r) /\ Naming(r) \subseteq Copiers
      BY DEF Naming
    <3>3. FolderNamed'
      BY <2>1, <2>7, <3>1, <3>2 DEF FolderNamed
    <3>4. TitleKnown'
      BY <2>1, <2>7 DEF TitleKnown, Renaming, RenameTask
    <3>5. QED BY <2>3, <2>4, <2>5, <3>3, <3>4 DEF DriveKept
  <2>8. QED BY <2>6, <2>7
<1>5. QED BY <1>2, <1>3, <1>4 DEF DriveInv

LEMMA TaskShapes ==
    /\ \A p \in Papers : [do |-> "copy", on |-> p] \in Tasks
    /\ RenameTask \in Tasks
    /\ \A i \in 1..MaxItems : TrashOf(i) \in Tasks
  BY DEF Tasks, RenameTask, TrashOf

LEMMA AddPaperStep == ASSUME DriveInv, NEW p \in Papers, AddPaper(p) PROVE DriveInv'
<1>1. /\ document[p] = "new" /\ document' = [document EXCEPT ![p] = "there"]
      /\ copyTasks' = copyTasks \cup {[do |-> "copy", on |-> p]}
      /\ UNCHANGED <<matter, drive, copyRefs, copier, outran>>
  BY DEF AddPaper
<1>2. document' \in [Papers -> {"new", "there", "gone"}] /\ \A q \in Papers : document[q] = "there" => document'[q] = "there"
  BY <1>1, DriveKnown
<1>3. copyTasks' \subseteq Tasks /\ RefFor(0)' = RefFor(0) /\ copyRefs \ copyRefs' = {}
  BY <1>1, DriveKnown, TaskShapes DEF RefFor
<1>4. \A i \in 1..MaxItems : TrashOf(i) \in copyTasks' <=> TrashOf(i) \in copyTasks
  BY <1>1, TasksDiffer
<1>5. ~outran => \A r \in copyRefs' : (r.of = 0 => matter'.there) /\ (r.of # 0 => document'[r.of] = "there")
  <2>1. \A r \in copyRefs : r.of = 0 \/ r.of \in Papers
    BY DriveKnown DEF Copied
  <2>2. QED BY <1>1, <1>2, <2>1 DEF DriveInv, DriveKept, RefsInPlace
<1>6. QED BY <1>1, <1>2, <1>3, <1>4, <1>5, DriveStaffStep, DriveKnown

LEMMA RetitleStep == ASSUME DriveInv, Retitle PROVE DriveInv'
<1>1. /\ matter.there /\ matter.title < MaxTitles /\ matter' = [matter EXCEPT !.title = @ + 1]
      /\ copyTasks' = copyTasks \cup {RenameTask : r \in RefFor(0)}
      /\ UNCHANGED <<document, drive, copyRefs, copier, outran>>
  BY DEF Retitle, RenameTask
<1>2. /\ matter' \in [there : BOOLEAN, title : 1..MaxTitles] /\ matter'.there /\ matter.title < matter'.title
      /\ matter.title <= matter'.title
  BY <1>1, DriveKnown
<1>3. copyTasks' \subseteq Tasks /\ RefFor(0)' = RefFor(0) /\ copyRefs \ copyRefs' = {}
  BY <1>1, DriveKnown, TaskShapes DEF RefFor
<1>4. \A i \in 1..MaxItems : TrashOf(i) \in copyTasks' <=> TrashOf(i) \in copyTasks
  BY <1>1, TasksDiffer
<1>5. RefFor(0)' = {} \/ RenameTask \in copyTasks'
  BY <1>1, <1>3
<1>6. ~outran => \A r \in copyRefs' : (r.of = 0 => matter'.there) /\ (r.of # 0 => document'[r.of] = "there")
  BY <1>1, <1>2 DEF DriveInv, DriveKept, RefsInPlace
<1>7. QED BY <1>1, <1>2, <1>3, <1>4, <1>5, <1>6, DriveStaffStep, DriveKnown

LEMMA TrashCopiesKnown ==
    ASSUME DriveInv, NEW S, TrashCopies(S)
    PROVE  /\ copyRefs' = {r \in copyRefs : r.of \notin S} /\ copyTasks' \subseteq Tasks /\ copyTasks \subseteq copyTasks'
           /\ \A i \in 1..MaxItems : TrashOf(i) \in copyTasks' <=>
                TrashOf(i) \in copyTasks \/ \E r \in copyRefs \ copyRefs' : r.item = i
<1>1. /\ copyRefs' = {r \in copyRefs : r.of \notin S}
      /\ copyTasks' = copyTasks \cup {TrashOf(r.item) : r \in copyRefs \ copyRefs'}
  BY DEF TrashCopies, TrashOf
<1>2. copyTasks' \subseteq Tasks
  BY <1>1, DriveKnown, TaskShapes
<1>3. QED BY <1>1, <1>2, TasksDiffer

LEMMA DeletePaperStep == ASSUME DriveInv, NEW p \in Papers, DeletePaper(p) PROVE DriveInv'
<1>1. /\ document' = [document EXCEPT ![p] = "gone"] /\ TrashCopies({p})
      /\ UNCHANGED <<matter, drive, copier, outran>>
  BY DEF DeletePaper
<1>2. document' \in [Papers -> {"new", "there", "gone"}] /\ \A q \in Papers \ {p} : document'[q] = document[q]
  BY <1>1, DriveKnown
<1>3. p # 0 /\ copyRefs' = {r \in copyRefs : r.of # p}
  BY <1>1, TrashCopiesKnown DEF Papers
<1>4. RefFor(0)' = RefFor(0)
  BY <1>3 DEF RefFor
<1>5. ~outran => \A r \in copyRefs' : (r.of = 0 => matter'.there) /\ (r.of # 0 => document'[r.of] = "there")
  <2>1. \A r \in copyRefs : r.of = 0 \/ r.of \in Papers
    BY DriveKnown DEF Copied
  <2>2. QED BY <1>1, <1>2, <1>3, <2>1 DEF DriveInv, DriveKept, RefsInPlace
<1>6. QED BY <1>1, <1>2, <1>3, <1>4, <1>5, TrashCopiesKnown, DriveStaffStep, DriveKnown

LEMMA DeleteMatterStep == ASSUME DriveInv, DeleteMatter PROVE DriveInv'
<1>1. /\ matter' = [matter EXCEPT !.there = FALSE] /\ TrashCopies(Copied)
      /\ document' = [p \in Papers |-> IF document[p] = "there" THEN "gone" ELSE document[p]]
      /\ UNCHANGED <<drive, copier, outran>>
  BY DEF DeleteMatter
<1>2. /\ document' \in [Papers -> {"new", "there", "gone"}]
      /\ matter' \in [there : BOOLEAN, title : 1..MaxTitles] /\ matter'.title = matter.title
  BY <1>1, DriveKnown
<1>3. copyRefs' = {}
  BY <1>1, TrashCopiesKnown, DriveKnown
<1>4. RefFor(0)' = {} /\ matter.title <= matter'.title
  BY <1>2, <1>3, DriveKnown DEF RefFor
<1>5. QED BY <1>1, <1>2, <1>3, <1>4, TrashCopiesKnown, DriveStaffStep

LEMMA MadeKnownOnDrive ==
    ASSUME DriveInv, NEW x \in Copied, NEW n \in 0..MaxTitles, Len(drive) < MaxItems, drive' = Made(x, n)
    PROVE  /\ drive' \in Seq(DriveItem) /\ Len(drive') = Len(drive) + 1 /\ Len(drive') <= MaxItems
           /\ Len(drive') \in 0..MaxItems /\ Len(drive') \in 1..MaxItems /\ Len(drive') # 0
           /\ Len(drive') \notin DOMAIN drive /\ DOMAIN drive' = DOMAIN drive \cup {Len(drive')}
           /\ \A i \in DOMAIN drive : drive'[i] = drive[i]
           /\ drive'[Len(drive')].of = x /\ drive'[Len(drive')].name = n /\ ~drive'[Len(drive')].trashed
           /\ DriveGrows \/ matter' # matter
<1> DEFINE e == [of |-> x, name |-> n, trashed |-> FALSE]
<1>1. e \in DriveItem /\ e.of = x /\ e.name = n /\ ~e.trashed
  BY DEF DriveItem
<1>2. drive' = Append(drive, e)
  BY DEF Made
<1> HIDE DEF e
<1>3. /\ drive \in Seq(DriveItem) /\ DOMAIN drive = 1..Len(drive) /\ Len(drive) \in Nat /\ MaxItems \in Nat
      /\ matter.title \in Nat
  BY DriveKnown
<1>4. /\ drive' \in Seq(DriveItem) /\ Len(drive') = Len(drive) + 1 /\ drive'[Len(drive')] = e
      /\ \A i \in 1..Len(drive) : drive'[i] = drive[i]
  BY <1>1, <1>2, <1>3
<1>5. DOMAIN drive' = 1..(Len(drive) + 1)
  BY <1>4
<1>6. /\ Len(drive') \notin DOMAIN drive /\ DOMAIN drive' = DOMAIN drive \cup {Len(drive')}
      /\ Len(drive') \in 0..MaxItems /\ Len(drive') \in 1..MaxItems /\ Len(drive') # 0 /\ Len(drive') <= MaxItems
  BY <1>3, <1>4, <1>5
<1>7. DriveGrows \/ matter' # matter
  BY <1>3, <1>4, <1>6 DEF DriveGrows
<1>8. QED BY <1>1, <1>3, <1>4, <1>6, <1>7

\* What a task has in hand is on the drive.
LEMMA InHandKnown ==
    ASSUME DriveInv, NEW c \in Copiers
    PROVE  /\ InHand(copier[c]) = 0 \/ InHand(copier[c]) \in DOMAIN drive
           /\ NotLinked(copier[c]) => /\ InHand(copier[c]) = copier[c].item /\ copier[c].item \in DOMAIN drive
                                      /\ copier[c].item # 0
  BY DriveKnown DEF InHand, NotLinked, HandOnDrive, ItemIs

\* A task makes a folder or a copy, which it then has in hand.
LEMMA MakeStep ==
    ASSUME DriveInv, NEW c \in Copiers, NEW t \in CopierRow, CopierIs(c, t), NEW x \in Copied, NEW n \in 0..MaxTitles,
           Len(drive) < MaxItems, drive' = Made(x, n), UNCHANGED <<matter, document, copyRefs, copyTasks, outran>>,
           copier[c].step \in {"folder", "file"}, t.step \in {"keep_folder", "keep"}, t.item = Len(drive'),
           t.step = "keep_folder" => n = t.title, HandOnDrive(t)', Renaming(copier[c]) => Renaming(t)
    PROVE  DriveInv'
<1>1. copier' \in [Copiers -> CopierRow] /\ copier'[c] = t /\ \A d \in Copiers \ {c} : copier'[d] = copier[d]
  BY DEF CopierIs
<1> DEFINE j == Len(drive')
<1>2. /\ drive' \in Seq(DriveItem) /\ j <= MaxItems /\ j \notin DOMAIN drive /\ DOMAIN drive' = DOMAIN drive \cup {j} /\ j # 0
      /\ \A i \in DOMAIN drive : drive'[i] = drive[i]
      /\ drive'[j].name = n /\ ~drive'[j].trashed /\ DriveGrows /\ j \in 1..MaxItems
  BY MadeKnownOnDrive
<1> HIDE DEF j
<1>3. DriveShapes'
  BY <1>1, <1>2, DriveKnown DEF DriveShapes, RefRows, CopierRow, DriveItem, j
<1>4. OnDrive'
  <2>1. HandOnDrive(copier[c])'
    BY <1>1
  <2>2. \A d \in Copiers : copier'[d] = copier[d] \/ HandOnDrive(copier[d])'
    BY <1>1, <2>1
  <2>3. QED BY <1>2, <2>2, OnDriveNext, DriveKnown
<1>5. ASSUME ~outran' PROVE DriveKept'
  <2>1. ~outran /\ RefsInPlace /\ NotLinkedAlone /\ AllKnown /\ FolderNamed
    BY <1>5 DEF DriveInv, DriveKept
  <2>2. RefsInPlace'
    BY <1>2, <2>1, DriveKnown DEF RefsInPlace, TrashOf
  <2>3. TrashOf(j) \notin copyTasks
    BY <1>2, DriveKnown DEF OnDrive
  <2>4. NotLinkedAlone'
    <3>1. SUFFICES ASSUME NEW d \in Copiers, NotLinked(copier'[d])
                   PROVE  /\ ~drive'[copier'[d].item].trashed /\ TrashOf(copier'[d].item) \notin copyTasks
                          /\ copier'[d].step = "keep_folder" => drive'[copier'[d].item].name = copier'[d].title
                          /\ \A r \in copyRefs : r.item # copier'[d].item
                          /\ \A e \in Copiers \ {d} : InHand(copier'[e]) # copier'[d].item
      BY DEF NotLinkedAlone, NotLinked, InHand, TrashOf
    <3>2. CASE d = c
      <4>1. copier'[d] = t /\ t.item = j
        BY <1>1, <3>2 DEF j
      <4>2. \A e \in Copiers \ {d} : InHand(copier'[e]) # j
        BY <1>1, <1>2, <3>2, InHandKnown
      <4>3. \A r \in copyRefs : r.item # j
        BY <1>2, DriveKnown
      <4>4. QED BY <1>2, <2>3, <4>1, <4>2, <4>3
    <3>3. CASE d # c
      <4>1. copier'[d] = copier[d]
        BY <1>1, <3>3
      <4>2. /\ ~drive[copier[d].item].trashed /\ TrashOf(copier[d].item) \notin copyTasks
            /\ copier[d].step = "keep_folder" => drive[copier[d].item].name = copier[d].title
            /\ \A r \in copyRefs : r.item # copier[d].item
            /\ \A e \in Copiers \ {d} : InHand(copier[e]) # copier[d].item
        BY <2>1, <3>1, <4>1 DEF NotLinkedAlone
      <4>3. copier[d].item \in DOMAIN drive
        BY <3>1, <4>1, InHandKnown
      <4>4. InHand(t) = j
        BY DEF InHand, j
      <4>5. \A e \in Copiers \ {d} : InHand(copier'[e]) # copier[d].item
        BY <1>1, <1>2, <4>2, <4>3, <4>4
      <4>6. QED BY <1>2, <4>1, <4>2, <4>3, <4>5
    <3>4. QED BY <3>2, <3>3
  <2>5. AllKnown'
    <3>1. ASSUME NEW i \in DOMAIN drive'
          PROVE  \/ drive'[i].trashed \/ TrashOf(i) \in copyTasks
                 \/ \E r \in copyRefs : r.item = i
                 \/ \E d \in Copiers : copier'[d].step \in {"keep_folder", "keep"} /\ copier'[d].item = i
      <4>1. CASE i = j
        BY <1>1, <4>1 DEF j
      <4>2. CASE i \in DOMAIN drive
        <5>1. \/ drive[i].trashed \/ TrashOf(i) \in copyTasks
              \/ \E r \in copyRefs : r.item = i
              \/ \E d \in Copiers \ {c} : copier[d].step \in {"keep_folder", "keep"} /\ copier[d].item = i
          BY <2>1, <4>2 DEF AllKnown
        <5>2. QED BY <1>1, <1>2, <4>2, <5>1
      <4>3. QED BY <1>2, <4>1, <4>2
    <3>2. QED BY <3>1 DEF AllKnown, TrashOf
  <2>6. FolderNamed'
    <3>1. ASSUME NEW r \in RefFor(0)
          PROVE  /\ Naming(r)' = Naming(r) /\ drive'[r.item] = drive[r.item]
                 /\ \A d \in Naming(r) : copier'[d] = copier[d]
      <4>1. r.item \in DOMAIN drive
        BY DriveKnown DEF RefFor
      <4>2. c \notin Naming(r) /\ c \notin Naming(r)'
        BY <1>1, <1>2, <4>1 DEF Naming, j
      <4>3. QED BY <1>1, <1>2, <4>1, <4>2 DEF Naming
    <3>2. RefFor(0)' = RefFor(0)
      BY DEF RefFor
    <3>3. \A u : MayNote(u)' <=> MayNote(u)
      BY <3>2 DEF MayNote
    <3>4. ASSUME NEW r \in RefFor(0)
          PROVE  \/ \E d \in Naming(r)' : copier'[d].title = drive'[r.item].name
                 \/ r.name = drive'[r.item].name /\ \A d \in Naming(r)' : ~MayNote(copier'[d])
      BY <2>1, <3>1 DEF FolderNamed
    <3>5. QED BY <3>2, <3>3, <3>4 DEF FolderNamed, MayNote, Naming
  <2>7. TitleKnown'
    BY <2>1, TitleStays
  <2>8. QED BY <2>2, <2>4, <2>5, <2>6, <2>7 DEF DriveKept
<1>6. QED BY <1>3, <1>4, <1>5 DEF DriveInv

LEMMA MakeItStep ==
    ASSUME DriveInv, NEW c \in Copiers, copier[c].step = "folder", MakeIt(c),
           UNCHANGED <<matter, document, copyRefs, copyTasks, outran>>
    PROVE  DriveInv'
<1>1. PICK was \in CopierRow : was = copier[c]
  BY DriveKnown
<1>2. /\ was.step = "folder" /\ (was.item = 0 \/ drive[was.item].trashed)
      /\ Len(drive) < MaxItems /\ drive' = Made(0, was.title) /\ Then(c, "keep_folder", was.had, Len(drive'))
  BY <1>1 DEF MakeIt, DriveRenames, OneDriveRenames
<1>3. HandOnDrive(was) /\ MaxTitles \in Nat /\ MaxItems \in Nat /\ matter.title \in Nat
  BY <1>1, DriveKnown
<1>4. was.title \in 0..MaxTitles /\ was.had \in SUBSET RefRows /\ 0 \in Copied /\ \A r \in was.had : r.item # 0
  BY <1>3, HandShapes DEF Copied, RefRows
<1>5. /\ Len(drive') \in 0..MaxItems /\ Len(drive') # 0 /\ DriveGrows
      /\ DOMAIN drive' = DOMAIN drive \cup {Len(drive')} /\ drive'[Len(drive')].of = 0
  BY <1>2, <1>4, MadeKnownOnDrive
<1>6. PICK t \in CopierRow : /\ CopierIs(c, t) /\ t.step = "keep_folder" /\ t.had = was.had /\ t.item = Len(drive')
                             /\ t.list = was.list /\ t.title = was.title
  BY <1>1, <1>2, <1>4, <1>5, ThenRow
<1>7. HandOnDrive(t)'
  <2>1. HandOnDrive(was)'
    BY <1>3, <1>5, HandStays
  <2>2. was.had = {} \/ \E r \in was.had : was.had = {r} /\ r.item \in DOMAIN drive /\ drive[r.item].trashed
    BY <1>2, <1>3, <1>4 DEF HandOnDrive, ItemIs
  <2>3. t.had = {} \/ \E r \in t.had : t.had = {r} /\ (t.item = r.item \/ (r.item \in DOMAIN drive' /\ drive'[r.item].trashed))
    BY <1>5, <1>6, <2>2 DEF DriveGrows
  <2>4. (\A r \in t.had : r.name # t.title) /\ t.title <= matter'.title
    BY <1>2, <1>3, <1>6 DEF HandOnDrive
  <2>5. t.item \in DOMAIN drive' /\ drive'[t.item].of = 0 /\ t.item # 0
    BY <1>5, <1>6
  <2>6. QED BY <1>6, <2>3, <2>4, <2>5 DEF HandOnDrive, ItemIs
<1>8. Renaming(copier[c]) => Renaming(t)
  BY <1>1, <1>6 DEF Renaming
<1>9. QED BY <1>1, <1>2, <1>4, <1>6, <1>7, <1>8, MakeStep

LEMMA SaveFileStep == ASSUME DriveInv, NEW c \in Copiers, SaveFile(c) PROVE DriveInv'
<1>1. PICK was \in CopierRow : was = copier[c]
  BY DriveKnown
<1>2. /\ was.step = "file" /\ Len(drive) < MaxItems /\ drive' = Made(was.list[1], 0) /\ Then(c, "keep", {}, Len(drive'))
      /\ UNCHANGED <<matter, document, copyRefs, copyTasks, outran>>
  BY <1>1 DEF SaveFile
<1>3. HandOnDrive(was) /\ MaxTitles \in Nat /\ MaxItems \in Nat /\ 0 \in 0..MaxTitles
  BY <1>1, DriveKnown
<1>4. was.list \in Seq(Papers) /\ was.list # <<>> /\ {} \in SUBSET RefRows
  BY <1>2, <1>3, HandShapes DEF HandOnDrive
<1>5. was.list[1] \in Copied
  BY <1>4 DEF Copied
<1>6. /\ Len(drive') \in 0..MaxItems /\ Len(drive') # 0
      /\ DOMAIN drive' = DOMAIN drive \cup {Len(drive')} /\ drive'[Len(drive')].of = was.list[1]
  BY <1>2, <1>3, <1>5, MadeKnownOnDrive
<1>7. PICK t \in CopierRow : /\ CopierIs(c, t) /\ t.step = "keep" /\ t.item = Len(drive')
                             /\ t.list = was.list /\ t.title = was.title
  BY <1>1, <1>2, <1>4, <1>6, ThenRow
<1>8. HandOnDrive(t)'
  BY <1>2, <1>3, <1>4, <1>6, <1>7 DEF HandOnDrive, ItemIs
<1>9. ~Renaming(copier[c])
  BY <1>1, <1>2 DEF Renaming
<1>10. QED BY <1>1, <1>2, <1>3, <1>5, <1>7, <1>8, <1>9, MakeStep

LEMMA RenameItStep ==
    ASSUME DriveInv, NEW c \in Copiers, copier[c].step = "folder", RenameIt(c),
           UNCHANGED <<matter, document, copyRefs, copyTasks, outran>>
    PROVE  DriveInv'
<1>1. PICK was \in CopierRow : was = copier[c]
  BY DriveKnown
<1>2. /\ was.step = "folder" /\ was.item # 0
      /\ drive' = [drive EXCEPT ![was.item].name = was.title] /\ Then(c, "keep_folder", was.had, was.item)
  BY <1>1 DEF RenameIt, DriveRenames, OneDriveRenames
<1>3. /\ HandOnDrive(was) /\ MaxTitles \in Nat /\ MaxItems \in Nat /\ matter.title \in Nat /\ was.title \in 0..MaxTitles
      /\ was.had \in SUBSET RefRows /\ was.item \in 0..MaxItems
  BY <1>1, DriveKnown, HandShapes
<1>4. PICK i \in DOMAIN drive : i = was.item
  BY <1>2, <1>3 DEF HandOnDrive, ItemIs
<1>5. drive[i].of = 0 /\ drive[i] \in DriveItem /\ DOMAIN drive = 1..Len(drive) /\ drive \in Seq(DriveItem) /\ Len(drive) \in Nat
  BY <1>2, <1>3, <1>4, DriveKnown DEF HandOnDrive, ItemIs
<1> DEFINE e == [drive[i] EXCEPT !.name = was.title]
<1>6. e \in DriveItem /\ e.of = 0 /\ e.name = was.title /\ e.trashed = drive[i].trashed
  BY <1>3, <1>5 DEF DriveItem
<1>7. drive' = [drive EXCEPT ![i] = e]
  BY <1>2, <1>4
<1> HIDE DEF e
<1>8. /\ drive' \in Seq(DriveItem) /\ Len(drive') = Len(drive) /\ DOMAIN drive' = DOMAIN drive /\ drive'[i] = e
      /\ \A j \in DOMAIN drive : j # i => drive'[j] = drive[j]
  BY <1>5, <1>6, <1>7, ExceptSeq
<1>9. DriveGrows /\ \A j \in DOMAIN drive : drive'[j].trashed = drive[j].trashed /\ drive'[j].of = drive[j].of
  <2>1. ASSUME NEW j \in DOMAIN drive
        PROVE  j \in DOMAIN drive' /\ drive'[j].trashed = drive[j].trashed /\ drive'[j].of = drive[j].of
    <3>1. CASE j = i
      BY <1>5, <1>6, <1>8, <3>1
    <3>2. CASE j # i
      BY <1>8, <3>2
    <3>3. QED BY <3>1, <3>2
  <2>2. matter'.title = matter.title /\ matter.title <= matter'.title
    BY <1>3
  <2>3. QED BY <2>1, <2>2 DEF DriveGrows
<1>10. PICK t \in CopierRow : /\ CopierIs(c, t) /\ t.step = "keep_folder" /\ t.had = was.had /\ t.item = i
                              /\ t.list = was.list /\ t.title = was.title
  BY <1>1, <1>2, <1>3, <1>4, ThenRow
<1>11. copier' \in [Copiers -> CopierRow] /\ copier'[c] = t /\ \A d \in Copiers \ {c} : copier'[d] = copier[d]
  BY <1>10 DEF CopierIs
<1>12. DriveShapes'
  BY <1>8, <1>11, DriveKnown DEF DriveShapes, RefRows, CopierRow, DriveItem
<1>13. t.had # {} /\ HandOnDrive(t)'
  <2>1. \E r \in was.had : was.had = {r} /\ was.item = r.item
    BY <1>2, <1>3 DEF HandOnDrive
  <2>2. (\A r \in t.had : r.name # t.title) /\ t.title <= matter'.title
    BY <1>2, <1>3, <1>10 DEF HandOnDrive
  <2>3. t.item \in DOMAIN drive' /\ drive'[t.item].of = 0 /\ t.item # 0
    BY <1>2, <1>4, <1>6, <1>8, <1>10
  <2>4. \E r \in t.had : t.had = {r} /\ t.item = r.item
    BY <1>4, <1>10, <2>1
  <2>5. QED BY <1>10, <2>2, <2>3, <2>4 DEF HandOnDrive, ItemIs
<1>14. OnDrive'
  <2>1. HandOnDrive(copier[c])'
    BY <1>11, <1>13
  <2>2. \A d \in Copiers : copier'[d] = copier[d] \/ HandOnDrive(copier[d])'
    BY <1>11, <2>1
  <2>3. QED BY <1>9, <2>2, OnDriveNext, DriveKnown
<1>15. ASSUME ~outran' PROVE DriveKept'
  <2>1. ~outran /\ RefsInPlace /\ NotLinkedAlone /\ AllKnown /\ FolderNamed
    BY <1>15 DEF DriveInv, DriveKept
  <2>2. RefsInPlace'
    BY <1>9, <2>1, DriveKnown DEF RefsInPlace, TrashOf
  <2>3. InHand(copier[c]) = i /\ InHand(t) = i /\ ~NotLinked(t)
    BY <1>1, <1>2, <1>4, <1>10, <1>13 DEF InHand, NotLinked
  <2>4. NotLinkedAlone'
    <3>1. SUFFICES ASSUME NEW d \in Copiers, NotLinked(copier'[d])
                   PROVE  /\ ~drive'[copier'[d].item].trashed /\ TrashOf(copier'[d].item) \notin copyTasks
                          /\ copier'[d].step = "keep_folder" => drive'[copier'[d].item].name = copier'[d].title
                          /\ \A r \in copyRefs : r.item # copier'[d].item
                          /\ \A f \in Copiers \ {d} : InHand(copier'[f]) # copier'[d].item
      BY DEF NotLinkedAlone, NotLinked, InHand, TrashOf
    <3>2. d # c /\ copier'[d] = copier[d]
      BY <1>11, <2>3, <3>1
    <3>3. /\ ~drive[copier[d].item].trashed /\ TrashOf(copier[d].item) \notin copyTasks
          /\ copier[d].step = "keep_folder" => drive[copier[d].item].name = copier[d].title
          /\ \A r \in copyRefs : r.item # copier[d].item
          /\ \A f \in Copiers \ {d} : InHand(copier[f]) # copier[d].item
      BY <2>1, <3>1, <3>2 DEF NotLinkedAlone
    <3>4. copier[d].item \in DOMAIN drive /\ copier[d].item # i
      BY <2>3, <3>1, <3>2, <3>3, InHandKnown
    <3>5. \A f \in Copiers \ {d} : InHand(copier'[f]) # copier[d].item
      BY <1>11, <2>3, <3>3, <3>4
    <3>6. QED BY <1>8, <3>2, <3>3, <3>4, <3>5
  <2>5. AllKnown'
    <3>1. ASSUME NEW j \in DOMAIN drive
          PROVE  \/ drive'[j].trashed \/ TrashOf(j) \in copyTasks
                 \/ \E r \in copyRefs : r.item = j
                 \/ \E d \in Copiers : copier'[d].step \in {"keep_folder", "keep"} /\ copier'[d].item = j
      <4>1. \/ drive[j].trashed \/ TrashOf(j) \in copyTasks
            \/ \E r \in copyRefs : r.item = j
            \/ \E d \in Copiers \ {c} : copier[d].step \in {"keep_folder", "keep"} /\ copier[d].item = j
        BY <2>1 DEF AllKnown
      <4>2. QED BY <1>9, <1>11, <4>1
    <3>2. QED BY <1>8, <3>1 DEF AllKnown, TrashOf
  <2>6. FolderNamed'
    <3>1. RefFor(0)' = RefFor(0)
      BY DEF RefFor
    <3>2. \A u : MayNote(u)' <=> MayNote(u)
      BY <3>1 DEF MayNote
    <3>3. ASSUME NEW r \in RefFor(0)
          PROVE  \/ \E d \in Naming(r)' : copier'[d].title = drive'[r.item].name
                 \/ r.name = drive'[r.item].name /\ \A d \in Naming(r)' : ~MayNote(copier'[d])
      <4>1. CASE r.item = i
        <5>1. c \in Naming(r)'
          BY <1>10, <1>11, <4>1 DEF Naming
        <5>2. QED BY <1>6, <1>8, <1>10, <1>11, <4>1, <5>1
      <4>2. CASE r.item # i
        <5>1. r.item \in DOMAIN drive
          BY DriveKnown DEF RefFor
        <5>2. c \notin Naming(r) /\ c \notin Naming(r)'
          BY <1>10, <1>11, <4>2 DEF Naming
        <5>3. Naming(r)' = Naming(r) /\ \A d \in Naming(r) : copier'[d] = copier[d]
          BY <1>11, <5>2 DEF Naming
        <5>4. drive'[r.item] = drive[r.item]
          BY <1>8, <4>2, <5>1
        <5>5. QED BY <2>1, <5>3, <5>4 DEF FolderNamed
      <4>3. QED BY <4>1, <4>2
    <3>4. QED BY <3>1, <3>2, <3>3 DEF FolderNamed, MayNote, Naming
  <2>7. TitleKnown'
    <3>1. Renaming(copier[c]) => Renaming(t)
      BY <1>1, <1>10 DEF Renaming
    <3>2. QED BY <1>10, <2>1, <3>1, TitleStays
  <2>8. QED BY <2>2, <2>4, <2>5, <2>6, <2>7 DEF DriveKept
<1>16. QED BY <1>12, <1>14, <1>15 DEF DriveInv

LEMMA SaveFolderStep == ASSUME DriveInv, NEW c \in Copiers, SaveFolder(c) PROVE DriveInv'
  BY RenameItStep, MakeItStep DEF SaveFolder

LEMMA TrashCopyStep ==
    ASSUME DriveInv, NEW c \in Copiers, NEW i \in 1..MaxItems, NEW ok \in BOOLEAN, TrashCopy(c, i, ok) PROVE DriveInv'
<1>1. /\ TrashOf(i) \in copyTasks /\ copyTasks' = copyTasks \ {TrashOf(i)}
      /\ drive' = IF ok THEN [drive EXCEPT ![i].trashed = TRUE] ELSE drive
      /\ outran' = (outran \/ ~ok) /\ UNCHANGED <<matter, document, copyRefs, copier>>
  BY DEF TrashCopy, Takes, TrashOf
<1>2. /\ i \in DOMAIN drive /\ drive[i] \in DriveItem /\ DOMAIN drive = 1..Len(drive) /\ drive \in Seq(DriveItem)
      /\ matter.title \in Nat /\ Len(drive) \in Nat
  BY <1>1, DriveKnown DEF OnDrive
<1> DEFINE e == [drive[i] EXCEPT !.trashed = TRUE]
<1>3. e \in DriveItem /\ e.of = drive[i].of /\ e.name = drive[i].name /\ e.trashed
  BY <1>2 DEF DriveItem
<1>4. ok => drive' = [drive EXCEPT ![i] = e]
  BY <1>1
<1> HIDE DEF e
<1>5. /\ drive' \in Seq(DriveItem) /\ Len(drive') = Len(drive) /\ DOMAIN drive' = DOMAIN drive
      /\ \A j \in DOMAIN drive : j # i => drive'[j] = drive[j]
      /\ ok => drive'[i] = e
  <2>1. CASE ok
    BY <1>2, <1>3, <1>4, <2>1, ExceptSeq
  <2>2. CASE ~ok
    BY <1>1, <1>2, <2>2
  <2>3. QED BY <2>1, <2>2
<1>6. /\ \A j \in DOMAIN drive : drive'[j].of = drive[j].of /\ drive'[j].name = drive[j].name
      /\ \A j \in DOMAIN drive : drive[j].trashed => drive'[j].trashed
  <2>1. CASE ok
    BY <1>3, <1>5, <2>1
  <2>2. CASE ~ok
    BY <1>1, <2>2
  <2>3. QED BY <2>1, <2>2
<1>7. DriveGrows
  BY <1>1, <1>2, <1>5, <1>6 DEF DriveGrows
<1>8. outran' \in BOOLEAN /\ copyTasks' \subseteq Tasks /\ copyTasks' \subseteq copyTasks
  BY <1>1, DriveKnown
<1>9. DriveShapes'
  BY <1>1, <1>5, <1>8, DriveKnown DEF DriveShapes, RefRows, CopierRow, DriveItem
<1>10. OnDrive'
  BY <1>1, <1>7, <1>8, DriveKnown, OnDriveNext
<1>11. ASSUME ~outran' PROVE DriveKept'
  <2>1. ~outran /\ ok /\ RefsInPlace /\ NotLinkedAlone /\ AllKnown /\ FolderNamed /\ TitleKnown
    BY <1>1, <1>11 DEF DriveInv, DriveKept
  <2>2. \A j \in 1..MaxItems : TrashOf(j) \in copyTasks' <=> TrashOf(j) \in copyTasks /\ j # i
    BY <1>1, TasksDiffer
  <2>3. ASSUME NEW r \in copyRefs PROVE ~drive'[r.item].trashed /\ TrashOf(r.item) \notin copyTasks'
    BY <1>1, <1>5, <2>1, <2>2, DriveKnown DEF RefsInPlace
  <2>4. RefsInPlace'
    BY <1>1, <2>1, <2>3 DEF RefsInPlace, TrashOf
  <2>5. NotLinkedAlone'
    <3>1. SUFFICES ASSUME NEW d \in Copiers, NotLinked(copier[d])
                   PROVE  /\ ~drive'[copier[d].item].trashed /\ TrashOf(copier[d].item) \notin copyTasks'
                          /\ copier[d].step = "keep_folder" => drive'[copier[d].item].name = copier[d].title
                          /\ \A r \in copyRefs : r.item # copier[d].item
                          /\ \A f \in Copiers \ {d} : InHand(copier[f]) # copier[d].item
      BY <1>1 DEF NotLinkedAlone, NotLinked, InHand, TrashOf
    <3>2. /\ ~drive[copier[d].item].trashed /\ TrashOf(copier[d].item) \notin copyTasks
          /\ copier[d].step = "keep_folder" => drive[copier[d].item].name = copier[d].title
          /\ \A r \in copyRefs : r.item # copier[d].item
          /\ \A f \in Copiers \ {d} : InHand(copier[f]) # copier[d].item
      BY <2>1, <3>1 DEF NotLinkedAlone
    <3>3. copier[d].item \in DOMAIN drive /\ copier[d].item \in 1..MaxItems
      BY <3>1, InHandKnown, DriveKnown
    <3>4. copier[d].item # i
      BY <1>1, <3>2
    <3>5. QED BY <1>5, <1>8, <3>2, <3>3, <3>4
  <2>6. AllKnown'
    <3>1. ASSUME NEW j \in DOMAIN drive
          PROVE  \/ drive'[j].trashed \/ TrashOf(j) \in copyTasks'
                 \/ \E r \in copyRefs : r.item = j
                 \/ \E d \in Copiers : copier[d].step \in {"keep_folder", "keep"} /\ copier[d].item = j
      <4>1. CASE j = i
        BY <1>3, <1>5, <2>1, <4>1
      <4>2. CASE j # i
        <5>1. j \in 1..MaxItems
          BY DriveKnown
        <5>2. QED BY <1>6, <2>1, <2>2, <4>2, <5>1 DEF AllKnown
      <4>3. QED BY <4>1, <4>2
    <3>2. QED BY <1>1, <1>5, <3>1 DEF AllKnown, TrashOf
  <2>7. RefFor(0)' = RefFor(0) /\ \A r \in RefFor(0) : drive'[r.item].name = drive[r.item].name
    BY <1>1, <1>6, DriveKnown DEF RefFor
  <2>8. FolderNamed'
    <3>1. \A u : MayNote(u)' <=> MayNote(u)
      BY <1>1, <2>7 DEF MayNote
    <3>2. \A r : Naming(r)' = Naming(r)
      BY <1>1 DEF Naming
    <3>3. ASSUME NEW r \in RefFor(0)
          PROVE  \/ \E d \in Naming(r) : copier[d].title = drive'[r.item].name
                 \/ r.name = drive'[r.item].name /\ \A d \in Naming(r) : ~MayNote(copier[d])
      BY <2>1, <2>7 DEF FolderNamed
    <3>4. QED BY <1>1, <2>7, <3>1, <3>2, <3>3 DEF FolderNamed, MayNote, Naming
  <2>9. RenameTask \in copyTasks => RenameTask \in copyTasks'
    BY <1>1, TasksDiffer
  <2>10. TitleKnown'
    BY <1>1, <2>1, <2>7, <2>9 DEF TitleKnown, Renaming, RenameTask
  <2>11. QED BY <2>4, <2>5, <2>6, <2>8, <2>10 DEF DriveKept
<1>12. QED BY <1>9, <1>10, <1>11 DEF DriveInv

LEMMA KeepFolderStep == ASSUME DriveInv, NEW c \in Copiers, KeepFolder(c) PROVE DriveInv'
<1>1. PICK was \in CopierRow : was = copier[c]
  BY DriveKnown
<1>2. /\ was.step = "keep_folder"
      /\ copyRefs' = Linked(copyRefs \ was.had, 0, was.item, was.title)
      /\ outran' = (outran \/ RefFor(0) # was.had \/ matter # [there |-> TRUE, title |-> was.title])
      /\ IF was.list = <<>> THEN Acts(c, NoCopying) ELSE Then(c, "file", {}, was.item)
      /\ UNCHANGED <<matter, document, drive, copyTasks>>
  BY <1>1 DEF KeepFolder
<1>3. /\ HandOnDrive(was) /\ MaxTitles \in Nat /\ MaxItems \in Nat /\ matter.title \in Nat /\ was.title \in 0..MaxTitles
      /\ was.had \in SUBSET RefRows /\ was.item \in 0..MaxItems /\ {} \in SUBSET RefRows
  BY <1>1, DriveKnown, HandShapes
<1>4. ItemIs(was.item, 0) /\ was.item # 0 /\ was.item \in 1..MaxItems
  BY <1>2, <1>3 DEF HandOnDrive
<1>5. PICK i \in 1..MaxItems : i = was.item
  BY <1>4
<1>6. PICK t \in CopierRow : /\ CopierIs(c, t) /\ t.step \in {"none", "file"} /\ HandOnDrive(t) /\ InHand(t) = 0
  <2>1. CASE was.list = <<>>
    BY <1>2, <2>1, IdleRow, CopierActs
  <2>2. CASE was.list # <<>>
    <3>1. PICK t \in CopierRow : CopierIs(c, t) /\ t.step = "file" /\ t.list = was.list /\ t.title = was.title
      BY <1>1, <1>2, <1>3, <2>2, ThenRow
    <3>2. HandOnDrive(t) /\ InHand(t) = 0
      BY <1>3, <2>2, <3>1 DEF HandOnDrive, InHand
    <3>3. QED BY <3>1, <3>2
  <2>3. QED BY <2>1, <2>2
<1>7. copier' \in [Copiers -> CopierRow] /\ copier'[c] = t /\ \A d \in Copiers \ {c} : copier'[d] = copier[d]
  BY <1>6 DEF CopierIs
<1> DEFINE n == [of |-> 0, item |-> i, name |-> was.title]
<1>8. n \in RefRows /\ n.of = 0 /\ n.item = i /\ n.name = was.title
  BY <1>3 DEF RefRows, Copied
<1>9. copyRefs' = {r \in copyRefs \ was.had : r.item # i} \cup {n}
  BY <1>2, <1>5 DEF Linked
<1> HIDE DEF n
<1>10. outran' \in BOOLEAN
  BY <1>2, DriveKnown
<1>11. DriveShapes'
  <2>1. copyRefs' \subseteq RefRows
    BY <1>8, <1>9, DriveKnown
  <2>2. QED BY <1>2, <1>7, <1>10, <2>1, DriveKnown DEF DriveShapes, RefRows, CopierRow, DriveItem
<1>12. DriveGrows
  BY <1>2, <1>3, DriveSame
<1>13. OnDrive'
  <2>1. HandOnDrive(t)'
    BY <1>2, <1>3, <1>6, <1>12, HandStays
  <2>2. HandOnDrive(copier[c])'
    BY <1>7, <2>1
  <2>3. \A d \in Copiers : copier'[d] = copier[d] \/ HandOnDrive(copier[d])'
    BY <1>7, <2>2
  <2>4. \A r \in copyRefs' : r \in copyRefs \/ ItemIs(r.item, r.of)'
    BY <1>2, <1>4, <1>5, <1>8, <1>9 DEF ItemIs
  <2>5. QED BY <1>2, <1>12, <2>3, <2>4, OnDriveNext, DriveKnown
<1>14. ASSUME ~outran' PROVE DriveKept'
  <2>1. ~outran /\ RefsInPlace /\ NotLinkedAlone /\ AllKnown /\ FolderNamed
    BY <1>2, <1>14 DEF DriveInv, DriveKept
  <2>2. RefFor(0) = was.had /\ matter.there /\ matter.title = was.title /\ MayNote(copier[c])
    <3>1. RefFor(0) = was.had /\ matter = [there |-> TRUE, title |-> was.title]
      BY <1>2, <1>14
    <3>2. matter.there /\ matter.title = was.title
      BY <3>1
    <3>3. QED BY <1>1, <3>1, <3>2 DEF MayNote
  <2>3. ASSUME NEW s \in copyRefs \ was.had PROVE s.of # 0 /\ s.item # i
    <3>1. s.of # 0
      BY <2>2, <2>3 DEF RefFor
    <3>2. QED BY <1>4, <1>5, <3>1, DriveKnown DEF ItemIs
  <2>4. copyRefs' = (copyRefs \ was.had) \cup {n}
    BY <1>9, <2>3
  <2>5. was.had = {} \/ \E r \in was.had : was.had = {r} /\ r \in RefFor(0) /\ r.item = i
    <3>1. \A r \in RefFor(0) : ~drive[r.item].trashed
      BY <2>1 DEF RefsInPlace, RefFor
    <3>2. QED BY <1>2, <1>3, <1>5, <2>2, <3>1 DEF HandOnDrive
  <2>6. was.had = {} => NotLinked(copier[c])
    BY <1>1, <1>2 DEF NotLinked
  <2>7. ~drive[i].trashed /\ TrashOf(i) \notin copyTasks
    <3>1. CASE was.had = {}
      BY <1>1, <1>5, <2>1, <2>6, <3>1 DEF NotLinkedAlone
    <3>2. CASE was.had # {}
      BY <2>1, <2>5, <3>2 DEF RefsInPlace, RefFor
    <3>3. QED BY <3>1, <3>2
  <2>8. InHand(copier[c]) = i
    BY <1>1, <1>2, <1>5 DEF InHand
  <2>9. RefsInPlace'
    <3>1. \A r, s \in copyRefs' : r.of = s.of => r = s
      BY <1>8, <2>1, <2>3, <2>4 DEF RefsInPlace
    <3>2. ASSUME NEW r \in copyRefs'
          PROVE  /\ ~drive[r.item].trashed /\ TrashOf(r.item) \notin copyTasks
                 /\ r.of = 0 => matter.there
                 /\ r.of # 0 => document[r.of] = "there"
      BY <1>8, <2>1, <2>2, <2>4, <2>7 DEF RefsInPlace
    <3>3. QED BY <1>2, <3>1, <3>2 DEF RefsInPlace, TrashOf
  <2>10. NotLinkedAlone'
    <3>1. SUFFICES ASSUME NEW d \in Copiers, NotLinked(copier'[d])
                   PROVE  /\ ~drive[copier'[d].item].trashed /\ TrashOf(copier'[d].item) \notin copyTasks
                          /\ copier'[d].step = "keep_folder" => drive[copier'[d].item].name = copier'[d].title
                          /\ \A r \in copyRefs' : r.item # copier'[d].item
                          /\ \A f \in Copiers \ {d} : InHand(copier'[f]) # copier'[d].item
      BY <1>2 DEF NotLinkedAlone, NotLinked, InHand, TrashOf
    <3>2. d # c /\ copier'[d] = copier[d]
      BY <1>6, <1>7, <3>1 DEF NotLinked
    <3>3. /\ ~drive[copier[d].item].trashed /\ TrashOf(copier[d].item) \notin copyTasks
          /\ copier[d].step = "keep_folder" => drive[copier[d].item].name = copier[d].title
          /\ \A r \in copyRefs : r.item # copier[d].item
          /\ \A f \in Copiers \ {d} : InHand(copier[f]) # copier[d].item
      BY <2>1, <3>1, <3>2 DEF NotLinkedAlone
    <3>4. copier[d].item # i /\ copier[d].item # 0
      BY <2>8, <3>1, <3>2, <3>3, InHandKnown
    <3>5. \A f \in Copiers \ {d} : InHand(copier'[f]) # copier[d].item
      BY <1>6, <1>7, <3>3, <3>4
    <3>6. \A r \in copyRefs' : r.item # copier[d].item
      BY <1>8, <2>4, <3>3, <3>4
    <3>7. QED BY <3>2, <3>3, <3>5, <3>6
  <2>11. AllKnown'
    <3>1. ASSUME NEW j \in DOMAIN drive
          PROVE  \/ drive[j].trashed \/ TrashOf(j) \in copyTasks
                 \/ \E r \in copyRefs' : r.item = j
                 \/ \E d \in Copiers : copier'[d].step \in {"keep_folder", "keep"} /\ copier'[d].item = j
      <4>1. CASE j = i
        BY <1>8, <2>4, <4>1
      <4>2. CASE j # i
        <5>1. \/ drive[j].trashed \/ TrashOf(j) \in copyTasks
              \/ \E r \in copyRefs : r.item = j
              \/ \E d \in Copiers \ {c} : copier[d].step \in {"keep_folder", "keep"} /\ copier[d].item = j
          BY <1>1, <1>5, <2>1, <4>2 DEF AllKnown
        <5>2. \A r \in copyRefs : r.item = j => r \in copyRefs'
          BY <2>4, <2>5, <4>2
        <5>3. QED BY <1>7, <5>1, <5>2
      <4>3. QED BY <4>1, <4>2
    <3>2. QED BY <1>2, <3>1 DEF AllKnown, TrashOf
  <2>12. RefFor(0)' = {n}
    BY <1>8, <2>3, <2>4 DEF RefFor
  <2>13. FolderNamed'
    <3>1. \A d \in Naming(n)' : d # c /\ copier'[d] = copier[d] /\ d \in Copiers /\ copier[d].step = "keep_folder" /\ copier[d].item = i
      BY <1>6, <1>7, <1>8 DEF Naming
    <3>2. ASSUME NEW d \in Naming(n)' PROVE ~MayNote(copier[d])'
      <4>1. \A s \in copier[d].had : s.name # copier[d].title
        BY <3>1, DriveKnown DEF HandOnDrive
      <4>2. ASSUME MayNote(copier[d])' PROVE FALSE
        <5>1. copier[d].had = {n} /\ copier[d].title = was.title
          BY <1>2, <2>2, <2>12, <3>1, <4>2 DEF MayNote
        <5>2. QED BY <1>8, <4>1, <5>1
      <4>3. QED BY <4>2
    <3>3. (\E d \in Naming(n)' : copier'[d].title = drive[i].name) \/ n.name = drive[i].name
      <4>1. CASE was.had = {}
        BY <1>1, <1>2, <1>5, <1>8, <2>1, <2>6, <4>1 DEF NotLinkedAlone
      <4>2. CASE was.had # {}
        <5>1. PICK r \in RefFor(0) : was.had = {r} /\ r.item = i
          BY <2>5, <4>2
        <5>2. c \in Naming(r)
          BY <1>1, <1>2, <1>5, <5>1 DEF Naming
        <5>3. PICK d \in Naming(r) : copier[d].title = drive[i].name
          BY <2>1, <2>2, <5>1, <5>2 DEF FolderNamed
        <5>4. CASE d = c
          BY <1>1, <1>8, <5>3, <5>4
        <5>5. CASE d # c
          <6>1. d \in Copiers /\ copier[d].step = "keep_folder" /\ copier[d].item = i /\ copier'[d] = copier[d]
            BY <1>7, <5>1, <5>5 DEF Naming
          <6>2. d \in Naming(n)'
            BY <1>8, <6>1 DEF Naming
          <6>3. QED BY <5>3, <6>1, <6>2
        <5>6. QED BY <5>4, <5>5
      <4>3. QED BY <4>1, <4>2
    <3>4. QED BY <1>2, <1>8, <2>12, <3>2, <3>3 DEF FolderNamed
  <2>14. TitleKnown'
    BY <1>2, <1>8, <2>2, <2>12 DEF TitleKnown
  <2>15. QED BY <2>9, <2>10, <2>11, <2>13, <2>14 DEF DriveKept
<1>15. QED BY <1>11, <1>13, <1>14 DEF DriveInv

LEMMA KeepFileStep == ASSUME DriveInv, NEW c \in Copiers, KeepFile(c) PROVE DriveInv'
<1>1. PICK was \in CopierRow : was = copier[c]
  BY DriveKnown
<1>2. /\ was.step = "keep" /\ copyRefs' = Linked(copyRefs, was.list[1], was.item, 0)
      /\ outran' = (outran \/ document[was.list[1]] # "there" \/ RefFor(was.list[1]) # {})
      /\ Acts(c, NextPaper(c)) /\ UNCHANGED <<matter, document, drive, copyTasks>>
  BY <1>1 DEF KeepFile
<1>3. /\ HandOnDrive(was) /\ MaxTitles \in Nat /\ MaxItems \in Nat /\ matter.title \in Nat /\ 0 \in 0..MaxTitles
      /\ was.list \in Seq(Papers)
  BY <1>1, DriveKnown, HandShapes
<1>4. was.list # <<>> /\ ItemIs(was.item, was.list[1])
  BY <1>2, <1>3 DEF HandOnDrive
<1>5. PICK p \in Papers : p = was.list[1]
  BY <1>3, <1>4
<1>6. PICK i \in 1..MaxItems : i = was.item /\ i \in DOMAIN drive /\ drive[i].of = p
  BY <1>4, <1>5, DriveKnown DEF ItemIs
<1>7. p # 0 /\ p \in Copied
  BY DEF Papers, Copied
<1>8. PICK t \in CopierRow : /\ CopierIs(c, t) /\ t.step \in {"none", "look"} /\ HandOnDrive(t) /\ InHand(t) = 0
  BY <1>2, NextPaperRow, CopierActs
<1>9. copier' \in [Copiers -> CopierRow] /\ copier'[c] = t /\ \A d \in Copiers \ {c} : copier'[d] = copier[d]
  BY <1>8 DEF CopierIs
<1> DEFINE n == [of |-> p, item |-> i, name |-> 0]
<1>10. n \in RefRows /\ n.of = p /\ n.item = i
  BY <1>3, <1>7 DEF RefRows
<1>11. copyRefs' = {r \in copyRefs : r.item # i} \cup {n}
  BY <1>2, <1>5, <1>6 DEF Linked
<1> HIDE DEF n
<1>12. outran' \in BOOLEAN
  BY <1>2, DriveKnown
<1>13. DriveShapes'
  <2>1. copyRefs' \subseteq RefRows
    BY <1>10, <1>11, DriveKnown
  <2>2. QED BY <1>2, <1>9, <1>12, <2>1, DriveKnown DEF DriveShapes, RefRows, CopierRow, DriveItem
<1>14. DriveGrows
  BY <1>2, <1>3, DriveSame
<1>15. OnDrive'
  <2>1. HandOnDrive(t)'
    BY <1>2, <1>3, <1>8, <1>14, HandStays
  <2>2. HandOnDrive(copier[c])'
    BY <1>9, <2>1
  <2>3. \A d \in Copiers : copier'[d] = copier[d] \/ HandOnDrive(copier[d])'
    BY <1>9, <2>2
  <2>4. \A r \in copyRefs' : r \in copyRefs \/ ItemIs(r.item, r.of)'
    BY <1>2, <1>6, <1>10, <1>11 DEF ItemIs
  <2>5. QED BY <1>2, <1>14, <2>3, <2>4, OnDriveNext, DriveKnown
<1>16. ASSUME ~outran' PROVE DriveKept'
  <2>1. ~outran /\ RefsInPlace /\ NotLinkedAlone /\ AllKnown /\ FolderNamed /\ TitleKnown
    BY <1>2, <1>16 DEF DriveInv, DriveKept
  <2>2. document[p] = "there" /\ \A r \in copyRefs : r.of # p
    BY <1>2, <1>5, <1>16 DEF RefFor
  <2>3. /\ ~drive[i].trashed /\ TrashOf(i) \notin copyTasks /\ \A r \in copyRefs : r.item # i
    BY <1>1, <1>2, <1>6, <2>1 DEF NotLinkedAlone, NotLinked
  <2>4. copyRefs' = copyRefs \cup {n}
    BY <1>11, <2>3
  <2>5. InHand(copier[c]) = i
    BY <1>1, <1>2, <1>6 DEF InHand
  <2>6. RefsInPlace'
    <3>1. \A r, s \in copyRefs' : r.of = s.of => r = s
      BY <1>10, <2>1, <2>2, <2>4 DEF RefsInPlace
    <3>2. ASSUME NEW r \in copyRefs'
          PROVE  /\ ~drive[r.item].trashed /\ TrashOf(r.item) \notin copyTasks
                 /\ r.of = 0 => matter.there
                 /\ r.of # 0 => document[r.of] = "there"
      BY <1>7, <1>10, <2>1, <2>2, <2>3, <2>4 DEF RefsInPlace
    <3>3. QED BY <1>2, <3>1, <3>2 DEF RefsInPlace, TrashOf
  <2>7. NotLinkedAlone'
    <3>1. SUFFICES ASSUME NEW d \in Copiers, NotLinked(copier'[d])
                   PROVE  /\ ~drive[copier'[d].item].trashed /\ TrashOf(copier'[d].item) \notin copyTasks
                          /\ copier'[d].step = "keep_folder" => drive[copier'[d].item].name = copier'[d].title
                          /\ \A r \in copyRefs' : r.item # copier'[d].item
                          /\ \A f \in Copiers \ {d} : InHand(copier'[f]) # copier'[d].item
      BY <1>2 DEF NotLinkedAlone, NotLinked, InHand, TrashOf
    <3>2. d # c /\ copier'[d] = copier[d]
      BY <1>8, <1>9, <3>1 DEF NotLinked
    <3>3. /\ ~drive[copier[d].item].trashed /\ TrashOf(copier[d].item) \notin copyTasks
          /\ copier[d].step = "keep_folder" => drive[copier[d].item].name = copier[d].title
          /\ \A r \in copyRefs : r.item # copier[d].item
          /\ \A f \in Copiers \ {d} : InHand(copier[f]) # copier[d].item
      BY <2>1, <3>1, <3>2 DEF NotLinkedAlone
    <3>4. copier[d].item # i /\ copier[d].item # 0
      BY <2>5, <3>1, <3>2, <3>3, InHandKnown
    <3>5. \A f \in Copiers \ {d} : InHand(copier'[f]) # copier[d].item
      BY <1>8, <1>9, <3>3, <3>4
    <3>6. \A r \in copyRefs' : r.item # copier[d].item
      BY <1>10, <2>4, <3>3, <3>4
    <3>7. QED BY <3>2, <3>3, <3>5, <3>6
  <2>8. AllKnown'
    <3>1. ASSUME NEW j \in DOMAIN drive
          PROVE  \/ drive[j].trashed \/ TrashOf(j) \in copyTasks
                 \/ \E r \in copyRefs' : r.item = j
                 \/ \E d \in Copiers : copier'[d].step \in {"keep_folder", "keep"} /\ copier'[d].item = j
      <4>1. CASE j = i
        BY <1>10, <2>4, <4>1
      <4>2. CASE j # i
        <5>1. \/ drive[j].trashed \/ TrashOf(j) \in copyTasks
              \/ \E r \in copyRefs : r.item = j
              \/ \E d \in Copiers \ {c} : copier[d].step \in {"keep_folder", "keep"} /\ copier[d].item = j
          BY <1>1, <1>6, <2>1, <4>2 DEF AllKnown
        <5>2. QED BY <1>9, <2>4, <5>1
      <4>3. QED BY <4>1, <4>2
    <3>2. QED BY <1>2, <3>1 DEF AllKnown, TrashOf
  <2>9. RefFor(0)' = RefFor(0)
    BY <1>7, <1>10, <2>4 DEF RefFor
  <2>10. FolderNamed'
    <3>1. ASSUME NEW r PROVE /\ Naming(r)' = Naming(r) /\ \A d \in Naming(r) : copier'[d] = copier[d]
      <4>1. c \notin Naming(r) /\ c \notin Naming(r)'
        BY <1>1, <1>2, <1>8, <1>9 DEF Naming
      <4>2. QED BY <1>9, <4>1 DEF Naming
    <3>2. \A u : MayNote(u)' <=> MayNote(u)
      BY <1>2, <2>9 DEF MayNote
    <3>3. ASSUME NEW r \in RefFor(0)
          PROVE  \/ \E d \in Naming(r) : copier'[d].title = drive[r.item].name
                 \/ r.name = drive[r.item].name /\ \A d \in Naming(r) : ~MayNote(copier'[d])
      BY <2>1, <3>1 DEF FolderNamed
    <3>4. QED BY <1>2, <2>9, <3>1, <3>2, <3>3 DEF FolderNamed, MayNote, Naming
  <2>11. TitleKnown'
    <3>1. ~Renaming(copier[c]) /\ \A u : Renaming(u)' <=> Renaming(u)
      BY <1>1, <1>2 DEF Renaming
    <3>2. ASSUME NEW r \in RefFor(0)
          PROVE  r.name = matter.title \/ RenameTask \in copyTasks \/ \E d \in Copiers : Renaming(copier'[d])
      BY <1>9, <2>1, <3>1 DEF TitleKnown
    <3>3. QED BY <1>2, <2>9, <3>1, <3>2 DEF TitleKnown, Renaming, RenameTask
  <2>12. QED BY <2>6, <2>7, <2>8, <2>10, <2>11 DEF DriveKept
<1>17. QED BY <1>13, <1>15, <1>16 DEF DriveInv

LEMMA DriveStart == ASSUME DriveInit PROVE DriveInv
<1>1. MaxTitles \in Nat /\ MaxItems \in Nat /\ 0 \in 0..MaxTitles /\ 0 \in 0..MaxItems
  BY DocumentStorageAssumption
<1>2. NoCopying \in CopierRow /\ NoCopying.step = "none" /\ NoCopying.title = 0
  <2>1. <<>> \in Seq(Papers) /\ {} \in SUBSET RefRows
    OBVIOUS
  <2>2. QED BY <1>1, <2>1 DEF NoCopying, CopierRow
<1>3. /\ copier \in [Copiers -> CopierRow] /\ \A c \in Copiers : copier[c].step = "none" /\ copier[c].title = 0
      /\ drive = <<>> /\ copyRefs = {} /\ copyTasks = {} /\ outran \in BOOLEAN
      /\ document \in [Papers -> {"new", "there", "gone"}]
  BY <1>2 DEF DriveInit
<1>4. matter.title = 1 /\ matter.there \in BOOLEAN /\ matter = [there |-> TRUE, title |-> 1]
  BY DEF DriveInit
<1>5. matter \in [there : BOOLEAN, title : 1..MaxTitles]
  BY <1>1, <1>4, DocumentStorageAssumption
<1>6. drive \in Seq(DriveItem) /\ Len(drive) = 0 /\ DOMAIN drive = {}
  BY <1>3
<1>7. DriveShapes
  BY <1>1, <1>3, <1>5, <1>6 DEF DriveShapes
<1>8. OnDrive
  BY <1>3, <1>4 DEF OnDrive, HandOnDrive
<1>9. RefsInPlace /\ FolderNamed /\ TitleKnown
  BY <1>3 DEF RefsInPlace, FolderNamed, TitleKnown, RefFor
<1>10. NotLinkedAlone /\ AllKnown
  BY <1>3, <1>6 DEF NotLinkedAlone, NotLinked, AllKnown
<1>11. QED BY <1>7, <1>8, <1>9, <1>10 DEF DriveInv, DriveKept

LEMMA DriveStep == ASSUME DriveInv, [DriveNext]_driveVars PROVE DriveInv'
<1>1. CASE UNCHANGED driveVars
  <2>1. UNCHANGED <<matter, document, drive, copyRefs, copyTasks, copier, outran>>
    BY <1>1 DEF driveVars
  <2>2. DriveShapes'
    BY <2>1 DEF DriveInv, DriveShapes, RefRows, CopierRow, DriveItem
  <2>3. OnDrive'
    <3>1. \A i \in 1..MaxItems : TrashOf(i) \in copyTasks' => TrashOf(i) \in copyTasks \/ i \in DOMAIN drive
      BY <2>1
    <3>2. QED BY <2>1, <3>1, DriveSame, DriveKnown, OnDriveNext
  <2>4. RefFor(0)' = RefFor(0) /\ \A r : Naming(r)' = Naming(r)
    BY <2>1 DEF RefFor, Naming
  <2>5. \A u : MayNote(u)' <=> MayNote(u)
    BY <2>1, <2>4 DEF MayNote
  <2>6. ~outran' => FolderNamed'
    BY <2>1, <2>4, <2>5 DEF DriveInv, DriveKept, FolderNamed
  <2>7. ~outran' => RefsInPlace' /\ NotLinkedAlone' /\ AllKnown'
    BY <2>1 DEF DriveInv, DriveKept, RefsInPlace, NotLinkedAlone, AllKnown, NotLinked, InHand, TrashOf
  <2>8. ~outran' => TitleKnown'
    BY <2>1, <2>4 DEF DriveInv, DriveKept, TitleKnown, Renaming, RenameTask
  <2>9. QED BY <2>2, <2>3, <2>6, <2>7, <2>8 DEF DriveInv, DriveKept
<1>2. CASE DriveNext
  BY <1>2, AddPaperStep, DeletePaperStep, RetitleStep, DeleteMatterStep, TakeCopyStep, CopyPendingStep, RenameFolderStep,
     TrashCopyStep, LookStep, SaveFolderStep, KeepFolderStep, SaveFileStep, KeepFileStep, NotCopiedStep, CopierDiesStep
  DEF DriveNext
<1>3. QED BY <1>1, <1>2

LEMMA DriveInvMatches == ASSUME DriveInv PROVE CopiesMatch
<1>1. SUFFICES ASSUME copyTasks = {}, \A c \in Copiers : Free(c), ~outran
               PROVE  /\ \A x \in Copied : Cardinality(Kept(x)) <= 1 /\ Kept(x) = {r.item : r \in RefFor(x)}
                      /\ \A i \in Kept(0) : matter.there /\ drive[i].name = matter.title
                      /\ \A p \in Papers : Kept(p) # {} => document[p] = "there"
  BY DEF CopiesMatch
<1>2. RefsInPlace /\ AllKnown /\ FolderNamed /\ TitleKnown
  BY <1>1 DEF DriveInv, DriveKept
<1>3. \A c \in Copiers : copier[c].step = "none"
  BY <1>1 DEF Free
<1>4. ASSUME NEW x \in Copied PROVE Kept(x) = {r.item : r \in RefFor(x)} /\ Cardinality(Kept(x)) <= 1
  <2>1. ASSUME NEW i \in Kept(x) PROVE \E r \in RefFor(x) : r.item = i
    <3>1. i \in DOMAIN drive /\ drive[i].of = x /\ ~drive[i].trashed
      BY <2>1 DEF Kept
    <3>2. PICK r \in copyRefs : r.item = i
      BY <1>1, <1>2, <1>3, <3>1 DEF AllKnown
    <3>3. QED BY <3>1, <3>2, DriveKnown DEF RefFor
  <2>2. ASSUME NEW r \in RefFor(x) PROVE r.item \in Kept(x)
    BY <1>2, DriveKnown DEF RefFor, Kept, RefsInPlace
  <2>3. Kept(x) = {r.item : r \in RefFor(x)}
    BY <2>1, <2>2
  <2>4. CASE RefFor(x) = {}
    <3>1. Kept(x) = {}
      BY <2>3, <2>4
    <3>2. QED BY <2>3, <3>1, FS_EmptySet
  <2>5. CASE RefFor(x) # {}
    <3>1. PICK r \in RefFor(x) : RefFor(x) = {r}
      BY <1>2, <2>5 DEF RefsInPlace, RefFor
    <3>2. Kept(x) = {r.item}
      BY <2>3, <3>1
    <3>3. Cardinality(Kept(x)) = 1
      BY <3>2, FS_Singleton
    <3>4. QED BY <2>3, <3>3
  <2>6. QED BY <2>4, <2>5
<1>5. ASSUME NEW i \in Kept(0) PROVE matter.there /\ drive[i].name = matter.title
  <2>1. PICK r \in RefFor(0) : r.item = i
    BY <1>4 DEF Copied
  <2>2. Naming(r) = {}
    BY <1>3 DEF Naming
  <2>3. r.name = drive[i].name
    BY <1>2, <2>1, <2>2 DEF FolderNamed
  <2>4. r.name = matter.title
    BY <1>1, <1>2, <1>3 DEF TitleKnown, Renaming
  <2>5. matter.there
    BY <1>2 DEF RefsInPlace, RefFor
  <2>6. QED BY <2>3, <2>4, <2>5
<1>6. ASSUME NEW p \in Papers, Kept(p) # {} PROVE document[p] = "there"
  <2>1. p \in Copied /\ p # 0
    BY DEF Copied, Papers
  <2>2. PICK r \in RefFor(p) : TRUE
    BY <1>4, <1>6, <2>1
  <2>3. QED BY <1>2, <2>1, <2>2 DEF RefsInPlace, RefFor
<1>7. QED BY <1>4, <1>5, <1>6

\* Copies of documents: when all tasks are done and nothing crossed, was lost or failed, the
\* drive holds one folder, by the matter's title, at most one copy of each document that is
\* there, nothing of what was deleted, and the refs name just that, however many tasks and
\* runs copied, renamed and trashed side by side (document_storage.py).
THEOREM CopiesStay == DriveSpec => []CopiesMatch
<1>1. DriveSpec => []DriveInv
  BY DriveStart, DriveStep, PTL DEF DriveSpec
<1>2. QED BY <1>1, DriveInvMatches, PTL

----------------------------------------------------------------------------
\* Calendars.  An event has one maker and one owner; what the CRM takes in hand, links as its
\* own or hands over for removal, it made.

CalStaff == Owners \cup {"none"}
CalSpots == Slots \cup {"none"}
Makers == {"none", "crm", "owner"}
CalEvents == [of : CalStaff, at : CalSpots, by : Makers, set : Makers, gone : BOOLEAN, tag : Nat]
CalReports == [id : EventIds, of : CalStaff, at : CalSpots, by : Makers, set : Makers,
               gone : BOOLEAN, tag : Nat]
CalPushes == [step : {"idle", "begun", "removed", "saving", "saved"}, consult : Consults,
              drop : SUBSET EventIds, old : {0} \cup EventIds, got : {0} \cup EventIds]

CalShape ==
    /\ consult \in Consults /\ asked \in Consults
    /\ calendar \in [EventIds -> CalEvents] /\ eventRefs \subseteq EventRef
    /\ waits \in BOOLEAN /\ slipped \in BOOLEAN
    /\ takenOff \subseteq EventIds /\ unseen \subseteq EventIds
    /\ pushing \in [PushTasks -> CalPushes] /\ batch \in [Owners -> SUBSET CalReports]
    /\ moves \in 0..MaxMoves

\* An event that was made, and one the CRM made.
Whole(x) ==
    /\ x.of \in Owners /\ x.at \in Slots /\ x.by \in {"crm", "owner"} /\ x.tag # 0
    /\ x.set \in {"crm", "owner"} /\ (x.by = "owner" => x.set = "owner")

\* Events are numbered in the order they are made.
Numbered == /\ \E n \in 0..MaxEvents : Used = 1..n
            /\ \A e \in Used : Whole(calendar[e])

\* What push t has in hand the CRM made, and it is on the calendar of its assignee.
HandIsOurs(t) ==
    /\ \A e \in t.drop : calendar[e].by = "crm"
    /\ t.step = "removed" => t.got # 0 /\ calendar[t.got].by = "crm"
    /\ t.step \in {"saving", "saved"} =>
          /\ t.consult.who \in Owners /\ t.consult.at \in Slots /\ ~t.consult.done
          /\ t.old # 0 => calendar[t.old].by = "crm" /\ calendar[t.old].of = t.consult.who
    /\ t.step = "saved" => /\ t.got # 0 /\ calendar[t.got].by = "crm"
                           /\ calendar[t.got].of = t.consult.who

OursAreOurs ==
    /\ \A e \in takenOff : calendar[e].by = "crm"
    /\ \A p \in PushTasks : HandIsOurs(pushing[p])

\* What report b says of event x is how it was, and is now unless x changed since.
Tells(b, x) ==
    /\ Whole(b) /\ b.of = x.of /\ b.by = x.by /\ b.tag <= x.tag
    /\ b.tag = x.tag => b.at = x.at /\ b.set = x.set /\ b.gone = x.gone

ReportsAreTrue ==
    /\ unseen \subseteq Used
    /\ \A o \in Owners : \A b \in batch[o] :
          /\ b.of = o /\ Tells(b, calendar[b.id])
          /\ b.id \in unseen <=> b.tag < calendar[b.id].tag
          /\ \A c \in batch[o] : c.id = b.id => c = b

\* A ref is the CRM's for the events it made, and of an earlier state than what is reported.
RefIsTrue(r) ==
    /\ r.id \in Used /\ (r.made <=> calendar[r.id].by = "crm")
    /\ r.tag <= calendar[r.id].tag /\ (r.id \in unseen => r.tag < calendar[r.id].tag)
    /\ \A o \in Owners : \A b \in batch[o] : b.id = r.id => r.tag < b.tag

RefsAreTrue ==
    /\ \A r \in eventRefs : RefIsTrue(r)
    /\ \A r, s \in eventRefs : r.id = s.id => r = s

----------------------------------------------------------------------------
\* What holds while nothing slipped.
Coming(e) == e \in unseen \/ \E o \in Owners : \E b \in batch[o] : b.id = e
SameAs(c, v) == c.who = v.who /\ c.at = v.at /\ c.done = v.done
HasRef(e) == \E r \in eventRefs : r.id = e
JustPut(e) == \E p \in PushTasks : pushing[p].step = "saved" /\ pushing[p].got = e

\* Every event of the CRM that is still there is linked, waits to be taken off or was put
\* there just now.
NoneForgotten ==
    \A e \in Used : calendar[e].by = "crm" /\ ~calendar[e].gone =>
        HasRef(e) \/ e \in takenOff \/ JustPut(e)

OnePushing == \A p, q \in PushesInHand : p = q
OnlyForAppointment ==
    ~consult.there => consult = NoConsult /\ eventRefs = {} /\ PushesInHand = {}

HandIsTrue(t) ==
    /\ t.step # "idle" => t.consult.there
    /\ t.step = "removed" => calendar[t.got].gone
    /\ t.step \in {"saving", "saved"} /\ t.old # 0 => HasRef(t.old)
    /\ t.step = "saved" /\ t.got # t.old /\ t.old # 0 => calendar[t.old].gone

\* An event of the CRM that its owner changed and that is no longer linked: nothing brings
\* that back.
AstrayOne(e) ==
    calendar[e].by = "crm" /\ calendar[e].set = "owner" /\ Coming(e) /\ ~HasRef(e) /\ ~JustPut(e)
Astray == \E e \in Used : AstrayOne(e)

\* Event x shows what v says.
Shows(x, v) == ~x.gone /\ x.of = v.who /\ x.at = v.at

\* The appointment and its event agree, or will.
Agreed ==
    \/ waits \/ Astray \/ consult.done
    \/ eventRefs = {} /\ WantedOn(consult) = {}
    \/ eventRefs # {} /\ \A r \in eventRefs : Coming(r.id) \/ Shows(calendar[r.id], consult)

\* How far push t has come with what it read.
BegunKnows(t) ==
    LET v == t.consult IN
    /\ \A d \in EventIds : d \in t.drop <=> HasRef(d) /\ calendar[d].of \notin WantedOn(v)
    /\ waits \/ (v.done => consult.done)
    /\ t.step = "removed" => t.got \in t.drop
    /\ \/ waits \/ Astray \/ SameAs(consult, v)
       \/ /\ eventRefs # {} /\ t.drop = {}
          /\ consult.done \/ \A r \in eventRefs : Coming(r.id) \/ ~calendar[r.id].gone

SavingKnows(t) ==
    /\ \A r \in eventRefs : r.id = t.old
    /\ eventRefs = {} => t.old = 0
    /\ \/ waits \/ Astray \/ SameAs(consult, t.consult)
       \/ /\ eventRefs # {}
          /\ consult.done \/ Coming(t.old) \/ ~calendar[t.old].gone

SavedKnows(t) ==
    /\ \A r \in eventRefs : r.id = t.old
    /\ eventRefs = {} => t.old = 0
    /\ t.got = t.old => Agreed
    /\ t.got # t.old =>
          /\ Coming(t.got) \/ Shows(calendar[t.got], t.consult)
          /\ \/ waits \/ Astray \/ consult.done \/ SameAs(consult, t.consult)
             \/ t.old # 0 /\ Coming(t.old)
    /\ calendar[t.got].set = "crm" => Shows(calendar[t.got], t.consult)

PushingKnows(t) ==
    /\ t.step \in {"begun", "removed"} => BegunKnows(t)
    /\ t.step = "saving" => SavingKnows(t)
    /\ t.step = "saved" => SavedKnows(t)
    /\ waits \/ asked = t.consult

\* As the CRM put the linked events, they show what was last asked for.
AsAsked(r) ==
    calendar[r.id].set = "crm" =>
        asked.there /\ ~asked.done /\ asked.who = calendar[r.id].of /\ asked.at = calendar[r.id].at

\* The appointment has only events of the CRM.
Plain == ~slipped /\ consult.there /\ \A r \in eventRefs : r.made

\* A linked event that is gone, its owner deleted, or a push has just now.
GoneKnown(r) ==
    calendar[r.id].gone => \/ calendar[r.id].set = "owner"
                           \/ \E p \in PushTasks : pushing[p].step = "removed" /\ pushing[p].got = r.id

PlainInOrder ==
    /\ takenOff = {}
    /\ \A r, s \in eventRefs : r = s
    /\ \A r \in eventRefs : GoneKnown(r)
    /\ \A p \in PushesInHand : PushingKnows(pushing[p])
    /\ PushesInHand = {} =>
          Agreed /\ (waits \/ consult.done \/ \A r \in eventRefs : AsAsked(r))

CalBasics == CalShape /\ Numbered /\ OursAreOurs /\ ReportsAreTrue /\ RefsAreTrue
CalLoose == /\ NoneForgotten /\ OnePushing /\ OnlyForAppointment
            /\ \A p \in PushTasks : HandIsTrue(pushing[p])
CalInv == CalBasics /\ (~slipped => CalLoose) /\ (Plain => PlainInOrder)

LEMMA CalTypes == ASSUME CalShape
    PROVE /\ consult \in Consults /\ asked \in Consults
          /\ calendar \in [EventIds -> CalEvents] /\ eventRefs \subseteq EventRef
          /\ waits \in BOOLEAN /\ slipped \in BOOLEAN /\ takenOff \subseteq EventIds
          /\ unseen \subseteq EventIds /\ pushing \in [PushTasks -> CalPushes]
          /\ batch \in [Owners -> SUBSET CalReports] /\ moves \in 0..MaxMoves
          /\ \A e \in EventIds : calendar[e] \in CalEvents /\ e # 0 /\ e \in Nat
          /\ \A p \in PushTasks : pushing[p] \in CalPushes
          /\ \A o \in Owners : batch[o] \subseteq CalReports
          /\ MaxEvents \in Nat /\ MaxMoves \in Nat /\ "none" \notin Owners /\ "none" \notin Slots
  BY CalendarsAssumption DEF CalShape, EventIds

LEMMA CalRow == ASSUME NEW x \in CalEvents
    PROVE /\ x.of \in CalStaff /\ x.at \in CalSpots /\ x.by \in Makers /\ x.set \in Makers
          /\ x.gone \in BOOLEAN /\ x.tag \in Nat
  BY DEF CalEvents

LEMMA CalReportRow == ASSUME NEW b \in CalReports
    PROVE /\ b.id \in EventIds /\ b.of \in CalStaff /\ b.at \in CalSpots /\ b.by \in Makers
          /\ b.set \in Makers /\ b.gone \in BOOLEAN /\ b.tag \in Nat
  BY DEF CalReports

LEMMA CalPushRow == ASSUME NEW t \in CalPushes
    PROVE /\ t.step \in {"idle", "begun", "removed", "saving", "saved"} /\ t.consult \in Consults
          /\ t.drop \subseteq EventIds /\ t.old \in {0} \cup EventIds /\ t.got \in {0} \cup EventIds
  BY DEF CalPushes

LEMMA RefRow == ASSUME NEW r \in EventRef PROVE r.id \in EventIds /\ r.made \in BOOLEAN /\ r.tag \in Nat
  BY DEF EventRef

LEMMA Blanks ==
    /\ NoEvent.of = "none" /\ NoEvent.at = "none" /\ NoEvent.by = "none" /\ NoEvent.set = "none"
    /\ NoEvent.gone /\ NoEvent.tag = 0 /\ NoEvent \in CalEvents
    /\ NoConsult \in Consults /\ ~NoConsult.there /\ NoConsult.who = "none" /\ NoConsult.at = "none"
    /\ ~NoConsult.done
    /\ NotPushing \in CalPushes /\ NotPushing.step = "idle" /\ NotPushing.drop = {}
    /\ NotPushing.old = 0 /\ NotPushing.got = 0 /\ NotPushing.consult = NoConsult
<1>1. NoConsult \in Consults
  BY DEF NoConsult, Consults
<1>2. NoEvent \in CalEvents
  BY DEF NoEvent, CalEvents, CalStaff, CalSpots, Makers
<1>3. NotPushing \in CalPushes
  BY <1>1 DEF NotPushing, CalPushes
<1>4. QED BY <1>1, <1>2, <1>3 DEF NoEvent, NoConsult, NotPushing

LEMMA CalTypesNext ==
    ASSUME consult' \in Consults, asked' \in Consults, calendar' \in [EventIds -> CalEvents],
           eventRefs' \subseteq EventRef, waits' \in BOOLEAN, slipped' \in BOOLEAN,
           takenOff' \subseteq EventIds, unseen' \subseteq EventIds,
           pushing' \in [PushTasks -> CalPushes], batch' \in [Owners -> SUBSET CalReports],
           moves' \in 0..MaxMoves
    PROVE  CalShape'
  BY DEF CalShape

\* Which events were made, and what is known of each.
LEMMA UsedKnown ==
    ASSUME CalShape, Numbered
    PROVE  /\ \A e \in Used : e \in EventIds /\ Whole(calendar[e])
           /\ \A e \in EventIds : e \in Used <=> calendar[e].by # "none"
           /\ \A e \in EventIds : calendar[e].by \in {"crm", "owner"} => e \in Used
<1>1. \A e \in Used : e \in EventIds /\ Whole(calendar[e])
  BY DEF Used, Numbered
<1>2. \A e \in EventIds : e \in Used <=> calendar[e].by # "none"
  <2>1. ASSUME NEW e \in EventIds, e \notin Used PROVE calendar[e].by = "none"
    BY <2>1, Blanks DEF Used
  <2>2. QED BY <1>1, <2>1 DEF Whole
<1>3. QED BY <1>1, <1>2

\* The number of the next event is a new one.
LEMMA NextIsNew ==
    ASSUME CalShape, Numbered
    PROVE  /\ NextEvent \in Nat \ {0} /\ NextEvent \notin Used
           /\ 1..NextEvent = Used \cup {NextEvent}
<1>1. PICK n \in 0..MaxEvents : Used = 1..n
  BY DEF Numbered
<1>2. n \in Nat
  BY <1>1, CalTypes
<1>3. Cardinality(Used) = n
  <2>1. Cardinality(1..n) = IF 1 > n THEN 0 ELSE n - 1 + 1
    BY <1>2, FS_Interval
  <2>2. QED BY <1>1, <1>2, <2>1
<1>4. NextEvent = n + 1
  BY <1>3 DEF NextEvent
<1>5. 1..(n + 1) = 1..n \cup {n + 1}
  BY <1>2
<1>6. QED BY <1>1, <1>2, <1>4, <1>5

\* The event e is x now, and the others are what they were.
EventIs(e, x) ==
    calendar' \in [EventIds -> CalEvents] /\ calendar'[e] = x /\ \A d \in EventIds \ {e} : calendar'[d] = calendar[d]
\* The push p is t now, and the others are what they were.
PushingIs(p, t) ==
    pushing' \in [PushTasks -> CalPushes] /\ pushing'[p] = t /\ \A q \in PushTasks \ {p} : pushing'[q] = pushing[q]

\* x comes of event e by a change.
Changed(x, e) ==
    /\ x \in CalEvents /\ x.of = calendar[e].of /\ x.by = calendar[e].by /\ x.at \in Slots
    /\ x.set \in {"crm", "owner"} /\ x.tag = calendar[e].tag + 1 /\ (x.by = "owner" => x.set = "owner")

LEMMA EventChanges ==
    ASSUME CalBasics, NEW e \in Used, NEW x \in CalEvents, Changed(x, e), EventIs(e, x),
           unseen' = unseen \cup {e}, batch' = batch
    PROVE  /\ Used' = Used /\ Numbered' /\ ReportsAreTrue' /\ unseen' \subseteq EventIds
           /\ \A d \in EventIds : calendar'[d].by = calendar[d].by /\ calendar'[d].of = calendar[d].of
           /\ \A r \in eventRefs : RefIsTrue(r)'
           /\ \A d \in EventIds : Coming(d)' <=> Coming(d) \/ d = e
<1>1. CalShape /\ Numbered /\ ReportsAreTrue /\ RefsAreTrue
  BY DEF CalBasics
<1>2. /\ calendar' \in [EventIds -> CalEvents] /\ calendar'[e] = x
      /\ \A d \in EventIds \ {e} : calendar'[d] = calendar[d]
  BY DEF EventIs
<1>3. e \in EventIds /\ Whole(calendar[e]) /\ calendar[e] \in CalEvents
  BY <1>1, UsedKnown, CalTypes
<1>4. /\ x.of = calendar[e].of /\ x.by = calendar[e].by /\ x.at \in Slots /\ x.tag = calendar[e].tag + 1
      /\ x.set \in {"crm", "owner"} /\ (x.by = "owner" => x.set = "owner")
  BY DEF Changed
<1>5. calendar[e].tag \in Nat /\ calendar[e].tag # 0
  BY <1>3, CalRow DEF Whole
<1>6. Whole(x)
  BY <1>3, <1>4, <1>5 DEF Whole
<1>7. \A d \in EventIds : calendar'[d].by = calendar[d].by /\ calendar'[d].of = calendar[d].of
  BY <1>2, <1>3, <1>4
<1>8. x # NoEvent
  BY <1>6, Blanks DEF Whole
<1>9. Used' = Used
  <2>1. \A d \in EventIds : calendar'[d] # NoEvent <=> calendar[d] # NoEvent
    BY <1>2, <1>3, <1>8 DEF Used
  <2>2. QED BY <2>1 DEF Used
<1>10. Numbered'
  <2>1. \A d \in Used : Whole(calendar'[d])
    BY <1>1, <1>2, <1>6, UsedKnown
  <2>2. \E n \in 0..MaxEvents : Used' = 1..n
    BY <1>1, <1>9 DEF Numbered
  <2>3. \A d \in Used' : Whole(calendar[d])'
    BY <1>9, <2>1 DEF Whole
  <2>4. QED BY <2>2, <2>3 DEF Numbered
<1>11. unseen' \subseteq Used' /\ unseen' \subseteq EventIds
  BY <1>1, <1>3, <1>9, CalTypes DEF ReportsAreTrue
<1>12. ASSUME NEW o \in Owners, NEW b \in batch[o]
       PROVE  /\ b.of = o /\ Tells(b, calendar'[b.id]) /\ b.id \in EventIds
              /\ b.id \in unseen' <=> b.tag < calendar'[b.id].tag
              /\ \A c \in batch[o] : c.id = b.id => c = b
  <2>1. b \in CalReports /\ b.id \in EventIds /\ b.tag \in Nat
    BY <1>1, CalTypes, CalReportRow
  <2>2. /\ b.of = o /\ Tells(b, calendar[b.id]) /\ (b.id \in unseen <=> b.tag < calendar[b.id].tag)
        /\ \A c \in batch[o] : c.id = b.id => c = b
    BY <1>1 DEF ReportsAreTrue
  <2>3. CASE b.id # e
    BY <1>2, <2>1, <2>2, <2>3
  <2>4. CASE b.id = e
    <3>1. b.tag <= calendar[e].tag /\ b.tag < x.tag
      BY <1>4, <1>5, <2>1, <2>2, <2>4 DEF Tells
    <3>2. b.tag <= x.tag /\ b.tag # x.tag
      BY <1>4, <1>5, <2>1, <3>1
    <3>3. Tells(b, x)
      BY <1>4, <2>2, <2>4, <3>2 DEF Tells
    <3>4. QED BY <1>2, <2>1, <2>2, <2>4, <3>1, <3>3
  <2>5. QED BY <2>3, <2>4
<1>13. ReportsAreTrue'
  <2>1. \A o \in Owners : \A b \in batch'[o] :
           /\ b.of = o /\ Tells(b, calendar'[b.id])
           /\ b.id \in unseen' <=> b.tag < calendar'[b.id].tag
           /\ \A c \in batch'[o] : c.id = b.id => c = b
    BY <1>12
  <2>2. QED BY <1>11, <2>1 DEF ReportsAreTrue, Tells, Whole
<1>14. ASSUME NEW r \in eventRefs PROVE RefIsTrue(r)'
  <2>1. RefIsTrue(r) /\ r.id \in EventIds /\ r.tag \in Nat
    BY <1>1, CalTypes, RefRow DEF RefsAreTrue
  <2>2. calendar[r.id].tag \in Nat
    BY <1>1, <2>1, CalTypes, CalRow
  <2>3. r.tag <= calendar[r.id].tag /\ (r.id \in unseen => r.tag < calendar[r.id].tag)
    BY <2>1 DEF RefIsTrue
  <2>4. r.tag <= calendar'[r.id].tag /\ (r.id \in unseen' => r.tag < calendar'[r.id].tag)
    <3>1. CASE r.id = e
      BY <1>2, <1>4, <2>1, <2>2, <2>3, <3>1
    <3>2. CASE r.id # e
      BY <1>2, <2>1, <2>3, <3>2
    <3>3. QED BY <3>1, <3>2
  <2>5. r.id \in Used' /\ (r.made <=> calendar'[r.id].by = "crm")
    BY <1>7, <1>9, <2>1 DEF RefIsTrue
  <2>6. \A o \in Owners : \A b \in batch'[o] : b.id = r.id => r.tag < b.tag
    BY <2>1 DEF RefIsTrue
  <2>7. QED BY <2>4, <2>5, <2>6 DEF RefIsTrue
<1>15. \A d \in EventIds : Coming(d)' <=> Coming(d) \/ d = e
  BY DEF Coming
<1>16. QED BY <1>7, <1>9, <1>10, <1>11, <1>13, <1>14, <1>15

LEMMA EventAppears ==
    ASSUME CalBasics, NEW x \in CalEvents, Whole(x), NextEvent \in EventIds, EventIs(NextEvent, x),
           unseen' = unseen \cup {NextEvent}, batch' = batch
    PROVE  /\ Used' = Used \cup {NextEvent} /\ Numbered' /\ ReportsAreTrue' /\ unseen' \subseteq EventIds
           /\ \A d \in Used : calendar'[d] = calendar[d]
           /\ \A r \in eventRefs : RefIsTrue(r)'
           /\ \A d \in EventIds : Coming(d)' <=> Coming(d) \/ d = NextEvent
           /\ NextEvent \notin Used /\ ~Coming(NextEvent)
<1> DEFINE e == NextEvent
<1>1. CalShape /\ Numbered /\ ReportsAreTrue /\ RefsAreTrue
  BY DEF CalBasics
<1>2. /\ calendar' \in [EventIds -> CalEvents] /\ calendar'[e] = x
      /\ \A d \in EventIds \ {e} : calendar'[d] = calendar[d]
  BY DEF EventIs
<1>3. e \notin Used /\ e \in Nat \ {0} /\ 1..e = Used \cup {e} /\ e \in EventIds
  BY <1>1, NextIsNew
<1> HIDE DEF e
<1>4. x # NoEvent
  BY Blanks DEF Whole
<1>5. Used' = Used \cup {e}
  <2>1. \A d \in EventIds : calendar'[d] # NoEvent <=> calendar[d] # NoEvent \/ d = e
    BY <1>2, <1>3, <1>4
  <2>2. QED BY <1>3, <2>1 DEF Used
<1>6. \A d \in Used : d \in EventIds \ {e} /\ calendar'[d] = calendar[d]
  BY <1>1, <1>2, <1>3, UsedKnown
<1>7. Numbered'
  <2>1. \A d \in Used' : Whole(calendar'[d])
    BY <1>1, <1>2, <1>5, <1>6, UsedKnown
  <2>2. e \in 0..MaxEvents /\ Used' = 1..e
    <3>1. e \in 1..MaxEvents
      BY <1>3 DEF EventIds
    <3>2. QED BY <1>1, <1>3, <1>5, <3>1, CalTypes
  <2>3. \A d \in Used' : Whole(calendar[d])'
    BY <2>1 DEF Whole
  <2>4. QED BY <2>2, <2>3 DEF Numbered
<1>8. unseen' = unseen \cup {e} /\ unseen \subseteq Used
  BY <1>1 DEF e, ReportsAreTrue
<1>9. ASSUME NEW o \in Owners, NEW b \in batch[o]
      PROVE  /\ b.of = o /\ Tells(b, calendar'[b.id]) /\ b.id # e
             /\ b.id \in unseen' <=> b.tag < calendar'[b.id].tag
             /\ \A c \in batch[o] : c.id = b.id => c = b
  <2>1. b \in CalReports /\ b.id \in EventIds
    BY <1>1, CalTypes, CalReportRow
  <2>2. /\ b.of = o /\ Tells(b, calendar[b.id]) /\ (b.id \in unseen <=> b.tag < calendar[b.id].tag)
        /\ \A c \in batch[o] : c.id = b.id => c = b
    BY <1>1 DEF ReportsAreTrue
  <2>3. calendar[b.id].by \in {"crm", "owner"}
    BY <2>2 DEF Tells, Whole
  <2>4. b.id \in Used
    BY <1>1, <2>1, <2>3, UsedKnown
  <2>5. QED BY <1>3, <1>6, <1>8, <2>2, <2>4
<1>10. ReportsAreTrue'
  <2>1. unseen' \subseteq Used'
    BY <1>5, <1>8
  <2>2. \A o \in Owners : \A b \in batch'[o] :
           /\ b.of = o /\ Tells(b, calendar'[b.id])
           /\ b.id \in unseen' <=> b.tag < calendar'[b.id].tag
           /\ \A c \in batch'[o] : c.id = b.id => c = b
    BY <1>9
  <2>3. QED BY <2>1, <2>2 DEF ReportsAreTrue, Tells, Whole
<1>11. ASSUME NEW r \in eventRefs PROVE RefIsTrue(r)'
  <2>1. RefIsTrue(r)
    BY <1>1 DEF RefsAreTrue
  <2>2. r.id \in Used /\ r.id # e
    BY <1>3, <2>1 DEF RefIsTrue
  <2>3. QED BY <1>5, <1>6, <1>8, <2>1, <2>2 DEF RefIsTrue
<1>12. \A d \in EventIds : Coming(d)' <=> Coming(d) \/ d = e
  BY <1>8 DEF Coming
<1>13. ~Coming(e)
  BY <1>3, <1>8, <1>9 DEF Coming
<1>14. unseen' \subseteq EventIds
  BY <1>1, <1>3, <1>8, CalTypes
<1>15. QED BY <1>3, <1>5, <1>6, <1>7, <1>10, <1>11, <1>12, <1>13, <1>14 DEF e

----------------------------------------------------------------------------
\* What a step leaves alone.

\* The CRM's events stay the CRM's, and on their calendars.
OursRemain ==
    \A d \in EventIds : calendar[d].by = "crm" => calendar'[d].by = "crm" /\ calendar'[d].of = calendar[d].of

LEMMA CalHandStays ==
    ASSUME NEW t \in CalPushes, HandIsOurs(t), OursRemain
    PROVE  HandIsOurs(t)'
<1>1. t.drop \subseteq EventIds /\ t.old \in {0} \cup EventIds /\ t.got \in {0} \cup EventIds
  BY CalPushRow
<1>2. \A e \in t.drop : calendar'[e].by = "crm"
  BY <1>1 DEF HandIsOurs, OursRemain
<1>3. t.step = "removed" => t.got # 0 /\ calendar'[t.got].by = "crm"
  BY <1>1 DEF HandIsOurs, OursRemain
<1>4. t.step \in {"saving", "saved"} =>
          /\ t.consult.who \in Owners /\ t.consult.at \in Slots /\ ~t.consult.done
          /\ t.old # 0 => calendar'[t.old].by = "crm" /\ calendar'[t.old].of = t.consult.who
  BY <1>1 DEF HandIsOurs, OursRemain
<1>5. t.step = "saved" => /\ t.got # 0 /\ calendar'[t.got].by = "crm"
                          /\ calendar'[t.got].of = t.consult.who
  BY <1>1 DEF HandIsOurs, OursRemain
<1>6. QED BY <1>2, <1>3, <1>4, <1>5 DEF HandIsOurs

LEMMA OursStay ==
    ASSUME CalShape, OursAreOurs, OursRemain,
           \A e \in takenOff' : e \in takenOff \/ calendar'[e].by = "crm",
           \A p \in PushTasks : pushing'[p] = pushing[p] \/ HandIsOurs(pushing[p])'
    PROVE  OursAreOurs'
<1>1. \A e \in takenOff' : calendar'[e].by = "crm"
  BY CalTypes DEF OursAreOurs, OursRemain
<1>2. ASSUME NEW p \in PushTasks, pushing'[p] = pushing[p] PROVE HandIsOurs(pushing[p])'
  <2>1. pushing[p] \in CalPushes /\ HandIsOurs(pushing[p])
    BY CalTypes DEF OursAreOurs
  <2>2. PICK t \in CalPushes : t = pushing[p]
    BY <2>1
  <2>3. HandIsOurs(t)'
    BY <2>1, <2>2, CalHandStays
  <2>4. QED BY <1>2, <2>2, <2>3
<1>3. \A p \in PushTasks : HandIsOurs(pushing[p])'
  BY <1>2
<1>4. QED BY <1>1, <1>3 DEF OursAreOurs

\* The idle push has nothing in hand.
LEMMA IdleHand == HandIsOurs(NotPushing) /\ HandIsOurs(NotPushing)' /\ HandIsTrue(NotPushing) /\ HandIsTrue(NotPushing)'
  BY Blanks DEF HandIsOurs, HandIsTrue

LEMMA EventsRest ==
    ASSUME CalBasics, calendar' = calendar, batch' = batch, unseen' = unseen
    PROVE  /\ Used' = Used /\ Numbered' /\ ReportsAreTrue' /\ OursRemain
           /\ \A r \in eventRefs : RefIsTrue(r)'
           /\ \A d \in EventIds : Coming(d)' <=> Coming(d)
<1>1. Used' = Used
  BY DEF Used
<1>2. Numbered'
  BY <1>1 DEF CalBasics, Numbered, Whole
<1>3. ReportsAreTrue'
  BY <1>1 DEF CalBasics, ReportsAreTrue, Tells, Whole
<1>4. \A r \in eventRefs : RefIsTrue(r)'
  BY <1>1 DEF CalBasics, RefsAreTrue, RefIsTrue
<1>5. QED BY <1>1, <1>2, <1>3, <1>4 DEF OursRemain, Coming

LEMMA RefsStay ==
    ASSUME CalBasics, eventRefs' \subseteq eventRefs, \A r \in eventRefs : RefIsTrue(r)'
    PROVE  RefsAreTrue'
<1>1. \A r, s \in eventRefs' : r.id = s.id => r = s
  BY DEF CalBasics, RefsAreTrue
<1>2. \A r \in eventRefs' : RefIsTrue(r)'
  OBVIOUS
<1>3. QED BY <1>1, <1>2 DEF RefsAreTrue

\* A push queued makes up for what the appointment is now.
LEMMA KnowsWhenQueued ==
    ASSUME NEW t \in CalPushes, PushingKnows(t), waits', UNCHANGED <<calendar, eventRefs, unseen, batch>>
    PROVE  PushingKnows(t)'
<1>1. \A d \in EventIds : Coming(d)' <=> Coming(d)
  BY DEF Coming
<1>2. t.got \in {0} \cup EventIds /\ t.old \in {0} \cup EventIds
  BY CalPushRow
<1>3. ASSUME t.step \in {"begun", "removed"} PROVE BegunKnows(t)'
  <2>1. \A d \in EventIds : d \in t.drop <=> HasRef(d)' /\ calendar'[d].of \notin WantedOn(t.consult)
    BY <1>3 DEF PushingKnows, BegunKnows, HasRef
  <2>2. t.step = "removed" => t.got \in t.drop
    BY <1>3 DEF PushingKnows, BegunKnows
  <2>3. QED BY <2>1, <2>2 DEF BegunKnows, WantedOn
<1>4. ASSUME t.step = "saving" PROVE SavingKnows(t)'
  BY <1>4 DEF PushingKnows, SavingKnows
<1>5. ASSUME t.step = "saved" PROVE SavedKnows(t)'
  <2>1. Agreed'
    BY DEF Agreed
  <2>2. Coming(t.got)' <=> Coming(t.got)
    BY DEF Coming
  <2>3. Shows(calendar'[t.got], t.consult) <=> Shows(calendar[t.got], t.consult)
    OBVIOUS
  <2>4. QED BY <1>5, <2>1, <2>2, <2>3 DEF PushingKnows, SavedKnows, Shows
<1>6. QED BY <1>3, <1>4, <1>5 DEF PushingKnows

LEMMA SavedInCRMStep ==
    ASSUME CalInv, NEW v \in Consults, v.there, consult.there \/ Used = {}, SavedInCRM(v)
    PROVE  CalInv'
<1>1. /\ moves < MaxMoves /\ moves' = moves + 1 /\ consult' = v /\ asked' = v
      /\ waits' = (waits \/ PushDue(v))
      /\ slipped' = (slipped \/ (PushesInHand # {} /\ ~PushDue(v)))
      /\ UNCHANGED <<calendar, eventRefs, takenOff, pushing, unseen, batch>>
  BY DEF SavedInCRM
<1>2. CalBasics /\ CalShape
  BY DEF CalInv, CalBasics
<1>3. CalShape'
  <2>1. moves' \in 0..MaxMoves
    BY <1>1, <1>2, CalTypes
  <2>2. waits' \in BOOLEAN /\ slipped' \in BOOLEAN
    BY <1>1, <1>2, CalTypes
  <2>3. QED BY <1>1, <1>2, <2>1, <2>2, CalTypes, CalTypesNext
<1>4. CalBasics'
  <2>1. OursAreOurs'
    BY <1>1, <1>2, EventsRest, OursStay DEF CalBasics
  <2>2. RefsAreTrue'
    BY <1>1, <1>2, EventsRest, RefsStay
  <2>3. QED BY <1>1, <1>2, <1>3, <2>1, <2>2, EventsRest DEF CalBasics
<1>5. PushesInHand' = PushesInHand /\ Used' = Used
  BY <1>1 DEF PushesInHand, Used
<1>6. ASSUME ~slipped' PROVE CalLoose'
  <2>1. CalLoose
    BY <1>1, <1>6 DEF CalInv
  <2>2. OnlyForAppointment'
    BY <1>1 DEF OnlyForAppointment
  <2>3. QED BY <1>1, <1>5, <2>1, <2>2 DEF CalLoose, NoneForgotten, OnePushing, HandIsTrue, HasRef, JustPut
<1>7. ASSUME Plain' PROVE PlainInOrder'
  <2>1. ~slipped /\ (PushesInHand # {} => waits') /\ \A r \in eventRefs : r.made
    BY <1>1, <1>7 DEF Plain
  <2>2. /\ takenOff = {} /\ (\A r, s \in eventRefs : r = s) /\ (\A r \in eventRefs : GoneKnown(r))
        /\ \A p \in PushesInHand : PushingKnows(pushing[p])
    <3>1. CASE consult.there
      BY <2>1, <3>1 DEF CalInv, Plain, PlainInOrder
    <3>2. CASE ~consult.there
      <4>1. eventRefs = {} /\ PushesInHand = {}
        BY <2>1, <3>2 DEF CalInv, CalLoose, OnlyForAppointment
      <4>2. Used = {}
        BY <3>2
      <4>3. takenOff = {}
        <5>1. \A e \in takenOff : e \in EventIds /\ calendar[e].by = "crm"
          BY <1>2, CalTypes DEF CalBasics, OursAreOurs
        <5>2. QED BY <1>2, <4>2, <5>1, UsedKnown DEF CalBasics
      <4>4. QED BY <4>1, <4>3
    <3>3. QED BY <3>1, <3>2
  <2>3. \A r \in eventRefs' : GoneKnown(r)'
    BY <1>1, <2>2 DEF GoneKnown
  <2>4. ASSUME NEW p \in PushesInHand' PROVE PushingKnows(pushing[p])'
    <3>1. p \in PushesInHand /\ p \in PushTasks /\ waits'
      BY <1>5, <2>1, <2>4 DEF PushesInHand
    <3>2. PICK t \in CalPushes : t = pushing[p]
      BY <1>2, <3>1, CalTypes
    <3>3. PushingKnows(t)'
      BY <1>1, <2>2, <3>1, <3>2, KnowsWhenQueued
    <3>4. QED BY <1>1, <3>2, <3>3
  <2>5. Agreed'
    <3>1. CASE waits'
      BY <3>1 DEF Agreed
    <3>2. CASE ~PushDue(v)
      <4>1. v.who = "none" /\ eventRefs = {}
        BY <3>2 DEF PushDue
      <4>2. WantedOn(v) = {}
        BY <4>1 DEF WantedOn
      <4>3. WantedOn(consult') = {}
        BY <1>1, <4>2
      <4>4. QED BY <1>1, <4>1, <4>3 DEF Agreed, WantedOn
    <3>3. QED BY <1>1, <3>1, <3>2
  <2>6. waits' \/ \A r \in eventRefs' : AsAsked(r)'
    BY <1>1 DEF PushDue
  <2>7. QED BY <1>1, <1>5, <2>2, <2>3, <2>4, <2>5, <2>6 DEF PlainInOrder
<1>8. QED BY <1>4, <1>6, <1>7 DEF CalInv

LEMMA SaveConsultStep ==
    ASSUME CalInv, NEW who \in CalStaff, NEW at \in CalSpots, SaveConsult(who, at) PROVE CalInv'
<1> DEFINE v == [consult EXCEPT !.there = TRUE, !.who = who, !.at = at]
<1>1. (consult.there \/ Used = {}) /\ SavedInCRM(v)
  BY DEF SaveConsult
<1>2. consult \in Consults
  BY CalTypes DEF CalInv, CalBasics
<1>3. v \in Consults /\ v.there
  BY <1>2 DEF Consults, CalStaff, CalSpots
<1> HIDE DEF v
<1>4. QED BY <1>1, <1>3, SavedInCRMStep

LEMMA FinishConsultStep == ASSUME CalInv, FinishConsult PROVE CalInv'
<1> DEFINE v == [consult EXCEPT !.done = ~@]
<1>1. consult.there /\ SavedInCRM(v)
  BY DEF FinishConsult
<1>2. consult \in Consults
  BY CalTypes DEF CalInv, CalBasics
<1>3. v \in Consults /\ v.there
  BY <1>1, <1>2 DEF Consults
<1> HIDE DEF v
<1>4. QED BY <1>1, <1>3, SavedInCRMStep

LEMMA DeleteConsultStep == ASSUME CalInv, DeleteConsult PROVE CalInv'
<1>1. /\ consult.there /\ moves < MaxMoves /\ moves' = moves + 1
      /\ consult' = NoConsult /\ asked' = NoConsult
      /\ takenOff' = takenOff \cup {r.id : r \in {r \in eventRefs : r.made}} /\ eventRefs' = {}
      /\ slipped' = (slipped \/ PushesInHand # {})
      /\ pushing' = [p \in PushTasks |-> [pushing[p] EXCEPT !.consult.there = FALSE]]
      /\ UNCHANGED <<calendar, waits, unseen, batch>>
  BY DEF DeleteConsult
<1>2. CalBasics /\ CalShape
  BY DEF CalInv, CalBasics
<1>3. ASSUME NEW p \in PushTasks
      PROVE  /\ pushing'[p] \in CalPushes /\ pushing'[p].step = pushing[p].step
             /\ HandIsOurs(pushing[p])'
  <2> DEFINE w == [pushing[p].consult EXCEPT !.there = FALSE]
  <2>1. pushing[p] \in CalPushes /\ pushing[p].consult \in Consults
    BY <1>2, CalTypes, CalPushRow
  <2>2. w \in Consults /\ w.who = pushing[p].consult.who /\ w.at = pushing[p].consult.at /\ w.done = pushing[p].consult.done
    BY <2>1 DEF Consults
  <2> HIDE DEF w
  <2>3. pushing'[p] = [pushing[p] EXCEPT !.consult = w]
    BY <1>1, <2>1 DEF w, CalPushes
  <2>4. /\ pushing'[p] \in CalPushes /\ pushing'[p].step = pushing[p].step /\ pushing'[p].drop = pushing[p].drop
        /\ pushing'[p].old = pushing[p].old /\ pushing'[p].got = pushing[p].got /\ pushing'[p].consult = w
    BY <2>1, <2>2, <2>3 DEF CalPushes
  <2>5. HandIsOurs(pushing[p])
    BY <1>2 DEF CalBasics, OursAreOurs
  <2>6. HandIsOurs(pushing[p])'
    BY <1>1, <2>2, <2>4, <2>5 DEF HandIsOurs
  <2>7. QED BY <2>4, <2>6
<1>4. \A e \in takenOff' : e \in EventIds /\ (e \in takenOff \/ calendar'[e].by = "crm")
  <2>1. \A r \in eventRefs : r.id \in EventIds /\ (r.made => calendar[r.id].by = "crm")
    BY <1>2, CalTypes, RefRow DEF CalBasics, RefsAreTrue, RefIsTrue
  <2>2. QED BY <1>1, <1>2, <2>1, CalTypes
<1>5. CalShape'
  <2>1. moves' \in 0..MaxMoves
    BY <1>1, <1>2, CalTypes
  <2>2. pushing' \in [PushTasks -> CalPushes]
    BY <1>1, <1>3
  <2>3. slipped' \in BOOLEAN
    BY <1>1, <1>2, CalTypes
  <2>4. QED BY <1>1, <1>2, <1>4, <2>1, <2>2, <2>3, CalTypes, CalTypesNext, Blanks
<1>6. CalBasics'
  <2>1. OursAreOurs'
    BY <1>1, <1>2, <1>3, <1>4, EventsRest, OursStay DEF CalBasics
  <2>2. RefsAreTrue'
    BY <1>1 DEF RefsAreTrue
  <2>3. QED BY <1>1, <1>2, <1>5, <2>1, <2>2, EventsRest DEF CalBasics
<1>7. ASSUME ~slipped' PROVE CalLoose'
  <2>1. CalLoose /\ PushesInHand = {}
    BY <1>1, <1>7 DEF CalInv
  <2>2. PushesInHand' = {}
    BY <1>3, <2>1 DEF PushesInHand
  <2>3. OnlyForAppointment' /\ OnePushing'
    BY <1>1, <2>2 DEF OnlyForAppointment, OnePushing
  <2>4. \A p \in PushTasks : pushing[p].step = "idle" /\ pushing'[p].step = "idle"
    BY <1>3, <2>1 DEF PushesInHand
  <2>5. \A p \in PushTasks : HandIsTrue(pushing[p])'
    BY <2>4 DEF HandIsTrue
  <2>6. ASSUME NEW e \in Used', calendar'[e].by = "crm", ~calendar'[e].gone
        PROVE  e \in takenOff'
    <3>1. e \in Used /\ (HasRef(e) \/ e \in takenOff)
      BY <1>1, <2>1, <2>4, <2>6 DEF CalLoose, NoneForgotten, JustPut, Used
    <3>2. ASSUME NEW r \in eventRefs, r.id = e PROVE r.made
      BY <1>1, <1>2, <2>6, <3>2 DEF CalBasics, RefsAreTrue, RefIsTrue
    <3>3. QED BY <1>1, <3>1, <3>2 DEF HasRef
  <2>7. NoneForgotten'
    BY <2>6 DEF NoneForgotten
  <2>8. QED BY <2>3, <2>5, <2>7 DEF CalLoose
<1>8. ~Plain'
  BY <1>1, Blanks DEF Plain
<1>9. QED BY <1>6, <1>7, <1>8 DEF CalInv

----------------------------------------------------------------------------
\* The push in hand.

\* While one push at most is in hand, what p does is all there is to say of pushes.
LEMMA OnlyPush ==
    ASSUME CalShape, OnePushing, NEW p \in PushTasks, NEW t \in CalPushes, PushingIs(p, t),
           pushing[p].step # "idle" \/ PushesInHand = {}
    PROVE  /\ PushesInHand \subseteq {p} /\ (pushing[p].step # "idle" => PushesInHand = {p})
           /\ t.step # "idle" => PushesInHand' = {p}
           /\ t.step = "idle" => PushesInHand' = {}
           /\ OnePushing'
           /\ \A q \in PushTasks \ {p} : pushing[q].step = "idle" /\ pushing'[q].step = "idle"
           /\ \A e \in EventIds : JustPut(e) <=> pushing[p].step = "saved" /\ pushing[p].got = e
           /\ \A e \in EventIds : JustPut(e)' <=> t.step = "saved" /\ t.got = e
<1>1. /\ pushing'[p] = t /\ \A q \in PushTasks \ {p} : pushing'[q] = pushing[q]
  BY DEF PushingIs
<1>2. PushesInHand \subseteq {p}
  BY DEF OnePushing, PushesInHand
<1>3. \A q \in PushTasks \ {p} : pushing[q].step = "idle" /\ pushing'[q].step = "idle"
  BY <1>1, <1>2 DEF PushesInHand
<1>4. t.step # "idle" => PushesInHand' = {p}
  BY <1>1, <1>3 DEF PushesInHand
<1>5. t.step = "idle" => PushesInHand' = {}
  BY <1>1, <1>3 DEF PushesInHand
<1>6. OnePushing'
  BY <1>4, <1>5 DEF OnePushing
<1>7. pushing[p].step # "idle" => PushesInHand = {p}
  BY <1>2 DEF PushesInHand
<1>8. \A e \in EventIds : JustPut(e) <=> pushing[p].step = "saved" /\ pushing[p].got = e
  BY <1>3 DEF JustPut
<1>9. \A e \in EventIds : JustPut(e)' <=> t.step = "saved" /\ t.got = e
  BY <1>1, <1>3 DEF JustPut
<1>10. QED BY <1>2, <1>3, <1>4, <1>5, <1>6, <1>7, <1>8, <1>9

\* What the other pushes have in hand is true when none is in hand but p.
LEMMA OthersTrue ==
    ASSUME NEW p \in PushTasks, NEW t \in CalPushes, PushingIs(p, t), HandIsTrue(t)',
           \A q \in PushTasks \ {p} : pushing'[q].step = "idle"
    PROVE  \A q \in PushTasks : HandIsTrue(pushing[q])'
<1>1. \A q \in PushTasks \ {p} : HandIsTrue(pushing[q])'
  BY DEF HandIsTrue
<1>2. HandIsTrue(pushing[p])'
  BY DEF PushingIs
<1>3. QED BY <1>1, <1>2

LEMMA HandsAreOurs ==
    ASSUME CalShape, OursAreOurs, OursRemain, takenOff' \subseteq takenOff,
           NEW p \in PushTasks, NEW t \in CalPushes, PushingIs(p, t), HandIsOurs(t)'
    PROVE  OursAreOurs'
<1>1. \A q \in PushTasks \ {p} : pushing'[q] = pushing[q]
  BY DEF PushingIs
<1>2. HandIsOurs(pushing[p])'
  BY DEF PushingIs
<1>3. \A q \in PushTasks : pushing'[q] = pushing[q] \/ HandIsOurs(pushing[q])'
  BY <1>1, <1>2
<1>4. QED BY <1>3, OursStay

\* The row of a push is t.
LEMMA RowBecomes ==
    ASSUME CalShape, NEW p \in PushTasks, NEW t \in CalPushes, pushing' = [pushing EXCEPT ![p] = t]
    PROVE  PushingIs(p, t)
  BY CalTypes DEF PushingIs

\* In the last row, the push that is in hand knows what it did.
LEMMA OneKnows ==
    ASSUME NEW p \in PushTasks, NEW t \in CalPushes, PushingIs(p, t), PushesInHand' \subseteq {p}, PushingKnows(t)'
    PROVE  \A q \in PushesInHand' : PushingKnows(pushing[q])'
<1>1. PushingKnows(pushing[p])'
  BY DEF PushingIs
<1>2. QED BY <1>1

LEMMA BeginPushingStep == ASSUME CalInv, NEW p \in PushTasks, BeginPushing(p) PROVE CalInv'
<1>1. /\ waits /\ pushing[p] = NotPushing /\ waits' = FALSE /\ asked' = consult
      /\ slipped' = (slipped \/ PushesInHand # {})
      /\ UNCHANGED <<consult, calendar, eventRefs, takenOff, unseen, batch, moves>>
  BY DEF BeginPushing
<1>2. CalBasics /\ CalShape
  BY DEF CalInv, CalBasics
<1>3. slipped' \in BOOLEAN
  BY <1>1, <1>2, CalTypes
<1>4. RefsAreTrue' /\ Numbered' /\ ReportsAreTrue' /\ OursRemain
  BY <1>1, <1>2, EventsRest, RefsStay
<1>5. CASE ~consult.there
  <2>1. pushing' = pushing
    BY <1>5 DEF BeginPushing
  <2>2. CalShape'
    BY <1>1, <1>2, <1>3, <2>1, CalTypes, CalTypesNext
  <2>3. OursAreOurs'
    BY <1>1, <1>2, <1>4, <2>1, OursStay DEF CalBasics
  <2>4. ASSUME ~slipped' PROVE CalLoose'
    <3>1. CalLoose
      BY <1>1, <2>4 DEF CalInv
    <3>2. PushesInHand' = PushesInHand /\ Used' = Used
      BY <1>1, <2>1 DEF PushesInHand, Used
    <3>3. QED BY <1>1, <2>1, <3>1, <3>2 DEF CalLoose, NoneForgotten, OnePushing, OnlyForAppointment, HandIsTrue, HasRef, JustPut
  <2>5. ~Plain'
    BY <1>1, <1>5 DEF Plain
  <2>6. QED BY <1>4, <2>2, <2>3, <2>4, <2>5 DEF CalInv, CalBasics
<1>6. CASE consult.there
  <2> DEFINE d == {r.id : r \in Dropped(consult)}
             begun == [NotPushing EXCEPT !.step = "begun", !.consult = consult, !.drop = d]
  <2>1. pushing' = [pushing EXCEPT ![p] = begun]
    BY <1>6 DEF BeginPushing
  <2>2. d \subseteq EventIds /\ \A e \in EventIds : e \in d <=> \E r \in eventRefs : r.id = e /\ r.made /\ calendar[r.id].of \notin WantedOn(consult)
    BY <1>2, CalTypes, RefRow DEF Dropped
  <2>3. \A e \in d : calendar[e].by = "crm"
    BY <1>2, <2>2 DEF CalBasics, RefsAreTrue, RefIsTrue
  <2> HIDE DEF d
  <2>4. consult \in Consults /\ NotPushing \in CalPushes
    BY <1>2, CalTypes, Blanks
  <2>5. begun \in CalPushes /\ begun.step = "begun" /\ begun.consult = consult /\ begun.drop = d
    BY <2>2, <2>4 DEF CalPushes
  <2>6. begun.old = 0 /\ begun.got = 0
    BY <2>4, Blanks DEF CalPushes
  <2> HIDE DEF begun
  <2>7. PICK t \in CalPushes : t = begun
    BY <2>5
  <2>8. PushingIs(p, t)
    BY <1>2, <2>1, <2>7, RowBecomes
  <2>9. HandIsOurs(t)'
    BY <1>1, <2>3, <2>5, <2>7 DEF HandIsOurs
  <2>10. OursAreOurs'
    BY <1>1, <1>2, <1>4, <2>8, <2>9, HandsAreOurs DEF CalBasics
  <2>11. CalShape'
    BY <1>1, <1>2, <1>3, <2>8, CalTypes, CalTypesNext DEF PushingIs
  <2>12. ASSUME ~slipped'
         PROVE  /\ CalLoose /\ ~slipped /\ PushesInHand = {} /\ PushesInHand' = {p} /\ OnePushing'
                /\ \A q \in PushTasks \ {p} : pushing[q].step = "idle" /\ pushing'[q].step = "idle"
                /\ \A e \in EventIds : ~JustPut(e) /\ ~JustPut(e)'
    <3>1. PushesInHand = {} /\ CalLoose /\ ~slipped
      BY <1>1, <2>12 DEF CalInv
    <3>2. pushing[p].step = "idle"
      BY <1>1, Blanks
    <3>3. OnePushing
      BY <3>1 DEF CalLoose
    <3>4. t.step = "begun"
      BY <2>5, <2>7
    <3>5. QED BY <1>2, <2>8, <3>1, <3>2, <3>3, <3>4, OnlyPush
  <2>13. ASSUME ~slipped' PROVE CalLoose'
    <3>1. CalLoose /\ OnePushing' /\ \A q \in PushTasks \ {p} : pushing'[q].step = "idle"
      BY <2>12, <2>13
    <3>2. HandIsTrue(t)'
      BY <1>6, <2>5, <2>7 DEF HandIsTrue
    <3>3. \A q \in PushTasks : HandIsTrue(pushing[q])'
      BY <2>8, <3>1, <3>2, OthersTrue
    <3>4. NoneForgotten'
      <4>1. \A e \in Used : e \in EventIds /\ ~JustPut(e)
        BY <1>2, <2>12, <2>13, UsedKnown DEF CalBasics
      <4>2. QED BY <1>1, <3>1, <4>1 DEF CalLoose, NoneForgotten, HasRef, Used
    <3>5. OnlyForAppointment'
      BY <1>1, <1>6 DEF OnlyForAppointment
    <3>6. QED BY <3>1, <3>3, <3>4, <3>5 DEF CalLoose
  <2>14. ASSUME Plain' PROVE PlainInOrder'
    <3>1. Plain /\ ~slipped'
      BY <1>1, <2>14 DEF Plain
    <3>2. PlainInOrder
      BY <3>1 DEF CalInv
    <3>3. takenOff' = {} /\ \A r, s \in eventRefs' : r = s
      BY <1>1, <3>2 DEF PlainInOrder
    <3>4. \A q \in PushTasks : pushing[q].step = "idle"
      BY <2>12, <3>1 DEF PushesInHand
    <3>5. \A r \in eventRefs' : GoneKnown(r)'
      BY <1>1, <3>2, <3>4 DEF PlainInOrder, GoneKnown
    <3>6. PushingKnows(t)'
      <4>1. t.step = "begun" /\ t.consult = consult /\ t.drop = d
        BY <2>5, <2>7
      <4>2. \A e \in EventIds : e \in t.drop <=> HasRef(e)' /\ calendar'[e].of \notin WantedOn(t.consult)
        BY <1>1, <2>2, <3>1, <4>1 DEF HasRef, Plain
      <4>3. SameAs(consult', t.consult) /\ (t.consult.done => consult'.done) /\ asked' = t.consult
        BY <1>1, <4>1 DEF SameAs
      <4>4. BegunKnows(t)'
        BY <4>1, <4>2, <4>3 DEF BegunKnows, WantedOn, SameAs
      <4>5. QED BY <4>1, <4>3, <4>4 DEF PushingKnows
    <3>7. \A q \in PushesInHand' : PushingKnows(pushing[q])'
      BY <2>8, <2>12, <3>1, <3>6, OneKnows
    <3>8. PushesInHand' # {}
      BY <2>12, <3>1
    <3>9. QED BY <3>3, <3>5, <3>7, <3>8 DEF PlainInOrder
  <2>15. QED BY <1>4, <2>10, <2>11, <2>13, <2>14 DEF CalInv, CalBasics
<1>7. QED BY <1>5, <1>6

\* Taking off an event of the CRM.
LEMMA DeletedKnown ==
    ASSUME CalBasics, NEW e \in EventIds, calendar[e].by = "crm", NEW ok \in BOOLEAN, Deleted(e, ok), batch' = batch
    PROVE  /\ calendar' \in [EventIds -> CalEvents] /\ unseen' \subseteq EventIds /\ slipped' \in BOOLEAN
           /\ Used' = Used /\ Numbered' /\ ReportsAreTrue' /\ OursRemain
           /\ \A r \in eventRefs : RefIsTrue(r)'
           /\ ~slipped' => ~slipped /\ calendar'[e].gone
           /\ \A d \in EventIds \ {e} : calendar'[d] = calendar[d]
           /\ \A d \in EventIds : calendar'[d].of = calendar[d].of /\ calendar'[d].by = calendar[d].by
           /\ \A d \in EventIds : (Coming(d) => Coming(d)') /\ (calendar[d].gone => calendar'[d].gone)
<1>1. CalShape /\ Numbered
  BY DEF CalBasics
<1>2. e \in Used /\ Whole(calendar[e]) /\ calendar[e] \in CalEvents /\ calendar[e].tag \in Nat
  BY <1>1, UsedKnown, CalTypes, CalRow
<1>3. CASE ok /\ ~calendar[e].gone
  <2> DEFINE x == [calendar[e] EXCEPT !.gone = TRUE, !.set = "crm", !.tag = @ + 1]
  <2>1. /\ calendar' = [calendar EXCEPT ![e].gone = TRUE, ![e].set = "crm", ![e].tag = @ + 1]
        /\ unseen' = unseen \cup {e} /\ slipped' = slipped
    BY <1>3 DEF Deleted
  <2>2. /\ x \in CalEvents /\ x.gone /\ x.set = "crm" /\ x.of = calendar[e].of /\ x.by = calendar[e].by
        /\ x.at = calendar[e].at /\ x.tag = calendar[e].tag + 1
    <3>1. calendar[e].tag + 1 \in Nat /\ "crm" \in Makers
      BY <1>2 DEF Makers
    <3>2. calendar[e] \in [of : CalStaff, at : CalSpots, by : Makers, set : Makers, gone : BOOLEAN, tag : Nat]
      BY <1>2 DEF CalEvents
    <3> HIDE DEF Makers
    <3>3. QED BY <3>1, <3>2 DEF CalEvents
  <2>3. calendar' = [calendar EXCEPT ![e] = x]
    BY <1>1, <1>2, <2>1, CalTypes DEF CalEvents
  <2> HIDE DEF x
  <2>4. EventIs(e, x)
    BY <1>1, <2>2, <2>3, CalTypes DEF EventIs
  <2>5. Changed(x, e)
    BY <1>2, <2>2 DEF Changed, Whole
  <2>6. /\ Used' = Used /\ Numbered' /\ ReportsAreTrue' /\ unseen' \subseteq EventIds
        /\ \A d \in EventIds : calendar'[d].by = calendar[d].by /\ calendar'[d].of = calendar[d].of
        /\ \A r \in eventRefs : RefIsTrue(r)'
        /\ \A d \in EventIds : Coming(d)' <=> Coming(d) \/ d = e
    BY <1>2, <2>1, <2>2, <2>4, <2>5, EventChanges
  <2>7. /\ calendar' \in [EventIds -> CalEvents] /\ calendar'[e] = x
        /\ \A d \in EventIds \ {e} : calendar'[d] = calendar[d]
    BY <2>4 DEF EventIs
  <2>8. calendar'[e].gone
    BY <2>2, <2>7
  <2>9. \A d \in EventIds : calendar[d].gone => calendar'[d].gone
    BY <2>7, <2>8
  <2>10. OursRemain
    BY <2>6 DEF OursRemain
  <2>11. slipped' \in BOOLEAN
    BY <1>1, <2>1, CalTypes
  <2>12. QED BY <2>1, <2>6, <2>7, <2>8, <2>9, <2>10, <2>11
<1>4. CASE ~(ok /\ ~calendar[e].gone)
  <2>1. calendar' = calendar /\ unseen' = unseen /\ slipped' = (slipped \/ ~ok)
    BY <1>4 DEF Deleted
  <2>2. slipped' \in BOOLEAN
    BY <1>1, <2>1, CalTypes
  <2>3. ~slipped' => ~slipped /\ calendar'[e].gone
    BY <1>4, <2>1
  <2>4. QED BY <1>1, <2>1, <2>2, <2>3, EventsRest, CalTypes
<1>5. QED BY <1>3, <1>4

\* Nothing brings back what went astray, unless it is linked after all.
LEMMA StillAstray ==
    ASSUME Astray, Used \subseteq EventIds, Used \subseteq Used',
           \A e \in Used : AstrayOne(e) =>
               /\ calendar'[e].by = "crm" /\ calendar'[e].set = "owner" /\ Coming(e)'
               /\ ~HasRef(e)' /\ ~JustPut(e)'
    PROVE  Astray'
<1>1. PICK e \in Used : AstrayOne(e)
  BY DEF Astray
<1>2. AstrayOne(e)'
  BY <1>1 DEF AstrayOne
<1>3. e \in Used'
  BY <1>1
<1>4. QED BY <1>2, <1>3 DEF Astray

LEMMA TakeOffStep ==
    ASSUME CalInv, NEW p \in PushTasks, NEW e \in EventIds, NEW ok \in BOOLEAN, TakeOff(p, e, ok) PROVE CalInv'
<1>1. /\ pushing[p].step = "begun" /\ e \in pushing[p].drop /\ Deleted(e, ok)
      /\ pushing' = [pushing EXCEPT ![p].step = "removed", ![p].got = e]
      /\ UNCHANGED <<consult, asked, eventRefs, waits, takenOff, batch, moves>>
  BY DEF TakeOff
<1>2. CalBasics /\ CalShape /\ OursAreOurs /\ Numbered
  BY DEF CalInv, CalBasics
<1>3. HandIsOurs(pushing[p]) /\ calendar[e].by = "crm" /\ e # 0
  BY <1>1, <1>2, CalTypes DEF OursAreOurs, HandIsOurs
<1>4. /\ calendar' \in [EventIds -> CalEvents] /\ unseen' \subseteq EventIds /\ slipped' \in BOOLEAN
      /\ Used' = Used /\ Numbered' /\ ReportsAreTrue' /\ OursRemain
      /\ \A r \in eventRefs : RefIsTrue(r)'
      /\ ~slipped' => ~slipped /\ calendar'[e].gone
      /\ \A d \in EventIds \ {e} : calendar'[d] = calendar[d]
      /\ \A d \in EventIds : calendar'[d].of = calendar[d].of /\ calendar'[d].by = calendar[d].by
      /\ \A d \in EventIds : (Coming(d) => Coming(d)') /\ (calendar[d].gone => calendar'[d].gone)
  BY <1>1, <1>2, <1>3, DeletedKnown
<1> DEFINE removed == [pushing[p] EXCEPT !.step = "removed", !.got = e]
<1>5. pushing[p] \in CalPushes
  BY <1>2, CalTypes
<1>6. /\ removed \in CalPushes /\ removed.step = "removed" /\ removed.got = e
      /\ removed.drop = pushing[p].drop /\ removed.consult = pushing[p].consult
  BY <1>5 DEF CalPushes
<1>7. pushing' = [pushing EXCEPT ![p] = removed]
  BY <1>1, <1>2, <1>5, CalTypes DEF CalPushes
<1> HIDE DEF removed
<1>8. PICK t \in CalPushes : t = removed
  BY <1>6
<1>9. PushingIs(p, t)
  BY <1>2, <1>7, <1>8, RowBecomes
<1>10. HandIsOurs(t)'
  <2>1. \A d \in t.drop : d \in EventIds /\ calendar'[d].by = "crm"
    BY <1>3, <1>4, <1>6, <1>8, CalPushRow DEF HandIsOurs
  <2>2. calendar'[e].by = "crm"
    BY <1>3, <1>4
  <2>3. QED BY <1>3, <1>6, <1>8, <2>1, <2>2 DEF HandIsOurs
<1>11. OursAreOurs'
  BY <1>1, <1>2, <1>4, <1>9, <1>10, HandsAreOurs
<1>12. CalShape'
  BY <1>1, <1>2, <1>4, <1>9, CalTypes, CalTypesNext DEF PushingIs
<1>13. RefsAreTrue'
  BY <1>1, <1>2, <1>4, RefsStay
<1>14. CalBasics'
  BY <1>4, <1>11, <1>12, <1>13 DEF CalBasics
<1>15. ASSUME ~slipped'
       PROVE  /\ CalLoose /\ ~slipped /\ PushesInHand = {p} /\ PushesInHand' = {p} /\ OnePushing'
              /\ \A q \in PushTasks \ {p} : pushing[q].step = "idle" /\ pushing'[q].step = "idle"
              /\ \A d \in EventIds : ~JustPut(d) /\ ~JustPut(d)'
  <2>1. CalLoose /\ OnePushing /\ ~slipped
    BY <1>4, <1>15 DEF CalInv, CalLoose
  <2>2. t.step = "removed" /\ pushing[p].step # "idle"
    BY <1>1, <1>6, <1>8
  <2>3. QED BY <1>1, <1>2, <1>9, <2>1, <2>2, OnlyPush
<1>16. ASSUME ~slipped' PROVE CalLoose'
  <2>1. CalLoose /\ OnePushing' /\ \A q \in PushTasks \ {p} : pushing'[q].step = "idle"
    BY <1>15, <1>16
  <2>2. HandIsTrue(pushing[p])
    BY <2>1 DEF CalLoose
  <2>3. HandIsTrue(t)'
    BY <1>1, <1>4, <1>6, <1>8, <1>16, <2>2 DEF HandIsTrue
  <2>4. \A q \in PushTasks : HandIsTrue(pushing[q])'
    BY <1>9, <2>1, <2>3, OthersTrue
  <2>5. ASSUME NEW d \in Used', calendar'[d].by = "crm", ~calendar'[d].gone
        PROVE  HasRef(d)' \/ d \in takenOff'
    <3>1. d \in Used /\ d \in EventIds /\ calendar[d].by = "crm" /\ ~calendar[d].gone /\ ~JustPut(d)
      BY <1>2, <1>4, <1>15, <1>16, <2>5, UsedKnown
    <3>2. HasRef(d) \/ d \in takenOff
      BY <2>1, <3>1 DEF CalLoose, NoneForgotten
    <3>3. QED BY <1>1, <3>2 DEF HasRef
  <2>6. NoneForgotten'
    BY <2>5 DEF NoneForgotten
  <2>7. OnlyForAppointment'
    <3>1. consult.there
      BY <1>15, <1>16 DEF CalLoose, OnlyForAppointment
    <3>2. QED BY <1>1, <3>1 DEF OnlyForAppointment
  <2>8. QED BY <2>1, <2>4, <2>6, <2>7 DEF CalLoose
<1>17. ASSUME Plain' PROVE PlainInOrder'
  <2>1. Plain /\ ~slipped' /\ PlainInOrder
    BY <1>1, <1>4, <1>17 DEF Plain, CalInv
  <2>2. takenOff' = {} /\ \A r, s \in eventRefs' : r = s
    BY <1>1, <2>1 DEF PlainInOrder
  <2>3. PushingKnows(pushing[p]) /\ BegunKnows(pushing[p])
    BY <1>1, <1>15, <2>1 DEF PlainInOrder, PushingKnows
  <2>4. HasRef(e)
    BY <1>1, <2>3 DEF BegunKnows
  <2>5. ASSUME NEW r \in eventRefs' PROVE GoneKnown(r)'
    <3>1. CASE r.id = e
      <4>1. pushing'[p].step = "removed" /\ pushing'[p].got = e
        BY <1>6, <1>8, <1>9 DEF PushingIs
      <4>2. QED BY <3>1, <4>1 DEF GoneKnown
    <3>2. CASE r.id # e
      <4>1. r \in eventRefs /\ r.id \in EventIds /\ calendar'[r.id] = calendar[r.id]
        BY <1>1, <1>2, <1>4, <3>2, CalTypes, RefRow
      <4>2. \A q \in PushTasks : pushing[q].step # "removed"
        BY <1>1, <1>15, <2>1
      <4>3. QED BY <2>1, <4>1, <4>2 DEF PlainInOrder, GoneKnown
    <3>3. QED BY <3>1, <3>2
  <2>6. Astray => Astray'
    <3>1. ASSUME NEW a \in Used, AstrayOne(a)
          PROVE  /\ calendar'[a].by = "crm" /\ calendar'[a].set = "owner" /\ Coming(a)'
                 /\ ~HasRef(a)' /\ ~JustPut(a)'
      <4>1. a \in EventIds \ {e}
        BY <1>2, <2>4, <3>1, UsedKnown DEF AstrayOne
      <4>2. QED BY <1>1, <1>4, <1>15, <2>1, <3>1, <4>1 DEF AstrayOne, HasRef
    <3>2. Used \subseteq EventIds /\ Used \subseteq Used'
      BY <1>4 DEF Used
    <3>3. QED BY <3>1, <3>2, StillAstray
  <2>7. BegunKnows(t)'
    <3>1. \A d \in EventIds : d \in t.drop <=> HasRef(d)' /\ calendar'[d].of \notin WantedOn(t.consult)
      BY <1>1, <1>4, <1>6, <1>8, <2>3 DEF BegunKnows, HasRef
    <3>2. waits' \/ (t.consult.done => consult'.done)
      BY <1>1, <1>6, <1>8, <2>3 DEF BegunKnows
    <3>3. t.got \in t.drop
      BY <1>1, <1>6, <1>8
    <3>4. waits \/ Astray \/ SameAs(consult, pushing[p].consult)
      BY <1>1, <2>3 DEF BegunKnows
    <3>5. waits' \/ Astray' \/ SameAs(consult', t.consult)
      BY <1>1, <1>6, <1>8, <2>6, <3>4
    <3>6. QED BY <3>1, <3>2, <3>3, <3>5 DEF BegunKnows, WantedOn, SameAs
  <2>8. waits' \/ asked' = t.consult
    BY <1>1, <1>6, <1>8, <2>3 DEF PushingKnows
  <2>9. PushingKnows(t)'
    BY <1>6, <1>8, <2>7, <2>8 DEF PushingKnows
  <2>10. PushesInHand' = {p}
    BY <1>15, <2>1
  <2>11. \A q \in PushesInHand' : PushingKnows(pushing[q])'
    BY <1>9, <2>9, <2>10, OneKnows
  <2>12. QED BY <2>2, <2>5, <2>10, <2>11 DEF PlainInOrder
<1>18. QED BY <1>14, <1>16, <1>17 DEF CalInv

LEMMA ForgetRefStep == ASSUME CalInv, NEW p \in PushTasks, ForgetRef(p) PROVE CalInv'
<1> DEFINE e == pushing[p].got
           begun == [pushing[p] EXCEPT !.step = "begun", !.got = 0, !.drop = @ \ {e}]
<1>1. /\ pushing[p].step = "removed" /\ eventRefs' = eventRefs \ LinkedTo(e)
      /\ pushing' = [pushing EXCEPT ![p].step = "begun", ![p].got = 0, ![p].drop = @ \ {e}]
      /\ UNCHANGED <<consult, asked, calendar, waits, takenOff, unseen, batch, moves, slipped>>
  BY DEF ForgetRef
<1>2. CalBasics /\ CalShape /\ OursAreOurs /\ Numbered
  BY DEF CalInv, CalBasics
<1>3. pushing[p] \in CalPushes /\ HandIsOurs(pushing[p])
  BY <1>2, CalTypes DEF OursAreOurs
<1>4. e \in EventIds /\ e # 0 /\ calendar[e].by = "crm"
  BY <1>1, <1>3, CalPushRow DEF HandIsOurs
<1>5. /\ begun \in CalPushes /\ begun.step = "begun" /\ begun.drop = pushing[p].drop \ {e}
      /\ begun.consult = pushing[p].consult /\ begun.got = 0
  BY <1>3 DEF CalPushes
<1>6. pushing' = [pushing EXCEPT ![p] = begun]
  BY <1>1, <1>2, <1>3, CalTypes DEF CalPushes
<1> HIDE DEF begun
<1>7. PICK t \in CalPushes : t = begun
  BY <1>5
<1>8. PushingIs(p, t)
  BY <1>2, <1>6, <1>7, RowBecomes
<1>9. e = pushing[p].got
  OBVIOUS
<1> HIDE DEF e
<1>10. eventRefs' \subseteq eventRefs /\ \A r \in eventRefs : r \in eventRefs' <=> r.id # e
  BY <1>1 DEF LinkedTo
<1>11. Numbered' /\ ReportsAreTrue' /\ OursRemain /\ RefsAreTrue' /\ Used' = Used
  BY <1>1, <1>2, <1>10, EventsRest, RefsStay
<1>12. HandIsOurs(t)'
  BY <1>1, <1>3, <1>5, <1>7 DEF HandIsOurs
<1>13. CalBasics'
  <2>1. OursAreOurs'
    BY <1>1, <1>2, <1>8, <1>11, <1>12, HandsAreOurs
  <2>2. CalShape'
    BY <1>1, <1>2, <1>8, <1>10, CalTypes, CalTypesNext DEF PushingIs
  <2>3. QED BY <1>11, <2>1, <2>2 DEF CalBasics
<1>14. ASSUME ~slipped'
       PROVE  /\ CalLoose /\ ~slipped /\ PushesInHand = {p} /\ PushesInHand' = {p} /\ OnePushing'
              /\ \A q \in PushTasks \ {p} : pushing[q].step = "idle" /\ pushing'[q].step = "idle"
              /\ \A d \in EventIds : ~JustPut(d) /\ ~JustPut(d)'
  <2>1. CalLoose /\ OnePushing /\ ~slipped
    BY <1>1, <1>14 DEF CalInv, CalLoose
  <2>2. t.step = "begun" /\ pushing[p].step # "idle"
    BY <1>1, <1>5, <1>7
  <2>3. QED BY <1>1, <1>2, <1>8, <2>1, <2>2, OnlyPush
<1>15. ASSUME ~slipped' PROVE CalLoose'
  <2>1. CalLoose /\ OnePushing' /\ \A q \in PushTasks \ {p} : pushing'[q].step = "idle"
    BY <1>14, <1>15
  <2>2. HandIsTrue(pushing[p])
    BY <2>1 DEF CalLoose
  <2>3. HandIsTrue(t)'
    BY <1>1, <1>5, <1>7, <2>2 DEF HandIsTrue
  <2>4. \A q \in PushTasks : HandIsTrue(pushing[q])'
    BY <1>8, <2>1, <2>3, OthersTrue
  <2>5. ASSUME NEW d \in Used', calendar'[d].by = "crm", ~calendar'[d].gone
        PROVE  HasRef(d)' \/ d \in takenOff'
    <3>1. d \in Used /\ d \in EventIds /\ calendar[d].by = "crm" /\ ~calendar[d].gone /\ ~JustPut(d)
      BY <1>1, <1>2, <1>11, <1>14, <1>15, <2>5, UsedKnown
    <3>2. HasRef(d) \/ d \in takenOff
      BY <2>1, <3>1 DEF CalLoose, NoneForgotten
    <3>3. d # e
      BY <1>1, <1>9, <2>2, <3>1 DEF HandIsTrue
    <3>4. QED BY <1>1, <1>10, <3>2, <3>3 DEF HasRef
  <2>6. NoneForgotten'
    BY <2>5 DEF NoneForgotten
  <2>7. OnlyForAppointment'
    <3>1. consult.there
      BY <1>14, <1>15 DEF CalLoose, OnlyForAppointment
    <3>2. QED BY <1>1, <3>1 DEF OnlyForAppointment
  <2>8. QED BY <2>1, <2>4, <2>6, <2>7 DEF CalLoose
<1>16. ASSUME Plain' PROVE PlainInOrder'
  <2>1. ~slipped' /\ ~slipped /\ consult.there /\ \A r \in eventRefs' : r.made
    BY <1>1, <1>16 DEF Plain
  <2>2. \A r \in eventRefs : r.made
    BY <1>2, <1>4, <1>10, <2>1 DEF CalBasics, RefsAreTrue, RefIsTrue
  <2>3. PlainInOrder
    BY <2>1, <2>2 DEF Plain, CalInv
  <2>4. PushesInHand' = {p} /\ PushesInHand = {p} /\ \A d \in EventIds : ~JustPut(d) /\ ~JustPut(d)'
    BY <1>14, <2>1
  <2>5. PushingKnows(pushing[p]) /\ BegunKnows(pushing[p])
    BY <1>1, <2>3, <2>4 DEF PlainInOrder, PushingKnows
  <2>6. e \in pushing[p].drop /\ HasRef(e)
    BY <1>1, <1>4, <1>9, <2>5 DEF BegunKnows
  <2>7. PICK r \in eventRefs : r.id = e
    BY <2>6 DEF HasRef
  <2>8. eventRefs' = {} /\ \A d \in EventIds : HasRef(d) => d = e
    BY <1>10, <2>3, <2>7 DEF PlainInOrder, HasRef
  <2>9. t.drop = {}
    <3>1. \A d \in pushing[p].drop : d \in EventIds /\ d = e
      BY <1>3, <2>5, <2>8, CalPushRow DEF BegunKnows
    <3>2. QED BY <1>5, <1>7, <3>1
  <2>10. Astray => Astray'
    <3>1. ASSUME NEW a \in Used, AstrayOne(a)
          PROVE  /\ calendar'[a].by = "crm" /\ calendar'[a].set = "owner" /\ Coming(a)'
                 /\ ~HasRef(a)' /\ ~JustPut(a)'
      <4>1. a \in EventIds
        BY <1>2, UsedKnown
      <4>2. QED BY <1>1, <2>4, <2>8, <3>1, <4>1 DEF AstrayOne, HasRef, Coming
    <3>2. Used \subseteq EventIds /\ Used \subseteq Used'
      BY <1>11 DEF Used
    <3>3. QED BY <3>1, <3>2, StillAstray
  <2>11. BegunKnows(t)'
    <3>1. \A d \in EventIds : d \in t.drop <=> HasRef(d)' /\ calendar'[d].of \notin WantedOn(t.consult)
      BY <2>8, <2>9 DEF HasRef
    <3>2. waits' \/ (t.consult.done => consult'.done)
      BY <1>1, <1>5, <1>7, <2>5 DEF BegunKnows
    <3>3. waits \/ Astray \/ SameAs(consult, pushing[p].consult)
      BY <2>5, <2>6 DEF BegunKnows
    <3>4. waits' \/ Astray' \/ SameAs(consult', t.consult)
      BY <1>1, <1>5, <1>7, <2>10, <3>3
    <3>5. t.step = "begun"
      BY <1>5, <1>7
    <3>6. QED BY <3>1, <3>2, <3>4, <3>5 DEF BegunKnows, WantedOn, SameAs
  <2>12. waits' \/ asked' = t.consult
    BY <1>1, <1>5, <1>7, <2>5 DEF PushingKnows
  <2>13. PushingKnows(t)'
    BY <1>5, <1>7, <2>11, <2>12 DEF PushingKnows
  <2>14. \A q \in PushesInHand' : PushingKnows(pushing[q])'
    BY <1>8, <2>4, <2>13, OneKnows
  <2>15. takenOff' = {}
    BY <1>1, <2>3 DEF PlainInOrder
  <2>16. QED BY <2>4, <2>8, <2>14, <2>15 DEF PlainInOrder
<1>17. QED BY <1>13, <1>15, <1>16 DEF CalInv

\* A calendar is wanted by the assignee of an appointment that has a time.
LEMMA WantedKnown ==
    ASSUME NEW v \in Consults
    PROVE  /\ WantedOn(v) # {} => v.who \in Owners /\ v.at \in Slots /\ WantedOn(v) = {v.who}
           /\ \A o \in WantedOn(v) : o = v.who
<1>1. v.who \in Owners \cup {"none"} /\ v.at \in Slots \cup {"none"}
  BY DEF Consults
<1>2. \A o \in WantedOn(v) : o = v.who
  BY DEF WantedOn
<1>3. ASSUME WantedOn(v) # {} PROVE v.who \in Owners /\ v.at \in Slots /\ WantedOn(v) = {v.who}
  <2>1. v.at # "none" /\ {v.who} \ {"none"} # {}
    BY <1>3 DEF WantedOn
  <2>2. v.who # "none"
    BY <2>1
  <2>3. QED BY <1>1, <2>1, <2>2 DEF WantedOn
<1>4. QED BY <1>2, <1>3

\* A push that decides ends there, or goes on to save an event.
LEMMA DecideStep == ASSUME CalInv, NEW p \in PushTasks, Decide(p) PROVE CalInv'
<1> DEFINE v == pushing[p].consult
           found == UNION {RefsOn(o) : o \in WantedOn(v)}
<1>1. /\ pushing[p].step = "begun" /\ pushing[p].drop = {}
      /\ UNCHANGED <<consult, asked, calendar, eventRefs, waits, takenOff, unseen, batch, moves, slipped>>
  BY DEF Decide
<1>2. PICK ref \in IF found = {} THEN {[id |-> 0, made |-> TRUE]} ELSE found :
          pushing' = [pushing EXCEPT ![p] =
              IF WantedOn(v) # {} /\ ~v.done /\ ref.made
              THEN [@ EXCEPT !.step = "saving", !.old = ref.id] ELSE NotPushing]
  BY DEF Decide
<1>3. \A r \in found : r \in eventRefs /\ calendar[r.id].of \in WantedOn(v)
  BY DEF RefsOn
<1>4. \A r \in eventRefs : calendar[r.id].of \in WantedOn(v) => r \in found
  BY DEF RefsOn
<1>5. \/ found = {} /\ ref.id = 0 /\ ref.made
      \/ ref \in found
  BY <1>2
<1> DEFINE goes == WantedOn(v) # {} /\ ~v.done /\ ref.made
           saving == [pushing[p] EXCEPT !.step = "saving", !.old = ref.id]
<1>6. CalBasics /\ CalShape /\ OursAreOurs /\ Numbered
  BY DEF CalInv, CalBasics
<1>7. pushing[p] \in CalPushes /\ HandIsOurs(pushing[p]) /\ v \in Consults
  BY <1>6, CalTypes, CalPushRow DEF OursAreOurs
<1>8. ref.id \in {0} \cup EventIds /\ (ref \in found => ref \in eventRefs /\ ref.id \in EventIds /\ ref.id # 0)
  <2>1. \A r \in eventRefs : r.id \in EventIds /\ r.id # 0
    BY <1>6, CalTypes, RefRow
  <2>2. QED BY <1>3, <1>5, <2>1
<1>9. /\ saving \in CalPushes /\ saving.step = "saving" /\ saving.old = ref.id /\ saving.consult = v
      /\ saving.drop = {}
  BY <1>1, <1>7, <1>8 DEF CalPushes
<1>10. pushing' = [pushing EXCEPT ![p] = IF goes THEN saving ELSE NotPushing]
  BY <1>2
<1> HIDE DEF saving, found
<1>11. PICK t \in CalPushes : t = IF goes THEN saving ELSE NotPushing
  BY <1>9, Blanks
<1>12. PushingIs(p, t)
  BY <1>6, <1>10, <1>11, RowBecomes
<1>13. Numbered' /\ ReportsAreTrue' /\ OursRemain /\ RefsAreTrue' /\ Used' = Used
  BY <1>1, <1>6, EventsRest, RefsStay
<1>14. goes => /\ v.who \in Owners /\ v.at \in Slots /\ WantedOn(v) = {v.who} /\ ~v.done
               /\ ref.id # 0 => calendar[ref.id].by = "crm" /\ calendar[ref.id].of = v.who
  <2>1. ASSUME goes, ref \in found PROVE calendar[ref.id].by = "crm" /\ calendar[ref.id].of = v.who
    <3>1. ref \in eventRefs /\ calendar[ref.id].of = v.who /\ ref.made
      BY <1>3, <1>7, <2>1, WantedKnown
    <3>2. RefIsTrue(ref)
      BY <1>6, <3>1 DEF CalBasics, RefsAreTrue
    <3>3. QED BY <3>1, <3>2 DEF RefIsTrue
  <2>2. QED BY <1>5, <1>7, <2>1, WantedKnown
<1>15. HandIsOurs(t)'
  <2>1. CASE goes
    BY <1>1, <1>9, <1>11, <1>14, <2>1 DEF HandIsOurs
  <2>2. CASE ~goes
    BY <1>11, <2>2, IdleHand
  <2>3. QED BY <2>1, <2>2
<1>16. CalBasics'
  <2>1. OursAreOurs'
    BY <1>1, <1>6, <1>12, <1>13, <1>15, HandsAreOurs
  <2>2. CalShape'
    BY <1>1, <1>6, <1>12, CalTypes, CalTypesNext DEF PushingIs
  <2>3. QED BY <1>13, <2>1, <2>2 DEF CalBasics
<1>17. t.step \in {"saving", "idle"} /\ (t.step = "saving" <=> goes)
  BY <1>9, <1>11, Blanks
<1>18. ASSUME ~slipped'
       PROVE  /\ CalLoose /\ ~slipped /\ PushesInHand = {p} /\ OnePushing'
              /\ goes => PushesInHand' = {p}
              /\ ~goes => PushesInHand' = {}
              /\ \A q \in PushTasks \ {p} : pushing[q].step = "idle" /\ pushing'[q].step = "idle"
              /\ \A d \in EventIds : ~JustPut(d) /\ ~JustPut(d)'
  <2>1. CalLoose /\ OnePushing /\ ~slipped
    BY <1>1, <1>18 DEF CalInv, CalLoose
  <2>2. pushing[p].step # "idle" /\ pushing[p].step # "saved"
    BY <1>1
  <2>3. QED BY <1>6, <1>12, <1>17, <2>1, <2>2, OnlyPush
<1>19. ASSUME ~slipped' PROVE CalLoose'
  <2>1. CalLoose /\ OnePushing' /\ \A q \in PushTasks \ {p} : pushing'[q].step = "idle"
    BY <1>18, <1>19
  <2>2. HandIsTrue(pushing[p])
    BY <2>1 DEF CalLoose
  <2>3. HandIsTrue(t)'
    <3>1. CASE goes
      <4>1. v.there
        BY <1>1, <2>2 DEF HandIsTrue
      <4>2. ref.id # 0 => HasRef(ref.id)'
        BY <1>1, <1>5, <1>8 DEF HasRef
      <4>3. QED BY <1>9, <1>11, <3>1, <4>1, <4>2 DEF HandIsTrue
    <3>2. CASE ~goes
      BY <1>11, <3>2, IdleHand
    <3>3. QED BY <3>1, <3>2
  <2>4. \A q \in PushTasks : HandIsTrue(pushing[q])'
    BY <1>12, <2>1, <2>3, OthersTrue
  <2>5. NoneForgotten'
    <3>1. \A d \in Used : d \in EventIds /\ ~JustPut(d)
      BY <1>6, <1>18, <1>19, UsedKnown
    <3>2. QED BY <1>1, <1>13, <2>1, <3>1 DEF CalLoose, NoneForgotten, HasRef
  <2>6. OnlyForAppointment'
    <3>1. consult.there
      BY <1>18, <1>19 DEF CalLoose, OnlyForAppointment
    <3>2. QED BY <1>1, <3>1 DEF OnlyForAppointment
  <2>7. QED BY <2>1, <2>4, <2>5, <2>6 DEF CalLoose
<1>20. ASSUME Plain' PROVE PlainInOrder'
  <2>1. ~slipped' /\ Plain /\ PlainInOrder
    BY <1>1, <1>20 DEF Plain, CalInv
  <2>2. /\ PushesInHand = {p} /\ (goes => PushesInHand' = {p}) /\ (~goes => PushesInHand' = {})
        /\ \A d \in EventIds : ~JustPut(d) /\ ~JustPut(d)'
        /\ \A q \in PushTasks \ {p} : pushing[q].step = "idle"
    BY <1>18, <2>1
  <2>3. PushingKnows(pushing[p]) /\ BegunKnows(pushing[p])
    BY <1>1, <2>1, <2>2 DEF PlainInOrder, PushingKnows
  <2>4. \A r \in eventRefs : r \in found
    <3>1. ASSUME NEW r \in eventRefs PROVE calendar[r.id].of \in WantedOn(v)
      <4>1. r.id \in EventIds /\ HasRef(r.id)
        BY <1>6, CalTypes, RefRow DEF HasRef
      <4>2. QED BY <1>1, <2>3, <4>1 DEF BegunKnows
    <3>2. QED BY <1>4, <3>1
  <2>5. Astray => Astray'
    <3>1. ASSUME NEW a \in Used, AstrayOne(a)
          PROVE  /\ calendar'[a].by = "crm" /\ calendar'[a].set = "owner" /\ Coming(a)'
                 /\ ~HasRef(a)' /\ ~JustPut(a)'
      <4>1. a \in EventIds
        BY <1>6, UsedKnown
      <4>2. QED BY <1>1, <2>2, <3>1, <4>1 DEF AstrayOne, HasRef, Coming
    <3>2. Used \subseteq EventIds /\ Used \subseteq Used'
      BY <1>13 DEF Used
    <3>3. QED BY <3>1, <3>2, StillAstray
  <2>6. takenOff' = {} /\ \A r, s \in eventRefs' : r = s
    BY <1>1, <2>1 DEF PlainInOrder
  <2>7. \A r \in eventRefs' : GoneKnown(r)'
    <3>1. \A q \in PushTasks : pushing[q].step # "removed"
      BY <1>1, <2>2
    <3>2. \A r \in eventRefs : calendar[r.id].gone => calendar[r.id].set = "owner"
      BY <2>1, <3>1 DEF PlainInOrder, GoneKnown
    <3>3. QED BY <1>1, <3>2 DEF GoneKnown
  <2>8. /\ waits \/ (v.done => consult.done)
        /\ \/ waits \/ Astray \/ SameAs(consult, v)
           \/ eventRefs # {} /\ (consult.done \/ \A r \in eventRefs : Coming(r.id) \/ ~calendar[r.id].gone)
        /\ waits \/ asked = v
    BY <1>1, <2>3 DEF BegunKnows, PushingKnows
  <2>9. CASE goes
    <3>1. t.step = "saving" /\ t.old = ref.id /\ t.consult = v
      BY <1>9, <1>11, <2>9
    <3>2. \A r \in eventRefs : r.id = ref.id
      BY <1>5, <1>8, <2>1, <2>4 DEF PlainInOrder
    <3>3. eventRefs = {} => ref.id = 0
      BY <1>5, <1>8
    <3>4. \/ waits' \/ Astray' \/ SameAs(consult', v)
          \/ eventRefs' # {} /\ (consult'.done \/ Coming(ref.id)' \/ ~calendar'[ref.id].gone)
      BY <1>1, <2>5, <2>8, <3>2 DEF Coming
    <3>5. SavingKnows(t)'
      BY <1>1, <3>1, <3>2, <3>3, <3>4 DEF SavingKnows, Coming, SameAs
    <3>6. PushingKnows(t)'
      BY <1>1, <2>8, <3>1, <3>5 DEF PushingKnows
    <3>7. \A q \in PushesInHand' : PushingKnows(pushing[q])'
      BY <1>12, <2>2, <2>9, <3>6, OneKnows
    <3>8. PushesInHand' # {}
      BY <2>2, <2>9
    <3>9. QED BY <2>6, <2>7, <3>7, <3>8 DEF PlainInOrder
  <2>10. CASE ~goes
    <3>1. PushesInHand' = {}
      BY <2>2, <2>10
    <3>2. ref.made
      BY <1>5, <1>8, <2>1 DEF Plain
    <3>3. v.done \/ (WantedOn(v) = {} /\ eventRefs = {})
      BY <1>3, <2>4, <2>10, <3>2
    <3>4. v.done => waits \/ consult.done
      BY <2>8
    <3>5. ASSUME eventRefs = {}, WantedOn(v) = {} PROVE waits \/ Astray \/ WantedOn(consult) = {}
      BY <2>8, <3>5 DEF SameAs, WantedOn
    <3>6. Agreed'
      <4>1. \/ waits \/ Astray \/ consult.done
            \/ eventRefs = {} /\ WantedOn(consult) = {}
        BY <3>3, <3>4, <3>5
      <4>2. \/ waits' \/ Astray' \/ consult'.done
            \/ eventRefs' = {} /\ WantedOn(consult') = {}
        BY <1>1, <2>5, <4>1
      <4>3. QED BY <4>2 DEF Agreed, WantedOn
    <3>7. waits' \/ consult'.done \/ \A r \in eventRefs' : AsAsked(r)'
      BY <1>1, <3>3, <3>4
    <3>8. QED BY <2>6, <2>7, <3>1, <3>6, <3>7 DEF PlainInOrder
  <2>11. QED BY <2>9, <2>10
<1>21. QED BY <1>16, <1>19, <1>20 DEF CalInv

LEMMA PutOnCalendarStep == ASSUME CalInv, NEW p \in PushTasks, PutOnCalendar(p) PROVE CalInv'
<1>1. CalBasics /\ CalShape /\ OursAreOurs /\ Numbered
  BY DEF CalInv, CalBasics
<1>2. pushing[p] \in CalPushes /\ HandIsOurs(pushing[p])
  BY <1>1, CalTypes DEF OursAreOurs
<1>3. PICK v \in Consults, old \in {0} \cup EventIds : v = pushing[p].consult /\ old = pushing[p].old
  BY <1>2, CalPushRow
<1> DEFINE there == old # 0 /\ ~calendar[old].gone
           put == IF there THEN old ELSE NextEvent
           payload == Payload(v, calendar[put], ~there)
<1>4. /\ pushing[p].step = "saving" /\ put \in EventIds /\ unseen' = unseen \cup {put}
      /\ calendar' = [calendar EXCEPT ![put] = payload]
      /\ pushing' = [pushing EXCEPT ![p].step = "saved", ![p].got = put]
      /\ UNCHANGED <<consult, asked, eventRefs, waits, takenOff, batch, moves, slipped>>
  <2>1. /\ pushing[p].step = "saving" /\ put \in EventIds /\ unseen' = unseen \cup {put}
        /\ calendar' = [calendar EXCEPT ![put] = Payload(v, @, ~there)]
        /\ pushing' = [pushing EXCEPT ![p].step = "saved", ![p].got = put]
        /\ UNCHANGED <<consult, asked, eventRefs, waits, takenOff, batch, moves, slipped>>
    BY <1>3 DEF PutOnCalendar
  <2>2. QED BY <2>1
<1>5. PICK e \in EventIds : e = put
  BY <1>4
<1>6. /\ v.who \in Owners /\ v.at \in Slots /\ ~v.done
      /\ old # 0 => old \in EventIds /\ calendar[old].by = "crm" /\ calendar[old].of = v.who
  BY <1>2, <1>3, <1>4 DEF HandIsOurs
<1>7. calendar[e] \in CalEvents /\ calendar[e].tag \in Nat /\ calendar[e].tag + 1 \in Nat
  BY <1>1, CalTypes, CalRow
<1>8. there => e = old /\ e \in Used /\ calendar[e].by = "crm" /\ calendar[e].of = v.who
  BY <1>1, <1>5, <1>6, UsedKnown
<1>9. ~there => e = NextEvent /\ e \notin Used /\ calendar[e] = NoEvent
  BY <1>1, <1>5, NextIsNew DEF Used
<1>10. /\ payload.of = v.who /\ payload.at = v.at /\ payload.by = "crm" /\ payload.set = "crm"
       /\ payload.gone = FALSE /\ payload.tag = calendar[e].tag + 1
  BY <1>5, <1>8 DEF Payload
<1>11. payload \in CalEvents
  <2>1. v.who \in CalStaff /\ v.at \in CalSpots /\ "crm" \in Makers
    BY <1>6 DEF CalStaff, CalSpots, Makers
  <2>2. payload = [of |-> v.who, at |-> v.at, by |-> IF ~there THEN "crm" ELSE calendar[e].by, set |-> "crm",
                   gone |-> FALSE, tag |-> calendar[e].tag + 1]
    BY <1>5 DEF Payload
  <2>3. (IF ~there THEN "crm" ELSE calendar[e].by) \in Makers
    BY <1>8, <2>1
  <2> HIDE DEF payload, there
  <2>4. QED BY <1>7, <2>1, <2>2, <2>3 DEF CalEvents
<1>12. there \/ old = 0 \/ calendar[old].gone
  OBVIOUS
<1>13. there => old # 0 /\ e = old
  BY <1>5
<1> HIDE DEF put, there
<1>14. PICK x \in CalEvents : x = payload
  BY <1>11
<1> HIDE DEF payload
<1>15. EventIs(e, x)
  BY <1>1, <1>4, <1>5, <1>14, CalTypes DEF EventIs
<1>16. /\ Numbered' /\ ReportsAreTrue' /\ unseen' \subseteq EventIds
       /\ \A d \in Used : d \in Used' /\ d \in EventIds
       /\ \A d \in Used \ {e} : calendar'[d] = calendar[d]
       /\ \A d \in Used' : d \in Used \/ d = e
       /\ \A r \in eventRefs : RefIsTrue(r)'
       /\ \A d \in EventIds : Coming(d)' <=> Coming(d) \/ d = e
       /\ OursRemain
  <2>1. CASE there
    <3>1. Changed(x, e)
      BY <1>6, <1>8, <1>10, <1>14, <2>1 DEF Changed
    <3>2. /\ Used' = Used /\ Numbered' /\ ReportsAreTrue' /\ unseen' \subseteq EventIds
          /\ \A d \in EventIds : calendar'[d].by = calendar[d].by /\ calendar'[d].of = calendar[d].of
          /\ \A r \in eventRefs : RefIsTrue(r)'
          /\ \A d \in EventIds : Coming(d)' <=> Coming(d) \/ d = e
      BY <1>1, <1>4, <1>5, <1>8, <1>15, <2>1, <3>1, EventChanges
    <3>3. \A d \in Used : d \in EventIds
      BY DEF Used
    <3>4. \A d \in Used \ {e} : calendar'[d] = calendar[d]
      BY <1>15, <3>3 DEF EventIs
    <3>5. QED BY <3>2, <3>3, <3>4 DEF OursRemain
  <2>2. CASE ~there
    <3>1. e = NextEvent /\ NextEvent \in EventIds
      BY <1>4, <1>9, <2>2
    <3>2. Whole(x)
      <4>1. x.tag = 1
        BY <1>9, <1>10, <1>14, <2>2, Blanks
      <4>2. QED BY <1>6, <1>10, <1>14, <4>1 DEF Whole
    <3>3. /\ Used' = Used \cup {e} /\ Numbered' /\ ReportsAreTrue' /\ unseen' \subseteq EventIds
          /\ \A d \in Used : calendar'[d] = calendar[d]
          /\ \A r \in eventRefs : RefIsTrue(r)'
          /\ \A d \in EventIds : Coming(d)' <=> Coming(d) \/ d = e
      BY <1>1, <1>4, <1>5, <1>15, <3>1, <3>2, EventAppears
    <3>4. \A d \in Used : d \in EventIds
      BY DEF Used
    <3>5. OursRemain
      BY <1>1, <3>3, UsedKnown DEF OursRemain
    <3>6. QED BY <3>3, <3>4, <3>5
  <2>3. QED BY <2>1, <2>2
<1> DEFINE saved == [pushing[p] EXCEPT !.step = "saved", !.got = e]
<1>17. /\ saved \in CalPushes /\ saved.step = "saved" /\ saved.got = e /\ saved.old = old
       /\ saved.consult = v /\ saved.drop = pushing[p].drop /\ pushing' = [pushing EXCEPT ![p] = saved]
  <2>1. /\ saved \in CalPushes /\ saved.step = "saved" /\ saved.got = e /\ saved.old = old
        /\ saved.consult = v /\ saved.drop = pushing[p].drop
    BY <1>2, <1>3 DEF CalPushes
  <2>2. pushing' = [pushing EXCEPT ![p] = saved]
    BY <1>1, <1>2, <1>4, <1>5, CalTypes DEF CalPushes
  <2>3. QED BY <2>1, <2>2
<1> HIDE DEF saved
<1>18. PICK t \in CalPushes : t = saved
  BY <1>17
<1>19. PushingIs(p, t)
  BY <1>1, <1>17, <1>18, RowBecomes
<1>20. calendar'[e] = x
  BY <1>15 DEF EventIs
<1>21. HandIsOurs(t)'
  <2>1. \A d \in t.drop : calendar'[d].by = "crm"
    BY <1>2, <1>17, <1>16, <1>18, CalPushRow DEF HandIsOurs, OursRemain
  <2>2. old # 0 => calendar'[old].by = "crm" /\ calendar'[old].of = v.who
    BY <1>6, <1>16 DEF OursRemain
  <2>3. calendar'[e].by = "crm" /\ calendar'[e].of = v.who /\ e # 0
    BY <1>4, <1>1, <1>10, <1>14, <1>20, CalTypes
  <2>4. QED BY <1>6, <1>17, <1>18, <2>1, <2>2, <2>3 DEF HandIsOurs
<1>22. CalBasics'
  <2>1. OursAreOurs'
    BY <1>4, <1>1, <1>16, <1>19, <1>21, HandsAreOurs
  <2>2. CalShape'
    BY <1>4, <1>1, <1>15, <1>16, <1>19, CalTypes, CalTypesNext DEF PushingIs, EventIs
  <2>3. RefsAreTrue'
    BY <1>4, <1>1, <1>16, RefsStay
  <2>4. QED BY <1>16, <2>1, <2>2, <2>3 DEF CalBasics
<1>23. ASSUME ~slipped'
       PROVE  /\ CalLoose /\ ~slipped /\ PushesInHand = {p} /\ PushesInHand' = {p} /\ OnePushing'
              /\ \A q \in PushTasks \ {p} : pushing[q].step = "idle" /\ pushing'[q].step = "idle"
              /\ \A d \in EventIds : ~JustPut(d) /\ (JustPut(d)' <=> d = e)
  <2>1. CalLoose /\ OnePushing /\ ~slipped
    BY <1>4, <1>23 DEF CalInv, CalLoose
  <2>2. pushing[p].step # "idle" /\ pushing[p].step # "saved" /\ t.step = "saved" /\ t.got = e
    BY <1>4, <1>17, <1>18
  <2>3. QED BY <1>1, <1>19, <2>1, <2>2, OnlyPush
<1>24. HasRef(old)' <=> HasRef(old)
  BY <1>4 DEF HasRef
<1>25. ASSUME ~slipped' PROVE CalLoose'
  <2>1. CalLoose /\ OnePushing' /\ \A q \in PushTasks \ {p} : pushing'[q].step = "idle"
    BY <1>23, <1>25
  <2>2. HandIsTrue(pushing[p])
    BY <2>1 DEF CalLoose
  <2>3. HandIsTrue(t)'
    <3>1. v.there /\ (old # 0 => HasRef(old))
      BY <1>3, <1>4, <2>2 DEF HandIsTrue
    <3>2. ASSUME e # old, old # 0 PROVE calendar'[old].gone
      <4>1. old \in Used /\ calendar[old].gone
        BY <1>1, <1>6, <1>12, <1>13, <3>2, UsedKnown
      <4>2. QED BY <1>16, <3>2, <4>1
    <3>3. QED BY <1>17, <1>18, <1>24, <3>1, <3>2 DEF HandIsTrue
  <2>4. \A q \in PushTasks : HandIsTrue(pushing[q])'
    BY <1>19, <2>1, <2>3, OthersTrue
  <2>5. ASSUME NEW d \in Used', calendar'[d].by = "crm", ~calendar'[d].gone
        PROVE  HasRef(d)' \/ d \in takenOff' \/ JustPut(d)'
    <3>1. CASE d = e
      BY <1>4, <1>23, <1>25, <3>1
    <3>2. CASE d # e
      <4>1. d \in Used /\ d \in EventIds /\ calendar[d].by = "crm" /\ ~calendar[d].gone /\ ~JustPut(d)
        BY <1>16, <1>23, <1>25, <2>5, <3>2
      <4>2. HasRef(d) \/ d \in takenOff
        BY <2>1, <4>1 DEF CalLoose, NoneForgotten
      <4>3. QED BY <1>4, <4>2 DEF HasRef
    <3>3. QED BY <3>1, <3>2
  <2>6. NoneForgotten'
    BY <2>5 DEF NoneForgotten
  <2>7. OnlyForAppointment'
    <3>1. consult.there
      BY <1>23, <1>25 DEF CalLoose, OnlyForAppointment
    <3>2. QED BY <1>4, <3>1 DEF OnlyForAppointment
  <2>8. QED BY <2>1, <2>4, <2>6, <2>7 DEF CalLoose
<1>26. ASSUME Plain' PROVE PlainInOrder'
  <2>1. ~slipped' /\ Plain /\ PlainInOrder
    BY <1>4, <1>26 DEF Plain, CalInv
  <2>2. /\ PushesInHand = {p} /\ PushesInHand' = {p}
        /\ \A d \in EventIds : ~JustPut(d) /\ (JustPut(d)' <=> d = e)
        /\ \A q \in PushTasks \ {p} : pushing[q].step = "idle"
    BY <1>23, <2>1
  <2>3. /\ \A r \in eventRefs : r.id = old
        /\ eventRefs = {} => old = 0
        /\ \/ waits \/ Astray \/ SameAs(consult, v)
           \/ eventRefs # {} /\ (consult.done \/ Coming(old) \/ ~calendar[old].gone)
        /\ waits \/ asked = v
    BY <1>3, <1>4, <2>1, <2>2 DEF PlainInOrder, PushingKnows, SavingKnows
  <2>4. \A r \in eventRefs : r.id \in Used /\ r.id \in EventIds
    BY <1>1, <1>16 DEF CalBasics, RefsAreTrue, RefIsTrue
  <2>5. takenOff' = {} /\ \A r, s \in eventRefs' : r = s
    BY <1>4, <2>1 DEF PlainInOrder
  <2>6. ASSUME NEW r \in eventRefs' PROVE GoneKnown(r)'
    <3>1. CASE r.id = e
      BY <1>10, <1>14, <1>20, <3>1 DEF GoneKnown
    <3>2. CASE r.id # e
      <4>1. r \in eventRefs /\ calendar'[r.id] = calendar[r.id]
        BY <1>4, <1>16, <2>4, <3>2
      <4>2. \A q \in PushTasks : pushing[q].step # "removed"
        BY <1>4, <2>2
      <4>3. QED BY <2>1, <4>1, <4>2 DEF PlainInOrder, GoneKnown
    <3>3. QED BY <3>1, <3>2
  <2>7. e # old => (Astray => Astray')
    <3>1. ASSUME e # old, NEW a \in Used, AstrayOne(a)
          PROVE  /\ calendar'[a].by = "crm" /\ calendar'[a].set = "owner" /\ Coming(a)'
                 /\ ~HasRef(a)' /\ ~JustPut(a)'
      <4>1. a \in EventIds /\ a # e
        BY <1>9, <1>13, <1>16, <3>1
      <4>2. calendar'[a] = calendar[a] /\ Coming(a)' /\ ~JustPut(a)'
        BY <1>16, <2>2, <3>1, <4>1 DEF AstrayOne
      <4>3. QED BY <1>4, <3>1, <4>2 DEF AstrayOne, HasRef
    <3>2. Used \subseteq EventIds /\ Used \subseteq Used'
      BY <1>16
    <3>3. QED BY <3>1, <3>2, StillAstray
  <2>8. t.step = "saved" /\ t.old = old /\ t.got = e /\ t.consult = v
    BY <1>17, <1>18
  <2>9. Coming(e)'
    BY <1>4, <1>16
  <2>10. e = old => Agreed'
    <3>1. ASSUME e = old PROVE Agreed'
      <4>1. eventRefs # {} /\ \A r \in eventRefs : r.id = e
        BY <1>4, <1>1, <2>3, <3>1, CalTypes
      <4>2. eventRefs' # {} /\ \A r \in eventRefs' : Coming(r.id)'
        BY <1>4, <2>9, <4>1
      <4>3. QED BY <4>2 DEF Agreed
    <3>2. QED BY <3>1
  <2>11. ASSUME e # old
         PROVE  \/ waits' \/ Astray' \/ consult'.done \/ SameAs(consult', v)
                \/ old # 0 /\ Coming(old)'
    <3>1. CASE eventRefs # {} /\ (consult.done \/ Coming(old) \/ ~calendar[old].gone)
      <4>1. old # 0 /\ old \in EventIds
        BY <2>3, <2>4, <1>1, <3>1, CalTypes
      <4>2. calendar[old].gone
        BY <1>12, <1>13, <2>11, <4>1
      <4>3. QED BY <1>4, <1>16, <3>1, <4>1, <4>2
    <3>2. CASE waits \/ Astray \/ SameAs(consult, v)
      BY <1>4, <2>7, <2>11, <3>2 DEF SameAs
    <3>3. QED BY <2>3, <3>1, <3>2
  <2>12. Shows(calendar'[e], v)
    BY <1>10, <1>14, <1>20 DEF Shows
  <2>13. SavedKnows(t)'
    <3>1. /\ \A r \in eventRefs' : r.id = t.old
          /\ eventRefs' = {} => t.old = 0
      BY <1>4, <2>3, <2>8
    <3>2. t.got # t.old =>
            /\ Coming(t.got)'
            /\ \/ waits' \/ Astray' \/ consult'.done \/ SameAs(consult', t.consult)
               \/ t.old # 0 /\ Coming(t.old)'
      BY <2>8, <2>9, <2>11
    <3>3. t.got = t.old => Agreed'
      BY <2>8, <2>10
    <3>4. Shows(calendar'[t.got], t.consult)
      BY <2>8, <2>12
    <3>5. QED BY <3>1, <3>2, <3>3, <3>4 DEF SavedKnows, SameAs, Shows
  <2>14. PushingKnows(t)'
    BY <1>4, <2>3, <2>8, <2>13 DEF PushingKnows
  <2>15. \A q \in PushesInHand' : PushingKnows(pushing[q])'
    BY <1>19, <2>2, <2>14, OneKnows
  <2>16. PushesInHand' # {}
    BY <2>2
  <2>17. QED BY <2>5, <2>6, <2>15, <2>16 DEF PlainInOrder
<1>27. QED BY <1>22, <1>25, <1>26 DEF CalInv

LEMMA LinkEventStep == ASSUME CalInv, NEW p \in PushTasks, LinkEvent(p) PROVE CalInv'
<1>1. CalBasics /\ CalShape /\ OursAreOurs /\ Numbered /\ RefsAreTrue /\ ReportsAreTrue
  BY DEF CalInv, CalBasics
<1>2. pushing[p] \in CalPushes /\ HandIsOurs(pushing[p])
  BY <1>1, CalTypes DEF OursAreOurs
<1>3. PICK v \in Consults, old \in {0} \cup EventIds, e \in {0} \cup EventIds :
         v = pushing[p].consult /\ old = pushing[p].old /\ e = pushing[p].got
  BY <1>2, CalPushRow
<1> DEFINE new == [id |-> e, made |-> TRUE, tag |-> 0]
<1>4. /\ pushing[p].step = "saved"
      /\ eventRefs' = IF e = old \/ ~v.there THEN eventRefs
                      ELSE (eventRefs \ (LinkedTo(old) \cup LinkedTo(e))) \cup {new}
      /\ pushing' = [pushing EXCEPT ![p] = NotPushing]
      /\ UNCHANGED <<consult, asked, calendar, waits, takenOff, unseen, batch, moves, slipped>>
  BY <1>3 DEF LinkEvent
<1>5. /\ v.who \in Owners /\ v.at \in Slots /\ ~v.done
      /\ old # 0 => old \in EventIds /\ calendar[old].by = "crm"
      /\ e \in EventIds /\ calendar[e].by = "crm" /\ calendar[e].of = v.who
  BY <1>2, <1>3, <1>4 DEF HandIsOurs
<1>6. new.id = e /\ new.made /\ new.tag = 0 /\ new \in EventRef
  BY <1>5 DEF EventRef
<1> DEFINE links == ~(e = old \/ ~v.there)
<1>7. /\ ~links => eventRefs' = eventRefs
      /\ links => \A r : r \in eventRefs' <=> r = new \/ (r \in eventRefs /\ r.id # old /\ r.id # e)
  BY <1>4 DEF LinkedTo
<1>8. links => e # old
  OBVIOUS
<1> HIDE DEF new, links
<1>9. Numbered' /\ ReportsAreTrue' /\ OursRemain /\ Used' = Used /\ \A r \in eventRefs : RefIsTrue(r)'
  BY <1>1, <1>4, EventsRest
<1>10. RefIsTrue(new)'
  <2>1. e \in Used /\ Whole(calendar[e]) /\ calendar[e].tag \in Nat
    BY <1>1, <1>5, UsedKnown, CalTypes, CalRow
  <2>2. 0 < calendar[e].tag
    BY <2>1 DEF Whole
  <2>3. ASSUME NEW o \in Owners, NEW b \in batch[o] PROVE 0 < b.tag
    <3>1. b.tag \in Nat /\ Whole(b)
      BY <1>1, CalTypes, CalReportRow DEF ReportsAreTrue, Tells
    <3>2. QED BY <3>1 DEF Whole
  <2>4. QED BY <1>4, <1>5, <1>6, <1>9, <2>1, <2>2, <2>3 DEF RefIsTrue
<1>11. RefsAreTrue'
  <2>1. CASE ~links
    BY <1>1, <1>7, <1>9, <2>1, RefsStay
  <2>2. CASE links
    <3>1. \A r \in eventRefs' : RefIsTrue(r)'
      BY <1>7, <1>9, <1>10, <2>2
    <3>2. \A r, s \in eventRefs' : r.id = s.id => r = s
      BY <1>1, <1>6, <1>7, <2>2 DEF RefsAreTrue
    <3>3. QED BY <3>1, <3>2 DEF RefsAreTrue
  <2>3. QED BY <2>1, <2>2
<1>12. PushingIs(p, NotPushing)
  BY <1>1, <1>4, RowBecomes, Blanks
<1>13. CalBasics'
  <2>1. OursAreOurs'
    BY <1>1, <1>4, <1>9, <1>12, IdleHand, Blanks, HandsAreOurs
  <2>2. eventRefs' \subseteq EventRef
    BY <1>1, <1>6, <1>7, CalTypes
  <2>3. CalShape'
    BY <1>1, <1>4, <1>12, <2>2, CalTypes, CalTypesNext DEF PushingIs
  <2>4. QED BY <1>9, <1>11, <2>1, <2>3 DEF CalBasics
<1>14. ASSUME ~slipped'
       PROVE  /\ CalLoose /\ ~slipped /\ PushesInHand = {p} /\ PushesInHand' = {} /\ OnePushing'
              /\ \A q \in PushTasks \ {p} : pushing[q].step = "idle" /\ pushing'[q].step = "idle"
              /\ \A d \in EventIds : (JustPut(d) <=> d = e) /\ ~JustPut(d)'
  <2>1. CalLoose /\ OnePushing /\ ~slipped
    BY <1>4, <1>14 DEF CalInv, CalLoose
  <2>2. pushing[p].step = "saved" /\ pushing[p].got = e
    BY <1>3, <1>4
  <2>3. QED BY <1>1, <1>12, <2>1, <2>2, OnlyPush, Blanks
<1>15. ASSUME ~slipped' PROVE v.there /\ (old # 0 => HasRef(old)) /\ (e # old /\ old # 0 => calendar[old].gone)
  BY <1>3, <1>4, <1>14, <1>15 DEF CalLoose, HandIsTrue
<1>16. ASSUME ~slipped' PROVE links <=> e # old
  BY <1>15, <1>16 DEF links
<1>17. ASSUME ~slipped' PROVE HasRef(e)' /\ \A d \in EventIds : HasRef(d)' <=> d = e \/ (HasRef(d) /\ (e # old => d # old))
  <2>1. CASE e = old
    <3>1. HasRef(e)
      BY <1>1, <1>5, <1>15, <1>17, <2>1, CalTypes
    <3>2. eventRefs' = eventRefs
      BY <1>7, <1>16, <1>17, <2>1
    <3>3. QED BY <2>1, <3>1, <3>2 DEF HasRef
  <2>2. CASE e # old
    <3>1. links
      BY <1>16, <1>17, <2>2
    <3>2. QED BY <1>6, <1>7, <2>2, <3>1 DEF HasRef
  <2>3. QED BY <2>1, <2>2
<1>18. ASSUME ~slipped' PROVE CalLoose'
  <2>1. CalLoose /\ OnePushing' /\ PushesInHand' = {} /\ \A q \in PushTasks \ {p} : pushing'[q].step = "idle"
    BY <1>14, <1>18
  <2>2. \A q \in PushTasks : HandIsTrue(pushing[q])'
    BY <1>12, <2>1, IdleHand, Blanks, OthersTrue
  <2>3. ASSUME NEW d \in Used', calendar'[d].by = "crm", ~calendar'[d].gone
        PROVE  HasRef(d)' \/ d \in takenOff'
    <3>1. d \in Used /\ d \in EventIds /\ calendar[d].by = "crm" /\ ~calendar[d].gone
      BY <1>1, <1>4, <1>9, <2>3, UsedKnown
    <3>2. HasRef(d) \/ d \in takenOff \/ d = e
      BY <1>14, <1>18, <2>1, <3>1 DEF CalLoose, NoneForgotten
    <3>3. e # old => d # old
      BY <1>1, <1>15, <1>18, <3>1, CalTypes
    <3>4. QED BY <1>4, <1>17, <1>18, <3>1, <3>2, <3>3
  <2>4. NoneForgotten'
    BY <2>3 DEF NoneForgotten
  <2>5. OnlyForAppointment'
    <3>1. consult.there
      BY <1>14, <1>18 DEF CalLoose, OnlyForAppointment
    <3>2. QED BY <1>4, <3>1 DEF OnlyForAppointment
  <2>6. QED BY <2>1, <2>2, <2>4, <2>5 DEF CalLoose
<1>19. ASSUME Plain' PROVE PlainInOrder'
  <2>1. ~slipped' /\ ~slipped /\ consult.there /\ \A r \in eventRefs' : r.made
    BY <1>4, <1>19 DEF Plain
  <2>2. \A r \in eventRefs : r.made
    <3>1. ASSUME NEW r \in eventRefs, r \notin eventRefs' PROVE r.made
      <4>1. r.id \in EventIds /\ r.id # 0 /\ (r.id = old \/ r.id = e) /\ RefIsTrue(r)
        BY <1>1, <1>7, <3>1, CalTypes, RefRow DEF RefsAreTrue
      <4>2. calendar[r.id].by = "crm"
        BY <1>5, <4>1
      <4>3. QED BY <4>1, <4>2 DEF RefIsTrue
    <3>2. QED BY <2>1, <3>1
  <2>3. PlainInOrder
    BY <2>1, <2>2 DEF Plain, CalInv
  <2>4. /\ PushesInHand = {p} /\ PushesInHand' = {}
        /\ \A d \in EventIds : (JustPut(d) <=> d = e) /\ ~JustPut(d)'
        /\ \A q \in PushTasks \ {p} : pushing[q].step = "idle"
        /\ v.there /\ (old # 0 => HasRef(old)) /\ (e # old /\ old # 0 => calendar[old].gone)
        /\ HasRef(e)' /\ \A d \in EventIds : HasRef(d)' <=> d = e \/ (HasRef(d) /\ (e # old => d # old))
        /\ links <=> e # old
    BY <1>14, <1>15, <1>16, <1>17, <2>1
  <2>5. /\ \A r \in eventRefs : r.id = old
        /\ e = old => Agreed
        /\ e # old =>
             /\ Coming(e) \/ Shows(calendar[e], v)
             /\ \/ waits \/ Astray \/ consult.done \/ SameAs(consult, v)
                \/ old # 0 /\ Coming(old)
        /\ calendar[e].set = "crm" => Shows(calendar[e], v)
        /\ waits \/ asked = v
    BY <1>3, <1>4, <2>3, <2>4 DEF PlainInOrder, PushingKnows, SavedKnows
  <2>6. \A r \in eventRefs' : r.id = e
    <3>1. CASE e = old
      BY <1>7, <2>4, <2>5, <3>1
    <3>2. CASE e # old
      BY <1>6, <1>7, <2>4, <2>5, <3>2
    <3>3. QED BY <3>1, <3>2
  <2>7. eventRefs' # {} /\ \A r, s \in eventRefs' : r = s
    BY <1>11, <2>4, <2>6 DEF RefsAreTrue, HasRef
  <2>8. takenOff' = {}
    BY <1>4, <2>3 DEF PlainInOrder
  <2>9. \A q \in PushTasks : pushing[q].step # "removed"
    BY <1>4, <2>4
  <2>10. \A r \in eventRefs : calendar[r.id].gone => calendar[r.id].set = "owner"
    BY <2>3, <2>9 DEF PlainInOrder, GoneKnown
  <2>11. \A r \in eventRefs' : GoneKnown(r)'
    <3>1. CASE e = old
      <4>1. eventRefs' = eventRefs
        BY <1>7, <2>4, <3>1
      <4>2. QED BY <1>4, <2>10, <4>1 DEF GoneKnown
    <3>2. CASE e # old
      <4>1. calendar[e].gone => calendar[e].set = "owner"
        <5>1. e \in Used /\ calendar[e].set \in {"crm", "owner"}
          BY <1>1, <1>5, UsedKnown DEF Whole
        <5>2. QED BY <2>5, <5>1 DEF Shows
      <4>2. QED BY <1>4, <2>6, <4>1 DEF GoneKnown
    <3>3. QED BY <3>1, <3>2
  <2>12. Astray => Astray'
    <3>1. ASSUME NEW a \in Used, AstrayOne(a)
          PROVE  /\ calendar'[a].by = "crm" /\ calendar'[a].set = "owner" /\ Coming(a)'
                 /\ ~HasRef(a)' /\ ~JustPut(a)'
      <4>1. a \in EventIds /\ a # e /\ ~HasRef(a)
        BY <1>1, <2>4, <3>1, UsedKnown DEF AstrayOne
      <4>2. QED BY <1>4, <2>4, <3>1, <4>1 DEF AstrayOne, Coming
    <3>2. Used \subseteq EventIds /\ Used \subseteq Used'
      BY <1>9 DEF Used
    <3>3. QED BY <3>1, <3>2, StillAstray
  <2>13. Agreed'
    <3>1. CASE e = old
      <4>1. eventRefs' = eventRefs /\ Agreed
        BY <1>7, <2>4, <2>5, <3>1
      <4>2. \/ waits \/ Astray \/ consult.done
            \/ \A r \in eventRefs : Coming(r.id) \/ Shows(calendar[r.id], consult)
        BY <2>7, <4>1 DEF Agreed
      <4>3. \/ waits' \/ Astray' \/ consult'.done
            \/ \A r \in eventRefs' : Coming(r.id)' \/ Shows(calendar'[r.id], consult')
        BY <1>4, <2>12, <4>1, <4>2 DEF Coming
      <4>4. QED BY <2>7, <4>3 DEF Agreed, Shows
    <3>2. CASE e # old
      <4>1. CASE waits \/ Astray \/ consult.done
        BY <1>4, <2>12, <4>1 DEF Agreed
      <4>2. CASE SameAs(consult, v)
        <5>1. Coming(e) \/ Shows(calendar[e], consult)
          BY <2>5, <3>2, <4>2 DEF SameAs, Shows
        <5>2. \A r \in eventRefs' : Coming(r.id)' \/ Shows(calendar'[r.id], consult')
          BY <1>4, <2>6, <5>1 DEF Coming
        <5>3. QED BY <2>7, <5>2 DEF Agreed, Shows
      <4>3. CASE old # 0 /\ Coming(old)
        <5>1. PICK r \in eventRefs : r.id = old
          BY <2>4, <4>3 DEF HasRef
        <5>2. calendar[old].set = "owner" /\ old \in Used
          BY <1>1, <2>4, <2>10, <3>2, <4>3, <5>1 DEF RefsAreTrue, RefIsTrue
        <5>3. AstrayOne(old)'
          BY <1>4, <1>5, <2>4, <3>2, <4>3, <5>2 DEF AstrayOne, Coming
        <5>4. Astray'
          BY <1>9, <5>2, <5>3 DEF Astray
        <5>5. QED BY <5>4 DEF Agreed
      <4>4. QED BY <2>5, <3>2, <4>1, <4>2, <4>3
    <3>3. QED BY <3>1, <3>2
  <2>14. waits' \/ consult'.done \/ \A r \in eventRefs' : AsAsked(r)'
    <3>1. ASSUME ~waits, NEW r \in eventRefs', calendar[e].set = "crm"
          PROVE  asked.there /\ ~asked.done /\ asked.who = calendar[e].of /\ asked.at = calendar[e].at
      BY <1>5, <2>4, <2>5, <3>1 DEF Shows
    <3>2. QED BY <1>4, <2>6, <3>1 DEF AsAsked
  <2>15. QED BY <2>4, <2>7, <2>8, <2>11, <2>13, <2>14 DEF PlainInOrder
<1>20. QED BY <1>13, <1>18, <1>19 DEF CalInv

LEMMA PushBreaksStep == ASSUME CalInv, NEW p \in PushTasks, PushBreaks(p) PROVE CalInv'
<1>1. /\ pushing' = [pushing EXCEPT ![p] = NotPushing] /\ slipped' = TRUE
      /\ UNCHANGED <<consult, asked, calendar, eventRefs, waits, takenOff, unseen, batch, moves>>
  BY DEF PushBreaks
<1>2. CalBasics /\ CalShape /\ OursAreOurs
  BY DEF CalInv, CalBasics
<1>3. PushingIs(p, NotPushing)
  BY <1>1, <1>2, RowBecomes, Blanks
<1>4. Numbered' /\ ReportsAreTrue' /\ OursRemain /\ RefsAreTrue'
  BY <1>1, <1>2, EventsRest, RefsStay
<1>5. OursAreOurs'
  BY <1>1, <1>2, <1>3, <1>4, IdleHand, Blanks, HandsAreOurs
<1>6. CalShape'
  BY <1>1, <1>2, <1>3, CalTypes, CalTypesNext DEF PushingIs
<1>7. QED BY <1>1, <1>4, <1>5, <1>6 DEF CalInv, CalBasics, Plain

LEMMA RemoveEventStep ==
    ASSUME CalInv, NEW e \in EventIds, NEW ok \in BOOLEAN, RemoveEvent(e, ok) PROVE CalInv'
<1>1. /\ e \in takenOff /\ takenOff' = takenOff \ {e} /\ Deleted(e, ok)
      /\ UNCHANGED <<consult, asked, eventRefs, waits, pushing, batch, moves>>
  BY DEF RemoveEvent
<1>2. CalBasics /\ CalShape /\ OursAreOurs
  BY DEF CalInv, CalBasics
<1>3. calendar[e].by = "crm"
  BY <1>1, <1>2 DEF OursAreOurs
<1>4. /\ calendar' \in [EventIds -> CalEvents] /\ unseen' \subseteq EventIds /\ slipped' \in BOOLEAN
      /\ Used' = Used /\ Numbered' /\ ReportsAreTrue' /\ OursRemain
      /\ \A r \in eventRefs : RefIsTrue(r)'
      /\ ~slipped' => ~slipped /\ calendar'[e].gone
      /\ \A d \in EventIds \ {e} : calendar'[d] = calendar[d]
      /\ \A d \in EventIds : (Coming(d) => Coming(d)') /\ (calendar[d].gone => calendar'[d].gone)
  BY <1>1, <1>2, <1>3, DeletedKnown
<1>5. CalBasics'
  <2>1. OursAreOurs'
    BY <1>1, <1>2, <1>4, OursStay
  <2>2. RefsAreTrue'
    BY <1>1, <1>2, <1>4, RefsStay
  <2>3. CalShape'
    BY <1>1, <1>2, <1>4, CalTypes, CalTypesNext
  <2>4. QED BY <1>4, <2>1, <2>2, <2>3 DEF CalBasics
<1>6. ASSUME ~slipped' PROVE CalLoose'
  <2>1. CalLoose /\ calendar'[e].gone
    BY <1>4, <1>6 DEF CalInv
  <2>2. PushesInHand' = PushesInHand
    BY <1>1 DEF PushesInHand
  <2>3. OnePushing' /\ OnlyForAppointment'
    BY <1>1, <2>1, <2>2 DEF CalLoose, OnePushing, OnlyForAppointment
  <2>4. ASSUME NEW p \in PushTasks PROVE HandIsTrue(pushing[p])'
    <3>1. pushing[p] \in CalPushes /\ HandIsOurs(pushing[p]) /\ HandIsTrue(pushing[p])
      BY <1>2, <2>1, CalTypes DEF CalLoose, OursAreOurs
    <3>2. pushing[p].step = "removed" => pushing[p].got \in EventIds
      BY <3>1, CalPushRow DEF HandIsOurs
    <3>3. pushing[p].old # 0 => pushing[p].old \in EventIds
      BY <3>1, CalPushRow
    <3>4. QED BY <1>1, <1>4, <3>1, <3>2, <3>3 DEF HandIsTrue, HasRef
  <2>5. NoneForgotten'
    <3>1. ASSUME NEW d \in Used', calendar'[d].by = "crm", ~calendar'[d].gone
          PROVE  HasRef(d) \/ d \in takenOff' \/ JustPut(d)
      <4>1. d \in Used /\ d \in EventIds /\ d # e /\ calendar'[d] = calendar[d]
        BY <1>4, <2>1, <3>1 DEF Used
      <4>2. HasRef(d) \/ d \in takenOff \/ JustPut(d)
        BY <2>1, <3>1, <4>1 DEF CalLoose, NoneForgotten
      <4>3. QED BY <1>1, <4>1, <4>2
    <3>2. QED BY <1>1, <3>1 DEF NoneForgotten, HasRef, JustPut
  <2>6. QED BY <2>3, <2>4, <2>5 DEF CalLoose
<1>7. ~Plain'
  <2>1. ASSUME Plain' PROVE FALSE
    <3>1. Plain
      BY <1>1, <1>4, <2>1 DEF Plain
    <3>2. takenOff = {}
      BY <3>1 DEF CalInv, PlainInOrder
    <3>3. QED BY <1>1, <3>2
  <2>2. QED BY <2>1
<1>8. QED BY <1>5, <1>6, <1>7 DEF CalInv

\* An owner changes event e, which is then reported.
OwnerDid(e, x) ==
    /\ EventIs(e, x) /\ unseen' = unseen \cup {e} /\ moves' \in 0..MaxMoves
    /\ UNCHANGED <<consult, asked, eventRefs, waits, takenOff, pushing, batch, slipped>>

LEMMA OwnerChangesStep ==
    ASSUME CalInv, NEW e \in Used, NEW x \in CalEvents, Changed(x, e), x.set = "owner",
           calendar[e].gone => x.gone, OwnerDid(e, x)
    PROVE  CalInv'
<1>1. /\ EventIs(e, x) /\ unseen' = unseen \cup {e} /\ moves' \in 0..MaxMoves
      /\ UNCHANGED <<consult, asked, eventRefs, waits, takenOff, pushing, batch, slipped>>
  BY DEF OwnerDid
<1>2. CalBasics /\ CalShape /\ OursAreOurs /\ Numbered
  BY DEF CalInv, CalBasics
<1>3. e \in EventIds /\ Used \subseteq EventIds
  BY DEF Used
<1>4. /\ calendar' \in [EventIds -> CalEvents] /\ calendar'[e] = x
      /\ \A d \in EventIds \ {e} : calendar'[d] = calendar[d]
  BY <1>1 DEF EventIs
<1>5. /\ Used' = Used /\ Numbered' /\ ReportsAreTrue' /\ unseen' \subseteq EventIds
      /\ \A d \in EventIds : calendar'[d].by = calendar[d].by /\ calendar'[d].of = calendar[d].of
      /\ \A r \in eventRefs : RefIsTrue(r)'
      /\ \A d \in EventIds : Coming(d)' <=> Coming(d) \/ d = e
  BY <1>1, <1>2, EventChanges
<1>6. OursRemain
  BY <1>5 DEF OursRemain
<1>7. \A d \in EventIds : calendar[d].gone => calendar'[d].gone
  BY <1>3, <1>4
<1>8. CalBasics'
  <2>1. OursAreOurs'
    BY <1>1, <1>2, <1>6, OursStay
  <2>2. RefsAreTrue'
    BY <1>1, <1>2, <1>5, RefsStay
  <2>3. CalShape'
    BY <1>1, <1>2, <1>4, <1>5, CalTypes, CalTypesNext
  <2>4. QED BY <1>5, <2>1, <2>2, <2>3 DEF CalBasics
<1>9. PushesInHand' = PushesInHand
  BY <1>1 DEF PushesInHand
<1>10. \A d \in EventIds : (HasRef(d)' <=> HasRef(d)) /\ (JustPut(d)' <=> JustPut(d))
  BY <1>1 DEF HasRef, JustPut
<1>11. ASSUME ~slipped' PROVE CalLoose'
  <2>1. CalLoose
    BY <1>1, <1>11 DEF CalInv
  <2>2. OnePushing' /\ OnlyForAppointment'
    BY <1>1, <1>9, <2>1 DEF CalLoose, OnePushing, OnlyForAppointment
  <2>3. ASSUME NEW p \in PushTasks PROVE HandIsTrue(pushing[p])'
    <3>1. pushing[p] \in CalPushes /\ HandIsOurs(pushing[p]) /\ HandIsTrue(pushing[p])
      BY <1>2, <2>1, CalTypes DEF CalLoose, OursAreOurs
    <3>2. pushing[p].step = "removed" => pushing[p].got \in EventIds
      BY <3>1, CalPushRow DEF HandIsOurs
    <3>3. pushing[p].old # 0 => pushing[p].old \in EventIds
      BY <3>1, CalPushRow
    <3>4. QED BY <1>1, <1>7, <3>1, <3>2, <3>3 DEF HandIsTrue, HasRef
  <2>4. NoneForgotten'
    <3>1. ASSUME NEW d \in Used', calendar'[d].by = "crm", ~calendar'[d].gone
          PROVE  HasRef(d)' \/ d \in takenOff' \/ JustPut(d)'
      <4>1. d \in Used /\ d \in EventIds /\ calendar[d].by = "crm" /\ ~calendar[d].gone
        <5>1. d \in Used /\ d \in EventIds
          BY <1>3, <1>5
        <5>2. calendar[d].gone \in BOOLEAN
          BY <1>2, <5>1, CalTypes, CalRow
        <5>3. QED BY <1>5, <1>7, <3>1, <5>1, <5>2
      <4>2. QED BY <1>1, <1>10, <2>1, <4>1 DEF CalLoose, NoneForgotten
    <3>2. QED BY <3>1 DEF NoneForgotten
  <2>5. QED BY <2>2, <2>3, <2>4 DEF CalLoose
<1>12. Astray => Astray'
  <2>1. ASSUME NEW a \in Used, AstrayOne(a)
        PROVE  /\ calendar'[a].by = "crm" /\ calendar'[a].set = "owner" /\ Coming(a)'
               /\ ~HasRef(a)' /\ ~JustPut(a)'
    <3>1. a \in EventIds /\ calendar'[a].by = "crm" /\ Coming(a)' /\ ~HasRef(a)' /\ ~JustPut(a)'
      BY <1>3, <1>5, <1>10, <2>1 DEF AstrayOne
    <3>2. calendar'[a].set = "owner"
      BY <1>4, <2>1, <3>1 DEF AstrayOne
    <3>3. QED BY <3>1, <3>2
  <2>2. QED BY <1>3, <1>5, <2>1, StillAstray
<1>13. \A d \in EventIds : Coming(d)' \/ calendar'[d] = calendar[d]
  BY <1>4, <1>5
<1>14. \A d \in EventIds : Coming(d) => Coming(d)'
  BY <1>5
<1>15. \A r \in eventRefs : r.id \in EventIds
  BY <1>2, CalTypes, RefRow
<1>16. Agreed => Agreed'
  <2>1. ASSUME eventRefs # {}, \A r \in eventRefs : Coming(r.id) \/ Shows(calendar[r.id], consult)
        PROVE  \A r \in eventRefs' : Coming(r.id)' \/ Shows(calendar'[r.id], consult')
    BY <1>1, <1>13, <1>14, <1>15, <2>1 DEF Shows
  <2>2. ASSUME Agreed
        PROVE  \/ waits' \/ Astray' \/ consult'.done
               \/ eventRefs' = {} /\ WantedOn(consult') = {}
               \/ eventRefs' # {} /\ \A r \in eventRefs' : Coming(r.id)' \/ Shows(calendar'[r.id], consult')
    BY <1>1, <1>12, <2>1, <2>2 DEF Agreed
  <2>3. ASSUME eventRefs' = {} /\ WantedOn(consult') = {} PROVE Agreed'
    BY <2>3 DEF Agreed, WantedOn
  <2>4. ASSUME Agreed PROVE Agreed'
    BY <2>2, <2>3, <2>4 DEF Agreed, Shows
  <2>5. QED BY <2>4
<1>17. ASSUME Plain' PROVE PlainInOrder'
  <2>1. PlainInOrder
    BY <1>1, <1>17 DEF Plain, CalInv
  <2>2. takenOff' = {} /\ \A r, s \in eventRefs' : r = s
    BY <1>1, <2>1 DEF PlainInOrder
  <2>3. \A r \in eventRefs' : GoneKnown(r)'
    <3>1. ASSUME NEW r \in eventRefs PROVE GoneKnown(r)'
      <4>1. GoneKnown(r)
        BY <2>1 DEF PlainInOrder
      <4>2. CASE r.id = e
        BY <1>4, <4>2 DEF GoneKnown
      <4>3. CASE r.id # e
        BY <1>1, <1>4, <1>15, <4>1, <4>3 DEF GoneKnown
      <4>4. QED BY <4>2, <4>3
    <3>2. QED BY <1>1, <3>1
  <2>4. ASSUME NEW p \in PushesInHand' PROVE PushingKnows(pushing[p])'
    <3>1. p \in PushTasks /\ p \in PushesInHand /\ pushing'[p] = pushing[p]
      BY <1>1, <1>9, <2>4 DEF PushesInHand
    <3>2. PICK t \in CalPushes : t = pushing[p]
      BY <1>2, <3>1, CalTypes
    <3>3. HandIsOurs(t) /\ PushingKnows(t)
      BY <1>2, <2>1, <3>1, <3>2 DEF OursAreOurs, PlainInOrder
    <3>4. ASSUME t.step \in {"begun", "removed"} PROVE BegunKnows(t)'
      <4>1. BegunKnows(t)
        BY <3>3, <3>4 DEF PushingKnows
      <4>2. \A d \in EventIds : d \in t.drop <=> HasRef(d)' /\ calendar'[d].of \notin WantedOn(t.consult)
        BY <1>5, <1>10, <4>1 DEF BegunKnows
      <4>3. waits' \/ (t.consult.done => consult'.done)
        BY <1>1, <4>1 DEF BegunKnows
      <4>4. t.step = "removed" => t.got \in t.drop
        BY <4>1 DEF BegunKnows
      <4>5. ASSUME \A r \in eventRefs : Coming(r.id) \/ ~calendar[r.id].gone
            PROVE  \A r \in eventRefs' : Coming(r.id)' \/ ~calendar'[r.id].gone
        BY <1>1, <1>13, <1>14, <1>15, <4>5
      <4>6. \/ waits' \/ Astray' \/ SameAs(consult', t.consult)
            \/ /\ eventRefs' # {} /\ t.drop = {}
               /\ consult'.done \/ \A r \in eventRefs' : Coming(r.id)' \/ ~calendar'[r.id].gone
        BY <1>1, <1>12, <4>1, <4>5 DEF BegunKnows
      <4>7. QED BY <4>2, <4>3, <4>4, <4>6 DEF BegunKnows, WantedOn, SameAs
    <3>5. ASSUME t.step = "saving" PROVE SavingKnows(t)'
      <4>1. SavingKnows(t)
        BY <3>3, <3>5 DEF PushingKnows
      <4>2. \A r \in eventRefs' : r.id = t.old
        BY <1>1, <4>1 DEF SavingKnows
      <4>3. eventRefs # {} => t.old \in EventIds
        BY <1>15, <4>1 DEF SavingKnows
      <4>4. \/ waits' \/ Astray' \/ SameAs(consult', t.consult)
            \/ /\ eventRefs' # {}
               /\ consult'.done \/ Coming(t.old)' \/ ~calendar'[t.old].gone
        BY <1>1, <1>12, <1>13, <1>14, <4>1, <4>3 DEF SavingKnows
      <4>5. eventRefs' = {} => t.old = 0
        BY <1>1, <4>1 DEF SavingKnows
      <4>6. QED BY <4>2, <4>4, <4>5 DEF SavingKnows, SameAs
    <3>6. ASSUME t.step = "saved" PROVE SavedKnows(t)'
      <4>1. SavedKnows(t)
        BY <3>3, <3>6 DEF PushingKnows
      <4>2. t.got \in EventIds /\ (t.old # 0 => t.old \in EventIds)
        BY <3>3, <3>6, CalPushRow DEF HandIsOurs
      <4>3. /\ \A r \in eventRefs' : r.id = t.old
            /\ eventRefs' = {} => t.old = 0
            /\ t.got = t.old => Agreed'
        BY <1>1, <1>16, <4>1 DEF SavedKnows
      <4>4. ASSUME t.got # t.old
            PROVE  /\ Coming(t.got)' \/ Shows(calendar'[t.got], t.consult)
                   /\ \/ waits' \/ Astray' \/ consult'.done \/ SameAs(consult', t.consult)
                      \/ t.old # 0 /\ Coming(t.old)'
        <5>1. Coming(t.got)' \/ Shows(calendar'[t.got], t.consult)
          BY <1>13, <1>14, <4>1, <4>2, <4>4 DEF SavedKnows
        <5>2. \/ waits' \/ Astray' \/ consult'.done \/ SameAs(consult', t.consult)
              \/ t.old # 0 /\ Coming(t.old)'
          BY <1>1, <1>12, <1>14, <4>1, <4>2, <4>4 DEF SavedKnows
        <5>3. QED BY <5>1, <5>2
      <4>5. calendar'[t.got].set = "crm" => Shows(calendar'[t.got], t.consult)
        BY <1>4, <4>1, <4>2 DEF SavedKnows
      <4>6. QED BY <4>3, <4>4, <4>5 DEF SavedKnows, SameAs, Shows
    <3>7. PushingKnows(t)'
      BY <1>1, <3>3, <3>4, <3>5, <3>6 DEF PushingKnows
    <3>8. QED BY <3>1, <3>2, <3>7
  <2>5. ASSUME PushesInHand' = {} PROVE Agreed' /\ (waits' \/ consult'.done \/ \A r \in eventRefs' : AsAsked(r)')
    <3>1. Agreed /\ (waits \/ consult.done \/ \A r \in eventRefs : AsAsked(r))
      BY <1>9, <2>1, <2>5 DEF PlainInOrder
    <3>2. ASSUME NEW r \in eventRefs, AsAsked(r) PROVE AsAsked(r)'
      <4>1. CASE r.id = e
        BY <1>4, <4>1 DEF AsAsked
      <4>2. CASE r.id # e
        BY <1>1, <1>4, <1>15, <3>2, <4>2 DEF AsAsked
      <4>3. QED BY <4>1, <4>2
    <3>3. QED BY <1>1, <1>16, <3>1, <3>2
  <2>6. QED BY <2>2, <2>3, <2>4, <2>5 DEF PlainInOrder
<1>18. QED BY <1>8, <1>11, <1>17 DEF CalInv

LEMMA OwnerMovesStep == ASSUME CalInv, NEW e \in EventIds, NEW at \in Slots, OwnerMoves(e, at) PROVE CalInv'
<1>1. CalBasics /\ CalShape /\ Numbered
  BY DEF CalInv, CalBasics
<1>2. /\ ~calendar[e].gone /\ moves < MaxMoves /\ moves' = moves + 1 /\ unseen' = unseen \cup {e}
      /\ calendar' = [calendar EXCEPT ![e] = [[calendar[e] EXCEPT !.at = at] EXCEPT !.set = "owner", !.tag = @ + 1]]
      /\ UNCHANGED <<consult, asked, eventRefs, waits, takenOff, pushing, batch, slipped>>
  BY DEF OwnerMoves, OwnerSets
<1>3. calendar[e] \in CalEvents /\ calendar[e].tag \in Nat /\ calendar[e].tag + 1 \in Nat
  BY <1>1, CalTypes, CalRow
<1>4. e \in Used
  BY <1>2, Blanks DEF Used
<1> DEFINE x == [[calendar[e] EXCEPT !.at = at] EXCEPT !.set = "owner", !.tag = @ + 1]
<1>5. /\ x.of = calendar[e].of /\ x.at = at /\ x.by = calendar[e].by /\ x.set = "owner"
      /\ x.gone = calendar[e].gone /\ x.tag = calendar[e].tag + 1
  BY <1>3 DEF CalEvents
<1>6. at \in CalSpots /\ "owner" \in Makers
  BY DEF CalSpots, Makers
<1>7. x \in CalEvents
  BY <1>3, <1>6 DEF CalEvents
<1>8. calendar' = [calendar EXCEPT ![e] = x]
  BY <1>2
<1> HIDE DEF x
<1>9. PICK y \in CalEvents : y = x
  BY <1>7
<1>10. Changed(y, e) /\ y.set = "owner" /\ (calendar[e].gone => y.gone)
  BY <1>5, <1>9 DEF Changed
<1>11. EventIs(e, y)
  BY <1>1, <1>8, <1>9, CalTypes DEF EventIs
<1>12. moves' \in 0..MaxMoves
  BY <1>1, <1>2, CalTypes
<1>13. OwnerDid(e, y)
  BY <1>2, <1>11, <1>12 DEF OwnerDid
<1>14. QED BY <1>4, <1>10, <1>13, OwnerChangesStep

LEMMA OwnerDeletesStep == ASSUME CalInv, NEW e \in EventIds, OwnerDeletes(e) PROVE CalInv'
<1>1. CalBasics /\ CalShape /\ Numbered
  BY DEF CalInv, CalBasics
<1>2. /\ ~calendar[e].gone /\ moves < MaxMoves /\ moves' = moves + 1 /\ unseen' = unseen \cup {e}
      /\ calendar' = [calendar EXCEPT ![e] = [[calendar[e] EXCEPT !.gone = TRUE] EXCEPT !.set = "owner", !.tag = @ + 1]]
      /\ UNCHANGED <<consult, asked, eventRefs, waits, takenOff, pushing, batch, slipped>>
  BY DEF OwnerDeletes, OwnerSets
<1>3. calendar[e] \in CalEvents /\ calendar[e].tag \in Nat /\ calendar[e].tag + 1 \in Nat
  BY <1>1, CalTypes, CalRow
<1>4. e \in Used /\ calendar[e].at \in Slots
  <2>1. e \in Used
    BY <1>2, Blanks DEF Used
  <2>2. QED BY <1>1, <2>1, UsedKnown DEF Whole
<1> DEFINE x == [[calendar[e] EXCEPT !.gone = TRUE] EXCEPT !.set = "owner", !.tag = @ + 1]
<1>5. /\ x.of = calendar[e].of /\ x.at = calendar[e].at /\ x.by = calendar[e].by /\ x.set = "owner"
      /\ x.gone = TRUE /\ x.tag = calendar[e].tag + 1
  BY <1>3 DEF CalEvents
<1>6. "owner" \in Makers
  BY DEF Makers
<1>7. x \in CalEvents
  BY <1>3, <1>6 DEF CalEvents
<1>8. calendar' = [calendar EXCEPT ![e] = x]
  BY <1>2
<1> HIDE DEF x
<1>9. PICK y \in CalEvents : y = x
  BY <1>7
<1>10. Changed(y, e) /\ y.set = "owner" /\ (calendar[e].gone => y.gone)
  BY <1>4, <1>5, <1>9 DEF Changed
<1>11. EventIs(e, y)
  BY <1>1, <1>8, <1>9, CalTypes DEF EventIs
<1>12. moves' \in 0..MaxMoves
  BY <1>1, <1>2, CalTypes
<1>13. OwnerDid(e, y)
  BY <1>2, <1>11, <1>12 DEF OwnerDid
<1>14. QED BY <1>4, <1>10, <1>13, OwnerChangesStep

LEMMA OwnerAddsStep == ASSUME CalInv, NEW o \in Owners, NEW at \in Slots, OwnerAdds(o, at) PROVE CalInv'
<1>1. CalBasics /\ CalShape /\ OursAreOurs /\ Numbered
  BY DEF CalInv, CalBasics
<1> DEFINE base == [NoEvent EXCEPT !.of = o, !.at = at, !.by = "owner", !.gone = FALSE]
           x == [base EXCEPT !.set = "owner", !.tag = @ + 1]
<1>2. /\ NextEvent \in EventIds /\ moves < MaxMoves /\ moves' = moves + 1
      /\ calendar' = [calendar EXCEPT ![NextEvent] = x] /\ unseen' = unseen \cup {NextEvent}
      /\ UNCHANGED <<consult, asked, eventRefs, waits, takenOff, pushing, batch, slipped>>
  <2>1. /\ NextEvent \in EventIds /\ moves < MaxMoves /\ moves' = moves + 1
        /\ calendar' = [calendar EXCEPT ![NextEvent] = [base EXCEPT !.set = "owner", !.tag = @ + 1]]
        /\ unseen' = unseen \cup {NextEvent}
        /\ UNCHANGED <<consult, asked, eventRefs, waits, takenOff, pushing, batch, slipped>>
    <3> HIDE DEF base
    <3>1. OwnerSets(NextEvent, base) /\ NextEvent \in EventIds
      BY DEF OwnerAdds, base
    <3>2. QED BY <3>1, <1>1, CalTypes DEF OwnerSets
  <2>2. QED BY <2>1
<1>3. /\ base \in CalEvents /\ base.of = o /\ base.at = at /\ base.by = "owner" /\ base.gone = FALSE
      /\ base.tag = 0
  <2>1. o \in CalStaff /\ at \in CalSpots /\ "owner" \in Makers
    BY DEF CalStaff, CalSpots, Makers
  <2>2. NoEvent \in CalEvents /\ NoEvent.tag = 0
    BY Blanks
  <2> HIDE DEF NoEvent
  <2>3. QED BY <2>1, <2>2 DEF CalEvents
<1> HIDE DEF base
<1>4. base.tag + 1 = 1 /\ base.tag + 1 \in Nat
  BY <1>3
<1>5. /\ x.of = o /\ x.at = at /\ x.by = "owner" /\ x.set = "owner" /\ x.gone = FALSE /\ x.tag = 1
      /\ x \in CalEvents
  <2>1. "owner" \in Makers
    BY DEF Makers
  <2>2. QED BY <1>3, <1>4, <2>1 DEF CalEvents
<1> HIDE DEF x
<1>6. PICK e \in EventIds : e = NextEvent
  BY <1>2
<1>7. PICK y \in CalEvents : y = x
  BY <1>5
<1>8. Whole(y) /\ y.by = "owner"
  BY <1>5, <1>7 DEF Whole
<1>9. calendar' = [calendar EXCEPT ![e] = y] /\ unseen' = unseen \cup {e}
  BY <1>2, <1>6, <1>7
<1>10. EventIs(e, y)
  BY <1>1, <1>9, CalTypes DEF EventIs
<1>11. /\ Used' = Used \cup {e} /\ Numbered' /\ ReportsAreTrue' /\ unseen' \subseteq EventIds
       /\ \A d \in Used : calendar'[d] = calendar[d]
       /\ \A r \in eventRefs : RefIsTrue(r)'
       /\ \A d \in EventIds : Coming(d)' <=> Coming(d) \/ d = e
       /\ e \notin Used
  BY <1>1, <1>2, <1>6, <1>8, <1>9, <1>10, EventAppears
<1>12. Used \subseteq EventIds /\ calendar'[e] = y
  BY <1>10 DEF Used, EventIs
<1>13. \A d \in Used : (Coming(d)' <=> Coming(d))
  BY <1>11, <1>12
<1>14. \A d \in EventIds : calendar[d].by = "crm" => d \in Used
  BY <1>1, UsedKnown
<1>15. OursRemain
  BY <1>11, <1>14 DEF OursRemain
<1>16. \A r \in eventRefs : r.id \in Used
  BY <1>1 DEF CalBasics, RefsAreTrue, RefIsTrue
<1>17. CalBasics'
  <2>1. OursAreOurs'
    BY <1>1, <1>2, <1>15, OursStay
  <2>2. RefsAreTrue'
    BY <1>1, <1>2, <1>11, RefsStay
  <2>3. moves' \in 0..MaxMoves
    BY <1>1, <1>2, CalTypes
  <2>4. CalShape'
    BY <1>1, <1>2, <1>10, <1>11, <2>3, CalTypes, CalTypesNext DEF EventIs
  <2>5. QED BY <1>11, <2>1, <2>2, <2>4 DEF CalBasics
<1>18. PushesInHand' = PushesInHand
  BY <1>2 DEF PushesInHand
<1>19. \A d \in EventIds : (HasRef(d)' <=> HasRef(d)) /\ (JustPut(d)' <=> JustPut(d))
  BY <1>2 DEF HasRef, JustPut
<1>20. ASSUME NEW t \in CalPushes, HandIsOurs(t)
       PROVE  /\ t.step = "removed" => t.got \in Used
              /\ t.step = "saved" => t.got \in Used
              /\ t.step \in {"saving", "saved"} /\ t.old # 0 => t.old \in Used
  BY <1>14, <1>20, CalPushRow DEF HandIsOurs
<1>21. ASSUME ~slipped' PROVE CalLoose'
  <2>1. CalLoose
    BY <1>2, <1>21 DEF CalInv
  <2>2. OnePushing' /\ OnlyForAppointment'
    BY <1>2, <1>18, <2>1 DEF CalLoose, OnePushing, OnlyForAppointment
  <2>3. ASSUME NEW p \in PushTasks PROVE HandIsTrue(pushing[p])'
    <3>1. pushing[p] \in CalPushes /\ HandIsOurs(pushing[p]) /\ HandIsTrue(pushing[p])
      BY <1>1, <2>1, CalTypes DEF CalLoose, OursAreOurs
    <3>2. /\ pushing[p].step = "removed" => pushing[p].got \in Used
          /\ pushing[p].step \in {"saving", "saved"} /\ pushing[p].old # 0 => pushing[p].old \in Used
      BY <1>20, <3>1
    <3>3. QED BY <1>2, <1>11, <3>1, <3>2 DEF HandIsTrue, HasRef
  <2>4. NoneForgotten'
    <3>1. ASSUME NEW d \in Used', calendar'[d].by = "crm", ~calendar'[d].gone
          PROVE  HasRef(d)' \/ d \in takenOff' \/ JustPut(d)'
      <4>1. d \in Used /\ d \in EventIds /\ calendar[d].by = "crm" /\ ~calendar[d].gone
        BY <1>8, <1>11, <1>12, <3>1
      <4>2. QED BY <1>2, <1>19, <2>1, <4>1 DEF CalLoose, NoneForgotten
    <3>2. QED BY <3>1 DEF NoneForgotten
  <2>5. QED BY <2>2, <2>3, <2>4 DEF CalLoose
<1>22. Astray => Astray'
  <2>1. ASSUME NEW a \in Used, AstrayOne(a)
        PROVE  /\ calendar'[a].by = "crm" /\ calendar'[a].set = "owner" /\ Coming(a)'
               /\ ~HasRef(a)' /\ ~JustPut(a)'
    BY <1>11, <1>12, <1>13, <1>19, <2>1 DEF AstrayOne
  <2>2. QED BY <1>11, <1>12, <2>1, StillAstray
<1>23. Agreed => Agreed'
  <2>1. ASSUME eventRefs # {}, \A r \in eventRefs : Coming(r.id) \/ Shows(calendar[r.id], consult)
        PROVE  \A r \in eventRefs' : Coming(r.id)' \/ Shows(calendar'[r.id], consult')
    BY <1>2, <1>11, <1>13, <1>16, <2>1
  <2>2. ASSUME Agreed
        PROVE  \/ waits' \/ Astray' \/ consult'.done
               \/ eventRefs' = {} /\ WantedOn(consult') = {}
               \/ eventRefs' # {} /\ \A r \in eventRefs' : Coming(r.id)' \/ Shows(calendar'[r.id], consult')
    BY <1>2, <1>22, <2>1, <2>2 DEF Agreed
  <2>3. ASSUME eventRefs' = {} /\ WantedOn(consult') = {} PROVE Agreed'
    BY <2>3 DEF Agreed, WantedOn
  <2>4. ASSUME Agreed PROVE Agreed'
    BY <2>2, <2>3, <2>4 DEF Agreed, Shows
  <2>5. QED BY <2>4
<1>24. ASSUME Plain' PROVE PlainInOrder'
  <2>1. PlainInOrder
    BY <1>2, <1>24 DEF Plain, CalInv
  <2>2. takenOff' = {} /\ \A r, s \in eventRefs' : r = s
    BY <1>2, <2>1 DEF PlainInOrder
  <2>3. \A r \in eventRefs' : GoneKnown(r)'
    BY <1>2, <1>11, <1>16, <2>1 DEF PlainInOrder, GoneKnown
  <2>4. ASSUME NEW p \in PushesInHand' PROVE PushingKnows(pushing[p])'
    <3>1. p \in PushTasks /\ p \in PushesInHand /\ pushing'[p] = pushing[p]
      BY <1>2, <1>18, <2>4 DEF PushesInHand
    <3>2. PICK t \in CalPushes : t = pushing[p]
      BY <1>1, <3>1, CalTypes
    <3>3. HandIsOurs(t) /\ PushingKnows(t)
      BY <1>1, <2>1, <3>1, <3>2 DEF OursAreOurs, PlainInOrder
    <3>4. ASSUME t.step \in {"begun", "removed"} PROVE BegunKnows(t)'
      <4>1. BegunKnows(t)
        BY <3>3, <3>4 DEF PushingKnows
      <4>2. \A d \in EventIds : d \in t.drop <=> HasRef(d)' /\ calendar'[d].of \notin WantedOn(t.consult)
        <5>1. \A d \in EventIds : HasRef(d) => d \in Used
          BY <1>16 DEF HasRef
        <5>2. QED BY <1>11, <1>19, <4>1, <5>1 DEF BegunKnows
      <4>3. waits' \/ (t.consult.done => consult'.done)
        BY <1>2, <4>1 DEF BegunKnows
      <4>4. t.step = "removed" => t.got \in t.drop
        BY <4>1 DEF BegunKnows
      <4>5. ASSUME \A r \in eventRefs : Coming(r.id) \/ ~calendar[r.id].gone
            PROVE  \A r \in eventRefs' : Coming(r.id)' \/ ~calendar'[r.id].gone
        BY <1>2, <1>11, <1>13, <1>16, <4>5
      <4>6. \/ waits' \/ Astray' \/ SameAs(consult', t.consult)
            \/ /\ eventRefs' # {} /\ t.drop = {}
               /\ consult'.done \/ \A r \in eventRefs' : Coming(r.id)' \/ ~calendar'[r.id].gone
        BY <1>2, <1>22, <4>1, <4>5 DEF BegunKnows
      <4>7. QED BY <4>2, <4>3, <4>4, <4>6 DEF BegunKnows, WantedOn, SameAs
    <3>5. ASSUME t.step = "saving" PROVE SavingKnows(t)'
      <4>1. SavingKnows(t)
        BY <3>3, <3>5 DEF PushingKnows
      <4>2. /\ \A r \in eventRefs' : r.id = t.old
            /\ eventRefs' = {} => t.old = 0
        BY <1>2, <4>1 DEF SavingKnows
      <4>3. eventRefs # {} => t.old \in Used
        BY <1>16, <4>1 DEF SavingKnows
      <4>4. \/ waits' \/ Astray' \/ SameAs(consult', t.consult)
            \/ /\ eventRefs' # {}
               /\ consult'.done \/ Coming(t.old)' \/ ~calendar'[t.old].gone
        BY <1>2, <1>11, <1>13, <1>22, <4>1, <4>3 DEF SavingKnows
      <4>5. QED BY <4>2, <4>4 DEF SavingKnows, SameAs
    <3>6. ASSUME t.step = "saved" PROVE SavedKnows(t)'
      <4>1. SavedKnows(t)
        BY <3>3, <3>6 DEF PushingKnows
      <4>2. t.got \in Used /\ (t.old # 0 => t.old \in Used)
        BY <1>20, <3>3, <3>6
      <4>3. /\ \A r \in eventRefs' : r.id = t.old
            /\ eventRefs' = {} => t.old = 0
            /\ t.got = t.old => Agreed'
        BY <1>2, <1>23, <4>1 DEF SavedKnows
      <4>4. ASSUME t.got # t.old
            PROVE  /\ Coming(t.got)' \/ Shows(calendar'[t.got], t.consult)
                   /\ \/ waits' \/ Astray' \/ consult'.done \/ SameAs(consult', t.consult)
                      \/ t.old # 0 /\ Coming(t.old)'
        <5>1. Coming(t.got)' \/ Shows(calendar'[t.got], t.consult)
          BY <1>11, <1>13, <4>1, <4>2, <4>4 DEF SavedKnows
        <5>2. \/ waits' \/ Astray' \/ consult'.done \/ SameAs(consult', t.consult)
              \/ t.old # 0 /\ Coming(t.old)'
          BY <1>2, <1>13, <1>22, <4>1, <4>2, <4>4 DEF SavedKnows
        <5>3. QED BY <5>1, <5>2
      <4>5. calendar'[t.got].set = "crm" => Shows(calendar'[t.got], t.consult)
        BY <1>11, <4>1, <4>2 DEF SavedKnows
      <4>6. QED BY <4>3, <4>4, <4>5 DEF SavedKnows, SameAs, Shows
    <3>7. PushingKnows(t)'
      BY <1>2, <3>3, <3>4, <3>5, <3>6 DEF PushingKnows
    <3>8. QED BY <3>1, <3>2, <3>7
  <2>5. ASSUME PushesInHand' = {} PROVE Agreed' /\ (waits' \/ consult'.done \/ \A r \in eventRefs' : AsAsked(r)')
    <3>1. Agreed /\ (waits \/ consult.done \/ \A r \in eventRefs : AsAsked(r))
      BY <1>18, <2>1, <2>5 DEF PlainInOrder
    <3>2. ASSUME NEW r \in eventRefs, AsAsked(r) PROVE AsAsked(r)'
      BY <1>2, <1>11, <1>16, <3>2 DEF AsAsked
    <3>3. QED BY <1>2, <1>23, <3>1, <3>2
  <2>6. QED BY <2>2, <2>3, <2>4, <2>5 DEF PlainInOrder
<1>25. QED BY <1>17, <1>21, <1>24 DEF CalInv

LEMMA ReadCalendarStep == ASSUME CalInv, NEW o \in Owners, ReadCalendar(o) PROVE CalInv'
<1> DEFINE found == {e \in unseen : calendar[e].of = o}
           new == {Reported(e) : e \in found}
<1>1. /\ batch[o] = {} /\ batch' = [batch EXCEPT ![o] = new] /\ unseen' = unseen \ found
      /\ UNCHANGED <<consult, asked, calendar, eventRefs, waits, takenOff, pushing, moves, slipped>>
  BY DEF ReadCalendar
<1>2. CalBasics /\ CalShape /\ OursAreOurs /\ Numbered /\ ReportsAreTrue /\ RefsAreTrue
  BY DEF CalInv, CalBasics
<1>3. \A e \in unseen : e \in Used /\ e \in EventIds /\ Whole(calendar[e]) /\ calendar[e] \in CalEvents
  BY <1>2, UsedKnown, CalTypes DEF ReportsAreTrue
<1>4. ASSUME NEW e \in EventIds, calendar[e] \in CalEvents, Whole(calendar[e])
      PROVE  /\ Reported(e) \in CalReports /\ Reported(e).id = e /\ Reported(e).of = calendar[e].of
             /\ Reported(e).tag = calendar[e].tag /\ Tells(Reported(e), calendar[e])
  <2>1. Reported(e) \in CalReports
    BY <1>4, CalRow DEF Reported, CalReports
  <2>2. /\ Reported(e).id = e /\ Reported(e).of = calendar[e].of /\ Reported(e).at = calendar[e].at
        /\ Reported(e).by = calendar[e].by /\ Reported(e).set = calendar[e].set
        /\ Reported(e).gone = calendar[e].gone /\ Reported(e).tag = calendar[e].tag
    BY DEF Reported
  <2>3. calendar[e].tag <= calendar[e].tag
    BY <1>4, CalRow
  <2>4. QED BY <1>4, <2>1, <2>2, <2>3 DEF Tells, Whole
<1>5. \A e \in found : e \in unseen /\ calendar[e].of = o
  OBVIOUS
<1>6. \A e \in unseen : calendar[e].of = o => e \in found
  OBVIOUS
<1>7. \A e \in found : Reported(e) \in new
  OBVIOUS
<1>8. \A b \in new : \E e \in found : b = Reported(e)
  OBVIOUS
<1> HIDE DEF found, new
<1>9. ASSUME NEW b \in new
      PROVE  /\ b \in CalReports /\ b.id \in EventIds /\ b.of = o /\ Tells(b, calendar[b.id])
             /\ b.id \in found /\ b = Reported(b.id) /\ b.tag = calendar[b.id].tag
  BY <1>3, <1>4, <1>5, <1>8
<1>10. /\ batch'[o] = new /\ \A q \in Owners \ {o} : batch'[q] = batch[q]
       /\ batch' \in [Owners -> SUBSET CalReports]
  <2>1. new \subseteq CalReports
    BY <1>9
  <2>2. QED BY <1>1, <1>2, <2>1, CalTypes
<1>11. unseen' \subseteq EventIds /\ \A e \in unseen' : e \in unseen
  BY <1>1, <1>2, CalTypes
<1>12. Used' = Used /\ Numbered' /\ OursRemain
  <2>1. Used' = Used
    BY <1>1 DEF Used
  <2>2. QED BY <1>1, <1>2, <2>1 DEF Numbered, Whole, OursRemain
<1>13. ASSUME NEW q \in Owners, NEW b \in batch'[q]
       PROVE  /\ b.of = q /\ Tells(b, calendar[b.id]) /\ (b.id \in unseen' <=> b.tag < calendar[b.id].tag)
              /\ \A c \in batch'[q] : c.id = b.id => c = b
  <2>1. CASE q = o
    <3>1. b \in new /\ \A c \in batch'[q] : c \in new
      BY <1>10, <1>13, <2>1
    <3>2. calendar[b.id].tag \in Nat /\ b.tag = calendar[b.id].tag /\ b.id \notin unseen'
      BY <1>1, <1>2, <1>9, <3>1, CalTypes, CalRow
    <3>3. ~(b.tag < calendar[b.id].tag)
      BY <3>2
    <3>4. QED BY <1>9, <2>1, <3>1, <3>2, <3>3
  <2>2. CASE q # o
    <3>1. batch'[q] = batch[q] /\ b \in batch[q]
      BY <1>10, <1>13, <2>2
    <3>2. /\ b.of = q /\ Tells(b, calendar[b.id]) /\ (b.id \in unseen <=> b.tag < calendar[b.id].tag)
          /\ \A c \in batch[q] : c.id = b.id => c = b
      BY <1>2, <3>1 DEF ReportsAreTrue
    <3>3. b.id \notin found
      BY <1>5, <2>2, <3>2 DEF Tells
    <3>4. QED BY <1>1, <3>1, <3>2, <3>3
  <2>3. QED BY <2>1, <2>2
<1>14. ReportsAreTrue'
  <2>1. unseen' \subseteq Used'
    BY <1>3, <1>11, <1>12
  <2>2. QED BY <1>1, <1>13, <2>1 DEF ReportsAreTrue, Tells, Whole
<1>15. ASSUME NEW r \in eventRefs PROVE RefIsTrue(r)'
  <2>1. RefIsTrue(r)
    BY <1>2 DEF RefsAreTrue
  <2>2. \A q \in Owners : \A b \in batch'[q] : b.id = r.id => r.tag < b.tag
    <3>1. ASSUME NEW q \in Owners, NEW b \in batch'[q], b.id = r.id PROVE r.tag < b.tag
      <4>1. CASE q = o
        BY <1>5, <1>9, <1>10, <2>1, <3>1, <4>1 DEF RefIsTrue
      <4>2. CASE q # o
        BY <1>10, <2>1, <3>1, <4>2 DEF RefIsTrue
      <4>3. QED BY <4>1, <4>2
    <3>2. QED BY <3>1
  <2>3. QED BY <1>1, <1>11, <1>12, <2>1, <2>2 DEF RefIsTrue
<1>16. ASSUME NEW d PROVE Coming(d)' <=> Coming(d)
  <2>1. ASSUME Coming(d) PROVE Coming(d)'
    <3>1. CASE d \in found
      <4>1. Reported(d) \in batch'[o] /\ Reported(d).id = d
        BY <1>3, <1>4, <1>5, <1>7, <1>10, <3>1
      <4>2. QED BY <4>1 DEF Coming
    <3>2. CASE d \in unseen /\ d \notin found
      BY <1>1, <3>2 DEF Coming
    <3>3. CASE \E q \in Owners : \E b \in batch[q] : b.id = d
      <4>1. PICK q \in Owners : \E b \in batch[q] : b.id = d
        BY <3>3
      <4>2. q # o
        BY <1>1, <4>1
      <4>3. QED BY <1>10, <4>1, <4>2 DEF Coming
    <3>4. QED BY <2>1, <3>1, <3>2, <3>3 DEF Coming
  <2>2. ASSUME Coming(d)' PROVE Coming(d)
    <3>1. CASE d \in unseen'
      BY <1>11, <3>1 DEF Coming
    <3>2. CASE \E q \in Owners : \E b \in batch'[q] : b.id = d
      <4>1. PICK q \in Owners : \E b \in batch'[q] : b.id = d
        BY <3>2
      <4>2. PICK b \in batch'[q] : b.id = d
        BY <4>1
      <4>3. CASE q = o
        BY <1>5, <1>9, <1>10, <4>2, <4>3 DEF Coming
      <4>4. CASE q # o
        BY <1>10, <4>2, <4>4 DEF Coming
      <4>5. QED BY <4>3, <4>4
    <3>3. QED BY <2>2, <3>1, <3>2 DEF Coming
  <2>3. QED BY <2>1, <2>2
<1>17. CalBasics'
  <2>1. OursAreOurs'
    BY <1>1, <1>2, <1>12, OursStay
  <2>2. RefsAreTrue'
    BY <1>1, <1>2, <1>15, RefsStay
  <2>3. CalShape'
    BY <1>1, <1>2, <1>10, <1>11, CalTypes, CalTypesNext
  <2>4. QED BY <1>12, <1>14, <2>1, <2>2, <2>3 DEF CalBasics
<1>18. PushesInHand' = PushesInHand
  BY <1>1 DEF PushesInHand
<1>19. ASSUME ~slipped' PROVE CalLoose'
  <2>1. CalLoose
    BY <1>1, <1>19 DEF CalInv
  <2>2. QED BY <1>1, <1>12, <1>18, <2>1
          DEF CalLoose, NoneForgotten, HasRef, JustPut, OnePushing, OnlyForAppointment, HandIsTrue
<1>20. Astray' <=> Astray
  BY <1>1, <1>12, <1>16 DEF Astray, AstrayOne, HasRef, JustPut
<1>21. Agreed' <=> Agreed
  BY <1>1, <1>16, <1>20 DEF Agreed, WantedOn, Shows
<1>22. ASSUME NEW t, PushingKnows(t) PROVE PushingKnows(t)'
  <2>1. BegunKnows(t) => BegunKnows(t)'
    BY <1>1, <1>16, <1>20 DEF BegunKnows, HasRef, WantedOn, SameAs
  <2>2. SavingKnows(t) => SavingKnows(t)'
    BY <1>1, <1>16, <1>20 DEF SavingKnows, SameAs
  <2>3. SavedKnows(t) => SavedKnows(t)'
    BY <1>1, <1>16, <1>20, <1>21 DEF SavedKnows, SameAs, Shows
  <2>4. QED BY <1>1, <1>22, <2>1, <2>2, <2>3 DEF PushingKnows
<1>23. ASSUME Plain' PROVE PlainInOrder'
  <2>1. PlainInOrder
    BY <1>1, <1>23 DEF Plain, CalInv
  <2>2. ASSUME NEW p \in PushesInHand' PROVE PushingKnows(pushing[p])'
    <3>1. PICK t : t = pushing[p]
      OBVIOUS
    <3>2. PushingKnows(t)
      BY <1>18, <2>1, <2>2, <3>1 DEF PlainInOrder
    <3>3. PushingKnows(t)'
      BY <1>22, <3>2
    <3>4. QED BY <1>1, <3>1, <3>3
  <2>3. QED BY <1>1, <1>18, <1>21, <2>1, <2>2 DEF PlainInOrder, GoneKnown, AsAsked
<1>24. QED BY <1>17, <1>19, <1>23 DEF CalInv

LEMMA StoreEventStep == ASSUME CalInv, NEW o \in Owners, NEW b \in batch[o], StoreEvent(o, b) PROVE CalInv'
<1> DEFINE linked == LinkedTo(b.id)
           clients == b.by = "owner" /\ (consult.there => consult.at = b.at)
           ref == [id |-> b.id, tag |-> b.tag, made |-> \E r \in linked : r.made]
<1>1. /\ batch' = [batch EXCEPT ![o] = @ \ {b}]
      /\ CASE b.gone /\ linked # {} ->
                consult' = [consult EXCEPT !.done = TRUE] /\ UNCHANGED eventRefs
           [] ~b.gone /\ (\A r \in linked : r.tag # b.tag) /\ (linked # {} \/ clients) -> SavedFrom(o, b)
           [] OTHER -> UNCHANGED <<consult, eventRefs>>
      /\ slipped' = (slipped \/ (linked = {} /\ b.by = "crm" /\ b.set = "owner")
                             \/ \E p \in PushTasks : b.id \in pushing[p].drop)
      /\ UNCHANGED <<asked, calendar, waits, takenOff, pushing, unseen, moves>>
  BY DEF StoreEvent
<1>2. CalBasics /\ CalShape /\ OursAreOurs /\ Numbered /\ ReportsAreTrue /\ RefsAreTrue
  BY DEF CalInv, CalBasics
<1>3. PICK d \in EventIds : d = b.id
  BY <1>2, CalTypes, CalReportRow
<1>4. /\ b \in CalReports /\ b.of = o /\ Tells(b, calendar[d]) /\ (d \in unseen <=> b.tag < calendar[d].tag)
      /\ \A c \in batch[o] : c.id = d => c = b
  BY <1>2, <1>3, CalTypes DEF ReportsAreTrue
<1>5. /\ b.tag \in Nat /\ b.gone \in BOOLEAN /\ calendar[d].tag \in Nat /\ b.tag <= calendar[d].tag
      /\ b.at \in Slots /\ b.by = calendar[d].by /\ calendar[d].of = o /\ b.by \in {"crm", "owner"}
      /\ b.set \in {"crm", "owner"}
  BY <1>2, <1>4, CalTypes, CalReportRow, CalRow DEF Tells, Whole
<1>6. d \in Used
  BY <1>2, <1>5, UsedKnown
<1>7. d \notin unseen => b.at = calendar[d].at /\ b.set = calendar[d].set /\ b.gone = calendar[d].gone
  <2>1. d \notin unseen => b.tag = calendar[d].tag
    BY <1>4, <1>5
  <2>2. QED BY <1>4, <2>1 DEF Tells
<1>8. \A r \in linked : r \in eventRefs /\ r.id = d /\ r.tag < b.tag /\ r.tag \in Nat
  <2>1. \A r \in linked : r \in eventRefs /\ r.id = d
    BY <1>3 DEF LinkedTo
  <2>2. \A r \in eventRefs : r.id = d => r.tag < b.tag
    BY <1>2, <1>3 DEF RefsAreTrue, RefIsTrue
  <2>3. \A r \in eventRefs : r.tag \in Nat
    BY <1>2, CalTypes, RefRow
  <2>4. QED BY <2>1, <2>2, <2>3
<1>9. \A r \in linked : r.tag # b.tag
  BY <1>5, <1>8
<1>10. \/ b.gone /\ linked # {} /\ consult' = [consult EXCEPT !.done = TRUE] /\ eventRefs' = eventRefs
       \/ /\ ~b.gone /\ (linked # {} \/ clients)
          /\ consult' = [consult EXCEPT !.there = TRUE, !.at = b.at, !.who = o]
          /\ eventRefs' = (eventRefs \ linked) \cup {ref}
       \/ linked = {} /\ consult' = consult /\ eventRefs' = eventRefs
  <2>1. CASE b.gone /\ linked # {}
    BY <1>1, <2>1
  <2>2. CASE ~b.gone /\ (linked # {} \/ clients)
    BY <1>1, <1>9, <2>2 DEF SavedFrom
  <2>3. CASE ~(b.gone /\ linked # {}) /\ ~(~b.gone /\ (linked # {} \/ clients))
    <3>1. linked = {}
      BY <1>5, <2>3
    <3>2. UNCHANGED <<consult, eventRefs>>
      BY <1>1, <2>3
    <3>3. QED BY <3>1, <3>2
  <2>4. QED BY <2>1, <2>2, <2>3
<1>11. consult \in Consults
  BY <1>2, CalTypes
<1>12. PICK k \in EventRef : /\ k = ref /\ k.id = d /\ k.tag = b.tag
                             /\ k.made <=> \E r \in linked : r.made
  <2>1. /\ ref \in EventRef /\ ref.id = d /\ ref.tag = b.tag
        /\ ref.made <=> \E r \in linked : r.made
    BY <1>3, <1>5 DEF EventRef
  <2>2. QED BY <2>1
<1>13. linked = {} <=> ~HasRef(d)
  BY <1>3 DEF LinkedTo, HasRef
<1>14. clients => b.by = "owner"
  OBVIOUS
<1>15. \A r : r \in linked <=> r \in eventRefs /\ r.id = d
  BY <1>3 DEF LinkedTo
<1> HIDE DEF linked, clients, ref
<1>16. \* the appointment
       /\ consult' \in Consults /\ (consult.done => consult'.done)
       /\ consult.there => consult'.there
       /\ \/ consult'.done
          \/ ~b.gone /\ consult'.who = o /\ consult'.at = b.at /\ consult'.there /\ consult'.done = consult.done
          \/ linked = {} /\ consult' = consult
  <2>1. CASE consult' = [consult EXCEPT !.done = TRUE]
    BY <1>11, <2>1 DEF Consults
  <2>2. CASE ~b.gone /\ consult' = [consult EXCEPT !.there = TRUE, !.at = b.at, !.who = o]
    BY <1>5, <1>11, <2>2 DEF Consults
  <2>3. CASE linked = {} /\ consult' = consult
    BY <1>11, <2>3
  <2>4. QED BY <1>10, <2>1, <2>2, <2>3
<1>17. \* the links
       \/ eventRefs' = eventRefs /\ consult'.there = consult.there
       \/ /\ eventRefs' = (eventRefs \ linked) \cup {k} /\ consult'.there
          /\ linked # {} \/ b.by = "owner"
  <2>1. CASE consult' = [consult EXCEPT !.done = TRUE] /\ eventRefs' = eventRefs
    BY <1>11, <2>1 DEF Consults
  <2>2. CASE /\ consult' = [consult EXCEPT !.there = TRUE, !.at = b.at, !.who = o]
             /\ eventRefs' = (eventRefs \ linked) \cup {k} /\ (linked # {} \/ clients)
    BY <1>11, <1>14, <2>2 DEF Consults
  <2>3. CASE consult' = consult /\ eventRefs' = eventRefs
    BY <2>3
  <2>4. QED BY <1>10, <1>12, <2>1, <2>2, <2>3
<1>18. /\ batch' \in [Owners -> SUBSET CalReports] /\ batch'[o] = batch[o] \ {b}
       /\ \A q \in Owners \ {o} : batch'[q] = batch[q]
  BY <1>1, <1>2, CalTypes
<1>19. \A q \in Owners : batch'[q] \subseteq batch[q]
  BY <1>18
<1>20. \A q \in Owners : \A c \in batch'[q] : c.id # d
  <2>1. ASSUME NEW q \in Owners, NEW c \in batch'[q], c.id = d PROVE FALSE
    <3>1. c \in batch[q] /\ c.of = q /\ Tells(c, calendar[c.id])
      BY <1>2, <1>19, <2>1 DEF ReportsAreTrue
    <3>2. q = o
      BY <1>5, <2>1, <3>1 DEF Tells
    <3>3. QED BY <1>4, <1>18, <2>1, <3>1, <3>2
  <2>2. QED BY <2>1
<1>21. /\ \A x : x # d => (Coming(x)' <=> Coming(x))
       /\ Coming(d)' <=> d \in unseen
  <2>1. ASSUME NEW x, x # d, Coming(x) PROVE Coming(x)'
    <3>1. CASE x \in unseen
      BY <1>1, <3>1 DEF Coming
    <3>2. CASE \E q \in Owners : \E c \in batch[q] : c.id = x
      <4>1. PICK q \in Owners : \E c \in batch[q] : c.id = x
        BY <3>2
      <4>2. PICK c \in batch[q] : c.id = x
        BY <4>1
      <4>3. c \in batch'[q]
        BY <1>3, <1>18, <2>1, <4>2
      <4>4. QED BY <4>2, <4>3 DEF Coming
    <3>3. QED BY <2>1, <3>1, <3>2 DEF Coming
  <2>2. ASSUME NEW x, Coming(x)' PROVE Coming(x)
    BY <1>1, <1>19, <2>2 DEF Coming
  <2>3. Coming(d)' <=> d \in unseen
    BY <1>1, <1>20 DEF Coming
  <2>4. QED BY <2>1, <2>2, <2>3
<1>22. Used' = Used /\ Numbered' /\ OursRemain
  <2>1. Used' = Used
    BY <1>1 DEF Used
  <2>2. QED BY <1>1, <1>2, <2>1 DEF Numbered, Whole, OursRemain
<1>23. ReportsAreTrue'
  <2>1. \A q \in Owners : \A c \in batch'[q] :
          /\ c.of = q /\ Tells(c, calendar[c.id])
          /\ c.id \in unseen <=> c.tag < calendar[c.id].tag
          /\ \A a \in batch'[q] : a.id = c.id => a = c
    BY <1>2, <1>19 DEF ReportsAreTrue
  <2>2. unseen' \subseteq Used'
    BY <1>1, <1>2, <1>22 DEF ReportsAreTrue
  <2>3. QED BY <1>1, <2>1, <2>2 DEF ReportsAreTrue, Tells, Whole
<1>24. \A r \in eventRefs : RefIsTrue(r)'
  <2>1. ASSUME NEW r \in eventRefs PROVE RefIsTrue(r)'
    <3>1. RefIsTrue(r)
      BY <1>2 DEF RefsAreTrue
    <3>2. QED BY <1>1, <1>19, <1>22, <3>1 DEF RefIsTrue
  <2>2. QED BY <2>1
<1>25. ASSUME linked # {} \/ b.by = "owner" PROVE RefIsTrue(k)'
  <2>1. k.made <=> calendar[d].by = "crm"
    <3>1. \A r \in linked : r.made <=> calendar[d].by = "crm"
      BY <1>2, <1>8 DEF RefsAreTrue, RefIsTrue
    <3>2. QED BY <1>5, <1>12, <1>25, <3>1
  <2>2. QED BY <1>1, <1>4, <1>5, <1>6, <1>12, <1>20, <1>22, <2>1 DEF RefIsTrue
<1>26. RefsAreTrue' /\ eventRefs' \subseteq EventRef
  <2>1. CASE eventRefs' = eventRefs
    BY <1>2, <1>24, <2>1, CalTypes DEF RefsAreTrue
  <2>2. CASE eventRefs' = (eventRefs \ linked) \cup {k} /\ (linked # {} \/ b.by = "owner")
    <3>1. \A r \in eventRefs' : RefIsTrue(r)'
      BY <1>24, <1>25, <2>2
    <3>2. \A r, s \in eventRefs' : r.id = s.id => r = s
      BY <1>2, <1>12, <1>15, <2>2 DEF RefsAreTrue
    <3>3. eventRefs' \subseteq EventRef
      BY <1>2, <1>12, <2>2, CalTypes
    <3>4. QED BY <3>1, <3>2, <3>3 DEF RefsAreTrue
  <2>3. QED BY <1>17, <2>1, <2>2
<1>27. CalBasics'
  <2>1. OursAreOurs'
    BY <1>1, <1>2, <1>22, OursStay
  <2>2. slipped' \in BOOLEAN
    BY <1>1, <1>2, CalTypes
  <2>3. CalShape'
    BY <1>1, <1>2, <1>16, <1>18, <1>26, <2>2, CalTypes, CalTypesNext
  <2>4. QED BY <1>22, <1>23, <1>26, <2>1, <2>3 DEF CalBasics
<1>28. PushesInHand' = PushesInHand
  BY <1>1 DEF PushesInHand
<1>29. \A x : HasRef(x) => HasRef(x)'
  <2>1. ASSUME NEW x, NEW r \in eventRefs, r.id = x PROVE \E s \in eventRefs' : s.id = x
    BY <1>12, <1>15, <1>17, <2>1
  <2>2. QED BY <2>1 DEF HasRef
<1>30. ASSUME ~slipped'
       PROVE  /\ ~slipped /\ CalLoose /\ ~(linked = {} /\ b.by = "crm" /\ b.set = "owner")
              /\ \A p \in PushTasks : d \notin pushing[p].drop
  BY <1>1, <1>3, <1>30 DEF CalInv
<1>31. ASSUME ~slipped' PROVE CalLoose'
  <2>1. CalLoose
    BY <1>30, <1>31
  <2>2. OnePushing'
    BY <1>28, <2>1 DEF CalLoose, OnePushing
  <2>3. NoneForgotten'
    BY <1>1, <1>22, <1>29, <2>1 DEF CalLoose, NoneForgotten, JustPut
  <2>4. \A p \in PushTasks : HandIsTrue(pushing[p])'
    BY <1>1, <1>29, <2>1 DEF CalLoose, HandIsTrue
  <2>5. OnlyForAppointment'
    <3>1. CASE consult'.there
      BY <3>1 DEF OnlyForAppointment
    <3>2. CASE ~consult'.there
      <4>1. ~consult.there /\ eventRefs' = eventRefs
        BY <1>16, <1>17, <3>2
      <4>2. consult = NoConsult /\ eventRefs = {} /\ PushesInHand = {}
        BY <2>1, <4>1 DEF CalLoose, OnlyForAppointment
      <4>3. linked = {}
        BY <1>15, <4>2
      <4>4. consult' = consult
        <5>2. CASE consult' = [consult EXCEPT !.there = TRUE, !.at = b.at, !.who = o]
          BY <1>11, <3>2, <5>2 DEF Consults
        <5>3. QED BY <1>10, <4>3, <5>2
      <4>5. QED BY <1>28, <4>1, <4>2, <4>4 DEF OnlyForAppointment
    <3>3. QED BY <3>1, <3>2
  <2>6. QED BY <2>1, <2>2, <2>3, <2>4, <2>5 DEF CalLoose
<1>32. ASSUME Plain' PROVE PlainInOrder'
  <2>1. ~slipped' /\ consult'.there /\ \A r \in eventRefs' : r.made
    BY <1>32 DEF Plain
  <2>2. /\ ~slipped /\ CalLoose /\ ~(linked = {} /\ b.by = "crm" /\ b.set = "owner")
        /\ \A p \in PushTasks : d \notin pushing[p].drop
    BY <1>30, <2>1
  <2>3. \/ eventRefs' = eventRefs
        \/ eventRefs' = (eventRefs \ linked) \cup {k} /\ linked # {}
    <3>1. CASE eventRefs' = (eventRefs \ linked) \cup {k} /\ linked = {}
      BY <1>12, <2>1, <3>1
    <3>2. QED BY <1>17, <3>1
  <2>4. Plain
    <3>1. consult.there
      <4>1. CASE linked # {}
        <5>1. eventRefs # {}
          BY <1>15, <4>1
        <5>2. QED BY <2>2, <5>1 DEF CalLoose, OnlyForAppointment
      <4>2. CASE linked = {}
        <5>1. CASE eventRefs' = (eventRefs \ linked) \cup {k}
          BY <1>12, <2>1, <4>2, <5>1
        <5>2. CASE consult'.there = consult.there
          BY <2>1, <5>2
        <5>3. QED BY <1>17, <5>1, <5>2
      <4>3. QED BY <4>1, <4>2
    <3>2. ASSUME NEW r \in eventRefs PROVE r.made
      <4>1. CASE r \in eventRefs'
        BY <2>1, <4>1
      <4>2. CASE r \notin eventRefs'
        <5>1. r \in linked /\ k \in eventRefs'
          BY <2>3, <4>2
        <5>2. PICK s \in linked : s.made
          BY <1>12, <2>1, <5>1
        <5>3. s = r
          BY <1>2, <1>15, <5>1, <5>2 DEF RefsAreTrue
        <5>4. QED BY <5>2, <5>3
      <4>3. QED BY <4>1, <4>2
    <3>3. QED BY <2>2, <3>1, <3>2 DEF Plain
  <2>5. PlainInOrder
    BY <2>4 DEF CalInv
  <2>6. /\ takenOff' = {} /\ \A r, s \in eventRefs : r = s
        /\ \A r \in eventRefs : GoneKnown(r)
        /\ \A p \in PushesInHand : PushingKnows(pushing[p])
    BY <1>1, <2>5 DEF PlainInOrder
  <2>7. linked # {} => \A r \in eventRefs : r \in linked
    BY <1>15, <2>6
  <2>8. /\ linked # {} => eventRefs' # {} /\ eventRefs # {} /\ \A r \in eventRefs' : r.id = d
        /\ linked = {} => eventRefs' = eventRefs
    <3>1. ASSUME linked # {} PROVE eventRefs' # {} /\ eventRefs # {} /\ \A r \in eventRefs' : r.id = d
      <4>1. PICK r \in linked : TRUE
        BY <3>1
      <4>2. r \in eventRefs
        BY <1>15
      <4>3. QED BY <1>8, <1>12, <2>3, <2>7, <3>1, <4>2
    <3>2. QED BY <2>3, <3>1
  <2>9. \A r \in eventRefs' : \E s \in eventRefs : s.id = r.id
    BY <1>15, <2>3, <2>8
  <2>10. \A r, s \in eventRefs' : r = s
    <3>1. \A r, s \in eventRefs' : r.id = s.id
      BY <2>6, <2>9
    <3>2. QED BY <1>26, <3>1 DEF RefsAreTrue
  <2>11. \A x : HasRef(x)' <=> HasRef(x)
    BY <1>29, <2>9 DEF HasRef
  <2>12. eventRefs' = {} <=> eventRefs = {}
    BY <2>3, <2>8
  <2>13. \A r \in eventRefs' : GoneKnown(r)'
    <3>1. ASSUME NEW r \in eventRefs' PROVE GoneKnown(r)'
      <4>1. PICK s \in eventRefs : s.id = r.id
        BY <2>9
      <4>2. GoneKnown(s)
        BY <2>6
      <4>3. QED BY <1>1, <4>1, <4>2 DEF GoneKnown
    <3>2. QED BY <3>1
  <2>14. Astray => Astray'
    <3>1. ASSUME NEW a \in Used, AstrayOne(a)
          PROVE  /\ calendar'[a].by = "crm" /\ calendar'[a].set = "owner" /\ Coming(a)'
                 /\ ~HasRef(a)' /\ ~JustPut(a)'
      <4>1. calendar'[a].by = "crm" /\ calendar'[a].set = "owner" /\ ~HasRef(a)' /\ ~JustPut(a)'
        BY <1>1, <2>11, <3>1 DEF AstrayOne, JustPut
      <4>2. Coming(a)'
        <5>1. CASE a # d
          BY <1>21, <3>1, <5>1 DEF AstrayOne
        <5>2. CASE a = d
          BY <1>5, <1>7, <1>13, <1>21, <2>2, <3>1, <5>2 DEF AstrayOne
        <5>3. QED BY <5>1, <5>2
      <4>3. QED BY <4>1, <4>2
    <3>2. Used \subseteq EventIds /\ Used \subseteq Used'
      BY <1>22 DEF Used
    <3>3. QED BY <3>1, <3>2, StillAstray
  \* A linked report: the appointment shows it, or is finished, or the event changed since.
  <2>15. linked # {} => consult'.done \/ Coming(d)' \/ Shows(calendar'[d], consult')
    <3>1. ASSUME linked # {}, ~consult'.done, d \notin unseen PROVE Shows(calendar'[d], consult')
      <4>1. ~b.gone /\ consult'.who = o /\ consult'.at = b.at
        BY <1>16, <3>1
      <4>2. QED BY <1>1, <1>5, <1>7, <3>1, <4>1 DEF Shows
    <3>2. QED BY <1>21, <3>1
  <2>16. linked # {} => consult'.done \/ \A r \in eventRefs' : Coming(r.id)' \/ Shows(calendar'[r.id], consult')
    BY <2>8, <2>15
  <2>17. linked = {} => /\ consult' = consult
                        /\ \A r \in eventRefs : r.id # d /\ (Coming(r.id)' <=> Coming(r.id))
    <3>1. ASSUME linked = {} PROVE consult' = consult
      <4>1. CASE eventRefs' = (eventRefs \ linked) \cup {k}
        <5>1. k \in eventRefs'
          BY <4>1
        <5>2. HasRef(d)'
          BY <1>12, <5>1 DEF HasRef
        <5>3. QED BY <1>13, <2>11, <3>1, <5>2
      <4>2. QED BY <1>10, <1>12, <3>1, <4>1
    <3>2. ASSUME linked = {}, NEW r \in eventRefs PROVE r.id # d /\ (Coming(r.id)' <=> Coming(r.id))
      BY <1>15, <1>21, <3>2
    <3>3. QED BY <3>1, <3>2
  <2>18. Agreed \/ linked # {} => Agreed'
    <3>1. CASE linked # {}
      <4>1. consult'.done \/ (eventRefs' # {} /\ \A r \in eventRefs' : Coming(r.id)' \/ Shows(calendar'[r.id], consult'))
        BY <2>8, <2>16, <3>1
      <4>2. QED BY <4>1 DEF Agreed, Shows
    <3>2. CASE linked = {}
      <4>1. consult' = consult /\ eventRefs' = eventRefs /\ \A r \in eventRefs : Coming(r.id)' <=> Coming(r.id)
        BY <2>8, <2>17, <3>2
      <4>2. ASSUME Agreed
            PROVE  \/ waits' \/ Astray' \/ consult'.done
                   \/ eventRefs' = {} /\ WantedOn(consult') = {}
                   \/ eventRefs' # {} /\ \A r \in eventRefs' : Coming(r.id)' \/ Shows(calendar'[r.id], consult')
        BY <1>1, <2>14, <4>1, <4>2 DEF Agreed
      <4>3. ASSUME eventRefs' = {} /\ WantedOn(consult') = {} PROVE Agreed'
        BY <4>3 DEF Agreed, WantedOn
      <4>4. ASSUME Agreed PROVE Agreed'
        BY <4>2, <4>3, <4>4 DEF Agreed, Shows
      <4>5. QED BY <3>2, <4>4
    <3>3. QED BY <3>1, <3>2
  <2>19. ASSUME NEW p \in PushesInHand' PROVE PushingKnows(pushing[p])'
    <3>1. p \in PushTasks /\ p \in PushesInHand /\ pushing'[p] = pushing[p]
      BY <1>1, <1>28, <2>19 DEF PushesInHand
    <3>2. PICK t \in CalPushes : t = pushing[p]
      BY <1>2, <3>1, CalTypes
    <3>3. HandIsOurs(t) /\ HandIsTrue(t) /\ PushingKnows(t) /\ d \notin t.drop
      BY <1>2, <2>2, <2>6, <3>1, <3>2 DEF OursAreOurs, CalLoose
    <3>4. ASSUME t.step \in {"begun", "removed"} PROVE BegunKnows(t)'
      <4>1. BegunKnows(t)
        BY <3>3, <3>4 DEF PushingKnows
      <4>2. \A x \in EventIds : x \in t.drop <=> HasRef(x)' /\ calendar'[x].of \notin WantedOn(t.consult)
        BY <1>1, <2>11, <4>1 DEF BegunKnows
      <4>3. waits' \/ (t.consult.done => consult'.done)
        BY <1>1, <1>16, <4>1 DEF BegunKnows
      <4>4. t.step = "removed" => t.got \in t.drop
        BY <4>1 DEF BegunKnows
      <4>5. \/ waits' \/ Astray' \/ SameAs(consult', t.consult)
            \/ /\ eventRefs' # {} /\ t.drop = {}
               /\ consult'.done \/ \A r \in eventRefs' : Coming(r.id)' \/ ~calendar'[r.id].gone
        <5>1. CASE linked # {}
          <6>1. t.drop = {}
            <7>1. ASSUME NEW x \in t.drop PROVE FALSE
              <8>1. x \in EventIds /\ HasRef(x)
                BY <4>1, <7>1, CalPushRow DEF BegunKnows
              <8>2. x = d
                BY <2>7, <1>8, <5>1, <8>1 DEF HasRef
              <8>3. QED BY <3>3, <7>1, <8>2
            <7>2. QED BY <7>1
          <6>2. QED BY <2>8, <2>16, <5>1, <6>1 DEF Shows
        <5>2. CASE linked = {}
          <6>1. ASSUME \A r \in eventRefs : Coming(r.id) \/ ~calendar[r.id].gone
                PROVE  \A r \in eventRefs' : Coming(r.id)' \/ ~calendar'[r.id].gone
            BY <1>1, <2>8, <2>17, <5>2, <6>1
          <6>2. QED BY <1>1, <2>8, <2>14, <2>17, <4>1, <5>2, <6>1 DEF BegunKnows
        <5>3. QED BY <5>1, <5>2
      <4>6. QED BY <4>2, <4>3, <4>4, <4>5 DEF BegunKnows, WantedOn, SameAs
    <3>5. ASSUME t.step = "saving" PROVE SavingKnows(t)'
      <4>1. SavingKnows(t)
        BY <3>3, <3>5 DEF PushingKnows
      <4>2. /\ \A r \in eventRefs' : r.id = t.old
            /\ eventRefs' = {} => t.old = 0
        BY <2>9, <2>12, <4>1 DEF SavingKnows
      <4>3. linked # {} => t.old = d
        BY <2>8, <4>2
      <4>4. \/ waits' \/ Astray' \/ SameAs(consult', t.consult)
            \/ /\ eventRefs' # {}
               /\ consult'.done \/ Coming(t.old)' \/ ~calendar'[t.old].gone
        <5>1. CASE linked # {}
          BY <2>8, <2>15, <4>3, <5>1 DEF Shows
        <5>2. CASE linked = {}
          <6>1. eventRefs # {} => (Coming(t.old)' <=> Coming(t.old))
            BY <2>17, <4>1, <5>2 DEF SavingKnows
          <6>2. QED BY <1>1, <2>8, <2>14, <2>17, <4>1, <5>2, <6>1 DEF SavingKnows
        <5>3. QED BY <5>1, <5>2
      <4>5. QED BY <4>2, <4>4 DEF SavingKnows, SameAs
    <3>6. ASSUME t.step = "saved" PROVE SavedKnows(t)'
      <4>1. SavedKnows(t)
        BY <3>3, <3>6 DEF PushingKnows
      <4>2. t.got \in EventIds /\ calendar[t.got].by = "crm"
        BY <3>3, <3>6, CalPushRow DEF HandIsOurs
      <4>3. /\ \A r \in eventRefs' : r.id = t.old
            /\ eventRefs' = {} => t.old = 0
        BY <2>9, <2>12, <4>1 DEF SavedKnows
      <4>4. linked # {} => t.old = d
        BY <2>8, <4>3
      <4>5. t.got = t.old => Agreed'
        BY <2>18, <4>1 DEF SavedKnows
      <4>6. ASSUME t.got # t.old
            PROVE  /\ Coming(t.got)' \/ Shows(calendar'[t.got], t.consult)
                   /\ \/ waits' \/ Astray' \/ consult'.done \/ SameAs(consult', t.consult)
                      \/ t.old # 0 /\ Coming(t.old)'
        <5>1. Coming(t.got)' \/ Shows(calendar'[t.got], t.consult)
          <6>1. CASE t.got # d
            BY <1>1, <1>21, <4>1, <4>6, <6>1 DEF SavedKnows
          <6>2. CASE t.got = d
            <7>1. linked = {}
              BY <4>4, <4>6, <6>2
            <7>2. d \notin unseen => calendar[d].set = "crm"
              BY <1>5, <1>7, <2>2, <4>2, <6>2, <7>1
            <7>3. QED BY <1>1, <1>21, <4>1, <6>2, <7>2 DEF SavedKnows
          <6>3. QED BY <6>1, <6>2
        <5>2. \/ waits' \/ Astray' \/ consult'.done \/ SameAs(consult', t.consult)
              \/ t.old # 0 /\ Coming(t.old)'
          <6>1. CASE linked # {}
            <7>1. t.old = d /\ d # 0 /\ calendar[d].gone
              BY <1>2, <3>3, <3>6, <4>4, <4>6, <6>1, CalTypes DEF HandIsTrue
            <7>2. QED BY <1>1, <2>15, <6>1, <7>1 DEF Shows
          <6>2. CASE linked = {}
            <7>1. t.old # 0 => (Coming(t.old)' <=> Coming(t.old))
              BY <2>17, <3>3, <3>6, <6>2 DEF HandIsTrue, HasRef
            <7>2. QED BY <1>1, <2>14, <2>17, <4>1, <4>6, <6>2, <7>1 DEF SavedKnows
          <6>3. QED BY <6>1, <6>2
        <5>3. QED BY <5>1, <5>2
      <4>7. calendar'[t.got].set = "crm" => Shows(calendar'[t.got], t.consult)
        BY <1>1, <4>1 DEF SavedKnows
      <4>8. QED BY <4>3, <4>5, <4>6, <4>7 DEF SavedKnows, SameAs, Shows
    <3>7. PushingKnows(t)'
      BY <1>1, <3>3, <3>4, <3>5, <3>6 DEF PushingKnows
    <3>8. QED BY <3>1, <3>2, <3>7
  <2>20. ASSUME PushesInHand' = {} PROVE Agreed' /\ (waits' \/ consult'.done \/ \A r \in eventRefs' : AsAsked(r)')
    <3>1. Agreed /\ (waits \/ consult.done \/ \A r \in eventRefs : AsAsked(r))
      BY <1>28, <2>5, <2>20 DEF PlainInOrder
    <3>2. ASSUME NEW r \in eventRefs', \A s \in eventRefs : AsAsked(s) PROVE AsAsked(r)'
      <4>1. PICK s \in eventRefs : s.id = r.id
        BY <2>9
      <4>2. QED BY <1>1, <3>2, <4>1 DEF AsAsked
    <3>3. QED BY <1>1, <1>16, <2>18, <3>1, <3>2
  <2>21. QED BY <2>6, <2>10, <2>13, <2>19, <2>20 DEF PlainInOrder
<1>33. QED BY <1>27, <1>31, <1>32 DEF CalInv

----------------------------------------------------------------------------
LEMMA CalStart == CalendarsInit => CalInv
<1> SUFFICES ASSUME CalendarsInit PROVE CalInv
  OBVIOUS
<1>1. /\ consult = NoConsult /\ asked = NoConsult /\ calendar = [e \in EventIds |-> NoEvent]
      /\ eventRefs = {} /\ waits = FALSE /\ takenOff = {}
      /\ pushing = [p \in PushTasks |-> NotPushing] /\ unseen = {} /\ batch = [o \in Owners |-> {}]
      /\ moves = 0 /\ slipped = FALSE
  BY DEF CalendarsInit
<1>2. Used = {}
  BY <1>1 DEF Used
<1>3. CalShape
  <2>1. 0 \in 0..MaxMoves
    BY CalendarsAssumption
  <2>2. QED BY <1>1, <2>1, Blanks DEF CalShape
<1>4. Numbered
  <2>1. 0 \in 0..MaxEvents /\ 1..0 = {}
    BY CalendarsAssumption
  <2>2. QED BY <1>2, <2>1 DEF Numbered
<1>5. \A p \in PushTasks : pushing[p] = NotPushing /\ pushing[p].step = "idle"
  BY <1>1, Blanks
<1>6. OursAreOurs
  BY <1>1, <1>5, IdleHand DEF OursAreOurs
<1>7. ReportsAreTrue /\ RefsAreTrue
  BY <1>1 DEF ReportsAreTrue, RefsAreTrue
<1>8. PushesInHand = {}
  BY <1>5 DEF PushesInHand
<1>9. CalLoose
  <2>1. \A p \in PushTasks : HandIsTrue(pushing[p])
    BY <1>5 DEF HandIsTrue
  <2>2. QED BY <1>1, <1>2, <1>8, <2>1 DEF CalLoose, NoneForgotten, OnePushing, OnlyForAppointment
<1>10. ~Plain
  BY <1>1, Blanks DEF Plain
<1>11. QED BY <1>3, <1>4, <1>6, <1>7, <1>9, <1>10 DEF CalInv, CalBasics

LEMMA CalIdle == ASSUME CalInv, UNCHANGED calendarVars PROVE CalInv'
<1>1. /\ consult' = consult /\ asked' = asked /\ calendar' = calendar /\ eventRefs' = eventRefs
      /\ waits' = waits /\ takenOff' = takenOff /\ pushing' = pushing /\ unseen' = unseen
      /\ batch' = batch /\ moves' = moves /\ slipped' = slipped
  BY DEF calendarVars
<1>2. CalBasics'
  <2>1. CalShape' /\ Numbered' /\ OursAreOurs'
    BY <1>1 DEF CalInv, CalBasics, CalShape, Numbered, Used, Whole, OursAreOurs, HandIsOurs
  <2>2. ReportsAreTrue' /\ RefsAreTrue'
    BY <1>1 DEF CalInv, CalBasics, ReportsAreTrue, RefsAreTrue, RefIsTrue, Tells, Whole, Used
  <2>3. QED BY <2>1, <2>2 DEF CalBasics
<1>3. Used' = Used /\ PushesInHand' = PushesInHand
  BY <1>1 DEF Used, PushesInHand
<1>4. ~slipped' => CalLoose'
  BY <1>1, <1>3 DEF CalInv, CalLoose, NoneForgotten, OnePushing, OnlyForAppointment, HandIsTrue, HasRef, JustPut
<1>5. \A d : (Coming(d)' <=> Coming(d)) /\ (HasRef(d)' <=> HasRef(d)) /\ (JustPut(d)' <=> JustPut(d))
  BY <1>1 DEF Coming, HasRef, JustPut
<1>6. Astray' <=> Astray
  BY <1>1, <1>3, <1>5 DEF Astray, AstrayOne
<1>7. Agreed' <=> Agreed
  BY <1>1, <1>5, <1>6 DEF Agreed, WantedOn, Shows
<1>8. ASSUME NEW t, PushingKnows(t) PROVE PushingKnows(t)'
  <2>1. BegunKnows(t) => BegunKnows(t)'
    BY <1>1, <1>5, <1>6 DEF BegunKnows, WantedOn, SameAs
  <2>2. SavingKnows(t) => SavingKnows(t)'
    BY <1>1, <1>5, <1>6 DEF SavingKnows, SameAs
  <2>3. SavedKnows(t) => SavedKnows(t)'
    BY <1>1, <1>5, <1>6, <1>7 DEF SavedKnows, SameAs, Shows
  <2>4. QED BY <1>1, <1>8, <2>1, <2>2, <2>3 DEF PushingKnows
<1>9. ASSUME Plain' PROVE PlainInOrder'
  <2>1. PlainInOrder
    BY <1>1, <1>9 DEF Plain, CalInv
  <2>2. ASSUME NEW p \in PushesInHand' PROVE PushingKnows(pushing[p])'
    <3>1. PICK t : t = pushing[p]
      OBVIOUS
    <3>2. PushingKnows(t)
      BY <1>3, <2>1, <2>2, <3>1 DEF PlainInOrder
    <3>3. PushingKnows(t)'
      BY <1>8, <3>2
    <3>4. QED BY <1>1, <3>1, <3>3
  <2>3. QED BY <1>1, <1>3, <1>7, <2>1, <2>2 DEF PlainInOrder, GoneKnown, AsAsked
<1>10. QED BY <1>2, <1>4, <1>9 DEF CalInv

LEMMA CalStep == ASSUME CalInv, CalendarsNext PROVE CalInv'
<1>1. ASSUME FinishConsult \/ DeleteConsult PROVE CalInv'
  BY <1>1, FinishConsultStep, DeleteConsultStep
<1>2. ASSUME NEW who \in Owners \cup {"none"}, NEW at \in Slots \cup {"none"}, SaveConsult(who, at) PROVE CalInv'
  BY <1>2, SaveConsultStep DEF CalStaff, CalSpots
<1>3. ASSUME NEW p \in PushTasks,
             \/ BeginPushing(p) \/ ForgetRef(p) \/ Decide(p) \/ PutOnCalendar(p)
             \/ LinkEvent(p) \/ PushBreaks(p)
             \/ \E e \in EventIds, ok \in BOOLEAN : TakeOff(p, e, ok)
      PROVE  CalInv'
  BY <1>3, BeginPushingStep, ForgetRefStep, DecideStep, PutOnCalendarStep, LinkEventStep, PushBreaksStep, TakeOffStep
<1>4. ASSUME NEW e \in EventIds,
             \/ OwnerDeletes(e) \/ \E at \in Slots : OwnerMoves(e, at)
             \/ \E ok \in BOOLEAN : RemoveEvent(e, ok)
      PROVE  CalInv'
  BY <1>4, OwnerDeletesStep, OwnerMovesStep, RemoveEventStep
<1>5. ASSUME NEW o \in Owners,
             \/ ReadCalendar(o) \/ \E at \in Slots : OwnerAdds(o, at)
             \/ \E b \in batch[o] : StoreEvent(o, b)
      PROVE  CalInv'
  BY <1>5, ReadCalendarStep, OwnerAddsStep, StoreEventStep
<1>6. QED BY <1>1, <1>2, <1>3, <1>4, <1>5 DEF CalendarsNext

\* When nothing is under way, what is known is that calendars and appointment agree.
LEMMA CalInvMatches == CalInv => CalendarsMatch
<1> SUFFICES ASSUME CalInv PROVE CalendarsMatch
  OBVIOUS
<1>1. CalBasics /\ CalShape /\ Numbered /\ RefsAreTrue
  BY DEF CalInv, CalBasics
<1>2. OwnersEventsKept
  BY <1>1, UsedKnown DEF OwnersEventsKept, Whole
<1> DEFINE here == {e \in Used : calendar[e].by = "crm" /\ ~calendar[e].gone}
           still == /\ ~waits /\ ~slipped /\ takenOff = {} /\ PushesInHand = {}
                    /\ unseen = {} /\ \A o \in Owners : batch[o] = {}
                    /\ \A r \in eventRefs : r.made
<1>3. ASSUME still
      PROVE  /\ Cardinality(here) <= 1
             /\ \A e \in here : /\ consult.there
                                /\ consult.done \/ (calendar[e].of = consult.who /\ calendar[e].at = consult.at)
             /\ WantedOn(consult) # {} /\ ~consult.done => here # {}
  <2>1. /\ ~waits /\ ~slipped /\ takenOff = {} /\ PushesInHand = {} /\ unseen = {}
        /\ \A o \in Owners : batch[o] = {}
        /\ \A r \in eventRefs : r.made
    BY <1>3
  <2>2. CalLoose
    BY <2>1 DEF CalInv
  <2>3. \A d : ~Coming(d) /\ ~JustPut(d)
    BY <2>1 DEF Coming, JustPut, PushesInHand
  <2>4. \A e \in here : e \in Used /\ calendar[e].by = "crm" /\ ~calendar[e].gone
    OBVIOUS
  <2>5. \A e \in Used : calendar[e].by = "crm" /\ ~calendar[e].gone => e \in here
    OBVIOUS
  <2> HIDE DEF here, still
  <2>6. \A e \in here : HasRef(e)
    BY <2>1, <2>2, <2>3, <2>4 DEF CalLoose, NoneForgotten
  <2>7. CASE consult.there
    <3>1. PlainInOrder
      BY <2>1, <2>7 DEF Plain, CalInv
    <3>2. ~Astray
      BY <2>3 DEF Astray, AstrayOne
    <3>3. Agreed /\ \A r, s \in eventRefs : r = s
      BY <2>1, <3>1 DEF PlainInOrder
    <3>4. \/ consult.done
          \/ eventRefs = {} /\ WantedOn(consult) = {}
          \/ eventRefs # {} /\ \A r \in eventRefs : Shows(calendar[r.id], consult)
      BY <2>1, <2>3, <3>2, <3>3 DEF Agreed
    <3>5. \A e, d \in here : e = d
      BY <2>6, <3>3 DEF HasRef
    <3>6. \A e \in here : consult.done \/ (calendar[e].of = consult.who /\ calendar[e].at = consult.at)
      BY <2>6, <3>4 DEF HasRef, Shows
    <3>7. ASSUME WantedOn(consult) # {}, ~consult.done PROVE here # {}
      <4>1. PICK r \in eventRefs : Shows(calendar[r.id], consult)
        BY <3>4, <3>7
      <4>2. r.id \in Used /\ calendar[r.id].by = "crm"
        BY <1>1, <2>1 DEF RefsAreTrue, RefIsTrue
      <4>3. QED BY <2>5, <4>1, <4>2 DEF Shows
    <3>8. Cardinality(here) <= 1
      <4>1. CASE here = {}
        BY <4>1, FS_EmptySet
      <4>2. CASE here # {}
        <5>1. PICK e \in here : here = {e}
          BY <3>5, <4>2
        <5>2. Cardinality({e}) = 1
          BY FS_Singleton
        <5>3. QED BY <5>1, <5>2
      <4>3. QED BY <4>1, <4>2
    <3>9. QED BY <2>7, <3>6, <3>7, <3>8
  <2>8. CASE ~consult.there
    <3>1. consult = NoConsult /\ eventRefs = {}
      BY <2>2, <2>8 DEF CalLoose, OnlyForAppointment
    <3>2. here = {}
      BY <2>6, <3>1 DEF HasRef
    <3>3. Cardinality(here) = 0
      BY <3>2, FS_EmptySet
    <3>4. WantedOn(consult) = {}
      BY <3>1, Blanks DEF WantedOn
    <3>5. QED BY <3>2, <3>3, <3>4
  <2>9. QED BY <2>7, <2>8
<1>4. CalendarsAgree
  BY <1>3 DEF CalendarsAgree
<1>5. QED BY <1>2, <1>4 DEF CalendarsMatch

\* Whatever staff, pushes and syncs do, the owners' own events stay theirs, and once all of
\* it has run the CRM's events are as the appointment (crm/appointments.py).
THEOREM CalendarsStay == CalendarsSpec => []CalendarsMatch
<1>1. CalInv /\ [CalendarsNext]_calendarVars => CalInv'
  BY CalStep, CalIdle
<1>2. QED BY <1>1, CalStart, CalInvMatches, PTL DEF CalendarsSpec

LEMMA SameConsult ==
    ASSUME NEW v \in Consults, NEW w \in Consults, v.there = w.there, v.who = w.who, v.at = w.at, v.done = w.done
    PROVE  v = w
  BY DEF Consults

\* What of a sync's step explains that the appointment changed.
Explained(b) ==
    \/ b.set = "owner"
    \/ waits \/ PushesInHand # {} \/ slipped
    \/ b.tag # calendar[b.id].tag
    \/ consult.done \/ \E r \in eventRefs : ~r.made

LEMMA StoreExplained ==
    ASSUME CalInv, NEW o \in Owners, NEW b \in batch[o], StoreEvent(o, b), consult' # consult, consult' # asked
    PROVE  Explained(b)
<1> SUFFICES ASSUME /\ b.set # "owner" /\ ~waits /\ PushesInHand = {} /\ ~slipped
                    /\ b.tag = calendar[b.id].tag /\ ~consult.done /\ \A r \in eventRefs : r.made
             PROVE  FALSE
  BY DEF Explained
<1>1. CalBasics /\ CalShape /\ ReportsAreTrue /\ RefsAreTrue /\ CalLoose
  BY DEF CalInv, CalBasics
<1>2. consult \in Consults /\ asked \in Consults
  BY <1>1, CalTypes
<1> DEFINE d == b.id
<1>3. /\ b.of = o /\ Tells(b, calendar[d]) /\ Whole(b)
      /\ b.set = "crm" /\ b.by = "crm" /\ b.at \in Slots
  BY <1>1 DEF ReportsAreTrue, Tells, Whole
<1>4. /\ b.at = calendar[d].at /\ b.set = calendar[d].set /\ b.gone = calendar[d].gone
      /\ calendar[d].of = o
  BY <1>3 DEF Tells
<1>5. LinkedTo(d) # {}
      /\ \/ b.gone /\ consult' = [consult EXCEPT !.done = TRUE]
         \/ ~b.gone /\ consult' = [consult EXCEPT !.there = TRUE, !.at = b.at, !.who = o]
  <2>1. CASE b.gone /\ LinkedTo(d) # {}
    BY <2>1 DEF StoreEvent
  <2>2. CASE ~b.gone /\ (\A r \in LinkedTo(d) : r.tag # b.tag) /\ LinkedTo(d) # {}
    BY <2>2 DEF StoreEvent, SavedFrom
  <2>3. CASE ~(b.gone /\ LinkedTo(d) # {}) /\ ~(~b.gone /\ (\A r \in LinkedTo(d) : r.tag # b.tag) /\ LinkedTo(d) # {})
    BY <1>3, <2>3 DEF StoreEvent
  <2>4. QED BY <2>1, <2>2, <2>3
<1>6. PICK r \in eventRefs : r.id = d
  BY <1>5 DEF LinkedTo
<1>7. PlainInOrder
  <2>1. consult.there
    BY <1>1, <1>6 DEF CalLoose, OnlyForAppointment
  <2>2. QED BY <2>1 DEF CalInv, Plain
<1>8. GoneKnown(r) /\ AsAsked(r) /\ consult.there
  BY <1>1, <1>6, <1>7 DEF PlainInOrder, CalLoose, OnlyForAppointment
<1>9. ~calendar[d].gone
  <2>1. \A p \in PushTasks : pushing[p].step # "removed"
    BY DEF PushesInHand
  <2>2. QED BY <1>3, <1>4, <1>6, <1>8, <2>1 DEF GoneKnown
<1>10. /\ asked.there /\ ~asked.done /\ asked.who = o /\ asked.at = b.at
  BY <1>3, <1>4, <1>6, <1>8 DEF AsAsked
<1>11. consult' = [consult EXCEPT !.there = TRUE, !.at = b.at, !.who = o]
  BY <1>4, <1>5, <1>9
<1>12. /\ consult' \in Consults /\ consult'.there = TRUE /\ consult'.at = b.at /\ consult'.who = o
       /\ consult'.done = consult.done
  BY <1>2, <1>3, <1>11 DEF Consults
<1>13. consult'.there = asked.there /\ consult'.done = asked.done
  BY <1>2, <1>10, <1>12 DEF Consults
<1>14. consult' = asked
  BY <1>2, <1>10, <1>12, <1>13, SameConsult
<1>15. QED BY <1>14

\* Only the storing of a report takes it out of its batch and changes the appointment.
LEMMA OnlyStoring ==
    ASSUME CalInv, CalendarsNext, NEW o \in Owners, NEW b \in batch[o], b \notin batch'[o], consult' # consult
    PROVE  StoreEvent(o, b)
<1>1. ASSUME FinishConsult \/ DeleteConsult PROVE FALSE
  BY <1>1 DEF FinishConsult, DeleteConsult, SavedInCRM
<1>2. ASSUME NEW who, NEW at, SaveConsult(who, at) PROVE FALSE
  BY <1>2 DEF SaveConsult, SavedInCRM
<1>3. ASSUME NEW p \in PushTasks,
             \/ BeginPushing(p) \/ ForgetRef(p) \/ Decide(p) \/ PutOnCalendar(p)
             \/ LinkEvent(p) \/ PushBreaks(p)
             \/ \E e \in EventIds, ok \in BOOLEAN : TakeOff(p, e, ok)
      PROVE  FALSE
  BY <1>3 DEF BeginPushing, ForgetRef, Decide, PutOnCalendar, LinkEvent, PushBreaks, TakeOff
<1>4. ASSUME NEW e \in EventIds,
             \/ OwnerDeletes(e) \/ \E at \in Slots : OwnerMoves(e, at)
             \/ \E ok \in BOOLEAN : RemoveEvent(e, ok)
      PROVE  FALSE
  BY <1>4 DEF OwnerDeletes, OwnerMoves, OwnerSets, RemoveEvent
<1>5. ASSUME NEW q \in Owners, ReadCalendar(q) \/ \E at \in Slots : OwnerAdds(q, at) PROVE FALSE
  BY <1>5 DEF ReadCalendar, OwnerAdds, OwnerSets
<1>6. ASSUME NEW q \in Owners, NEW c \in batch[q], StoreEvent(q, c) PROVE StoreEvent(o, b)
  <2>1. batch' = [batch EXCEPT ![q] = @ \ {c}]
    BY <1>6 DEF StoreEvent
  <2>2. batch \in [Owners -> SUBSET CalReports]
    BY CalTypes DEF CalInv, CalBasics
  <2>3. q = o /\ c = b
    BY <2>1, <2>2
  <2>4. QED BY <1>6, <2>3
<1>7. QED BY <1>1, <1>2, <1>3, <1>4, <1>5, <1>6 DEF CalendarsNext

LEMMA StepExplained ==
    ASSUME CalInv, [CalendarsNext]_calendarVars, NEW o \in Owners, NEW b \in batch[o],
           b \notin batch'[o], consult' # consult, consult' # asked
    PROVE  Explained(b)
<1>1. CASE UNCHANGED calendarVars
  BY <1>1 DEF calendarVars
<1>2. CASE CalendarsNext
  BY <1>2, OnlyStoring, StoreExplained
<1>3. QED BY <1>1, <1>2

\* What MovesExplained says of a step.
MovesAreExplained ==
    \A o \in Owners : \A e \in batch[o] :
        e \notin batch'[o] /\ consult' # consult /\ consult' # asked =>
            \/ e.set = "owner"
            \/ waits \/ PushesInHand # {} \/ slipped
            \/ e.tag # calendar[e.id].tag
            \/ consult.done \/ \E r \in eventRefs : ~r.made

\* A sync changes the time or the assignee of an appointment, or finishes it, against what
\* staff last saved or a push read, only where that is explained (store_event).
THEOREM MovesStayExplained == CalendarsSpec => MovesExplained
<1>1. CalInv /\ [CalendarsNext]_calendarVars => CalInv'
  BY CalStep, CalIdle
<1>2. CalInv /\ [CalendarsNext]_calendarVars => [MovesAreExplained]_calendarVars
  BY StepExplained DEF Explained, MovesAreExplained
<1>3. QED BY <1>1, <1>2, CalStart, PTL DEF CalendarsSpec, MovesExplained, MovesAreExplained

----------------------------------------------------------------------------
\* The composition: the part that moves takes its steps, and the others rest.

PartsInv == MeetInv /\ DriveInv /\ HookInv /\ MsgInv /\ CalInv /\ ShipInv

LEMMA PartsMove ==
    ASSUME [Next]_allVars
    PROVE  /\ [MeetNext]_meetVars /\ [DriveNext]_driveVars /\ [HooksNext]_hookVars
           /\ [MessagesNext]_messageVars /\ [CalendarsNext]_calendarVars /\ [ShipNext]_shipVars
<1>1. CASE UNCHANGED allVars
  BY <1>1 DEF allVars
<1>2. CASE Next
  BY <1>2 DEF Next, MessagesNext
<1>3. QED BY <1>1, <1>2

LEMMA PartsStart == Init => PartsInv
  BY MeetStart, DriveStart, HookInvInit, MsgInvInit, CalStart, ShipInvInit DEF Init, PartsInv

LEMMA PartsStep == PartsInv /\ [Next]_allVars => PartsInv'
<1> SUFFICES ASSUME PartsInv, [Next]_allVars PROVE PartsInv'
  OBVIOUS
<1>1. /\ [MeetNext]_meetVars /\ [DriveNext]_driveVars /\ [HooksNext]_hookVars
      /\ [MessagesNext]_messageVars /\ [CalendarsNext]_calendarVars /\ [ShipNext]_shipVars
  BY PartsMove
<1>2. MeetInv' /\ DriveInv' /\ HookInv'
  BY <1>1, MeetStep, DriveStep, HookInvStep DEF PartsInv
<1>3. CalInv'
  <2>1. CASE CalendarsNext
    BY <2>1, CalStep DEF PartsInv
  <2>2. CASE UNCHANGED calendarVars
    BY <2>2, CalIdle DEF PartsInv
  <2>3. QED BY <1>1, <2>1, <2>2
<1>4. MsgInv' /\ ShipInv'
  BY <1>1, MsgInvStep, ShipInvStep DEF PartsInv
<1>5. QED BY <1>2, <1>3, <1>4 DEF PartsInv

\* In every behaviour of the composition, what the CRM made at providers matches its own
\* records, and what clients send is logged with its files, and answered in time
\* (crm/meetings.py, document_storage.py, connection_webhooks.py, crm/appointments.py and the
\* log of messages).
THEOREM ProvidersKept == Spec => []ProvidersMatch
<1>1. PartsInv => ProvidersMatch
  BY MeetInvMatches, DriveInvMatches, HookInvKeeps, MsgInvKeeps, CalInvMatches DEF PartsInv, ProvidersMatch
<1>2. QED BY <1>1, PartsStart, PartsStep, PTL DEF Spec

\* In every behaviour of the composition, a reading changes no settled shipment and notes a
\* delivery once (record_reading), and a sync changes an appointment only where that is
\* explained (store_event).
THEOREM ReportsKept == Spec => ReportsInOrder
<1>1. PartsInv => DeliveryNotedOnce
  BY ShipInvKeeps DEF PartsInv
<1>2. PartsInv /\ [Next]_allVars => [SettledByForm]_shipVars
  BY PartsMove, ReadingStep DEF PartsInv, SettledByForm
<1>3. PartsInv /\ [Next]_allVars => [MovesAreExplained]_calendarVars
  BY PartsMove, StepExplained DEF PartsInv, Explained, MovesAreExplained
<1>4. QED BY <1>1, <1>2, <1>3, PartsStart, PartsStep, PTL
      DEF Spec, ReportsInOrder, ReadingsKept, SettledByReading, MovesExplained, SettledByForm, MovesAreExplained

----------------------------------------------------------------------------
\* The types of the parts: what their invariants leave out, mostly the bounds, and with it
\* the type invariant of each.

ConsentRest == Len(replies) <= MaxReplies /\ taken \subseteq DOMAIN replies /\ underWay \subseteq Senders

LEMMA ConsentTyped ==
    /\ ConsentInit => ConsentRest
    /\ ConsentInv /\ ConsentRest /\ [ConsentNext]_consentVars => ConsentRest'
    /\ ConsentInv /\ ConsentRest => ConsentTypeOK
<1>1. ConsentInit => ConsentRest
  BY ConsentAssumption DEF ConsentInit, ConsentRest
<1>2. ASSUME ConsentInv, ConsentRest, [ConsentNext]_consentVars PROVE ConsentRest'
  <2>1. underWay' \subseteq Senders
    BY <1>2 DEF ConsentRest, ConsentNext, consentVars, Reply, TakeReply, StaffSets, SetOptOut, SaveDetails, BeginText,
       AllowText, HoldText, PerformText, Leaves
  <2>2. CASE \E word \in Words : Reply(word)
    <3>1. PICK word \in Words : Reply(word)
      BY <2>2
    <3>2. replies \in Seq(Words) /\ Len(replies) < MaxReplies /\ replies' = Append(replies, word) /\ taken' = taken
      BY <1>2, <3>1 DEF ConsentInv, Reply
    <3>3. Len(replies') = Len(replies) + 1 /\ Len(replies) \in Nat /\ DOMAIN replies = 1..Len(replies) /\ DOMAIN replies' = 1..Len(replies')
      BY <3>2, AppendProperties, LenProperties
    <3>4. DOMAIN replies \subseteq DOMAIN replies'
      BY <3>3
    <3>5. Len(replies') <= MaxReplies
      BY <3>2, <3>3, ConsentAssumption
    <3>6. QED BY <1>2, <2>1, <3>2, <3>4, <3>5 DEF ConsentRest
  <2>3. CASE \E h \in Handlers : \E i \in DOMAIN replies : TakeReply(h, i)
    BY <1>2, <2>1, <2>3 DEF ConsentRest, TakeReply
  <2>4. CASE replies' = replies /\ taken' = taken
    BY <1>2, <2>1, <2>4 DEF ConsentRest
  <2>5. QED BY <1>2, <2>2, <2>3, <2>4 DEF ConsentNext, consentVars, StaffSets, SetOptOut, SaveDetails, BeginText,
            AllowText, HoldText, PerformText, Leaves
<1>3. ConsentInv /\ ConsentRest => ConsentTypeOK
  BY DEF ConsentInv, ConsentRest, ConsentTypeOK, HandlerRows, SenderRows
<1>4. QED BY <1>1, <1>2, <1>3

LogRest ==
    /\ ours \in BOOLEAN /\ skipping \in BOOLEAN /\ copies \in 0..MaxCopies
    /\ log \in [step : {"unsent", "sent", "checked", "logged"}, status : BOOLEAN]

LEMMA LogTyped ==
    /\ CommsInit => LogRest
    /\ LogInv /\ LogRest /\ [CommsNext]_commsVars => LogRest'
    /\ LogInv /\ LogRest => CommsTypeOK
<1>1. CommsInit => LogRest
  BY CommunicationsAssumption DEF CommsInit, LogRest
<1>2. ASSUME LogInv, LogRest, [CommsNext]_commsVars PROVE LogRest'
  <2>1. ours' = ours /\ skipping' = skipping
    BY <1>2 DEF CommsNext, commsVars, StoreStep, Arrives, DropUpdate, Match, SkipUnmatched, Store, SendText, CheckLog, LogSent,
       LinkByHand, SaveContact, LinkUnmatched, settings
  <2>2. copies' \in 0..MaxCopies
    <3>1. copies' = copies \/ (copies < MaxCopies /\ copies' = copies + 1)
      BY <1>2 DEF CommsNext, commsVars, StoreStep, Arrives, DropUpdate, Match, SkipUnmatched, Store, SendText, CheckLog, LogSent,
         LinkByHand, SaveContact, LinkUnmatched
    <3>2. QED BY <1>2, <3>1, CommunicationsAssumption DEF LogRest
  <2>3. log' \in [step : {"unsent", "sent", "checked", "logged"}, status : BOOLEAN]
    <3>1. log \in [step : {"unsent", "sent", "checked", "logged"}, status : BOOLEAN] /\ record.stored \in BOOLEAN
      BY <1>2 DEF LogRest, LogInv, Records
    <3>2. CASE SendText
      BY <3>1, <3>2 DEF SendText
    <3>3. CASE CheckLog
      BY <3>1, <3>3 DEF CheckLog
    <3>4. CASE \E c \in Contacts : LogSent(c)
      BY <3>1, <3>4 DEF LogSent
    <3>5. CASE log' = log
      BY <3>1, <3>5
    <3>6. QED BY <1>2, <3>2, <3>3, <3>4, <3>5 DEF CommsNext, commsVars, StoreStep, Arrives, DropUpdate, Match, SkipUnmatched,
              Store, LinkByHand, SaveContact, LinkUnmatched
  <2>4. QED BY <1>2, <2>1, <2>2, <2>3 DEF LogRest
<1>3. LogInv /\ LogRest => CommsTypeOK
  BY DEF LogInv, LogRest, CommsTypeOK, StorerRows
<1>4. QED BY <1>1, <1>2, <1>3

\* Each change of the envelope sends one event, and the last signature two.
HasEnded(at) == IF at \in {"none", "open", "deleted"} THEN 0 ELSE 1
SignRest == due <= 1 + Cardinality(envelope.signed) + HasEnded(envelope.at)

LEMMA SignTyped ==
    /\ SignInit => SignRest
    /\ SignInv /\ SignRest /\ [SignNext]_signVars => SignRest'
    /\ SignInv /\ SignRest => SignTypeOK
<1>1. SignInit => SignRest
  <2>1. ASSUME SignInit PROVE due = 0 /\ envelope.signed = {} /\ envelope.at = "none"
    BY <2>1 DEF SignInit
  <2>2. QED BY <2>1, FS_EmptySet DEF SignRest, HasEnded
<1>2. ASSUME SignInv PROVE /\ envelope \in Envelopes /\ due \in Nat /\ IsFiniteSet(envelope.signed)
                           /\ Cardinality(envelope.signed) \in Nat /\ Cardinality(Signers) \in Nat
                           /\ Cardinality(envelope.signed) <= Cardinality(Signers)
  <2>1. envelope \in Envelopes /\ due \in Nat /\ envelope.signed \subseteq Signers
    BY <1>2 DEF SignInv, SignTypes, Envelopes
  <2>2. QED BY <2>1, SignaturesAssumption, FS_Subset, FS_CardinalityType
<1>3. ASSUME SignInv, SignRest, [SignNext]_signVars PROVE SignRest'
  <2>1. /\ envelope \in Envelopes /\ due \in Nat /\ IsFiniteSet(envelope.signed)
        /\ Cardinality(envelope.signed) \in Nat
    BY <1>2, <1>3
  <2>2. CASE \E s \in Signers : Sign(s)
    <3>1. PICK s \in Signers : Sign(s)
      BY <2>2
    <3>2. envelope.at = "open" /\ s \notin envelope.signed /\ HasEnded(envelope.at) = 0
      BY <3>1 DEF Sign, HasEnded
    <3>3. envelope'.signed = envelope.signed \cup {s} /\ envelope'.at \in {"completed", "open"}
      BY <2>1, <3>1 DEF Sign, Envelopes
    <3>4. Cardinality(envelope'.signed) = Cardinality(envelope.signed) + 1
      BY <2>1, <3>2, <3>3, FS_AddElement
    <3>5. due' = due + 1 + HasEnded(envelope'.at)
      BY <2>1, <3>1, <3>3 DEF Sign, HasEnded
    <3>6. HasEnded(envelope'.at) \in Nat
      BY DEF HasEnded
    <3>7. due <= 1 + Cardinality(envelope.signed)
      BY <1>3, <2>1, <3>2 DEF SignRest
    <3>8. due' <= 1 + Cardinality(envelope'.signed) + HasEnded(envelope'.at)
      BY <2>1, <3>4, <3>5, <3>6, <3>7
    <3>9. QED BY <3>8 DEF SignRest
  <2>3. CASE Send
    <3>1. envelope.at = "none" /\ due' = 1 /\ envelope'.at = "open" /\ envelope'.signed = envelope.signed
      BY <1>3, <2>1, <2>3 DEF Send, SignInv, SentFirst, Envelopes
    <3>2. QED BY <2>1, <3>1 DEF SignRest, HasEnded
  <2>4. CASE /\ envelope.at = "open" /\ envelope'.signed = envelope.signed
             /\ due' = due + HasEnded(envelope'.at)
    <3>1. HasEnded(envelope.at) = 0 /\ HasEnded(envelope'.at) \in Nat
      BY <2>4 DEF HasEnded
    <3>2. QED BY <1>3, <2>1, <2>4, <3>1 DEF SignRest
  <2>5. CASE envelope' = envelope /\ due' \in Nat /\ due' <= due
    <3>1. HasEnded(envelope.at) \in Nat
      BY DEF HasEnded
    <3>2. QED BY <1>3, <2>1, <2>5, <3>1 DEF SignRest
  <2>6. ASSUME NEW s \in Signers, Refuse(s)
        PROVE  envelope.at = "open" /\ envelope'.signed = envelope.signed /\ due' = due + HasEnded(envelope'.at)
    BY <2>1, <2>6 DEF Refuse, HasEnded, Envelopes
  <2>7. ASSUME NEW end \in {"cancelled", "deleted"}, EndAtProvider(end)
        PROVE  envelope.at = "open" /\ envelope'.signed = envelope.signed /\ due' = due + HasEnded(envelope'.at)
    BY <2>1, <2>7 DEF EndAtProvider, HasEnded, Envelopes
  <2>8. ASSUME NEW c \in Cancellers, AskProvider(c)
        PROVE  \/ envelope.at = "open" /\ envelope'.signed = envelope.signed /\ due' = due + HasEnded(envelope'.at)
               \/ envelope' = envelope /\ due' = due
    BY <2>1, <2>8 DEF AskProvider, HasEnded, Envelopes
  <2>9. ASSUME NEW c \in Cancellers, Cancel(c) \/ SaveCancelled(c) \/ CancelFails(c)
        PROVE  envelope' = envelope /\ due' = due
    BY <2>9 DEF Cancel, SaveCancelled, CancelFails
  <2>10. ASSUME NEW r \in Readers, TakeEvent(r) \/ \E report \in Reports : StoreReport(r, report)
         PROVE  envelope' = envelope /\ due' \in Nat /\ due' <= due
    BY <2>1, <2>10 DEF TakeEvent, StoreReport
  <2>11. ASSUME MakeRow \/ LoseRow \/ EventFails \/ UNCHANGED signVars
         PROVE  envelope' = envelope /\ due' \in Nat /\ due' <= due
    BY <2>1, <2>11 DEF MakeRow, LoseRow, EventFails, signVars
  <2>12. QED BY <1>3, <2>1, <2>2, <2>3, <2>4, <2>5, <2>6, <2>7, <2>8, <2>9, <2>10, <2>11 DEF SignNext
<1>4. ASSUME SignInv, SignRest PROVE SignTypeOK
  <2>1. HasEnded(envelope.at) \in {0, 1}
    BY DEF HasEnded
  <2>2. due \in 0..Cardinality(Signers) + 2
    BY <1>2, <1>4, <2>1 DEF SignRest
  <2>3. QED BY <1>4, <2>2 DEF SignInv, SignTypes, Envelopes, RequestRows, CancelRows, SignTypeOK
<1>5. QED BY <1>1, <1>3, <1>4

\* The bounds of the second step: the devices, time steps and failures that are counted.
SetNumbers == 0..MaxSets
TimeSteps == 0..(MaxTime + 1)
Tries == 0..(FailureLimit - 1)
DeviceRows == [number : SetNumbers, there : BOOLEAN, confirmed : BOOLEAN, last : TimeSteps,
               failed : Tries, locked : BOOLEAN]
SessionRows == [at : {"out", "pending", "in"}, verified : BOOLEAN,
                doing : {"nothing", "enrolling", "renewing", "turning_off"}, saw : SetNumbers]
UsedCodes == (1..MaxSets) \X Codes

SecondRest ==
    /\ clock \in 1..MaxTime /\ sets \in SetNumbers
    /\ device \in DeviceRows /\ (device.there => device.number # 0)
    /\ session \in [Sessions -> SessionRows]
    /\ used \subseteq UsedCodes

LEMMA SecondBounds ==
    /\ 0 \in SetNumbers /\ 0 \in TimeSteps /\ 0 \in Tries /\ 1 \in 1..MaxTime
    /\ \A c \in 1..(MaxTime + 1) : c \in TimeSteps
    /\ \A n \in Tries : n + 1 # FailureLimit => n + 1 \in Tries
    /\ \A n \in SetNumbers : n \in Nat /\ (n < MaxSets => n + 1 \in SetNumbers) /\ (n # 0 => n \in 1..MaxSets)
    /\ Apart \in SessionRows
  BY TwoFactorAssumption DEF SetNumbers, TimeSteps, Tries, Apart, SessionRows

LEMMA DeviceGoneTyped == ASSUME device \in DeviceRows PROVE NoDevice \in DeviceRows /\ ~NoDevice.there
  BY SecondBounds DEF NoDevice, DeviceRows

\* A code is checked: the device and what was used keep their types.
LEMMA CheckTyped ==
    ASSUME SecondInv, SecondRest, NEW code \in Codes, CheckSecondFactor(code)
    PROVE  /\ device' \in DeviceRows /\ device'.number = device.number /\ device'.there = device.there
           /\ used' \subseteq UsedCodes /\ UNCHANGED <<clock, sets>>
<1>1. device \in DeviceRows /\ device.failed \in Tries /\ UNCHANGED <<clock, sets>>
  BY DEF SecondRest, DeviceRows, CheckSecondFactor
<1>2. ByApp(code) => code[2] \in TimeSteps
  <2>1. ASSUME ByApp(code) PROVE \E c \in 1..(MaxTime + 1) : code = <<"app", c>>
    BY <2>1 DEF ByApp, Codes
  <2>2. QED BY <2>1, SecondBounds
<1>3. \/ device' = device
      \/ ByApp(code) /\ device' = [device EXCEPT !.failed = 0, !.last = code[2]]
      \/ device' = [device EXCEPT !.failed = 0]
      \/ device' = [device EXCEPT !.failed = 0, !.locked = TRUE]
      \/ device.failed + 1 # FailureLimit /\ device' = [device EXCEPT !.failed = device.failed + 1]
  BY <1>1 DEF CheckSecondFactor
<1>4. device' \in DeviceRows /\ device'.number = device.number /\ device'.there = device.there
  <2>1. CASE ByApp(code) /\ device' = [device EXCEPT !.failed = 0, !.last = code[2]]
    <3>1. PICK c \in TimeSteps : c = code[2]
      BY <1>2, <2>1
    <3>2. QED BY <1>1, <2>1, <3>1, SecondBounds DEF DeviceRows
  <2>2. CASE device.failed + 1 # FailureLimit /\ device' = [device EXCEPT !.failed = device.failed + 1]
    <3>1. PICK n \in Tries : n = device.failed + 1
      BY <1>1, <2>2, SecondBounds
    <3>2. QED BY <1>1, <2>2, <3>1 DEF DeviceRows
  <2>3. CASE device' = device
    BY <1>1, <2>3
  <2>4. CASE device' = [device EXCEPT !.failed = 0]
    BY <1>1, <2>4, SecondBounds DEF DeviceRows
  <2>5. CASE device' = [device EXCEPT !.failed = 0, !.locked = TRUE]
    BY <1>1, <2>5, SecondBounds DEF DeviceRows
  <2>6. QED BY <1>3, <2>1, <2>2, <2>3, <2>4, <2>5
<1>5. used' \subseteq UsedCodes
  <2>1. CASE Outcome(code) # "accepted"
    BY <2>1 DEF CheckSecondFactor, SecondRest
  <2>2. CASE Outcome(code) = "accepted"
    <3>1. device.confirmed /\ (ByApp(code) \/ BySpare(code)) /\ used' = used \cup {Uses(code)}
      BY <2>2 DEF Outcome, CheckSecondFactor
    <3>2. device.number \in SetNumbers /\ device.number # 0
      BY <3>1 DEF SecondInv, SecondRest, DeviceRows
    <3>3. device.number \in 1..MaxSets
      BY <3>2, SecondBounds
    <3>4. code[1] # "app" => 1 \in 1..MaxSets
      BY <3>2, TwoFactorAssumption DEF SetNumbers
    <3>5. Uses(code) \in UsedCodes
      BY <3>3, <3>4 DEF Uses, UsedCodes
    <3>6. QED BY <3>1, <3>5 DEF SecondRest
  <2>3. QED BY <2>1, <2>2
<1>6. QED BY <1>1, <1>4, <1>5

\* A session goes where a request of it leads.
LEMMA GoesTyped ==
    ASSUME session \in [Sessions -> SessionRows], NEW s \in Sessions, NEW r \in SessionRows, Goes(s, r)
    PROVE  session' \in [Sessions -> SessionRows]
  BY DEF Goes

LEMMA SessionShapes ==
    ASSUME NEW r \in SessionRows
    PROVE  /\ \A what \in {"nothing", "enrolling", "renewing", "turning_off"} :
                 [r EXCEPT !.doing = what, !.saw = 0] \in SessionRows
           /\ \A n \in SetNumbers : [r EXCEPT !.doing = "enrolling", !.saw = n] \in SessionRows
           /\ [r EXCEPT !.at = "in", !.verified = TRUE] \in SessionRows
           /\ [r EXCEPT !.doing = "nothing", !.verified = FALSE] \in SessionRows
  BY SecondBounds DEF SessionRows

LEMMA DoesTyped ==
    ASSUME session \in [Sessions -> SessionRows], NEW s \in Sessions,
           NEW what \in {"nothing", "enrolling", "renewing", "turning_off"}, Does(s, what)
    PROVE  session' \in [Sessions -> SessionRows]
<1>1. PICK r \in SessionRows : r = [session[s] EXCEPT !.doing = what, !.saw = 0]
  BY SessionShapes
<1>2. QED BY <1>1, GoesTyped DEF Does

LEMMA SecondRestStep == ASSUME SecondInv, SecondRest, [SecondNext]_secondVars PROVE SecondRest'
<1>0. /\ session \in [Sessions -> SessionRows] /\ \A s \in Sessions : session[s] \in SessionRows
      /\ device \in DeviceRows /\ device.confirmed \in BOOLEAN /\ device.number \in SetNumbers
  BY DEF SecondRest, DeviceRows
<1>1. ASSUME NEW s \in Sessions, NEW yes \in BOOLEAN, SignIn(s, yes) PROVE SecondRest'
  <2>1. PICK r \in SessionRows : r = [at |-> IF device.confirmed /\ ~yes THEN "pending" ELSE "in",
                                      verified |-> yes, doing |-> "nothing", saw |-> 0]
    BY SecondBounds DEF SessionRows
  <2>2. session' \in [Sessions -> SessionRows]
    BY <1>0, <1>1, <2>1, GoesTyped DEF SignIn
  <2>3. QED BY <1>1, <2>2 DEF SignIn, Unchecked, SecondRest
<1>2. ASSUME NEW s \in Sessions, NEW yes \in BOOLEAN, TurnOff(s, yes) PROVE SecondRest'
  <2>1. CASE yes
    <3>1. PICK r \in SessionRows : r = [session[s] EXCEPT !.doing = "nothing", !.verified = FALSE]
      BY <1>0, SessionShapes
    <3>2. session' \in [Sessions -> SessionRows]
      BY <1>0, <1>2, <2>1, <3>1, GoesTyped DEF TurnOff
    <3>3. device' \in DeviceRows /\ ~device'.there
      BY <1>0, <1>2, <2>1, DeviceGoneTyped DEF TurnOff
    <3>4. QED BY <1>2, <3>2, <3>3 DEF TurnOff, SecondRest
  <2>2. CASE ~yes
    <3>1. session' \in [Sessions -> SessionRows]
      BY <1>0, <1>2, <2>2, DoesTyped DEF TurnOff
    <3>2. QED BY <1>2, <2>2, <3>1 DEF TurnOff, SecondRest
  <2>3. QED BY <2>1, <2>2
<1>3. ASSUME NEW s \in Sessions, Leave(s) \/ Abandon(s) PROVE SecondRest'
  <2>1. session' \in [Sessions -> SessionRows]
    BY <1>0, <1>3, GoesTyped, DoesTyped, SecondBounds DEF Leave, Abandon
  <2>2. QED BY <1>3, <2>1 DEF Leave, Abandon, Unchecked, SecondRest
<1>4. ASSUME NEW s \in Sessions, Renew(s) PROVE SecondRest'
  <2>1. session' \in [Sessions -> SessionRows]
    BY <1>0, <1>4, DoesTyped DEF Renew
  <2>2. sets' \in SetNumbers
    BY <1>4, SecondBounds DEF Renew, NewSet, SecondRest
  <2>3. QED BY <1>4, <2>1, <2>2 DEF Renew, SecondRest
<1>5. ASSUME NEW s \in Sessions, NEW code \in Codes, Verify(s, code) PROVE SecondRest'
  <2>1. PICK r \in SessionRows : r = [session[s] EXCEPT !.at = "in", !.verified = TRUE]
    BY <1>0, SessionShapes
  <2>2. session' \in [Sessions -> SessionRows]
    <3>1. Goes(s, r) \/ Goes(s, Apart) \/ Goes(s, session[s])
      BY <1>5, <2>1 DEF Verify
    <3>2. QED BY <1>0, <3>1, GoesTyped, SecondBounds
  <2>3. QED BY <1>5, <2>2, CheckTyped DEF Verify, SecondRest
<1>6. ASSUME NEW s \in Sessions, NEW code \in Codes, NEW what, CheckFirst(s, what, code) PROVE SecondRest'
  <2>1. session' \in [Sessions -> SessionRows]
    BY <1>0, <1>6, DoesTyped DEF CheckFirst
  <2>2. QED BY <1>6, <2>1, CheckTyped DEF CheckFirst, SecondRest
<1>7. ASSUME NEW s \in Sessions, BeginEnrolling(s) PROVE SecondRest'
  <2>1. device' \in DeviceRows /\ device'.number # 0
    <3>1. CASE device.there
      BY <1>0, <1>7, <3>1 DEF BeginEnrolling, SecondRest
    <3>2. CASE ~device.there
      <4>1. PICK n \in SetNumbers : n = device.number + 1 /\ n # 0
        BY <1>0, <1>7, <3>2, SecondBounds DEF BeginEnrolling
      <4>2. device' = [number |-> n, there |-> TRUE, confirmed |-> FALSE, last |-> 0, failed |-> 0, locked |-> FALSE]
        BY <1>7, <3>2, <4>1 DEF BeginEnrolling
      <4>3. QED BY <4>1, <4>2, SecondBounds DEF DeviceRows
    <3>3. QED BY <3>1, <3>2
  <2>2. PICK n \in SetNumbers : n = device'.number
    BY <2>1 DEF DeviceRows
  <2>3. PICK r \in SessionRows : r = [session[s] EXCEPT !.doing = "enrolling", !.saw = n]
    BY <1>0, SessionShapes
  <2>4. session' \in [Sessions -> SessionRows]
    BY <1>0, <1>7, <2>2, <2>3, GoesTyped DEF BeginEnrolling
  <2>5. QED BY <1>7, <2>1, <2>4 DEF BeginEnrolling, SecondRest
<1>8. ASSUME NEW s \in Sessions, NEW c \in 1..(MaxTime + 1), Confirm(s, c) PROVE SecondRest'
  <2>1. CASE ~CodeMatches(c, 0)
    <3>1. session' \in [Sessions -> SessionRows]
      BY <1>0, <1>8, <2>1, DoesTyped DEF Confirm
    <3>2. QED BY <1>8, <2>1, <3>1 DEF Confirm, SecondRest
  <2>2. CASE CodeMatches(c, 0)
    <3>1. PICK r \in SessionRows : r = [at |-> "in", verified |-> TRUE, doing |-> "nothing", saw |-> 0]
      BY SecondBounds DEF SessionRows
    <3>2. session' \in [Sessions -> SessionRows]
      BY <1>0, <1>8, <2>2, <3>1, GoesTyped DEF Confirm
    <3>3. sets' \in SetNumbers
      BY <1>8, <2>2, SecondBounds DEF Confirm, NewSet, SecondRest
    <3>4. c \in TimeSteps
      BY SecondBounds
    <3>5. device' = [device EXCEPT !.confirmed = TRUE, !.last = c] /\ device.there
      BY <1>8, <2>2 DEF Confirm
    <3>6. device' \in DeviceRows /\ device'.number = device.number
      BY <1>0, <3>4, <3>5 DEF DeviceRows
    <3>7. device.number \in 1..MaxSets
      BY <1>0, <3>5, SecondBounds DEF SecondRest
    <3>8. <<"app", c>> \in Codes
      BY DEF Codes
    <3>9. used' \subseteq UsedCodes
      BY <1>8, <2>2, <3>7, <3>8 DEF Confirm, SecondRest, UsedCodes
    <3>10. device.number # 0
      BY <3>5 DEF SecondRest
    <3>11. QED BY <1>8, <3>2, <3>3, <3>6, <3>9, <3>10 DEF Confirm, SecondRest
  <2>3. QED BY <2>1, <2>2
<1>9. CASE Reset
  BY <1>0, <1>9, DeviceGoneTyped DEF Reset, SecondRest
<1>10. ASSUME NEW unlock \in BOOLEAN, Tick(unlock) PROVE SecondRest'
  <2>1. device' = device \/ device' = [device EXCEPT !.locked = FALSE]
    BY <1>10 DEF Tick
  <2>2. device' \in DeviceRows /\ device'.number = device.number /\ device'.there = device.there
    BY <1>0, <2>1 DEF DeviceRows
  <2>3. clock' \in 1..MaxTime
    BY <1>10, TwoFactorAssumption DEF Tick, SecondRest
  <2>4. QED BY <1>10, <2>2, <2>3 DEF Tick, SecondRest
<1>11. CASE UNCHANGED secondVars
  BY <1>11 DEF secondVars, SecondRest
<1>12. QED BY <1>1, <1>2, <1>3, <1>4, <1>5, <1>6, <1>7, <1>8, <1>9, <1>10, <1>11 DEF SecondNext

LEMMA SecondTyped ==
    /\ SecondInit => SecondRest
    /\ SecondInv /\ SecondRest /\ [SecondNext]_secondVars => SecondRest'
    /\ SecondInv /\ SecondRest => SecondTypeOK
<1>1. ASSUME SecondInit PROVE SecondRest
  <2>1. device \in DeviceRows /\ ~device.there
    BY <1>1, SecondBounds DEF SecondInit, DeviceRows
  <2>2. QED BY <1>1, <2>1, SecondBounds DEF SecondInit, SecondRest
<1>2. SecondInv /\ SecondRest => SecondTypeOK
  BY DEF SecondInv, SecondRest, SecondTypeOK, DeviceRows, SessionRows, SetNumbers, TimeSteps, Tries, UsedCodes
<1>3. QED BY <1>1, <1>2, SecondRestStep

AccountRest ==
    /\ offered \in BOOLEAN /\ account \in [People -> [mail : Mails, active : BOOLEAN]]
    /\ given \in [mail : Mails, vouched : BOOLEAN]

LEMMA ProviderTyped ==
    /\ ProviderInit => AccountRest
    /\ AccountInv /\ AccountRest /\ [ProviderNext]_providerVars => AccountRest'
    /\ AccountInv /\ AccountRest => ProviderTypeOK
<1>1. ProviderInit => AccountRest
  BY DEF ProviderInit, AccountRest
<1>2. ASSUME AccountRest, [ProviderNext]_providerVars PROVE AccountRest'
  <2>1. ASSUME NEW b \in Browsers, Start(b) \/ Refused(b) \/ NotVerified(b) \/ OpenLinked(b) \/ MatchAccount(b) \/ LinkAndOpen(b)
        PROVE  UNCHANGED <<offered, account, given>>
    BY <2>1 DEF Start, Refused, NotVerified, OpensNothing, OpenLinked, MatchAccount, LinkAndOpen
  <2>2. ASSUME NEW mail \in Mails, NEW yes \in BOOLEAN, ChangeIdentity(mail, yes) \/ \E p \in People : ChangeAccount(p, mail, yes)
        PROVE  AccountRest'
    BY <1>2, <2>2 DEF ChangeIdentity, ChangeAccount, AccountRest
  <2>3. CASE ChangeOffer
    BY <1>2, <2>3 DEF ChangeOffer, AccountRest
  <2>4. QED BY <1>2, <2>1, <2>2, <2>3 DEF ProviderNext, providerVars, AccountRest
<1>3. AccountInv /\ AccountRest => ProviderTypeOK
  BY ProviderSignInAssumption DEF AccountInv, AccountRest, OneAccountEach, ProviderTypeOK
<1>4. QED BY <1>1, <1>2, <1>3

\* The bounds of the team: hashes there have been, and sign-ins; and no request has read a
\* hash that is still to come.
TeamRest ==
    /\ person \in StaffRows /\ hashes \in 0..MaxPasswords /\ person.hash <= hashes
    /\ \A v \in Visitors : visitor[v].row \in StaffRows /\ visitor[v].row.hash <= hashes

LEMMA StaffRowTypes ==
    /\ Added \in StaffRows /\ Added.hash = 0 /\ NoVisit.row = Added
    /\ \A r \in StaffRows : r.hash \in Nat /\ r.hash \in 0..MaxPasswords /\ r.seen \in 0..MaxSignIns
  BY TeamAssumption DEF Added, StaffRows, NoVisit

\* A request that ends, goes on or begins knows the row as it read it before, or as it is.
LEMMA VisitorReads ==
    ASSUME TeamInv, [TeamNext]_teamVars, NEW v \in Visitors
    PROVE  visitor'[v].row \in {visitor[v].row, person, Added}
<1>1. visitor \in [Visitors -> VisitRows] /\ NoVisit.row = Added
  BY StaffRowTypes DEF TeamInv
<1>2. ASSUME NEW u \in Visitors, EndsVisit(u) PROVE visitor'[v].row \in {visitor[v].row, Added}
  BY <1>1, <1>2 DEF EndsVisit
<1>3. ASSUME NEW u \in Visitors, NEW job \in TeamJobs, BeginVisit(u, job) PROVE visitor'[v].row \in {visitor[v].row, person}
  BY <1>1, <1>3 DEF BeginVisit
<1>4. ASSUME NEW u \in Visitors, LookForWork(u) PROVE visitor'[v].row = visitor[v].row
  <2>1. PICK o \in VisitRows : o = visitor[u]
    BY <1>1
  <2>2. [o EXCEPT !.job = "hand_over", !.had = work] \in [job : {"hand_over"}, row : {o.row}, had : {work}]
    BY <2>1 DEF VisitRows
  <2>3. PICK r : r = [o EXCEPT !.job = "hand_over", !.had = work]
    OBVIOUS
  <2>4. r.row = visitor[u].row
    BY <2>1, <2>2, <2>3
  <2>5. visitor' = [visitor EXCEPT ![u] = r]
    BY <1>4, <2>1, <2>3 DEF LookForWork
  <2>6. visitor'[v] = IF v = u THEN r ELSE visitor[v]
    BY <1>1, <2>5
  <2>7. QED BY <2>4, <2>6
<1>5. ASSUME visitor' = visitor PROVE visitor'[v].row = visitor[v].row
  BY <1>5
<1>6. QED
  BY <1>2, <1>3, <1>4, <1>5 DEF TeamNext, teamVars, SavePerson, SaveProfile, SaveAccountForm, ChoosePassword, Invite, LogIn,
     HandOver, Reactivate, AbandonVisit, Assign, ExpireLink

LEMMA PersonTyped ==
    ASSUME TeamInv, TeamRest, [TeamNext]_teamVars
    PROVE  person' \in StaffRows /\ hashes' \in 0..MaxPasswords /\ hashes <= hashes' /\ person'.hash <= hashes'
<1>1. /\ person \in StaffRows /\ hashes \in 0..MaxPasswords /\ hashes \in Nat /\ person.hash <= hashes
      /\ hashes < MaxPasswords => hashes + 1 \in 0..MaxPasswords
  BY TeamAssumption DEF TeamRest
<1>2. ASSUME NEW v \in Visitors, SavePerson(v) \/ SaveProfile(v) PROVE person' = visitor[v].row /\ hashes' = hashes
  BY <1>2 DEF SavePerson, SaveProfile, SaveAccountForm
<1>3. ASSUME NEW v \in Visitors, ChoosePassword(v) \/ Invite(v)
      PROVE  person' \in StaffRows /\ person'.hash = hashes' /\ hashes' \in 0..MaxPasswords /\ hashes <= hashes'
  <2>1. PICK n \in 0..MaxPasswords : n = hashes + 1 /\ hashes' = n
    BY <1>1, <1>3 DEF ChoosePassword, Invite
  <2>2. PICK r \in StaffRows : r \in {visitor[v].row, person}
                               /\ (person' = [r EXCEPT !.hash = n, !.usable = TRUE] \/ person' = [r EXCEPT !.hash = n, !.usable = FALSE])
    BY <1>1, <1>3, <2>1 DEF ChoosePassword, Invite, TeamRest
  <2>3. person' \in StaffRows /\ person'.hash = n
    BY <2>2 DEF StaffRows
  <2>4. QED BY <1>1, <2>1, <2>3
<1>4. ASSUME NEW v \in Visitors, LogIn(v) PROVE person' \in StaffRows /\ person'.hash = person.hash /\ hashes' = hashes
  <2>1. PICK n \in 0..MaxSignIns : n = person.seen + 1
    BY <1>1, <1>4, StaffRowTypes, TeamAssumption DEF LogIn
  <2>2. person' = [person EXCEPT !.seen = n] /\ hashes' = hashes
    BY <1>4, <2>1 DEF LogIn
  <2>3. QED BY <1>1, <2>2 DEF StaffRows
<1>5. ASSUME NEW v \in Visitors, HandOver(v) \/ Reactivate(v)
      PROVE  person' \in StaffRows /\ person'.hash = person.hash /\ hashes' = hashes
  BY <1>1, <1>5 DEF HandOver, Reactivate, StaffRows
<1>6. ASSUME person' = person, hashes' = hashes
      PROVE  person' \in StaffRows /\ hashes' \in 0..MaxPasswords /\ hashes <= hashes' /\ person'.hash <= hashes'
  BY <1>1, <1>6
<1>7. CASE \E v \in Visitors : SavePerson(v) \/ SaveProfile(v)
  BY <1>1, <1>2, <1>7 DEF TeamRest
<1>8. CASE \E v \in Visitors : ChoosePassword(v) \/ Invite(v)
  BY <1>3, <1>8, TeamAssumption
<1>9. CASE \E v \in Visitors : LogIn(v) \/ HandOver(v) \/ Reactivate(v)
  BY <1>1, <1>4, <1>5, <1>9
<1>10. QED
  BY <1>6, <1>7, <1>8, <1>9 DEF TeamNext, teamVars, LookForWork, AbandonVisit, BeginVisit, Assign, ExpireLink

LEMMA TeamTyped ==
    /\ TeamInit => TeamRest
    /\ TeamInv /\ TeamRest /\ [TeamNext]_teamVars => TeamRest'
    /\ TeamInv /\ TeamRest => TeamTypeOK
<1>1. ASSUME TeamInit PROVE TeamRest
  <2>1. person = Added /\ hashes = 0 /\ \A v \in Visitors : visitor[v].row = Added
    BY <1>1, StaffRowTypes DEF TeamInit
  <2>2. QED BY <2>1, StaffRowTypes, TeamAssumption DEF TeamRest
<1>2. ASSUME TeamInv, TeamRest, [TeamNext]_teamVars PROVE TeamRest'
  <2>1. person' \in StaffRows /\ hashes' \in 0..MaxPasswords /\ hashes <= hashes' /\ person'.hash <= hashes'
    BY <1>2, PersonTyped
  <2>2. ASSUME NEW r \in StaffRows, r.hash <= hashes PROVE r.hash <= hashes'
    BY <1>2, <2>1, <2>2, StaffRowTypes, TeamAssumption DEF TeamRest
  <2>3. 0 <= hashes'
    BY <2>1, TeamAssumption
  <2>4. \A v \in Visitors : visitor'[v].row \in StaffRows /\ visitor'[v].row.hash <= hashes'
    BY <1>2, <2>2, <2>3, VisitorReads, StaffRowTypes DEF TeamRest
  <2>5. QED BY <2>1, <2>4 DEF TeamRest
<1>3. ASSUME TeamInv, TeamRest PROVE TeamTypeOK
  <2>1. hashes \in person.hash..MaxPasswords
    BY <1>3, StaffRowTypes, TeamAssumption DEF TeamRest
  <2>2. invitations \subseteq 0..MaxPasswords
    BY <1>3, TeamAssumption DEF TeamInv, TeamRest, Hashes
  <2>3. visitor \in [Visitors -> [job : TeamJobs \cup {"none"}, row : StaffRows, had : BOOLEAN]]
    BY <1>3 DEF TeamInv, TeamRest, VisitRows
  <2>4. QED BY <1>3, <2>1, <2>2, <2>3 DEF TeamInv, TeamRest, TeamTypeOK
<1>4. QED BY <1>1, <1>2, <1>3

\* The bounds of the shipments.
ShipRest ==
    /\ \A s \in Parcels : announced[s] <= MaxNotes /\ putBack[s] <= MaxNotes
    /\ followUps \subseteq Parcels

LEMMA ShipTyped ==
    /\ ShipInit => ShipRest
    /\ ShipInv /\ ShipRest /\ [ShipNext]_shipVars => ShipRest'
    /\ ShipInv /\ ShipRest => ShipTypeOK
<1>1. ShipInit => ShipRest
  BY ShipmentsAssumption DEF ShipInit, ShipRest
<1>2. ASSUME ShipInv, ShipRest, [ShipNext]_shipVars PROVE ShipRest'
  <2>1. ASSUME NEW t \in Trackers, StoreTracking(t) PROVE ShipRest'
    <3>1. followUps' \subseteq Parcels /\ putBack' = putBack
      BY <1>2, <2>1 DEF StoreTracking, ShipRest
    <3>2. ASSUME NEW s \in Parcels PROVE announced'[s] <= MaxNotes
      <4>1. announced[s] \in Nat /\ announced[s] <= MaxNotes /\ MaxNotes \in Nat
        BY <1>2, NotedTypes, ShipmentsAssumption DEF ShipInv, ShipRest
      <4>2. announced'[s] = announced[s] \/ (announced[s] < MaxNotes /\ announced'[s] = announced[s] + 1)
        BY <2>1 DEF StoreTracking
      <4>3. QED BY <4>1, <4>2
    <3>3. QED BY <1>2, <3>1, <3>2 DEF ShipRest
  <2>2. ASSUME NEW y \in Typists, NEW status \in ParcelStatuses, NEW track \in BOOLEAN, SaveShipment(y, status, track)
        PROVE  ShipRest'
    <3>1. PICK s \in Parcels : s = typist[y].of
      BY <1>2, <2>2 DEF SaveShipment, ShipInv
    <3>2. putBack \in [Parcels -> Noted] /\ putBack[s] \in Nat /\ MaxNotes \in Nat
      BY <1>2, NotedTypes, ShipmentsAssumption DEF ShipInv
    <3>3. /\ putBack' = putBack \/ (putBack[s] < MaxNotes /\ putBack' = [putBack EXCEPT ![s] = putBack[s] + 1])
          /\ announced' = announced /\ followUps' = followUps
      BY <2>2, <3>1 DEF SaveShipment
    <3>4. \A q \in Parcels : putBack'[q] <= MaxNotes
      BY <1>2, <3>2, <3>3 DEF ShipRest
    <3>5. QED BY <1>2, <3>3, <3>4 DEF ShipRest
  <2>3. ASSUME UNCHANGED <<announced, putBack, followUps>> PROVE ShipRest'
    BY <1>2, <2>3 DEF ShipRest
  <2>4. QED
    BY <1>2, <2>1, <2>2, <2>3 DEF ShipNext, shipVars, Move, StartTracking, TellStatus, TellProblem, Told, RunFails, OpenShipment
<1>3. ASSUME ShipInv, ShipRest PROVE ShipTypeOK
  <2>1. announced \in [Parcels -> 0..MaxNotes] /\ putBack \in [Parcels -> 0..MaxNotes]
    BY <1>3, ShipmentsAssumption DEF ShipInv, ShipRest, Noted
  <2>2. NoShipmentForm.of \in Parcels
    BY ShipmentsAssumption DEF NoShipmentForm
  <2>3. typist \in [Typists -> [open : BOOLEAN, of : Parcels, status : ParcelStatuses]]
    BY <1>3, <2>2 DEF ShipInv, FormRows
  <2>4. QED BY <1>3, <2>1, <2>3 DEF ShipInv, ShipRest, ShipTypeOK, ShipmentRows
<1>4. QED BY <1>1, <1>2, <1>3

\* A task copies a batch at most.
DriveRest == \A c \in Copiers : Len(copier[c].list) <= BatchSize

LEMMA DriveTyped ==
    /\ DriveInit => DriveRest
    /\ DriveInv /\ DriveRest /\ [DriveNext]_driveVars => DriveRest'
    /\ DriveInv /\ DriveRest => DriveTypeOK
<1>0. BatchSize \in Nat /\ 1 <= BatchSize /\ 0 <= BatchSize /\ NoCopying.list = <<>> /\ Len(NoCopying.list) = 0
  BY DocumentStorageAssumption DEF NoCopying
<1>1. DriveInit => DriveRest
  BY <1>0 DEF DriveInit, DriveRest
<1>2. ASSUME DriveInv, DriveRest, [DriveNext]_driveVars PROVE DriveRest'
  <2>1. copier \in [Copiers -> CopierRow] /\ \A c \in Copiers : copier[c] \in CopierRow /\ copier[c].list \in Seq(Papers)
    BY <1>2, DriveKnown DEF CopierRow
  <2>2. ASSUME NEW c \in Copiers, NEW t, Acts(c, t), Len(t.list) <= BatchSize PROVE DriveRest'
    BY <1>2, <2>1, <2>2 DEF Acts, DriveRest
  <2>3. Len(NoCopying.list) <= BatchSize
    BY <1>0
  <2>4. ASSUME NEW list PROVE Begun(list).list = list
    BY DEF Begun, NoCopying
  <2>5. ASSUME NEW c \in Copiers, NEW step, NEW had, NEW it, Then(c, step, had, it) PROVE DriveRest'
    <3>1. [copier[c] EXCEPT !.step = step, !.had = had, !.item = it].list = copier[c].list
      BY <2>1 DEF CopierRow
    <3>2. Len([copier[c] EXCEPT !.step = step, !.had = had, !.item = it].list) <= BatchSize
      BY <1>2, <3>1 DEF DriveRest
    <3>3. QED BY <2>2, <2>5, <3>2 DEF Then
  <2>6. ASSUME NEW c \in Copiers, Acts(c, NextPaper(c)) PROVE DriveRest'
    <3>1. CASE Len(copier[c].list) < 2
      BY <2>2, <2>3, <2>6, <3>1 DEF NextPaper
    <3>2. CASE ~(Len(copier[c].list) < 2)
      <4>1. PICK q \in Seq(Papers) : q = copier[c].list /\ Len(q) <= BatchSize
        BY <1>2, <2>1 DEF DriveRest
      <4>2. q # <<>> /\ Len(Tail(q)) <= BatchSize
        BY <1>0, <3>2, <4>1, LenProperties, HeadTailProperties
      <4>3. NextPaper(c).list = Tail(q)
        BY <2>1, <3>2, <4>1 DEF NextPaper, CopierRow
      <4>4. QED BY <2>2, <2>6, <4>2, <4>3
    <3>3. QED BY <3>1, <3>2
  <2>7. ASSUME NEW c \in Copiers, CopyPending(c) PROVE DriveRest'
    <3>1. PICK n \in 1..BatchSize : \E list \in [1..n -> Missing] : Acts(c, Begun(list))
      BY <2>7 DEF CopyPending
    <3>2. PICK list \in [1..n -> Missing] : Acts(c, Begun(list))
      BY <3>1
    <3>3. n \in Nat /\ n <= BatchSize
      BY <1>0, <3>1
    <3>4. list \in Seq(Missing) /\ Len(list) = n
      BY <3>2, <3>3
    <3>5. Len(Begun(list).list) <= BatchSize
      BY <2>4, <3>3, <3>4
    <3>6. QED BY <2>2, <3>2, <3>5
  <2>8. ASSUME NEW c \in Copiers, NEW p \in Papers, TakeCopy(c, p) PROVE DriveRest'
    <3>1. Len(<<p>>) <= BatchSize
      BY <1>0
    <3>2. CASE document[p] = "there"
      BY <2>2, <2>4, <2>8, <3>1, <3>2 DEF TakeCopy
    <3>3. CASE document[p] # "there"
      BY <1>2, <2>8, <3>3 DEF TakeCopy, DriveRest
    <3>4. QED BY <3>2, <3>3
  <2>9. ASSUME NEW c \in Copiers, RenameFolder(c) PROVE DriveRest'
    <3>1. Len(<<>>) <= BatchSize
      BY <1>0
    <3>2. copier' = copier \/ Acts(c, Begun(<<>>))
      BY <2>9 DEF RenameFolder
    <3>3. QED BY <1>2, <2>2, <2>4, <3>1, <3>2 DEF DriveRest
  <2>10. ASSUME NEW c \in Copiers, Look(c) \/ SaveFolder(c) PROVE DriveRest'
    <3>1. ASSUME Look(c) PROVE DriveRest'
      BY <2>2, <2>3, <2>5, <2>6, <3>1 DEF Look
    <3>2. ASSUME SaveFolder(c) PROVE DriveRest'
      BY <2>5, <3>2 DEF SaveFolder, RenameIt, MakeIt
    <3>3. QED BY <2>10, <3>1, <3>2
  <2>11. ASSUME NEW c \in Copiers, KeepFolder(c) \/ SaveFile(c) \/ KeepFile(c) \/ NotCopied(c) \/ CopierDies(c) PROVE DriveRest'
    <3>1. ASSUME KeepFolder(c) PROVE DriveRest'
      BY <2>2, <2>3, <2>5, <3>1 DEF KeepFolder
    <3>2. ASSUME SaveFile(c) PROVE DriveRest'
      BY <2>5, <3>2 DEF SaveFile
    <3>3. ASSUME KeepFile(c) PROVE DriveRest'
      BY <2>6, <3>3 DEF KeepFile
    <3>4. ASSUME NotCopied(c) \/ CopierDies(c) PROVE DriveRest'
      BY <2>2, <2>3, <3>4 DEF NotCopied, CopierDies
    <3>5. QED BY <2>11, <3>1, <3>2, <3>3, <3>4
  <2>12. ASSUME copier' = copier PROVE DriveRest'
    BY <1>2, <2>12 DEF DriveRest
  <2>13. QED
    BY <1>2, <2>7, <2>8, <2>9, <2>10, <2>11, <2>12 DEF DriveNext, driveVars, AddPaper, DeletePaper, Retitle, DeleteMatter, TrashCopy
<1>3. ASSUME DriveInv, DriveRest PROVE DriveTypeOK
  <2> DEFINE Lists == UNION {[1..n -> Papers] : n \in 0..BatchSize}
             Rows0 == [step : {"none", "look", "folder", "keep_folder", "file", "keep"}, list : Lists,
                       title : 0..MaxTitles, had : SUBSET RefRows, item : 0..MaxItems]
  <2>1. ASSUME NEW c \in Copiers PROVE copier[c].list \in Lists
    <3>1. PICK q \in Seq(Papers) : q = copier[c].list /\ Len(q) <= BatchSize
      BY <1>3, DriveKnown DEF DriveRest, CopierRow
    <3>2. q \in [1..Len(q) -> Papers] /\ Len(q) \in 0..BatchSize
      BY <1>0, <3>1
    <3>3. QED BY <3>1, <3>2
  <2> HIDE DEF Lists
  <2>2. copier \in [Copiers -> Rows0]
    BY <1>3, <2>1, DriveKnown DEF CopierRow
  <2>3. \A i \in DOMAIN drive : drive[i] \in [of : Copied, name : 0..MaxTitles, trashed : BOOLEAN]
    BY <1>3, DriveKnown DEF DriveItem
  <2>4. QED BY <1>3, <2>2, <2>3 DEF DriveInv, DriveShapes, DriveTypeOK, Lists
<1>4. QED BY <1>1, <1>2, <1>3

LEMMA CalendarsTyped == CalInv => CalendarsTypeOK
<1> SUFFICES ASSUME CalInv PROVE CalendarsTypeOK
  OBVIOUS
<1>1. CalShape /\ Numbered /\ ReportsAreTrue
  BY DEF CalInv, CalBasics
<1>2. \A e \in EventIds : calendar[e] # NoEvent => calendar[e].of \in Owners /\ calendar[e].at \in Slots
  BY <1>1 DEF Numbered, Used, Whole
<1>3. \A p \in PushTasks : /\ pushing[p].step \in {"idle", "begun", "removed", "saving", "saved"}
                           /\ pushing[p].consult \in Consults
  BY <1>1 DEF CalShape, CalPushes
<1>4. \A o \in Owners : \A e \in batch[o] : e.id \in EventIds /\ e.of = o
  BY <1>1 DEF CalShape, CalReports, ReportsAreTrue
<1>5. QED BY <1>1, <1>2, <1>3, <1>4 DEF CalShape, CalendarsTypeOK

\* The parts together: what each keeps, and the bounds.
RecordsInv == ConnInv /\ ConsentInv /\ LogInv /\ SignInv /\ SecondInv /\ AccountInv /\ TeamInv
RestInv == ConsentRest /\ LogRest /\ SignRest /\ SecondRest /\ AccountRest /\ TeamRest /\ ShipRest /\ DriveRest
TypesInv == PartsInv /\ RecordsInv /\ RestInv

LEMMA RecordsMove ==
    ASSUME [Next]_allVars
    PROVE  /\ [ConnNext]_connVars /\ [ConsentNext]_consentVars /\ [CommsNext]_commsVars /\ [SignNext]_signVars
           /\ [SecondNext]_secondVars /\ [ProviderNext]_providerVars /\ [TeamNext]_teamVars
<1>1. CASE UNCHANGED allVars
  BY <1>1 DEF allVars
<1>2. CASE Next
  BY <1>2 DEF Next
<1>3. QED BY <1>1, <1>2

LEMMA TypesStart == Init => TypesInv
<1> SUFFICES ASSUME Init PROVE TypesInv
  OBVIOUS
<1>1. /\ ConnInit /\ ConsentInit /\ CommsInit /\ SignInit /\ SecondInit /\ ProviderInit /\ TeamInit
      /\ ShipInit /\ DriveInit
  BY DEF Init
<1>2. RecordsInv
  BY <1>1, ConnInvInit, ConsentInvInit, LogInvInit, SignInvInit, SecondInvInit, AccountInvInit, TeamInvInit DEF RecordsInv
<1>3. RestInv
  BY <1>1, ConsentTyped, LogTyped, SignTyped, SecondTyped, ProviderTyped, TeamTyped, ShipTyped, DriveTyped DEF RestInv
<1>4. QED BY <1>2, <1>3, PartsStart DEF TypesInv

LEMMA TypesStep == TypesInv /\ [Next]_allVars => TypesInv'
<1> SUFFICES ASSUME TypesInv, [Next]_allVars PROVE TypesInv'
  OBVIOUS
<1>1. PartsInv /\ RecordsInv /\ RestInv
  BY DEF TypesInv
<1>2. /\ [ConnNext]_connVars /\ [ConsentNext]_consentVars /\ [CommsNext]_commsVars /\ [SignNext]_signVars
      /\ [SecondNext]_secondVars /\ [ProviderNext]_providerVars /\ [TeamNext]_teamVars
  BY RecordsMove
<1>3. [ShipNext]_shipVars /\ [DriveNext]_driveVars
  BY PartsMove
<1>4. PartsInv'
  BY <1>1, PartsStep
<1>5. RecordsInv'
  BY <1>1, <1>2, ConnInvStep, ConsentInvStep, LogInvStep, SignInvStep, SecondInvStep, AccountInvStep, TeamInvStep DEF RecordsInv
<1>6. ConsentRest' /\ LogRest' /\ SignRest' /\ SecondRest'
  BY <1>1, <1>2, ConsentTyped, LogTyped, SignTyped, SecondTyped DEF RecordsInv, RestInv
<1>7. AccountRest' /\ TeamRest' /\ ShipRest' /\ DriveRest'
  BY <1>1, <1>2, <1>3, ProviderTyped, TeamTyped, ShipTyped, DriveTyped DEF RecordsInv, RestInv, PartsInv
<1>8. QED BY <1>4, <1>5, <1>6, <1>7 DEF TypesInv, RestInv

LEMMA TypesAreOK == TypesInv => TypeOK
<1> SUFFICES ASSUME TypesInv PROVE TypeOK
  OBVIOUS
<1>1. PartsInv /\ RecordsInv /\ RestInv
  BY DEF TypesInv
<1>2. ConnTypeOK /\ ConsentTypeOK /\ CommsTypeOK /\ SignTypeOK
  BY <1>1, ConsentTyped, LogTyped, SignTyped DEF RecordsInv, RestInv, ConnInv
<1>3. SecondTypeOK /\ ProviderTypeOK /\ TeamTypeOK
  BY <1>1, SecondTyped, ProviderTyped, TeamTyped DEF RecordsInv, RestInv
<1>4. DriveTypeOK /\ ShipTypeOK
  BY <1>1, DriveTyped, ShipTyped DEF PartsInv, RestInv
<1>5. MeetTypeOK /\ HooksTypeOK /\ MessagesTypeOK /\ CalendarsTypeOK
  BY <1>1, CalendarsTyped DEF PartsInv, MeetInv, HookInv, HookTypes, MsgInv
<1>6. QED BY <1>2, <1>3, <1>4, <1>5 DEF TypeOK

\* In every behaviour of the composition each part keeps its type, its numbers within the
\* bounds the instance names.
THEOREM TypesKept == Spec => []TypeOK
<1>1. QED BY TypesStart, TypesStep, TypesAreOK, PTL DEF Spec
=============================================================================
