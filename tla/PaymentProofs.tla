---------------------------- MODULE PaymentProofs ----------------------------
(***************************************************************************)
(* What holds of the payments on an invoice: sums over finite sets, on     *)
(* which the rest builds; the invoice ledger, for any number of requests,  *)
(* payments, plans and installments, and any amounts; and what clients pay *)
(* online, for any number of charges, links and requests.                  *)
(***************************************************************************)
EXTENDS TLAPS, MCInvoiceLedger, OnlinePayments, FiniteSetTheorems, SequenceTheorems,
        WellFoundedInduction

----------------------------------------------------------------------------
(***************************************************************************)
(* Sums over finite sets, as MapThenSumSet of FiniteSetsExt gives them: a  *)
(* sum is a number, it grows by what an element that joins the set gives,  *)
(* and shrinks by what one that leaves it gave.  MapThenSumSet is a        *)
(* recursive function chosen by CHOOSE; that there is one is shown level   *)
(* by level, by the least level at which there would be none, and that an  *)
(* element may be added in any order by the least set at which it may not. *)
(***************************************************************************)
\* The sum that h gives over a set, and the function that adds it up one element at a time.
SumOf(h, S) == MapThenSumSet(LAMBDA p : h[p], S)
Next1(s) == CHOOSE x \in s : TRUE
Adding(g, h, s) == IF s = {} THEN 0 ELSE h[Next1(s)] + g[s \ {Next1(s)}]
AddsUp(g, h, S) == g = [s \in SUBSET S |-> Adding(g, h, s)]

\* A set of numbers has a least one.
LEMMA LeastOf ==
    ASSUME NEW B \in SUBSET Nat, B # {} PROVE \E n \in B : \A m \in B : n <= m
<1> DEFINE Smaller == {p \in Nat \X Nat : p[1] < p[2]}
<1>1. IsWellFoundedOn(Smaller, Nat)
  BY NatLessThanWellFounded DEF OpToRel
<1> HIDE DEF Smaller
<1>2. PICK n \in B : \A m \in B : <<m, n>> \notin Smaller
  BY <1>1, WFMin
<1>3. ASSUME NEW m \in B PROVE n <= m
  <2>1. m \in Nat /\ n \in Nat /\ <<m, n>> \notin Smaller
    BY <1>2
  <2>2. QED BY <2>1 DEF Smaller
<1>4. QED BY <1>3

\* An element is taken out at each step, so that the function is there.
LEMMA AdderExists ==
    ASSUME NEW h, NEW S, IsFiniteSet(S) PROVE \E g : AddsUp(g, h, S)
<1> DEFINE Level(n) == {s \in SUBSET S : Cardinality(s) <= n}
           Reached(n) == \E g : g = [s \in Level(n) |-> Adding(g, h, s)]
           Bad == {n \in Nat : ~Reached(n)}
<1>1. \A s \in SUBSET S : IsFiniteSet(s) /\ Cardinality(s) \in Nat /\ (Cardinality(s) = 0 <=> s = {})
  BY FS_Subset, FS_CardinalityType, FS_EmptySet
<1>2. \A s \in SUBSET S : s # {} =>
         /\ Next1(s) \in s /\ s \ {Next1(s)} \in SUBSET S
         /\ Cardinality(s \ {Next1(s)}) = Cardinality(s) - 1
  <2>1. SUFFICES ASSUME NEW s \in SUBSET S, s # {}
                 PROVE  /\ Next1(s) \in s /\ s \ {Next1(s)} \in SUBSET S
                        /\ Cardinality(s \ {Next1(s)}) = Cardinality(s) - 1
    OBVIOUS
  <2>2. Next1(s) \in s
    BY <2>1 DEF Next1
  <2>3. QED BY <1>1, <2>2, FS_RemoveElement
<1>3. ASSUME NEW n \in Nat, n = 0 \/ Reached(n - 1) PROVE Reached(n)
  <2>1. PICK g : n # 0 => g = [s \in Level(n - 1) |-> Adding(g, h, s)]
    BY <1>3
  <2> DEFINE k == [s \in Level(n) |-> Adding(g, h, s)]
  <2>2. ASSUME NEW s \in Level(n), s # {} PROVE k[s \ {Next1(s)}] = g[s \ {Next1(s)}]
    <3>1. PICK t : t = s \ {Next1(s)}
      OBVIOUS
    <3>2. t \in SUBSET S /\ Cardinality(t) = Cardinality(s) - 1 /\ Cardinality(s) <= n /\ Cardinality(s) \in Nat
          /\ Cardinality(s) # 0
      BY <1>1, <1>2, <2>2, <3>1
    <3>3. n # 0 /\ t \in Level(n - 1) /\ t \in Level(n)
      BY <3>2
    <3>4. g[t] = Adding(g, h, t)
      BY <2>1, <3>3
    <3>5. k[t] = Adding(g, h, t)
      BY <3>3
    <3>6. QED BY <3>1, <3>4, <3>5
  <2>3. \A s \in Level(n) : Adding(g, h, s) = Adding(k, h, s)
    <3>1. SUFFICES ASSUME NEW s \in Level(n) PROVE Adding(g, h, s) = Adding(k, h, s)
      OBVIOUS
    <3> HIDE DEF k
    <3>2. QED BY <2>2 DEF Adding
  <2>4. k = [s \in Level(n) |-> Adding(k, h, s)]
    BY <2>3
  <2> HIDE DEF k
  <2>5. QED BY <2>4
<1>4. Bad = {}
  <2>1. SUFFICES ASSUME Bad # {} PROVE FALSE
    OBVIOUS
  <2>2. Bad \in SUBSET Nat
    OBVIOUS
  <2>3. PICK n \in Bad : \A m \in Bad : n <= m
    <3> HIDE DEF Bad
    <3>1. QED BY <2>1, <2>2, LeastOf
  <2> HIDE DEF Reached
  <2>4. n \in Nat /\ ~Reached(n)
    OBVIOUS
  <2>5. n # 0 => n - 1 \in Nat /\ ~(n <= n - 1)
    BY <2>4
  <2>6. n # 0 => Reached(n - 1)
    BY <2>3, <2>5
  <2>7. QED BY <1>3, <2>4, <2>6
<1>5. Cardinality(S) \in Nat /\ Level(Cardinality(S)) = SUBSET S
  BY <1>1, FS_Subset
<1>6. Reached(Cardinality(S))
  BY <1>4, <1>5
<1>7. QED BY <1>5, <1>6 DEF AddsUp

\* The sum is what any function that adds up over the set says.
LEMMA SumUnfold ==
    ASSUME NEW h, NEW S, IsFiniteSet(S)
    PROVE  \E g : AddsUp(g, h, S) /\ SumOf(h, S) = g[S]
<1> DEFINE g == CHOOSE k : AddsUp(k, h, S)
<1>1. AddsUp(g, h, S)
  BY AdderExists
<1>2. SumOf(h, S) = g[S]
  BY DEF SumOf, MapThenSumSet, MapThenFoldSet, AddsUp, Adding, Next1
<1>3. QED BY <1>1, <1>2

\* Whatever the sets, functions that agree add up the same.
LEMMA AddersAgree ==
    ASSUME NEW f, NEW g, NEW h, NEW i, NEW S, NEW T, AddsUp(f, h, S), AddsUp(g, i, T),
           NEW U \in SUBSET S, U \subseteq T, IsFiniteSet(U), \A x \in U : h[x] = i[x]
    PROVE  f[U] = g[U]
<1> DEFINE Bad == {n \in Nat : \E s \in SUBSET U : Cardinality(s) = n /\ f[s] # g[s]}
<1>1. SUFFICES ASSUME f[U] # g[U] PROVE FALSE
  OBVIOUS
<1>2. \A s \in SUBSET U : IsFiniteSet(s) /\ Cardinality(s) \in Nat
  BY FS_Subset, FS_CardinalityType
<1>3. Bad \in SUBSET Nat /\ Cardinality(U) \in Bad
  BY <1>1, <1>2
<1>4. PICK n \in Bad : \A m \in Bad : n <= m
  <2> HIDE DEF Bad
  <2>1. QED BY <1>3, LeastOf
<1>5. PICK s \in SUBSET U : Cardinality(s) = n /\ f[s] # g[s]
  OBVIOUS
<1>6. f[s] = Adding(f, h, s) /\ g[s] = Adding(g, i, s)
  BY DEF AddsUp
<1>7. s # {}
  BY <1>5, <1>6 DEF Adding
<1>8. Next1(s) \in s
  BY <1>7 DEF Next1
<1>9. PICK t : t = s \ {Next1(s)}
  OBVIOUS
<1>10. t \in SUBSET U /\ Cardinality(t) = n - 1 /\ Cardinality(t) \in Nat
  BY <1>2, <1>5, <1>8, <1>9, FS_RemoveElement
<1>11. f[t] = g[t]
  <2>1. n - 1 \in Nat /\ ~(n <= n - 1)
    BY <1>10
  <2>2. n - 1 \notin Bad
    BY <1>4, <2>1
  <2>3. QED BY <1>10, <2>1, <2>2
<1>12. h[Next1(s)] = i[Next1(s)]
  BY <1>8
<1>13. QED BY <1>5, <1>6, <1>7, <1>9, <1>11, <1>12 DEF Adding

\* Nothing adds up to zero.
LEMMA SumNothing == ASSUME NEW h PROVE SumOf(h, {}) = 0
<1>1. PICK g : AddsUp(g, h, {}) /\ SumOf(h, {}) = g[{}]
  BY SumUnfold, FS_EmptySet
<1>2. QED BY <1>1 DEF AddsUp, Adding

\* What is given on the set alone counts.
LEMMA SumSame ==
    ASSUME NEW h, NEW i, NEW S, IsFiniteSet(S), \A x \in S : h[x] = i[x]
    PROVE  SumOf(h, S) = SumOf(i, S)
<1>1. PICK f : AddsUp(f, h, S) /\ SumOf(h, S) = f[S]
  BY SumUnfold
<1>2. PICK g : AddsUp(g, i, S) /\ SumOf(i, S) = g[S]
  BY SumUnfold
<1>3. f[S] = g[S]
  BY <1>1, <1>2, AddersAgree
<1>4. QED BY <1>1, <1>2, <1>3

\* The element that is added first.
LEMMA SumStep ==
    ASSUME NEW h, NEW S, IsFiniteSet(S), S # {}
    PROVE  /\ Next1(S) \in S
           /\ SumOf(h, S) = h[Next1(S)] + SumOf(h, S \ {Next1(S)})
<1>1. Next1(S) \in S
  BY DEF Next1
<1>2. PICK T : T = S \ {Next1(S)}
  OBVIOUS
<1>3. IsFiniteSet(T) /\ T \in SUBSET S
  BY <1>2, FS_RemoveElement
<1>4. PICK f : AddsUp(f, h, S) /\ SumOf(h, S) = f[S]
  BY SumUnfold
<1>5. PICK g : AddsUp(g, h, T) /\ SumOf(h, T) = g[T]
  BY <1>3, SumUnfold
<1>6. f[T] = g[T]
  BY <1>3, <1>4, <1>5, AddersAgree
<1>7. f[S] = h[Next1(S)] + f[T]
  <2>1. f[S] = Adding(f, h, S)
    BY <1>4 DEF AddsUp
  <2>2. QED BY <1>2, <2>1 DEF Adding
<1>8. QED BY <1>1, <1>2, <1>4, <1>5, <1>6, <1>7

\* A sum of numbers is a number.
LEMMA SumIsInt ==
    ASSUME NEW h, NEW S, IsFiniteSet(S), \A x \in S : h[x] \in Int
    PROVE  SumOf(h, S) \in Int
<1> DEFINE Bad == {n \in Nat : \E s \in SUBSET S : Cardinality(s) = n /\ SumOf(h, s) \notin Int}
<1>1. SUFFICES ASSUME SumOf(h, S) \notin Int PROVE FALSE
  OBVIOUS
<1>2. \A s \in SUBSET S : IsFiniteSet(s) /\ Cardinality(s) \in Nat
  BY FS_Subset, FS_CardinalityType
<1>3. Bad \in SUBSET Nat /\ Cardinality(S) \in Bad
  BY <1>1, <1>2
<1>4. PICK n \in Bad : \A m \in Bad : n <= m
  <2> HIDE DEF Bad
  <2>1. QED BY <1>3, LeastOf
<1>5. PICK s \in SUBSET S : Cardinality(s) = n /\ SumOf(h, s) \notin Int
  OBVIOUS
<1>6. s # {}
  BY <1>5, SumNothing
<1>7. Next1(s) \in s /\ SumOf(h, s) = h[Next1(s)] + SumOf(h, s \ {Next1(s)})
  BY <1>2, <1>6, SumStep
<1>8. PICK t : t = s \ {Next1(s)}
  OBVIOUS
<1>9. t \in SUBSET S /\ Cardinality(t) = n - 1 /\ Cardinality(t) \in Nat
  BY <1>2, <1>5, <1>7, <1>8, FS_RemoveElement
<1>10. SumOf(h, t) \in Int
  <2>1. n - 1 \in Nat /\ ~(n <= n - 1)
    BY <1>9
  <2>2. n - 1 \notin Bad
    BY <1>4, <2>1
  <2>3. QED BY <1>9, <2>1, <2>2
<1>11. h[Next1(s)] \in Int
  BY <1>7
<1>12. QED BY <1>5, <1>7, <1>8, <1>10, <1>11

\* An element more adds what h gives it, whichever is taken first.
LEMMA SumAdd ==
    ASSUME NEW h, NEW S, IsFiniteSet(S), NEW x, x \notin S, \A y \in S \cup {x} : h[y] \in Int
    PROVE  SumOf(h, S \cup {x}) = SumOf(h, S) + h[x]
<1> DEFINE W == S \cup {x}
           Adds(s, y) == SumOf(h, s \cup {y}) = SumOf(h, s) + h[y]
           Bad == {n \in Nat : \E s \in SUBSET W, y \in W : y \notin s /\ Cardinality(s) = n /\ ~Adds(s, y)}
<1>1. SUFFICES ASSUME ~Adds(S, x) PROVE FALSE
  OBVIOUS
<1>2. IsFiniteSet(W) /\ \A s \in SUBSET W : IsFiniteSet(s) /\ Cardinality(s) \in Nat
  BY FS_AddElement, FS_Subset, FS_CardinalityType
<1>3. \A y \in W : h[y] \in Int
  OBVIOUS
<1>4. S \in SUBSET W /\ x \in W
  OBVIOUS
<1> HIDE DEF W, Adds
<1>5. Bad \in SUBSET Nat /\ Cardinality(S) \in Bad
  BY <1>1, <1>2, <1>4
<1>6. PICK n \in Bad : \A m \in Bad : n <= m
  <2> HIDE DEF Bad
  <2>1. QED BY <1>5, LeastOf
<1>7. PICK s \in SUBSET W, y \in W : y \notin s /\ Cardinality(s) = n /\ ~Adds(s, y)
  OBVIOUS
<1>8. PICK u : u = s \cup {y}
  OBVIOUS
<1>9. PICK z : z = Next1(u)
  OBVIOUS
<1>10. u \in SUBSET W /\ u # {} /\ IsFiniteSet(u) /\ IsFiniteSet(s)
  BY <1>2, <1>7, <1>8
<1>11. z \in u /\ SumOf(h, u) = h[z] + SumOf(h, u \ {z})
  BY <1>9, <1>10, SumStep
<1>12. \A v \in SUBSET W : SumOf(h, v) \in Int
  BY <1>2, <1>3, SumIsInt
<1>13. CASE z = y
  <2>1. u \ {z} = s
    BY <1>7, <1>8, <1>13
  <2>2. h[y] \in Int /\ SumOf(h, s) \in Int
    BY <1>3, <1>12
  <2>3. SumOf(h, u) = h[y] + SumOf(h, s)
    BY <1>11, <1>13, <2>1
  <2>4. SumOf(h, u) = SumOf(h, s) + h[y]
    BY <2>2, <2>3
  <2>5. QED BY <1>7, <1>8, <2>4 DEF Adds
<1>14. CASE z # y
  <2>1. PICK t : t = s \ {z}
    OBVIOUS
  <2>2. /\ z \in s /\ z \in W /\ t \in SUBSET W /\ y \notin t /\ z \notin t
        /\ t \cup {z} = s /\ u \ {z} = t \cup {y}
    BY <1>7, <1>8, <1>11, <1>14, <2>1
  <2>3. Cardinality(t) = n - 1 /\ Cardinality(t) \in Nat
    BY <1>2, <1>7, <1>10, <2>1, <2>2, FS_RemoveElement
  <2>4. n - 1 \in Nat /\ n - 1 \notin Bad
    <3>1. n - 1 \in Nat /\ ~(n <= n - 1)
      BY <2>3
    <3>2. QED BY <1>6, <3>1
  <2>5. Adds(t, y) /\ Adds(t, z)
    BY <2>2, <2>3, <2>4
  <2>6. SumOf(h, u \ {z}) = SumOf(h, t) + h[y] /\ SumOf(h, s) = SumOf(h, t) + h[z]
    BY <2>2, <2>5 DEF Adds
  <2>7. h[y] \in Int /\ h[z] \in Int /\ SumOf(h, t) \in Int
    BY <1>3, <1>12, <2>2
  <2>8. SumOf(h, u) = SumOf(h, s) + h[y]
    BY <1>11, <2>6, <2>7
  <2>9. QED BY <1>7, <1>8, <2>8 DEF Adds
<1>15. QED BY <1>13, <1>14

\* An element less takes away what it gave.
LEMMA SumWithout ==
    ASSUME NEW h, NEW S, IsFiniteSet(S), NEW x \in S, \A y \in S : h[y] \in Int
    PROVE  SumOf(h, S \ {x}) = SumOf(h, S) - h[x]
<1>1. PICK T : T = S \ {x}
  OBVIOUS
<1>2. IsFiniteSet(T) /\ x \notin T /\ T \cup {x} = S /\ \A y \in T : h[y] \in Int
  BY <1>1, FS_RemoveElement
<1>3. SumOf(h, S) = SumOf(h, T) + h[x]
  BY <1>2, SumAdd
<1>4. SumOf(h, T) \in Int /\ h[x] \in Int
  BY <1>2, SumIsInt
<1>5. QED BY <1>1, <1>3, <1>4

----------------------------------------------------------------------------
\* The invoice ledger.
\* Which fields a request has filled in by the step it is at.
Shape ==
    \A r \in Requests :
        /\ req[r].step \in {"record", "record.commit", "void", "void.save", "void.commit"}
              => req[r].pay \in Payments
        /\ req[r].step \in {"record.commit", "void.save", "void.commit"}
              => req[r].status \in InvoiceStatus
        /\ req[r].step = "record.commit" => req[r].status # "void"
        /\ req[r].step = "cancel" => req[r].plan \in Plans

TypeInv == TypeOK /\ Shape

LEMMA StatusForType ==
    ASSUME NEW total PROVE StatusFor(total) \in {"issued", "partially_paid", "paid"}
BY DEF StatusFor

LEMMA CurrentPlanType == CurrentPlan \in Plans \cup {None}
BY DEF CurrentPlan, InForce

LEMMA IdleType == Idle \in Request /\ Idle.step = "idle"
BY DEF Idle, Request, Steps

LEMMA TypeInit == Init => TypeInv
<1> SUFFICES ASSUME Init PROVE TypeInv
  OBVIOUS
<1>1. req \in [Requests -> Request] /\ Shape
  BY IdleType DEF Init, Shape
<1>2. plan \in [Plans -> PlanRow]
  BY DEF Init, PlanRow
<1>3. reminder \in [Plans -> [Installments -> {"none", "open", "done"}]]
  BY DEF Init
<1>4. status \in InvoiceStatus /\ paid \in Int /\ stale \subseteq Requests
  BY DEF Init, InvoiceStatus, OpenStatuses
<1>5. payment \in [Payments -> {"none", "live", "void"}]
  BY DEF Init
<1>6. timeBilled \in BOOLEAN /\ overlapped \in BOOLEAN
  BY Zenon DEF Init
<1>7. QED
  BY <1>1, <1>2, <1>3, <1>4, <1>5, <1>6 DEF TypeInv, TypeOK

\* What every write leaves well typed.
LEMMA SyncType ==
    ASSUME TypeOK, NEW q \in Plans \cup {None}, NEW s, NEW total, SyncPlan(q, s, total)
    PROVE  /\ plan' \in [Plans -> PlanRow]
           /\ reminder' \in [Plans -> [Installments -> {"none", "open", "done"}]]
<1>1. CASE q = None
  BY <1>1 DEF SyncPlan, TypeOK, planVars
<1>2. CASE q # None
  <2>1. plan' \in [Plans -> PlanRow]
    <3> DEFINE new == IF s = "paid" THEN "completed" ELSE "active"
    <3>1. plan' = [plan EXCEPT ![q].status = new]
      BY <1>2 DEF SyncPlan
    <3>2. new \in PlanInForce \cup {"unused", "canceled"}
      BY DEF PlanInForce
    <3> HIDE DEF new
    <3>3. QED BY <3>1, <3>2 DEF TypeOK, PlanRow
  <2>2. reminder' \in [Plans -> [Installments -> {"none", "open", "done"}]]
    BY <1>2 DEF SyncPlan, TypeOK
  <2>3. QED BY <2>1, <2>2
<1>3. QED BY <1>1, <1>2

LEMMA EndType ==
    ASSUME TypeOK, NEW q \in Plans \cup {None}, EndPlan(q)
    PROVE  /\ plan' \in [Plans -> PlanRow]
           /\ reminder' \in [Plans -> [Installments -> {"none", "open", "done"}]]
<1>1. CASE q = None
  BY <1>1 DEF EndPlan, TypeOK, planVars
<1>2. CASE q # None
  <2>1. plan' \in [Plans -> PlanRow]
    BY <1>2 DEF EndPlan, TypeOK, PlanRow
  <2>2. reminder' \in [Plans -> [Installments -> {"none", "open", "done"}]]
    BY <1>2 DEF EndPlan, TypeOK
  <2>3. QED BY <2>1, <2>2
<1>3. QED BY <1>1, <1>2

\* A request that moves to a well-formed record leaves all of them well formed.
Formed(local) ==
    /\ local \in Request
    /\ local.step \in {"record", "record.commit", "void", "void.save", "void.commit"}
          => local.pay \in Payments
    /\ local.step \in {"record.commit", "void.save", "void.commit"}
          => local.status \in InvoiceStatus
    /\ local.step = "record.commit" => local.status # "void"
    /\ local.step = "cancel" => local.plan \in Plans

LEMMA GotoFormed ==
    ASSUME TypeInv, NEW r \in Requests, NEW local, Formed(local), Goto(r, local)
    PROVE  req' \in [Requests -> Request] /\ Shape'
<1>1. req' \in [Requests -> Request]
  BY DEF Goto, Formed, TypeInv, TypeOK
<1>2. \A s \in Requests : req'[s] = IF s = r THEN local ELSE req[s]
  BY DEF Goto, TypeInv, TypeOK
<1>3. QED
  BY <1>1, <1>2 DEF Shape, Formed, TypeInv

LEMMA IdleFormed == Formed(Idle)
BY IdleType DEF Formed

\* The history variables stay well typed in whatever way a request goes on.
LEMMA HistoryType ==
    ASSUME TypeOK, NEW r \in Requests,
           Reads(r) \/ Commits(r) \/ UNCHANGED <<stale, overlapped>>
    PROVE  stale' \subseteq Requests /\ overlapped' \in BOOLEAN
BY DEF TypeOK, Reads, Commits, InFlight

LEMMA GivesUpType ==
    ASSUME TypeInv, NEW r \in Requests, GivesUp(r) PROVE TypeInv'
<1>1. req' \in [Requests -> Request] /\ Shape'
  BY IdleFormed, GotoFormed DEF GivesUp
<1>2. stale' \subseteq Requests /\ overlapped' \in BOOLEAN
  BY HistoryType DEF GivesUp, TypeInv
<1>3. QED
  BY <1>1, <1>2 DEF GivesUp, TypeInv, TypeOK, dbVars

\* A step that only moves a request, and writes nothing to the database.
LEMMA LocalType ==
    ASSUME TypeInv, NEW r \in Requests, NEW local, Formed(local), Goto(r, local),
           Reads(r) \/ UNCHANGED <<stale, overlapped>>, UNCHANGED dbVars
    PROVE  TypeInv'
<1>1. req' \in [Requests -> Request] /\ Shape'
  BY GotoFormed
<1>2. stale' \subseteq Requests /\ overlapped' \in BOOLEAN
  BY HistoryType DEF TypeInv
<1>3. QED
  BY <1>1, <1>2 DEF TypeInv, TypeOK, dbVars

LEMMA CommitsType ==
    ASSUME TypeInv, NEW r \in Requests, Commits(r)
    PROVE  /\ req' \in [Requests -> Request] /\ Shape'
           /\ stale' \subseteq Requests /\ overlapped' \in BOOLEAN
<1>1. req' \in [Requests -> Request] /\ Shape'
  BY IdleFormed, GotoFormed DEF Commits
<1>2. QED
  BY <1>1, HistoryType DEF TypeInv

LEMMA TypeStep == TypeInv /\ [Next]_vars => TypeInv'
<1> SUFFICES ASSUME TypeInv, [Next]_vars PROVE TypeInv'
  OBVIOUS
<1>1. ASSUME NEW r \in Requests, NEW p \in Payments, BeginRecord(r, p) PROVE TypeInv'
  <2>1. Formed([Idle EXCEPT !.step = "record", !.pay = p])
    BY DEF Formed, Idle, Request, Steps
  <2>2. QED BY <1>1, <2>1, LocalType DEF BeginRecord
<1>2. ASSUME NEW r \in Requests, RefusePayment(r) PROVE TypeInv'
  BY <1>2, GivesUpType DEF RefusePayment
<1>3. ASSUME NEW r \in Requests, AcceptPayment(r) PROVE TypeInv'
  <2> DEFINE local == [step |-> "record.commit", pay |-> req[r].pay,
                       status |-> StatusFor(paid + Amount[req[r].pay]), plan |-> CurrentPlan]
  <2>1. req[r].pay \in Payments
    BY <1>3 DEF AcceptPayment, TypeInv, Shape
  <2>2. Formed(local)
    BY <2>1, StatusForType, CurrentPlanType
       DEF Formed, Request, Steps, InvoiceStatus, OpenStatuses
  <2>3. QED BY <1>3, <2>2, LocalType DEF AcceptPayment
<1>4. ASSUME NEW r \in Requests, CommitPayment(r) PROVE TypeInv'
  <2>1. req[r].pay \in Payments /\ req[r].status \in InvoiceStatus
        /\ req[r].plan \in Plans \cup {None}
    BY <1>4 DEF CommitPayment, TypeInv, TypeOK, Shape, Request
  <2>2. paid' \in Int
    BY <1>4, <2>1, LedgerAssumption DEF CommitPayment, TypeInv, TypeOK
  <2>3. /\ plan' \in [Plans -> PlanRow]
        /\ reminder' \in [Plans -> [Installments -> {"none", "open", "done"}]]
    BY <1>4, <2>1, SyncType DEF CommitPayment, TypeInv
  <2>4. payment' \in [Payments -> {"none", "live", "void"}] /\ status' \in InvoiceStatus
        /\ timeBilled' \in BOOLEAN
    BY <1>4, <2>1 DEF CommitPayment, TypeInv, TypeOK
  <2>5. QED BY <1>4, <2>2, <2>3, <2>4, CommitsType DEF CommitPayment, TypeInv, TypeOK
<1>5. ASSUME NEW r \in Requests, NEW p \in Payments, BeginVoidPayment(r, p) PROVE TypeInv'
  <2>1. Formed([Idle EXCEPT !.step = "void", !.pay = p])
    BY DEF Formed, Idle, Request, Steps
  <2>2. QED BY <1>5, <2>1, LocalType DEF BeginVoidPayment
<1>6. ASSUME NEW r \in Requests, ReadForVoid(r) PROVE TypeInv'
  <2> DEFINE p == req[r].pay
             local == [step |-> "void.save", pay |-> p, plan |-> None,
                status |-> IF status = "void" THEN "void" ELSE StatusFor(PaidWithout(p))]
  <2>1. p \in Payments
    BY <1>6 DEF ReadForVoid, TypeInv, Shape
  <2>2. Formed(local)
    BY <2>1, StatusForType DEF Formed, Request, Steps, InvoiceStatus, OpenStatuses
  <2>3. QED BY <1>6, <2>2, LocalType DEF ReadForVoid
<1>7. ASSUME NEW r \in Requests, SaveVoidStatus(r) PROVE TypeInv'
  <2>1. Formed([req[r] EXCEPT !.step = "void.commit", !.plan = CurrentPlan])
    BY <1>7, CurrentPlanType
       DEF SaveVoidStatus, TypeInv, TypeOK, Shape, Formed, Request, Steps
  <2>2. QED BY <1>7, <2>1, LocalType DEF SaveVoidStatus
<1>8. ASSUME NEW r \in Requests, CommitVoidPayment(r) PROVE TypeInv'
  <2>1. req[r].pay \in Payments /\ req[r].status \in InvoiceStatus
        /\ req[r].plan \in Plans \cup {None}
    BY <1>8 DEF CommitVoidPayment, TypeInv, TypeOK, Shape, Request
  <2>2. paid' \in Int
    BY <1>8, <2>1, LedgerAssumption DEF CommitVoidPayment, PaidWithout, TypeInv, TypeOK
  <2>3. /\ plan' \in [Plans -> PlanRow]
        /\ reminder' \in [Plans -> [Installments -> {"none", "open", "done"}]]
    BY <1>8, <2>1, SyncType DEF CommitVoidPayment, TypeInv
  <2>4. payment' \in [Payments -> {"none", "live", "void"}] /\ status' \in InvoiceStatus
        /\ timeBilled' \in BOOLEAN
    BY <1>8, <2>1 DEF CommitVoidPayment, TypeInv, TypeOK
  <2>5. QED BY <1>8, <2>2, <2>3, <2>4, CommitsType DEF CommitVoidPayment, TypeInv, TypeOK
<1>9. ASSUME NEW r \in Requests, BeginVoidInvoice(r) PROVE TypeInv'
  <2>1. Formed([Idle EXCEPT !.step = "voidinvoice"])
    BY DEF Formed, Idle, Request, Steps
  <2>2. QED BY <1>9, <2>1, LocalType DEF BeginVoidInvoice
<1>10. ASSUME NEW r \in Requests, RefuseVoidInvoice(r) PROVE TypeInv'
  BY <1>10, GivesUpType DEF RefuseVoidInvoice
<1>11. ASSUME NEW r \in Requests, CheckNoPayments(r) PROVE TypeInv'
  <2>1. Formed([req[r] EXCEPT !.step = "voidinvoice.commit", !.plan = CurrentPlan])
    BY <1>11, CurrentPlanType
       DEF CheckNoPayments, TypeInv, TypeOK, Shape, Formed, Request, Steps
  <2>2. QED BY <1>11, <2>1, LocalType DEF CheckNoPayments
<1>12. ASSUME NEW r \in Requests, CommitVoidInvoice(r) PROVE TypeInv'
  <2>1. req[r].plan \in Plans \cup {None}
    BY DEF TypeInv, TypeOK, Request
  <2>2. /\ plan' \in [Plans -> PlanRow]
        /\ reminder' \in [Plans -> [Installments -> {"none", "open", "done"}]]
    BY <1>12, <2>1, EndType DEF CommitVoidInvoice, TypeInv
  <2>3. QED
    BY <1>12, <2>2, CommitsType
       DEF CommitVoidInvoice, TypeInv, TypeOK, InvoiceStatus, paymentVars
<1>13. ASSUME NEW r \in Requests, NEW q \in Plans, CreatePlan(r, q) PROVE TypeInv'
  <2>1. Balance \in Int
    BY LedgerAssumption DEF Balance, TypeInv, TypeOK
  <2>2. plan' \in [Plans -> PlanRow]
    BY <1>13, <2>1 DEF CreatePlan, TypeInv, TypeOK, PlanRow, PlanInForce
  <2>3. reminder' \in [Plans -> [Installments -> {"none", "open", "done"}]]
    BY <1>13 DEF CreatePlan, TypeInv, TypeOK
  <2>4. QED
    BY <1>13, <2>2, <2>3, CommitsType
       DEF CreatePlan, TypeInv, TypeOK, invoiceVars, paymentVars
<1>14. ASSUME NEW r \in Requests, BeginCancelPlan(r) PROVE TypeInv'
  <2>1. CurrentPlan \in Plans
    BY <1>14 DEF BeginCancelPlan, CurrentPlan, InForce
  <2>2. Formed([Idle EXCEPT !.step = "cancel", !.plan = CurrentPlan])
    BY <2>1 DEF Formed, Idle, Request, Steps
  <2>3. QED BY <1>14, <2>2, LocalType DEF BeginCancelPlan
<1>15. ASSUME NEW r \in Requests, CommitCancelPlan(r) PROVE TypeInv'
  <2>1. req[r].plan \in Plans \cup {None}
    BY DEF TypeInv, TypeOK, Request
  <2>2. /\ plan' \in [Plans -> PlanRow]
        /\ reminder' \in [Plans -> [Installments -> {"none", "open", "done"}]]
    BY <1>15, <2>1, EndType DEF CommitCancelPlan, TypeInv
  <2>3. QED
    BY <1>15, <2>2, CommitsType
       DEF CommitCancelPlan, TypeInv, TypeOK, invoiceVars, paymentVars
<1>16. ASSUME NEW r \in Requests, Fail(r) \/ Rollback(r) PROVE TypeInv'
  BY <1>16, GivesUpType DEF Fail, Rollback
<1>17. CASE UNCHANGED vars
  BY <1>17 DEF TypeInv, TypeOK, Shape, vars
<1>18. QED
  BY <1>1, <1>2, <1>3, <1>4, <1>5, <1>6, <1>7, <1>8, <1>9, <1>10, <1>11, <1>12, <1>13,
     <1>14, <1>15, <1>16, <1>17 DEF Next, Begin, Proceed

\* Every variable keeps its type, whatever requests interleave.
THEOREM TypeCorrect == Spec => []TypeOK
<1>1. Spec => []TypeInv
  BY TypeInit, TypeStep, PTL DEF Spec
<1>2. QED BY <1>1, PTL DEF TypeInv

----------------------------------------------------------------------------
(***************************************************************************)
(* The invoice row's lock.  One request holds it; what record_payment read *)
(* under it still holds when it commits, because every other writer of the *)
(* status or of a live payment needs the same row.                         *)
(***************************************************************************)
LockInv ==
    /\ \A r, s \in Requests : HoldsInvoice(r) /\ HoldsInvoice(s) => r = s
    /\ \A r \in Requests : req[r].step = "record.commit" => Acceptable(req[r].pay)
    /\ \A r \in Requests :
            req[r].step \in {"void", "void.save", "void.commit"} => payment[req[r].pay] # "none"
    /\ NeverOverpaid

Inv == TypeInv /\ LockInv

LEMMA Moved ==
    ASSUME TypeInv, NEW r \in Requests, NEW local, Goto(r, local)
    PROVE  \A s \in Requests : req'[s] = IF s = r THEN local ELSE req[s]
BY DEF Goto, TypeInv, TypeOK

LEMMA LockInit == Init => LockInv
BY LedgerAssumption, IdleType DEF Init, LockInv, HoldsInvoice, NeverOverpaid

\* A step that writes nothing to the database keeps LockInv if the record the
\* request moves to claims no more than it may.
LEMMA LockLocal ==
    ASSUME Inv, NEW r \in Requests, NEW local, Goto(r, local), UNCHANGED dbVars,
           \/ local.step \notin {"record.commit", "void.commit"}
           \/ local.step = "void.commit" /\ local.status = "void"
           \/ InvoiceFree,
           local.step = "record.commit" => Acceptable(local.pay),
           local.step \in {"void", "void.save", "void.commit"} => payment[local.pay] # "none"
    PROVE  LockInv'
<1>1. \A s \in Requests : req'[s] = IF s = r THEN local ELSE req[s]
  BY Moved DEF Inv
<1>2. \A s \in Requests : s # r => (HoldsInvoice(s)' <=> HoldsInvoice(s))
  BY <1>1 DEF HoldsInvoice
<1>3. HoldsInvoice(r)' => \A s \in Requests : ~HoldsInvoice(s)
  BY <1>1 DEF HoldsInvoice, InvoiceFree
<1>4. \A s, t \in Requests : HoldsInvoice(s)' /\ HoldsInvoice(t)' => s = t
  BY <1>2, <1>3 DEF Inv, LockInv
<1>5. NeverOverpaid' /\ \A p : Acceptable(p)' <=> Acceptable(p)
  BY DEF Inv, LockInv, NeverOverpaid, Acceptable, Balance, dbVars
<1>6. \A s \in Requests : (req[s].step = "record.commit" => Acceptable(req[s].pay))'
  <2> TAKE s \in Requests
  <2> DEFINE p == req[s].pay
  <2>1. CASE s = r
    BY <1>1, <2>1, <1>5 DEF Acceptable, Balance, dbVars
  <2>2. CASE s # r
    BY <1>1, <2>2, <1>5 DEF Inv, LockInv, Acceptable, Balance, dbVars
  <2>3. QED BY <2>1, <2>2
<1>7. \A s \in Requests :
        req'[s].step \in {"void", "void.save", "void.commit"} => payment'[req'[s].pay] # "none"
  BY <1>1 DEF Inv, LockInv, dbVars
<1>8. QED BY <1>4, <1>5, <1>6, <1>7 DEF LockInv

LEMMA LockGivesUp ==
    ASSUME Inv, NEW r \in Requests, GivesUp(r) PROVE LockInv'
BY LockLocal, IdleType DEF GivesUp

\* A commit releases whatever the request held; the other requests keep what
\* they hold and what they read under it.
LEMMA LockCommits ==
    ASSUME Inv, NEW r \in Requests, Commits(r), paid' <= Subtotal,
           \A p \in Payments : payment[p] # "none" => payment'[p] # "none",
           \A s \in Requests, p \in Payments :
               s # r /\ req[s].step = "record.commit" /\ p = req[s].pay => Acceptable(p)'
    PROVE  LockInv'
<1>1. \A s \in Requests : req'[s] = IF s = r THEN Idle ELSE req[s]
  BY Moved DEF Inv, Commits
<1>2. \A s \in Requests : HoldsInvoice(s)' => s # r /\ HoldsInvoice(s)
  BY <1>1, IdleType DEF HoldsInvoice
<1>3. \A s, t \in Requests : HoldsInvoice(s)' /\ HoldsInvoice(t)' => s = t
  BY <1>2 DEF Inv, LockInv
<1>4. \A s \in Requests : (req[s].step = "record.commit" => Acceptable(req[s].pay))'
  <2> SUFFICES ASSUME NEW s \in Requests, req'[s].step = "record.commit"
               PROVE  Acceptable(req[s].pay)'
    OBVIOUS
  <2>1. s # r /\ req'[s] = req[s] /\ req[s].pay \in Payments
    BY <1>1, IdleType DEF Inv, TypeInv, Shape
  <2>2. \A p \in Payments : p = req[s].pay => Acceptable(p)'
    BY <2>1
  <2>3. QED BY <2>1, <2>2 DEF Acceptable, Balance
<1>5. \A s \in Requests :
        req'[s].step \in {"void", "void.save", "void.commit"} => payment'[req'[s].pay] # "none"
  BY <1>1, IdleType DEF Inv, LockInv, TypeInv, Shape
<1>6. QED BY <1>3, <1>4, <1>5 DEF LockInv, NeverOverpaid

LEMMA LockStep == Inv /\ [Next]_vars => LockInv'
<1> SUFFICES ASSUME Inv, [Next]_vars PROVE LockInv'
  OBVIOUS
<1>0. \A r \in Requests : req[r] \in Request
  BY DEF Inv, TypeInv, TypeOK
<1>1. ASSUME NEW r \in Requests, NEW p \in Payments, BeginRecord(r, p) PROVE LockInv'
  BY <1>1, LockLocal DEF BeginRecord, Idle
<1>2. ASSUME NEW r \in Requests, RefusePayment(r) PROVE LockInv'
  BY <1>2, LockGivesUp DEF RefusePayment
<1>3. ASSUME NEW r \in Requests, AcceptPayment(r) PROVE LockInv'
  BY <1>3, LockLocal DEF AcceptPayment
<1>4. ASSUME NEW r \in Requests, CommitPayment(r) PROVE LockInv'
  <2> DEFINE p == req[r].pay
  <2>1. p \in Payments /\ Acceptable(p)
    BY <1>4 DEF CommitPayment, Inv, LockInv, TypeInv, Shape
  <2>2. paid' = paid + Amount[p] /\ paid \in Int /\ Amount[p] \in Nat /\ Subtotal \in Nat
    BY <1>4, <2>1, LedgerAssumption DEF CommitPayment, Inv, TypeInv, TypeOK
  <2>3. paid' <= Subtotal
    BY <2>1, <2>2 DEF Acceptable, Balance, OpenStatuses
  <2>4. \A o \in Payments : payment[o] # "none" => payment'[o] # "none"
    BY <1>4, <2>1 DEF CommitPayment, Inv, TypeInv, TypeOK
  <2>5. \A s \in Requests : s # r => req[s].step # "record.commit"
    BY <1>4 DEF CommitPayment, Inv, LockInv, HoldsInvoice
  <2>6. QED BY <1>4, <2>3, <2>4, <2>5, LockCommits DEF CommitPayment
<1>5. ASSUME NEW r \in Requests, NEW p \in Payments, BeginVoidPayment(r, p) PROVE LockInv'
  BY <1>5, LockLocal DEF BeginVoidPayment, Idle
<1>6. ASSUME NEW r \in Requests, ReadForVoid(r) PROVE LockInv'
  <2>1. payment[req[r].pay] # "none"
    BY <1>6 DEF ReadForVoid, Inv, LockInv
  <2>2. QED BY <1>6, <2>1, LockLocal DEF ReadForVoid
<1>7. ASSUME NEW r \in Requests, SaveVoidStatus(r) PROVE LockInv'
  <2> DEFINE local == [req[r] EXCEPT !.step = "void.commit", !.plan = CurrentPlan]
  <2>1. local.step = "void.commit" /\ local.status = req[r].status /\ local.pay = req[r].pay
    BY <1>0 DEF Request
  <2>2. payment[req[r].pay] # "none"
    BY <1>7 DEF SaveVoidStatus, Inv, LockInv
  <2>3. Goto(r, local) /\ UNCHANGED dbVars /\ (req[r].status # "void" => InvoiceFree)
    BY <1>7 DEF SaveVoidStatus
  <2> HIDE DEF local
  <2>4. QED BY <2>1, <2>2, <2>3, LockLocal
<1>8. ASSUME NEW r \in Requests, CommitVoidPayment(r) PROVE LockInv'
  <2> DEFINE p == req[r].pay
  <2>1. p \in Payments
    BY <1>8 DEF CommitVoidPayment, Inv, TypeInv, Shape
  <2>2. paid \in Int /\ Amount[p] \in Nat /\ Subtotal \in Nat /\ paid <= Subtotal
    BY <2>1, LedgerAssumption DEF Inv, LockInv, NeverOverpaid, TypeInv, TypeOK
  <2>3. paid' <= paid /\ paid' <= Subtotal /\ paid' \in Int
    BY <1>8, <2>2 DEF CommitVoidPayment, PaidWithout
  <2>4. \A o \in Payments : payment'[o] = IF o = p THEN "void" ELSE payment[o]
    BY <1>8, <2>1 DEF CommitVoidPayment, Inv, TypeInv, TypeOK
  <2>5. ASSUME NEW s \in Requests, NEW o \in Payments,
               s # r, req[s].step = "record.commit", o = req[s].pay
        PROVE  Acceptable(o)'
    <3>1. o \in Payments /\ Acceptable(o)
      BY <2>5 DEF Inv, LockInv, TypeInv, Shape
    <3>2. status' = status
      BY <1>8, <2>5 DEF CommitVoidPayment, Inv, LockInv, HoldsInvoice
    <3>3. o # p
      BY <1>8, <3>1 DEF CommitVoidPayment, Inv, LockInv, Acceptable
    <3>4. Amount[o] \in Nat
      BY <3>1, LedgerAssumption
    <3>5. QED
      BY <2>2, <2>3, <2>4, <3>1, <3>2, <3>3, <3>4 DEF Acceptable, Balance, OpenStatuses
  <2>6. QED BY <1>8, <2>3, <2>4, <2>5, LockCommits DEF CommitVoidPayment
<1>9. ASSUME NEW r \in Requests, BeginVoidInvoice(r) PROVE LockInv'
  BY <1>9, LockLocal DEF BeginVoidInvoice, Idle
<1>10. ASSUME NEW r \in Requests, RefuseVoidInvoice(r) PROVE LockInv'
  BY <1>10, LockGivesUp DEF RefuseVoidInvoice
<1>11. ASSUME NEW r \in Requests, CheckNoPayments(r) PROVE LockInv'
  <2> DEFINE local == [req[r] EXCEPT !.step = "voidinvoice.commit", !.plan = CurrentPlan]
  <2>1. local.step = "voidinvoice.commit"
    BY <1>0 DEF Request
  <2>2. Goto(r, local) /\ UNCHANGED dbVars
    BY <1>11 DEF CheckNoPayments
  <2> HIDE DEF local
  <2>3. QED BY <2>1, <2>2, LockLocal
<1>12. ASSUME NEW r \in Requests, CommitVoidInvoice(r) PROVE LockInv'
  <2>1. \A s \in Requests : req[s].step # "record.commit"
    BY <1>12 DEF CommitVoidInvoice, InvoiceFree, HoldsInvoice
  <2>2. payment' = payment /\ paid' <= Subtotal
    BY <1>12 DEF CommitVoidInvoice, paymentVars, Inv, LockInv, NeverOverpaid
  <2>3. QED BY <1>12, <2>1, <2>2, LockCommits DEF CommitVoidInvoice
<1>13. ASSUME NEW r \in Requests, NEW q \in Plans, CreatePlan(r, q) PROVE LockInv'
  <2>1. \A s \in Requests : req[s].step # "record.commit"
    BY <1>13 DEF CreatePlan, InvoiceFree, HoldsInvoice
  <2>2. payment' = payment /\ paid' <= Subtotal
    BY <1>13 DEF CreatePlan, paymentVars, Inv, LockInv, NeverOverpaid
  <2>3. QED BY <1>13, <2>1, <2>2, LockCommits DEF CreatePlan
<1>14. ASSUME NEW r \in Requests, BeginCancelPlan(r) PROVE LockInv'
  BY <1>14, LockLocal DEF BeginCancelPlan, Idle
<1>15. ASSUME NEW r \in Requests, CommitCancelPlan(r) PROVE LockInv'
  <2>1. UNCHANGED <<status, payment, paid>> /\ paid' <= Subtotal
    BY <1>15 DEF CommitCancelPlan, paymentVars, invoiceVars, Inv, LockInv, NeverOverpaid
  <2>2. \A o : Acceptable(o)' <=> Acceptable(o)
    BY <2>1 DEF Acceptable, Balance
  <2>3. QED BY <1>15, <2>1, <2>2, LockCommits DEF CommitCancelPlan, Inv, LockInv
<1>16. ASSUME NEW r \in Requests, Fail(r) \/ Rollback(r) PROVE LockInv'
  BY <1>16, LockGivesUp DEF Fail, Rollback
<1>17. CASE UNCHANGED vars
  <2>1. NeverOverpaid' /\ \A p : Acceptable(p)' <=> Acceptable(p)
    BY <1>17 DEF vars, Acceptable, Balance, NeverOverpaid, Inv, LockInv
  <2>2. \A r \in Requests : HoldsInvoice(r)' <=> HoldsInvoice(r)
    BY <1>17 DEF vars, HoldsInvoice
  <2>3. QED BY <1>17, <2>1, <2>2 DEF Inv, LockInv, vars
<1>18. QED
  BY <1>1, <1>2, <1>3, <1>4, <1>5, <1>6, <1>7, <1>8, <1>9, <1>10, <1>11, <1>12, <1>13,
     <1>14, <1>15, <1>16, <1>17 DEF Next, Begin, Proceed

LEMMA InvAlways == Spec => []Inv
<1>1. Init => Inv
  BY TypeInit, LockInit DEF Inv
<1>2. Inv /\ [Next]_vars => Inv'
  BY TypeStep, LockStep DEF Inv
<1>3. QED BY <1>1, <1>2, PTL DEF Spec

\* The invoice is never paid beyond its subtotal, whatever runs at once: the
\* balance that record_payment checks is still there when it commits.
THEOREM Overpayment == Spec => []NeverOverpaid
BY InvAlways, PTL DEF Inv, LockInv

\* Payment rows change in two commits only.
LEMMA PaymentWrites ==
    ASSUME Inv, Next
    PROVE  \/ payment' = payment
           \/ \E r \in Requests : CommitPayment(r) \/ CommitVoidPayment(r)
BY DEF Next, Begin, Proceed, BeginRecord, RefusePayment, AcceptPayment, BeginVoidPayment,
       ReadForVoid, SaveVoidStatus, BeginVoidInvoice, RefuseVoidInvoice, CheckNoPayments,
       CommitVoidInvoice, CreatePlan, BeginCancelPlan, CommitCancelPlan, Fail, Rollback,
       GivesUp, dbVars, paymentVars

LEMMA OpenInvoiceStep == Inv /\ [Next]_vars => [PaymentOnOpenInvoice]_vars
<1> SUFFICES ASSUME Inv, Next PROVE PaymentOnOpenInvoice
  OBVIOUS
<1> SUFFICES ASSUME NEW p \in Payments, payment[p] # "live", payment'[p] = "live"
             PROVE  status \in OpenStatuses /\ payment[p] = "none" /\ paid' <= Subtotal
  BY DEF PaymentOnOpenInvoice
<1>1. ASSUME NEW r \in Requests, CommitVoidPayment(r) PROVE FALSE
  <2>1. req[r].pay \in Payments
    BY <1>1 DEF CommitVoidPayment, Inv, TypeInv, Shape
  <2>2. QED BY <1>1, <2>1 DEF CommitVoidPayment, Inv, TypeInv, TypeOK
<1>2. PICK r \in Requests : CommitPayment(r)
  BY <1>1, PaymentWrites
<1>3. p = req[r].pay
  BY <1>2 DEF CommitPayment, Inv, TypeInv, TypeOK, Shape
<1>4. status \in OpenStatuses /\ payment[p] = "none"
  BY <1>2, <1>3 DEF CommitPayment, Inv, LockInv, Acceptable
<1>5. paid' <= Subtotal
  BY LockStep DEF LockInv, NeverOverpaid
<1>6. QED BY <1>4, <1>5

\* A payment is recorded only on an invoice that is open at that moment and
\* owes the amount, and a payment that is there, void or not, is not recorded
\* again, whatever runs at once.
THEOREM OpenInvoiceOnly == Spec => PaymentsOnlyOnOpenInvoice
BY InvAlways, OpenInvoiceStep, PTL DEF Spec, PaymentsOnlyOnOpenInvoice

----------------------------------------------------------------------------
(***************************************************************************)
(* The ledger settles as long as no request commits on outdated reads.     *)
(* Fresh says what a request whose reads are not outdated knows.           *)
(***************************************************************************)
OnePlan == \A q, o \in InForce : q = o

Fresh(r) ==
    LET local == req[r] IN
    /\ local.step = "record.commit" => local.status = StatusFor(paid + Amount[local.pay])
    /\ local.step \in {"void.save", "void.commit"} =>
          local.status = IF status = "void" THEN "void" ELSE StatusFor(PaidWithout(local.pay))
    /\ local.step = "void.commit" /\ status = "void" => local.plan = None
    /\ local.step = "voidinvoice.commit" =>
          (\A p \in Payments : payment[p] # "live") /\ local.plan = CurrentPlan

FreshInv ==
    ~overlapped => Settled /\ \A r \in Requests \ stale : Fresh(r)

SerialInv == OnePlan /\ FreshInv

LEMMA SerialInit == Init => SerialInv
<1> SUFFICES ASSUME Init PROVE SerialInv
  OBVIOUS
<1>1. InForce = {}
  BY DEF Init, InForce, PlanInForce
<1>2. Settled
  BY LedgerAssumption DEF Init, Settled, StatusFor
<1>3. \A r \in Requests : Fresh(r)
  BY IdleType DEF Init, Fresh
<1>4. QED BY <1>1, <1>2, <1>3 DEF SerialInv, OnePlan, FreshInv

LEMMA CurrentPlanFacts ==
    ASSUME OnePlan
    PROVE  /\ InForce = {} <=> CurrentPlan = None
           /\ InForce # {} => InForce = {CurrentPlan}
BY LedgerAssumption DEF OnePlan, CurrentPlan, InForce

\* The plans in force after a synchronisation and after a cancellation.
LEMMA SyncInForce ==
    ASSUME TypeOK, OnePlan, NEW q \in Plans \cup {None}, NEW s, NEW total,
           SyncPlan(q, s, total), SyncAllowed(q)
    PROVE  InForce' = IF q = None THEN InForce ELSE {q}
<1>1. CASE q = None
  BY <1>1 DEF SyncPlan, planVars, InForce
<1>2. CASE q # None
  <2>1. \A o \in Plans : o # q => plan'[o] = plan[o]
    BY <1>2 DEF SyncPlan, TypeOK
  <2>2. plan'[q].status \in PlanInForce
    BY <1>2 DEF SyncPlan, TypeOK, PlanRow, PlanInForce
  <2>3. \A o \in Plans : o # q => plan[o].status \notin PlanInForce
    BY <1>2 DEF SyncAllowed, InForce
  <2>4. QED BY <1>2, <2>1, <2>2, <2>3 DEF InForce
<1>3. QED BY <1>1, <1>2

LEMMA EndInForce ==
    ASSUME TypeOK, NEW q \in Plans \cup {None}, EndPlan(q)
    PROVE  InForce' = InForce \ {q}
<1>1. CASE q = None
  BY <1>1, LedgerAssumption DEF EndPlan, planVars, InForce
<1>2. CASE q # None
  <2>1. \A o \in Plans : o # q => plan'[o] = plan[o]
    BY <1>2 DEF EndPlan, TypeOK
  <2>2. plan'[q].status \notin PlanInForce
    BY <1>2 DEF EndPlan, TypeOK, PlanRow, PlanInForce
  <2>3. QED BY <1>2, <2>1, <2>2 DEF InForce
<1>3. QED BY <1>1, <1>2

\* A step that writes nothing to the database keeps SerialInv if the request
\* that moves, when it is not stale afterwards, knows what Fresh says.
LEMMA SerialLocal ==
    ASSUME TypeInv, SerialInv, NEW r \in Requests, NEW local, Goto(r, local),
           Reads(r) \/ UNCHANGED <<stale, overlapped>>, UNCHANGED dbVars,
           ~overlapped /\ r \notin stale' => Fresh(r)'
    PROVE  SerialInv'
<1>1. \A s \in Requests : req'[s] = IF s = r THEN local ELSE req[s]
  BY Moved
<1>2. InForce' = InForce /\ CurrentPlan' = CurrentPlan
  BY DEF InForce, CurrentPlan, dbVars
<1>3. overlapped' = overlapped /\ \A s \in Requests : s # r => (s \in stale' <=> s \in stale)
  BY DEF Reads
<1>4. Settled' <=> Settled
  BY <1>2 DEF Settled, dbVars
<1>5. ASSUME NEW s \in Requests, s # r, Fresh(s) PROVE Fresh(s)'
  BY <1>1, <1>2, <1>5 DEF Fresh, dbVars, PaidWithout
<1>6. QED BY <1>2, <1>3, <1>4, <1>5 DEF SerialInv, OnePlan, FreshInv

LEMMA SerialGivesUp ==
    ASSUME TypeInv, SerialInv, NEW r \in Requests, GivesUp(r) PROVE SerialInv'
<1>1. req'[r] = Idle
  BY Moved DEF GivesUp
<1>2. Fresh(r)'
  BY <1>1, IdleType DEF Fresh
<1>3. QED BY <1>2, SerialLocal DEF GivesUp

\* A commit outdates every other request in flight, so only what it leaves in
\* the database counts.
LEMMA SerialCommits ==
    ASSUME TypeInv, SerialInv, NEW r \in Requests, Commits(r), OnePlan',
           ~overlapped /\ r \notin stale => Settled'
    PROVE  SerialInv'
<1>1. \A s \in Requests : req'[s] = IF s = r THEN Idle ELSE req[s]
  BY Moved DEF Commits
<1>2. \A s \in Requests \ stale' : req'[s] = Idle
  BY <1>1 DEF Commits, InFlight
<1>3. \A s \in Requests \ stale' : Fresh(s)'
  BY <1>2, IdleType DEF Fresh
<1>4. ~overlapped' => ~overlapped /\ r \notin stale
  BY DEF Commits
<1>5. QED BY <1>3, <1>4 DEF SerialInv, FreshInv

LEMMA SerialStep == Inv /\ SerialInv /\ [Next]_vars => SerialInv'
<1> SUFFICES ASSUME Inv, SerialInv, [Next]_vars PROVE SerialInv'
  OBVIOUS
<1> USE DEF Inv
<1>0. \A r \in Requests : req[r] \in Request
  BY DEF TypeInv, TypeOK
<1>1. ASSUME NEW r \in Requests, NEW p \in Payments, BeginRecord(r, p) PROVE SerialInv'
  <2> DEFINE local == [Idle EXCEPT !.step = "record", !.pay = p]
  <2>1. local.step = "record"
    BY DEF Idle
  <2>2. Goto(r, local) /\ Reads(r) /\ UNCHANGED dbVars
    BY <1>1 DEF BeginRecord
  <2> HIDE DEF local
  <2>3. req'[r] = local
    BY <2>2, Moved
  <2>4. Fresh(r)'
    BY <2>1, <2>3 DEF Fresh
  <2>5. QED BY <2>2, <2>4, SerialLocal
<1>2. ASSUME NEW r \in Requests, RefusePayment(r) PROVE SerialInv'
  BY <1>2, SerialGivesUp DEF RefusePayment
<1>3. ASSUME NEW r \in Requests, AcceptPayment(r) PROVE SerialInv'
  <2>1. /\ req'[r].step = "record.commit"
        /\ req'[r].pay = req[r].pay
        /\ req'[r].status = StatusFor(paid + Amount[req[r].pay])
    BY <1>3, Moved DEF AcceptPayment
  <2>2. Fresh(r)'
    BY <1>3, <2>1 DEF Fresh, AcceptPayment, dbVars, StatusFor
  <2>3. QED BY <1>3, <2>2, SerialLocal DEF AcceptPayment
<1>4. ASSUME NEW r \in Requests, CommitPayment(r) PROVE SerialInv'
  <2>1. req[r].pay \in Payments /\ req[r].plan \in Plans \cup {None}
        /\ Acceptable(req[r].pay) /\ req[r].status # "void"
    BY <1>0, <1>4 DEF CommitPayment, LockInv, TypeInv, Shape, Request
  <2>2. InForce' = IF req[r].plan = None THEN InForce ELSE {req[r].plan}
    BY <1>4, <2>1, SyncInForce DEF CommitPayment, SerialInv, TypeInv
  <2>3. OnePlan'
    BY <2>2 DEF OnePlan, SerialInv
  <2>4. ASSUME ~overlapped, r \notin stale PROVE Settled'
    <3>1. Fresh(r) /\ Settled
      BY <2>4 DEF SerialInv, FreshInv
    <3>2. status' = StatusFor(paid + Amount[req[r].pay]) /\ paid' = paid + Amount[req[r].pay]
      BY <1>4, <3>1 DEF CommitPayment, Fresh
    <3>3. status' # "void" /\ timeBilled'
      BY <1>4, <2>1, <3>1 DEF CommitPayment, Settled, Acceptable, OpenStatuses
    <3>4. QED BY <3>2, <3>3 DEF Settled, StatusFor
  <2>5. QED BY <1>4, <2>3, <2>4, SerialCommits DEF CommitPayment
<1>5. ASSUME NEW r \in Requests, NEW p \in Payments, BeginVoidPayment(r, p) PROVE SerialInv'
  <2> DEFINE local == [Idle EXCEPT !.step = "void", !.pay = p]
  <2>1. local.step = "void"
    BY DEF Idle
  <2>2. Goto(r, local) /\ Reads(r) /\ UNCHANGED dbVars
    BY <1>5 DEF BeginVoidPayment
  <2> HIDE DEF local
  <2>3. req'[r] = local
    BY <2>2, Moved
  <2>4. Fresh(r)'
    BY <2>1, <2>3 DEF Fresh
  <2>5. QED BY <2>2, <2>4, SerialLocal
<1>6. ASSUME NEW r \in Requests, ReadForVoid(r) PROVE SerialInv'
  <2> DEFINE p == req[r].pay
  <2>1. /\ req'[r].step = "void.save"
        /\ req'[r].pay = p
        /\ req'[r].status = IF status = "void" THEN "void" ELSE StatusFor(PaidWithout(p))
    BY <1>6, Moved DEF ReadForVoid
  <2>2. Fresh(r)'
    BY <1>6, <2>1 DEF Fresh, ReadForVoid, dbVars, StatusFor, PaidWithout
  <2>3. QED BY <1>6, <2>2, SerialLocal DEF ReadForVoid
<1>7. ASSUME NEW r \in Requests, SaveVoidStatus(r) PROVE SerialInv'
  <2> DEFINE local == [req[r] EXCEPT !.step = "void.commit", !.plan = CurrentPlan]
  <2>1. /\ local.step = "void.commit" /\ local.plan = CurrentPlan
        /\ local.status = req[r].status /\ local.pay = req[r].pay
    BY <1>0 DEF Request
  <2>2. Goto(r, local) /\ UNCHANGED dbVars /\ UNCHANGED <<stale, overlapped>>
        /\ req[r].step = "void.save"
    BY <1>7 DEF SaveVoidStatus
  <2>3. req'[r] = local
    BY <2>2, Moved
  <2> HIDE DEF local
  <2>4. ASSUME ~overlapped, r \notin stale' PROVE Fresh(r)'
    <3>1. Fresh(r) /\ Settled
      BY <2>2, <2>4 DEF SerialInv, FreshInv
    <3>2. local.status = IF status = "void" THEN "void" ELSE StatusFor(PaidWithout(local.pay))
      BY <2>1, <2>2, <3>1 DEF Fresh
    <3>3. status = "void" => local.plan = None
      BY <2>1, <3>1, CurrentPlanFacts DEF Settled, SerialInv
    <3>4. QED
      BY <2>1, <2>2, <2>3, <3>2, <3>3 DEF Fresh, dbVars, PaidWithout, StatusFor
  <2>5. QED BY <2>2, <2>4, SerialLocal
<1>8. ASSUME NEW r \in Requests, CommitVoidPayment(r) PROVE SerialInv'
  <2> DEFINE p == req[r].pay
  <2>1. p \in Payments /\ req[r].plan \in Plans \cup {None}
    BY <1>0, <1>8 DEF CommitVoidPayment, TypeInv, Shape, Request
  <2>2. InForce' = IF req[r].plan = None THEN InForce ELSE {req[r].plan}
    BY <1>8, <2>1, SyncInForce DEF CommitVoidPayment, SerialInv, TypeInv
  <2>3. OnePlan'
    BY <2>2 DEF OnePlan, SerialInv
  <2>4. ASSUME ~overlapped, r \notin stale PROVE Settled'
    <3>1. Fresh(r) /\ Settled
      BY <2>4 DEF SerialInv, FreshInv
    <3>2. req[r].status = IF status = "void" THEN "void" ELSE StatusFor(PaidWithout(p))
      BY <1>8, <3>1 DEF CommitVoidPayment, Fresh
    <3>3. timeBilled' = timeBilled /\ paid' = PaidWithout(p)
      BY <1>8 DEF CommitVoidPayment
    <3>4. CASE status = "void"
      <4>1. status' = "void" /\ InForce' = {} /\ ~timeBilled'
        BY <1>8, <2>2, <3>1, <3>2, <3>3, <3>4 DEF CommitVoidPayment, Fresh, Settled
      <4>2. \A o \in Payments : payment'[o] # "live"
        BY <1>8, <2>1, <3>1, <3>4 DEF CommitVoidPayment, Settled, TypeInv, TypeOK
      <4>3. QED BY <4>1, <4>2 DEF Settled
    <3>5. CASE status # "void"
      <4>1. req[r].status # "void"
        BY <3>2, <3>5, StatusForType
      <4>2. status' = StatusFor(PaidWithout(p)) /\ timeBilled'
        BY <1>8, <3>1, <3>2, <3>3, <3>5, <4>1 DEF CommitVoidPayment, Settled
      <4>3. QED BY <3>2, <3>3, <3>5, <4>1, <4>2 DEF Settled, StatusFor
    <3>6. QED BY <3>4, <3>5
  <2>5. QED BY <1>8, <2>3, <2>4, SerialCommits DEF CommitVoidPayment
<1>9. ASSUME NEW r \in Requests, BeginVoidInvoice(r) PROVE SerialInv'
  <2>1. req'[r].step = "voidinvoice"
    BY <1>9, Moved DEF BeginVoidInvoice, Idle
  <2>2. Fresh(r)'
    BY <2>1 DEF Fresh
  <2>3. QED BY <1>9, <2>2, SerialLocal DEF BeginVoidInvoice
<1>10. ASSUME NEW r \in Requests, RefuseVoidInvoice(r) PROVE SerialInv'
  BY <1>10, SerialGivesUp DEF RefuseVoidInvoice
<1>11. ASSUME NEW r \in Requests, CheckNoPayments(r) PROVE SerialInv'
  <2> DEFINE local == [req[r] EXCEPT !.step = "voidinvoice.commit", !.plan = CurrentPlan]
  <2>1. local.step = "voidinvoice.commit" /\ local.plan = CurrentPlan
    BY <1>0 DEF Request
  <2>2. Goto(r, local) /\ UNCHANGED dbVars /\ UNCHANGED <<stale, overlapped>>
        /\ \A p \in Payments : payment[p] # "live"
    BY <1>11 DEF CheckNoPayments
  <2>3. req'[r] = local
    BY <2>2, Moved
  <2>4. CurrentPlan' = CurrentPlan
    BY <2>2 DEF CurrentPlan, InForce, dbVars
  <2> HIDE DEF local
  <2>5. Fresh(r)'
    BY <2>1, <2>2, <2>3, <2>4 DEF Fresh, dbVars
  <2>6. QED BY <2>2, <2>5, SerialLocal
<1>12. ASSUME NEW r \in Requests, CommitVoidInvoice(r) PROVE SerialInv'
  <2>1. req[r].plan \in Plans \cup {None}
    BY <1>0 DEF Request
  <2>2. InForce' = InForce \ {req[r].plan}
    BY <1>12, <2>1, EndInForce DEF CommitVoidInvoice, TypeInv
  <2>3. OnePlan'
    BY <2>2 DEF OnePlan, SerialInv
  <2>4. ASSUME ~overlapped, r \notin stale PROVE Settled'
    <3>1. Fresh(r)
      BY <2>4 DEF SerialInv, FreshInv
    <3>2. (\A p \in Payments : payment[p] # "live") /\ req[r].plan = CurrentPlan
      BY <1>12, <3>1 DEF CommitVoidInvoice, Fresh
    <3>3. InForce' = {}
      BY <2>2, <3>2, CurrentPlanFacts DEF SerialInv
    <3>4. QED BY <1>12, <3>2, <3>3 DEF CommitVoidInvoice, Settled, paymentVars
  <2>5. QED BY <1>12, <2>3, <2>4, SerialCommits DEF CommitVoidInvoice
<1>13. ASSUME NEW r \in Requests, NEW q \in Plans, CreatePlan(r, q) PROVE SerialInv'
  <2>1. InForce' = {q}
    BY <1>13 DEF CreatePlan, InForce, TypeInv, TypeOK, PlanInForce
  <2>2. OnePlan'
    BY <2>1 DEF OnePlan
  <2>3. ASSUME ~overlapped, r \notin stale PROVE Settled'
    <3>1. Settled /\ status # "void"
      BY <1>13, <2>3 DEF CreatePlan, OpenStatuses, SerialInv, FreshInv
    <3>2. UNCHANGED <<status, timeBilled, payment, paid>>
      BY <1>13 DEF CreatePlan, invoiceVars, paymentVars
    <3>3. QED BY <3>1, <3>2 DEF Settled, StatusFor
  <2>4. QED BY <1>13, <2>2, <2>3, SerialCommits DEF CreatePlan
<1>14. ASSUME NEW r \in Requests, BeginCancelPlan(r) PROVE SerialInv'
  <2> DEFINE local == [Idle EXCEPT !.step = "cancel", !.plan = CurrentPlan]
  <2>1. local.step = "cancel"
    BY DEF Idle
  <2>2. Goto(r, local) /\ Reads(r) /\ UNCHANGED dbVars
    BY <1>14 DEF BeginCancelPlan
  <2> HIDE DEF local
  <2>3. req'[r] = local
    BY <2>2, Moved
  <2>4. Fresh(r)'
    BY <2>1, <2>3 DEF Fresh
  <2>5. QED BY <2>2, <2>4, SerialLocal
<1>15. ASSUME NEW r \in Requests, CommitCancelPlan(r) PROVE SerialInv'
  <2>1. req[r].plan \in Plans \cup {None}
    BY <1>0 DEF Request
  <2>2. InForce' = InForce \ {req[r].plan}
    BY <1>15, <2>1, EndInForce DEF CommitCancelPlan, TypeInv
  <2>3. OnePlan'
    BY <2>2 DEF OnePlan, SerialInv
  <2>4. ASSUME ~overlapped, r \notin stale PROVE Settled'
    <3>1. Settled
      BY <2>4 DEF SerialInv, FreshInv
    <3>2. UNCHANGED <<status, timeBilled, payment, paid>>
      BY <1>15 DEF CommitCancelPlan, invoiceVars, paymentVars
    <3>3. QED BY <2>2, <3>1, <3>2 DEF Settled, StatusFor
  <2>5. QED BY <1>15, <2>3, <2>4, SerialCommits DEF CommitCancelPlan
<1>16. ASSUME NEW r \in Requests, Fail(r) \/ Rollback(r) PROVE SerialInv'
  BY <1>16, SerialGivesUp DEF Fail, Rollback
<1>17. CASE UNCHANGED vars
  <2>1. InForce' = InForce /\ CurrentPlan' = CurrentPlan
    BY <1>17 DEF vars, InForce, CurrentPlan
  <2>2. Settled' <=> Settled
    BY <1>17, <2>1 DEF vars, Settled
  <2>3. \A r \in Requests : Fresh(r) => Fresh(r)'
    BY <1>17, <2>1 DEF vars, Fresh, PaidWithout
  <2>4. QED BY <1>17, <2>1, <2>2, <2>3 DEF SerialInv, OnePlan, FreshInv, vars
<1>18. QED
  BY <1>1, <1>2, <1>3, <1>4, <1>5, <1>6, <1>7, <1>8, <1>9, <1>10, <1>11, <1>12, <1>13,
     <1>14, <1>15, <1>16, <1>17 DEF Next, Begin, Proceed

\* As long as no request has committed on outdated reads, the invoice's status is
\* the one its live payments call for, and a void invoice has no live payment,
\* no plan in force and none of its time.  Only void_payment, void_invoice and
\* cancel_plan can break it, since they alone read without the row's lock.
THEOREM LedgerSettles == Spec => []SerialLedger
<1>1. Init => SerialInv
  BY SerialInit
<1>2. Inv /\ SerialInv /\ [Next]_vars => SerialInv'
  BY SerialStep
<1>3. SerialInv => SerialLedger
  BY DEF SerialInv, FreshInv, SerialLedger
<1>4. QED BY <1>1, <1>2, <1>3, InvAlways, PTL DEF Spec

----------------------------------------------------------------------------
(***************************************************************************)
(* The plans follow the payments as long as no request commits on outdated *)
(* reads.  A request that is to synchronise a plan, and whose reads are    *)
(* not outdated, has fetched the plan that is in force.                    *)
(***************************************************************************)
HasPlanInForce(r) ==
    req[r].step \in {"record.commit", "void.commit"} => req[r].plan = CurrentPlan

PlanInv ==
    ~overlapped => PlanFollowsPayments /\ \A r \in Requests \ stale : HasPlanInForce(r)

LEMMA PlanInit == Init => PlanInv
BY IdleType DEF Init, PlanInv, PlanFollowsPayments, HasPlanInForce, InForce, PlanInForce

\* A plan that has been synchronised, and one that has been canceled, follow the
\* payments; the other plans are not in force, or as they were.
LEMMA SyncFollows ==
    ASSUME TypeOK, OnePlan, PlanFollowsPayments, NEW q \in Plans \cup {None}, NEW s,
           NEW total, SyncPlan(q, s, total), SyncAllowed(q), q = CurrentPlan,
           q # None => status' = s /\ paid' = total
    PROVE  PlanFollowsPayments'
<1>1. CASE q = None
  <2>1. InForce' = {} /\ UNCHANGED planVars
    BY <1>1, SyncInForce, CurrentPlanFacts DEF SyncPlan
  <2>2. QED BY <2>1 DEF PlanFollowsPayments, planVars
<1>2. CASE q # None
  <2>1. InForce' = {q}
    BY <1>2, SyncInForce
  <2>2. ASSUME NEW o \in Plans, o # q
        PROVE  plan'[o] = plan[o] /\ reminder'[o] = reminder[o]
    BY <1>2, <2>2 DEF SyncPlan, TypeOK
  <2>3. /\ plan'[q].status = IF s = "paid" THEN "completed" ELSE "active"
        /\ plan'[q].balance = plan[q].balance
    BY <1>2 DEF SyncPlan, TypeOK, PlanRow
  <2>4. ASSUME NEW k \in Installments, reminder'[q][k] = "done"
        PROVE  InstallmentPaid(plan[q].balance, k, total)
    BY <1>2, <2>4 DEF SyncPlan, TypeOK
  <2>5. ASSUME NEW o \in Plans, plan'[o].status = "canceled"
        PROVE  \A k \in Installments : reminder'[o][k] # "open"
    <3>1. o # q
      BY <2>3, <2>5
    <3>2. QED BY <2>2, <2>5, <3>1 DEF PlanFollowsPayments
  <2>6. plan'[q].status = "completed" <=> status' = "paid"
    BY <1>2, <2>3
  <2>7. \A k \in Installments :
            reminder'[q][k] = "done" => InstallmentPaid(plan'[q].balance, k, paid')
    BY <1>2, <2>3, <2>4
  <2>8. QED BY <2>1, <2>5, <2>6, <2>7 DEF PlanFollowsPayments, InstallmentPaid, InstallmentAmount, Each, Installments
<1>3. QED BY <1>1, <1>2

LEMMA EndFollows ==
    ASSUME TypeOK, PlanFollowsPayments, NEW q \in Plans \cup {None}, EndPlan(q),
           InForce \subseteq {q} \/ UNCHANGED <<status, paid>>
    PROVE  PlanFollowsPayments'
<1>1. InForce' = InForce \ {q}
  BY EndInForce
<1>2. ASSUME NEW o \in Plans, o # q
      PROVE  plan'[o] = plan[o] /\ reminder'[o] = reminder[o]
  BY <1>2 DEF EndPlan, TypeOK, planVars
<1>3. ASSUME NEW o \in Plans, plan'[o].status = "canceled"
      PROVE  \A k \in Installments : reminder'[o][k] # "open"
  <2>1. CASE o = q
    BY <2>1, LedgerAssumption DEF EndPlan, TypeOK
  <2>2. CASE o # q
    BY <1>2, <1>3, <2>2 DEF PlanFollowsPayments
  <2>3. QED BY <2>1, <2>2
<1>4. CASE InForce \subseteq {q}
  BY <1>1, <1>3, <1>4 DEF PlanFollowsPayments
<1>5. CASE UNCHANGED <<status, paid>>
  BY <1>1, <1>2, <1>3, <1>5
  DEF PlanFollowsPayments, InstallmentPaid, InstallmentAmount, Each
<1>6. QED BY <1>4, <1>5

\* A step that writes nothing to the database.
LEMMA PlanLocal ==
    ASSUME TypeInv, PlanInv, NEW r \in Requests, NEW local, Goto(r, local),
           Reads(r) \/ UNCHANGED <<stale, overlapped>>, UNCHANGED dbVars,
           HasPlanInForce(r)'
    PROVE  PlanInv'
<1>1. \A s \in Requests : req'[s] = IF s = r THEN local ELSE req[s]
  BY Moved
<1>2. InForce' = InForce /\ CurrentPlan' = CurrentPlan
  BY DEF InForce, CurrentPlan, dbVars
<1>3. overlapped' = overlapped /\ \A s \in Requests : s # r => (s \in stale' <=> s \in stale)
  BY DEF Reads
<1>4. PlanFollowsPayments' <=> PlanFollowsPayments
  BY <1>2 DEF PlanFollowsPayments, InstallmentPaid, InstallmentAmount, Each, dbVars
<1>5. QED BY <1>1, <1>2, <1>3, <1>4 DEF PlanInv, HasPlanInForce

LEMMA PlanGivesUp ==
    ASSUME TypeInv, PlanInv, NEW r \in Requests, GivesUp(r) PROVE PlanInv'
<1>1. req'[r] = Idle
  BY Moved DEF GivesUp
<1>2. HasPlanInForce(r)'
  BY <1>1, IdleType DEF HasPlanInForce
<1>3. QED BY <1>2, PlanLocal DEF GivesUp

LEMMA PlanCommits ==
    ASSUME TypeInv, PlanInv, NEW r \in Requests, Commits(r),
           ~overlapped /\ r \notin stale => PlanFollowsPayments'
    PROVE  PlanInv'
<1>1. \A s \in Requests : req'[s] = IF s = r THEN Idle ELSE req[s]
  BY Moved DEF Commits
<1>2. \A s \in Requests \ stale' : req'[s] = Idle
  BY <1>1 DEF Commits, InFlight
<1>3. \A s \in Requests \ stale' : HasPlanInForce(s)'
  BY <1>2, IdleType DEF HasPlanInForce
<1>4. ~overlapped' => ~overlapped /\ r \notin stale
  BY DEF Commits
<1>5. QED BY <1>3, <1>4 DEF PlanInv

LEMMA PlanStep == Inv /\ SerialInv /\ PlanInv /\ [Next]_vars => PlanInv'
<1> SUFFICES ASSUME Inv, SerialInv, PlanInv, [Next]_vars PROVE PlanInv'
  OBVIOUS
<1> USE DEF Inv
<1>0. \A r \in Requests : req[r] \in Request
  BY DEF TypeInv, TypeOK
<1>1. ASSUME NEW r \in Requests, NEW local, Goto(r, local), Reads(r), UNCHANGED dbVars,
             local.step \notin {"record.commit", "void.commit"}
      PROVE  PlanInv'
  <2>1. req'[r] = local
    BY <1>1, Moved
  <2>2. HasPlanInForce(r)'
    BY <1>1, <2>1 DEF HasPlanInForce
  <2>3. QED BY <1>1, <2>2, PlanLocal
<1>2. ASSUME NEW r \in Requests, NEW p \in Payments,
             BeginRecord(r, p) \/ BeginVoidPayment(r, p)
      PROVE  PlanInv'
  <2> DEFINE record == [Idle EXCEPT !.step = "record", !.pay = p]
             void == [Idle EXCEPT !.step = "void", !.pay = p]
  <2>1. record.step = "record" /\ void.step = "void"
    BY DEF Idle
  <2>2. (Goto(r, record) \/ Goto(r, void)) /\ Reads(r) /\ UNCHANGED dbVars
    BY <1>2 DEF BeginRecord, BeginVoidPayment
  <2> HIDE DEF record, void
  <2>3. QED BY <1>1, <2>1, <2>2
<1>3. ASSUME NEW r \in Requests, BeginVoidInvoice(r) \/ BeginCancelPlan(r)
      PROVE  PlanInv'
  <2> DEFINE void == [Idle EXCEPT !.step = "voidinvoice"]
             cancel == [Idle EXCEPT !.step = "cancel", !.plan = CurrentPlan]
  <2>1. void.step = "voidinvoice" /\ cancel.step = "cancel"
    BY DEF Idle
  <2>2. (Goto(r, void) \/ Goto(r, cancel)) /\ Reads(r) /\ UNCHANGED dbVars
    BY <1>3 DEF BeginVoidInvoice, BeginCancelPlan
  <2> HIDE DEF void, cancel
  <2>3. QED BY <1>1, <2>1, <2>2
<1>4. ASSUME NEW r \in Requests, AcceptPayment(r) PROVE PlanInv'
  <2>1. req'[r].plan = CurrentPlan
    BY <1>4, Moved DEF AcceptPayment
  <2>2. CurrentPlan' = CurrentPlan
    BY <1>4 DEF AcceptPayment, CurrentPlan, InForce, dbVars
  <2>3. HasPlanInForce(r)'
    BY <2>1, <2>2 DEF HasPlanInForce
  <2>4. QED BY <1>4, <2>3, PlanLocal DEF AcceptPayment
<1>5. ASSUME NEW r \in Requests, ReadForVoid(r) PROVE PlanInv'
  <2>1. req'[r].step = "void.save"
    BY <1>5, Moved DEF ReadForVoid
  <2>2. HasPlanInForce(r)'
    BY <2>1 DEF HasPlanInForce
  <2>3. QED BY <1>5, <2>2, PlanLocal DEF ReadForVoid
<1>6. ASSUME NEW r \in Requests, SaveVoidStatus(r) PROVE PlanInv'
  <2> DEFINE local == [req[r] EXCEPT !.step = "void.commit", !.plan = CurrentPlan]
  <2>1. local.plan = CurrentPlan
    BY <1>0 DEF Request
  <2>2. Goto(r, local) /\ UNCHANGED <<dbVars, stale, overlapped>>
    BY <1>6 DEF SaveVoidStatus
  <2> HIDE DEF local
  <2>3. CurrentPlan' = CurrentPlan
    BY <2>2 DEF CurrentPlan, InForce, dbVars
  <2>4. HasPlanInForce(r)'
    BY <2>1, <2>2, <2>3, Moved DEF HasPlanInForce
  <2>5. QED BY <2>2, <2>4, PlanLocal
<1>7. ASSUME NEW r \in Requests, CheckNoPayments(r) PROVE PlanInv'
  <2> DEFINE local == [req[r] EXCEPT !.step = "voidinvoice.commit", !.plan = CurrentPlan]
  <2>1. local.step = "voidinvoice.commit"
    BY <1>0 DEF Request
  <2>2. Goto(r, local) /\ UNCHANGED <<dbVars, stale, overlapped>>
    BY <1>7 DEF CheckNoPayments
  <2> HIDE DEF local
  <2>3. HasPlanInForce(r)'
    BY <2>1, <2>2, Moved DEF HasPlanInForce
  <2>4. QED BY <2>2, <2>3, PlanLocal
<1>8. ASSUME NEW r \in Requests,
             RefusePayment(r) \/ RefuseVoidInvoice(r) \/ Fail(r) \/ Rollback(r)
      PROVE  PlanInv'
  BY <1>8, PlanGivesUp DEF RefusePayment, RefuseVoidInvoice, Fail, Rollback
<1>9. ASSUME NEW r \in Requests, CommitPayment(r) PROVE PlanInv'
  <2>1. ASSUME ~overlapped, r \notin stale PROVE PlanFollowsPayments'
    <3>1. PlanFollowsPayments /\ req[r].plan = CurrentPlan
      BY <1>9, <2>1 DEF PlanInv, HasPlanInForce, CommitPayment
    <3>2. QED
      BY <1>9, <3>1, SyncFollows, CurrentPlanType DEF CommitPayment, SerialInv, TypeInv
  <2>2. QED BY <1>9, <2>1, PlanCommits DEF CommitPayment
<1>10. ASSUME NEW r \in Requests, CommitVoidPayment(r) PROVE PlanInv'
  <2>1. ASSUME ~overlapped, r \notin stale PROVE PlanFollowsPayments'
    <3>1. PlanFollowsPayments /\ req[r].plan = CurrentPlan /\ Fresh(r)
      BY <1>10, <2>1 DEF PlanInv, HasPlanInForce, CommitVoidPayment, SerialInv, FreshInv
    <3>2. ASSUME req[r].plan # None PROVE status # "void"
      BY <1>10, <3>1, <3>2 DEF Fresh, CommitVoidPayment
    <3>3. ASSUME req[r].plan # None PROVE status' = req[r].status
      BY <1>10, <3>1, <3>2, <3>3, StatusForType DEF Fresh, CommitVoidPayment
    <3>4. QED
      BY <1>10, <3>1, <3>3, SyncFollows, CurrentPlanType
      DEF CommitVoidPayment, SerialInv, TypeInv
  <2>2. QED BY <1>10, <2>1, PlanCommits DEF CommitVoidPayment
<1>11. ASSUME NEW r \in Requests, CommitVoidInvoice(r) PROVE PlanInv'
  <2>1. ASSUME ~overlapped, r \notin stale PROVE PlanFollowsPayments'
    <3>1. PlanFollowsPayments /\ req[r].plan = CurrentPlan
      BY <1>11, <2>1 DEF PlanInv, SerialInv, FreshInv, Fresh, CommitVoidInvoice
    <3>2. InForce \subseteq {req[r].plan}
      BY <3>1, CurrentPlanFacts DEF SerialInv
    <3>3. QED
      BY <1>11, <3>1, <3>2, EndFollows, CurrentPlanType DEF CommitVoidInvoice, TypeInv
  <2>2. QED BY <1>11, <2>1, PlanCommits DEF CommitVoidInvoice
<1>12. ASSUME NEW r \in Requests, CommitCancelPlan(r) PROVE PlanInv'
  <2>1. req[r].plan \in Plans \cup {None}
    BY <1>0 DEF Request
  <2>2. ASSUME ~overlapped, r \notin stale PROVE PlanFollowsPayments'
    BY <1>12, <2>1, <2>2, EndFollows
    DEF CommitCancelPlan, PlanInv, TypeInv, invoiceVars, paymentVars
  <2>3. QED BY <1>12, <2>2, PlanCommits DEF CommitCancelPlan
<1>13. ASSUME NEW r \in Requests, NEW q \in Plans, CreatePlan(r, q) PROVE PlanInv'
  <2>1. InForce' = {q}
    BY <1>13 DEF CreatePlan, InForce, TypeInv, TypeOK, PlanInForce
  <2>2. ASSUME NEW o \in Plans, o # q
        PROVE  plan'[o] = plan[o] /\ reminder'[o] = reminder[o]
    BY <1>13, <2>2 DEF CreatePlan, TypeInv, TypeOK
  <2>3. plan'[q].status = "active" /\ \A k \in Installments : reminder'[q][k] = "open"
    BY <1>13 DEF CreatePlan, TypeInv, TypeOK
  <2>4. status' # "paid"
    BY <1>13 DEF CreatePlan, invoiceVars, OpenStatuses
  <2>5. ASSUME ~overlapped, r \notin stale PROVE PlanFollowsPayments'
    BY <2>1, <2>2, <2>3, <2>4, <2>5 DEF PlanFollowsPayments, PlanInv
  <2>6. QED BY <1>13, <2>5, PlanCommits DEF CreatePlan
<1>14. CASE UNCHANGED vars
  <2>1. InForce' = InForce /\ CurrentPlan' = CurrentPlan
    BY <1>14 DEF vars, InForce, CurrentPlan
  <2>2. PlanFollowsPayments' <=> PlanFollowsPayments
    BY <1>14, <2>1 DEF vars, PlanFollowsPayments, InstallmentPaid, InstallmentAmount, Each
  <2>3. QED BY <1>14, <2>1, <2>2 DEF PlanInv, HasPlanInForce, vars
<1>15. QED
  BY <1>2, <1>3, <1>4, <1>5, <1>6, <1>7, <1>8, <1>9, <1>10, <1>11, <1>12, <1>13, <1>14
  DEF Next, Begin, Proceed

\* As long as no request has committed on outdated reads, the plan in force is
\* completed exactly when the invoice is paid, its completed reminders are of
\* installments that are paid, and a canceled plan has no open reminder: every
\* operation synchronises the plan it has fetched (sync_plan).
THEOREM PlansFollow == Spec => []SerialPlan
<1>1. Init => SerialInv /\ PlanInv
  BY SerialInit, PlanInit
<1>2. Inv /\ SerialInv /\ PlanInv /\ [Next]_vars => SerialInv' /\ PlanInv'
  BY SerialStep, PlanStep
<1>3. PlanInv => SerialPlan
  BY DEF PlanInv, SerialPlan
<1>4. QED BY <1>1, <1>2, <1>3, InvAlways, PTL DEF Spec
----------------------------------------------------------------------------
(***************************************************************************)
(* The stored total.  A payment becomes live once, for record_payment has  *)
(* it stored only if it was not there, and ceases to be live once, for a   *)
(* second void finds it void already.                                      *)
(***************************************************************************)
LivePayments == {p \in Payments : payment[p] = "live"}

TotalInv == IsFiniteSet(LivePayments) /\ paid = SumOf(Amount, LivePayments)

LEMMA TotalInit == Init => TotalInv
<1> SUFFICES ASSUME Init PROVE TotalInv
  OBVIOUS
<1>1. LivePayments = {} /\ paid = 0
  BY DEF Init, LivePayments
<1>2. QED BY <1>1, FS_EmptySet, SumNothing DEF TotalInv

LEMMA TotalStep == Inv /\ TotalInv /\ [Next]_vars => TotalInv'
<1> SUFFICES ASSUME Inv, TotalInv, [Next]_vars PROVE TotalInv'
  OBVIOUS
<1>1. /\ payment \in [Payments -> {"none", "live", "void"}] /\ paid \in Int
      /\ IsFiniteSet(LivePayments) /\ paid = SumOf(Amount, LivePayments)
  BY DEF Inv, TypeInv, TypeOK, TotalInv
<1>2. \A p \in Payments : Amount[p] \in Int
  BY LedgerAssumption
<1>3. ASSUME NEW r \in Requests, CommitPayment(r) PROVE TotalInv'
  <2>1. PICK p \in Payments : p = req[r].pay /\ payment[p] = "none"
    BY <1>3 DEF CommitPayment, Inv, LockInv, TypeInv, Shape, Acceptable
  <2>2. payment' = [payment EXCEPT ![p] = "live"] /\ paid' = paid + Amount[p]
    BY <1>3, <2>1 DEF CommitPayment
  <2>3. p \notin LivePayments /\ LivePayments' = LivePayments \cup {p}
    BY <1>1, <2>1, <2>2 DEF LivePayments
  <2>4. \A o \in LivePayments \cup {p} : Amount[o] \in Int
    BY <1>2 DEF LivePayments
  <2>5. SumOf(Amount, LivePayments \cup {p}) = SumOf(Amount, LivePayments) + Amount[p]
    BY <1>1, <2>3, <2>4, SumAdd
  <2>6. IsFiniteSet(LivePayments')
    BY <1>1, <2>3, FS_AddElement
  <2>7. QED BY <1>1, <2>2, <2>3, <2>5, <2>6 DEF TotalInv
<1>4. ASSUME NEW r \in Requests, CommitVoidPayment(r) PROVE TotalInv'
  <2>1. PICK p \in Payments : p = req[r].pay
    BY <1>4 DEF CommitVoidPayment, Inv, TypeInv, Shape
  <2>2. payment' = [payment EXCEPT ![p] = "void"] /\ paid' = PaidWithout(p)
    BY <1>4, <2>1 DEF CommitVoidPayment
  <2>3. LivePayments' = LivePayments \ {p}
    BY <1>1, <2>2 DEF LivePayments
  <2>4. IsFiniteSet(LivePayments')
    BY <1>1, <2>3, FS_RemoveElement
  <2>5. CASE payment[p] = "live"
    <3>1. p \in LivePayments /\ \A o \in LivePayments : Amount[o] \in Int
      BY <1>2, <2>5 DEF LivePayments
    <3>2. SumOf(Amount, LivePayments \ {p}) = SumOf(Amount, LivePayments) - Amount[p]
      BY <1>1, <3>1, SumWithout
    <3>3. paid' = paid - Amount[p]
      BY <2>2, <2>5 DEF PaidWithout
    <3>4. QED BY <1>1, <2>3, <2>4, <3>2, <3>3 DEF TotalInv
  <2>6. CASE payment[p] # "live"
    <3>1. LivePayments' = LivePayments /\ paid' = paid
      BY <2>2, <2>3, <2>6 DEF PaidWithout, LivePayments
    <3>2. QED BY <1>1, <3>1 DEF TotalInv
  <2>7. QED BY <2>5, <2>6
<1>5. CASE UNCHANGED <<payment, paid>>
  BY <1>5 DEF TotalInv, LivePayments
<1>6. Next => UNCHANGED <<payment, paid>> \/ \E r \in Requests : CommitPayment(r) \/ CommitVoidPayment(r)
  BY DEF Next, Begin, Proceed, BeginRecord, RefusePayment, AcceptPayment, BeginVoidPayment,
         ReadForVoid, SaveVoidStatus, BeginVoidInvoice, RefuseVoidInvoice, CheckNoPayments,
         CommitVoidInvoice, CreatePlan, BeginCancelPlan, CommitCancelPlan, Fail, Rollback,
         GivesUp, dbVars, paymentVars
<1>7. QED BY <1>3, <1>4, <1>5, <1>6 DEF vars

\* The stored total is what the live payments add up to, whatever requests interleave and
\* however often a payment is voided (record_payment, void_payment).
THEOREM TotalKept == Spec => []LedgerAddsUp
<1>1. TotalInv => LedgerAddsUp
  BY DEF TotalInv, LedgerAddsUp, LivePayments, SumOf
<1>2. Init => Inv /\ TotalInv
  BY TypeInit, LockInit, TotalInit DEF Inv
<1>3. Inv /\ TotalInv /\ [Next]_vars => Inv' /\ TotalInv'
  BY TypeStep, LockStep, TotalStep DEF Inv
<1>4. QED BY <1>1, <1>2, <1>3, PTL DEF Spec

----------------------------------------------------------------------------
(***************************************************************************)
(* What clients pay online.  What is recorded of a charge goes with which  *)
(* of its events were handled; the sums of the payments are taken over the *)
(* amounts of links, which do not change once there is a charge on them.   *)
(***************************************************************************)
AskedRows == [account : Accounts, amount : Nat]
LinkRows == [for : AskedRows, active : BOOLEAN]
AnyAccount == Accounts \cup {""}
ChargeRows == [state : Kinds \cup {"none"}, link : Nat, account : AnyAccount]
NewsRows == [of : Charges, kind : Kinds, at : Nat]

PayTypes ==
    /\ processor \in {"stripe", "lawpay"}
    /\ charge \in [Charges -> ChargeRows]
    /\ news \subseteq NewsRows /\ todo \subseteq news /\ IsFiniteSet(news)
    /\ payLink \in Seq(LinkRows)
    /\ desk \in [Desks -> SUBSET AskedRows]
    /\ recorded \in [Charges -> {"none", "live", "void"}]
    /\ byHand \in [Accounts -> Int]
    /\ voided \in BOOLEAN /\ known \subseteq Charges /\ crossed \in BOOLEAN

\* A charge the processor tells of, or that is recorded, is on one of the links.
PayPlaced ==
    /\ \A c \in Charges :
          /\ charge[c].link # 0 => charge[c].link \in DOMAIN payLink
          /\ charge[c].state # "none" => charge[c].link # 0
          /\ recorded[c] # "none" => charge[c].link # 0
    /\ \A n \in news : charge[n.of].link # 0

\* Its events tell how it stands, and are numbered as they came.
NewsOf(c) == {n \in news : n.of = c}
Told(c, kind) == \E n \in news : n.of = c /\ n.kind = kind
TellsState(c) ==
    /\ Told(c, "paid") <=> charge[c].state \in {"paid", "part", "refunded"}
    /\ Told(c, "part") => charge[c].state \in {"part", "refunded"}
    /\ charge[c].state = "part" => Told(c, "part")
    /\ Told(c, "refunded") <=> charge[c].state = "refunded"
PayNews ==
    /\ \A c \in Charges : TellsState(c)
    /\ \A n \in news : n.at <= Cardinality(NewsOf(n.of))
    /\ \A n, m \in news :
          n.of = m.of /\ n.kind = "paid" /\ m.kind \in {"part", "refunded"} => n.at < m.at

\* While its events are handled in order: paid, it is recorded or staff know; refunded, it
\* is void or they do; and what is void was refunded or voided by staff.
DealtWith(c, kind) == \E n \in news \ todo : n.of = c /\ n.kind = kind
TakenSoFar(c) ==
    /\ recorded[c] # "none" => Told(c, "paid")
    /\ recorded[c] = "void" /\ c \notin known => charge[c].state = "refunded"
    /\ ~crossed /\ DealtWith(c, "paid") => recorded[c] # "none" \/ c \in known
    /\ ~crossed /\ DealtWith(c, "refunded") => recorded[c] = "void" \/ c \in known
    /\ ~crossed /\ DealtWith(c, "part") /\ charge[c].state = "part" => c \in known
PayTaken == \A c \in Charges : TakenSoFar(c)

\* What was paid does not exceed the invoice.
PaidOnline(account) == SumOf(ChargeAmount, Live(account))
StillOwed ==
    TrustPart + EarnedPart - (byHand["trust"] + PaidOnline("trust"))
        - (byHand["operating"] + PaidOnline("operating"))
PayMoney ==
    /\ IsFiniteSet({c \in Charges : recorded[c] # "none"})
    /\ StillOwed >= 0

\* Requests one after the other ask for what no link does yet.
PayLinks ==
    ~crossed =>
        /\ \A d, e \in Desks : desk[d] # {} /\ desk[e] # {} => d = e
        /\ \A d \in Desks : \A asking \in desk[d] :
              \A l \in DOMAIN payLink : payLink[l].for # asking
        /\ \A k, l \in DOMAIN payLink : payLink[k].for = payLink[l].for => k = l

PayInv == PayTypes /\ PayPlaced /\ PayNews /\ PayTaken /\ PayMoney /\ PayLinks

\* Amounts add up as the fields they are.
AmountsUp(g, S) ==
    g = [s \in SUBSET S |-> IF s = {} THEN 0 ELSE Next1(s).amount + g[s \ {Next1(s)}]]

LEMMA AmountsAsFields ==
    ASSUME NEW S, IsFiniteSet(S)
    PROVE  MapThenSumSet(LAMBDA d : d.amount, S) = SumOf([d \in S |-> d.amount], S)
<1> DEFINE h == [d \in S |-> d.amount]
           g == CHOOSE k : AmountsUp(k, S)
<1>1. PICK f : AddsUp(f, h, S) /\ SumOf(h, S) = f[S]
  BY SumUnfold
<1>2. ASSUME NEW k, AddsUp(k, h, S) PROVE AmountsUp(k, S)
  <2>1. ASSUME NEW s \in SUBSET S, s # {} PROVE h[Next1(s)] = Next1(s).amount
    BY <2>1 DEF Next1
  <2> HIDE DEF h
  <2>2. QED BY <1>2, <2>1 DEF AddsUp, Adding, AmountsUp
<1>3. AmountsUp(g, S)
  <2> HIDE DEF h
  <2>1. QED BY <1>1, <1>2
<1>4. AddsUp(g, h, S)
  <2>1. PICK k : k = g
    OBVIOUS
  <2>2. ASSUME NEW s \in SUBSET S, s # {} PROVE h[Next1(s)] = Next1(s).amount
    BY <2>2 DEF Next1
  <2>3. AmountsUp(k, S)
    BY <1>3, <2>1
  <2> HIDE DEF h, g
  <2>4. AddsUp(k, h, S)
    BY <2>2, <2>3 DEF AddsUp, Adding, AmountsUp
  <2>5. QED BY <2>1, <2>4
<1>5. MapThenSumSet(LAMBDA d : d.amount, S) = g[S]
  BY DEF MapThenSumSet, MapThenFoldSet, AmountsUp, Next1
<1>6. f[S] = g[S]
  <2> HIDE DEF h, g
  <2>1. QED BY <1>1, <1>4, AddersAgree
<1>7. QED BY <1>1, <1>5, <1>6

\* What the links are asked to bring in adds up to the balance, if that is not negative.
LEMMA DueAddsUp ==
    ASSUME PaidInto("trust") \in Int, PaidInto("operating") \in Int,
           TrustPart + EarnedPart - PaidInto("trust") - PaidInto("operating") >= 0
    PROVE  DueIsBalance
<1> DEFINE t == [account |-> "trust", amount |-> Owed("trust")]
           o == [account |-> "operating", amount |-> Owed("operating")]
<1>1. PICK x \in Int, y \in Int, b \in Int :
          /\ x = TrustPart - PaidInto("trust") /\ y = EarnedPart - PaidInto("operating")
          /\ b = Outstanding
  BY OnlineAssumption DEF Outstanding
<1>2. b >= 0 /\ (b = x + y \/ (b = 0 /\ x + y >= 0))
  BY <1>1, OnlineAssumption DEF Outstanding
<1>3. Owed("trust") = (IF x < b THEN x ELSE b) /\ Owed("operating") = (IF y < b THEN y ELSE b)
  BY <1>1 DEF Owed, Part, Min2
<1>4. PICK p \in Int, q \in Int : p = Owed("trust") /\ q = Owed("operating")
  BY <1>3
<1>5. /\ p > 0 /\ q > 0 => p + q = b
      /\ p > 0 /\ q <= 0 => p = b
      /\ p <= 0 /\ q > 0 => q = b
      /\ p <= 0 /\ q <= 0 => b = 0
  BY <1>2, <1>3, <1>4
<1>6. t.amount = p /\ o.amount = q /\ t # o
  BY <1>4
<1>7. AmountsDue = (IF p > 0 THEN {t} ELSE {}) \cup (IF q > 0 THEN {o} ELSE {})
  BY <1>4 DEF AmountsDue, Accounts
<1> HIDE DEF t, o
<1>8. ASSUME NEW S \in SUBSET {t, o}
      PROVE  /\ IsFiniteSet(S)
             /\ MapThenSumSet(LAMBDA d : d.amount, S) = SumOf([d \in {t, o} |-> d.amount], S)
  <2>1. IsFiniteSet({t} \cup {o}) /\ {t} \cup {o} = {t, o}
    BY FS_AddElement, FS_Singleton
  <2>2. IsFiniteSet(S)
    BY <2>1, FS_Subset
  <2>3. SumOf([d \in S |-> d.amount], S) = SumOf([d \in {t, o} |-> d.amount], S)
    BY <2>2, SumSame
  <2>4. QED BY <2>2, <2>3, AmountsAsFields
<1>9. PICK h : h = [d \in {t, o} |-> d.amount]
  OBVIOUS
<1>10. h[t] = p /\ h[o] = q
  BY <1>6, <1>9
<1>11. SumOf(h, {}) = 0
  BY SumNothing
<1>12. SumOf(h, {t}) = p /\ SumOf(h, {o}) = q
  <2>1. SumOf(h, {} \cup {t}) = SumOf(h, {}) + h[t]
    BY <1>10, FS_EmptySet, SumAdd
  <2>2. SumOf(h, {} \cup {o}) = SumOf(h, {}) + h[o]
    BY <1>10, FS_EmptySet, SumAdd
  <2>3. {} \cup {t} = {t} /\ {} \cup {o} = {o}
    OBVIOUS
  <2>4. QED BY <1>10, <1>11, <2>1, <2>2, <2>3
<1>13. SumOf(h, {t, o}) = p + q
  <2>0. IsFiniteSet({t}) /\ o \notin {t} /\ \A z \in {t} \cup {o} : h[z] \in Int
    BY <1>6, <1>10, FS_Singleton
  <2>1. SumOf(h, {t} \cup {o}) = SumOf(h, {t}) + h[o]
    BY <2>0, SumAdd
  <2>2. {t} \cup {o} = {t, o}
    OBVIOUS
  <2>3. QED BY <1>10, <1>12, <2>1, <2>2
<1>14. AmountsDue \in SUBSET {t, o} /\ SumOf(h, AmountsDue) = b
  <2>1. CASE p > 0 /\ q > 0
    BY <1>5, <1>7, <1>13, <2>1
  <2>2. CASE p > 0 /\ ~(q > 0)
    BY <1>5, <1>7, <1>12, <2>2
  <2>3. CASE ~(p > 0) /\ q > 0
    BY <1>5, <1>7, <1>12, <2>3
  <2>4. CASE ~(p > 0) /\ ~(q > 0)
    BY <1>5, <1>7, <1>11, <2>4
  <2>5. QED BY <2>1, <2>2, <2>3, <2>4
<1>15. MapThenSumSet(LAMBDA d : d.amount, AmountsDue) = b
  BY <1>8, <1>9, <1>14
<1>16. QED BY <1>1, <1>15 DEF DueIsBalance

LEMMA NoChargeType == NoCharge \in ChargeRows /\ NoCharge.link = 0 /\ NoCharge.state = "none"
<1>1. PICK e : e = ""
  OBVIOUS
<1>2. e \in AnyAccount /\ NoCharge = [state |-> "none", link |-> 0, account |-> e]
  BY <1>1 DEF AnyAccount, NoCharge
<1>3. QED BY <1>2 DEF ChargeRows

LEMMA PayInvInit == PayInit => PayInv
<1> SUFFICES ASSUME PayInit PROVE PayInv
  OBVIOUS
<1>1. NoCharge \in ChargeRows /\ NoCharge.link = 0 /\ NoCharge.state = "none"
  BY NoChargeType
<1>2. PayTypes
  <2>1. payLink \in Seq(LinkRows)
    BY EmptySeq DEF PayInit
  <2>2. charge \in [Charges -> ChargeRows]
    BY <1>1 DEF PayInit
  <2>3. news \subseteq NewsRows /\ todo \subseteq news /\ IsFiniteSet(news) /\ known \subseteq Charges
    BY FS_EmptySet DEF PayInit
  <2>4. desk \in [Desks -> SUBSET AskedRows] /\ byHand \in [Accounts -> Int]
        /\ recorded \in [Charges -> {"none", "live", "void"}]
    BY DEF PayInit
  <2>5. processor \in {"stripe", "lawpay"} /\ voided \in BOOLEAN /\ crossed \in BOOLEAN
    BY DEF PayInit
  <2>6. QED BY <2>1, <2>2, <2>3, <2>4, <2>5 DEF PayTypes
<1>3. PayPlaced /\ PayNews /\ PayTaken
  BY <1>1 DEF PayInit, PayPlaced, PayNews, PayTaken, TakenSoFar, TellsState, Told, DealtWith
<1>4. {c \in Charges : recorded[c] # "none"} = {} /\ Live("trust") = {} /\ Live("operating") = {}
  BY DEF PayInit, Live
<1>5. StillOwed >= 0
  <2>1. SumOf(ChargeAmount, {}) = 0
    BY SumNothing
  <2>2. PaidOnline("trust") = 0 /\ PaidOnline("operating") = 0
    BY <1>4, <2>1 DEF PaidOnline
  <2>3. byHand["trust"] = 0 /\ byHand["operating"] = 0
    BY DEF PayInit, Accounts
  <2>4. QED BY <2>2, <2>3, OnlineAssumption DEF StillOwed
<1>6. PayLinks
  BY DEF PayInit, PayLinks
<1>7. QED BY <1>2, <1>3, <1>4, <1>5, <1>6, FS_EmptySet DEF PayInv, PayMoney

\* A recorded charge has an amount, and what is recorded adds up to a number.
LEMMA PayAmounts ==
    ASSUME PayTypes, PayPlaced, IsFiniteSet({c \in Charges : recorded[c] # "none"})
    PROVE  /\ \A c \in Charges : charge[c].link # 0 =>
                  /\ charge[c].link \in DOMAIN payLink
                  /\ ChargeAmount[c] = payLink[charge[c].link].for.amount /\ ChargeAmount[c] \in Nat
           /\ \A a \in Accounts :
                 /\ IsFiniteSet(Live(a)) /\ Live(a) \subseteq Charges
                 /\ \A c \in Live(a) : ChargeAmount[c] \in Int
                 /\ PaidOnline(a) \in Int /\ byHand[a] \in Int
                 /\ PaidInto(a) = byHand[a] + PaidOnline(a)
<1>1. ASSUME NEW c \in Charges, charge[c].link # 0
      PROVE  /\ charge[c].link \in DOMAIN payLink
             /\ ChargeAmount[c] = payLink[charge[c].link].for.amount /\ ChargeAmount[c] \in Nat
  <2>1. charge[c].link \in DOMAIN payLink
    BY <1>1 DEF PayPlaced
  <2>2. payLink[charge[c].link] \in LinkRows
    BY <2>1, ElementOfSeq DEF PayTypes
  <2>3. payLink[charge[c].link].for.amount \in Nat
    BY <2>2 DEF LinkRows, AskedRows
  <2>4. ChargeAmount[c] = payLink[charge[c].link].for.amount
    BY <1>1 DEF ChargeAmount
  <2>5. QED BY <2>1, <2>3, <2>4
<1>2. ASSUME NEW a \in Accounts
      PROVE  /\ IsFiniteSet(Live(a)) /\ Live(a) \subseteq Charges
             /\ \A c \in Live(a) : ChargeAmount[c] \in Int
             /\ PaidOnline(a) \in Int /\ byHand[a] \in Int
             /\ PaidInto(a) = byHand[a] + PaidOnline(a)
  <2>1. Live(a) \subseteq {c \in Charges : recorded[c] # "none"} /\ Live(a) \subseteq Charges
    BY DEF Live
  <2>2. IsFiniteSet(Live(a))
    BY <2>1, FS_Subset
  <2>3. \A c \in Live(a) : ChargeAmount[c] \in Int
    BY <1>1, <2>1 DEF PayPlaced
  <2>4. PaidOnline(a) \in Int
    BY <2>2, <2>3, SumIsInt DEF PaidOnline
  <2>5. byHand[a] \in Int /\ PaidInto(a) = byHand[a] + PaidOnline(a)
    BY DEF PayTypes, PaidInto, PaidOnline, SumOf
  <2>6. QED BY <2>1, <2>2, <2>3, <2>4, <2>5
<1>3. QED BY <1>1, <1>2

\* The balance is what is still owed, or nothing on a void invoice.
LEMMA PayOutstanding ==
    ASSUME PayTypes, PayPlaced, PayMoney
    PROVE  /\ StillOwed \in Nat /\ Outstanding \in Int /\ Outstanding <= StillOwed
           /\ ~voided => Outstanding = StillOwed
           /\ AmountsDue \subseteq AskedRows
           /\ DueIsBalance
<1>1. \A a \in Accounts : PaidOnline(a) \in Int /\ byHand[a] \in Int
                          /\ PaidInto(a) = byHand[a] + PaidOnline(a)
  BY PayAmounts DEF PayMoney
<1>2. "trust" \in Accounts /\ "operating" \in Accounts
  BY DEF Accounts
<1>3. PICK x \in Int, y \in Int : x = PaidInto("trust") /\ y = PaidInto("operating")
  BY <1>1, <1>2
<1>4. StillOwed = TrustPart + EarnedPart - x - y
  BY <1>1, <1>2, <1>3 DEF StillOwed
<1>5. StillOwed \in Nat
  BY <1>3, <1>4, OnlineAssumption DEF PayMoney
<1>6. Outstanding = IF voided THEN 0 ELSE StillOwed
  BY <1>3, <1>4 DEF Outstanding
<1>7. Outstanding \in Int /\ Outstanding <= StillOwed /\ (~voided => Outstanding = StillOwed)
  BY <1>5, <1>6 DEF PayTypes
<1>8. \A a \in Accounts : Part[a] \in Int /\ PaidInto(a) \in Int
  BY <1>1, OnlineAssumption DEF Part, Accounts
<1>9. \A a \in Accounts : Owed(a) \in Int
  BY <1>7, <1>8 DEF Owed, Min2
<1>10. AmountsDue \subseteq AskedRows
  BY <1>9 DEF AmountsDue, AskedRows
<1>11. DueIsBalance
  BY <1>3, <1>4, <1>5, DueAddsUp
<1>12. QED BY <1>5, <1>7, <1>10, <1>11

\* What the processor tells of a charge comes after all it told before.
LEMMA TellsNext ==
    ASSUME PayTypes, PayNews, NEW c \in Charges, NEW kind \in Kinds, Tell(c, kind)
    PROVE  \/ kind = "pending" /\ news' = news /\ todo' = todo
           \/ \E n \in NewsRows :
                 /\ n.of = c /\ n.kind = kind
                 /\ news' = news \cup {n} /\ todo' = todo \cup {n}
                 /\ n \notin news
                 /\ \A m \in news : m.of = c => m.at < n.at
                 /\ n.at = 1 + Cardinality(NewsOf(c))
                 /\ Cardinality(NewsOf(c)') = n.at
<1>1. IsFiniteSet(NewsOf(c))
  BY FS_Subset DEF PayTypes, NewsOf
<1>2. PICK k \in Nat : k = Cardinality(NewsOf(c))
  BY <1>1, FS_CardinalityType
<1>3. CASE processor = "lawpay" /\ kind = "pending"
  BY <1>3 DEF Tell
<1>4. CASE ~(processor = "lawpay" /\ kind = "pending")
  <2>1. PICK n : n = [of |-> c, kind |-> kind, at |-> 1 + k]
    OBVIOUS
  <2>2. n \in NewsRows /\ n.of = c /\ n.kind = kind /\ n.at = 1 + k
    BY <2>1 DEF NewsRows
  <2>3. news' = news \cup {n} /\ todo' = todo \cup {n}
    BY <1>2, <1>4, <2>1 DEF Tell, NewsOf
  <2>4. \A m \in news : m.of = c => m.at < n.at
    BY <1>2, <2>2 DEF PayNews, PayTypes, NewsRows
  <2>5. n \notin news
    BY <2>2, <2>4
  <2>6. NewsOf(c)' = NewsOf(c) \cup {n} /\ n \notin NewsOf(c)
    BY <2>2, <2>3, <2>5 DEF NewsOf
  <2>7. Cardinality(NewsOf(c)') = k + 1
    BY <1>1, <1>2, <2>6, FS_AddElement
  <2>8. n.at = k + 1 /\ n.at = 1 + Cardinality(NewsOf(c))
    BY <1>2, <2>2
  <2>9. Cardinality(NewsOf(c)') = n.at
    BY <2>7, <2>8
  <2>10. QED BY <2>2, <2>3, <2>4, <2>5, <2>8, <2>9
<1>5. QED BY <1>3, <1>4

\* No step moves a charge to another link or account, or changes what a link asks for.
ChargesStay ==
    \A c \in Charges : charge[c].link # 0 =>
        charge'[c].link = charge[c].link /\ charge'[c].account = charge[c].account
LinksStay ==
    \A l \in DOMAIN payLink : l \in DOMAIN payLink' /\ payLink'[l].for = payLink[l].for

\* So the same payments add up to the same ...
LEMMA AmountsStay ==
    ASSUME PayTypes, PayPlaced, ChargesStay, LinksStay, NEW S, IsFiniteSet(S), S \subseteq Charges,
           \A c \in S : charge[c].link # 0
    PROVE  /\ SumOf(ChargeAmount', S) = SumOf(ChargeAmount, S)
           /\ \A c \in S : Deposit(c)' = Deposit(c)
<1>1. PICK h, i : h = ChargeAmount /\ i = ChargeAmount'
  OBVIOUS
<1>2. ASSUME NEW c \in S PROVE h[c] = i[c] /\ Deposit(c)' = Deposit(c)
  <2>1. PICK d \in Charges : d = c /\ charge[d].link # 0
    BY <1>2
  <2>2. charge'[d].link = charge[d].link /\ charge'[d].account = charge[d].account
    BY <2>1 DEF ChargesStay
  <2>3. charge[d].link \in DOMAIN payLink
    BY <2>1 DEF PayPlaced
  <2>4. payLink'[charge[d].link].for = payLink[charge[d].link].for
    BY <2>3 DEF LinksStay
  <2>5. h[d] = payLink[charge[d].link].for.amount
    BY <1>1, <2>1 DEF ChargeAmount
  <2>6. i[d] = payLink'[charge'[d].link].for.amount
    BY <1>1, <2>1, <2>2 DEF ChargeAmount
  <2>7. Deposit(d)' = Deposit(d)
    BY <2>2 DEF Deposit
  <2>8. QED BY <2>1, <2>2, <2>4, <2>5, <2>6, <2>7
<1>3. SumOf(h, S) = SumOf(i, S)
  BY <1>2, SumSame
<1>4. QED BY <1>1, <1>2, <1>3

\* ... a payment that is recorded adds its amount to its account's, and one that is voided
\* takes it away.
LEMMA PaidStays ==
    ASSUME PayTypes, PayPlaced, PayMoney, ChargesStay, LinksStay, recorded' = recorded,
           NEW a \in Accounts
    PROVE  PaidOnline(a)' = PaidOnline(a)
<1>1. PICK S : S = Live(a)
  OBVIOUS
<1>2. S \subseteq Charges /\ IsFiniteSet(S)
  BY <1>1, PayAmounts DEF PayMoney
<1>3. \A c \in Charges : recorded[c] # "none" => Deposit(c)' = Deposit(c)
  <2>1. SUFFICES ASSUME NEW c \in Charges, recorded[c] # "none" PROVE Deposit(c)' = Deposit(c)
    OBVIOUS
  <2>2. charge'[c].account = charge[c].account
    BY <2>1 DEF PayPlaced, ChargesStay
  <2>3. QED BY <2>2 DEF Deposit
<1>4. Live(a)' = S
  BY <1>1, <1>3 DEF Live
<1>5. \A c \in S : charge[c].link # 0
  BY <1>1 DEF Live, PayPlaced
<1>6. SumOf(ChargeAmount', S) = SumOf(ChargeAmount, S)
  BY <1>2, <1>5, AmountsStay
<1>7. QED BY <1>1, <1>4, <1>6 DEF PaidOnline

LEMMA PaidGrows ==
    ASSUME PayTypes, PayPlaced, PayMoney, ChargesStay, LinksStay, NEW a \in Accounts,
           NEW c \in Charges, charge[c].link # 0, recorded[c] = "none",
           recorded' = [recorded EXCEPT ![c] = "live"]
    PROVE  PaidOnline(a)' = PaidOnline(a) + (IF Deposit(c) = a THEN ChargeAmount[c] ELSE 0)
<1>1. PICK S : S = Live(a)
  OBVIOUS
<1>2. S \subseteq Charges /\ IsFiniteSet(S) /\ c \notin S /\ PaidOnline(a) \in Int
      /\ ChargeAmount[c] \in Int /\ \A d \in S : ChargeAmount[d] \in Int
  <2>1. c \notin S
    BY <1>1 DEF Live
  <2>2. ChargeAmount[c] \in Nat
    BY PayAmounts DEF PayMoney
  <2>3. S \subseteq Charges /\ IsFiniteSet(S) /\ PaidOnline(a) \in Int /\ \A d \in S : ChargeAmount[d] \in Int
    BY <1>1, PayAmounts DEF PayMoney
  <2>4. QED BY <2>1, <2>2, <2>3
<1>3. \A d \in Charges : recorded[d] # "none" \/ d = c => Deposit(d)' = Deposit(d)
  <2>1. SUFFICES ASSUME NEW d \in Charges, recorded[d] # "none" \/ d = c PROVE Deposit(d)' = Deposit(d)
    OBVIOUS
  <2>2. charge'[d].account = charge[d].account
    BY <2>1 DEF PayPlaced, ChargesStay
  <2>3. QED BY <2>2 DEF Deposit
<1>4. recorded'[c] = "live" /\ \A d \in Charges : d # c => recorded'[d] = recorded[d]
  BY DEF PayTypes
<1>5. Live(a)' = IF Deposit(c) = a THEN S \cup {c} ELSE S
  BY <1>1, <1>3, <1>4 DEF Live
<1>6. \A d \in S \cup {c} : charge[d].link # 0
  BY <1>1 DEF Live, PayPlaced
<1>7. IsFiniteSet(S \cup {c})
  BY <1>2, FS_AddElement
<1>8. SumOf(ChargeAmount', S) = SumOf(ChargeAmount, S)
  BY <1>2, <1>6, AmountsStay
<1>9. SumOf(ChargeAmount', S \cup {c}) = SumOf(ChargeAmount, S \cup {c})
  <2>1. PICK T : T = S \cup {c}
    OBVIOUS
  <2>2. T \subseteq Charges /\ IsFiniteSet(T) /\ \A d \in T : charge[d].link # 0
    BY <1>2, <1>6, <1>7, <2>1
  <2>3. SumOf(ChargeAmount', T) = SumOf(ChargeAmount, T)
    BY <2>2, AmountsStay
  <2>4. QED BY <2>1, <2>3
<1>10. SumOf(ChargeAmount, S \cup {c}) = SumOf(ChargeAmount, S) + ChargeAmount[c]
  BY <1>2, SumAdd
<1>11. PICK v \in Int : v = PaidOnline(a) /\ v = SumOf(ChargeAmount, S)
  BY <1>1, <1>2 DEF PaidOnline
<1>12. CASE Deposit(c) = a
  <2>1. PaidOnline(a)' = SumOf(ChargeAmount', S \cup {c})
    BY <1>5, <1>12 DEF PaidOnline
  <2>2. QED BY <1>9, <1>10, <1>11, <1>12, <2>1
<1>13. CASE Deposit(c) # a
  <2>1. PaidOnline(a)' = SumOf(ChargeAmount', S)
    BY <1>5, <1>13 DEF PaidOnline
  <2>2. QED BY <1>8, <1>11, <1>13, <2>1
<1>14. QED BY <1>12, <1>13

LEMMA PaidShrinks ==
    ASSUME PayTypes, PayPlaced, PayMoney, ChargesStay, LinksStay, NEW a \in Accounts,
           NEW c \in Charges, recorded[c] = "live", recorded' = [recorded EXCEPT ![c] = "void"]
    PROVE  PaidOnline(a)' = PaidOnline(a) - (IF Deposit(c) = a THEN ChargeAmount[c] ELSE 0)
<1>1. PICK S : S = Live(a)
  OBVIOUS
<1>2. S \subseteq Charges /\ IsFiniteSet(S) /\ PaidOnline(a) \in Int
      /\ \A d \in S : ChargeAmount[d] \in Int
  BY <1>1, PayAmounts DEF PayMoney
<1>3. \A d \in Charges : recorded[d] # "none" => Deposit(d)' = Deposit(d)
  <2>1. SUFFICES ASSUME NEW d \in Charges, recorded[d] # "none" PROVE Deposit(d)' = Deposit(d)
    OBVIOUS
  <2>2. charge'[d].account = charge[d].account
    BY <2>1 DEF PayPlaced, ChargesStay
  <2>3. QED BY <2>2 DEF Deposit
<1>4. recorded'[c] = "void" /\ \A d \in Charges : d # c => recorded'[d] = recorded[d]
  BY DEF PayTypes
<1>5. Live(a)' = S \ {c} /\ (c \in S <=> Deposit(c) = a)
  BY <1>1, <1>3, <1>4 DEF Live
<1>6. PICK T : T = S \ {c}
  OBVIOUS
<1>7. T \subseteq Charges /\ IsFiniteSet(T) /\ \A d \in T : charge[d].link # 0
  BY <1>1, <1>2, <1>6, FS_Subset DEF Live, PayPlaced
<1>8. SumOf(ChargeAmount', T) = SumOf(ChargeAmount, T)
  BY <1>7, AmountsStay
<1>9. PICK v \in Int : v = PaidOnline(a) /\ v = SumOf(ChargeAmount, S)
  BY <1>1, <1>2 DEF PaidOnline
<1>10. PaidOnline(a)' = SumOf(ChargeAmount, T)
  BY <1>5, <1>6, <1>8 DEF PaidOnline
<1>11. CASE Deposit(c) = a
  <2>1. SumOf(ChargeAmount, S \ {c}) = SumOf(ChargeAmount, S) - ChargeAmount[c]
    BY <1>2, <1>5, <1>11, SumWithout
  <2>2. QED BY <1>6, <1>9, <1>10, <1>11, <2>1
<1>12. CASE Deposit(c) # a
  <2>1. T = S
    BY <1>5, <1>6, <1>12
  <2>2. QED BY <1>9, <1>10, <1>12, <2>1
<1>13. QED BY <1>11, <1>12

LEMMA MoneyStays ==
    ASSUME PayTypes, PayPlaced, PayMoney, ChargesStay, LinksStay, recorded' = recorded,
           byHand' = byHand
    PROVE  PayMoney'
<1>1. "trust" \in Accounts /\ "operating" \in Accounts
  BY DEF Accounts
<1>2. PaidOnline("trust")' = PaidOnline("trust") /\ PaidOnline("operating")' = PaidOnline("operating")
  BY <1>1, PaidStays
<1>3. QED BY <1>2 DEF PayMoney, StillOwed

\* News of a charge waits to be handled, and the rest is as it was.
LEMMA TellKeeps ==
    ASSUME PayTypes, PayNews, NEW c \in Charges, NEW kind \in Kinds, Tell(c, kind),
           kind = "paid" => ~Told(c, "part") /\ ~Told(c, "refunded")
    PROVE  /\ news' \subseteq NewsRows /\ todo' \subseteq news' /\ IsFiniteSet(news')
           /\ \A n \in news' : n \in news \/ n.of = c
           /\ \A d \in Charges : \A k \in {"paid", "part", "refunded"} :
                 /\ Told(d, k)' <=> Told(d, k) \/ (d = c /\ k = kind)
                 /\ DealtWith(d, k)' <=> DealtWith(d, k)
           /\ \A n \in news' : n.at <= Cardinality(NewsOf(n.of)')
           /\ \A n, m \in news' :
                 n.of = m.of /\ n.kind = "paid" /\ m.kind \in {"part", "refunded"} => n.at < m.at
<1>0. news \subseteq NewsRows /\ todo \subseteq news /\ IsFiniteSet(news)
  BY DEF PayTypes
<1>1. CASE kind = "pending" /\ news' = news /\ todo' = todo
  BY <1>0, <1>1 DEF Told, DealtWith, PayNews, NewsOf
<1>2. ASSUME NEW n \in NewsRows, n.of = c, n.kind = kind,
             news' = news \cup {n}, todo' = todo \cup {n}, n \notin news,
             \A m \in news : m.of = c => m.at < n.at,
             Cardinality(NewsOf(c)') = n.at
      PROVE  /\ news' \subseteq NewsRows /\ todo' \subseteq news' /\ IsFiniteSet(news')
             /\ \A m \in news' : m \in news \/ m.of = c
             /\ \A d \in Charges : \A k \in {"paid", "part", "refunded"} :
                   /\ Told(d, k)' <=> Told(d, k) \/ (d = c /\ k = kind)
                   /\ DealtWith(d, k)' <=> DealtWith(d, k)
             /\ \A m \in news' : m.at <= Cardinality(NewsOf(m.of)')
             /\ \A p, m \in news' :
                   p.of = m.of /\ p.kind = "paid" /\ m.kind \in {"part", "refunded"} => p.at < m.at
  <2>1. IsFiniteSet(news')
    BY <1>0, <1>2, FS_AddElement
  <2>2. ASSUME NEW d \in Charges, NEW k \in {"paid", "part", "refunded"}
        PROVE  /\ Told(d, k)' <=> Told(d, k) \/ (d = c /\ k = kind)
               /\ DealtWith(d, k)' <=> DealtWith(d, k)
    <3>1. Told(d, k)' <=> Told(d, k) \/ (d = c /\ k = kind)
      BY <1>2 DEF Told
    <3>2. news' \ todo' = news \ todo
      BY <1>0, <1>2
    <3>3. QED BY <3>1, <3>2 DEF DealtWith
  <2>3. ASSUME NEW m \in news' PROVE m.at <= Cardinality(NewsOf(m.of)')
    <3>1. m.at \in Nat /\ n.at \in Nat
      BY <1>0, <1>2 DEF NewsRows
    <3>2. CASE m.of = c
      <4>1. m.at <= n.at
        BY <1>2, <3>1, <3>2
      <4>2. QED BY <1>2, <3>2, <4>1
    <3>3. CASE m.of # c
      <4>1. m \in news /\ NewsOf(m.of)' = NewsOf(m.of)
        BY <1>2, <3>3 DEF NewsOf
      <4>2. QED BY <4>1 DEF PayNews
    <3>4. QED BY <3>2, <3>3
  <2>4. ASSUME NEW p \in news', NEW m \in news', p.of = m.of, p.kind = "paid",
               m.kind \in {"part", "refunded"}
        PROVE  p.at < m.at
    <3>1. CASE p \in news /\ m \in news
      BY <2>4, <3>1 DEF PayNews
    <3>2. CASE p \in news /\ m = n
      BY <1>2, <2>4, <3>2
    <3>3. CASE p = n
      BY <1>2, <2>4, <3>3 DEF Told
    <3>4. QED BY <1>2, <3>1, <3>2, <3>3
  <2>5. news' \subseteq NewsRows /\ todo' \subseteq news' /\ \A m \in news' : m \in news \/ m.of = c
    BY <1>0, <1>2
  <2> HIDE DEF Told, DealtWith
  <2>6. QED BY <2>1, <2>2, <2>3, <2>4, <2>5
<1>3. CASE ~(kind = "pending" /\ news' = news /\ todo' = todo)
  <2> HIDE DEF Told, DealtWith
  <2>1. PICK n \in NewsRows :
            /\ n.of = c /\ n.kind = kind
            /\ news' = news \cup {n} /\ todo' = todo \cup {n}
            /\ n \notin news
            /\ \A m \in news : m.of = c => m.at < n.at
            /\ Cardinality(NewsOf(c)') = n.at
    BY <1>3, TellsNext
  <2>2. QED BY <1>2, <2>1
<1>4. QED BY <1>1, <1>3

\* What the processor does.
LEMMA ChargeKeeps ==
    ASSUME PayInv, NEW c \in Charges, NEW l, NEW kind \in Kinds,
           NEW a \in AnyAccount, Charge(c, l, kind, a)
    PROVE  PayInv'
<1>0. PayTypes /\ PayPlaced /\ PayNews /\ PayTaken /\ PayMoney /\ PayLinks
  BY DEF PayInv
<1>1. charge[c].link = 0 /\ charge[c].state = "none"
  <2>1. charge[c] = NoCharge
    BY DEF Charge
  <2>2. QED BY <2>1, NoChargeType
<1>2. PICK r : r = [state |-> kind, link |-> l, account |-> a]
  OBVIOUS
<1>3. r \in ChargeRows /\ r.state = kind /\ r.link = l /\ kind \in {"paid", "pending"}
      /\ l \in DOMAIN payLink /\ l # 0
  <2>1. kind \in {"paid", "pending"} /\ l \in DOMAIN payLink
    BY DEF Charge
  <2>2. l \in Nat /\ l # 0
    <3>1. PICK k \in Nat : k = Len(payLink)
      BY <1>0, LenProperties DEF PayTypes
    <3>2. l \in 1..k
      BY <1>0, <2>1, <3>1, LenProperties DEF PayTypes
    <3>3. QED BY <3>1, <3>2
  <2>3. QED BY <1>2, <2>1, <2>2 DEF ChargeRows
<1>4. charge' = [charge EXCEPT ![c] = r]
  BY <1>2 DEF Charge
<1>5. charge'[c] = r /\ (\A d \in Charges : d # c => charge'[d] = charge[d]) /\ charge' \in [Charges -> ChargeRows]
  BY <1>0, <1>3, <1>4 DEF PayTypes
<1>6. /\ payLink' = payLink /\ desk' = desk /\ recorded' = recorded /\ byHand' = byHand
      /\ processor' = processor /\ voided' = voided /\ known' = known /\ crossed' = crossed
      /\ Tell(c, kind)
  BY DEF Charge
<1>7. ~Told(c, "paid") /\ ~Told(c, "part") /\ ~Told(c, "refunded") /\ recorded[c] = "none"
  BY <1>0, <1>1 DEF PayNews, TellsState, PayTaken, TakenSoFar, PayPlaced, PayTypes
<1>8. /\ news' \subseteq NewsRows /\ todo' \subseteq news' /\ IsFiniteSet(news')
      /\ \A n \in news' : n \in news \/ n.of = c
      /\ \A d \in Charges : \A k \in {"paid", "part", "refunded"} :
            /\ Told(d, k)' <=> Told(d, k) \/ (d = c /\ k = kind)
            /\ DealtWith(d, k)' <=> DealtWith(d, k)
      /\ \A n \in news' : n.at <= Cardinality(NewsOf(n.of)')
      /\ \A n, m \in news' :
            n.of = m.of /\ n.kind = "paid" /\ m.kind \in {"part", "refunded"} => n.at < m.at
  BY <1>0, <1>6, <1>7, TellKeeps
<1>9. ChargesStay /\ LinksStay
  BY <1>1, <1>5, <1>6 DEF ChargesStay, LinksStay
<1>10. PayTypes'
  BY <1>0, <1>5, <1>6, <1>8 DEF PayTypes
<1>11. PayPlaced'
  <2>1. \A d \in Charges : /\ charge'[d].link # 0 => charge'[d].link \in DOMAIN payLink
                           /\ charge'[d].state # "none" => charge'[d].link # 0
                           /\ recorded[d] # "none" => charge'[d].link # 0
    BY <1>0, <1>3, <1>5 DEF PayPlaced
  <2>2. \A n \in news' : charge'[n.of].link # 0
    <3>1. SUFFICES ASSUME NEW n \in news' PROVE charge'[n.of].link # 0
      OBVIOUS
    <3>2. CASE n.of = c
      BY <1>3, <1>5, <3>2
    <3>3. CASE n.of # c
      BY <1>0, <1>5, <1>8, <3>3 DEF PayPlaced, PayTypes, NewsRows
    <3>4. QED BY <3>2, <3>3
  <2>3. QED BY <1>6, <2>1, <2>2 DEF PayPlaced
<1>12. \A d \in Charges : TellsState(d)' /\ TakenSoFar(d)'
  <2>1. SUFFICES ASSUME NEW d \in Charges PROVE TellsState(d)' /\ TakenSoFar(d)'
    OBVIOUS
  <2>2. CASE d = c
    <3>1. TellsState(c)'
      BY <1>3, <1>5, <1>7, <1>8 DEF TellsState
    <3>2. ~DealtWith(c, "paid") /\ ~DealtWith(c, "part") /\ ~DealtWith(c, "refunded")
      BY <1>7 DEF Told, DealtWith
    <3>3. TakenSoFar(c)'
      BY <1>6, <1>7, <1>8, <3>2 DEF TakenSoFar
    <3>4. QED BY <2>2, <3>1, <3>3
  <2>3. CASE d # c
    <3>1. charge'[d] = charge[d] /\ TellsState(d) /\ TakenSoFar(d)
      BY <1>0, <1>5, <2>3 DEF PayNews, PayTaken
    <3>2. \A k \in {"paid", "part", "refunded"} :
             (Told(d, k)' <=> Told(d, k)) /\ (DealtWith(d, k)' <=> DealtWith(d, k))
      BY <1>8, <2>3
    <3>3. TellsState(d)'
      BY <3>1, <3>2 DEF TellsState
    <3>4. TakenSoFar(d)'
      BY <1>6, <3>1, <3>2 DEF TakenSoFar
    <3>5. QED BY <3>3, <3>4
  <2>4. QED BY <2>2, <2>3
<1>13. PayNews' /\ PayTaken'
  BY <1>8, <1>12 DEF PayNews, PayTaken
<1>14. PayMoney'
  BY <1>0, <1>6, <1>9, MoneyStays
<1>15. PayLinks'
  BY <1>0, <1>6 DEF PayLinks
<1>16. QED BY <1>10, <1>11, <1>13, <1>14, <1>15 DEF PayInv

LEMMA ChargeMovesKeeps ==
    ASSUME PayInv, NEW c \in Charges, NEW kind \in Kinds, ChargeMoves(c, kind)
    PROVE  PayInv'
<1>0. PayTypes /\ PayPlaced /\ PayNews /\ PayTaken /\ PayMoney /\ PayLinks
  BY DEF PayInv
<1>1. PICK from \in Kinds \cup {"none"} : from = charge[c].state
  BY <1>0 DEF PayTypes, ChargeRows
<1>2. <<from, kind>> \in Moves
  BY <1>1 DEF ChargeMoves
<1>3. \/ from = "pending" /\ kind \in {"paid", "failed"}
      \/ from = "paid" /\ kind \in {"part", "refunded"}
      \/ from = "part" /\ kind = "refunded"
  BY <1>2 DEF Moves
<1>4. charge' = [charge EXCEPT ![c].state = kind]
  BY DEF ChargeMoves
<1>5. /\ charge'[c].state = kind /\ charge'[c].link = charge[c].link
      /\ charge'[c].account = charge[c].account /\ charge[c].link # 0
      /\ \A d \in Charges : d # c => charge'[d] = charge[d]
      /\ charge' \in [Charges -> ChargeRows]
  <2>1. charge[c] \in ChargeRows /\ charge[c].link # 0
    BY <1>0, <1>1, <1>3 DEF PayTypes, PayPlaced
  <2>2. [charge[c] EXCEPT !.state = kind] \in ChargeRows
    BY <2>1 DEF ChargeRows
  <2>3. QED BY <1>0, <1>4, <2>1, <2>2 DEF PayTypes, ChargeRows
<1>6. /\ payLink' = payLink /\ desk' = desk /\ recorded' = recorded /\ byHand' = byHand
      /\ processor' = processor /\ voided' = voided /\ known' = known /\ crossed' = crossed
      /\ Tell(c, kind)
  BY DEF ChargeMoves
<1>7. TellsState(c) /\ TakenSoFar(c)
  BY <1>0 DEF PayNews, PayTaken
<1>8. kind = "paid" => ~Told(c, "part") /\ ~Told(c, "refunded")
  BY <1>1, <1>3, <1>7 DEF TellsState
<1>9. /\ news' \subseteq NewsRows /\ todo' \subseteq news' /\ IsFiniteSet(news')
      /\ \A n \in news' : n \in news \/ n.of = c
      /\ \A d \in Charges : \A k \in {"paid", "part", "refunded"} :
            /\ Told(d, k)' <=> Told(d, k) \/ (d = c /\ k = kind)
            /\ DealtWith(d, k)' <=> DealtWith(d, k)
      /\ \A n \in news' : n.at <= Cardinality(NewsOf(n.of)')
      /\ \A n, m \in news' :
            n.of = m.of /\ n.kind = "paid" /\ m.kind \in {"part", "refunded"} => n.at < m.at
  BY <1>0, <1>6, <1>8, TellKeeps
<1>10. ChargesStay /\ LinksStay
  BY <1>5, <1>6 DEF ChargesStay, LinksStay
<1>11. PayTypes'
  BY <1>0, <1>5, <1>6, <1>9 DEF PayTypes
<1>12. PayPlaced'
  <2>1. \A d \in Charges : /\ charge'[d].link # 0 => charge'[d].link \in DOMAIN payLink
                           /\ charge'[d].state # "none" => charge'[d].link # 0
                           /\ recorded[d] # "none" => charge'[d].link # 0
    BY <1>0, <1>5 DEF PayPlaced
  <2>2. \A n \in news' : charge'[n.of].link # 0
    BY <1>0, <1>5, <1>9 DEF PayPlaced, PayTypes, NewsRows
  <2>3. QED BY <1>6, <2>1, <2>2 DEF PayPlaced
<1>13. \A d \in Charges : TellsState(d)' /\ TakenSoFar(d)'
  <2>1. SUFFICES ASSUME NEW d \in Charges PROVE TellsState(d)' /\ TakenSoFar(d)'
    OBVIOUS
  <2>2. CASE d = c
    <3>1. TellsState(c)'
      BY <1>1, <1>3, <1>5, <1>7, <1>9 DEF TellsState
    <3>2. DealtWith(c, "part") => Told(c, "part")
      BY DEF Told, DealtWith
    <3>3. TakenSoFar(c)'
      <4>1. Told(c, "part") => from # "paid"
        BY <1>1, <1>7 DEF TellsState
      <4>2. QED BY <1>1, <1>3, <1>5, <1>6, <1>7, <1>9, <3>2, <4>1 DEF TakenSoFar
    <3>4. QED BY <2>2, <3>1, <3>3
  <2>3. CASE d # c
    <3>1. charge'[d] = charge[d] /\ TellsState(d) /\ TakenSoFar(d)
      BY <1>0, <1>5, <2>3 DEF PayNews, PayTaken
    <3>2. \A k \in {"paid", "part", "refunded"} :
             (Told(d, k)' <=> Told(d, k)) /\ (DealtWith(d, k)' <=> DealtWith(d, k))
      BY <1>9, <2>3
    <3>3. TellsState(d)'
      BY <3>1, <3>2 DEF TellsState
    <3>4. TakenSoFar(d)'
      BY <1>6, <3>1, <3>2 DEF TakenSoFar
    <3>5. QED BY <3>3, <3>4
  <2>4. QED BY <2>2, <2>3
<1>14. PayNews' /\ PayTaken'
  BY <1>9, <1>13 DEF PayNews, PayTaken
<1>15. PayMoney'
  BY <1>0, <1>6, <1>10, MoneyStays
<1>16. PayLinks'
  BY <1>0, <1>6 DEF PayLinks
<1>17. QED BY <1>11, <1>12, <1>14, <1>15, <1>16 DEF PayInv

LEMMA DepositType ==
    ASSUME PayTypes, NEW c \in Charges, Deposit(c) # "" PROVE Deposit(c) \in Accounts
<1>1. charge[c].account \in AnyAccount
  BY DEF PayTypes, ChargeRows
<1>2. "operating" \in Accounts
  BY DEF Accounts
<1>3. QED BY <1>1, <1>2 DEF Deposit, AnyAccount

\* What is done with a payment that is reported.
LEMMA StoreOneDoes ==
    ASSUME PayTypes, NEW c \in Charges, NEW stands, NEW s, s = StoreOne(c, stands)
    PROVE  /\ stands = "refunded" /\ recorded[c] = "live" => s.as = "void" /\ s.told = {}
           /\ stands = "part" /\ recorded[c] = "live" => s.as = "live" /\ s.told = {c}
           /\ stands = "paid" /\ recorded[c] = "none" =>
                 \/ s.as = "live" /\ s.told = {} /\ Fits(c) /\ Deposit(c) \in Accounts
                 \/ s.as = "none" /\ s.told = {c}
           /\ \/ stands = "refunded" /\ recorded[c] = "live"
              \/ stands = "part" /\ recorded[c] = "live"
              \/ stands = "paid" /\ recorded[c] = "none"
              \/ s.as = recorded[c] /\ s.told = {}
<1>1. PICK now : now = recorded[c]
  OBVIOUS
<1>2. CASE stands = "refunded" /\ now = "live"
  BY <1>1, <1>2 DEF StoreOne
<1>3. CASE stands = "part" /\ now = "live"
  BY <1>1, <1>3 DEF StoreOne
<1>4. CASE stands = "paid" /\ now = "none"
  <2>1. CASE Deposit(c) # "" /\ Fits(c)
    <3>1. Deposit(c) \in Accounts
      BY <2>1, DepositType
    <3>2. s = [as |-> "live", told |-> {}]
      BY <1>1, <1>4, <2>1 DEF StoreOne
    <3>3. Fits(c)
      BY <2>1
    <3>4. QED BY <1>1, <1>4, <3>1, <3>2, <3>3
  <2>2. CASE ~(Deposit(c) # "" /\ Fits(c))
    <3>1. s = [as |-> "none", told |-> {c}]
      BY <1>1, <1>4, <2>2 DEF StoreOne
    <3>2. QED BY <1>1, <1>4, <3>1
  <2>3. QED BY <2>1, <2>2
<1>5. CASE /\ ~(stands = "refunded" /\ now = "live")
           /\ ~(stands = "part" /\ now = "live")
           /\ ~(stands = "paid" /\ now = "none")
  <2>1. s = [as |-> now, told |-> {}]
    BY <1>1, <1>5 DEF StoreOne
  <2>2. QED BY <1>1, <1>5, <2>1
<1>6. QED BY <1>2, <1>3, <1>4, <1>5

LEMMA LinkAfterKeeps ==
    ASSUME PayTypes, PayPlaced, NEW n \in news, payLink' = LinkAfter(n)
    PROVE  /\ payLink' \in Seq(LinkRows) /\ DOMAIN payLink' = DOMAIN payLink
           /\ LinksStay
<1>1. CASE LinkAfter(n) = payLink
  BY <1>1 DEF PayTypes, LinksStay
<1>2. CASE LinkAfter(n) # payLink
  <2>1. PICK l : l = charge[n.of].link
    OBVIOUS
  <2>2. l \in DOMAIN payLink
    BY <2>1 DEF PayPlaced, PayTypes, NewsRows
  <2>3. payLink[l] \in LinkRows
    BY <2>2, ElementOfSeq DEF PayTypes
  <2>4. PICK r : r = [payLink[l] EXCEPT !.active = (n.kind = "failed")]
    OBVIOUS
  <2>5. r \in LinkRows /\ r.for = payLink[l].for
    BY <2>3, <2>4 DEF LinkRows
  <2>6. payLink' = [payLink EXCEPT ![l] = r]
    BY <1>2, <2>1, <2>4 DEF LinkAfter
  <2>7. payLink \in Seq(LinkRows) /\ l \in 1..Len(payLink) /\ DOMAIN payLink = 1..Len(payLink)
    BY <2>2, LenProperties DEF PayTypes
  <2>8. /\ payLink' \in Seq(LinkRows) /\ Len(payLink') = Len(payLink)
        /\ \A j \in 1..Len(payLink) : payLink'[j] = IF j = l THEN r ELSE payLink[j]
    BY <2>5, <2>6, <2>7, ExceptSeq
  <2>9. DOMAIN payLink' = DOMAIN payLink
    BY <2>7, <2>8, LenProperties
  <2>10. QED BY <2>5, <2>7, <2>8, <2>9 DEF LinksStay
<1>3. QED BY <1>1, <1>2

\* While links ask for what they did, one does not become like another.
LEMMA LinksAlike ==
    ASSUME PayLinks, LinksStay, DOMAIN payLink' = DOMAIN payLink, desk' = desk,
           crossed => crossed'
    PROVE  PayLinks'
BY DEF PayLinks, LinksStay

\* What an event tells, by how its charge stands.
LEMMA StatusTold ==
    ASSUME PayTypes, PayNews, NEW n \in news, NEW c, c = n.of, NEW stands, stands = Status(n)
    PROVE  /\ n.kind = "paid" <=> stands = "paid"
           /\ n.kind = "refunded" => stands = "refunded"
           /\ stands = "refunded" => charge[c].state = "refunded"
           /\ n.kind = "part" /\ charge[c].state = "part" => stands = "part"
<1>1. c \in Charges /\ TellsState(c) /\ n.kind \in Kinds
  BY DEF PayTypes, PayNews, NewsRows
<1>2. Told(c, n.kind)
  BY DEF Told
<1>3. n.kind = "refunded" => charge[c].state = "refunded"
  BY <1>1, <1>2 DEF TellsState
<1>4. n.kind = "part" => charge[c].state \in {"part", "refunded"}
  BY <1>1, <1>2 DEF TellsState
<1>5. CASE processor = "lawpay" /\ n.kind \in {"part", "refunded"}
  <2>1. stands = charge[c].state
    BY <1>5 DEF Status
  <2>2. QED BY <1>3, <1>4, <1>5, <2>1
<1>6. CASE ~(processor = "lawpay" /\ n.kind \in {"part", "refunded"})
  <2>1. stands = n.kind
    BY <1>6 DEF Status
  <2>2. QED BY <1>3, <2>1
<1>7. QED BY <1>5, <1>6

\* A payment that is recorded or voided is within what is owed.
LEMMA RecordedStays ==
    ASSUME PayTypes, PayPlaced, PayMoney, ChargesStay, LinksStay, byHand' = byHand,
           NEW c \in Charges, charge[c].link # 0,
           \/ recorded' = recorded
           \/ recorded[c] = "live" /\ recorded' = [recorded EXCEPT ![c] = "void"]
           \/ /\ recorded[c] = "none" /\ recorded' = [recorded EXCEPT ![c] = "live"]
              /\ Fits(c) /\ Deposit(c) \in Accounts
    PROVE  PayMoney'
<1>1. PICK D : D = {d \in Charges : recorded[d] # "none"}
  OBVIOUS
<1>2. IsFiniteSet(D \cup {c})
  BY <1>1, FS_AddElement DEF PayMoney
<1>3. {d \in Charges : recorded'[d] # "none"} \subseteq D \cup {c}
  BY <1>1 DEF PayTypes
<1>4. IsFiniteSet({d \in Charges : recorded'[d] # "none"})
  BY <1>2, <1>3, FS_Subset
<1>5. "trust" \in Accounts /\ "operating" \in Accounts /\ \A a \in Accounts : a \in {"trust", "operating"}
  BY DEF Accounts
<1>6. PICK t \in Int, o \in Int, m \in Nat :
          t = PaidOnline("trust") /\ o = PaidOnline("operating") /\ m = ChargeAmount[c]
  BY <1>5, PayAmounts DEF PayMoney
<1>7. PICK p \in Int, q \in Int : p = byHand["trust"] /\ q = byHand["operating"]
  BY <1>5 DEF PayTypes
<1>8. StillOwed = TrustPart + EarnedPart - (p + t) - (q + o) /\ StillOwed \in Nat
  BY <1>6, <1>7, PayOutstanding DEF StillOwed
<1>9. CASE recorded' = recorded
  BY <1>9, MoneyStays
<1>10. CASE recorded[c] = "live" /\ recorded' = [recorded EXCEPT ![c] = "void"]
  <2>1. /\ PaidOnline("trust")' = t - (IF Deposit(c) = "trust" THEN m ELSE 0)
        /\ PaidOnline("operating")' = o - (IF Deposit(c) = "operating" THEN m ELSE 0)
    BY <1>5, <1>6, <1>10, PaidShrinks
  <2>2. PICK t2 \in Int, o2 \in Int :
            t2 = PaidOnline("trust")' /\ o2 = PaidOnline("operating")' /\ t2 <= t /\ o2 <= o
    BY <1>6, <2>1
  <2>3. StillOwed' = TrustPart + EarnedPart - (p + t2) - (q + o2)
    BY <1>7, <2>2 DEF StillOwed
  <2>4. StillOwed' >= 0
    BY <1>8, <2>2, <2>3, OnlineAssumption
  <2>5. QED BY <1>4, <2>4 DEF PayMoney
<1>11. CASE /\ recorded[c] = "none" /\ recorded' = [recorded EXCEPT ![c] = "live"]
            /\ Fits(c) /\ Deposit(c) \in Accounts
  <2>1. m <= StillOwed
    BY <1>6, <1>11, PayOutstanding DEF Fits
  <2>2. /\ PaidOnline("trust")' = t + (IF Deposit(c) = "trust" THEN m ELSE 0)
        /\ PaidOnline("operating")' = o + (IF Deposit(c) = "operating" THEN m ELSE 0)
    BY <1>5, <1>6, <1>11, PaidGrows
  <2>3. PICK t2 \in Int, o2 \in Int :
            t2 = PaidOnline("trust")' /\ o2 = PaidOnline("operating")' /\ t2 + o2 = t + o + m
    BY <1>5, <1>6, <1>11, <2>2
  <2>4. StillOwed' = TrustPart + EarnedPart - (p + t2) - (q + o2)
    BY <1>7, <2>3 DEF StillOwed
  <2>5. StillOwed' >= 0
    BY <1>6, <1>8, <2>1, <2>3, <2>4, OnlineAssumption
  <2>6. QED BY <1>4, <2>5 DEF PayMoney
<1>12. QED BY <1>9, <1>10, <1>11

\* What the CRM does with an event.
LEMMA HandleKeeps ==
    ASSUME PayInv, NEW n \in news, Handle(n)
    PROVE  PayInv'
<1>0. PayTypes /\ PayPlaced /\ PayNews /\ PayTaken /\ PayMoney /\ PayLinks
  BY DEF PayInv
<1>1. PICK c \in Charges : c = n.of
  BY <1>0 DEF PayTypes, NewsRows
<1>2. PICK stands : stands = Status(n)
  OBVIOUS
<1>3. PICK s : s = StoreOne(c, stands)
  OBVIOUS
<1>4. /\ recorded' = [recorded EXCEPT ![c] = s.as] /\ known' = known \cup s.told
      /\ payLink' = LinkAfter(n) /\ todo' = todo \ {n} /\ n \in todo
      /\ processor' = processor /\ charge' = charge /\ news' = news /\ desk' = desk
      /\ byHand' = byHand /\ voided' = voided
  BY <1>1, <1>2, <1>3 DEF Handle
<1>5. crossed' = (crossed \/ Late(n)) /\ crossed' \in BOOLEAN /\ (crossed => crossed')
  BY <1>0 DEF Handle, Late, PayTypes
<1>6. /\ n.kind = "paid" <=> stands = "paid"
      /\ n.kind = "refunded" => stands = "refunded"
      /\ stands = "refunded" => charge[c].state = "refunded"
      /\ n.kind = "part" /\ charge[c].state = "part" => stands = "part"
  BY <1>0, <1>1, <1>2, StatusTold
<1>7. /\ stands = "refunded" /\ recorded[c] = "live" => s.as = "void" /\ s.told = {}
      /\ stands = "part" /\ recorded[c] = "live" => s.as = "live" /\ s.told = {c}
      /\ stands = "paid" /\ recorded[c] = "none" =>
            \/ s.as = "live" /\ s.told = {} /\ Fits(c) /\ Deposit(c) \in Accounts
            \/ s.as = "none" /\ s.told = {c}
      /\ \/ stands = "refunded" /\ recorded[c] = "live"
         \/ stands = "part" /\ recorded[c] = "live"
         \/ stands = "paid" /\ recorded[c] = "none"
         \/ s.as = recorded[c] /\ s.told = {}
  BY <1>0, <1>3, StoreOneDoes
<1>8. recorded[c] \in {"none", "live", "void"} /\ charge[c].link # 0
  BY <1>0, <1>1 DEF PayTypes, PayPlaced
<1>9. s.as \in {"none", "live", "void"} /\ s.told \subseteq {c}
  BY <1>7, <1>8
<1>10. recorded'[c] = s.as /\ \A d \in Charges : d # c => recorded'[d] = recorded[d]
  BY <1>0, <1>4 DEF PayTypes
<1>11. payLink' \in Seq(LinkRows) /\ DOMAIN payLink' = DOMAIN payLink /\ LinksStay
  BY <1>0, <1>4, LinkAfterKeeps
<1>12. PayTypes'
  <2>1. recorded' \in [Charges -> {"none", "live", "void"}]
    BY <1>0, <1>4, <1>9 DEF PayTypes
  <2>2. todo' \subseteq news' /\ known' \subseteq Charges
    BY <1>0, <1>4, <1>9 DEF PayTypes
  <2>3. QED BY <1>0, <1>4, <1>5, <1>11, <2>1, <2>2 DEF PayTypes
<1>13. ASSUME recorded[c] = "none", s.as # "none" PROVE s.as = "live" /\ stands = "paid"
  BY <1>7, <1>13
<1>14. PayPlaced'
  <2>1. \A d \in Charges : recorded'[d] # "none" => charge[d].link # 0
    BY <1>0, <1>8, <1>10 DEF PayPlaced
  <2>2. QED BY <1>0, <1>4, <1>11, <2>1 DEF PayPlaced
<1>15. \A d, k : Told(d, k)' <=> Told(d, k)
  BY <1>4 DEF Told
<1>16. PayNews'
  <2>1. \A d \in Charges : TellsState(d)'
    BY <1>0, <1>4, <1>15 DEF PayNews, TellsState
  <2>2. \A m \in news : NewsOf(m.of)' = NewsOf(m.of)
    BY <1>4 DEF NewsOf
  <2>3. QED BY <1>0, <1>4, <2>1, <2>2 DEF PayNews
<1>17. ASSUME NEW d \in Charges, NEW k, DealtWith(d, k)'
       PROVE  DealtWith(d, k) \/ (d = c /\ k = n.kind)
  BY <1>1, <1>4, <1>17 DEF DealtWith
<1>18. ASSUME ~crossed', n.kind \in {"part", "refunded"}
       PROVE  recorded[c] # "none" \/ c \in known
  <2>1. TellsState(c) /\ Told(c, n.kind)
    BY <1>0, <1>1 DEF PayNews, Told
  <2>2. Told(c, "paid")
    BY <1>18, <2>1 DEF TellsState
  <2>3. PICK m \in news : m.of = c /\ m.kind = "paid"
    BY <2>2 DEF Told
  <2>4. m.at < n.at
    BY <1>0, <1>1, <1>18, <2>3 DEF PayNews
  <2>5. m \notin todo
    BY <1>1, <1>5, <1>18, <2>3, <2>4 DEF Late
  <2>6. DealtWith(c, "paid")
    BY <2>3, <2>5 DEF DealtWith
  <2>7. QED BY <1>0, <1>5, <1>18, <2>6 DEF PayTaken, TakenSoFar
<1>19. TakenSoFar(c)'
  <2>1. TakenSoFar(c) /\ TellsState(c)
    BY <1>0 DEF PayTaken, PayNews
  <2>2. c \in known => c \in known'
    BY <1>4
  <2>3. s.told = {c} => c \in known'
    BY <1>4
  <2>4. recorded'[c] # "none" => Told(c, "paid")
    <3>1. stands = "paid" => Told(c, "paid")
      BY <1>1, <1>6 DEF Told
    <3>2. QED BY <1>10, <1>13, <2>1, <3>1 DEF TakenSoFar
  <2>5. recorded'[c] = "void" /\ c \notin known' => charge[c].state = "refunded"
    BY <1>6, <1>7, <1>8, <1>10, <2>1, <2>2 DEF TakenSoFar
  <2>6. ASSUME ~crossed', DealtWith(c, "paid")' PROVE recorded'[c] # "none" \/ c \in known'
    <3>1. CASE DealtWith(c, "paid")
      BY <1>5, <1>7, <1>8, <1>10, <2>1, <2>2, <2>3, <2>6, <3>1 DEF TakenSoFar
    <3>2. CASE n.kind = "paid"
      BY <1>6, <1>7, <1>8, <1>10, <2>3, <3>2
    <3>3. QED BY <1>17, <2>6, <3>1, <3>2
  <2>7. ASSUME ~crossed', DealtWith(c, "refunded")' PROVE recorded'[c] = "void" \/ c \in known'
    <3>1. CASE DealtWith(c, "refunded")
      BY <1>5, <1>7, <1>8, <1>10, <2>1, <2>2, <2>7, <3>1 DEF TakenSoFar
    <3>2. CASE n.kind = "refunded"
      BY <1>6, <1>7, <1>8, <1>10, <1>18, <2>2, <2>7, <3>2
    <3>3. QED BY <1>17, <2>7, <3>1, <3>2
  <2>8. ASSUME ~crossed', DealtWith(c, "part")', charge[c].state = "part" PROVE c \in known'
    <3>1. CASE DealtWith(c, "part")
      BY <1>5, <2>1, <2>2, <2>8, <3>1 DEF TakenSoFar
    <3>2. CASE n.kind = "part"
      <4>1. stands = "part" /\ (recorded[c] # "none" \/ c \in known)
        BY <1>6, <1>18, <2>8, <3>2
      <4>2. recorded[c] = "void" => c \in known
        BY <2>1, <2>8 DEF TakenSoFar
      <4>3. QED BY <1>7, <1>8, <2>2, <2>3, <4>1, <4>2
    <3>3. QED BY <1>17, <2>8, <3>1, <3>2
  <2>9. QED BY <1>4, <1>15, <2>4, <2>5, <2>6, <2>7, <2>8 DEF TakenSoFar
<1>20. ASSUME NEW d \in Charges, d # c PROVE TakenSoFar(d)'
  <2>1. TakenSoFar(d) /\ recorded'[d] = recorded[d]
    BY <1>0, <1>10, <1>20 DEF PayTaken
  <2>2. d \in known' <=> d \in known
    BY <1>4, <1>9, <1>20
  <2>3. \A k : DealtWith(d, k)' => DealtWith(d, k)
    BY <1>17, <1>20
  <2>4. QED BY <1>4, <1>5, <1>15, <2>1, <2>2, <2>3 DEF TakenSoFar
<1>21. PayTaken'
  BY <1>19, <1>20 DEF PayTaken
<1>22. ChargesStay
  BY <1>4 DEF ChargesStay
<1>23. \/ recorded' = recorded
       \/ recorded[c] = "live" /\ recorded' = [recorded EXCEPT ![c] = "void"]
       \/ /\ recorded[c] = "none" /\ recorded' = [recorded EXCEPT ![c] = "live"]
          /\ Fits(c) /\ Deposit(c) \in Accounts
  <2>1. s.as = recorded[c] => recorded' = recorded
    BY <1>0, <1>4 DEF PayTypes
  <2>2. QED BY <1>4, <1>7, <2>1
<1>24. PayMoney'
  BY <1>0, <1>4, <1>8, <1>11, <1>22, <1>23, RecordedStays
<1>25. PayLinks'
  BY <1>0, <1>4, <1>5, <1>11, LinksAlike
<1>26. QED BY <1>12, <1>14, <1>16, <1>21, <1>24, <1>25 DEF PayInv

\* LawPay's list is read again, an event of it fetched, or one of Stripe's lost.
LEMMA TodoKeeps ==
    ASSUME PayInv, NEW n \in news, ReadAgain(n) \/ Hint(n) \/ HandlingFails(n)
    PROVE  PayInv'
<1>0. PayTypes /\ PayPlaced /\ PayNews /\ PayTaken /\ PayMoney /\ PayLinks
  BY DEF PayInv
<1>1. /\ processor' = processor /\ charge' = charge /\ news' = news /\ payLink' = payLink
      /\ desk' = desk /\ recorded' = recorded /\ byHand' = byHand /\ voided' = voided
      /\ known' = known
  BY DEF ReadAgain, Hint, HandlingFails
<1>2. todo' \subseteq news' /\ crossed' \in BOOLEAN
      /\ (~crossed' => ~crossed /\ todo \subseteq todo')
  BY <1>0 DEF PayTypes, ReadAgain, Hint, HandlingFails
<1>3. PayTypes'
  BY <1>0, <1>1, <1>2 DEF PayTypes
<1>4. PayPlaced' /\ (PayLinks \/ crossed)
  BY <1>0, <1>1 DEF PayPlaced
<1>5. \A d, k : Told(d, k)' <=> Told(d, k)
  BY <1>1 DEF Told
<1>6. PayNews'
  <2>1. \A d \in Charges : TellsState(d)'
    BY <1>0, <1>1, <1>5 DEF PayNews, TellsState
  <2>2. \A m \in news : NewsOf(m.of)' = NewsOf(m.of)
    BY <1>1 DEF NewsOf
  <2>3. QED BY <1>0, <1>1, <2>1, <2>2 DEF PayNews
<1>7. PayTaken'
  <2>1. SUFFICES ASSUME NEW d \in Charges PROVE TakenSoFar(d)'
    BY DEF PayTaken
  <2>2. \A k : ~crossed' /\ DealtWith(d, k)' => ~crossed /\ DealtWith(d, k)
    BY <1>1, <1>2 DEF DealtWith
  <2>3. QED BY <1>0, <1>1, <1>5, <2>2 DEF PayTaken, TakenSoFar
<1>8. ChargesStay /\ LinksStay
  BY <1>1 DEF ChargesStay, LinksStay
<1>9. PayMoney'
  BY <1>0, <1>1, <1>8, MoneyStays
<1>10. PayLinks'
  BY <1>0, <1>1, <1>2 DEF PayLinks
<1>11. QED BY <1>3, <1>4, <1>6, <1>7, <1>9, <1>10 DEF PayInv

\* What staff do with payments and the invoice.
LEMMA StaffKeeps ==
    ASSUME PayInv,
           \/ VoidInvoice \/ (\E a \in Accounts : PayByHand(a))
           \/ \E c \in Charges : VoidPayment(c)
    PROVE  PayInv'
<1>0. PayTypes /\ PayPlaced /\ PayNews /\ PayTaken /\ PayMoney /\ PayLinks
  BY DEF PayInv
<1>1. /\ processor' = processor /\ charge' = charge /\ news' = news /\ todo' = todo
      /\ payLink' = payLink /\ desk' = desk /\ crossed' = crossed
  BY DEF VoidInvoice, PayByHand, VoidPayment
<1>2. \A d, k : (Told(d, k)' <=> Told(d, k)) /\ (DealtWith(d, k)' <=> DealtWith(d, k))
  BY <1>1 DEF Told, DealtWith
<1>3. PayNews'
  <2>1. \A d \in Charges : TellsState(d)'
    BY <1>0, <1>1, <1>2 DEF PayNews, TellsState
  <2>2. \A m \in news : NewsOf(m.of)' = NewsOf(m.of)
    BY <1>1 DEF NewsOf
  <2>3. QED BY <1>0, <1>1, <2>1, <2>2 DEF PayNews
<1>4. PayLinks'
  BY <1>0, <1>1 DEF PayLinks
<1>5. ChargesStay /\ LinksStay
  BY <1>1 DEF ChargesStay, LinksStay
<1>6. CASE VoidInvoice
  <2>1. voided' = TRUE /\ recorded' = recorded /\ byHand' = byHand /\ known' = known
    BY <1>6 DEF VoidInvoice
  <2>2. voided' \in BOOLEAN
    BY <2>1
  <2>3. PayTypes' /\ PayPlaced'
    BY <1>0, <1>1, <2>1, <2>2 DEF PayTypes, PayPlaced
  <2>4. PayTaken'
    BY <1>0, <1>1, <1>2, <2>1 DEF PayTaken, TakenSoFar
  <2>5. PayMoney'
    BY <1>0, <1>5, <2>1, MoneyStays
  <2>6. QED BY <1>3, <1>4, <2>3, <2>4, <2>5 DEF PayInv
<1>7. ASSUME NEW a \in Accounts, PayByHand(a) PROVE PayInv'
  <2>1. /\ byHand' = [byHand EXCEPT ![a] = byHand[a] + 1] /\ Outstanding > 0
        /\ recorded' = recorded /\ known' = known /\ voided' = voided
    BY <1>7 DEF PayByHand
  <2>2. byHand' \in [Accounts -> Int] /\ "trust" \in Accounts /\ "operating" \in Accounts
    BY <1>0, <2>1 DEF PayTypes, Accounts
  <2>3. PayTypes' /\ PayPlaced'
    BY <1>0, <1>1, <2>1, <2>2 DEF PayTypes, PayPlaced
  <2>4. PayTaken'
    BY <1>0, <1>1, <1>2, <2>1 DEF PayTaken, TakenSoFar
  <2>5. PICK t \in Int, o \in Int : t = PaidOnline("trust") /\ o = PaidOnline("operating")
    BY <1>0, <2>2, PayAmounts DEF PayMoney
  <2>6. PaidOnline("trust")' = t /\ PaidOnline("operating")' = o
    BY <1>0, <1>5, <2>1, <2>2, <2>5, PaidStays
  <2>7. PICK p \in Int, q \in Int : p = byHand["trust"] /\ q = byHand["operating"]
    BY <1>0, <2>2 DEF PayTypes
  <2>8. PICK pp \in Int, qq \in Int :
            pp = byHand'["trust"] /\ qq = byHand'["operating"] /\ pp + qq = p + q + 1
    <3>1. a \in {"trust", "operating"}
      BY DEF Accounts
    <3>2. CASE a = "trust"
      <4>1. byHand'["trust"] = p + 1 /\ byHand'["operating"] = q
        BY <1>0, <2>1, <2>2, <2>7, <3>2 DEF PayTypes
      <4>2. QED BY <4>1
    <3>3. CASE a = "operating"
      <4>1. byHand'["trust"] = p /\ byHand'["operating"] = q + 1
        BY <1>0, <2>1, <2>2, <2>7, <3>3 DEF PayTypes
      <4>2. QED BY <4>1
    <3>4. QED BY <3>1, <3>2, <3>3
  <2>9. StillOwed = TrustPart + EarnedPart - (p + t) - (q + o) /\ StillOwed \in Nat /\ StillOwed > 0
    <3>1. StillOwed \in Nat /\ Outstanding \in Int /\ Outstanding <= StillOwed
      BY <1>0, PayOutstanding
    <3>2. StillOwed = TrustPart + EarnedPart - (p + t) - (q + o)
      BY <2>5, <2>7 DEF StillOwed
    <3>3. QED BY <2>1, <3>1, <3>2
  <2>10. StillOwed' = TrustPart + EarnedPart - (pp + t) - (qq + o)
    BY <2>6, <2>8 DEF StillOwed
  <2>11. StillOwed' >= 0
    BY <2>5, <2>7, <2>8, <2>9, <2>10, OnlineAssumption
  <2>12. PayMoney'
    BY <1>0, <2>1, <2>11 DEF PayMoney
  <2>13. QED BY <1>3, <1>4, <2>3, <2>4, <2>12 DEF PayInv
<1>8. ASSUME NEW c \in Charges, VoidPayment(c) PROVE PayInv'
  <2>1. /\ recorded[c] = "live" /\ recorded' = [recorded EXCEPT ![c] = "void"]
        /\ known' = known \cup {c} /\ byHand' = byHand /\ voided' = voided
    BY <1>8 DEF VoidPayment
  <2>2. recorded'[c] = "void" /\ \A d \in Charges : d # c => recorded'[d] = recorded[d]
    BY <1>0, <2>1 DEF PayTypes
  <2>3. recorded' \in [Charges -> {"none", "live", "void"}] /\ known' \subseteq Charges
    BY <1>0, <2>1 DEF PayTypes
  <2>4. PayTypes' /\ PayPlaced'
    BY <1>0, <1>1, <2>1, <2>2, <2>3 DEF PayTypes, PayPlaced
  <2>5. PayTaken'
    <3>1. SUFFICES ASSUME NEW d \in Charges PROVE TakenSoFar(d)'
      BY DEF PayTaken
    <3>2. TakenSoFar(d)
      BY <1>0 DEF PayTaken
    <3>3. CASE d = c
      BY <1>1, <1>2, <2>1, <2>2, <3>2, <3>3 DEF TakenSoFar
    <3>4. CASE d # c
      BY <1>1, <1>2, <2>1, <2>2, <3>2, <3>4 DEF TakenSoFar
    <3>5. QED BY <3>3, <3>4
  <2>6. charge[c].link # 0
    BY <1>0, <2>1 DEF PayPlaced
  <2>7. PayMoney'
    BY <1>0, <1>5, <2>1, <2>6, RecordedStays
  <2>8. QED BY <1>3, <1>4, <2>4, <2>5, <2>7 DEF PayInv
<1>9. QED BY <1>6, <1>7, <1>8

\* Requests of staff for links.
LEMMA DeskKeeps ==
    ASSUME PayInv, NEW d \in Desks,
           AskLinks(d) \/ \E asking \in Askings, ok \in BOOLEAN : MakeLink(d, asking, ok)
    PROVE  PayInv'
<1>0. PayTypes /\ PayPlaced /\ PayNews /\ PayTaken /\ PayMoney /\ PayLinks
  BY DEF PayInv
<1>1. /\ processor' = processor /\ charge' = charge /\ news' = news /\ todo' = todo
      /\ recorded' = recorded /\ byHand' = byHand /\ voided' = voided /\ known' = known
  BY DEF AskLinks, MakeLink
<1>2. \A e, k : (Told(e, k)' <=> Told(e, k)) /\ (DealtWith(e, k)' <=> DealtWith(e, k))
  BY <1>1 DEF Told, DealtWith
<1>3. crossed' \in BOOLEAN /\ (~crossed' => ~crossed)
  <2>1. (\E e \in Desks : desk[e] # {}) \in BOOLEAN
    OBVIOUS
  <2>2. QED BY <1>0, <2>1 DEF PayTypes, AskLinks, MakeLink
<1>4. PayNews'
  <2>1. \A e \in Charges : TellsState(e)'
    BY <1>0, <1>1, <1>2 DEF PayNews, TellsState
  <2>2. \A m \in news : NewsOf(m.of)' = NewsOf(m.of)
    BY <1>1 DEF NewsOf
  <2>3. QED BY <1>0, <1>1, <2>1, <2>2 DEF PayNews
<1>5. PayTaken'
  BY <1>0, <1>1, <1>2, <1>3 DEF PayTaken, TakenSoFar
<1>6. ASSUME payLink' \in Seq(LinkRows), LinksStay, desk' \in [Desks -> SUBSET AskedRows], PayLinks'
      PROVE  PayInv'
  <2>1. PayTypes'
    BY <1>0, <1>1, <1>3, <1>6 DEF PayTypes
  <2>2. PayPlaced'
    BY <1>0, <1>1, <1>6 DEF PayPlaced, LinksStay
  <2>3. ChargesStay
    BY <1>1 DEF ChargesStay
  <2>4. PayMoney'
    BY <1>0, <1>1, <1>6, <2>3, MoneyStays
  <2>5. QED BY <1>4, <1>5, <1>6, <2>1, <2>2, <2>4 DEF PayInv
<1>7. CASE AskLinks(d)
  <2>1. PICK wanted : wanted = {n \in LinksNeeded : n.account \in Served}
    OBVIOUS
  <2>2. /\ desk' = [desk EXCEPT ![d] = wanted] /\ payLink' = payLink
        /\ crossed' = (crossed \/ \E e \in Desks : desk[e] # {})
    BY <1>7, <2>1 DEF AskLinks
  <2>3. wanted \subseteq AskedRows /\ \A n \in wanted : \A l \in DOMAIN payLink : payLink[l].for # n
    BY <1>0, <2>1, PayOutstanding DEF LinksNeeded
  <2>4. desk' \in [Desks -> SUBSET AskedRows]
    BY <1>0, <2>2, <2>3 DEF PayTypes
  <2>5. LinksStay /\ payLink' \in Seq(LinkRows)
    BY <1>0, <2>2 DEF LinksStay, PayTypes
  <2>6. desk'[d] = wanted /\ \A e \in Desks : e # d => desk'[e] = desk[e]
    BY <1>0, <2>2 DEF PayTypes
  <2>7. ASSUME ~crossed' PROVE \A e \in Desks : e # d => desk'[e] = {}
    BY <2>2, <2>6, <2>7
  <2>8. PayLinks'
    BY <1>0, <1>3, <2>2, <2>3, <2>6, <2>7 DEF PayLinks
  <2>9. QED BY <1>6, <2>4, <2>5, <2>8
<1>8. ASSUME NEW asking \in Askings, NEW ok \in BOOLEAN, MakeLink(d, asking, ok) PROVE PayInv'
  <2>1. /\ asking \in desk[d] /\ desk' = [desk EXCEPT ![d] = desk[d] \ {asking}]
        /\ crossed' = crossed
    BY <1>8 DEF MakeLink
  <2>2. asking \in AskedRows /\ desk' \in [Desks -> SUBSET AskedRows]
    BY <1>0, <2>1 DEF PayTypes
  <2>3. desk'[d] = desk[d] \ {asking} /\ \A e \in Desks : desk'[e] \subseteq desk[e]
    BY <1>0, <2>1 DEF PayTypes
  <2>4. CASE payLink' = payLink
    <3>1. LinksStay /\ payLink' \in Seq(LinkRows)
      BY <1>0, <2>4 DEF LinksStay, PayTypes
    <3>2. PayLinks'
      BY <1>0, <2>1, <2>3, <2>4 DEF PayLinks
    <3>3. QED BY <1>6, <2>2, <3>1, <3>2
  <2>5. CASE payLink' # payLink
    <3>1. PICK row : row = [for |-> asking, active |-> TRUE]
      OBVIOUS
    <3>2. row \in LinkRows /\ row.for = asking
      BY <2>2, <3>1 DEF LinkRows
    <3>3. payLink' = Append(payLink, row)
      BY <1>8, <2>5, <3>1 DEF MakeLink
    <3>4. PICK L \in Nat : L = Len(payLink) /\ DOMAIN payLink = 1..L
      BY <1>0, LenProperties DEF PayTypes
    <3>5. /\ payLink' \in Seq(LinkRows) /\ Len(payLink') = L + 1 /\ DOMAIN payLink' = 1..(L + 1)
          /\ payLink'[L + 1] = row /\ \A l \in 1..L : payLink'[l] = payLink[l]
      <4>1. /\ payLink' \in Seq(LinkRows) /\ Len(payLink') = L + 1
        BY <1>0, <3>2, <3>3, <3>4, AppendProperties DEF PayTypes
      <4>2. payLink'[L + 1] = row /\ \A l \in 1..L : payLink'[l] = payLink[l]
        BY <1>0, <3>2, <3>3, <3>4, AppendProperties DEF PayTypes
      <4>3. QED BY <4>1, <4>2, LenProperties
    <3>6. \A l \in DOMAIN payLink' : l \in DOMAIN payLink \/ l = L + 1
      BY <3>4, <3>5
    <3>7. \A l \in DOMAIN payLink : l \in DOMAIN payLink'
      BY <3>4, <3>5
    <3>8. LinksStay
      BY <3>4, <3>5, <3>7 DEF LinksStay
    <3>9. PayLinks'
      <4>1. SUFFICES ASSUME ~crossed
                     PROVE  /\ \A i, e \in Desks : desk'[i] # {} /\ desk'[e] # {} => i = e
                            /\ \A e \in Desks : \A a \in desk'[e] :
                                  \A l \in DOMAIN payLink' : payLink'[l].for # a
                            /\ \A k, l \in DOMAIN payLink' : payLink'[k].for = payLink'[l].for => k = l
        BY <2>1 DEF PayLinks
      <4>2. /\ \A i, e \in Desks : desk[i] # {} /\ desk[e] # {} => i = e
            /\ \A e \in Desks : \A a \in desk[e] :
                  \A l \in DOMAIN payLink : payLink[l].for # a
            /\ \A k, l \in DOMAIN payLink : payLink[k].for = payLink[l].for => k = l
        BY <1>0, <4>1 DEF PayLinks
      <4>3. \A i, e \in Desks : desk'[i] # {} /\ desk'[e] # {} => i = e
        BY <2>3, <4>2
      <4>4. \A l \in DOMAIN payLink : payLink'[l].for = payLink[l].for /\ payLink[l].for # asking
        BY <2>1, <3>8, <4>2 DEF LinksStay
      <4>5. payLink'[L + 1].for = asking
        BY <3>2, <3>5
      <4>6. ASSUME NEW e \in Desks, NEW a \in desk'[e], NEW l \in DOMAIN payLink'
            PROVE  payLink'[l].for # a
        <5>1. a \in desk[e] /\ e = d /\ a # asking
          BY <2>1, <2>3, <4>2, <4>6
        <5>2. QED BY <3>6, <4>2, <4>4, <4>5, <5>1
      <4>7. ASSUME NEW k \in DOMAIN payLink', NEW l \in DOMAIN payLink', payLink'[k].for = payLink'[l].for
            PROVE  k = l
        BY <3>6, <4>2, <4>4, <4>5, <4>7
      <4>8. QED BY <4>3, <4>6, <4>7
    <3>10. QED BY <1>6, <2>2, <3>5, <3>8, <3>9
  <2>6. QED BY <2>4, <2>5
<1>9. QED BY <1>7, <1>8

LEMMA PayInvStep == PayInv /\ [PayNext]_payVars => PayInv'
<1> SUFFICES ASSUME PayInv, [PayNext]_payVars PROVE PayInv'
  OBVIOUS
<1>1. CASE PayNext
  <2>1. ASSUME NEW d \in Desks,
               AskLinks(d) \/ \E asking \in Askings, ok \in BOOLEAN : MakeLink(d, asking, ok)
        PROVE  PayInv'
    BY <2>1, DeskKeeps
  <2>2. ASSUME NEW c \in Charges, NEW kind \in Kinds, ChargeMoves(c, kind) PROVE PayInv'
    BY <2>2, ChargeMovesKeeps
  <2>3. ASSUME NEW c \in Charges, NEW kind \in Kinds, NEW l \in 1..MaxLinks,
               NEW a \in Accounts \cup {""}, Charge(c, l, kind, a)
        PROVE  PayInv'
    <3>1. a \in AnyAccount
      BY DEF AnyAccount
    <3>2. QED BY <2>3, <3>1, ChargeKeeps
  <2>4. ASSUME NEW n \in news, Handle(n) \/ ReadAgain(n) \/ Hint(n) \/ HandlingFails(n)
        PROVE  PayInv'
    BY <2>4, HandleKeeps, TodoKeeps
  <2>5. CASE \/ VoidInvoice \/ (\E a \in Accounts : PayByHand(a))
             \/ \E c \in Charges : VoidPayment(c)
    BY <2>5, StaffKeeps
  <2>6. QED BY <1>1, <2>1, <2>2, <2>3, <2>4, <2>5 DEF PayNext
<1>2. CASE UNCHANGED payVars
  <2>1. /\ processor' = processor /\ charge' = charge /\ news' = news /\ todo' = todo
        /\ payLink' = payLink /\ desk' = desk /\ recorded' = recorded /\ byHand' = byHand
        /\ voided' = voided /\ known' = known /\ crossed' = crossed
    BY <1>2 DEF payVars
  <2>2. PayTypes' /\ PayPlaced' /\ PayLinks'
    BY <2>1 DEF PayInv, PayTypes, PayPlaced, PayLinks
  <2>3. \A d, k : (Told(d, k)' <=> Told(d, k)) /\ (DealtWith(d, k)' <=> DealtWith(d, k))
    BY <2>1 DEF Told, DealtWith
  <2>4. PayNews'
    <3>1. \A d \in Charges : TellsState(d)'
      BY <2>1, <2>3 DEF PayInv, PayNews, TellsState
    <3>2. \A m \in news : NewsOf(m.of)' = NewsOf(m.of)
      BY <2>1 DEF NewsOf
    <3>3. QED BY <2>1, <3>1, <3>2 DEF PayInv, PayNews
  <2>5. PayTaken'
    BY <2>1, <2>3 DEF PayInv, PayTaken, TakenSoFar
  <2>6. ChargesStay /\ LinksStay
    BY <2>1 DEF ChargesStay, LinksStay
  <2>7. PayMoney'
    BY <2>1, <2>6, MoneyStays DEF PayInv
  <2>8. QED BY <2>2, <2>4, <2>5, <2>7 DEF PayInv
<1>3. QED BY <1>1, <1>2

LEMMA PayInvImplies == PayInv => PaidOnlineKept
<1> SUFFICES ASSUME PayInv PROVE PaidOnlineKept
  OBVIOUS
<1>0. PayTypes /\ PayPlaced /\ PayNews /\ PayTaken /\ PayMoney /\ PayLinks
  BY DEF PayInv
<1>1. DueIsBalance
  BY <1>0, PayOutstanding
<1>2. OneLinkEach
  BY <1>0 DEF PayLinks, OneLinkEach
<1>3. TakenIsBooked
  <2>1. SUFFICES ASSUME todo = {}, ~crossed, NEW c \in Charges
                 PROVE  IF charge[c].state = "paid" THEN recorded[c] = "live" \/ c \in known
                        ELSE IF charge[c].state = "part" THEN c \in known
                        ELSE recorded[c] # "live" \/ c \in known
    BY DEF TakenIsBooked
  <2>2. TellsState(c) /\ TakenSoFar(c) /\ recorded[c] \in {"none", "live", "void"}
    BY <1>0 DEF PayNews, PayTaken, PayTypes
  <2>3. \A k : Told(c, k) => DealtWith(c, k)
    BY <2>1 DEF Told, DealtWith
  <2>4. QED BY <2>1, <2>2, <2>3 DEF TellsState, TakenSoFar
<1>4. QED BY <1>1, <1>2, <1>3 DEF PaidOnlineKept

\* Online payments are asked for once, and recorded as they were made, for any number of
\* charges, links and requests (create_links, amounts_due, handle_webhook, records_for,
\* store_one).
THEOREM PaidOnlineStays == PaySpec => []PaidOnlineKept
<1>1. PayInv /\ [PayNext]_payVars => PayInv'
  BY PayInvStep
<1>2. QED BY PayInvInit, <1>1, PayInvImplies, PTL DEF PaySpec
=============================================================================
