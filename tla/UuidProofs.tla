----------------------------- MODULE UuidProofs -----------------------------
(***************************************************************************)
(* Proofs about Uuid, for any services, limits and clocks.  TimeInv ties   *)
(* the cached second of a service to its timer: as long as the second has  *)
(* not passed, the timer is not due before it has.  SidInv says that the   *)
(* services of a process that loads the library before it uses it, and     *)
(* runs lsid in one worker at a time, have different numbers.              *)
(***************************************************************************)
EXTENDS Uuid, TLAPS

\* A cached second is not in the future, and its timer outlives it.
TimeInv ==
    /\ left \in 1 .. TimerTicks
    /\ \A v \in Maker : timestamp[v] # Nil =>
            /\ timestamp[v] <= clock
            /\ timestamp[v] = clock => expire[v] >= tick + left

\* An identifier comes before whatever its service may return next.
IssuedInv ==
    \A v \in Maker : \A i \in DOMAIN issued[v] :
        LET id == issued[v][i] IN
        /\ id.service = service[v] /\ service[v] # Nil
        /\ timestamp[v] = Nil => id.timestamp < clock
        /\ timestamp[v] # Nil =>
                \/ id.timestamp < timestamp[v]
                \/ id.timestamp = timestamp[v] /\ id.sequence <= sequence[v]

\* Only a service that has no number is inside lsid.
OnceInv == \A v \in Maker : register[v] # Nil => service[v] = Nil

OrderInv == TypeOK /\ TimeInv /\ IssuedInv /\ OnceInv /\ Increasing

\* Once a number was given, nobody resets the counter; at most one service is
\* inside lsid, and the numbers given are different and not above the counter.
SidInv ==
    /\ ~ NobodyServed => loaded = Vm
    /\ \A v \in Maker : register[v] # Nil => register[v] = sid + 1
    /\ \A v, w \in Maker : register[v] # Nil /\ register[w] # Nil => v = w
    /\ \A v \in Maker : service[v] # Nil => service[v] <= sid
    /\ \A v, w \in Maker : service[v] # Nil /\ service[v] = service[w] => v = w

-----------------------------------------------------------------------------
(* One lemma per action that OrderInv depends on.                          *)

LEMMA InitOrder == Init => OrderInv
  BY LimitAssumption, SMTT(30)
  DEF Init, OrderInv, TypeOK, TimeInv, IssuedInv, OnceInv, Increasing, Id

LEMMA NumberType ==
  ASSUME TypeOK, NEW v \in Maker
  PROVE  Number(v) \in Nat /\ Stamp(v) \in Nat /\ Due \in Nat
  BY LimitAssumption DEF TypeOK, Number, Stamp, Due

LEMMA IssuedType ==
  ASSUME TypeOK, NEW v \in Maker, NEW i \in DOMAIN issued[v]
  PROVE  issued[v][i].timestamp \in Nat /\ issued[v][i].sequence \in Nat
<1>1. issued[v] \in Seq(Id)
  BY DEF TypeOK
<1>2. issued[v][i] \in Id
  BY <1>1
<1> QED BY <1>2 DEF Id

\* What Gen and GenFailed share.
LEMMA AdvanceTime ==
  ASSUME OrderInv, NEW v \in Maker, Advance(v), UNCHANGED timeVars
  PROVE  /\ timestamp' \in [Maker -> Nat \cup {Nil}]
         /\ sequence' \in [Maker -> Nat]
         /\ expire' \in [Maker -> Nat]
         /\ TimeInv'
         /\ timestamp'[v] = Stamp(v) /\ sequence'[v] = Number(v)
         /\ timestamp'[v] # Nil
         /\ \A w \in Maker \ {v} : timestamp'[w] = timestamp[w]
                                    /\ sequence'[w] = sequence[w]
<1>1. Number(v) \in Nat /\ Stamp(v) \in Nat /\ Due \in Nat
  BY NumberType DEF OrderInv
<1>2. /\ timestamp' \in [Maker -> Nat \cup {Nil}]
      /\ sequence' \in [Maker -> Nat]
      /\ expire' \in [Maker -> Nat]
  BY <1>1 DEF OrderInv, TypeOK, Advance
<1>3. /\ timestamp'[v] = Stamp(v) /\ sequence'[v] = Number(v)
      /\ timestamp'[v] # Nil
      /\ \A w \in Maker \ {v} : timestamp'[w] = timestamp[w]
                                 /\ sequence'[w] = sequence[w]
  BY <1>1, LimitAssumption DEF OrderInv, TypeOK, Advance
<1>4. TimeInv'
  <2>1. left' = left /\ clock' = clock /\ tick' = tick
    BY DEF timeVars
  <2>2. left <= TimerTicks
    BY DEF OrderInv, TimeInv, TypeOK
  <2> QED
    BY <1>1, <1>2, <1>3, <2>1, <2>2, LimitAssumption
    DEF OrderInv, TypeOK, TimeInv, Advance, Stamp, Due
<1> QED BY <1>2, <1>3, <1>4

\* The identifiers issued before come before the one gen makes.
LEMMA AdvanceIssued ==
  ASSUME OrderInv, NEW v \in Maker, Advance(v),
         NEW i \in DOMAIN issued[v]
  PROVE  LET id == issued[v][i] IN
         /\ id.timestamp \in Nat /\ id.sequence \in Nat
         /\ id.service = service[v]
         /\ \/ id.timestamp < Stamp(v)
            \/ id.timestamp = Stamp(v) /\ id.sequence < Number(v)
<1> DEFINE id == issued[v][i]
<1>1. id.timestamp \in Nat /\ id.sequence \in Nat
  BY IssuedType DEF OrderInv
<1>2. /\ id.service = service[v]
      /\ timestamp[v] = Nil => id.timestamp < clock
      /\ timestamp[v] # Nil =>
            \/ id.timestamp < timestamp[v]
            \/ id.timestamp = timestamp[v] /\ id.sequence <= sequence[v]
  BY DEF OrderInv, IssuedInv
<1>3. sequence[v] \in Nat
  BY DEF OrderInv, TypeOK
<1> HIDE DEF id
<1>4. \/ id.timestamp < Stamp(v)
      \/ id.timestamp = Stamp(v) /\ id.sequence < Number(v)
  BY <1>1, <1>2, <1>3 DEF Stamp, Number
<1> QED BY <1>1, <1>2, <1>4 DEF id

LEMMA GenOrder ==
  ASSUME OrderInv, NEW v \in Maker, Gen(v)
  PROVE  OrderInv'
<1> DEFINE new == [timestamp |-> Stamp(v), service |-> service[v],
                   sequence |-> Number(v)]
<1>1. Advance(v) /\ UNCHANGED <<sidVars, timeVars>>
  BY DEF Gen
<1>2. Number(v) \in Nat /\ Stamp(v) \in Nat /\ Due \in Nat
  BY NumberType DEF OrderInv
<1>3. service[v] \in Nat
  BY DEF Gen, Advance, OrderInv, TypeOK
<1>4. new \in Id
  BY <1>2, <1>3 DEF Id
<1>5. /\ issued'[v] = Append(issued[v], new)
      /\ \A w \in Maker \ {v} : issued'[w] = issued[w]
      /\ issued' \in [Maker -> Seq(Id)]
  BY <1>4 DEF Gen, OrderInv, TypeOK
<1>6. issued[v] \in Seq(Id)
  BY DEF OrderInv, TypeOK
<1>7. /\ DOMAIN issued'[v] = 1 .. Len(issued[v]) + 1
      /\ DOMAIN issued[v] = 1 .. Len(issued[v])
      /\ Len(issued[v]) \in Nat
      /\ \A i \in DOMAIN issued[v] : issued'[v][i] = issued[v][i]
      /\ issued'[v][Len(issued[v]) + 1] = new
  BY <1>4, <1>5, <1>6
<1>8. /\ timestamp' \in [Maker -> Nat \cup {Nil}]
      /\ sequence' \in [Maker -> Nat]
      /\ expire' \in [Maker -> Nat]
      /\ TimeInv'
      /\ timestamp'[v] = Stamp(v) /\ sequence'[v] = Number(v)
      /\ timestamp'[v] # Nil
      /\ \A w \in Maker \ {v} : timestamp'[w] = timestamp[w]
                                 /\ sequence'[w] = sequence[w]
  BY <1>1, AdvanceTime
<1>9. TypeOK'
  BY <1>1, <1>5, <1>8 DEF OrderInv, TypeOK, sidVars, timeVars
<1>10. service' = service /\ clock' = clock
  BY <1>1 DEF sidVars, timeVars
<1>11. IssuedInv'
  <2> SUFFICES ASSUME NEW w \in Maker, NEW i \in DOMAIN issued'[w]
               PROVE  LET id == issued'[w][i] IN
                      /\ id.service = service[w] /\ service[w] # Nil
                      /\ timestamp'[w] = Nil => id.timestamp < clock
                      /\ timestamp'[w] # Nil =>
                          \/ id.timestamp < timestamp'[w]
                          \/ /\ id.timestamp = timestamp'[w]
                             /\ id.sequence <= sequence'[w]
    BY <1>10 DEF IssuedInv
  <2>1. CASE w # v
    BY <2>1, <1>5, <1>8 DEF OrderInv, IssuedInv
  <2>2. CASE w = v /\ i = Len(issued[v]) + 1
    BY <2>2, <1>2, <1>3, <1>7, <1>8, LimitAssumption
  <2>3. CASE w = v /\ i \in DOMAIN issued[v]
    <3>1. issued'[w][i] = issued[v][i]
      BY <2>3, <1>7
    <3>2. LET id == issued[v][i] IN
          /\ id.timestamp \in Nat /\ id.sequence \in Nat
          /\ id.service = service[v]
          /\ \/ id.timestamp < Stamp(v)
             \/ id.timestamp = Stamp(v) /\ id.sequence < Number(v)
      BY <2>3, <1>1, AdvanceIssued
    <3> QED BY <3>1, <3>2, <2>3, <1>2, <1>3, <1>8, LimitAssumption
  <2> QED BY <2>1, <2>2, <2>3, <1>7
<1>12. Increasing'
  <2> SUFFICES ASSUME NEW w \in Maker,
                      NEW i \in DOMAIN issued'[w], NEW j \in DOMAIN issued'[w],
                      i < j
               PROVE  Before(issued'[w][i], issued'[w][j])
    BY DEF Increasing, Before
  <2>1. CASE w # v
    BY <2>1, <1>5 DEF OrderInv, Increasing
  <2>2. CASE w = v /\ j \in DOMAIN issued[v]
    <3>1. i \in DOMAIN issued[v]
      BY <2>2, <1>7
    <3> QED BY <3>1, <2>2, <1>7 DEF OrderInv, Increasing
  <2>3. CASE w = v /\ j = Len(issued[v]) + 1
    <3>1. i \in DOMAIN issued[v]
      BY <2>3, <1>7
    <3>2. LET id == issued[v][i] IN
          \/ id.timestamp < Stamp(v)
          \/ id.timestamp = Stamp(v) /\ id.sequence < Number(v)
      BY <3>1, <1>1, AdvanceIssued
    <3> QED BY <3>1, <3>2, <2>3, <1>7 DEF Before
  <2> QED BY <2>1, <2>2, <2>3, <1>7
<1>13. OnceInv'
  BY <1>1, <1>10 DEF OrderInv, OnceInv, sidVars
<1> QED BY <1>8, <1>9, <1>11, <1>12, <1>13 DEF OrderInv

LEMMA GenFailedOrder ==
  ASSUME OrderInv, NEW v \in Maker, GenFailed(v)
  PROVE  OrderInv'
<1>1. Advance(v) /\ UNCHANGED <<issued, sidVars, timeVars>>
  BY DEF GenFailed
<1>2. /\ timestamp' \in [Maker -> Nat \cup {Nil}]
      /\ sequence' \in [Maker -> Nat]
      /\ expire' \in [Maker -> Nat]
      /\ TimeInv'
      /\ timestamp'[v] = Stamp(v) /\ sequence'[v] = Number(v)
      /\ timestamp'[v] # Nil
      /\ \A w \in Maker \ {v} : timestamp'[w] = timestamp[w]
                                 /\ sequence'[w] = sequence[w]
  BY <1>1, AdvanceTime
<1>3. TypeOK'
  BY <1>1, <1>2 DEF OrderInv, TypeOK, sidVars, timeVars
<1>4. IssuedInv'
  <2>1. service' = service /\ clock' = clock /\ issued' = issued
    BY <1>1 DEF sidVars, timeVars
  <2>2. Number(v) \in Nat /\ Stamp(v) \in Nat
    BY NumberType DEF OrderInv
  <2> SUFFICES ASSUME NEW w \in Maker, NEW i \in DOMAIN issued[w]
               PROVE  LET id == issued[w][i] IN
                      /\ id.service = service[w] /\ service[w] # Nil
                      /\ timestamp'[w] = Nil => id.timestamp < clock
                      /\ timestamp'[w] # Nil =>
                          \/ id.timestamp < timestamp'[w]
                          \/ /\ id.timestamp = timestamp'[w]
                             /\ id.sequence <= sequence'[w]
    BY <2>1 DEF IssuedInv
  <2>3. CASE w # v
    BY <2>3, <1>2 DEF OrderInv, IssuedInv
  <2>4. CASE w = v
    <3>1. LET id == issued[v][i] IN
          /\ id.timestamp \in Nat /\ id.sequence \in Nat
          /\ id.service = service[v]
          /\ \/ id.timestamp < Stamp(v)
             \/ id.timestamp = Stamp(v) /\ id.sequence < Number(v)
      BY <2>4, <1>1, AdvanceIssued
    <3>2. service[v] # Nil
      BY <1>1 DEF Advance
    <3> QED BY <3>1, <3>2, <2>2, <2>4, <1>2
  <2> QED BY <2>3, <2>4
<1>5. Increasing'
  BY <1>1 DEF OrderInv, Increasing, Before
<1>6. OnceInv'
  BY <1>1 DEF OrderInv, OnceInv, sidVars
<1> QED BY <1>2, <1>3, <1>4, <1>5, <1>6 DEF OrderInv

\* The timer cannot ring within the second that was cached.
LEMMA TimerFireOrder ==
  ASSUME OrderInv, Slack = 0, NEW v \in Maker, TimerFire(v)
  PROVE  OrderInv'
<1>1. timestamp[v] \in Nat /\ timestamp[v] < clock
  BY LimitAssumption DEF TimerFire, OrderInv, TypeOK, TimeInv
<1>2. /\ timestamp' \in [Maker -> Nat \cup {Nil}]
      /\ timestamp'[v] = Nil
      /\ \A w \in Maker \ {v} : timestamp'[w] = timestamp[w]
      /\ UNCHANGED <<sequence, expire, issued, service, clock, tick, left,
                     sid, loaded, register>>
  BY DEF TimerFire, OrderInv, TypeOK, sidVars, timeVars
<1>3. TypeOK'
  BY <1>2 DEF OrderInv, TypeOK
<1>4. TimeInv'
  BY <1>2 DEF OrderInv, TimeInv
<1>5. IssuedInv'
  <2> SUFFICES ASSUME NEW w \in Maker, NEW i \in DOMAIN issued[w]
               PROVE  LET id == issued[w][i] IN
                      /\ id.service = service[w] /\ service[w] # Nil
                      /\ timestamp'[w] = Nil => id.timestamp < clock
                      /\ timestamp'[w] # Nil =>
                          \/ id.timestamp < timestamp'[w]
                          \/ /\ id.timestamp = timestamp'[w]
                             /\ id.sequence <= sequence[w]
    BY <1>2 DEF IssuedInv
  <2>1. CASE w # v
    BY <2>1, <1>2 DEF OrderInv, IssuedInv
  <2>2. CASE w = v
    <3>2. issued[v][i].timestamp \in Nat /\ issued[v][i].sequence \in Nat
      BY <2>2, IssuedType DEF OrderInv
    <3>3. clock \in Nat
      BY DEF OrderInv, TypeOK
    <3>4. timestamp[v] # Nil
      BY DEF TimerFire
    <3> QED BY <3>2, <3>3, <3>4, <2>2, <1>1, <1>2 DEF OrderInv, IssuedInv
  <2> QED BY <2>1, <2>2
<1>6. Increasing'
  BY <1>2 DEF OrderInv, Increasing, Before
<1>7. OnceInv'
  BY <1>2 DEF OrderInv, OnceInv
<1> QED BY <1>3, <1>4, <1>5, <1>6, <1>7 DEF OrderInv

LEMMA TickOrder ==
  ASSUME OrderInv, Tick
  PROVE  OrderInv'
<1>1. UNCHANGED <<sid, loaded, register, service, timestamp, sequence, expire,
                  issued>>
  BY DEF Tick, sidVars, stampVars
<1>2. /\ tick' \in Nat /\ tick' = tick + 1
      /\ left' \in 1 .. TimerTicks
      /\ clock' \in Nat
      /\ \/ left' = left - 1 /\ clock' = clock
         \/ clock' = clock + 1
  BY LimitAssumption DEF Tick, OrderInv, TypeOK, TimeInv
<1>3. TypeOK'
  BY <1>1, <1>2, LimitAssumption DEF OrderInv, TypeOK
<1>4. TimeInv'
  <2> SUFFICES ASSUME NEW v \in Maker, timestamp[v] # Nil
               PROVE  /\ timestamp[v] <= clock'
                      /\ timestamp[v] = clock' => expire[v] >= tick' + left'
    BY <1>1, <1>2 DEF TimeInv
  <2>1. /\ timestamp[v] \in Nat /\ expire[v] \in Nat
        /\ clock \in Nat /\ tick \in Nat /\ left \in Nat
        /\ timestamp[v] <= clock
        /\ timestamp[v] = clock => expire[v] >= tick + left
    BY DEF OrderInv, TypeOK, TimeInv
  <2> QED BY <2>1, <1>2, LimitAssumption
<1>5. IssuedInv'
  <2> SUFFICES ASSUME NEW w \in Maker, NEW i \in DOMAIN issued[w]
               PROVE  LET id == issued[w][i] IN
                      /\ id.service = service[w] /\ service[w] # Nil
                      /\ timestamp[w] = Nil => id.timestamp < clock'
                      /\ timestamp[w] # Nil =>
                          \/ id.timestamp < timestamp[w]
                          \/ /\ id.timestamp = timestamp[w]
                             /\ id.sequence <= sequence[w]
    BY <1>1 DEF IssuedInv
  <2>1. clock \in Nat
    BY DEF OrderInv, TypeOK
  <2>2. issued[w][i].timestamp \in Nat
    BY IssuedType DEF OrderInv
  <2> QED BY <2>1, <2>2, <1>2 DEF OrderInv, IssuedInv
<1>6. Increasing'
  BY <1>1 DEF OrderInv, Increasing, Before
<1>7. OnceInv'
  BY <1>1 DEF OrderInv, OnceInv
<1> QED BY <1>3, <1>4, <1>5, <1>6, <1>7 DEF OrderInv

\* The steps of the process's counter only give a service its number.
LEMMA SidOrder ==
  ASSUME OrderInv,
         \/ \E v \in Vm : Load(v)
         \/ \E v \in Maker : SidRead(v) \/ SidWrite(v)
  PROVE  OrderInv'
<1>1. UNCHANGED <<timestamp, sequence, expire, issued, clock, tick, left>>
  BY DEF Load, SidRead, SidWrite, stampVars, timeVars
<1>2. /\ sid' \in Nat /\ loaded' \subseteq Vm
      /\ register' \in [Maker -> Nat \cup {Nil}]
      /\ service' \in [Maker -> Nat \cup {Nil}]
  <2>1. ASSUME NEW v \in Vm, Load(v)
        PROVE  sid' \in Nat /\ loaded' \subseteq Vm /\ UNCHANGED <<register, service>>
    BY <2>1 DEF Load, OrderInv, TypeOK
  <2>2. ASSUME NEW v \in Maker, SidRead(v)
        PROVE  /\ register' \in [Maker -> Nat \cup {Nil}]
               /\ UNCHANGED <<sid, loaded, service>>
    BY <2>2 DEF SidRead, OrderInv, TypeOK
  <2>3. ASSUME NEW v \in Maker, SidWrite(v)
        PROVE  /\ sid' \in Nat /\ UNCHANGED loaded
               /\ register' \in [Maker -> Nat \cup {Nil}]
               /\ service' \in [Maker -> Nat \cup {Nil}]
    <3>1. register[v] \in Nat
      BY <2>3 DEF SidWrite, OrderInv, TypeOK
    <3> QED BY <2>3, <3>1 DEF SidWrite, OrderInv, TypeOK
  <2> QED BY <2>1, <2>2, <2>3 DEF OrderInv, TypeOK
<1>3. TypeOK'
  BY <1>1, <1>2 DEF OrderInv, TypeOK
<1>4. TimeInv' /\ Increasing'
  BY <1>1 DEF OrderInv, TimeInv, Increasing, Before
<1>5. OnceInv' /\ \A v \in Maker : service[v] # Nil => service'[v] = service[v]
  BY DEF Load, SidRead, SidWrite, OrderInv, TypeOK, OnceInv
<1>6. IssuedInv'
  BY <1>1, <1>5 DEF OrderInv, IssuedInv
<1> QED BY <1>3, <1>4, <1>5, <1>6 DEF OrderInv

-----------------------------------------------------------------------------
(* Types, which need neither the order of loading nor the timers           *)

LEMMA TypeStep ==
  ASSUME TypeOK, left \in 1 .. TimerTicks, [Next]_vars
  PROVE  TypeOK' /\ left' \in 1 .. TimerTicks
<1> USE LimitAssumption
<1> DEFINE Good == TypeOK' /\ left' \in 1 .. TimerTicks
<1>1. ASSUME NEW v \in Vm, Load(v) PROVE Good
  BY <1>1 DEF Load, TypeOK, stampVars, timeVars
<1>2. ASSUME NEW v \in Maker, SidRead(v) PROVE Good
  BY <1>2 DEF SidRead, TypeOK, stampVars, timeVars
<1>3. ASSUME NEW v \in Maker, SidWrite(v) PROVE Good
  <2>1. register[v] \in Nat
    BY <1>3 DEF SidWrite, TypeOK
  <2> QED BY <1>3, <2>1 DEF SidWrite, TypeOK, stampVars, timeVars
<1>4. ASSUME NEW v \in Maker, Advance(v), UNCHANGED <<sidVars, timeVars>>
      PROVE  /\ service[v] \in Nat
             /\ timestamp' \in [Maker -> Nat \cup {Nil}]
             /\ sequence' \in [Maker -> Nat]
             /\ expire' \in [Maker -> Nat]
  BY <1>4, NumberType DEF Advance, TypeOK
<1>5. ASSUME NEW v \in Maker, Gen(v) PROVE Good
  <2>1. [timestamp |-> Stamp(v), service |-> service[v], sequence |-> Number(v)] \in Id
    BY <1>4, <1>5, NumberType DEF Gen, Id
  <2>2. issued' \in [Maker -> Seq(Id)]
    BY <1>5, <2>1 DEF Gen, TypeOK
  <2> QED BY <1>4, <1>5, <2>2 DEF Gen, TypeOK, sidVars, timeVars
<1>6. ASSUME NEW v \in Maker, GenFailed(v) PROVE Good
  BY <1>4, <1>6 DEF GenFailed, TypeOK, sidVars, timeVars
<1>7. ASSUME NEW v \in Maker, TimerFire(v) PROVE Good
  BY <1>7 DEF TimerFire, TypeOK, sidVars, timeVars
<1>8. ASSUME Tick PROVE Good
  BY <1>8 DEF Tick, TypeOK, sidVars, stampVars
<1>9. CASE UNCHANGED vars
  BY <1>9 DEF vars, sidVars, stampVars, timeVars, TypeOK
<1> QED BY <1>1, <1>2, <1>3, <1>5, <1>6, <1>7, <1>8, <1>9 DEF Next

\* The variables keep their types, however the library is loaded, whichever
\* workers run lsid, and however early timers ring.
THEOREM TypeHolds == Spec => []TypeOK
<1> DEFINE Typed == TypeOK /\ left \in 1 .. TimerTicks
<1>1. Init => Typed
  BY LimitAssumption, InitOrder DEF OrderInv, TimeInv
<1>2. Typed /\ [Next]_vars => Typed'
  BY TypeStep
<1> QED BY <1>1, <1>2, PTL DEF Spec

-----------------------------------------------------------------------------
(* The order of the identifiers of one service                             *)

\* OrderInv is inductive.
LEMMA OrderStep ==
  ASSUME OrderInv, Slack = 0, [Next]_vars
  PROVE  OrderInv'
<1>1. CASE UNCHANGED vars
  BY <1>1 DEF vars, sidVars, stampVars, timeVars, OrderInv, TypeOK, TimeInv,
              IssuedInv, OnceInv, Increasing, Before
<1>2. CASE Next
  BY <1>2, SidOrder, GenOrder, GenFailedOrder, TimerFireOrder, TickOrder DEF Next
<1> QED BY <1>1, <1>2

\* OrderInv holds always, when timers do not ring early.
THEOREM OrderHolds ==
  ASSUME Slack = 0
  PROVE  Spec => []OrderInv
<1>1. Init => OrderInv
  BY InitOrder
<1>2. OrderInv /\ [Next]_vars => OrderInv'
  BY OrderStep
<1> QED BY <1>1, <1>2, PTL DEF Spec

\* The identifiers of one service increase, for any services, limits and
\* timers that do not ring early, and whatever happens to the counter.
THEOREM IncreasingHolds ==
  ASSUME Slack = 0
  PROVE  Spec => []Increasing
<1>1. OrderInv => Increasing
  BY DEF OrderInv
<1> QED BY <1>1, OrderHolds, PTL

-----------------------------------------------------------------------------
(* The numbers of different services                                       *)

\* SidInv is inductive where agents are loaded first and lsid runs alone.
LEMMA SidStep ==
  ASSUME TypeOK, OnceInv, SidInv, ~ Late, ~ Racing, [Next]_vars
  PROVE  SidInv'
<1> USE LimitAssumption
<1>1. ASSUME NEW v \in Vm, Load(v)
      PROVE  SidInv'
  <2>1. NobodyServed /\ NobodyServed'
    BY <1>1 DEF Load, NobodyServed
  <2> QED BY <2>1, <1>1 DEF SidInv, NobodyServed
<1>2. ASSUME NEW v \in Maker, SidRead(v)
      PROVE  SidInv'
  <2>1. /\ \A w \in Maker : register[w] = Nil
        /\ loaded' = Vm /\ loaded = Vm
        /\ sid' = sid /\ service' = service
    BY <1>2 DEF SidRead, NobodyIn, Vm, TypeOK
  <2>2. register' = [register EXCEPT ![v] = sid + 1]
    BY <1>2 DEF SidRead
  <2> QED BY <2>1, <2>2 DEF SidInv, TypeOK
<1>3. ASSUME NEW v \in Maker, SidWrite(v)
      PROVE  SidInv'
  <2>1. /\ register[v] = sid + 1 /\ sid' = sid + 1
        /\ register' = [register EXCEPT ![v] = Nil]
        /\ service' = [service EXCEPT ![v] = sid + 1]
        /\ loaded' = loaded /\ loaded = Vm
    BY <1>3 DEF SidWrite, SidInv, NobodyServed
  <2>2. \A w \in Maker : w # v => register[w] = Nil
    BY <1>3 DEF SidWrite, SidInv
  <2>3. \A w \in Maker : service[w] # Nil => service[w] \in Nat /\ service[w] <= sid
    BY DEF SidInv, TypeOK
  <2>4. \A w \in Maker : register'[w] = Nil
    BY <2>1, <2>2 DEF TypeOK
  <2>5. sid \in Nat /\ sid + 1 # Nil
    BY DEF TypeOK
  <2>6. service'[v] = sid + 1 /\ \A w \in Maker \ {v} : service'[w] = service[w]
    BY <2>1 DEF TypeOK
  <2>7. \A w \in Maker : service'[w] # Nil => service'[w] <= sid'
    BY <2>1, <2>3, <2>5, <2>6
  <2>8. \A w, u \in Maker : service'[w] # Nil /\ service'[w] = service'[u] => w = u
    BY <2>3, <2>5, <2>6 DEF SidInv
  <2> QED BY <2>1, <2>4, <2>7, <2>8 DEF SidInv
<1>4. CASE UNCHANGED sidVars
  BY <1>4 DEF SidInv, sidVars, NobodyServed
<1>5. (\E v \in Maker : Gen(v) \/ GenFailed(v) \/ TimerFire(v)) \/ Tick
        => UNCHANGED sidVars
  BY DEF Gen, GenFailed, TimerFire, Tick, sidVars
<1> QED BY <1>1, <1>2, <1>3, <1>4, <1>5 DEF Next, vars

\* No identifier is returned twice, by any number of services, when the
\* library is loaded by all of them before it is used, lsid runs in one worker
\* at a time, and no timer rings early.
THEOREM UniqueHolds ==
  ASSUME ~ Late, ~ Racing, Slack = 0
  PROVE  Spec => []UniqueIds
<1>1. Init => SidInv
  BY DEF Init, SidInv, NobodyServed
<1>2. OrderInv /\ SidInv /\ [Next]_vars => SidInv'
  BY SidStep DEF OrderInv
<1>3. OrderInv /\ SidInv => UniqueIds
  <2> SUFFICES ASSUME OrderInv, SidInv,
                      NEW v \in Maker, NEW w \in Maker,
                      NEW i \in DOMAIN issued[v], NEW j \in DOMAIN issued[w],
                      issued[v][i] = issued[w][j]
               PROVE  v = w /\ i = j
    BY DEF UniqueIds
  <2>1. v = w
    <3>1. issued[v][i].service = service[v] /\ service[v] # Nil
      BY DEF OrderInv, IssuedInv
    <3>2. issued[w][j].service = service[w]
      BY DEF OrderInv, IssuedInv
    <3> QED BY <3>1, <3>2 DEF SidInv
  <2>2. issued[v] \in Seq(Id)
    BY DEF OrderInv, TypeOK
  <2>3. issued[v][i].timestamp \in Nat /\ issued[v][i].sequence \in Nat
    BY IssuedType DEF OrderInv
  <2>4. ~ Before(issued[v][i], issued[v][i])
    BY <2>3 DEF Before
  <2>5. i \in Nat /\ j \in Nat
    BY <2>1, <2>2
  <2>6. ~ (i < j) /\ ~ (j < i)
    BY <2>1, <2>4 DEF OrderInv, Increasing
  <2> QED BY <2>1, <2>5, <2>6
<1> QED BY <1>1, <1>2, <1>3, OrderHolds, PTL DEF Spec
=============================================================================
