----------------------------- MODULE ChatProofs -----------------------------
(***************************************************************************)
(* Proofs about Chat, for any accounts, agents, logins and messages: all   *)
(* of its safety properties.                                               *)
(*                                                                         *)
(* The first part is about sets of coroutines in queues, since everything  *)
(* a step does to the mailboxes is to take one coroutine out (Takes) and to*)
(* put one in (Gives).  The invariant comes in layers, each inductive with *)
(* the ones before it:                                                     *)
(*   ShapeInv  types, and what each coroutine needs to go on               *)
(*   LifeInv   one coroutine opens or closes an agent, and its place tells *)
(*             what the gateway, the agent and the chat server know of it  *)
(*   OrderInv  that coroutine is behind the frames and the calls that the  *)
(*             agent it serves was sent, in whatever mailbox they meet     *)
(*   NameInv   so what a frame or a call reads when it goes on is what it  *)
(*             would have read at its start                                *)
(*   WayInv    a broadcast has one coroutine                               *)
(*   AimInv    whom it calls is whom the table names, or has left          *)
(*   ReachInv  how often it has reached each account so far                *)
(***************************************************************************)
EXTENDS Chat, TLAPS

-----------------------------------------------------------------------------
(* Queues: a set of coroutines is not in a queue, is in it once at most, is*)
(* ahead of another set.                                                   *)

Free(q, B) == \A i \in 1 .. Len(q) : q[i] \notin B
AtMost(q, B) == \A i, j \in 1 .. Len(q) : q[i] \in B /\ q[j] \in B => i = j
Ahead(q, X, Y) == \A i, j \in 1 .. Len(q) : q[i] \in X /\ q[j] \in Y => i < j

\* What is left of a queue when its head is taken.
LEMMA TailIndex ==
    ASSUME NEW C, NEW q \in Seq(C), q # << >>, NEW t, t = Tail(q)
    PROVE  /\ t \in Seq(C) /\ Head(q) \in C /\ Head(q) = q[1] /\ 1 \in 1 .. Len(q)
           /\ Len(t) \in Nat /\ Len(q) \in Nat
           /\ \A i \in 1 .. Len(t) : t[i] = q[i + 1] /\ i + 1 \in 1 .. Len(q)
           /\ \A k \in 1 .. Len(q) : k = 1 \/ (k - 1 \in 1 .. Len(t) /\ q[k] = t[k - 1])
<1>1. /\ t \in Seq(C) /\ Len(q) \in Nat /\ Len(q) >= 1
      /\ Len(t) = Len(q) - 1 /\ Head(q) = q[1] /\ q[1] \in C
  OBVIOUS
<1>2. \A i \in 1 .. Len(t) : t[i] = q[i + 1] /\ i + 1 \in 1 .. Len(q)
  OBVIOUS
<1>3. \A k \in 1 .. Len(q) : k = 1 \/ (k - 1 \in 1 .. Len(t) /\ q[k] = t[k - 1])
  <2> SUFFICES ASSUME NEW k \in 1 .. Len(q), k # 1
               PROVE  k - 1 \in 1 .. Len(t) /\ q[k] = t[k - 1]
    OBVIOUS
  <2>1. k - 1 \in 1 .. Len(t) /\ (k - 1) + 1 = k
    BY <1>1
  <2> QED BY <1>2, <2>1
<1> QED BY <1>1, <1>2, <1>3

LEMMA TailFacts ==
    ASSUME NEW C, NEW q \in Seq(C), q # << >>, NEW t, t = Tail(q), NEW B
    PROVE  /\ Free(q, B) => Free(t, B) /\ Head(q) \notin B
           /\ Free(t, B) /\ Head(q) \notin B => Free(q, B)
           /\ AtMost(q, B) => AtMost(t, B)
           /\ AtMost(q, B) /\ Head(q) \in B => Free(t, B)
<1>1. Free(q, B) => Free(t, B) /\ Head(q) \notin B
  BY TailIndex DEF Free
<1>2. Free(t, B) /\ Head(q) \notin B => Free(q, B)
  BY TailIndex DEF Free
<1>3. AtMost(q, B) => AtMost(t, B)
  <2> SUFFICES ASSUME AtMost(q, B), NEW i \in 1 .. Len(t), NEW j \in 1 .. Len(t),
                      t[i] \in B, t[j] \in B
               PROVE  i = j
    BY DEF AtMost
  <2>1. /\ t[i] = q[i + 1] /\ i + 1 \in 1 .. Len(q)
        /\ t[j] = q[j + 1] /\ j + 1 \in 1 .. Len(q)
    BY TailIndex
  <2>2. i + 1 = j + 1
    BY <2>1 DEF AtMost
  <2> QED BY <2>2
<1>4. AtMost(q, B) /\ Head(q) \in B => Free(t, B)
  <2> SUFFICES ASSUME AtMost(q, B), Head(q) \in B, NEW i \in 1 .. Len(t), t[i] \in B
               PROVE  FALSE
    BY DEF Free
  <2>1. /\ t[i] = q[i + 1] /\ i + 1 \in 1 .. Len(q)
        /\ Head(q) = q[1] /\ 1 \in 1 .. Len(q)
    BY TailIndex
  <2>2. i + 1 = 1
    BY <2>1 DEF AtMost
  <2> QED BY <2>2
<1> QED BY <1>1, <1>2, <1>3, <1>4

LEMMA TailAhead ==
    ASSUME NEW C, NEW q \in Seq(C), q # << >>, NEW t, t = Tail(q), NEW X, NEW Y,
           Ahead(q, X, Y)
    PROVE  /\ Ahead(t, X, Y)
           /\ Head(q) \in Y => Free(q, X)
<1>1. Ahead(t, X, Y)
  <2> SUFFICES ASSUME NEW i \in 1 .. Len(t), NEW j \in 1 .. Len(t), t[i] \in X, t[j] \in Y
               PROVE  i < j
    BY DEF Ahead
  <2>1. /\ t[i] = q[i + 1] /\ i + 1 \in 1 .. Len(q)
        /\ t[j] = q[j + 1] /\ j + 1 \in 1 .. Len(q)
    BY TailIndex
  <2>2. i + 1 < j + 1
    BY <2>1 DEF Ahead
  <2> QED BY <2>2
<1>2. Head(q) \in Y => Free(q, X)
  BY TailIndex DEF Ahead, Free
<1> QED BY <1>1, <1>2

\* A queue with one more coroutine at its end.
LEMMA AppendIndex ==
    ASSUME NEW C, NEW q \in Seq(C), NEW m \in C, NEW t, t = Append(q, m)
    PROVE  /\ t \in Seq(C) /\ Len(q) + 1 \in 1 .. Len(t) /\ t[Len(q) + 1] = m
           /\ Len(q) \in Nat
           /\ \A i \in 1 .. Len(q) : t[i] = q[i] /\ i \in 1 .. Len(t) /\ i < Len(q) + 1
           /\ \A i \in 1 .. Len(t) : i \in 1 .. Len(q) \/ i = Len(q) + 1
OBVIOUS

LEMMA AppendFacts ==
    ASSUME NEW C, NEW q \in Seq(C), NEW m \in C, NEW t, t = Append(q, m), NEW B
    PROVE  /\ Free(t, B) <=> Free(q, B) /\ m \notin B
           /\ AtMost(q, B) /\ (m \notin B \/ Free(q, B)) => AtMost(t, B)
<1>1. Free(t, B) <=> Free(q, B) /\ m \notin B
  BY AppendIndex DEF Free
<1>2. AtMost(q, B) /\ (m \notin B \/ Free(q, B)) => AtMost(t, B)
  <2> SUFFICES ASSUME AtMost(q, B), m \notin B \/ Free(q, B),
                      NEW i \in 1 .. Len(t), NEW j \in 1 .. Len(t), t[i] \in B, t[j] \in B
               PROVE  i = j
    BY DEF AtMost
  <2>1. \A k \in 1 .. Len(t) : (k \in 1 .. Len(q) /\ t[k] = q[k]) \/ (k = Len(q) + 1 /\ t[k] = m)
    BY AppendIndex
  <2>2. CASE m \notin B
    BY <2>1, <2>2 DEF AtMost
  <2>3. CASE Free(q, B)
    BY <2>1, <2>3 DEF Free
  <2> QED BY <2>2, <2>3
<1> QED BY <1>1, <1>2

LEMMA AppendAhead ==
    ASSUME NEW C, NEW q \in Seq(C), NEW m \in C, NEW t, t = Append(q, m), NEW X, NEW Y
    PROVE  /\ Ahead(q, X, Y) /\ m \notin X => Ahead(t, X, Y)
           /\ Free(q, Y) /\ m \notin X => Ahead(t, X, Y)
           /\ Free(q, Y) /\ m \notin Y => Ahead(t, X, Y)
<1>1. Ahead(q, X, Y) /\ m \notin X => Ahead(t, X, Y)
  <2> SUFFICES ASSUME Ahead(q, X, Y), m \notin X,
                      NEW i \in 1 .. Len(t), NEW j \in 1 .. Len(t), t[i] \in X, t[j] \in Y
               PROVE  i < j
    BY DEF Ahead
  <2>1. /\ i \in 1 .. Len(q) /\ t[i] = q[i] /\ i < Len(q) + 1
        /\ (j \in 1 .. Len(q) /\ t[j] = q[j]) \/ j = Len(q) + 1
    BY AppendIndex
  <2> QED BY <2>1 DEF Ahead
<1>2. Free(q, Y) => Ahead(q, X, Y)
  BY DEF Free, Ahead
<1>3. Free(q, Y) /\ m \notin Y => Ahead(t, X, Y)
  BY AppendFacts DEF Free, Ahead
<1> QED BY <1>1, <1>2, <1>3

-----------------------------------------------------------------------------
(* Mailboxes and the coroutines that wait for the database.  A set of      *)
(* coroutines is gone from them, or has one coroutine in them at most.     *)

Gone(mb, ex, B) == /\ \A s \in Service : Free(mb[s], B)
                   /\ \A m \in ex : m \notin B
Alone(mb, ex, B) ==
    /\ \A s \in Service : AtMost(mb[s], B)
    /\ \A s, t \in Service : s = t \/ Free(mb[s], B) \/ Free(mb[t], B)
    /\ \A m \in ex : m \in B =>
          /\ \A s \in Service : Free(mb[s], B)
          /\ \A n \in ex : n \in B => n = m
Flying(mb, ex, m) ==
    m \in ex \/ \E s \in Service : \E i \in 1 .. Len(mb[s]) : mb[s][i] = m

Mail == [Service -> Seq(Coroutine)]

\* Who is alone somewhere is nowhere else.
LEMMA AloneTwice ==
    ASSUME NEW mb, NEW ex, NEW B, Alone(mb, ex, B), NEW m \in B, NEW n \in B,
           Flying(mb, ex, m), Flying(mb, ex, n)
    PROVE  m = n
BY DEF Alone, Flying, Free, AtMost

LEMMA GoneFlying ==
    ASSUME NEW mb, NEW ex, NEW B
    PROVE  Gone(mb, ex, B) <=> \A m \in B : ~ Flying(mb, ex, m)
BY DEF Gone, Flying, Free

LEMMA GoneAlone ==
    ASSUME NEW mb, NEW ex, NEW B, Gone(mb, ex, B)
    PROVE  Alone(mb, ex, B)
BY DEF Gone, Alone, Free, AtMost

\* A coroutine is taken out of a mailbox.
LEMMA TakeMail ==
    ASSUME NEW mb \in Mail, NEW s \in Service, mb[s] # << >>,
           NEW nb, nb = [mb EXCEPT ![s] = Tail(@)]
    PROVE  /\ nb \in Mail /\ Head(mb[s]) \in Coroutine /\ mb[s] \in Seq(Coroutine)
           /\ nb[s] = Tail(mb[s])
           /\ \A t \in Service : t # s => nb[t] = mb[t]
<1>1. mb[s] \in Seq(Coroutine)
  BY DEF Mail
<1>2. nb[s] = Tail(mb[s]) /\ \A t \in Service : t # s => nb[t] = mb[t]
  BY DEF Mail
<1>3. Tail(mb[s]) \in Seq(Coroutine) /\ Head(mb[s]) \in Coroutine
  BY <1>1
<1>4. nb \in Mail
  BY <1>3 DEF Mail
<1> QED BY <1>1, <1>2, <1>3, <1>4

\* A coroutine is put into a mailbox.
LEMMA GiveMail ==
    ASSUME NEW mb \in Mail, NEW d \in Service, NEW m \in Coroutine,
           NEW nb, nb = [mb EXCEPT ![d] = Append(@, m)]
    PROVE  /\ nb \in Mail /\ mb[d] \in Seq(Coroutine)
           /\ nb[d] = Append(mb[d], m)
           /\ \A t \in Service : t # d => nb[t] = mb[t]
<1>1. mb[d] \in Seq(Coroutine)
  BY DEF Mail
<1>2. nb[d] = Append(mb[d], m) /\ \A t \in Service : t # d => nb[t] = mb[t]
  BY DEF Mail
<1>3. Append(mb[d], m) \in Seq(Coroutine)
  BY <1>1
<1>4. nb \in Mail
  BY <1>3 DEF Mail
<1> QED BY <1>1, <1>2, <1>4

\* The coroutine m is taken from where it waits; it is put somewhere.
Takes(mb, ex, nb, nx, m) ==
    \/ \E s \in Service : /\ mb[s] # << >> /\ m = Head(mb[s])
                          /\ nb = [mb EXCEPT ![s] = Tail(@)] /\ nx = ex
    \/ m \in ex /\ nb = mb /\ nx = ex \ {m}
Gives(mb, ex, nb, nx, m) ==
    \/ \E d \in Service : nb = [mb EXCEPT ![d] = Append(@, m)] /\ nx = ex
    \/ nb = mb /\ nx = ex \cup {m}

\* What taking a coroutine does to the whereabouts of a set B.
LEMMA TakeFacts ==
    ASSUME NEW mb \in Mail, NEW ex, ex \subseteq Coroutine, NEW nb, NEW nx, NEW h,
           Takes(mb, ex, nb, nx, h), NEW B
    PROVE  /\ \A t \in Service : /\ Free(mb[t], B) => Free(nb[t], B)
                                 /\ h \notin B => (Free(nb[t], B) => Free(mb[t], B))
           /\ h \notin B => (Gone(nb, nx, B) => Gone(mb, ex, B))
           /\ Gone(mb, ex, B) => Gone(nb, nx, B) /\ h \notin B
           /\ Alone(mb, ex, B) => Alone(nb, nx, B)
           /\ Alone(mb, ex, B) /\ h \in B => Gone(nb, nx, B)
<1> DEFINE Goal ==
        /\ \A t \in Service : /\ Free(mb[t], B) => Free(nb[t], B)
                              /\ h \notin B => (Free(nb[t], B) => Free(mb[t], B))
        /\ h \notin B => (Gone(nb, nx, B) => Gone(mb, ex, B))
        /\ Gone(mb, ex, B) => Gone(nb, nx, B) /\ h \notin B
        /\ Alone(mb, ex, B) => Alone(nb, nx, B)
        /\ Alone(mb, ex, B) /\ h \in B => Gone(nb, nx, B)
<1>1. CASE h \in ex /\ nb = mb /\ nx = ex \ {h}
  BY <1>1 DEF Gone, Alone
<1>2. ASSUME NEW s \in Service, mb[s] # << >>, h = Head(mb[s]),
             nb = [mb EXCEPT ![s] = Tail(@)], nx = ex
      PROVE  Goal
  <2> HIDE DEF Goal
  <2>1. /\ mb[s] \in Seq(Coroutine) /\ nb[s] = Tail(mb[s])
        /\ \A t \in Service : t # s => nb[t] = mb[t]
    <3>1. mb[s] \in Seq(Coroutine)
      BY <1>2, TakeMail
    <3>2. nb[s] = Tail(mb[s])
      BY <1>2, TakeMail
    <3>3. \A t \in Service : t # s => nb[t] = mb[t]
      BY <1>2, TakeMail
    <3> QED BY <3>1, <3>2, <3>3
  <2>2. /\ Free(mb[s], B) => Free(nb[s], B) /\ h \notin B
        /\ Free(nb[s], B) /\ h \notin B => Free(mb[s], B)
        /\ AtMost(mb[s], B) => AtMost(nb[s], B)
        /\ AtMost(mb[s], B) /\ h \in B => Free(nb[s], B)
    BY <1>2, <2>1, TailFacts
  <2>3. \A t \in Service : /\ Free(mb[t], B) => Free(nb[t], B)
                           /\ h \notin B => (Free(nb[t], B) => Free(mb[t], B))
                           /\ AtMost(mb[t], B) => AtMost(nb[t], B)
    <3> SUFFICES ASSUME NEW t \in Service
                 PROVE  /\ Free(mb[t], B) => Free(nb[t], B)
                        /\ h \notin B => (Free(nb[t], B) => Free(mb[t], B))
                        /\ AtMost(mb[t], B) => AtMost(nb[t], B)
      OBVIOUS
    <3> QED BY <2>1, <2>2
  <2>4. Gone(mb, ex, B) => Gone(nb, nx, B) /\ h \notin B
    BY <1>2, <2>2, <2>3 DEF Gone
  <2>5. h \notin B /\ Gone(nb, nx, B) => Gone(mb, ex, B)
    BY <1>2, <2>3 DEF Gone
  <2>6. Alone(mb, ex, B) => Alone(nb, nx, B)
    BY <1>2, <2>3 DEF Alone
  <2>7. Alone(mb, ex, B) /\ h \in B => Gone(nb, nx, B)
    <3> SUFFICES ASSUME Alone(mb, ex, B), h \in B PROVE Gone(nb, nx, B)
      OBVIOUS
    <3>1. ~ Free(mb[s], B)
      BY <2>2
    <3>2. \A t \in Service : t # s => Free(mb[t], B)
      BY <3>1 DEF Alone
    <3>3. Free(nb[s], B)
      BY <2>2 DEF Alone
    <3>4. \A m \in ex : m \notin B
      BY <3>1 DEF Alone
    <3> QED BY <1>2, <2>3, <3>2, <3>3, <3>4 DEF Gone
  <2> QED BY <2>3, <2>4, <2>5, <2>6, <2>7 DEF Goal
<1>3. CASE \E s \in Service : /\ mb[s] # << >> /\ h = Head(mb[s])
                              /\ nb = [mb EXCEPT ![s] = Tail(@)] /\ nx = ex
  BY <1>2, <1>3
<1> QED BY <1>1, <1>3 DEF Takes

\* The coroutine taken was there, the others still are where they were.
LEMMA TakeFlying ==
    ASSUME NEW mb \in Mail, NEW ex, ex \subseteq Coroutine, NEW nb, NEW nx, NEW h,
           Takes(mb, ex, nb, nx, h)
    PROVE  /\ nb \in Mail /\ nx \subseteq Coroutine /\ h \in Coroutine
           /\ Flying(mb, ex, h)
           /\ \A m : Flying(nb, nx, m) => Flying(mb, ex, m)
<1>1. h \in ex => Flying(mb, ex, h)
  BY DEF Flying
<1>2. ASSUME NEW s \in Service, mb[s] # << >>, h = Head(mb[s]),
             nb = [mb EXCEPT ![s] = Tail(@)], nx = ex
      PROVE  /\ nb \in Mail /\ h \in Coroutine /\ Flying(mb, ex, h)
  <2>1. nb \in Mail /\ h \in Coroutine /\ mb[s] \in Seq(Coroutine)
    BY <1>2, TakeMail
  <2>2. h = mb[s][1] /\ 1 \in 1 .. Len(mb[s])
    BY <1>2, <2>1
  <2> QED BY <2>1, <2>2 DEF Flying
<1>3. nb \in Mail /\ h \in Coroutine /\ Flying(mb, ex, h)
  BY <1>1, <1>2 DEF Takes
<1>4. nx \subseteq ex
  BY DEF Takes
<1>5. ASSUME NEW m, Flying(nb, nx, m) PROVE Flying(mb, ex, m)
  <2>1. \A t \in Service : Free(mb[t], {m}) => Free(nb[t], {m})
    BY TakeFacts
  <2>2. (\E t \in Service : ~ Free(nb[t], {m})) => \E t \in Service : ~ Free(mb[t], {m})
    BY <2>1
  <2> QED BY <1>4, <1>5, <2>2 DEF Flying, Free
<1> QED BY <1>3, <1>4, <1>5

\* What giving a coroutine does to the whereabouts of a set B.
LEMMA GiveFacts ==
    ASSUME NEW mb \in Mail, NEW ex, ex \subseteq Coroutine, NEW nb, NEW nx,
           NEW m \in Coroutine, Gives(mb, ex, nb, nx, m), NEW B
    PROVE  /\ \A t \in Service : /\ Free(nb[t], B) => Free(mb[t], B)
                                 /\ m \notin B => (Free(mb[t], B) => Free(nb[t], B))
           /\ m \notin B => /\ Gone(mb, ex, B) => Gone(nb, nx, B)
                            /\ Alone(mb, ex, B) => Alone(nb, nx, B)
           /\ Gone(nb, nx, B) => Gone(mb, ex, B) /\ m \notin B
           /\ Gone(mb, ex, B) => Alone(nb, nx, B)
<1> DEFINE Goal ==
        /\ \A t \in Service : /\ Free(nb[t], B) => Free(mb[t], B)
                              /\ m \notin B => (Free(mb[t], B) => Free(nb[t], B))
        /\ m \notin B => /\ Gone(mb, ex, B) => Gone(nb, nx, B)
                         /\ Alone(mb, ex, B) => Alone(nb, nx, B)
        /\ Gone(nb, nx, B) => Gone(mb, ex, B) /\ m \notin B
        /\ Gone(mb, ex, B) => Alone(nb, nx, B)
<1>1. CASE nb = mb /\ nx = ex \cup {m}
  BY <1>1 DEF Gone, Alone, Free, AtMost
<1>2. ASSUME NEW d \in Service, nb = [mb EXCEPT ![d] = Append(@, m)], nx = ex
      PROVE  Goal
  <2>1. /\ mb[d] \in Seq(Coroutine) /\ nb[d] = Append(mb[d], m)
        /\ \A t \in Service : t # d => nb[t] = mb[t]
    BY <1>2, GiveMail
  <2>2. /\ Free(nb[d], B) <=> Free(mb[d], B) /\ m \notin B
        /\ AtMost(mb[d], B) /\ (m \notin B \/ Free(mb[d], B)) => AtMost(nb[d], B)
    BY <2>1, AppendFacts
  <2>3. \A t \in Service :
           /\ Free(nb[t], B) => Free(mb[t], B)
           /\ m \notin B => (Free(mb[t], B) => Free(nb[t], B))
           /\ AtMost(mb[t], B) /\ (m \notin B \/ Free(mb[d], B)) => AtMost(nb[t], B)
    <3> SUFFICES ASSUME NEW t \in Service
                 PROVE  /\ Free(nb[t], B) => Free(mb[t], B)
                        /\ m \notin B => (Free(mb[t], B) => Free(nb[t], B))
                        /\ AtMost(mb[t], B) /\ (m \notin B \/ Free(mb[d], B))
                              => AtMost(nb[t], B)
      OBVIOUS
    <3> QED BY <2>1, <2>2
  <2>4. m \notin B => /\ Gone(mb, ex, B) => Gone(nb, nx, B)
                      /\ Alone(mb, ex, B) => Alone(nb, nx, B)
    BY <1>2, <2>3 DEF Gone, Alone
  <2>5. Gone(nb, nx, B) => Gone(mb, ex, B) /\ m \notin B
    BY <1>2, <2>2, <2>3 DEF Gone
  <2>6. Gone(mb, ex, B) => Alone(nb, nx, B)
    <3> SUFFICES ASSUME Gone(mb, ex, B) PROVE Alone(nb, nx, B)
      OBVIOUS
    <3>1. \A t \in Service : Free(mb[t], B) /\ AtMost(mb[t], B)
      BY DEF Gone, Free, AtMost
    <3>2. \A t \in Service : AtMost(nb[t], B)
      BY <2>3, <3>1
    <3>3. \A t \in Service : t # d => Free(nb[t], B)
      BY <2>1, <3>1
    <3>4. \A n \in nx : n \notin B
      BY <1>2 DEF Gone
    <3> QED BY <3>2, <3>3, <3>4 DEF Alone
  <2> QED BY <2>3, <2>4, <2>5, <2>6
<1>3. CASE \E d \in Service : nb = [mb EXCEPT ![d] = Append(@, m)] /\ nx = ex
  BY <1>2, <1>3
<1> QED BY <1>1, <1>3 DEF Gives

\* The coroutine given is there now, besides the others.
LEMMA GiveFlying ==
    ASSUME NEW mb \in Mail, NEW ex, ex \subseteq Coroutine, NEW nb, NEW nx,
           NEW m \in Coroutine, Gives(mb, ex, nb, nx, m)
    PROVE  /\ nb \in Mail /\ nx \subseteq Coroutine
           /\ Flying(nb, nx, m)
           /\ \A n : Flying(nb, nx, n) => Flying(mb, ex, n) \/ n = m
<1>1. nb \in Mail /\ nx \subseteq Coroutine /\ nx \subseteq ex \cup {m}
  <2>1. CASE nb = mb /\ nx = ex \cup {m}
    BY <2>1
  <2>2. ASSUME NEW d \in Service, nb = [mb EXCEPT ![d] = Append(@, m)], nx = ex
        PROVE  nb \in Mail
    BY <2>2, GiveMail
  <2> QED BY <2>1, <2>2 DEF Gives
<1>2. Flying(nb, nx, m)
  <2>1. ~ Gone(nb, nx, {m})
    BY GiveFacts
  <2> QED BY <2>1 DEF Gone, Free, Flying
<1>3. ASSUME NEW n, Flying(nb, nx, n), n # m PROVE Flying(mb, ex, n)
  <2>1. \A t \in Service : Free(mb[t], {n}) => Free(nb[t], {n})
    BY <1>3, GiveFacts
  <2>2. (\E t \in Service : ~ Free(nb[t], {n})) => \E t \in Service : ~ Free(mb[t], {n})
    BY <2>1
  <2> QED BY <1>1, <1>3, <2>2 DEF Flying, Free
<1> QED BY <1>1, <1>2, <1>3

-----------------------------------------------------------------------------
(* Where a coroutine can be, and what it is good for                       *)

OpenLabel   == {"agent_open", "loaded", "opened", "register", "online", "welcome"}
CloseLabel  == {"agent_close", "closing", "saved", "offline", "close_finish",
                "gamed_close", "recycle"}
LifeLabel   == OpenLabel \cup CloseLabel
FrameLabel  == {"rpc", "rpc_dump", "rpc_chat", "rpc_send"}
SentLabel   == FrameLabel \cup {"broadcast", "begin"}
GoalLabel   == {"chat_world", "request", "write"}
CalledLabel == GoalLabel \cup {"next"}
CastLabel   == SentLabel \cup CalledLabel

LogLabel   == {"rpc_dump", "rpc_chat", "rpc_send", "begin", "request", "write",
               "closing", "recycle", "opened", "register"}
ChatLabel  == {"online", "offline", "broadcast", "begin", "next"}
GateLabel  == {"gamed_close", "recycle"}
ExtLabel   == {"loaded", "saved"}
AgentLabel == Label \ {"online", "offline", "broadcast", "begin", "next",
                       "gamed_close", "recycle"}

\* A coroutine that has no business in the mailbox of a service.
Stray(s) == {m \in Coroutine :
               \/ s = "log"  /\ m.at \notin LogLabel
               \/ s = "chat" /\ m.at \notin ChatLabel
               \/ s = "gate" /\ m.at \notin GateLabel
               \/ s \in Agent /\ (m.at \notin AgentLabel \/ m.agent # s)}

MailInv ==
    /\ mbox \in Mail /\ ext \subseteq Coroutine
    /\ \A s \in Service : Free(mbox[s], Stray(s))
    /\ \A m \in ext : m.at \in ExtLabel

\* A coroutine in flight, a coroutine is replaced by another one, it ends, or a
\* new one starts.
InFlight(m) == Flying(mbox, ext, m)
Hop(h, m) == \E mb, ex : Takes(mbox, ext, mb, ex, h) /\ Gives(mb, ex, mbox', ext', m)
Drop(h)   == Takes(mbox, ext, mbox', ext', h)
Give(m)   == Gives(mbox, ext, mbox', ext', m)

\* m is h, further on.
Relabel(h, m, from, to) ==
    /\ h \in Coroutine /\ m \in Coroutine /\ h.at = from /\ m.at = to
    /\ m.agent = h.agent /\ m.account = h.account /\ m.n = h.n

\* A service handles the head of its mailbox.
LEMMA HeadMail ==
    ASSUME MailInv, NEW s \in Service, mbox[s] # << >>
    PROVE  /\ Head(mbox[s]) \in Coroutine /\ Head(mbox[s]) \notin Stray(s)
           /\ Takes(mbox, ext, Taken(s), ext, Head(mbox[s]))
           /\ Taken(s) \in Mail
           /\ \A t \in Service : Free(Taken(s)[t], Stray(t))
<1>1. Taken(s) = [mbox EXCEPT ![s] = Tail(@)]
  BY DEF Taken
<1>2. Takes(mbox, ext, Taken(s), ext, Head(mbox[s]))
  BY <1>1 DEF Takes
<1>3. mbox \in Mail /\ ext \subseteq Coroutine
  BY DEF MailInv
<1>4. Taken(s) \in Mail /\ Head(mbox[s]) \in Coroutine
  BY <1>2, <1>3, TakeFlying
<1>5. \A t \in Service : Free(Taken(s)[t], Stray(t))
  <2> SUFFICES ASSUME NEW t \in Service PROVE Free(Taken(s)[t], Stray(t))
    OBVIOUS
  <2>1. Free(mbox[t], Stray(t))
    BY DEF MailInv
  <2> QED BY <1>2, <1>3, <2>1, TakeFacts
<1>6. Head(mbox[s]) \notin Stray(s)
  <2>1. Free(mbox[s], Stray(s)) /\ mbox[s] \in Seq(Coroutine)
    BY <1>3 DEF MailInv, Mail
  <2>2. Head(mbox[s]) = mbox[s][1] /\ 1 \in 1 .. Len(mbox[s])
    BY <2>1
  <2> QED BY <2>1, <2>2 DEF Free
<1> QED BY <1>2, <1>4, <1>5, <1>6

\* What a service can do with the coroutine at its head: put another one in its
\* place, send it on under another label, have it wait, end it.
Heads(s) == mbox[s] # << >> /\ Cur(s) \in Coroutine /\ Cur(s) \notin Stray(s)
Put(s, t, m) ==
    /\ Heads(s) /\ m \in Coroutine /\ Hop(Cur(s), m)
    /\ mbox' = [Taken(s) EXCEPT ![t] = Append(@, m)] /\ ext' = ext
Flow(s, from, t, to) == \E m : Put(s, t, m) /\ Relabel(Cur(s), m, from, to)
Wait(a, from, to) ==
    \E m : /\ Heads(a) /\ Relabel(Cur(a), m, from, to) /\ Hop(Cur(a), m)
           /\ mbox' = Taken(a) /\ ext' = ext \cup {m}
Ends(s, from) ==
    /\ Heads(s) /\ Cur(s).at = from /\ Drop(Cur(s))
    /\ mbox' = Taken(s) /\ ext' = ext

LEMMA AtHead ==
    ASSUME MailInv, NEW s \in Service, NEW from, At(s, from)
    PROVE  /\ Heads(s) /\ Cur(s).at = from
           /\ Takes(mbox, ext, Taken(s), ext, Cur(s))
           /\ Taken(s) \in Mail
           /\ \A t \in Service : Free(Taken(s)[t], Stray(t))
<1>1. mbox[s] # << >> /\ Cur(s) = Head(mbox[s]) /\ Cur(s).at = from
  BY DEF At, Cur
<1> QED BY <1>1, HeadMail DEF Heads

LEMMA PutFlow ==
    ASSUME MailInv, NEW s \in Service, mbox[s] # << >>, NEW t \in Service,
           NEW m \in Coroutine, m \notin Stray(t),
           mbox' = [Taken(s) EXCEPT ![t] = Append(@, m)], ext' = ext
    PROVE  Put(s, t, m) /\ MailInv'
<1>1. /\ Heads(s)
      /\ Takes(mbox, ext, Taken(s), ext, Cur(s))
      /\ Taken(s) \in Mail
      /\ \A u \in Service : Free(Taken(s)[u], Stray(u))
  BY HeadMail DEF Heads, Cur
<1>2. Gives(Taken(s), ext, mbox', ext', m)
  BY DEF Gives
<1>3. mbox' \in Mail
  BY <1>1, GiveMail
<1>4. \A u \in Service : Free(mbox'[u], Stray(u))
  <2> SUFFICES ASSUME NEW u \in Service PROVE Free(mbox'[u], Stray(u))
    OBVIOUS
  <2>1. Free(Taken(s)[u], Stray(u))
    BY <1>1
  <2>2. CASE u = t
    <3>1. mbox'[t] = Append(Taken(s)[t], m) /\ Taken(s)[t] \in Seq(Coroutine)
      BY <1>1, GiveMail
    <3> QED BY <2>1, <2>2, <3>1, AppendFacts
  <2>3. CASE u # t
    BY <1>1, <2>1, <2>3, GiveMail
  <2> QED BY <2>2, <2>3
<1>5. ext' \subseteq Coroutine /\ \A n \in ext' : n.at \in ExtLabel
  BY DEF MailInv
<1>6. Hop(Cur(s), m)
  BY <1>1, <1>2 DEF Hop
<1> QED BY <1>1, <1>3, <1>4, <1>5, <1>6 DEF Put, MailInv

\* A coroutine with another label.
LEMMA Relabeled ==
    ASSUME NEW h \in Coroutine, NEW to \in Label, NEW m, m = [h EXCEPT !.at = to]
    PROVE  Relabel(h, m, h.at, to)
BY DEF Relabel, Coroutine

LEMMA SendFlow ==
    ASSUME MailInv, NEW s \in Service, NEW t \in Service, NEW from, NEW at \in Label,
           At(s, from), Send(s, t, at), ext' = ext,
           \A m \in Coroutine : m.at = at /\ m.agent = Cur(s).agent => m \notin Stray(t)
    PROVE  Flow(s, from, t, at) /\ MailInv'
<1>1. Heads(s) /\ Cur(s).at = from
  BY AtHead
<1>2. PICK m : m = [Cur(s) EXCEPT !.at = at]
  OBVIOUS
<1>3. Relabel(Cur(s), m, from, at)
  BY <1>1, <1>2, Relabeled DEF Heads
<1>4. m \in Coroutine /\ m \notin Stray(t) /\ mbox[s] # << >>
  BY <1>1, <1>3 DEF Relabel, Heads
<1>5. mbox' = [Taken(s) EXCEPT ![t] = Append(@, m)]
  BY <1>2 DEF Send
<1>6. Put(s, t, m) /\ MailInv'
  BY <1>4, <1>5, PutFlow
<1> QED BY <1>3, <1>6 DEF Flow

LEMMA WaitFlow ==
    ASSUME MailInv, NEW a \in Agent, NEW from, NEW at \in ExtLabel,
           At(a, from), Load(a, at)
    PROVE  Wait(a, from, at) /\ MailInv'
<1>1. a \in Service
  BY DEF Service
<1>2. /\ Heads(a) /\ Cur(a).at = from
      /\ Takes(mbox, ext, Taken(a), ext, Cur(a))
      /\ Taken(a) \in Mail
      /\ \A t \in Service : Free(Taken(a)[t], Stray(t))
  BY <1>1, AtHead
<1>3. PICK m : m = [Cur(a) EXCEPT !.at = at]
  OBVIOUS
<1>4. Relabel(Cur(a), m, from, at)
  BY <1>2, <1>3, Relabeled DEF ExtLabel, Label, Heads
<1>5. mbox' = Taken(a) /\ ext' = ext \cup {m}
  BY <1>3 DEF Load, Done
<1>6. Gives(Taken(a), ext, mbox', ext', m)
  BY <1>5 DEF Gives
<1>7. m \in Coroutine /\ m.at \in ExtLabel
  BY <1>4 DEF Relabel
<1>8. Hop(Cur(a), m)
  BY <1>2, <1>6 DEF Hop
<1> QED BY <1>2, <1>4, <1>5, <1>7, <1>8 DEF Wait, MailInv

LEMMA EndFlow ==
    ASSUME MailInv, NEW s \in Service, NEW from, At(s, from), Done(s), ext' = ext
    PROVE  Ends(s, from) /\ MailInv'
<1>1. /\ Heads(s) /\ Cur(s).at = from
      /\ Takes(mbox, ext, Taken(s), ext, Cur(s))
      /\ Taken(s) \in Mail
      /\ \A t \in Service : Free(Taken(s)[t], Stray(t))
  BY AtHead
<1>2. mbox' = Taken(s)
  BY DEF Done
<1> QED BY <1>1, <1>2 DEF Ends, Drop, MailInv

\* A new coroutine is posted to an agent.
LEMMA PostFlow ==
    ASSUME MailInv, NEW a \in Agent, NEW m \in Coroutine, m.agent = a, m.at \in AgentLabel,
           Post(a, m), ext' = ext
    PROVE  Give(m) /\ MailInv'
<1>1. a \in Service /\ mbox \in Mail /\ ext \subseteq Coroutine
  BY DEF Service, MailInv
<1>2. mbox' = [mbox EXCEPT ![a] = Append(@, m)]
  BY DEF Post
<1>3. Give(m)
  BY <1>1, <1>2 DEF Give, Gives
<1>4. m \notin Stray(a)
  BY ConstantAssumption DEF Stray
<1>5. mbox' \in Mail
  BY <1>1, <1>2, GiveMail
<1>6. \A t \in Service : Free(mbox'[t], Stray(t))
  <2> SUFFICES ASSUME NEW t \in Service PROVE Free(mbox'[t], Stray(t))
    OBVIOUS
  <2>1. Free(mbox[t], Stray(t))
    BY DEF MailInv
  <2>2. CASE t = a
    <3>1. mbox'[a] = Append(mbox[a], m) /\ mbox[a] \in Seq(Coroutine)
      BY <1>1, <1>2, GiveMail
    <3> QED BY <1>4, <2>1, <2>2, <3>1, AppendFacts
  <2>3. CASE t # a
    BY <1>1, <1>2, <2>1, <2>3, GiveMail
  <2> QED BY <2>2, <2>3
<1> QED BY <1>1, <1>3, <1>5, <1>6 DEF MailInv

\* Who belongs where.
LEMMA Places ==
    ASSUME NEW m \in Coroutine
    PROVE  /\ m \notin Stray("log")  <=> m.at \in LogLabel
           /\ m \notin Stray("chat") <=> m.at \in ChatLabel
           /\ m \notin Stray("gate") <=> m.at \in GateLabel
           /\ \A a \in Agent : m \notin Stray(a) <=> m.at \in AgentLabel /\ m.agent = a
<1>1. "log" \notin Agent /\ "chat" \notin Agent /\ "gate" \notin Agent
  BY ConstantAssumption
<1> QED BY <1>1 DEF Stray

LEMMA Services == /\ Agent \subseteq Service
                  /\ {"log", "chat", "gate"} \subseteq Service
                  /\ {"log", "chat", "gate"} \cap Agent = {}
BY ConstantAssumption DEF Service

-----------------------------------------------------------------------------
(* What each action does to the mailboxes                                  *)

LEMMA AgentSend ==
    ASSUME MailInv, NEW a \in Agent, NEW from, NEW t, NEW at,
           At(a, from), Send(a, t, at), ext' = ext,
           \/ t = "log"  /\ at \in LogLabel
           \/ t = "chat" /\ at \in ChatLabel
           \/ t = "gate" /\ at \in GateLabel
    PROVE  Flow(a, from, t, at) /\ MailInv'
<1>1. a \in Service /\ t \in Service /\ at \in Label
  BY Services DEF LogLabel, ChatLabel, GateLabel, Label
<1>2. \A m \in Coroutine : m.at = at /\ m.agent = Cur(a).agent => m \notin Stray(t)
  BY Places
<1> QED BY <1>1, <1>2, SendFlow

LEMMA AgentSends ==
    ASSUME MailInv, NEW a \in Agent
    PROVE  /\ Loaded(a)       => Flow(a, "loaded", "log", "opened") /\ MailInv'
           /\ Opened(a)       => Flow(a, "opened", "log", "register") /\ MailInv'
           /\ Register(a)     => Flow(a, "register", "chat", "online") /\ MailInv'
           /\ AgentClose(a)   => Flow(a, "agent_close", "log", "closing") /\ MailInv'
           /\ Saved(a)        => Flow(a, "saved", "chat", "offline") /\ MailInv'
           /\ CloseFinish(a)  => Flow(a, "close_finish", "gate", "gamed_close") /\ MailInv'
<1> USE DEF LogLabel, ChatLabel, GateLabel
<1>1. Loaded(a) => Flow(a, "loaded", "log", "opened") /\ MailInv'
  BY AgentSend DEF Loaded, Log
<1>2. Opened(a) => Flow(a, "opened", "log", "register") /\ MailInv'
  BY AgentSend DEF Opened, Log
<1>3. Register(a) => Flow(a, "register", "chat", "online") /\ MailInv'
  BY AgentSend DEF Register
<1>4. AgentClose(a) => Flow(a, "agent_close", "log", "closing") /\ MailInv'
  BY AgentSend DEF AgentClose, Log
<1>5. Saved(a) => Flow(a, "saved", "chat", "offline") /\ MailInv'
  BY AgentSend DEF Saved
<1>6. CloseFinish(a) => Flow(a, "close_finish", "gate", "gamed_close") /\ MailInv'
  BY AgentSend DEF CloseFinish
<1> QED BY <1>1, <1>2, <1>3, <1>4, <1>5, <1>6

LEMMA FrameSends ==
    ASSUME MailInv, NEW a \in Agent
    PROVE  /\ Rpc(a)          => Flow(a, "rpc", "log", "rpc_dump") /\ MailInv'
           /\ RpcDump(a)      => Flow(a, "rpc_dump", "log", "rpc_chat") /\ MailInv'
           /\ RpcWorldChat(a) => Flow(a, "rpc_chat", "log", "rpc_send") /\ MailInv'
<1> USE DEF LogLabel
<1>1. Rpc(a) => Flow(a, "rpc", "log", "rpc_dump") /\ MailInv'
  BY AgentSend DEF Rpc, Log
<1>2. RpcDump(a) => Flow(a, "rpc_dump", "log", "rpc_chat") /\ MailInv'
  BY AgentSend DEF RpcDump, Log
<1>3. RpcWorldChat(a) => Flow(a, "rpc_chat", "log", "rpc_send") /\ MailInv'
  BY AgentSend DEF RpcWorldChat, Log
<1> QED BY <1>1, <1>2, <1>3

LEMMA GoalSends ==
    ASSUME MailInv, NEW a \in Agent
    PROVE  /\ ChatWorld(a) => /\ MailInv'
                              /\ \/ Flow(a, "chat_world", "log", "request") /\ cmds[a]
                                 \/ Flow(a, "chat_world", "chat", "next") /\ ~ cmds[a]
           /\ Request(a)   => Flow(a, "request", "log", "write") /\ MailInv'
           /\ Write(a)     => Flow(a, "write", "chat", "next") /\ MailInv'
           /\ RequestFailed(a) => /\ MailInv'
                                  /\ \/ Flow(a, "request", "chat", "next")
                                     \/ Flow(a, "write", "chat", "next")
<1> USE DEF LogLabel, ChatLabel
<1>1. ASSUME ChatWorld(a), cmds[a]
      PROVE  Flow(a, "chat_world", "log", "request") /\ MailInv'
  BY <1>1, AgentSend DEF ChatWorld, Log
<1>2. ASSUME ChatWorld(a), ~ cmds[a]
      PROVE  Flow(a, "chat_world", "chat", "next") /\ MailInv'
  BY <1>2, AgentSend DEF ChatWorld, Answer
<1>3. Request(a) => Flow(a, "request", "log", "write") /\ MailInv'
  BY AgentSend DEF Request, Log
<1>4. Write(a) => Flow(a, "write", "chat", "next") /\ MailInv'
  BY AgentSend DEF Write, Answer
<1>5. RequestFailed(a) => /\ MailInv'
                          /\ \/ Flow(a, "request", "chat", "next")
                             \/ Flow(a, "write", "chat", "next")
  BY AgentSend DEF RequestFailed, Answer
<1> QED BY <1>1, <1>2, <1>3, <1>4, <1>5

LEMMA AgentWaits ==
    ASSUME MailInv, NEW a \in Agent
    PROVE  /\ AgentOpen(a) => Wait(a, "agent_open", "loaded") /\ MailInv'
           /\ Closing(a)   => Wait(a, "closing", "saved") /\ MailInv'
           /\ Welcome(a)   => Ends(a, "welcome") /\ MailInv'
           /\ RpcRet(a)    => Ends(a, "rpc_ret") /\ MailInv'
<1> USE Services DEF ExtLabel
<1>1. AgentOpen(a) => Wait(a, "agent_open", "loaded") /\ MailInv'
  BY WaitFlow DEF AgentOpen
<1>2. Closing(a) => Wait(a, "closing", "saved") /\ MailInv'
  BY WaitFlow DEF Closing
<1>3. Welcome(a) => Ends(a, "welcome") /\ MailInv'
  BY EndFlow DEF Welcome
<1>4. RpcRet(a) => Ends(a, "rpc_ret") /\ MailInv'
  BY EndFlow DEF RpcRet
<1> QED BY <1>1, <1>2, <1>3, <1>4

\* The gateway.
LEMMA GateFlows ==
    ASSUME MailInv
    PROVE  /\ GamedClose => Flow("gate", "gamed_close", "log", "recycle") /\ MailInv'
           /\ Recycle    => Ends("gate", "recycle") /\ MailInv'
<1> USE Services
<1>1. ASSUME GamedClose
      PROVE  Flow("gate", "gamed_close", "log", "recycle") /\ MailInv'
  <2>1. \A m \in Coroutine : m.at = "recycle" => m \notin Stray("log")
    BY Places DEF LogLabel
  <2>2. "recycle" \in Label
    BY DEF Label
  <2> QED BY <1>1, <2>1, <2>2, SendFlow DEF GamedClose, Log
<1>2. Recycle => Ends("gate", "recycle") /\ MailInv'
  BY EndFlow DEF Recycle
<1> QED BY <1>1, <1>2

\* The logger answers, and the database.
Back(h) ==
    /\ h \in Coroutine /\ h \notin Stray("log") /\ Hop(h, h) /\ ext' = ext
    /\ mbox["log"] # << >> /\ h = Cur("log")
    /\ mbox' = [Taken("log") EXCEPT ![Home(h)] = Append(@, h)]
    /\ \/ Home(h) = h.agent /\ h.at \notin {"begin", "recycle"}
       \/ Home(h) = "chat"  /\ h.at = "begin"
       \/ Home(h) = "gate"  /\ h.at = "recycle"

LEMMA LoggerFlow ==
    ASSUME MailInv, Logger
    PROVE  (\E h : Back(h)) /\ MailInv'
<1>1. PICK h : h = Cur("log")
  OBVIOUS
<1>2. At("log", h.at) /\ mbox["log"] # << >>
  BY <1>1 DEF At, Cur, Logger
<1>3. h \in Coroutine /\ h \notin Stray("log") /\ h.at \in Label /\ h.agent \in Agent
  BY <1>1, <1>2, AtHead, Services DEF Heads, Coroutine
<1>4. h.at \in LogLabel
  BY <1>3, Places
<1>5. PICK t : t = Home(h)
  OBVIOUS
<1>6. /\ \/ t = h.agent /\ h.at \notin {"begin", "recycle"}
         \/ t = "chat"  /\ h.at = "begin"
         \/ t = "gate"  /\ h.at = "recycle"
      /\ t \in Service
  BY <1>3, <1>5, Services DEF Home
<1>7. h \notin Stray(t)
  BY <1>3, <1>4, <1>6, Places DEF LogLabel, AgentLabel, ChatLabel, GateLabel, Label
<1>8. [h EXCEPT !.at = h.at] = h
  BY <1>3 DEF Coroutine
<1>9. mbox' = [Taken("log") EXCEPT ![t] = Append(@, h)] /\ ext' = ext
  BY <1>1, <1>5, <1>8 DEF Logger, Send
<1>10. Put("log", t, h) /\ MailInv'
  BY <1>2, <1>3, <1>6, <1>7, <1>9, PutFlow, Services
<1> QED BY <1>1, <1>2, <1>3, <1>5, <1>6, <1>9, <1>10 DEF Put, Back

Loads(h) ==
    /\ h \in ext /\ h \in Coroutine /\ h.at \in ExtLabel /\ Hop(h, h)
    /\ mbox' = [mbox EXCEPT ![h.agent] = Append(@, h)] /\ ext' = ext \ {h}

LEMMA DatabaseFlow ==
    ASSUME MailInv, Database
    PROVE  (\E h : Loads(h)) /\ MailInv'
<1>1. PICK h \in ext : /\ mbox' = [mbox EXCEPT ![h.agent] = Append(@, h)]
                       /\ ext' = ext \ {h}
  BY DEF Database
<1>2. h \in Coroutine /\ h.at \in ExtLabel /\ h.agent \in Agent /\ mbox \in Mail
  BY DEF MailInv, Coroutine
<1>3. Takes(mbox, ext, mbox, ext', h) /\ Gives(mbox, ext', mbox', ext', h)
  BY <1>1, <1>2, Services DEF Takes, Gives
<1>4. Hop(h, h)
  BY <1>3 DEF Hop
<1>5. mbox' \in Mail
  BY <1>1, <1>2, GiveMail, Services
<1>6. h \notin Stray(h.agent)
  BY <1>2, Places DEF ExtLabel, AgentLabel, Label
<1>7. \A t \in Service : Free(mbox'[t], Stray(t))
  <2> SUFFICES ASSUME NEW t \in Service PROVE Free(mbox'[t], Stray(t))
    OBVIOUS
  <2>1. Free(mbox[t], Stray(t)) /\ h.agent \in Service
    BY <1>2, Services DEF MailInv
  <2>2. CASE t = h.agent
    <3>1. mbox'[t] = Append(mbox[t], h) /\ mbox[t] \in Seq(Coroutine)
      BY <1>1, <1>2, <2>1, <2>2, GiveMail
    <3> QED BY <1>2, <1>6, <2>1, <2>2, <3>1, AppendFacts
  <2>3. CASE t # h.agent
    BY <1>1, <1>2, <2>1, <2>3, GiveMail
  <2> QED BY <2>2, <2>3
<1>8. ext' \subseteq Coroutine /\ \A n \in ext' : n.at \in ExtLabel
  BY <1>1 DEF MailInv
<1> QED BY <1>1, <1>2, <1>4, <1>5, <1>7, <1>8 DEF Loads, MailInv

-----------------------------------------------------------------------------
(* The shape of the state: types, mail in its place, and coroutines that   *)
(* are good for something                                                  *)

CastType == [at : {"none", "sent", "called", "done", "failed"},
             author : Opt(Account), account : Opt(Account),
             from : Opt(Agent), todo : SUBSET Account,
             cur : Opt(Account), disturbed : BOOLEAN,
             lost : BOOLEAN, steady : SUBSET Account]
GateOK  == /\ pool \in Seq(Agent)
           /\ slot \in [Agent -> [account : Opt(Account),
                                  at : {"idle", "login", "forwarded", "closed"}]]
           /\ nlogin \in 0 .. MaxLogin /\ known \in 0 .. MaxAccount
AgentOK == /\ user \in [Agent -> Opt(Account)]
           /\ cmds \in [Agent -> BOOLEAN]
           /\ chatUser \in [Agent -> Opt(Account)]
TabOK   == onlineTab \in [Account -> Opt(Agent)]
CastOK  == cast \in [Chat -> CastType]
DataOK  == /\ GateOK /\ AgentOK /\ TabOK /\ CastOK
           /\ received \in [Chat -> [Account -> Nat]]

Good(m) ==
    /\ m.at \in GoalLabel => m.account \in Account
    /\ m.at \in CastLabel => m.n \in Chat /\ cast[m.n].at # "none"
    /\ m.at \in CalledLabel \cup {"begin"} => cast[m.n].from \in Agent
GoodInv == \A m \in Coroutine : InFlight(m) => Good(m)

ShapeInv == MailInv /\ DataOK /\ GoodInv

LEMMA ShapeType == ShapeInv => TypeOK
BY DEF ShapeInv, MailInv, Mail, DataOK, GateOK, AgentOK, TabOK, CastOK, CastType, TypeOK

\* A broadcast that has begun stays so, and so does who waits for it.
CastGrows == \A n \in Chat : /\ cast[n].at # "none" => cast'[n].at # "none"
                             /\ cast[n].from \in Agent => cast'[n].from \in Agent

LEMMA GoodHop ==
    ASSUME ShapeInv, CastGrows, NEW h, NEW m \in Coroutine, Hop(h, m), Good(m)'
    PROVE  GoodInv'
<1>1. PICK mb, ex : Takes(mbox, ext, mb, ex, h) /\ Gives(mb, ex, mbox', ext', m)
  BY DEF Hop
<1>2. mbox \in Mail /\ ext \subseteq Coroutine
  BY DEF ShapeInv, MailInv
<1>3. mb \in Mail /\ ex \subseteq Coroutine /\ \A x : Flying(mb, ex, x) => InFlight(x)
  BY <1>1, <1>2, TakeFlying DEF InFlight
<1>4. \A x : Flying(mbox', ext', x) => Flying(mb, ex, x) \/ x = m
  BY <1>1, <1>3, GiveFlying
<1>5. ASSUME NEW x \in Coroutine, InFlight(x)' PROVE Good(x)'
  <2>1. InFlight(x) \/ x = m
    BY <1>3, <1>4, <1>5 DEF InFlight
  <2>2. CASE InFlight(x)
    <3>1. Good(x)
      BY <2>2 DEF ShapeInv, GoodInv
    <3> QED BY <3>1 DEF Good, CastGrows, CastLabel, CalledLabel, SentLabel
  <2> QED BY <2>1, <2>2
<1> QED BY <1>5 DEF GoodInv

LEMMA GoodDrop ==
    ASSUME ShapeInv, CastGrows, NEW h, Drop(h)
    PROVE  GoodInv'
<1>1. mbox \in Mail /\ ext \subseteq Coroutine
  BY DEF ShapeInv, MailInv
<1>2. \A x : Flying(mbox', ext', x) => InFlight(x)
  BY <1>1, TakeFlying DEF InFlight, Drop
<1>3. ASSUME NEW x \in Coroutine, InFlight(x)' PROVE Good(x)'
  <2>1. Good(x)
    BY <1>2, <1>3 DEF InFlight, ShapeInv, GoodInv
  <2> QED BY <2>1 DEF Good, CastGrows, CastLabel, CalledLabel, SentLabel
<1> QED BY <1>3 DEF GoodInv

LEMMA GoodGive ==
    ASSUME ShapeInv, CastGrows, NEW m \in Coroutine, Give(m), Good(m)'
    PROVE  GoodInv'
<1>1. mbox \in Mail /\ ext \subseteq Coroutine
  BY DEF ShapeInv, MailInv
<1>2. \A x : Flying(mbox', ext', x) => InFlight(x) \/ x = m
  BY <1>1, GiveFlying DEF InFlight, Give
<1>3. ASSUME NEW x \in Coroutine, InFlight(x)' PROVE Good(x)'
  <2>1. InFlight(x) \/ x = m
    BY <1>2, <1>3 DEF InFlight
  <2>2. CASE InFlight(x)
    <3>1. Good(x)
      BY <2>2 DEF ShapeInv, GoodInv
    <3> QED BY <3>1 DEF Good, CastGrows, CastLabel, CalledLabel, SentLabel
  <2> QED BY <2>1, <2>2
<1> QED BY <1>3 DEF GoodInv

\* The coroutine at a head is in flight, hence good.
LEMMA HopFlying ==
    ASSUME MailInv, NEW h, NEW m, Hop(h, m)
    PROVE  InFlight(h)
BY TakeFlying DEF Hop, InFlight, MailInv

LEMMA HeadFlying ==
    ASSUME MailInv, NEW s \in Service, Heads(s)
    PROVE  InFlight(Cur(s))
<1>1. mbox[s] # << >> /\ mbox[s] \in Seq(Coroutine)
  BY DEF Heads, MailInv, Mail
<1>2. Cur(s) = mbox[s][1] /\ 1 \in 1 .. Len(mbox[s])
  BY <1>1 DEF Cur
<1> QED BY <1>2 DEF InFlight, Flying

\* A coroutine that is sent on is good where it was good before.
Follows(from, to) ==
    /\ to \in GoalLabel => from \in GoalLabel
    /\ to \in CastLabel => from \in CastLabel
    /\ to \in CalledLabel => from \in CalledLabel \cup {"begin"}

LEMMA GoodFlow ==
    ASSUME ShapeInv, CastGrows, NEW s \in Service, NEW from, NEW t, NEW to,
           Flow(s, from, t, to), Follows(from, to),
           to = "begin" => cast'[Cur(s).n].from \in Agent
    PROVE  GoodInv'
<1>1. PICK m : Put(s, t, m) /\ Relabel(Cur(s), m, from, to)
  BY DEF Flow
<1>2. InFlight(Cur(s)) /\ Cur(s) \in Coroutine /\ m \in Coroutine /\ Hop(Cur(s), m)
  BY <1>1, HeadFlying DEF Put, Heads, ShapeInv
<1>3. Good(Cur(s))
  BY <1>2 DEF ShapeInv, GoodInv
<1>4. Good(m)'
  <2>1. /\ m.at = to /\ Cur(s).at = from
        /\ m.account = Cur(s).account /\ m.n = Cur(s).n
    BY <1>1 DEF Relabel
  <2>2. m.at \in GoalLabel => m.account \in Account
    BY <1>3, <2>1 DEF Follows, Good
  <2>3. m.at \in CastLabel => m.n \in Chat /\ cast'[m.n].at # "none"
    BY <1>3, <2>1 DEF Follows, Good, CastGrows
  <2>4. m.at \in CalledLabel \cup {"begin"} => cast'[m.n].from \in Agent
    <3>1. from \in CalledLabel \cup {"begin"} =>
             Cur(s).n \in Chat /\ cast[Cur(s).n].from \in Agent
      BY <1>3, <2>1 DEF Good, CastLabel, SentLabel
    <3> QED BY <2>1, <3>1 DEF Follows, CastGrows
  <2> QED BY <2>2, <2>3, <2>4 DEF Good
<1> QED BY <1>2, <1>4, GoodHop

LEMMA GoodWait ==
    ASSUME ShapeInv, CastGrows, NEW a \in Agent, NEW from, NEW to,
           Wait(a, from, to), to \in ExtLabel
    PROVE  GoodInv'
<1>1. PICK m : Relabel(Cur(a), m, from, to) /\ Hop(Cur(a), m)
  BY DEF Wait
<1>2. m \in Coroutine /\ Good(m)'
  BY <1>1 DEF Relabel, Good, GoalLabel, CastLabel, CalledLabel, SentLabel, FrameLabel,
              ExtLabel
<1> QED BY <1>1, <1>2, GoodHop

\* An action of an agent that sends its coroutine on keeps the shape.
LEMMA AgentShape ==
    ASSUME ShapeInv, NEW a \in Agent, UNCHANGED chatVars, GateOK', AgentOK', MailInv',
           NEW from, NEW t, NEW to, Flow(a, from, t, to), Follows(from, to), to # "begin"
    PROVE  ShapeInv'
<1>1. CastGrows
  BY DEF CastGrows, chatVars
<1>2. GoodInv'
  BY <1>1, GoodFlow, Services
<1>3. TabOK' /\ CastOK' /\ received' \in [Chat -> [Account -> Nat]]
  BY DEF ShapeInv, DataOK, TabOK, CastOK, chatVars
<1> QED BY <1>2, <1>3 DEF ShapeInv, DataOK

LEMMA WaitShape ==
    ASSUME ShapeInv, NEW a \in Agent, UNCHANGED <<gateVars, agentVars, chatVars>>,
           MailInv', NEW from, NEW to, Wait(a, from, to), to \in ExtLabel
    PROVE  ShapeInv'
<1>1. CastGrows
  BY DEF CastGrows, chatVars
<1>2. GoodInv'
  BY <1>1, GoodWait
<1>3. DataOK'
  BY DEF ShapeInv, DataOK, GateOK, AgentOK, TabOK, CastOK, gateVars, agentVars, chatVars
<1> QED BY <1>2, <1>3 DEF ShapeInv

LEMMA EndsShape ==
    ASSUME ShapeInv, UNCHANGED <<agentVars, chatVars>>, GateOK',
           MailInv', NEW s, NEW from, Ends(s, from)
    PROVE  ShapeInv'
<1>1. CastGrows
  BY DEF CastGrows, chatVars
<1>2. GoodInv'
  BY <1>1, GoodDrop DEF Ends
<1>3. DataOK'
  BY DEF ShapeInv, DataOK, AgentOK, TabOK, CastOK, agentVars, chatVars
<1> QED BY <1>2, <1>3 DEF ShapeInv

LEMMA SameGate ==
    ASSUME ShapeInv, UNCHANGED gateVars
    PROVE  GateOK'
BY DEF ShapeInv, DataOK, GateOK, gateVars

LEMMA SameAgent ==
    ASSUME ShapeInv, UNCHANGED agentVars
    PROVE  AgentOK'
BY DEF ShapeInv, DataOK, AgentOK, agentVars

LEMMA LifeShape ==
    ASSUME ShapeInv, NEW a \in Agent,
           \/ AgentOpen(a) \/ Loaded(a) \/ Opened(a) \/ Register(a) \/ Welcome(a)
           \/ AgentClose(a) \/ Closing(a) \/ Saved(a) \/ CloseFinish(a)
    PROVE  ShapeInv'
<1> USE DEF Follows, GoalLabel, CastLabel, CalledLabel, SentLabel, FrameLabel
<1>0. MailInv
  BY DEF ShapeInv
<1>1. CASE AgentOpen(a)
  <2>1. Wait(a, "agent_open", "loaded") /\ MailInv'
    BY <1>0, <1>1, AgentWaits
  <2>2. "loaded" \in ExtLabel
    BY DEF ExtLabel
  <2> QED BY <1>1, <2>1, <2>2, WaitShape DEF AgentOpen
<1>2. CASE Loaded(a)
  <2>1. Flow(a, "loaded", "log", "opened") /\ MailInv'
    BY <1>0, <1>2, AgentSends
  <2>2. GateOK' /\ AgentOK' /\ UNCHANGED chatVars
    BY <1>2, SameGate, SameAgent DEF Loaded
  <2>3. Follows("loaded", "opened")
    OBVIOUS
  <2> QED BY <2>1, <2>2, <2>3, AgentShape
<1>3. CASE Opened(a)
  <2>1. Flow(a, "opened", "log", "register") /\ MailInv'
    BY <1>0, <1>3, AgentSends
  <2>2. Cur(a).account \in Opt(Account)
    BY <2>1 DEF Flow, Put, Heads, Coroutine
  <2>3. GateOK' /\ UNCHANGED chatVars
    BY <1>3, SameGate DEF Opened
  <2>4. AgentOK'
    BY <1>3, <2>2 DEF Opened, ShapeInv, DataOK, AgentOK
  <2>5. Follows("opened", "register")
    OBVIOUS
  <2> QED BY <2>1, <2>3, <2>4, <2>5, AgentShape
<1>4. CASE Register(a)
  <2>1. Flow(a, "register", "chat", "online") /\ MailInv'
    BY <1>0, <1>4, AgentSends
  <2>2. GateOK' /\ UNCHANGED chatVars
    BY <1>4, SameGate DEF Register
  <2>3. AgentOK'
    BY <1>4 DEF Register, ShapeInv, DataOK, AgentOK
  <2>4. Follows("register", "online")
    OBVIOUS
  <2> QED BY <2>1, <2>2, <2>3, <2>4, AgentShape
<1>5. CASE Welcome(a)
  <2>1. Ends(a, "welcome") /\ MailInv'
    BY <1>0, <1>5, AgentWaits
  <2>2. GateOK'
    BY <1>5 DEF Welcome, ShapeInv, DataOK, GateOK
  <2>3. UNCHANGED <<agentVars, chatVars>>
    BY <1>5 DEF Welcome
  <2> QED BY <2>1, <2>2, <2>3, EndsShape
<1>6. CASE AgentClose(a)
  <2>1. Flow(a, "agent_close", "log", "closing") /\ MailInv'
    BY <1>0, <1>6, AgentSends
  <2>2. GateOK' /\ AgentOK' /\ UNCHANGED chatVars
    BY <1>6, SameGate, SameAgent DEF AgentClose
  <2>3. Follows("agent_close", "closing")
    OBVIOUS
  <2> QED BY <2>1, <2>2, <2>3, AgentShape
<1>7. CASE Closing(a)
  <2>1. Wait(a, "closing", "saved") /\ MailInv'
    BY <1>0, <1>7, AgentWaits
  <2>2. "saved" \in ExtLabel
    BY DEF ExtLabel
  <2> QED BY <1>7, <2>1, <2>2, WaitShape DEF Closing
<1>8. CASE Saved(a)
  <2>1. Flow(a, "saved", "chat", "offline") /\ MailInv'
    BY <1>0, <1>8, AgentSends
  <2>2. GateOK' /\ AgentOK' /\ UNCHANGED chatVars
    BY <1>8, SameGate, SameAgent DEF Saved
  <2>3. Follows("saved", "offline")
    OBVIOUS
  <2> QED BY <2>1, <2>2, <2>3, AgentShape
<1>9. CASE CloseFinish(a)
  <2>1. Flow(a, "close_finish", "gate", "gamed_close") /\ MailInv'
    BY <1>0, <1>9, AgentSends
  <2>2. GateOK' /\ UNCHANGED chatVars
    BY <1>9, SameGate DEF CloseFinish
  <2>3. AgentOK'
    BY <1>9 DEF CloseFinish, ShapeInv, DataOK, AgentOK, Opt
  <2>4. Follows("close_finish", "gamed_close")
    OBVIOUS
  <2> QED BY <2>1, <2>2, <2>3, <2>4, AgentShape
<1> QED BY <1>1, <1>2, <1>3, <1>4, <1>5, <1>6, <1>7, <1>8, <1>9

\* The frame of a chat message becomes a message of the chat server.
LEMMA RpcSendFlow ==
    ASSUME ShapeInv, NEW a \in Agent, RpcSend(a)
    PROVE  /\ Put(a, "chat", Co("broadcast", a, chatUser[a], Cur(a).n))
           /\ Cur(a).at = "rpc_send" /\ MailInv'
<1>1. MailInv /\ At(a, "rpc_send")
  BY DEF ShapeInv, RpcSend
<1>2. Heads(a) /\ Cur(a).at = "rpc_send" /\ mbox[a] # << >>
  BY <1>1, AtHead, Services DEF Heads
<1>3. PICK m : m = Co("broadcast", a, chatUser[a], Cur(a).n)
  OBVIOUS
<1>4. chatUser[a] \in Opt(Account) /\ Cur(a).n \in 0 .. MaxChat
  BY <1>2 DEF ShapeInv, DataOK, AgentOK, Heads, Coroutine
<1>5. m \in Coroutine /\ m.at = "broadcast"
  BY <1>3, <1>4 DEF Co, Coroutine, Label
<1>6. m \notin Stray("chat")
  BY <1>5, Places DEF ChatLabel
<1>7. mbox' = [Taken(a) EXCEPT !["chat"] = Append(@, m)] /\ ext' = ext
  BY <1>3 DEF RpcSend
<1>8. Put(a, "chat", m) /\ MailInv'
  BY <1>1, <1>2, <1>5, <1>6, <1>7, PutFlow, Services
<1> QED BY <1>2, <1>3, <1>8

LEMMA FrameShape ==
    ASSUME ShapeInv, NEW a \in Agent,
           Rpc(a) \/ RpcDump(a) \/ RpcWorldChat(a) \/ RpcSend(a) \/ RpcRet(a)
    PROVE  ShapeInv'
<1>0. MailInv
  BY DEF ShapeInv
<1>1. CASE Rpc(a)
  <2>1. Flow(a, "rpc", "log", "rpc_dump") /\ MailInv'
    BY <1>0, <1>1, FrameSends
  <2>2. GateOK' /\ AgentOK' /\ UNCHANGED chatVars
    BY <1>1, SameGate, SameAgent DEF Rpc
  <2>3. Follows("rpc", "rpc_dump")
    BY DEF Follows, GoalLabel, CastLabel, CalledLabel, SentLabel, FrameLabel
  <2> QED BY <2>1, <2>2, <2>3, AgentShape
<1>2. CASE RpcDump(a)
  <2>1. Flow(a, "rpc_dump", "log", "rpc_chat") /\ MailInv'
    BY <1>0, <1>2, FrameSends
  <2>2. GateOK' /\ AgentOK' /\ UNCHANGED chatVars
    BY <1>2, SameGate, SameAgent DEF RpcDump
  <2>3. Follows("rpc_dump", "rpc_chat")
    BY DEF Follows, GoalLabel, CastLabel, CalledLabel, SentLabel, FrameLabel
  <2> QED BY <2>1, <2>2, <2>3, AgentShape
<1>3. CASE RpcWorldChat(a)
  <2>1. Flow(a, "rpc_chat", "log", "rpc_send") /\ MailInv'
    BY <1>0, <1>3, FrameSends
  <2>2. GateOK' /\ AgentOK' /\ UNCHANGED chatVars
    BY <1>3, SameGate, SameAgent DEF RpcWorldChat
  <2>3. Follows("rpc_chat", "rpc_send")
    BY DEF Follows, GoalLabel, CastLabel, CalledLabel, SentLabel, FrameLabel
  <2> QED BY <2>1, <2>2, <2>3, AgentShape
<1>4. CASE RpcSend(a)
  <2>0. PICK m : m = Co("broadcast", a, chatUser[a], Cur(a).n)
    OBVIOUS
  <2>1. Put(a, "chat", m) /\ Cur(a).at = "rpc_send" /\ MailInv'
    BY <1>4, <2>0, RpcSendFlow
  <2>2. m \in Coroutine /\ Hop(Cur(a), m) /\ InFlight(Cur(a)) /\ Cur(a) \in Coroutine
    BY <1>0, <2>1, HeadFlying, Services DEF Put, Heads
  <2>3. Good(Cur(a))
    BY <2>2 DEF ShapeInv, GoodInv
  <2>4. CastGrows /\ UNCHANGED <<gateVars, agentVars, chatVars>>
    BY <1>4 DEF CastGrows, chatVars, RpcSend
  <2>5. Good(m)'
    <3>1. Cur(a).n \in Chat /\ cast[Cur(a).n].at # "none"
      BY <2>1, <2>3 DEF Good, CastLabel, SentLabel, FrameLabel
    <3>2. m.at = "broadcast" /\ m.n = Cur(a).n
      BY <2>0 DEF Co
    <3>3. cast' = cast
      BY <2>4 DEF chatVars
    <3> QED BY <3>1, <3>2, <3>3 DEF Good, GoalLabel, CalledLabel
  <2>6. DataOK'
    BY <2>4 DEF ShapeInv, DataOK, GateOK, AgentOK, TabOK, CastOK, gateVars, agentVars, chatVars
  <2> QED BY <2>1, <2>2, <2>4, <2>5, <2>6, GoodHop DEF ShapeInv
<1>5. CASE RpcRet(a)
  <2>1. Ends(a, "rpc_ret") /\ MailInv'
    BY <1>0, <1>5, AgentWaits
  <2>2. GateOK' /\ UNCHANGED <<agentVars, chatVars>>
    BY <1>5, SameGate DEF RpcRet
  <2> QED BY <2>1, <2>2, EndsShape
<1> QED BY <1>1, <1>2, <1>3, <1>4, <1>5

LEMMA GoalShape ==
    ASSUME ShapeInv, NEW a \in Agent,
           ChatWorld(a) \/ Request(a) \/ RequestFailed(a)
    PROVE  ShapeInv'
<1>0. MailInv
  BY DEF ShapeInv
<1>1. /\ Follows("chat_world", "request") /\ Follows("chat_world", "next")
      /\ Follows("request", "write") /\ Follows("request", "next")
      /\ Follows("write", "next")
  BY DEF Follows, GoalLabel, CastLabel, CalledLabel
<1>2. /\ GateOK' /\ AgentOK' /\ UNCHANGED chatVars
  BY SameGate, SameAgent DEF ChatWorld, Request, RequestFailed
<1>3. CASE ChatWorld(a)
  <2>1. MailInv' /\ (\/ Flow(a, "chat_world", "log", "request")
                     \/ Flow(a, "chat_world", "chat", "next"))
    BY <1>0, <1>3, GoalSends
  <2> QED BY <1>1, <1>2, <2>1, AgentShape
<1>4. CASE Request(a)
  <2>1. MailInv' /\ Flow(a, "request", "log", "write")
    BY <1>0, <1>4, GoalSends
  <2> QED BY <1>1, <1>2, <2>1, AgentShape
<1>5. CASE RequestFailed(a)
  <2>1. MailInv' /\ (\/ Flow(a, "request", "chat", "next")
                     \/ Flow(a, "write", "chat", "next"))
    BY <1>0, <1>5, GoalSends
  <2> QED BY <1>1, <1>2, <2>1, AgentShape
<1> QED BY <1>3, <1>4, <1>5

LEMMA WriteShape ==
    ASSUME ShapeInv, NEW a \in Agent, Write(a)
    PROVE  ShapeInv'
<1>0. MailInv
  BY DEF ShapeInv
<1>1. Flow(a, "write", "chat", "next") /\ MailInv'
  BY <1>0, GoalSends
<1>2. CastGrows /\ Follows("write", "next")
  BY DEF CastGrows, Write, Follows, GoalLabel, CastLabel, CalledLabel
<1>3. GoodInv'
  BY <1>1, <1>2, GoodFlow, Services
<1>4. GateOK' /\ AgentOK' /\ TabOK' /\ CastOK'
  BY SameGate, SameAgent DEF Write, ShapeInv, DataOK, TabOK, CastOK
<1>5. received' \in [Chat -> [Account -> Nat]]
  <2>1. PICK n, b : n = Cur(a).n /\ b = user[a]
    OBVIOUS
  <2>2. Heads(a) /\ Cur(a) \in Coroutine /\ Cur(a).at = "write"
    BY <1>1 DEF Flow, Put, Heads, Relabel
  <2>3. Good(Cur(a))
    BY <1>0, <2>2, HeadFlying, Services DEF ShapeInv, GoodInv
  <2>4. n \in Chat /\ b \in Account
    BY <2>1, <2>2, <2>3 DEF Good, CastLabel, CalledLabel, GoalLabel, Write,
                            ShapeInv, DataOK, AgentOK, Opt
  <2>5. received \in [Chat -> [Account -> Nat]]
    BY DEF ShapeInv, DataOK
  <2>6. received[n] \in [Account -> Nat] /\ received[n][b] \in Nat
    BY <2>4, <2>5
  <2>7. PICK r : r = [received[n] EXCEPT ![b] = @ + 1]
    OBVIOUS
  <2>8. r \in [Account -> Nat]
    BY <2>4, <2>6, <2>7
  <2>9. received' = [received EXCEPT ![n] = r]
    BY <2>1, <2>7 DEF Write
  <2> QED BY <2>5, <2>8, <2>9
<1> QED BY <1>1, <1>3, <1>4, <1>5 DEF ShapeInv, DataOK

\* The chat server begins a broadcast.
LEMMA BroadcastFlow ==
    ASSUME MailInv, Broadcast
    PROVE  Flow("chat", "broadcast", "log", "begin") /\ MailInv'
<1>1. \A m \in Coroutine : m.at = "begin" => m \notin Stray("log")
  BY Places DEF LogLabel
<1>2. "begin" \in Label /\ At("chat", "broadcast") /\ Send("chat", "log", "begin") /\ ext' = ext
  BY DEF Label, Broadcast, Log
<1> QED BY <1>1, <1>2, SendFlow, Services

\* It tells the agent that its account is online, or offline.
LEMMA TableFlow ==
    ASSUME MailInv
    PROVE  /\ Online  => Flow("chat", "online", Cur("chat").agent, "welcome") /\ MailInv'
           /\ Offline => Flow("chat", "offline", Cur("chat").agent, "close_finish") /\ MailInv'
<1>1. ASSUME NEW from, At("chat", from), NEW at, at \in AgentLabel,
             Send("chat", Cur("chat").agent, at), ext' = ext
      PROVE  Flow("chat", from, Cur("chat").agent, at) /\ MailInv'
  <2>1. Heads("chat")
    BY <1>1, AtHead, Services
  <2>2. Cur("chat").agent \in Agent
    BY <2>1 DEF Heads, Coroutine
  <2>3. \A m \in Coroutine : m.at = at /\ m.agent = Cur("chat").agent
                                => m \notin Stray(Cur("chat").agent)
    BY <1>1, <2>2, Places
  <2>4. at \in Label
    BY <1>1 DEF AgentLabel
  <2> QED BY <1>1, <2>2, <2>3, <2>4, SendFlow, Services
<1>2. "welcome" \in AgentLabel /\ "close_finish" \in AgentLabel
  BY DEF AgentLabel, Label
<1>3. Online => Flow("chat", "online", Cur("chat").agent, "welcome") /\ MailInv'
  BY <1>1, <1>2 DEF Online
<1>4. Offline => Flow("chat", "offline", Cur("chat").agent, "close_finish") /\ MailInv'
  BY <1>1, <1>2 DEF Offline
<1> QED BY <1>3, <1>4

\* What Online does to the broadcasts: a traversal may be disturbed.
Shaken(c, d) ==
    /\ c.at = "called" /\ d.disturbed /\ d.todo \in SUBSET Account /\ d.lost \in BOOLEAN
    /\ \E todo, lost : d = Disturbed(c, todo, lost)

LEMMA InsertCast ==
    ASSUME CastOK, NEW tab, Insert(tab)
    PROVE  /\ DOMAIN cast' = Chat
           /\ cast' \in [Chat -> CastType]
           /\ \A n \in Chat : cast'[n] = cast[n] \/ Shaken(cast[n], cast'[n])
<1>1. PICK todo \in [Traversed -> SUBSET {b \in Account : tab[b] # Nil}],
           lost \in [Traversed -> BOOLEAN] :
         cast' = [n \in Chat |-> IF n \in Traversed
                                    THEN Disturbed(cast[n], todo[n], lost[n])
                                    ELSE cast[n]]
  BY DEF Insert
<1>2. ASSUME NEW n \in Chat
      PROVE  /\ cast'[n] \in CastType
             /\ cast'[n] = cast[n] \/ Shaken(cast[n], cast'[n])
  <2>1. cast[n] \in CastType
    BY DEF CastOK
  <2>2. CASE n \in Traversed
    <3>1. PICK x, y : x = todo[n] /\ y = lost[n]
      OBVIOUS
    <3>2. x \in SUBSET Account /\ y \in BOOLEAN /\ cast[n].at = "called"
      BY <2>2, <3>1 DEF Traversed
    <3>3. cast'[n] = Disturbed(cast[n], x, y)
      BY <1>1, <2>2, <3>1
    <3>4. PICK c : c = cast[n]
      OBVIOUS
    <3>5. PICK d : d = [c EXCEPT !.todo = x, !.disturbed = TRUE, !.lost = y]
      OBVIOUS
    <3>6. d \in CastType /\ d.disturbed /\ d.todo = x /\ d.lost = y
      BY <2>1, <3>2, <3>4, <3>5 DEF CastType
    <3>7. d = Disturbed(c, x, y)
      BY <3>5 DEF Disturbed
    <3> QED BY <3>2, <3>3, <3>4, <3>6, <3>7 DEF Shaken
  <2>3. CASE n \notin Traversed
    BY <1>1, <2>1, <2>3
  <2> QED BY <2>2, <2>3
<1>3. DOMAIN cast' = Chat /\ cast' = [n \in Chat |-> cast'[n]]
  BY <1>1
<1> QED BY <1>2, <1>3

LEMMA ShakenKeeps ==
    ASSUME NEW c \in CastType, NEW d, Shaken(c, d)
    PROVE  /\ d.at = c.at /\ d.from = c.from /\ d.account = c.account
           /\ d.author = c.author /\ d.cur = c.cur /\ d.steady = c.steady
BY DEF Shaken, Disturbed, CastType

LEMMA TableShape ==
    ASSUME ShapeInv, Online \/ Offline
    PROVE  ShapeInv'
<1>0. MailInv
  BY DEF ShapeInv
<1>1. /\ GateOK' /\ AgentOK' /\ received' = received
  BY SameGate, SameAgent DEF Online, Offline
<1>2. \/ Flow("chat", "online", Cur("chat").agent, "welcome") /\ MailInv'
      \/ Flow("chat", "offline", Cur("chat").agent, "close_finish") /\ MailInv'
  BY <1>0, TableFlow
<1>3. Cur("chat").agent \in Agent
  BY <1>2 DEF Flow, Put, Heads, Coroutine
<1>4. TabOK'
  BY <1>3 DEF Online, Offline, ShapeInv, DataOK, TabOK, Opt
<1>5. CastOK' /\ CastGrows
  <2>1. CASE cast' = cast
    BY <2>1 DEF CastGrows, ShapeInv, DataOK, CastOK
  <2>2. CASE \E tab : Insert(tab)
    <3>1. /\ cast' \in [Chat -> CastType]
          /\ \A n \in Chat : cast'[n] = cast[n] \/ Shaken(cast[n], cast'[n])
      BY <2>2, InsertCast DEF ShapeInv, DataOK
    <3>2. ASSUME NEW n \in Chat
          PROVE  cast'[n].at = cast[n].at /\ cast'[n].from = cast[n].from
      BY <3>1, ShakenKeeps DEF ShapeInv, DataOK, CastOK
    <3> QED BY <3>1, <3>2 DEF CastOK, CastGrows
  <2>3. cast' = cast \/ \E tab : Insert(tab)
    BY DEF Online, Offline
  <2> QED BY <2>1, <2>2, <2>3
<1>6. GoodInv'
  <2>1. Follows("online", "welcome") /\ Follows("offline", "close_finish")
    BY DEF Follows, GoalLabel, CastLabel, CalledLabel, SentLabel, FrameLabel
  <2> QED BY <1>2, <1>5, <2>1, GoodFlow, Services
<1>7. received' \in [Chat -> [Account -> Nat]]
  BY <1>1 DEF ShapeInv, DataOK
<1> QED BY <1>1, <1>2, <1>4, <1>5, <1>6, <1>7 DEF ShapeInv, DataOK

LEMMA BroadcastShape ==
    ASSUME ShapeInv, Broadcast
    PROVE  ShapeInv'
<1>0. MailInv
  BY DEF ShapeInv
<1>1. Flow("chat", "broadcast", "log", "begin") /\ MailInv'
  BY <1>0, BroadcastFlow
<1>2. /\ Heads("chat") /\ Cur("chat") \in Coroutine /\ Cur("chat").at = "broadcast"
  BY <1>1 DEF Flow, Put, Heads, Relabel
<1>3. Good(Cur("chat"))
  BY <1>0, <1>2, HeadFlying, Services DEF ShapeInv, GoodInv
<1>4. PICK n : n = Cur("chat").n
  OBVIOUS
<1>5. PICK x, a : x = Cur("chat").account /\ a = Cur("chat").agent
  OBVIOUS
<1>6. n \in Chat /\ x \in Opt(Account) /\ a \in Agent
  BY <1>2, <1>3, <1>4, <1>5 DEF Good, CastLabel, SentLabel, Coroutine
<1>7. cast' = [cast EXCEPT ![n].account = x, ![n].from = a]
  BY <1>4, <1>5 DEF Broadcast
<1>8. cast \in [Chat -> CastType]
  BY DEF ShapeInv, DataOK, CastOK
<1>9. /\ CastOK' /\ CastGrows /\ cast'[n].from = a
  <2>1. PICK c : c = cast[n]
    OBVIOUS
  <2>2. PICK d : d = [c EXCEPT !.account = x, !.from = a]
    OBVIOUS
  <2>3. c \in CastType
    BY <1>6, <1>8, <2>1
  <2>4. d \in CastType /\ d.at = c.at /\ d.from = a
    BY <1>6, <2>2, <2>3 DEF CastType, Opt
  <2>5. cast' = [cast EXCEPT ![n] = d]
    BY <1>6, <1>7, <1>8, <2>1, <2>2
  <2> QED BY <1>6, <1>8, <2>1, <2>4, <2>5 DEF CastOK, CastGrows
<1>10. Follows("broadcast", "begin")
  BY DEF Follows, GoalLabel, CastLabel, CalledLabel, SentLabel
<1>11. GoodInv'
  BY <1>1, <1>4, <1>6, <1>9, <1>10, GoodFlow, Services
<1>12. GateOK' /\ AgentOK' /\ TabOK' /\ received' = received
  BY SameGate, SameAgent DEF Broadcast, ShapeInv, DataOK, TabOK
<1> QED BY <1>1, <1>9, <1>11, <1>12 DEF ShapeInv, DataOK

\* The head of the chat server, when it is about a broadcast under way.
LEMMA ServerHead ==
    ASSUME ShapeInv, NEW from \in {"begin", "next"}, At("chat", from),
           NEW n, n = Cur("chat").n
    PROVE  /\ MailInv /\ mbox["chat"] # << >> /\ Heads("chat")
           /\ Cur("chat") \in Coroutine /\ Cur("chat").at = from
           /\ InFlight(Cur("chat"))
           /\ n \in Chat /\ n \in 0 .. MaxChat /\ cast[n].at # "none"
           /\ cast[n].from \in Agent /\ cast[n] \in CastType
<1>1. MailInv /\ Heads("chat") /\ Cur("chat").at = from /\ Cur("chat") \in Coroutine
  BY AtHead, Services DEF ShapeInv, Heads
<1>2. InFlight(Cur("chat"))
  BY <1>1, HeadFlying, Services
<1>3. Good(Cur("chat"))
  BY <1>1, <1>2 DEF ShapeInv, GoodInv
<1>4. /\ n \in Chat /\ cast[n].at # "none" /\ cast[n].from \in Agent
  <2>1. from \in CastLabel /\ from \in CalledLabel \cup {"begin"}
    BY DEF CastLabel, CalledLabel, SentLabel
  <2> QED BY <1>1, <1>3, <2>1 DEF Good
<1>5. cast[n] \in CastType /\ n \in 0 .. MaxChat
  BY <1>1, <1>4 DEF ShapeInv, DataOK, CastOK, Coroutine
<1> QED BY <1>1, <1>2, <1>4, <1>5 DEF Heads

\* The record of one broadcast changes.
LEMMA CastStep ==
    ASSUME CastOK, NEW n \in Chat, NEW d \in CastType, d.at # "none",
           d.from \in Agent \/ d.from = cast[n].from, cast' = [cast EXCEPT ![n] = d]
    PROVE  /\ CastOK' /\ CastGrows /\ cast'[n] = d
           /\ \A k \in Chat : k # n => cast'[k] = cast[k]
<1>1. cast \in [Chat -> CastType]
  BY DEF CastOK
<1>2. cast' \in [Chat -> CastType]
  BY <1>1
<1>3. cast'[n] = d
  BY <1>1
<1>4. \A k \in Chat : k # n => cast'[k] = cast[k]
  BY <1>1
<1>5. CastGrows
  BY <1>3, <1>4 DEF CastGrows
<1> QED BY <1>2, <1>3, <1>4, <1>5 DEF CastOK

\* A step changes the record of broadcast n only; n ends; n visits account b, with
\* todo and steady as of now.
Others(n) == \A k \in Chat : k # n => cast'[k] = cast[k]
Answered(n, at) == cast'[n] = [cast[n] EXCEPT !.at = at]
Visited(n, b, todo, steady) ==
    /\ cast'[n].at = "called" /\ cast'[n].cur = b /\ cast'[n].steady = steady
    /\ cast'[n].todo = {x \in todo : onlineTab[x] # Nil} \ {b}
    /\ cast'[n].disturbed = cast[n].disturbed /\ cast'[n].lost = cast[n].lost
    /\ cast'[n].author = cast[n].author /\ cast'[n].account = cast[n].account

\* A broadcast ends, and its sender is answered.
LEMMA AnswerFlow ==
    ASSUME ShapeInv, NEW from \in {"begin", "next"}, At("chat", from),
           NEW n, n = Cur("chat").n, NEW at \in {"done", "failed"}, End(n, at)
    PROVE  /\ Put("chat", cast[n].from, Co("rpc_ret", cast[n].from, Nil, n)) /\ MailInv'
           /\ CastOK' /\ CastGrows /\ Others(n) /\ Answered(n, at)
<1>1. /\ MailInv /\ mbox["chat"] # << >> /\ n \in Chat /\ n \in 0 .. MaxChat
      /\ cast[n].from \in Agent /\ cast[n] \in CastType
  BY ServerHead
<1>2. PICK a : a = cast[n].from
  OBVIOUS
<1>3. PICK m : m = Co("rpc_ret", a, Nil, n)
  OBVIOUS
<1>4. m \in Coroutine /\ m.at = "rpc_ret" /\ m.agent = a
  BY <1>1, <1>2, <1>3 DEF Co, Coroutine, Label, Opt
<1>5. m \notin Stray(a)
  BY <1>1, <1>2, <1>4, Places DEF AgentLabel, Label
<1>6. mbox' = [Taken("chat") EXCEPT ![a] = Append(@, m)] /\ ext' = ext
  BY <1>2, <1>3 DEF End
<1>7. Put("chat", a, m) /\ MailInv'
  BY <1>1, <1>2, <1>4, <1>5, <1>6, PutFlow, Services
<1>8. PICK d : d = [cast[n] EXCEPT !.at = at]
  OBVIOUS
<1>9. d \in CastType /\ d.at = at /\ d.from = a
  BY <1>1, <1>2, <1>8 DEF CastType
<1>10. cast' = [cast EXCEPT ![n] = d] /\ CastOK
  BY <1>8 DEF End, ShapeInv, DataOK
<1>11. /\ CastOK' /\ CastGrows /\ cast'[n] = d
       /\ \A k \in Chat : k # n => cast'[k] = cast[k]
  <2>1. d.at # "none"
    BY <1>9
  <2> QED BY <1>1, <1>2, <1>9, <1>10, <2>1, CastStep
<1>12. Others(n) /\ Answered(n, at)
  BY <1>8, <1>11 DEF Others, Answered
<1> QED BY <1>2, <1>3, <1>7, <1>11, <1>12

\* The traversal reads an entry, and its agent is called.
LEMMA VisitFlow ==
    ASSUME ShapeInv, NEW from \in {"begin", "next"}, At("chat", from),
           NEW n, n = Cur("chat").n, NEW b \in Account, onlineTab[b] # Nil,
           NEW todo \in SUBSET Account, NEW steady \in SUBSET Account,
           Visit(n, [cast[n] EXCEPT !.todo = todo, !.steady = steady], b)
    PROVE  /\ onlineTab[b] \in Agent
           /\ Put("chat", onlineTab[b], Co("chat_world", onlineTab[b], b, n)) /\ MailInv'
           /\ CastOK' /\ CastGrows /\ Others(n) /\ Visited(n, b, todo, steady)
<1>1. /\ MailInv /\ mbox["chat"] # << >> /\ n \in Chat /\ n \in 0 .. MaxChat
      /\ cast[n].from \in Agent /\ cast[n] \in CastType
  BY ServerHead
<1>2. PICK a : a = onlineTab[b]
  OBVIOUS
<1>3. a \in Agent
  BY <1>2 DEF ShapeInv, DataOK, TabOK, Opt
<1>4. PICK m : m = Co("chat_world", a, b, n)
  OBVIOUS
<1>5. m \in Coroutine /\ m.at = "chat_world" /\ m.agent = a
  BY <1>1, <1>3, <1>4 DEF Co, Coroutine, Label, Opt
<1>6. m \notin Stray(a)
  BY <1>3, <1>5, Places DEF AgentLabel, Label
<1>7. mbox' = [Taken("chat") EXCEPT ![a] = Append(@, m)] /\ ext' = ext
  BY <1>2, <1>4 DEF Visit
<1>8. Put("chat", a, m) /\ MailInv'
  BY <1>1, <1>3, <1>5, <1>6, <1>7, PutFlow, Services
<1>9. PICK c : c = [cast[n] EXCEPT !.todo = todo, !.steady = steady]
  OBVIOUS
<1>10. PICK r : r = {x \in todo : onlineTab[x] # Nil} \ {b}
  OBVIOUS
<1>11. c \in CastType /\ c.todo = todo /\ r \in SUBSET Account
  BY <1>1, <1>9, <1>10 DEF CastType
<1>12. PICK d : d = [c EXCEPT !.at = "called", !.cur = b, !.todo = r]
  OBVIOUS
<1>13. /\ d \in CastType /\ d.at = "called" /\ d.cur = b /\ d.todo = r
       /\ d.steady = steady /\ d.from = cast[n].from
       /\ d.disturbed = cast[n].disturbed /\ d.lost = cast[n].lost
       /\ d.author = cast[n].author /\ d.account = cast[n].account
  BY <1>1, <1>9, <1>11, <1>12 DEF CastType, Opt
<1>14. cast' = [cast EXCEPT ![n] = d] /\ CastOK
  <2>1. Rest(c) \ {b} = r
    BY <1>10, <1>11 DEF Rest
  <2>2. Visit(n, c, b)
    BY <1>9
  <2> QED BY <2>1, <2>2, <1>12 DEF Visit, ShapeInv, DataOK
<1>15. /\ CastOK' /\ CastGrows /\ cast'[n] = d
       /\ \A k \in Chat : k # n => cast'[k] = cast[k]
  BY <1>1, <1>13, <1>14, CastStep
<1>16. Others(n) /\ Visited(n, b, todo, steady)
  BY <1>10, <1>13, <1>15 DEF Others, Visited
<1> QED BY <1>2, <1>3, <1>4, <1>8, <1>15, <1>16

\* The accounts that are online, and those of them that are there to stay.
Present == {b \in Account : onlineTab[b] # Nil}
Staying == {b \in Present : \A a \in Agent : slot[a].account = b => slot[a].at # "closed"}

\* The two ways to visit the next entry.
Visiting(from, n, b, todo, steady) ==
    /\ At("chat", from) /\ n = Cur("chat").n
    /\ b \in Account /\ onlineTab[b] # Nil /\ b \in todo
    /\ todo \in SUBSET Account /\ steady \in SUBSET Account
    /\ Visit(n, [cast[n] EXCEPT !.todo = todo, !.steady = steady], b)

LEMMA BeginVisits ==
    ASSUME Begin
    PROVE  \E n, b : Visiting("begin", n, b, Present, Staying)
<1>1. PICK n : n = Cur("chat").n
  OBVIOUS
<1>2. PICK b \in Present :
         Visit(n, [cast[n] EXCEPT !.todo = Present, !.steady = Staying], b)
  BY <1>1 DEF Begin, Present, Staying
<1>3. At("chat", "begin")
  BY DEF Begin
<1>4. b \in Account /\ onlineTab[b] # Nil /\ Present \in SUBSET Account
      /\ Staying \in SUBSET Account
  BY <1>2 DEF Present, Staying
<1> QED BY <1>1, <1>2, <1>3, <1>4 DEF Visiting

LEMMA NextVisits ==
    ASSUME ShapeInv, NextKey
    PROVE  \E n, b : /\ Visiting("next", n, b, cast[n].todo, cast[n].steady)
                     /\ ~ cast[n].lost
<1>1. PICK n : n = Cur("chat").n
  OBVIOUS
<1>2. At("chat", "next")
  BY DEF NextKey
<1>3. cast[n] \in CastType
  BY <1>1, <1>2, ServerHead
<1>4. [cast[n] EXCEPT !.todo = cast[n].todo, !.steady = cast[n].steady] = cast[n]
  BY <1>3 DEF CastType
<1>5. PICK b \in Rest(cast[n]) : Visit(n, cast[n], b)
  BY <1>1 DEF NextKey
<1>6. /\ cast[n].todo \in SUBSET Account /\ cast[n].steady \in SUBSET Account
      /\ ~ cast[n].lost
  BY <1>1, <1>3 DEF CastType, NextKey
<1>7. b \in cast[n].todo /\ onlineTab[b] # Nil
  BY <1>5 DEF Rest
<1> QED BY <1>1, <1>2, <1>4, <1>5, <1>6, <1>7 DEF Visiting

LEMMA VisitShape ==
    ASSUME ShapeInv, NEW from \in {"begin", "next"}, NEW n, NEW b, NEW todo, NEW steady,
           Visiting(from, n, b, todo, steady)
    PROVE  ShapeInv'
<1>1. /\ n \in Chat /\ cast[n].from \in Agent
  BY ServerHead DEF Visiting
<1>2. PICK m : m = Co("chat_world", onlineTab[b], b, n)
  OBVIOUS
<1>3. /\ Put("chat", onlineTab[b], m) /\ MailInv'
      /\ CastOK' /\ CastGrows /\ cast'[n].at = "called"
  <2>1. /\ At("chat", from) /\ n = Cur("chat").n /\ b \in Account /\ onlineTab[b] # Nil
        /\ todo \in SUBSET Account /\ steady \in SUBSET Account
        /\ Visit(n, [cast[n] EXCEPT !.todo = todo, !.steady = steady], b)
    BY DEF Visiting
  <2>2. Put("chat", onlineTab[b], Co("chat_world", onlineTab[b], b, n)) /\ MailInv'
    BY <2>1, VisitFlow
  <2>3. CastOK' /\ CastGrows
    BY <2>1, VisitFlow
  <2>4. cast'[n].at = "called"
    BY <2>1, VisitFlow DEF Visited
  <2> QED BY <1>2, <2>2, <2>3, <2>4
<1>4. Good(m)'
  <2>1. m.at = "chat_world" /\ m.account = b /\ m.n = n
    BY <1>2 DEF Co
  <2>2. cast'[n].from \in Agent
    BY <1>1, <1>3 DEF CastGrows
  <2>3. b \in Account
    BY DEF Visiting
  <2> QED BY <1>1, <1>3, <2>1, <2>2, <2>3 DEF Good
<1>5. GoodInv'
  BY <1>3, <1>4, GoodHop DEF Put
<1>6. UNCHANGED <<gateVars, agentVars, onlineTab, received>>
  BY DEF Visiting, Visit
<1>7. GateOK' /\ AgentOK' /\ TabOK' /\ received' \in [Chat -> [Account -> Nat]]
  BY <1>6, SameGate, SameAgent DEF ShapeInv, DataOK, TabOK
<1> QED BY <1>3, <1>5, <1>7 DEF ShapeInv, DataOK

\* The two ways to end a broadcast.
Answering(from, n, at) ==
    /\ At("chat", from) /\ n = Cur("chat").n /\ at \in {"done", "failed"} /\ End(n, at)

LEMMA Answers ==
    /\ BeginFailed => \E n : Answering("begin", n, "failed")
    /\ NextEnd     => \E n : /\ Answering("next", n, "done") /\ ~ cast[n].lost
                             /\ Rest(cast[n]) = {}
    /\ NextFailed  => \E n : Answering("next", n, "failed") /\ cast[n].lost
BY DEF BeginFailed, NextEnd, NextFailed, Answering

LEMMA AnswerShape ==
    ASSUME ShapeInv, NEW from \in {"begin", "next"}, NEW n, NEW at, Answering(from, n, at)
    PROVE  ShapeInv'
<1>1. PICK m : m = Co("rpc_ret", cast[n].from, Nil, n)
  OBVIOUS
<1>2. /\ Put("chat", cast[n].from, m) /\ MailInv' /\ CastOK' /\ CastGrows
  BY <1>1, AnswerFlow DEF Answering
<1>3. m.at = "rpc_ret"
  BY <1>1 DEF Co
<1>4. Good(m)'
  BY <1>3 DEF Good, GoalLabel, CastLabel, CalledLabel, SentLabel, FrameLabel
<1>5. GoodInv'
  BY <1>2, <1>4, GoodHop DEF Put
<1>6. UNCHANGED <<gateVars, agentVars, onlineTab, received>>
  BY DEF Answering, End
<1>7. GateOK' /\ AgentOK' /\ TabOK' /\ received' \in [Chat -> [Account -> Nat]]
  BY <1>6, SameGate, SameAgent DEF ShapeInv, DataOK, TabOK
<1> QED BY <1>2, <1>5, <1>7 DEF ShapeInv, DataOK

LEMMA ChatShape ==
    ASSUME ShapeInv, ChatStep
    PROVE  ShapeInv'
BY BeginVisits, NextVisits, VisitShape, Answers, AnswerShape, TableShape, BroadcastShape
   DEF ChatStep

LEMMA GateShape ==
    ASSUME ShapeInv, GamedClose \/ Recycle
    PROVE  ShapeInv'
<1>0. MailInv
  BY DEF ShapeInv
<1>1. CASE GamedClose
  <2>1. Flow("gate", "gamed_close", "log", "recycle") /\ MailInv'
    BY <1>0, <1>1, GateFlows
  <2>2. UNCHANGED <<gateVars, agentVars, chatVars>>
    BY <1>1 DEF GamedClose
  <2>3. CastGrows /\ Follows("gamed_close", "recycle")
    BY <2>2 DEF CastGrows, chatVars, Follows, GoalLabel, CastLabel, CalledLabel, SentLabel,
                FrameLabel
  <2>4. GoodInv'
    BY <2>1, <2>3, GoodFlow, Services
  <2>5. DataOK'
    BY <2>2 DEF ShapeInv, DataOK, GateOK, AgentOK, TabOK, CastOK, gateVars, agentVars, chatVars
  <2> QED BY <2>1, <2>4, <2>5 DEF ShapeInv
<1>2. CASE Recycle
  <2>1. Ends("gate", "recycle") /\ MailInv'
    BY <1>0, <1>2, GateFlows
  <2>2. Cur("gate").agent \in Agent
    BY <2>1 DEF Ends, Heads, Coroutine
  <2>3. GateOK'
    <3>1. PICK a \in Agent : a = Cur("gate").agent
      BY <2>2
    <3>2. /\ slot' = [slot EXCEPT ![a] = Idle] /\ pool' = Append(pool, a)
          /\ nlogin' = nlogin /\ known' = known
      BY <1>2, <3>1 DEF Recycle
    <3>3. GateOK
      BY DEF ShapeInv, DataOK
    <3>4. pool' \in Seq(Agent)
      BY <3>2, <3>3 DEF GateOK
    <3>5. Idle \in [account : Opt(Account), at : {"idle", "login", "forwarded", "closed"}]
      BY DEF Idle, Opt
    <3> QED BY <3>2, <3>3, <3>4, <3>5 DEF GateOK
  <2>4. UNCHANGED <<agentVars, chatVars>>
    BY <1>2 DEF Recycle
  <2> QED BY <2>1, <2>3, <2>4, EndsShape
<1> QED BY <1>1, <1>2

LEMMA ReturnShape ==
    ASSUME ShapeInv, Logger \/ Database
    PROVE  ShapeInv'
<1>1. UNCHANGED <<gateVars, agentVars, chatVars>>
  BY DEF Logger, Database
<1>2. DataOK'
  BY <1>1 DEF ShapeInv, DataOK, GateOK, AgentOK, TabOK, CastOK, gateVars, agentVars, chatVars
<1>3. MailInv' /\ \E h \in Coroutine : Hop(h, h)
  <2>0. MailInv
    BY DEF ShapeInv
  <2>1. CASE Logger
    BY <2>0, <2>1, LoggerFlow DEF Back
  <2>2. CASE Database
    BY <2>0, <2>2, DatabaseFlow DEF Loads
  <2> QED BY <2>1, <2>2
<1>4. PICK h \in Coroutine : Hop(h, h)
  BY <1>3
<1>5. Good(h)
  BY <1>4, HopFlying DEF ShapeInv, GoodInv
<1>6. CastGrows /\ Good(h)'
  BY <1>1, <1>5 DEF CastGrows, chatVars, Good
<1> QED BY <1>2, <1>3, <1>4, <1>6, GoodHop DEF ShapeInv

\* The gateway and the clients start coroutines.
LEMMA LoginPost ==
    ASSUME ShapeInv, NEW account \in Account, Login(account)
    PROVE  \E a \in Agent :
              /\ a = Head(pool) /\ a = pool[1] /\ pool \in Seq(Agent) /\ pool # << >>
              /\ slot' = [slot EXCEPT ![a] = [account |-> account, at |-> "login"]]
              /\ Co("agent_open", a, account, 0) \in Coroutine
              /\ Give(Co("agent_open", a, account, 0)) /\ MailInv'
              /\ mbox' = [mbox EXCEPT ![a] = Append(@, Co("agent_open", a, account, 0))]
<1>1. PICK a : a = Head(pool)
  OBVIOUS
<1>2. pool \in Seq(Agent) /\ pool # << >>
  BY DEF Login, ShapeInv, DataOK, GateOK
<1>3. a \in Agent /\ a = pool[1]
  BY <1>1, <1>2
<1>4. PICK m : m = Co("agent_open", a, account, 0)
  OBVIOUS
<1>5. 0 \in 0 .. MaxChat
  BY ConstantAssumption
<1>6. m \in Coroutine /\ m.agent = a /\ m.at \in AgentLabel
  BY <1>3, <1>4, <1>5 DEF Co, Coroutine, Label, Opt, AgentLabel
<1>7. /\ slot' = [slot EXCEPT ![a] = [account |-> account, at |-> "login"]]
      /\ Post(a, m) /\ ext' = ext
  BY <1>1, <1>4 DEF Login
<1>8. Give(m) /\ MailInv'
  BY <1>3, <1>6, <1>7, PostFlow DEF ShapeInv
<1>9. mbox' = [mbox EXCEPT ![a] = Append(@, m)]
  BY <1>7 DEF Post
<1> QED BY <1>1, <1>2, <1>3, <1>4, <1>6, <1>7, <1>8, <1>9

LEMMA LoginShape ==
    ASSUME ShapeInv, NEW account \in Account, Login(account)
    PROVE  ShapeInv'
<1>1. PICK a \in Agent :
         /\ a = Head(pool) /\ pool \in Seq(Agent) /\ pool # << >>
         /\ slot' = [slot EXCEPT ![a] = [account |-> account, at |-> "login"]]
         /\ Co("agent_open", a, account, 0) \in Coroutine
         /\ Give(Co("agent_open", a, account, 0)) /\ MailInv'
  BY LoginPost
<1>2. PICK m : m = Co("agent_open", a, account, 0)
  OBVIOUS
<1>3. UNCHANGED <<agentVars, chatVars>>
  BY DEF Login
<1>4. CastGrows /\ Good(m)'
  BY <1>2, <1>3 DEF CastGrows, chatVars, Good, Co, GoalLabel, CastLabel, CalledLabel,
                    SentLabel, FrameLabel
<1>5. GoodInv'
  BY <1>1, <1>2, <1>4, GoodGive
<1>6. pool' \in Seq(Agent)
  <2>1. Tail(pool) \in Seq(Agent)
    BY <1>1
  <2> QED BY <2>1 DEF Login
<1>7. nlogin' \in 0 .. MaxLogin /\ known' \in 0 .. MaxAccount
  BY ConstantAssumption DEF Login, ShapeInv, DataOK, GateOK, Account
<1>8. slot' \in [Agent -> [account : Opt(Account),
                           at : {"idle", "login", "forwarded", "closed"}]]
  BY <1>1 DEF ShapeInv, DataOK, GateOK, Opt
<1>9. AgentOK' /\ TabOK' /\ CastOK' /\ received' \in [Chat -> [Account -> Nat]]
  BY <1>3, SameAgent DEF ShapeInv, DataOK, TabOK, CastOK, chatVars
<1> QED BY <1>1, <1>5, <1>6, <1>7, <1>8, <1>9 DEF ShapeInv, DataOK, GateOK

LEMMA ClientPost ==
    ASSUME ShapeInv, NEW a \in Agent, NEW n \in Chat, ClientChat(a, n)
    PROVE  /\ Co("rpc", a, Nil, n) \in Coroutine
           /\ Give(Co("rpc", a, Nil, n)) /\ MailInv'
           /\ mbox' = [mbox EXCEPT ![a] = Append(@, Co("rpc", a, Nil, n))]
           /\ CastOK' /\ CastGrows
           /\ \A k \in Chat : k # n => cast'[k] = cast[k]
           /\ cast'[n] = [cast[n] EXCEPT !.at = "sent", !.author = slot[a].account]
           /\ cast'[n].at = "sent" /\ cast'[n].author = slot[a].account
<1>1. PICK m : m = Co("rpc", a, Nil, n)
  OBVIOUS
<1>2. n \in 0 .. MaxChat
  BY ConstantAssumption DEF Chat
<1>3. m \in Coroutine /\ m.agent = a /\ m.at \in AgentLabel
  BY <1>1, <1>2 DEF Co, Coroutine, Label, Opt, AgentLabel
<1>4. Post(a, m) /\ ext' = ext
  BY <1>1 DEF ClientChat
<1>5. Give(m) /\ MailInv'
  BY <1>3, <1>4, PostFlow DEF ShapeInv
<1>6. PICK c, x : c = cast[n] /\ x = slot[a].account
  OBVIOUS
<1>7. CastOK /\ c \in CastType /\ x \in Opt(Account)
  BY <1>6 DEF ShapeInv, DataOK, CastOK, GateOK
<1>8. PICK d : d = [c EXCEPT !.at = "sent", !.author = x]
  OBVIOUS
<1>9. d \in CastType /\ d.at = "sent" /\ d.author = x /\ d.from = c.from
  BY <1>7, <1>8 DEF CastType
<1>10. cast' = [cast EXCEPT ![n] = d]
  BY <1>6, <1>7, <1>8 DEF ClientChat, CastOK
<1>11. /\ CastOK' /\ CastGrows /\ cast'[n] = d
       /\ \A k \in Chat : k # n => cast'[k] = cast[k]
  <2>1. d.at # "none"
    BY <1>9
  <2> QED BY <1>6, <1>7, <1>9, <1>10, <2>1, CastStep
<1>12. mbox' = [mbox EXCEPT ![a] = Append(@, m)]
  BY <1>4 DEF Post
<1> QED BY <1>1, <1>3, <1>5, <1>6, <1>8, <1>9, <1>11, <1>12

LEMMA ClientShape ==
    ASSUME ShapeInv, NEW a \in Agent, NEW n \in Chat, ClientChat(a, n)
    PROVE  ShapeInv'
<1>1. PICK m : m = Co("rpc", a, Nil, n)
  OBVIOUS
<1>2. m \in Coroutine /\ Give(m) /\ MailInv' /\ CastOK' /\ CastGrows /\ cast'[n].at = "sent"
  BY <1>1, ClientPost
<1>3. Good(m)'
  BY <1>1, <1>2 DEF Good, Co, GoalLabel, CalledLabel
<1>4. GoodInv'
  BY <1>2, <1>3, GoodGive
<1>5. UNCHANGED <<gateVars, agentVars, onlineTab, received>>
  BY DEF ClientChat
<1>6. GateOK' /\ AgentOK' /\ TabOK' /\ received' \in [Chat -> [Account -> Nat]]
  BY <1>5, SameGate, SameAgent DEF ShapeInv, DataOK, TabOK
<1> QED BY <1>2, <1>4, <1>6 DEF ShapeInv, DataOK

LEMMA LeavePost ==
    ASSUME ShapeInv, NEW a \in Agent, Leave(a)
    PROVE  /\ Co("agent_close", a, slot[a].account, 0) \in Coroutine
           /\ Give(Co("agent_close", a, slot[a].account, 0)) /\ MailInv'
           /\ mbox' = [mbox EXCEPT ![a] =
                          Append(@, Co("agent_close", a, slot[a].account, 0))]
           /\ CastOK'
           /\ \A n \in Chat :
                 cast'[n] = [cast[n] EXCEPT !.steady = @ \ {slot[a].account}]
<1>1. PICK x : x = slot[a].account
  OBVIOUS
<1>2. PICK m : m = Co("agent_close", a, x, 0)
  OBVIOUS
<1>3. x \in Opt(Account) /\ 0 \in 0 .. MaxChat /\ CastOK
  BY <1>1, ConstantAssumption DEF ShapeInv, DataOK, GateOK
<1>4. m \in Coroutine /\ m.agent = a /\ m.at \in AgentLabel
  BY <1>2, <1>3 DEF Co, Coroutine, Label, AgentLabel
<1>5. Post(a, m) /\ ext' = ext
  BY <1>1, <1>2 DEF Leave
<1>6. Give(m) /\ MailInv'
  BY <1>4, <1>5, PostFlow DEF ShapeInv
<1>7. cast' = [n \in Chat |-> [cast[n] EXCEPT !.steady = @ \ {x}]]
  BY <1>1 DEF Leave
<1>8. ASSUME NEW n \in Chat PROVE [cast[n] EXCEPT !.steady = @ \ {x}] \in CastType
  <2>1. PICK c : c = cast[n]
    OBVIOUS
  <2>2. c \in CastType
    BY <1>3, <2>1 DEF CastOK
  <2>3. PICK st : st = c.steady \ {x}
    OBVIOUS
  <2>4. st \in SUBSET Account
    BY <2>2, <2>3 DEF CastType
  <2>5. [c EXCEPT !.steady = st] \in CastType
    BY <2>2, <2>4 DEF CastType
  <2> QED BY <2>1, <2>3, <2>5
<1>9. CastOK' /\ \A n \in Chat : cast'[n] = [cast[n] EXCEPT !.steady = @ \ {x}]
  BY <1>7, <1>8 DEF CastOK
<1>10. mbox' = [mbox EXCEPT ![a] = Append(@, m)]
  BY <1>5 DEF Post
<1> QED BY <1>1, <1>2, <1>4, <1>6, <1>9, <1>10

\* A client that leaves changes no more of a broadcast than who is steady.
LEMMA LeaveKeeps ==
    ASSUME ShapeInv, NEW a \in Agent, Leave(a), NEW n \in Chat
    PROVE  /\ cast'[n].at = cast[n].at /\ cast'[n].from = cast[n].from
           /\ cast'[n].account = cast[n].account /\ cast'[n].author = cast[n].author
           /\ cast'[n].todo = cast[n].todo /\ cast'[n].cur = cast[n].cur
           /\ cast'[n].disturbed = cast[n].disturbed /\ cast'[n].lost = cast[n].lost
           /\ cast'[n].steady = cast[n].steady \ {slot[a].account}
<1>1. PICK c, x : c = cast[n] /\ x = slot[a].account
  OBVIOUS
<1>2. PICK st : st = c.steady \ {x}
  OBVIOUS
<1>3. PICK d : d = [c EXCEPT !.steady = st]
  OBVIOUS
<1>4. cast'[n] = d
  BY <1>1, <1>2, <1>3, LeavePost
<1>5. c \in CastType
  BY <1>1 DEF ShapeInv, DataOK, CastOK
<1>6. /\ d.at = c.at /\ d.from = c.from /\ d.account = c.account /\ d.author = c.author
      /\ d.todo = c.todo /\ d.cur = c.cur /\ d.disturbed = c.disturbed
      /\ d.lost = c.lost /\ d.steady = st
  BY <1>3, <1>5 DEF CastType
<1> QED BY <1>1, <1>2, <1>4, <1>6

LEMMA LeaveShape ==
    ASSUME ShapeInv, NEW a \in Agent, Leave(a)
    PROVE  ShapeInv'
<1>1. PICK m : m = Co("agent_close", a, slot[a].account, 0)
  OBVIOUS
<1>2. m \in Coroutine /\ Give(m) /\ MailInv' /\ CastOK'
  BY <1>1, LeavePost
<1>3. CastGrows
  BY LeaveKeeps DEF CastGrows
<1>4. Good(m)'
  BY <1>1 DEF Good, Co, GoalLabel, CastLabel, CalledLabel, SentLabel, FrameLabel
<1>5. GoodInv'
  BY <1>2, <1>3, <1>4, GoodGive
<1>6. UNCHANGED <<agentVars, onlineTab, received>>
  BY DEF Leave
<1>7. AgentOK' /\ TabOK' /\ received' \in [Chat -> [Account -> Nat]]
  BY <1>6, SameAgent DEF ShapeInv, DataOK, TabOK
<1>8. GateOK'
  <2>1. GateOK
    BY DEF ShapeInv, DataOK
  <2>2. UNCHANGED <<pool, nlogin, known>> /\ slot' = [slot EXCEPT ![a].at = "closed"]
    BY DEF Leave
  <2> QED BY <2>1, <2>2 DEF GateOK
<1> QED BY <1>2, <1>5, <1>7, <1>8 DEF ShapeInv, DataOK

LEMMA ShapeInit == Init => ShapeInv
<1> SUFFICES ASSUME Init PROVE ShapeInv
  OBVIOUS
<1>1. mbox = [s \in Service |-> << >>] /\ ext = {}
  BY DEF Init
<1>2. mbox \in Mail /\ \A s \in Service : mbox[s] = << >>
  BY <1>1 DEF Mail
<1>3. MailInv
  BY <1>1, <1>2 DEF MailInv, Free
<1>4. GoodInv
  BY <1>1, <1>2 DEF GoodInv, InFlight, Flying
<1>5. Idle \in [account : Opt(Account), at : {"idle", "login", "forwarded", "closed"}]
  BY DEF Idle, Opt
<1>6. GateOK
  BY <1>5, ConstantAssumption DEF Init, GateOK
<1>7. AgentOK /\ TabOK
  BY DEF Init, AgentOK, TabOK, Opt
<1>8. NoCast \in CastType
  BY DEF NoCast, CastType, Opt
<1>9. CastOK /\ received \in [Chat -> [Account -> Nat]]
  BY <1>8 DEF Init, CastOK
<1> QED BY <1>3, <1>4, <1>6, <1>7, <1>9 DEF ShapeInv, DataOK

LEMMA ShapeStep == ShapeInv /\ [Next]_vars => ShapeInv'
<1> SUFFICES ASSUME ShapeInv, [Next]_vars PROVE ShapeInv'
  OBVIOUS
<1>1. CASE UNCHANGED vars
  BY <1>1 DEF vars, gateVars, agentVars, chatVars, ShapeInv, MailInv, Mail, DataOK, GateOK,
              AgentOK, TabOK, CastOK, GoodInv, Good, InFlight
<1>2. CASE ServerStep
  BY <1>2, ReturnShape, GateShape, ChatShape, LifeShape, FrameShape, GoalShape, WriteShape
     DEF ServerStep, AgentStep
<1>3. CASE ClientStep
  BY <1>3, LoginShape, ClientShape, LeaveShape DEF ClientStep
<1> QED BY <1>1, <1>2, <1>3 DEF Next

LEMMA ShapeHolds == Spec => []ShapeInv
<1>1. Init => ShapeInv
  BY ShapeInit
<1>2. ShapeInv /\ [Next]_vars => ShapeInv'
  BY ShapeStep
<1> QED BY <1>1, <1>2, PTL DEF Spec

\* The variables keep their types (Chat!TypeOK).
THEOREM TypeHolds == Spec => []TypeOK
BY ShapeHolds, ShapeType, PTL

-----------------------------------------------------------------------------
(* A set of coroutines and the steps of the system                         *)

Out(B)    == Gone(mbox, ext, B)
Single(B) == Alone(mbox, ext, B)
Quiet(B)  == /\ Out(B) <=> Out(B)'
             /\ Single(B) => Single(B)'
             /\ \A m \in B : InFlight(m)' => InFlight(m)
\* m is all there is of B.
Only(m, B) == Single(B) /\ ~ Out(B) /\ \A x \in B : InFlight(x) => x = m

LEMMA OutFlying ==
    ASSUME NEW B
    PROVE  Out(B) <=> \A m \in B : ~ InFlight(m)
BY GoneFlying DEF Out, InFlight

LEMMA HopFacts ==
    ASSUME MailInv, NEW h, NEW m \in Coroutine, Hop(h, m), NEW B
    PROVE  /\ h \notin B /\ m \notin B => Quiet(B)
           /\ Single(B) /\ h \in B /\ m \notin B => Out(B)'
           /\ Single(B) /\ h \in B /\ m \in B => Only(m, B)'
           /\ Out(B) /\ m \in B => Only(m, B)'
           /\ \A x : InFlight(x)' => InFlight(x) \/ x = m
           /\ InFlight(m)'
<1>1. PICK mb, ex : Takes(mbox, ext, mb, ex, h) /\ Gives(mb, ex, mbox', ext', m)
  BY DEF Hop
<1>2. mbox \in Mail /\ ext \subseteq Coroutine
  BY DEF MailInv
<1>3. mb \in Mail /\ ex \subseteq Coroutine
  BY <1>1, <1>2, TakeFlying
<1>4. /\ h \notin B => (Gone(mb, ex, B) => Out(B))
      /\ Out(B) => Gone(mb, ex, B) /\ h \notin B
      /\ Single(B) => Alone(mb, ex, B)
      /\ Single(B) /\ h \in B => Gone(mb, ex, B)
  BY <1>1, <1>2, TakeFacts DEF Out, Single
<1>5. /\ m \notin B => /\ Gone(mb, ex, B) => Out(B)'
                       /\ Alone(mb, ex, B) => Single(B)'
      /\ Out(B)' => Gone(mb, ex, B) /\ m \notin B
      /\ Gone(mb, ex, B) => Single(B)'
  BY <1>1, <1>3, GiveFacts DEF Out, Single
<1>6. /\ \A x : Flying(mb, ex, x) => InFlight(x)
      /\ \A x : InFlight(x)' => Flying(mb, ex, x) \/ x = m
      /\ InFlight(m)'
  <2>1. \A x : Flying(mb, ex, x) => InFlight(x)
    BY <1>1, <1>2, TakeFlying DEF InFlight
  <2>2. \A x : InFlight(x)' => Flying(mb, ex, x) \/ x = m
    BY <1>1, <1>3, GiveFlying DEF InFlight
  <2>3. InFlight(m)'
    BY <1>1, <1>3, GiveFlying DEF InFlight
  <2> QED BY <2>1, <2>2, <2>3
<1>7. Gone(mb, ex, B) /\ m \in B => Only(m, B)'
  <2>1. Gone(mb, ex, B) => \A x \in B : ~ Flying(mb, ex, x)
    BY GoneFlying
  <2> QED BY <1>5, <1>6, <2>1 DEF Only
<1>8. h \notin B /\ m \notin B => Quiet(B)
  BY <1>4, <1>5, <1>6 DEF Quiet
<1> QED BY <1>4, <1>5, <1>6, <1>7, <1>8

LEMMA DropFacts ==
    ASSUME MailInv, NEW h, Drop(h), NEW B
    PROVE  /\ h \notin B => Quiet(B)
           /\ Single(B) /\ h \in B => Out(B)'
           /\ \A x : InFlight(x)' => InFlight(x)
<1>1. mbox \in Mail /\ ext \subseteq Coroutine /\ Takes(mbox, ext, mbox', ext', h)
  BY DEF MailInv, Drop
<1>2. /\ h \notin B => (Out(B)' => Out(B))
      /\ Out(B) => Out(B)'
      /\ Single(B) => Single(B)'
      /\ Single(B) /\ h \in B => Out(B)'
  BY <1>1, TakeFacts DEF Out, Single
<1>3. \A x : InFlight(x)' => InFlight(x)
  BY <1>1, TakeFlying DEF InFlight
<1> QED BY <1>2, <1>3 DEF Quiet

LEMMA GiveInFacts ==
    ASSUME MailInv, NEW m \in Coroutine, Give(m), NEW B
    PROVE  /\ m \notin B => Quiet(B)
           /\ Out(B) /\ m \in B => Only(m, B)'
           /\ \A x : InFlight(x)' => InFlight(x) \/ x = m
           /\ InFlight(m)'
<1>1. mbox \in Mail /\ ext \subseteq Coroutine /\ Gives(mbox, ext, mbox', ext', m)
  BY DEF MailInv, Give
<1>2. /\ m \notin B => /\ Out(B) => Out(B)'
                       /\ Single(B) => Single(B)'
      /\ Out(B)' => Out(B) /\ m \notin B
      /\ Out(B) => Single(B)'
  BY <1>1, GiveFacts DEF Out, Single
<1>3. \A x : InFlight(x)' => InFlight(x) \/ x = m
  BY <1>1, GiveFlying DEF InFlight
<1>4. InFlight(m)'
  BY <1>1, GiveFlying DEF InFlight
<1>5. Out(B) => \A x \in B : ~ InFlight(x)
  BY OutFlying
<1> QED BY <1>2, <1>3, <1>4, <1>5 DEF Quiet, Only

-----------------------------------------------------------------------------
(* The life of an agent: at any time one coroutine at most opens or closes *)
(* it, and tells what the agent, the chat server and the gateway know of it*)

Is(a, labels) == {m \in Coroutine : m.agent = a /\ m.at \in labels}
Life(a) == Is(a, LifeLabel)

On(a, account) == \A b \in Account : onlineTab[b] = a <=> b = account
Off(a) == \A b \in Account : onlineTab[b] # a
Serving(a, account) ==
    user[a] = account /\ cmds[a] /\ chatUser[a] = account /\ On(a, account)

\* What a coroutine that opens or closes its agent knows, by its place.
Phase(m) ==
    LET a == m.agent IN
    /\ m.account \in Account /\ slot[a].account = m.account
    /\ m.at \in OpenLabel => slot[a].at = "login"
    /\ m.at \in CloseLabel => slot[a].at = "closed"
    /\ m.at \in {"agent_open", "loaded", "opened", "gamed_close", "recycle"} => user[a] = Nil
    /\ m.at \in {"register", "online"} => user[a] = m.account
    /\ m.at = "online" => cmds[a] /\ chatUser[a] = m.account
    /\ m.at \in {"agent_open", "loaded", "opened", "register", "online",
                 "close_finish", "gamed_close", "recycle"} => Off(a)
    /\ m.at \in {"welcome", "agent_close", "closing", "saved", "offline"} =>
          Serving(a, m.account)
    /\ m.at = "close_finish" => user[a] = m.account

\* What holds of an agent that is neither opened nor closed.
Still(a) ==
    \/ slot[a] = Idle /\ user[a] = Nil /\ Off(a)
    \/ /\ slot[a].at = "forwarded" /\ slot[a].account \in Account
       /\ Serving(a, slot[a].account)

LifeOf(a) == /\ Single(Life(a))
             /\ \A m \in Life(a) : InFlight(m) => Phase(m)
             /\ Out(Life(a)) => Still(a)
SlotInv == \A a, b \in Agent :
              a # b /\ slot[a].account # Nil => slot[a].account # slot[b].account
PoolInv == /\ \A i, j \in 1 .. Len(pool) : pool[i] = pool[j] => i = j
           /\ \A i \in 1 .. Len(pool) : slot[pool[i]].at = "idle"
LifeInv == (\A a \in Agent : LifeOf(a)) /\ SlotInv /\ PoolInv

\* What Phase and Still say of an agent stays as it is.
SameView(b) ==
    /\ slot'[b] = slot[b] /\ user'[b] = user[b] /\ cmds'[b] = cmds[b]
    /\ chatUser'[b] = chatUser[b]
    /\ \A x \in Account : onlineTab'[x] = b <=> onlineTab[x] = b

LEMMA LifeFrame ==
    ASSUME NEW b \in Agent, LifeOf(b), Quiet(Life(b)), SameView(b)
    PROVE  LifeOf(b)'
<1>1. ASSUME NEW m \in Life(b), Phase(m) PROVE Phase(m)'
  <2>1. m.agent = b
    BY DEF Life, Is
  <2>2. /\ Off(b)' <=> Off(b)
        /\ \A x : Serving(b, x)' <=> Serving(b, x)
    BY DEF SameView, Off, On, Serving
  <2> QED BY <1>1, <2>1, <2>2 DEF Phase, SameView
<1>2. Still(b) => Still(b)'
  <2>1. /\ Off(b) => Off(b)'
        /\ \A x : Serving(b, x) => Serving(b, x)'
    BY DEF SameView, Off, On, Serving
  <2> QED BY <2>1 DEF Still, SameView
<1> QED BY <1>1, <1>2 DEF LifeOf, Quiet

\* Every account in the table of the chat server is served by its agent.
LEMMA OnTable ==
    ASSUME LifeInv, NEW b \in Agent, NEW x \in Account, onlineTab[x] = b
    PROVE  slot[b].account = x /\ slot[b].at # "idle" /\ Serving(b, x)
<1>1. LifeOf(b)
  BY DEF LifeInv
<1>2. ~ Off(b)
  BY DEF Off
<1>3. \A y : Serving(b, y) => y = x
  BY DEF Serving, On
<1>4. CASE Out(Life(b))
  <2>1. Still(b)
    BY <1>1, <1>4 DEF LifeOf
  <2> QED BY <1>2, <1>3, <2>1 DEF Still
<1>5. CASE ~ Out(Life(b))
  <2>1. PICK m \in Life(b) : InFlight(m)
    BY <1>5, OutFlying
  <2>2. Phase(m)
    BY <1>1, <2>1 DEF LifeOf
  <2>3. m.agent = b /\ m.at \in LifeLabel
    BY DEF Life, Is
  <2>4. m.at \in {"welcome", "agent_close", "closing", "saved", "offline"}
    BY <1>2, <2>2, <2>3 DEF Phase, LifeLabel, OpenLabel, CloseLabel
  <2>5. Serving(b, m.account) /\ slot[b].account = m.account
    BY <2>2, <2>3, <2>4 DEF Phase
  <2>6. slot[b].at # "idle"
    BY <2>2, <2>3, <2>4 DEF Phase, OpenLabel, CloseLabel
  <2> QED BY <1>3, <2>5, <2>6
<1> QED BY <1>4, <1>5

LEMMA LifeTable == ShapeInv /\ LifeInv => TableExact
BY OnTable DEF TableExact, Serving, ShapeInv, DataOK, TabOK, Opt

\* A step that concerns no agent's life and nothing known of an agent.
LEMMA LifeAside ==
    ASSUME LifeInv, \A b \in Agent : Quiet(Life(b)),
           UNCHANGED <<slot, pool, agentVars, onlineTab>>
    PROVE  LifeInv'
<1>1. \A b \in Agent : SameView(b)
  BY DEF SameView, agentVars
<1>2. \A b \in Agent : LifeOf(b)'
  BY <1>1, LifeFrame DEF LifeInv
<1>3. SlotInv' /\ PoolInv'
  BY DEF LifeInv, SlotInv, PoolInv
<1> QED BY <1>2, <1>3 DEF LifeInv

\* A step in the life of a.
LEMMA LifeMove ==
    ASSUME ShapeInv, LifeInv, NEW a \in Agent, NEW h, NEW m, Hop(h, m),
           h \in Life(a), m \in Life(a), Phase(m)', SlotInv', PoolInv',
           \A b \in Agent : b # a => SameView(b)
    PROVE  LifeInv'
<1>0. MailInv /\ m \in Coroutine
  BY DEF ShapeInv, Life, Is
<1>1. LifeOf(a)'
  <2>1. Single(Life(a))
    BY DEF LifeInv, LifeOf
  <2>2. Only(m, Life(a))'
    BY <1>0, <2>1, HopFacts
  <2> QED BY <2>2 DEF Only, LifeOf
<1>2. ASSUME NEW b \in Agent, b # a PROVE LifeOf(b)'
  <2>1. h \notin Life(b) /\ m \notin Life(b)
    BY <1>2 DEF Life, Is
  <2>2. Quiet(Life(b))
    BY <1>0, <2>1, HopFacts
  <2> QED BY <1>2, <2>2, LifeFrame DEF LifeInv
<1> QED BY <1>1, <1>2 DEF LifeInv

\* A coroutine of the life of an agent that is at the head of a mailbox.
LEMMA LifeHead ==
    ASSUME ShapeInv, LifeInv, NEW h \in Coroutine, InFlight(h), h.at \in LifeLabel
    PROVE  h.agent \in Agent /\ h \in Life(h.agent) /\ Phase(h)
<1>1. h.agent \in Agent /\ h \in Life(h.agent)
  BY DEF Coroutine, Life, Is
<1> QED BY <1>1 DEF LifeInv, LifeOf

\* The steps of a life that change nothing but where it is.
Onward == {<<"agent_open", "loaded">>, <<"loaded", "opened">>,
           <<"agent_close", "closing">>, <<"closing", "saved">>, <<"saved", "offline">>,
           <<"gamed_close", "recycle">>}

LEMMA LifeOnward ==
    ASSUME ShapeInv, LifeInv, NEW h, NEW m, Hop(h, m), NEW from, NEW to,
           Relabel(h, m, from, to), from \in LifeLabel,
           from = to \/ <<from, to>> \in Onward,
           UNCHANGED <<slot, pool, agentVars, onlineTab>>
    PROVE  LifeInv'
<1>1. PICK a : a = h.agent
  OBVIOUS
<1>2. /\ h \in Coroutine /\ m \in Coroutine /\ h.at = from /\ m.at = to /\ m.agent = a
      /\ m.account = h.account
  BY <1>1 DEF Relabel
<1>3. InFlight(h)
  BY HopFlying DEF ShapeInv
<1>4. a \in Agent /\ h \in Life(a) /\ Phase(h)
  BY <1>1, <1>2, <1>3, LifeHead
<1>5. to \in LifeLabel
  BY DEF Onward, LifeLabel, OpenLabel, CloseLabel
<1>6. m \in Life(a)
  BY <1>2, <1>5 DEF Life, Is
<1>7. Phase(m)
  <2>1. CASE from = to
    BY <1>1, <1>2, <1>4, <2>1 DEF Phase
  <2>2. CASE <<from, to>> \in Onward
    BY <1>1, <1>2, <1>4, <2>2 DEF Phase, Onward, OpenLabel, CloseLabel
  <2> QED BY <2>1, <2>2
<1>8. Phase(m)'
  BY <1>7 DEF Phase, Serving, On, Off, agentVars
<1>9. \A b \in Agent : b # a => SameView(b)
  BY DEF SameView, agentVars
<1>10. SlotInv' /\ PoolInv'
  BY DEF LifeInv, SlotInv, PoolInv
<1> QED BY <1>4, <1>6, <1>8, <1>9, <1>10, LifeMove

\* Coroutines that have no part in it.
LEMMA AsideHop ==
    ASSUME ShapeInv, LifeInv, NEW h \in Coroutine, NEW m \in Coroutine, Hop(h, m),
           h.at \notin LifeLabel, m.at \notin LifeLabel,
           UNCHANGED <<slot, pool, agentVars, onlineTab>>
    PROVE  LifeInv'
<1>1. ASSUME NEW b \in Agent PROVE Quiet(Life(b))
  <2>1. h \notin Life(b) /\ m \notin Life(b) /\ MailInv
    BY DEF Life, Is, ShapeInv
  <2> QED BY <2>1, HopFacts
<1> QED BY <1>1, LifeAside

LEMMA AsideDrop ==
    ASSUME ShapeInv, LifeInv, NEW h \in Coroutine, Drop(h), h.at \notin LifeLabel,
           UNCHANGED <<slot, pool, agentVars, onlineTab>>
    PROVE  LifeInv'
<1>1. ASSUME NEW b \in Agent PROVE Quiet(Life(b))
  <2>1. h \notin Life(b) /\ MailInv
    BY DEF Life, Is, ShapeInv
  <2> QED BY <2>1, DropFacts
<1> QED BY <1>1, LifeAside

LEMMA AsideGive ==
    ASSUME ShapeInv, LifeInv, NEW m \in Coroutine, Give(m), m.at \notin LifeLabel,
           UNCHANGED <<slot, pool, agentVars, onlineTab>>
    PROVE  LifeInv'
<1>1. ASSUME NEW b \in Agent PROVE Quiet(Life(b))
  <2>1. m \notin Life(b) /\ MailInv
    BY DEF Life, Is, ShapeInv
  <2> QED BY <2>1, GiveInFacts
<1> QED BY <1>1, LifeAside

\* Steps of an agent's own coroutines, in flows.
LEMMA FlowOnward ==
    ASSUME ShapeInv, LifeInv, NEW s, NEW from, NEW t, NEW to, Flow(s, from, t, to),
           <<from, to>> \in Onward, UNCHANGED <<slot, pool, agentVars, onlineTab>>
    PROVE  LifeInv'
<1>1. PICK h, m : Hop(h, m) /\ Relabel(h, m, from, to)
  BY DEF Flow, Put
<1>2. from \in LifeLabel
  BY DEF Onward, LifeLabel, OpenLabel, CloseLabel
<1> QED BY <1>1, <1>2, LifeOnward

LEMMA WaitOnward ==
    ASSUME ShapeInv, LifeInv, NEW a, NEW from, NEW to, Wait(a, from, to),
           <<from, to>> \in Onward, UNCHANGED <<slot, pool, agentVars, onlineTab>>
    PROVE  LifeInv'
<1>1. PICK h, m : Hop(h, m) /\ Relabel(h, m, from, to)
  BY DEF Wait
<1>2. from \in LifeLabel
  BY DEF Onward, LifeLabel, OpenLabel, CloseLabel
<1> QED BY <1>1, <1>2, LifeOnward

LEMMA FlowAside ==
    ASSUME ShapeInv, LifeInv, NEW s, NEW from, NEW t, NEW to, Flow(s, from, t, to),
           from \notin LifeLabel, to \notin LifeLabel,
           UNCHANGED <<slot, pool, agentVars, onlineTab>>
    PROVE  LifeInv'
<1>1. PICK h, m : Hop(h, m) /\ Relabel(h, m, from, to)
  BY DEF Flow, Put
<1> QED BY <1>1, AsideHop DEF Relabel

LEMMA PutAside ==
    ASSUME ShapeInv, LifeInv, NEW s, NEW t, NEW m, Put(s, t, m),
           Cur(s).at \notin LifeLabel, m.at \notin LifeLabel,
           UNCHANGED <<slot, pool, agentVars, onlineTab>>
    PROVE  LifeInv'
BY AsideHop DEF Put, Heads

\* A step of a life that changes what is known.
LEMMA FlowLife ==
    ASSUME ShapeInv, LifeInv, NEW s \in Service, NEW from \in LifeLabel, NEW t,
           NEW to \in LifeLabel, Flow(s, from, t, to)
    PROVE  \E a \in Agent, h \in Coroutine, m \in Coroutine :
              /\ h = Cur(s) /\ a = h.agent /\ (s \in Agent => s = a)
              /\ h \in Life(a) /\ m \in Life(a) /\ Hop(h, m) /\ Phase(h)
              /\ h.at = from /\ m.at = to /\ m.agent = a /\ m.account = h.account
<1>1. PICK m : Put(s, t, m) /\ Relabel(Cur(s), m, from, to)
  BY DEF Flow
<1>2. PICK h, a : h = Cur(s) /\ a = h.agent
  OBVIOUS
<1>3. /\ h \in Coroutine /\ m \in Coroutine /\ Hop(h, m) /\ h \notin Stray(s)
      /\ h.at = from /\ m.at = to /\ m.agent = a /\ m.account = h.account
  BY <1>1, <1>2 DEF Put, Heads, Relabel
<1>4. InFlight(h)
  BY <1>1, <1>2, HeadFlying DEF Put, ShapeInv
<1>5. a \in Agent /\ h \in Life(a) /\ Phase(h)
  BY <1>2, <1>3, <1>4, LifeHead
<1>6. m \in Life(a)
  BY <1>3 DEF Life, Is
<1>7. s \in Agent => s = a
  BY <1>2, <1>3, Places
<1> QED BY <1>2, <1>3, <1>5, <1>6, <1>7

LEMMA OpenedLife ==
    ASSUME ShapeInv, LifeInv, NEW a \in Agent, Opened(a)
    PROVE  LifeInv'
<1>1. Flow(a, "opened", "log", "register")
  BY AgentSends DEF ShapeInv
<1>2. "opened" \in LifeLabel /\ "register" \in LifeLabel
  BY DEF LifeLabel, OpenLabel
<1>3. PICK h, m :
         /\ h = Cur(a) /\ a = h.agent /\ h \in Life(a) /\ m \in Life(a) /\ Hop(h, m)
         /\ Phase(h) /\ h.at = "opened" /\ m.at = "register" /\ m.agent = a
         /\ m.account = h.account
  BY <1>1, <1>2, FlowLife, Services
<1>4. /\ user' = [user EXCEPT ![a] = h.account]
      /\ UNCHANGED <<pool, slot, cmds, chatUser, onlineTab>>
  BY <1>3 DEF Opened, gateVars, chatVars
<1>5. user \in [Agent -> Opt(Account)]
  BY DEF ShapeInv, DataOK, AgentOK
<1>6. Phase(m)'
  BY <1>3, <1>4, <1>5 DEF Phase, Off, OpenLabel, CloseLabel
<1>7. \A b \in Agent : b # a => SameView(b)
  BY <1>4, <1>5 DEF SameView
<1>8. SlotInv' /\ PoolInv'
  BY <1>4 DEF LifeInv, SlotInv, PoolInv
<1> QED BY <1>3, <1>6, <1>7, <1>8, LifeMove

LEMMA RegisterLife ==
    ASSUME ShapeInv, LifeInv, NEW a \in Agent, Register(a)
    PROVE  LifeInv'
<1>1. Flow(a, "register", "chat", "online")
  BY AgentSends DEF ShapeInv
<1>2. "register" \in LifeLabel /\ "online" \in LifeLabel
  BY DEF LifeLabel, OpenLabel
<1>3. PICK h, m :
         /\ h = Cur(a) /\ a = h.agent /\ h \in Life(a) /\ m \in Life(a) /\ Hop(h, m)
         /\ Phase(h) /\ h.at = "register" /\ m.at = "online" /\ m.agent = a
         /\ m.account = h.account
  BY <1>1, <1>2, FlowLife, Services
<1>4. /\ cmds' = [cmds EXCEPT ![a] = TRUE]
      /\ chatUser' = [chatUser EXCEPT ![a] = user[a]]
      /\ UNCHANGED <<pool, slot, user, onlineTab>>
  BY DEF Register, gateVars, chatVars
<1>5. AgentOK
  BY DEF ShapeInv, DataOK
<1>6. Phase(m)'
  <2>1. cmds'[a] /\ chatUser'[a] = user[a]
    BY <1>4, <1>5 DEF AgentOK
  <2> QED BY <1>3, <1>4, <2>1 DEF Phase, Off, OpenLabel, CloseLabel
<1>7. \A b \in Agent : b # a => SameView(b)
  BY <1>4, <1>5 DEF SameView, AgentOK
<1>8. SlotInv' /\ PoolInv'
  BY <1>4 DEF LifeInv, SlotInv, PoolInv
<1> QED BY <1>3, <1>6, <1>7, <1>8, LifeMove

LEMMA CloseFinishLife ==
    ASSUME ShapeInv, LifeInv, NEW a \in Agent, CloseFinish(a)
    PROVE  LifeInv'
<1>1. Flow(a, "close_finish", "gate", "gamed_close")
  BY AgentSends DEF ShapeInv
<1>2. "close_finish" \in LifeLabel /\ "gamed_close" \in LifeLabel
  BY DEF LifeLabel, CloseLabel
<1>3. PICK h, m :
         /\ h = Cur(a) /\ a = h.agent /\ h \in Life(a) /\ m \in Life(a) /\ Hop(h, m)
         /\ Phase(h) /\ h.at = "close_finish" /\ m.at = "gamed_close" /\ m.agent = a
         /\ m.account = h.account
  BY <1>1, <1>2, FlowLife, Services
<1>4. /\ user' = [user EXCEPT ![a] = Nil] /\ cmds' = [cmds EXCEPT ![a] = FALSE]
      /\ UNCHANGED <<pool, slot, chatUser, onlineTab>>
  BY DEF CloseFinish, gateVars, chatVars
<1>5. AgentOK
  BY DEF ShapeInv, DataOK
<1>6. Phase(m)'
  <2>1. user'[a] = Nil
    BY <1>4, <1>5 DEF AgentOK
  <2> QED BY <1>3, <1>4, <2>1 DEF Phase, Off, OpenLabel, CloseLabel
<1>7. \A b \in Agent : b # a => SameView(b)
  BY <1>4, <1>5 DEF SameView, AgentOK
<1>8. SlotInv' /\ PoolInv'
  BY <1>4 DEF LifeInv, SlotInv, PoolInv
<1> QED BY <1>3, <1>6, <1>7, <1>8, LifeMove

\* The chat server enters an account that was not in its table, for the agent
\* that serves it.
LEMMA OnlineTable ==
    ASSUME ShapeInv, LifeInv, Online
    PROVE  \E a \in Agent, h \in Coroutine, m \in Coroutine :
              /\ h = Cur("chat") /\ a = h.agent /\ h \in Life(a) /\ m \in Life(a)
              /\ Hop(h, m) /\ Phase(h) /\ h.at = "online" /\ m.at = "welcome"
              /\ m.agent = a /\ m.account = h.account
              /\ h.account \in Account /\ onlineTab[h.account] = Nil /\ Off(a)
              /\ onlineTab' = [onlineTab EXCEPT ![h.account] = a]
              /\ Insert(onlineTab')
<1>1. Flow("chat", "online", Cur("chat").agent, "welcome")
  BY TableFlow DEF ShapeInv
<1>2. "online" \in LifeLabel /\ "welcome" \in LifeLabel
  BY DEF LifeLabel, OpenLabel
<1>3. PICK a \in Agent, h \in Coroutine, m \in Coroutine :
         /\ h = Cur("chat") /\ a = h.agent /\ h \in Life(a) /\ m \in Life(a) /\ Hop(h, m)
         /\ Phase(h) /\ h.at = "online" /\ m.at = "welcome" /\ m.agent = a
         /\ m.account = h.account
  BY <1>1, <1>2, FlowLife, Services
<1>4. h.account \in Account /\ slot[a].account = h.account /\ Off(a)
  BY <1>3 DEF Phase
<1>5. onlineTab[h.account] = Nil
  <2> SUFFICES ASSUME onlineTab[h.account] # Nil PROVE FALSE
    OBVIOUS
  <2>1. PICK b \in Agent : onlineTab[h.account] = b
    BY <1>4 DEF ShapeInv, DataOK, TabOK, Opt
  <2>2. slot[b].account = h.account
    BY <1>4, <2>1, OnTable
  <2>3. h.account # Nil
    BY <1>4, ConstantAssumption DEF Account
  <2>4. a = b
    BY <1>4, <2>2, <2>3 DEF LifeInv, SlotInv
  <2> QED BY <1>4, <2>1, <2>4 DEF Off
<1>6. onlineTab' = [onlineTab EXCEPT ![h.account] = a]
  BY <1>3 DEF Online
<1>7. Insert(onlineTab')
  BY <1>3, <1>5, <1>6 DEF Online
<1> QED BY <1>3, <1>4, <1>5, <1>6, <1>7

LEMMA OnlineLife ==
    ASSUME ShapeInv, LifeInv, Online
    PROVE  LifeInv'
<1>1. PICK a \in Agent, h \in Coroutine, m \in Coroutine :
         /\ h = Cur("chat") /\ a = h.agent /\ h \in Life(a) /\ m \in Life(a)
         /\ Hop(h, m) /\ Phase(h) /\ h.at = "online" /\ m.at = "welcome"
         /\ m.agent = a /\ m.account = h.account
         /\ h.account \in Account /\ onlineTab[h.account] = Nil /\ Off(a)
         /\ onlineTab' = [onlineTab EXCEPT ![h.account] = a]
  BY OnlineTable
<1>2. UNCHANGED <<pool, slot, user, cmds, chatUser>>
  BY DEF Online, gateVars, agentVars
<1>3. onlineTab \in [Account -> Opt(Agent)] /\ Nil \notin Agent
  BY ConstantAssumption DEF ShapeInv, DataOK, TabOK
<1>4. On(a, h.account)'
  BY <1>1, <1>3 DEF On, Off
<1>5. Phase(m)'
  <2>1. Serving(a, m.account)'
    BY <1>1, <1>2, <1>4 DEF Serving, Phase
  <2> QED BY <1>1, <1>2, <2>1 DEF Phase, OpenLabel, CloseLabel
<1>6. \A b \in Agent : b # a => SameView(b)
  BY <1>1, <1>2, <1>3 DEF SameView
<1>7. SlotInv' /\ PoolInv'
  BY <1>2 DEF LifeInv, SlotInv, PoolInv
<1> QED BY <1>1, <1>5, <1>6, <1>7, LifeMove

LEMMA OfflineTable ==
    ASSUME ShapeInv, LifeInv, Offline
    PROVE  \E a \in Agent, h \in Coroutine, m \in Coroutine :
              /\ h = Cur("chat") /\ a = h.agent /\ h \in Life(a) /\ m \in Life(a)
              /\ Hop(h, m) /\ Phase(h) /\ h.at = "offline" /\ m.at = "close_finish"
              /\ m.agent = a /\ m.account = h.account
              /\ h.account \in Account /\ onlineTab[h.account] = a
              /\ Serving(a, h.account) /\ slot[a].at = "closed"
              /\ onlineTab' = [onlineTab EXCEPT ![h.account] = Nil]
<1>1. Flow("chat", "offline", Cur("chat").agent, "close_finish")
  BY TableFlow DEF ShapeInv
<1>2. "offline" \in LifeLabel /\ "close_finish" \in LifeLabel
  BY DEF LifeLabel, CloseLabel
<1>3. PICK a \in Agent, h \in Coroutine, m \in Coroutine :
         /\ h = Cur("chat") /\ a = h.agent /\ h \in Life(a) /\ m \in Life(a) /\ Hop(h, m)
         /\ Phase(h) /\ h.at = "offline" /\ m.at = "close_finish" /\ m.agent = a
         /\ m.account = h.account
  BY <1>1, <1>2, FlowLife, Services
<1>4. h.account \in Account /\ Serving(a, h.account) /\ slot[a].at = "closed"
  BY <1>3 DEF Phase, CloseLabel
<1>5. onlineTab[h.account] = a
  BY <1>4 DEF Serving, On
<1>6. onlineTab' = [onlineTab EXCEPT ![h.account] = Nil]
  BY <1>3 DEF Offline
<1> QED BY <1>3, <1>4, <1>5, <1>6

LEMMA OfflineLife ==
    ASSUME ShapeInv, LifeInv, Offline
    PROVE  LifeInv'
<1>1. PICK a \in Agent, h \in Coroutine, m \in Coroutine :
         /\ h = Cur("chat") /\ a = h.agent /\ h \in Life(a) /\ m \in Life(a)
         /\ Hop(h, m) /\ Phase(h) /\ h.at = "offline" /\ m.at = "close_finish"
         /\ m.agent = a /\ m.account = h.account
         /\ h.account \in Account /\ onlineTab[h.account] = a /\ Serving(a, h.account)
         /\ onlineTab' = [onlineTab EXCEPT ![h.account] = Nil]
  BY OfflineTable
<1>2. UNCHANGED <<pool, slot, user, cmds, chatUser>>
  BY DEF Offline, gateVars, agentVars
<1>3. onlineTab \in [Account -> Opt(Agent)] /\ Nil \notin Agent
  BY ConstantAssumption DEF ShapeInv, DataOK, TabOK
<1>4. Off(a)'
  BY <1>1, <1>3 DEF Off, Serving, On
<1>5. Phase(m)'
  BY <1>1, <1>2, <1>4 DEF Phase, Serving, OpenLabel, CloseLabel
<1>6. \A b \in Agent : b # a => SameView(b)
  BY <1>1, <1>2, <1>3 DEF SameView
<1>7. SlotInv' /\ PoolInv'
  BY <1>2 DEF LifeInv, SlotInv, PoolInv
<1> QED BY <1>1, <1>5, <1>6, <1>7, LifeMove

\* The end of the opening or the closing of an agent, and the start.
LEMMA LifeEnd ==
    ASSUME ShapeInv, LifeInv, NEW a \in Agent, NEW h, Drop(h), h \in Life(a),
           Still(a)', SlotInv', PoolInv', \A b \in Agent : b # a => SameView(b)
    PROVE  LifeInv'
<1>0. MailInv
  BY DEF ShapeInv
<1>1. LifeOf(a)'
  <2>1. Out(Life(a))'
    BY <1>0, DropFacts DEF LifeInv, LifeOf
  <2>2. Single(Life(a))'
    BY <2>1, GoneAlone DEF Out, Single
  <2>3. \A x \in Life(a) : ~ InFlight(x)'
    BY <2>1, GoneFlying DEF Out, InFlight
  <2> QED BY <2>2, <2>3 DEF LifeOf
<1>2. ASSUME NEW b \in Agent, b # a PROVE LifeOf(b)'
  <2>1. h \notin Life(b)
    BY <1>2 DEF Life, Is
  <2>2. Quiet(Life(b))
    BY <1>0, <2>1, DropFacts
  <2> QED BY <1>2, <2>2, LifeFrame DEF LifeInv
<1> QED BY <1>1, <1>2 DEF LifeInv

LEMMA LifeStart ==
    ASSUME ShapeInv, LifeInv, NEW a \in Agent, NEW m, Give(m), m \in Life(a),
           Out(Life(a)), Phase(m)', SlotInv', PoolInv',
           \A b \in Agent : b # a => SameView(b)
    PROVE  LifeInv'
<1>0. MailInv /\ m \in Coroutine
  BY DEF ShapeInv, Life, Is
<1>1. LifeOf(a)'
  <2>1. Only(m, Life(a))'
    BY <1>0, GiveInFacts
  <2> QED BY <2>1 DEF Only, LifeOf
<1>2. ASSUME NEW b \in Agent, b # a PROVE LifeOf(b)'
  <2>1. m \notin Life(b)
    BY <1>2 DEF Life, Is
  <2>2. Quiet(Life(b))
    BY <1>0, <2>1, GiveInFacts
  <2> QED BY <1>2, <2>2, LifeFrame DEF LifeInv
<1> QED BY <1>1, <1>2 DEF LifeInv

\* An agent that is idle, or that a client uses, is neither opened nor closed.
LEMMA NoLife ==
    ASSUME LifeInv, NEW a \in Agent, slot[a].at \notin {"login", "closed"}
    PROVE  Out(Life(a)) /\ Still(a)
<1>1. LifeOf(a)
  BY DEF LifeInv
<1>2. ASSUME NEW m \in Life(a), InFlight(m) PROVE FALSE
  <2>1. Phase(m) /\ m.agent = a /\ m.at \in LifeLabel
    BY <1>1, <1>2 DEF LifeOf, Life, Is
  <2> QED BY <2>1 DEF Phase, LifeLabel
<1>3. Out(Life(a))
  BY <1>2, OutFlying
<1> QED BY <1>1, <1>3 DEF LifeOf

LEMMA EndsLife ==
    ASSUME ShapeInv, LifeInv, NEW s \in Service, NEW from \in LifeLabel, Ends(s, from)
    PROVE  \E a \in Agent, h \in Coroutine :
              /\ h = Cur(s) /\ a = h.agent /\ (s \in Agent => s = a)
              /\ h \in Life(a) /\ Drop(h) /\ Phase(h) /\ h.at = from
<1>1. PICK h, a : h = Cur(s) /\ a = h.agent
  OBVIOUS
<1>2. h \in Coroutine /\ h \notin Stray(s) /\ h.at = from /\ Drop(h)
  BY <1>1 DEF Ends, Heads
<1>3. InFlight(h)
  BY <1>1, HeadFlying DEF Ends, ShapeInv
<1>4. a \in Agent /\ h \in Life(a) /\ Phase(h)
  BY <1>1, <1>2, <1>3, LifeHead
<1>5. s \in Agent => s = a
  BY <1>1, <1>2, Places
<1> QED BY <1>1, <1>2, <1>4, <1>5

LEMMA WelcomeLife ==
    ASSUME ShapeInv, LifeInv, NEW a \in Agent, Welcome(a)
    PROVE  LifeInv'
<1>1. Ends(a, "welcome")
  BY AgentWaits DEF ShapeInv
<1>2. "welcome" \in LifeLabel
  BY DEF LifeLabel, OpenLabel
<1>3. PICK h : /\ h = Cur(a) /\ a = h.agent /\ h \in Life(a) /\ Drop(h) /\ Phase(h)
               /\ h.at = "welcome"
  BY <1>1, <1>2, EndsLife, Services
<1>4. /\ slot' = [slot EXCEPT ![a].at = "forwarded"]
      /\ UNCHANGED <<pool, user, cmds, chatUser, onlineTab>>
  BY DEF Welcome, agentVars, chatVars
<1>5. GateOK
  BY DEF ShapeInv, DataOK
<1>6. slot'[a].at = "forwarded" /\ \A b \in Agent : slot'[b].account = slot[b].account
  BY <1>4, <1>5 DEF GateOK
<1>7. slot[a].account = h.account /\ h.account \in Account /\ Serving(a, h.account)
      /\ slot[a].at = "login"
  BY <1>3 DEF Phase, OpenLabel
<1>8. Still(a)'
  <2>1. Serving(a, h.account)'
    BY <1>4, <1>7 DEF Serving, On
  <2> QED BY <1>6, <1>7, <2>1 DEF Still
<1>9. \A b \in Agent : b # a => SameView(b)
  BY <1>4, <1>5 DEF SameView, GateOK
<1>10. SlotInv'
  BY <1>6 DEF LifeInv, SlotInv
<1>11. PoolInv'
  BY <1>4, <1>5, <1>7 DEF LifeInv, PoolInv, GateOK
<1> QED BY <1>3, <1>8, <1>9, <1>10, <1>11, LifeEnd

LEMMA RecycleLife ==
    ASSUME ShapeInv, LifeInv, Recycle
    PROVE  LifeInv'
<1>1. Ends("gate", "recycle")
  BY GateFlows DEF ShapeInv
<1>2. "recycle" \in LifeLabel
  BY DEF LifeLabel, CloseLabel
<1>3. PICK a \in Agent, h \in Coroutine :
         /\ h = Cur("gate") /\ a = h.agent /\ h \in Life(a) /\ Drop(h) /\ Phase(h)
         /\ h.at = "recycle"
  BY <1>1, <1>2, EndsLife, Services
<1>4. /\ slot' = [slot EXCEPT ![a] = Idle] /\ pool' = Append(pool, a)
      /\ UNCHANGED <<user, cmds, chatUser, onlineTab>>
  BY <1>3 DEF Recycle, agentVars, chatVars
<1>5. GateOK
  BY DEF ShapeInv, DataOK
<1>6. user[a] = Nil /\ Off(a) /\ slot[a].at = "closed"
  BY <1>3 DEF Phase, CloseLabel
<1>7. slot'[a] = Idle /\ \A b \in Agent : b # a => slot'[b] = slot[b]
  BY <1>4, <1>5 DEF GateOK
<1>8. Still(a)'
  BY <1>4, <1>6, <1>7 DEF Still, Off
<1>9. \A b \in Agent : b # a => SameView(b)
  BY <1>4, <1>7 DEF SameView
<1>10. SlotInv'
  BY <1>7 DEF LifeInv, SlotInv, Idle
<1>11. PoolInv'
  <2>1. PoolInv /\ pool \in Seq(Agent)
    BY <1>5 DEF LifeInv, GateOK
  <2>2. \A i \in 1 .. Len(pool) : pool[i] # a
    BY <1>6, <2>1 DEF PoolInv
  <2>3. PICK q : q = pool'
    OBVIOUS
  <2>4. /\ \A i \in 1 .. Len(pool) : q[i] = pool[i]
        /\ \A i \in 1 .. Len(q) : i \in 1 .. Len(pool) \/ i = Len(pool) + 1
        /\ q[Len(pool) + 1] = a
    BY <1>4, <2>1, <2>3, AppendIndex
  <2>5. \A i, j \in 1 .. Len(q) : q[i] = q[j] => i = j
    BY <2>1, <2>2, <2>4 DEF PoolInv
  <2>6. \A i \in 1 .. Len(pool) : pool[i] \in Agent
    BY <2>1
  <2>7. \A i \in 1 .. Len(q) : slot'[q[i]].at = "idle"
    BY <1>7, <2>1, <2>2, <2>4, <2>6 DEF PoolInv, Idle
  <2> QED BY <2>3, <2>5, <2>7 DEF PoolInv
<1> QED BY <1>3, <1>8, <1>9, <1>10, <1>11, LifeEnd

LEMMA LoginLife ==
    ASSUME ShapeInv, LifeInv, NEW account \in Account, Login(account)
    PROVE  LifeInv'
<1>1. PICK a \in Agent :
         /\ a = pool[1] /\ pool \in Seq(Agent) /\ pool # << >>
         /\ slot' = [slot EXCEPT ![a] = [account |-> account, at |-> "login"]]
         /\ Co("agent_open", a, account, 0) \in Coroutine
         /\ Give(Co("agent_open", a, account, 0))
  BY LoginPost
<1>2. PICK m : m = Co("agent_open", a, account, 0)
  OBVIOUS
<1>3. m.at = "agent_open" /\ m.agent = a /\ m.account = account /\ m \in Life(a)
  BY <1>1, <1>2 DEF Co, Life, Is, LifeLabel, OpenLabel
<1>4. UNCHANGED <<user, cmds, chatUser, onlineTab>> /\ pool' = Tail(pool)
      /\ \A b \in Agent : slot[b].account # account
  BY DEF Login, agentVars, chatVars
<1>5. PoolInv /\ GateOK
  BY DEF ShapeInv, DataOK, LifeInv
<1>6. slot[a].at = "idle" /\ 1 \in 1 .. Len(pool)
  BY <1>1, <1>5 DEF PoolInv
<1>7. Out(Life(a)) /\ Still(a)
  BY <1>6, NoLife
<1>8. user[a] = Nil /\ Off(a)
  BY <1>6, <1>7 DEF Still
<1>9. /\ slot'[a].account = account /\ slot'[a].at = "login"
      /\ \A b \in Agent : b # a => slot'[b] = slot[b]
  BY <1>1, <1>5 DEF GateOK
<1>10. Phase(m)'
  BY <1>3, <1>4, <1>8, <1>9 DEF Phase, Off, OpenLabel, CloseLabel
<1>11. \A b \in Agent : b # a => SameView(b)
  BY <1>4, <1>9 DEF SameView
<1>12. SlotInv'
  BY <1>4, <1>9 DEF LifeInv, SlotInv
<1>13. PoolInv'
  <2>1. PICK q : q = pool'
    OBVIOUS
  <2>2. \A i \in 1 .. Len(q) : q[i] = pool[i + 1] /\ i + 1 \in 1 .. Len(pool)
    BY <1>1, <1>4, <2>1, TailIndex
  <2>3. \A i, j \in 1 .. Len(q) : q[i] = q[j] => i = j
    BY <2>2, <1>5 DEF PoolInv
  <2>4. \A i \in 1 .. Len(q) : q[i] # a /\ q[i] \in Agent /\ slot[q[i]].at = "idle"
    <3> SUFFICES ASSUME NEW i \in 1 .. Len(q)
                 PROVE  q[i] # a /\ q[i] \in Agent /\ slot[q[i]].at = "idle"
      OBVIOUS
    <3>1. q[i] = pool[i + 1] /\ i + 1 \in 1 .. Len(pool) /\ i + 1 # 1
      BY <2>2
    <3>2. pool[i + 1] # pool[1]
      BY <1>5, <1>6, <3>1 DEF PoolInv
    <3>3. pool[i + 1] \in Agent
      BY <1>1, <3>1
    <3>4. slot[pool[i + 1]].at = "idle"
      BY <1>5, <3>1 DEF PoolInv
    <3> QED BY <1>1, <3>1, <3>2, <3>3, <3>4
  <2>5. \A i \in 1 .. Len(q) : slot'[q[i]].at = "idle"
    BY <1>9, <2>4
  <2> QED BY <2>1, <2>3, <2>5 DEF PoolInv
<1> QED BY <1>1, <1>2, <1>3, <1>7, <1>10, <1>11, <1>12, <1>13, LifeStart

LEMMA LeaveLife ==
    ASSUME ShapeInv, LifeInv, NEW a \in Agent, Leave(a)
    PROVE  LifeInv'
<1>1. PICK m : m = Co("agent_close", a, slot[a].account, 0)
  OBVIOUS
<1>2. m \in Coroutine /\ Give(m)
  BY <1>1, LeavePost
<1>3. m.at = "agent_close" /\ m.agent = a /\ m.account = slot[a].account /\ m \in Life(a)
  BY <1>1, <1>2 DEF Co, Life, Is, LifeLabel, CloseLabel
<1>4. /\ slot' = [slot EXCEPT ![a].at = "closed"] /\ slot[a].at = "forwarded"
      /\ UNCHANGED <<pool, user, cmds, chatUser, onlineTab>>
  BY DEF Leave, agentVars
<1>5. GateOK
  BY DEF ShapeInv, DataOK
<1>6. Out(Life(a)) /\ Still(a)
  BY <1>4, NoLife
<1>7. slot[a].account \in Account /\ Serving(a, slot[a].account)
  BY <1>4, <1>6 DEF Still, Idle
<1>8. slot'[a].at = "closed" /\ \A b \in Agent : slot'[b].account = slot[b].account
  BY <1>4, <1>5 DEF GateOK
<1>9. Phase(m)'
  <2>1. Serving(a, m.account)'
    BY <1>3, <1>4, <1>7 DEF Serving, On
  <2> QED BY <1>3, <1>7, <1>8, <2>1 DEF Phase, OpenLabel, CloseLabel
<1>10. \A b \in Agent : b # a => SameView(b)
  BY <1>4, <1>5 DEF SameView, GateOK
<1>11. SlotInv'
  BY <1>8 DEF LifeInv, SlotInv
<1>12. PoolInv'
  BY <1>4, <1>5 DEF LifeInv, PoolInv, GateOK
<1> QED BY <1>2, <1>3, <1>6, <1>9, <1>10, <1>11, <1>12, LifeStart

LEMMA OnwardLife ==
    ASSUME ShapeInv, LifeInv, NEW a \in Agent,
           AgentOpen(a) \/ Loaded(a) \/ AgentClose(a) \/ Closing(a) \/ Saved(a)
    PROVE  LifeInv'
<1>0. MailInv
  BY DEF ShapeInv
<1>1. UNCHANGED <<slot, pool, agentVars, onlineTab>>
  BY DEF AgentOpen, Loaded, AgentClose, Closing, Saved, gateVars, chatVars
<1>2. CASE AgentOpen(a)
  <2>1. Wait(a, "agent_open", "loaded")
    BY <1>0, <1>2, AgentWaits
  <2> QED BY <1>1, <2>1, WaitOnward DEF Onward
<1>3. CASE Loaded(a)
  <2>1. Flow(a, "loaded", "log", "opened")
    BY <1>0, <1>3, AgentSends
  <2> QED BY <1>1, <2>1, FlowOnward DEF Onward
<1>4. CASE AgentClose(a)
  <2>1. Flow(a, "agent_close", "log", "closing")
    BY <1>0, <1>4, AgentSends
  <2> QED BY <1>1, <2>1, FlowOnward DEF Onward
<1>5. CASE Closing(a)
  <2>1. Wait(a, "closing", "saved")
    BY <1>0, <1>5, AgentWaits
  <2> QED BY <1>1, <2>1, WaitOnward DEF Onward
<1>6. CASE Saved(a)
  <2>1. Flow(a, "saved", "chat", "offline")
    BY <1>0, <1>6, AgentSends
  <2> QED BY <1>1, <2>1, FlowOnward DEF Onward
<1> QED BY <1>2, <1>3, <1>4, <1>5, <1>6

LEMMA ChatLabels ==
    ASSUME NEW l, l \in CastLabel \cup {"rpc_ret"}
    PROVE  l \notin LifeLabel
BY DEF CastLabel, SentLabel, FrameLabel, CalledLabel, GoalLabel, LifeLabel, OpenLabel, CloseLabel

LEMMA AgentLife ==
    ASSUME ShapeInv, LifeInv, NEW a \in Agent,
           \/ Rpc(a) \/ RpcDump(a) \/ RpcWorldChat(a) \/ RpcSend(a) \/ RpcRet(a)
           \/ ChatWorld(a) \/ Request(a) \/ Write(a) \/ RequestFailed(a)
    PROVE  LifeInv'
<1>0. MailInv
  BY DEF ShapeInv
<1>1. UNCHANGED <<slot, pool, agentVars, onlineTab>>
  BY DEF Rpc, RpcDump, RpcWorldChat, RpcSend, RpcRet, ChatWorld, Request, Write,
         RequestFailed, gateVars, chatVars
<1>2. /\ "rpc" \notin LifeLabel /\ "rpc_dump" \notin LifeLabel
      /\ "rpc_chat" \notin LifeLabel /\ "rpc_send" \notin LifeLabel
      /\ "broadcast" \notin LifeLabel /\ "rpc_ret" \notin LifeLabel
      /\ "chat_world" \notin LifeLabel /\ "request" \notin LifeLabel
      /\ "write" \notin LifeLabel /\ "next" \notin LifeLabel
  BY DEF LifeLabel, OpenLabel, CloseLabel
<1>3. CASE Rpc(a) \/ RpcDump(a) \/ RpcWorldChat(a)
  <2>1. \/ Flow(a, "rpc", "log", "rpc_dump")
        \/ Flow(a, "rpc_dump", "log", "rpc_chat")
        \/ Flow(a, "rpc_chat", "log", "rpc_send")
    BY <1>0, <1>3, FrameSends
  <2> QED BY <1>1, <1>2, <2>1, FlowAside
<1>4. CASE RpcSend(a)
  <2>1. PICK m : m = Co("broadcast", a, chatUser[a], Cur(a).n)
    OBVIOUS
  <2>2. Put(a, "chat", m) /\ Cur(a).at = "rpc_send"
    BY <1>4, <2>1, RpcSendFlow
  <2>3. m.at = "broadcast"
    BY <2>1 DEF Co
  <2> QED BY <1>1, <1>2, <2>2, <2>3, PutAside
<1>5. CASE RpcRet(a)
  <2>1. Ends(a, "rpc_ret")
    BY <1>0, <1>5, AgentWaits
  <2> QED BY <1>1, <1>2, <2>1, AsideDrop DEF Ends, Heads
<1>6. CASE ChatWorld(a) \/ Request(a) \/ Write(a) \/ RequestFailed(a)
  <2>1. \/ Flow(a, "chat_world", "log", "request")
        \/ Flow(a, "chat_world", "chat", "next")
        \/ Flow(a, "request", "log", "write")
        \/ Flow(a, "request", "chat", "next")
        \/ Flow(a, "write", "chat", "next")
    BY <1>0, <1>6, GoalSends
  <2> QED BY <1>1, <1>2, <2>1, FlowAside
<1> QED BY <1>3, <1>4, <1>5, <1>6

LEMMA VisitLife ==
    ASSUME ShapeInv, LifeInv, NEW from \in {"begin", "next"}, NEW n, NEW b, NEW todo,
           NEW steady, Visiting(from, n, b, todo, steady)
    PROVE  LifeInv'
<1>1. PICK m : m = Co("chat_world", onlineTab[b], b, n)
  OBVIOUS
<1>2. /\ At("chat", from) /\ n = Cur("chat").n /\ b \in Account /\ onlineTab[b] # Nil
      /\ todo \in SUBSET Account /\ steady \in SUBSET Account
      /\ Visit(n, [cast[n] EXCEPT !.todo = todo, !.steady = steady], b)
  BY DEF Visiting
<1>3. Put("chat", onlineTab[b], Co("chat_world", onlineTab[b], b, n))
  BY <1>2, VisitFlow
<1>4. Cur("chat").at = from
  BY <1>2, ServerHead
<1>5. m.at = "chat_world"
  BY <1>1 DEF Co
<1>6. "chat_world" \notin LifeLabel /\ from \notin LifeLabel
  BY DEF LifeLabel, OpenLabel, CloseLabel
<1>7. UNCHANGED <<slot, pool, agentVars, onlineTab>>
  BY <1>2 DEF Visit, gateVars
<1> QED BY <1>1, <1>3, <1>4, <1>5, <1>6, <1>7, PutAside

LEMMA AnswerLife ==
    ASSUME ShapeInv, LifeInv, NEW from \in {"begin", "next"}, NEW n, NEW at,
           Answering(from, n, at)
    PROVE  LifeInv'
<1>1. PICK m : m = Co("rpc_ret", cast[n].from, Nil, n)
  OBVIOUS
<1>2. Put("chat", cast[n].from, m)
  BY <1>1, AnswerFlow DEF Answering
<1>3. Cur("chat").at = from
  BY ServerHead DEF Answering
<1>4. m.at = "rpc_ret"
  BY <1>1 DEF Co
<1>5. "rpc_ret" \notin LifeLabel /\ from \notin LifeLabel
  BY DEF LifeLabel, OpenLabel, CloseLabel
<1>6. UNCHANGED <<slot, pool, agentVars, onlineTab>>
  BY DEF Answering, End, gateVars
<1> QED BY <1>2, <1>3, <1>4, <1>5, <1>6, PutAside

LEMMA BroadcastLife ==
    ASSUME ShapeInv, LifeInv, Broadcast
    PROVE  LifeInv'
<1>1. Flow("chat", "broadcast", "log", "begin")
  BY BroadcastFlow DEF ShapeInv
<1>2. "broadcast" \notin LifeLabel /\ "begin" \notin LifeLabel
  BY DEF LifeLabel, OpenLabel, CloseLabel
<1>3. UNCHANGED <<slot, pool, agentVars, onlineTab>>
  BY DEF Broadcast, gateVars
<1> QED BY <1>1, <1>2, <1>3, FlowAside

LEMMA ChatStepLife ==
    ASSUME ShapeInv, LifeInv, ChatStep
    PROVE  LifeInv'
BY BeginVisits, NextVisits, VisitLife, Answers, AnswerLife, OnlineLife, OfflineLife,
   BroadcastLife DEF ChatStep

LEMMA GateLife ==
    ASSUME ShapeInv, LifeInv, GamedClose
    PROVE  LifeInv'
<1>1. Flow("gate", "gamed_close", "log", "recycle")
  BY GateFlows DEF ShapeInv
<1>2. UNCHANGED <<slot, pool, agentVars, onlineTab>>
  BY DEF GamedClose, gateVars, chatVars
<1> QED BY <1>1, <1>2, FlowOnward DEF Onward

LEMMA ReturnLife ==
    ASSUME ShapeInv, LifeInv, Logger \/ Database
    PROVE  LifeInv'
<1>0. MailInv
  BY DEF ShapeInv
<1>1. UNCHANGED <<slot, pool, agentVars, onlineTab>>
  BY DEF Logger, Database, gateVars, chatVars
<1>2. \E h \in Coroutine : Hop(h, h)
  <2>1. CASE Logger
    BY <1>0, <2>1, LoggerFlow DEF Back
  <2>2. CASE Database
    BY <1>0, <2>2, DatabaseFlow DEF Loads
  <2> QED BY <2>1, <2>2
<1>3. PICK h \in Coroutine : Hop(h, h)
  BY <1>2
<1>4. CASE h.at \in LifeLabel
  <2>1. Relabel(h, h, h.at, h.at)
    BY DEF Relabel
  <2> QED BY <1>1, <1>3, <1>4, <2>1, LifeOnward
<1>5. CASE h.at \notin LifeLabel
  BY <1>1, <1>3, <1>5, AsideHop
<1> QED BY <1>4, <1>5

LEMMA ClientLife ==
    ASSUME ShapeInv, LifeInv, NEW a \in Agent, NEW n \in Chat, ClientChat(a, n)
    PROVE  LifeInv'
<1>1. PICK m : m = Co("rpc", a, Nil, n)
  OBVIOUS
<1>2. m \in Coroutine /\ Give(m) /\ m.at = "rpc"
  BY <1>1, ClientPost DEF Co
<1>3. "rpc" \notin LifeLabel
  BY DEF LifeLabel, OpenLabel, CloseLabel
<1>4. UNCHANGED <<slot, pool, agentVars, onlineTab>>
  BY DEF ClientChat, gateVars
<1> QED BY <1>2, <1>3, <1>4, AsideGive

LEMMA LifeInit == Init => LifeInv
<1> SUFFICES ASSUME Init PROVE LifeInv
  OBVIOUS
<1>1. mbox = [s \in Service |-> << >>] /\ ext = {} /\ pool = InitPool
      /\ slot = [a \in Agent |-> Idle] /\ user = [a \in Agent |-> Nil]
      /\ onlineTab = [account \in Account |-> Nil]
  BY DEF Init
<1>2. \A m : ~ InFlight(m)
  BY <1>1 DEF InFlight, Flying
<1>3. ASSUME NEW a \in Agent PROVE LifeOf(a)
  <2>1. Out(Life(a))
    BY <1>2, OutFlying
  <2>2. Single(Life(a))
    BY <2>1, GoneAlone DEF Out, Single
  <2>3. Still(a)
    BY <1>1, ConstantAssumption DEF Still, Off
  <2> QED BY <1>2, <2>2, <2>3 DEF LifeOf
<1>4. SlotInv
  BY <1>1 DEF SlotInv, Idle
<1>5. PoolInv
  <2>1. \A i \in 1 .. Len(pool) : pool[i] \in Agent
    BY <1>1, ConstantAssumption
  <2> QED BY <1>1, <2>1, ConstantAssumption DEF PoolInv, Idle
<1> QED BY <1>3, <1>4, <1>5 DEF LifeInv

LEMMA LifeStep == ShapeInv /\ LifeInv /\ [Next]_vars => LifeInv'
<1> SUFFICES ASSUME ShapeInv, LifeInv, [Next]_vars PROVE LifeInv'
  OBVIOUS
<1>1. CASE UNCHANGED vars
  <2>1. UNCHANGED <<mbox, ext, slot, pool, agentVars, onlineTab>>
    BY <1>1 DEF vars, gateVars, chatVars
  <2>2. \A b \in Agent : Quiet(Life(b))
    BY <2>1 DEF Quiet, Out, Single, InFlight
  <2> QED BY <2>1, <2>2, LifeAside
<1>2. CASE ServerStep
  BY <1>2, ReturnLife, GateLife, RecycleLife, ChatStepLife, OnwardLife, OpenedLife,
     RegisterLife, WelcomeLife, CloseFinishLife, AgentLife DEF ServerStep, AgentStep
<1>3. CASE ClientStep
  BY <1>3, LoginLife, ClientLife, LeaveLife DEF ClientStep
<1> QED BY <1>1, <1>2, <1>3 DEF Next

LEMMA LifeHolds == Spec => []LifeInv
<1>1. Init => LifeInv
  BY LifeInit
<1>2. ShapeInv /\ LifeInv /\ [Next]_vars => LifeInv'
  BY LifeStep
<1> QED BY <1>1, <1>2, ShapeHolds, PTL DEF Spec

\* Every account in the chat server's table is served by the agent it names, with
\* the chat commands registered (Chat!TableExact): an agent is entered after it has
\* been opened and removed before it is closed, by the one coroutine that does so.
THEOREM TableExactHolds == Spec => []TableExact
<1>1. ShapeInv /\ LifeInv => TableExact
  BY LifeTable
<1> QED BY <1>1, ShapeHolds, LifeHolds, PTL

-----------------------------------------------------------------------------
(* The order of an agent's life and its other coroutines.  The logger and  *)
(* an agent take their mail in order: a coroutine that writes as many lines*)
(* as one ahead of it does not overtake it.                                *)

TakenBy == {"closing", "saved", "offline", "close_finish", "gamed_close", "recycle",
            "idle", "agent_open", "loaded", "opened", "register"}

\* The labels an agent's coroutines have passed when its life has come to x.
Past(x) == {y \in FrameLabel \cup GoalLabel :
    \/ y = "rpc" /\ x \in TakenBy
    \/ y = "rpc_dump" /\ x \in TakenBy \ {"closing"}
    \/ y = "rpc_chat" /\ x \in {"loaded", "opened", "register"}
    \/ y = "rpc_send" /\ x = "register"
    \/ y = "chat_world" /\ x \in {"gamed_close", "recycle", "idle", "agent_open",
                                  "loaded", "opened"}
    \/ y \in {"request", "write"} /\ x \in {"loaded", "opened"}}

\* Those that will be passed when x is: their coroutines are ahead of the life.
Leaving(x) == {y \in FrameLabel \cup GoalLabel :
    \/ y = "rpc" /\ x = "agent_close"
    \/ y = "rpc_dump" /\ x = "closing"
    \/ y = "chat_world" /\ x = "close_finish"
    \/ y \in {"rpc_chat", "request", "write"} /\ x \in {"recycle", "idle", "agent_open"}
    \/ y = "rpc_send" /\ x = "opened"}

Behind(a, x) ==
    /\ Out(Is(a, Past(x)))
    /\ Ahead(mbox["log"], Is(a, Leaving(x)), Life(a))
    /\ Ahead(mbox[a], Is(a, Leaving(x)), Life(a))
    /\ Free(mbox["log"], Life(a)) => Free(mbox["log"], Is(a, Leaving(x)))

\* How far an agent's life has come: an agent in the pool is idle, and one that a
\* client uses has no stage.
Stage(a, x) == \/ \E m \in Life(a) : InFlight(m) /\ m.at = x
               \/ x = "idle" /\ slot[a].at = "idle"
OrderOf(a) == \A x \in LifeLabel \cup {"idle"} : Stage(a, x) => Behind(a, x)
OrderInv == \A a \in Agent : OrderOf(a)

LEMMA TakeAhead ==
    ASSUME NEW mb \in Mail, NEW ex, NEW nb, NEW nx, NEW h, Takes(mb, ex, nb, nx, h),
           NEW t \in Service, NEW X, NEW Y, Ahead(mb[t], X, Y)
    PROVE  Ahead(nb[t], X, Y)
<1>1. ASSUME NEW s \in Service, mb[s] # << >>, nb = [mb EXCEPT ![s] = Tail(@)]
      PROVE  Ahead(nb[t], X, Y)
  <2>1. mb[s] \in Seq(Coroutine) /\ nb[s] = Tail(mb[s])
    BY <1>1, TakeMail
  <2>2. t # s => nb[t] = mb[t]
    BY <1>1, TakeMail
  <2>3. CASE t = s
    BY <1>1, <2>1, <2>3, TailAhead
  <2> QED BY <2>2, <2>3
<1> QED BY <1>1 DEF Takes

LEMMA GiveAhead ==
    ASSUME NEW mb \in Mail, NEW ex, NEW nb, NEW nx, NEW m \in Coroutine,
           Gives(mb, ex, nb, nx, m), NEW t \in Service, NEW X, NEW Y, m \notin X
    PROVE  /\ Ahead(mb[t], X, Y) => Ahead(nb[t], X, Y)
           /\ Free(mb[t], Y) => Ahead(nb[t], X, Y)
<1>0. Free(mb[t], Y) => Ahead(mb[t], X, Y)
  BY DEF Free, Ahead
<1>1. ASSUME NEW d \in Service, nb = [mb EXCEPT ![d] = Append(@, m)], Ahead(mb[t], X, Y)
      PROVE  Ahead(nb[t], X, Y)
  <2>1. mb[d] \in Seq(Coroutine) /\ nb[d] = Append(mb[d], m)
    BY <1>1, GiveMail
  <2>2. t # d => nb[t] = mb[t]
    BY <1>1, GiveMail
  <2>3. CASE t = d
    BY <1>1, <2>1, <2>3, AppendAhead
  <2> QED BY <1>1, <2>2, <2>3
<1> QED BY <1>0, <1>1 DEF Gives

LEMMA Unmixed ==
    ASSUME NEW a, NEW m \in Life(a), NEW x
    PROVE  m \notin Is(a, Past(x)) /\ m \notin Is(a, Leaving(x))
BY DEF Life, Is, Past, Leaving, FrameLabel, GoalLabel, LifeLabel, OpenLabel, CloseLabel

\* Steps that are no part of the life of a, and that give it nothing it has passed.
LEMMA BehindHop ==
    ASSUME MailInv, NEW a \in Agent, NEW x, Behind(a, x), NEW h, NEW m \in Coroutine,
           Hop(h, m), h \notin Life(a), m \notin Life(a),
           m \notin Is(a, Past(x)), m \notin Is(a, Leaving(x))
    PROVE  Behind(a, x)'
<1> DEFINE P == Is(a, Past(x))
           L == Is(a, Leaving(x))
           V == Life(a)
<1> HIDE DEF P, L, V
<1>0. h \notin V /\ m \notin V /\ m \notin P /\ m \notin L
  BY DEF P, L, V
<1>1. PICK mb, ex : Takes(mbox, ext, mb, ex, h) /\ Gives(mb, ex, mbox', ext', m)
  BY DEF Hop
<1>2. mbox \in Mail /\ ext \subseteq Coroutine
  BY DEF MailInv
<1>3. mb \in Mail /\ ex \subseteq Coroutine /\ "log" \in Service /\ a \in Service
  BY <1>1, <1>2, TakeFlying, Services
<1>4. /\ Out(P) /\ Ahead(mbox["log"], L, V) /\ Ahead(mbox[a], L, V)
      /\ Free(mbox["log"], V) => Free(mbox["log"], L)
  BY DEF Behind, P, L, V
<1>5. Out(P)'
  <2>1. Gone(mb, ex, P)
    BY <1>1, <1>2, <1>4, TakeFacts DEF Out
  <2> QED BY <1>0, <1>1, <1>3, <2>1, GiveFacts DEF Out
<1>6. Ahead(mb["log"], L, V) /\ Ahead(mb[a], L, V)
  BY <1>1, <1>2, <1>3, <1>4, TakeAhead
<1>7. Ahead(mbox'["log"], L, V) /\ Ahead(mbox'[a], L, V)
  BY <1>0, <1>1, <1>3, <1>6, GiveAhead
<1>8. ASSUME Free(mbox'["log"], V) PROVE Free(mbox'["log"], L)
  <2>1. Free(mb["log"], V)
    BY <1>1, <1>3, <1>8, GiveFacts
  <2>2. Free(mbox["log"], V)
    BY <1>0, <1>1, <1>2, <1>3, <2>1, TakeFacts
  <2>3. Free(mb["log"], L)
    BY <1>1, <1>2, <1>3, <1>4, <2>2, TakeFacts
  <2> QED BY <1>0, <1>1, <1>3, <2>3, GiveFacts
<1> QED BY <1>5, <1>7, <1>8 DEF Behind, P, L, V

LEMMA BehindDrop ==
    ASSUME MailInv, NEW a \in Agent, NEW x, Behind(a, x), NEW h, Drop(h), h \notin Life(a)
    PROVE  Behind(a, x)'
<1> DEFINE P == Is(a, Past(x))
           L == Is(a, Leaving(x))
           V == Life(a)
<1> HIDE DEF P, L, V
<1>0. h \notin V
  BY DEF V
<1>1. mbox \in Mail /\ ext \subseteq Coroutine /\ Takes(mbox, ext, mbox', ext', h)
  BY DEF MailInv, Drop
<1>2. "log" \in Service /\ a \in Service
  BY Services
<1>3. /\ Out(P) /\ Ahead(mbox["log"], L, V) /\ Ahead(mbox[a], L, V)
      /\ Free(mbox["log"], V) => Free(mbox["log"], L)
  BY DEF Behind, P, L, V
<1>4. Out(P)'
  BY <1>1, <1>3, TakeFacts DEF Out
<1>5. Ahead(mbox'["log"], L, V) /\ Ahead(mbox'[a], L, V)
  BY <1>1, <1>2, <1>3, TakeAhead
<1>6. Free(mbox'["log"], V) => Free(mbox["log"], V)
  BY <1>0, <1>1, <1>2, TakeFacts
<1>7. Free(mbox["log"], L) => Free(mbox'["log"], L)
  BY <1>1, <1>2, TakeFacts
<1> QED BY <1>3, <1>4, <1>5, <1>6, <1>7 DEF Behind, P, L, V

LEMMA BehindGive ==
    ASSUME MailInv, NEW a \in Agent, NEW x, Behind(a, x), NEW m \in Coroutine, Give(m),
           m \notin Life(a), m \notin Is(a, Past(x)), m \notin Is(a, Leaving(x))
    PROVE  Behind(a, x)'
<1> DEFINE P == Is(a, Past(x))
           L == Is(a, Leaving(x))
           V == Life(a)
<1> HIDE DEF P, L, V
<1>0. m \notin V /\ m \notin P /\ m \notin L
  BY DEF P, L, V
<1>1. mbox \in Mail /\ ext \subseteq Coroutine /\ Gives(mbox, ext, mbox', ext', m)
  BY DEF MailInv, Give
<1>2. "log" \in Service /\ a \in Service
  BY Services
<1>3. /\ Out(P) /\ Ahead(mbox["log"], L, V) /\ Ahead(mbox[a], L, V)
      /\ Free(mbox["log"], V) => Free(mbox["log"], L)
  BY DEF Behind, P, L, V
<1>4. Out(P)'
  BY <1>0, <1>1, <1>3, GiveFacts DEF Out
<1>5. Ahead(mbox'["log"], L, V) /\ Ahead(mbox'[a], L, V)
  BY <1>0, <1>1, <1>2, <1>3, GiveAhead
<1>6. Free(mbox'["log"], V) => Free(mbox["log"], V)
  BY <1>1, <1>2, GiveFacts
<1>7. Free(mbox["log"], L) => Free(mbox'["log"], L)
  BY <1>0, <1>1, <1>2, GiveFacts
<1> QED BY <1>3, <1>4, <1>5, <1>6, <1>7 DEF Behind, P, L, V

\* A step in the life of a, to y: what y has passed is gone already, and what it
\* leaves is not with the logger, unless its life is.
LEMMA BehindMove ==
    ASSUME MailInv, NEW a \in Agent, NEW y, NEW h, NEW m, Hop(h, m), Single(Life(a)),
           h \in Life(a), m \in Life(a), Out(Is(a, Past(y))),
           \/ Free(mbox["log"], Is(a, Leaving(y)))
           \/ ~ Free(mbox'["log"], Life(a))
    PROVE  Behind(a, y)'
<1> DEFINE P == Is(a, Past(y))
           L == Is(a, Leaving(y))
           V == Life(a)
<1> HIDE DEF P, L, V
<1>0. h \in V /\ m \in V /\ m \notin P /\ m \notin L /\ m \in Coroutine
  BY Unmixed DEF P, L, V, Life, Is
<1>1. PICK mb, ex : Takes(mbox, ext, mb, ex, h) /\ Gives(mb, ex, mbox', ext', m)
  BY DEF Hop
<1>2. mbox \in Mail /\ ext \subseteq Coroutine
  BY DEF MailInv
<1>3. mb \in Mail /\ ex \subseteq Coroutine /\ "log" \in Service /\ a \in Service
  BY <1>1, <1>2, TakeFlying, Services
<1>4. /\ Out(P) /\ Single(V)
      /\ Free(mbox["log"], L) \/ ~ Free(mbox'["log"], V)
  BY DEF P, L, V
<1>5. Out(P)'
  <2>1. Gone(mb, ex, P)
    BY <1>1, <1>2, <1>4, TakeFacts DEF Out
  <2> QED BY <1>0, <1>1, <1>3, <2>1, GiveFacts DEF Out
<1>6. Free(mb["log"], V) /\ Free(mb[a], V)
  <2>1. Gone(mb, ex, V)
    BY <1>0, <1>1, <1>2, <1>4, TakeFacts DEF Single
  <2> QED BY <1>3, <2>1 DEF Gone
<1>7. Ahead(mbox'["log"], L, V) /\ Ahead(mbox'[a], L, V)
  BY <1>0, <1>1, <1>3, <1>6, GiveAhead
<1>8. Free(mbox["log"], L) => Free(mbox'["log"], L)
  <2>1. Free(mbox["log"], L) => Free(mb["log"], L)
    BY <1>1, <1>2, <1>3, TakeFacts
  <2> QED BY <1>0, <1>1, <1>3, <2>1, GiveFacts
<1> QED BY <1>4, <1>5, <1>7, <1>8 DEF Behind, P, L, V

LEMMA BehindStart ==
    ASSUME MailInv, NEW a \in Agent, NEW y, NEW m, Give(m), Out(Life(a)),
           m \in Life(a), Out(Is(a, Past(y))), Free(mbox["log"], Is(a, Leaving(y)))
    PROVE  Behind(a, y)'
<1> DEFINE P == Is(a, Past(y))
           L == Is(a, Leaving(y))
           V == Life(a)
<1> HIDE DEF P, L, V
<1>0. m \in V /\ m \notin P /\ m \notin L /\ m \in Coroutine
  BY Unmixed DEF P, L, V, Life, Is
<1>1. mbox \in Mail /\ ext \subseteq Coroutine /\ Gives(mbox, ext, mbox', ext', m)
  BY DEF MailInv, Give
<1>2. "log" \in Service /\ a \in Service
  BY Services
<1>3. Out(P) /\ Free(mbox["log"], L) /\ Out(V)
  BY DEF P, L, V
<1>4. Free(mbox["log"], V) /\ Free(mbox[a], V)
  BY <1>2, <1>3 DEF Out, Gone
<1>5. Ahead(mbox'["log"], L, V) /\ Ahead(mbox'[a], L, V)
  BY <1>0, <1>1, <1>2, <1>4, GiveAhead
<1>6. Out(P)'
  BY <1>0, <1>1, <1>3, GiveFacts DEF Out
<1>7. Free(mbox'["log"], L)
  BY <1>0, <1>1, <1>2, <1>3, GiveFacts
<1> QED BY <1>5, <1>6, <1>7 DEF Behind, P, L, V

\* Steps that are no part of the life of b.
LEMMA OrderHop ==
    ASSUME MailInv, NEW b \in Agent, OrderOf(b), NEW h, NEW m \in Coroutine, Hop(h, m),
           h \notin Life(b), m \notin Life(b), slot'[b] = slot[b],
           \A x \in LifeLabel \cup {"idle"} :
              Stage(b, x) => m \notin Is(b, Past(x)) /\ m \notin Is(b, Leaving(x))
    PROVE  OrderOf(b)'
<1>1. Quiet(Life(b))
  BY HopFacts
<1>2. ASSUME NEW x \in LifeLabel \cup {"idle"}, Stage(b, x)' PROVE Behind(b, x)'
  <2>1. Stage(b, x)
    BY <1>1, <1>2 DEF Stage, Quiet
  <2>2. Behind(b, x)
    BY <2>1 DEF OrderOf
  <2> QED BY <2>1, <2>2, BehindHop
<1> QED BY <1>2 DEF OrderOf

LEMMA OrderDrop ==
    ASSUME MailInv, NEW b \in Agent, OrderOf(b), NEW h, Drop(h),
           h \notin Life(b), slot'[b] = slot[b]
    PROVE  OrderOf(b)'
<1>1. Quiet(Life(b))
  BY DropFacts
<1>2. ASSUME NEW x \in LifeLabel \cup {"idle"}, Stage(b, x)' PROVE Behind(b, x)'
  <2>1. Stage(b, x)
    BY <1>1, <1>2 DEF Stage, Quiet
  <2>2. Behind(b, x)
    BY <2>1 DEF OrderOf
  <2> QED BY <2>2, BehindDrop
<1> QED BY <1>2 DEF OrderOf

LEMMA OrderGive ==
    ASSUME MailInv, NEW b \in Agent, OrderOf(b), NEW m \in Coroutine, Give(m),
           m \notin Life(b), slot'[b] = slot[b],
           \A x \in LifeLabel \cup {"idle"} :
              Stage(b, x) => m \notin Is(b, Past(x)) /\ m \notin Is(b, Leaving(x))
    PROVE  OrderOf(b)'
<1>1. Quiet(Life(b))
  BY GiveInFacts
<1>2. ASSUME NEW x \in LifeLabel \cup {"idle"}, Stage(b, x)' PROVE Behind(b, x)'
  <2>1. Stage(b, x)
    BY <1>1, <1>2 DEF Stage, Quiet
  <2>2. Behind(b, x)
    BY <2>1 DEF OrderOf
  <2> QED BY <2>1, <2>2, BehindGive
<1> QED BY <1>2 DEF OrderOf

\* What the new stage of an agent is.
LEMMA StageOf ==
    ASSUME LifeInv, NEW a \in Agent, NEW m \in Life(a), InFlight(m), NEW x
    PROVE  Stage(a, x) <=> x = m.at
<1>1. LifeOf(a)
  BY DEF LifeInv
<1>2. \A n \in Life(a) : InFlight(n) => n = m
  BY <1>1, AloneTwice DEF LifeOf, Single, InFlight
<1>3. Phase(m) /\ m.agent = a /\ m.at \in LifeLabel
  BY <1>1 DEF LifeOf, Life, Is
<1>4. slot[a].at # "idle"
  BY <1>3 DEF Phase, LifeLabel
<1> QED BY <1>2, <1>4 DEF Stage

LEMMA OrderMove ==
    ASSUME ShapeInv, LifeInv, LifeInv', OrderInv, NEW a \in Agent, NEW h, NEW m, Hop(h, m),
           h \in Life(a), m \in Life(a), Behind(a, m.at)',
           \A b \in Agent : b # a => slot'[b] = slot[b]
    PROVE  OrderInv'
<1>0. MailInv /\ m \in Coroutine
  BY DEF ShapeInv, Life, Is
<1>1. OrderOf(a)'
  <2>1. InFlight(m)'
    BY <1>0, HopFacts
  <2>2. LifeOf(a)'
    BY DEF LifeInv
  <2>3. \A n \in Life(a) : InFlight(n)' => n = m
    BY <2>1, <2>2, AloneTwice DEF LifeOf, Single, InFlight
  <2>4. Phase(m)' /\ m.agent = a /\ m.at \in LifeLabel
    BY <2>1, <2>2 DEF LifeOf, Life, Is
  <2>5. slot'[a].at # "idle"
    BY <2>4 DEF Phase, LifeLabel
  <2>6. \A x : Stage(a, x)' => x = m.at
    BY <2>3, <2>5 DEF Stage
  <2> QED BY <2>6 DEF OrderOf
<1>2. ASSUME NEW b \in Agent, b # a PROVE OrderOf(b)'
  <2>1. h \notin Life(b) /\ \A y : m \notin Is(b, y)
    BY <1>2 DEF Life, Is
  <2>2. m \notin Life(b)
    BY <2>1 DEF Life
  <2> QED BY <1>0, <1>2, <2>1, <2>2, OrderHop DEF OrderInv
<1> QED BY <1>1, <1>2 DEF OrderInv

\* Where the other coroutines of an agent can be: with the logger, or in its own
\* mailbox.
LEMMA Whereabouts ==
    ASSUME MailInv, NEW a \in Agent, NEW L, L \subseteq FrameLabel \cup GoalLabel
    PROVE  /\ Free(mbox["log"], Is(a, L)) /\ Free(mbox[a], Is(a, L)) => Out(Is(a, L))
           /\ L \cap LogLabel = {} => Free(mbox["log"], Is(a, L))
<1>1. ASSUME NEW s \in Service, NEW i \in 1 .. Len(mbox[s]), mbox[s][i] \in Is(a, L)
      PROVE  /\ s = "log" \/ s = a
             /\ s = "log" => mbox[s][i].at \in LogLabel
  <2>1. PICK m : m = mbox[s][i]
    OBVIOUS
  <2>2. m \in Coroutine /\ m.agent = a /\ m.at \in L
    BY <1>1, <2>1 DEF Is
  <2>3. m \notin Stray(s)
    BY <2>1 DEF MailInv, Free
  <2>4. m.at \notin ChatLabel /\ m.at \notin GateLabel
    BY <2>2 DEF FrameLabel, GoalLabel, ChatLabel, GateLabel
  <2>5. s \in Agent => s = a
    BY <2>2, <2>3, Places
  <2>6. s # "chat" /\ s # "gate"
    BY <2>2, <2>3, <2>4, Places
  <2>7. s = "log" => m.at \in LogLabel
    BY <2>2, <2>3, Places
  <2> QED BY <2>1, <2>5, <2>6, <2>7 DEF Service
<1>2. ASSUME NEW m \in ext PROVE m \notin Is(a, L)
  <2>1. m.at \in ExtLabel
    BY DEF MailInv
  <2> QED BY <2>1 DEF Is, ExtLabel, FrameLabel, GoalLabel
<1>3. Free(mbox["log"], Is(a, L)) /\ Free(mbox[a], Is(a, L)) => Out(Is(a, L))
  BY <1>1, <1>2 DEF Out, Gone, Free
<1>4. L \cap LogLabel = {} => Free(mbox["log"], Is(a, L))
  <2> SUFFICES ASSUME L \cap LogLabel = {}, NEW i \in 1 .. Len(mbox["log"]),
                      mbox["log"][i] \in Is(a, L)
               PROVE  FALSE
    BY DEF Free
  <2>1. mbox["log"][i].at \in LogLabel
    BY <1>1, Services
  <2>2. mbox["log"][i].at \in L
    BY DEF Is
  <2> QED BY <2>1, <2>2
<1> QED BY <1>3, <1>4

\* The mailbox that has the one coroutine of a set at its head.
LEMMA HeadIn ==
    ASSUME MailInv, NEW s \in Service, Heads(s), NEW B, Cur(s) \in B
    PROVE  /\ ~ Free(mbox[s], B)
           /\ Single(B) => \A t \in Service : t # s => Free(mbox[t], B)
<1>1. mbox[s] # << >> /\ mbox[s] \in Seq(Coroutine)
  BY DEF Heads, MailInv, Mail
<1>2. Cur(s) = mbox[s][1] /\ 1 \in 1 .. Len(mbox[s])
  BY <1>1 DEF Cur
<1>3. ~ Free(mbox[s], B)
  BY <1>2 DEF Free
<1> QED BY <1>3 DEF Single, Alone

\* An agent that goes on with its life has left behind what it is leaving.
LEMMA HeadBehind ==
    ASSUME MailInv, NEW a \in Agent, NEW x, Behind(a, x), Single(Life(a)),
           Heads(a), Cur(a) \in Life(a)
    PROVE  Out(Is(a, Leaving(x)))
<1>1. a \in Service /\ "log" \in Service /\ a # "log"
  BY Services
<1>2. Free(mbox["log"], Life(a))
  BY <1>1, HeadIn
<1>3. Free(mbox["log"], Is(a, Leaving(x)))
  BY <1>2 DEF Behind
<1>4. mbox[a] # << >> /\ mbox[a] \in Seq(Coroutine) /\ Cur(a) = Head(mbox[a])
  BY <1>1 DEF Heads, MailInv, Mail, Cur
<1>5. Free(mbox[a], Is(a, Leaving(x)))
  BY <1>4, TailAhead DEF Behind
<1>6. Leaving(x) \subseteq FrameLabel \cup GoalLabel
  BY DEF Leaving
<1> QED BY <1>3, <1>5, <1>6, Whereabouts

LEMMA OutUnion ==
    ASSUME NEW a, NEW K, NEW L, NEW M, Out(Is(a, K)), Out(Is(a, L)), M \subseteq K \cup L
    PROVE  Out(Is(a, M))
BY DEF Out, Gone, Free, Is

\* What is put into the mailbox of the logger is there.
LEMMA PutIn ==
    ASSUME MailInv, NEW s \in Service, NEW t \in Service, NEW m, Put(s, t, m), NEW B, m \in B
    PROVE  ~ Free(mbox'[t], B)
<1>1. Taken(s) \in Mail /\ m \in Coroutine /\ mbox' = [Taken(s) EXCEPT ![t] = Append(@, m)]
  BY HeadMail DEF Put, Heads
<1>2. mbox'[t] = Append(Taken(s)[t], m) /\ Taken(s)[t] \in Seq(Coroutine)
  BY <1>1, GiveMail
<1> QED BY <1>1, <1>2, AppendFacts

\* A life at its stage.
LEMMA StageBehind ==
    ASSUME OrderInv, NEW a \in Agent, NEW h \in Life(a), InFlight(h)
    PROVE  Behind(a, h.at)
<1>1. h.at \in LifeLabel /\ Stage(a, h.at)
  BY DEF Life, Is, Stage
<1> QED BY <1>1 DEF OrderInv, OrderOf

\* An agent goes on with its life.
LEMMA OwnMove ==
    ASSUME ShapeInv, LifeInv, LifeInv', OrderInv, NEW a \in Agent, NEW m, NEW from, NEW to,
           Heads(a), Hop(Cur(a), m), Relabel(Cur(a), m, from, to),
           from \in LifeLabel, to \in LifeLabel,
           Past(to) \subseteq Past(from) \cup Leaving(from),
           Leaving(to) = {} \/ ~ Free(mbox'["log"], Life(a)), UNCHANGED slot
    PROVE  OrderInv'
<1>0. MailInv
  BY DEF ShapeInv
<1>1. PICK h : h = Cur(a)
  OBVIOUS
<1>2. /\ h \in Coroutine /\ m \in Coroutine /\ h.at = from /\ m.at = to
      /\ m.agent = h.agent /\ h \notin Stray(a)
  BY <1>1 DEF Relabel, Heads
<1>3. h.agent = a
  BY <1>2, Places
<1>4. h \in Life(a) /\ m \in Life(a)
  BY <1>2, <1>3 DEF Life, Is
<1>5. InFlight(h) /\ Single(Life(a))
  BY <1>0, <1>1, HeadFlying, Services DEF LifeInv, LifeOf
<1>6. Behind(a, from)
  BY <1>2, <1>4, <1>5, StageBehind
<1>7. Out(Is(a, Past(from))) /\ Out(Is(a, Leaving(from)))
  BY <1>0, <1>1, <1>4, <1>5, <1>6, HeadBehind DEF Behind
<1>8. Out(Is(a, Past(to)))
  BY <1>7, OutUnion
<1>9. Free(mbox["log"], Is(a, Leaving(to))) \/ ~ Free(mbox'["log"], Life(a))
  <2>1. Leaving(to) = {} => Free(mbox["log"], Is(a, Leaving(to)))
    BY DEF Is, Free
  <2> QED BY <2>1
<1>10. Behind(a, to)'
  BY <1>0, <1>1, <1>4, <1>5, <1>8, <1>9, BehindMove
<1>11. Behind(a, m.at)'
  BY <1>2, <1>10
<1> QED BY <1>1, <1>4, <1>11, OrderMove

LEMMA OwnSend ==
    ASSUME ShapeInv, LifeInv, LifeInv', OrderInv, NEW a \in Agent, NEW from, NEW to,
           NEW t \in Service, Flow(a, from, t, to), from \in LifeLabel, to \in LifeLabel,
           Past(to) \subseteq Past(from) \cup Leaving(from),
           t = "log" \/ Leaving(to) = {}, UNCHANGED slot
    PROVE  OrderInv'
<1>1. PICK m : Put(a, t, m) /\ Relabel(Cur(a), m, from, to)
  BY DEF Flow
<1>2. Heads(a) /\ Hop(Cur(a), m) /\ Cur(a) \notin Stray(a) /\ Cur(a) \in Coroutine
  BY <1>1 DEF Put, Heads
<1>3. m \in Life(a)
  <2>1. Cur(a).agent = a
    BY <1>2, Places
  <2> QED BY <1>1, <2>1 DEF Relabel, Life, Is
<1>4. t = "log" => ~ Free(mbox'["log"], Life(a))
  BY <1>1, <1>3, PutIn, Services DEF ShapeInv
<1> QED BY <1>1, <1>2, <1>4, OwnMove

LEMMA OwnWait ==
    ASSUME ShapeInv, LifeInv, LifeInv', OrderInv, NEW a \in Agent, NEW from, NEW to,
           Wait(a, from, to), from \in LifeLabel, to \in LifeLabel,
           Past(to) \subseteq Past(from) \cup Leaving(from), Leaving(to) = {}, UNCHANGED slot
    PROVE  OrderInv'
<1>1. PICK m : Heads(a) /\ Relabel(Cur(a), m, from, to) /\ Hop(Cur(a), m)
  BY DEF Wait
<1> QED BY <1>1, OwnMove

LEMMA OwnOrder ==
    ASSUME ShapeInv, LifeInv, LifeInv', OrderInv, NEW a \in Agent,
           \/ AgentOpen(a) \/ Loaded(a) \/ Opened(a) \/ Register(a)
           \/ AgentClose(a) \/ Closing(a) \/ Saved(a) \/ CloseFinish(a)
    PROVE  OrderInv'
<1>0. MailInv /\ UNCHANGED slot /\ "log" \in Service /\ "chat" \in Service /\ "gate" \in Service
  BY Services DEF ShapeInv, AgentOpen, Loaded, Opened, Register, AgentClose, Closing, Saved,
                  CloseFinish, gateVars
<1>1. /\ Past("loaded") \subseteq Past("agent_open") \cup Leaving("agent_open")
      /\ Past("opened") \subseteq Past("loaded") \cup Leaving("loaded")
      /\ Past("register") \subseteq Past("opened") \cup Leaving("opened")
      /\ Past("online") \subseteq Past("register") \cup Leaving("register")
  BY DEF Past, Leaving, TakenBy, FrameLabel, GoalLabel
<1>2. /\ Past("closing") \subseteq Past("agent_close") \cup Leaving("agent_close")
      /\ Past("saved") \subseteq Past("closing") \cup Leaving("closing")
      /\ Past("offline") \subseteq Past("saved") \cup Leaving("saved")
      /\ Past("gamed_close") \subseteq Past("close_finish") \cup Leaving("close_finish")
  BY DEF Past, Leaving, TakenBy, FrameLabel, GoalLabel
<1>3. /\ Leaving("loaded") = {} /\ Leaving("online") = {} /\ Leaving("saved") = {}
      /\ Leaving("offline") = {} /\ Leaving("gamed_close") = {}
  BY DEF Leaving
<1>4. /\ "agent_open" \in LifeLabel /\ "loaded" \in LifeLabel /\ "opened" \in LifeLabel
      /\ "register" \in LifeLabel /\ "online" \in LifeLabel /\ "agent_close" \in LifeLabel
      /\ "closing" \in LifeLabel /\ "saved" \in LifeLabel /\ "offline" \in LifeLabel
      /\ "close_finish" \in LifeLabel /\ "gamed_close" \in LifeLabel
  BY DEF LifeLabel, OpenLabel, CloseLabel
<1>5. CASE AgentOpen(a)
  <2>1. Wait(a, "agent_open", "loaded")
    BY <1>0, <1>5, AgentWaits
  <2> QED BY <1>0, <1>1, <1>3, <1>4, <2>1, OwnWait
<1>6. CASE Loaded(a)
  <2>1. Flow(a, "loaded", "log", "opened")
    BY <1>0, <1>6, AgentSends
  <2> QED BY <1>0, <1>1, <1>4, <2>1, OwnSend
<1>7. CASE Opened(a)
  <2>1. Flow(a, "opened", "log", "register")
    BY <1>0, <1>7, AgentSends
  <2> QED BY <1>0, <1>1, <1>4, <2>1, OwnSend
<1>8. CASE Register(a)
  <2>1. Flow(a, "register", "chat", "online")
    BY <1>0, <1>8, AgentSends
  <2> QED BY <1>0, <1>1, <1>3, <1>4, <2>1, OwnSend
<1>9. CASE AgentClose(a)
  <2>1. Flow(a, "agent_close", "log", "closing")
    BY <1>0, <1>9, AgentSends
  <2> QED BY <1>0, <1>2, <1>4, <2>1, OwnSend
<1>10. CASE Closing(a)
  <2>1. Wait(a, "closing", "saved")
    BY <1>0, <1>10, AgentWaits
  <2> QED BY <1>0, <1>2, <1>3, <1>4, <2>1, OwnWait
<1>11. CASE Saved(a)
  <2>1. Flow(a, "saved", "chat", "offline")
    BY <1>0, <1>11, AgentSends
  <2> QED BY <1>0, <1>2, <1>3, <1>4, <2>1, OwnSend
<1>12. CASE CloseFinish(a)
  <2>1. Flow(a, "close_finish", "gate", "gamed_close")
    BY <1>0, <1>12, AgentSends
  <2> QED BY <1>0, <1>2, <1>3, <1>4, <2>1, OwnSend
<1> QED BY <1>5, <1>6, <1>7, <1>8, <1>9, <1>10, <1>11, <1>12

\* The chat server and the gateway go on with the life of an agent.
LEMMA TableOrder ==
    ASSUME ShapeInv, LifeInv, LifeInv', OrderInv, Online \/ Offline
    PROVE  OrderInv'
<1>0. MailInv /\ UNCHANGED slot
  BY DEF ShapeInv, Online, Offline, gateVars
<1>1. ASSUME NEW a \in Agent, NEW h, NEW m, h \in Life(a), m \in Life(a), Hop(h, m),
             NEW to, m.at = to, Out(Is(a, Past(to))), Leaving(to) \cap LogLabel = {}
      PROVE  OrderInv'
  <2>1. Leaving(to) \subseteq FrameLabel \cup GoalLabel
    BY DEF Leaving
  <2>2. Free(mbox["log"], Is(a, Leaving(to)))
    BY <1>0, <1>1, <2>1, Whereabouts
  <2>3. Single(Life(a))
    BY <1>1 DEF LifeInv, LifeOf
  <2>4. Behind(a, to)'
    BY <1>0, <1>1, <2>2, <2>3, BehindMove
  <2> QED BY <1>0, <1>1, <2>4, OrderMove
<1>2. CASE Online
  <2>1. PICK a \in Agent, h \in Coroutine, m \in Coroutine :
           h \in Life(a) /\ m \in Life(a) /\ Hop(h, m) /\ m.at = "welcome"
    BY <1>2, OnlineTable
  <2>2. Out(Is(a, Past("welcome")))
    BY DEF Past, TakenBy, Is, Out, Gone, Free
  <2>3. Leaving("welcome") \cap LogLabel = {}
    BY DEF Leaving
  <2> QED BY <1>1, <2>1, <2>2, <2>3
<1>3. CASE Offline
  <2>1. PICK a \in Agent, h \in Coroutine, m \in Coroutine :
           /\ h \in Life(a) /\ m \in Life(a) /\ Hop(h, m) /\ h.at = "offline"
           /\ m.at = "close_finish"
    BY <1>3, OfflineTable
  <2>2. InFlight(h)
    BY <1>0, <2>1, HopFlying
  <2>3. Out(Is(a, Past("offline")))
    BY <2>1, <2>2, StageBehind DEF Behind
  <2>4. Past("close_finish") = Past("offline")
    BY DEF Past, TakenBy
  <2>5. Leaving("close_finish") \cap LogLabel = {}
    BY DEF Leaving, LogLabel
  <2> QED BY <1>1, <2>1, <2>3, <2>4, <2>5
<1> QED BY <1>2, <1>3

LEMMA GateOrder ==
    ASSUME ShapeInv, LifeInv, LifeInv', OrderInv, GamedClose
    PROVE  OrderInv'
<1>0. MailInv /\ UNCHANGED slot
  BY DEF ShapeInv, GamedClose, gateVars
<1>1. PICK m : Put("gate", "log", m) /\ Relabel(Cur("gate"), m, "gamed_close", "recycle")
  BY <1>0, GateFlows DEF Flow
<1>2. PICK h, a : h = Cur("gate") /\ a = h.agent
  OBVIOUS
<1>3. /\ h \in Coroutine /\ m \in Coroutine /\ h.at = "gamed_close" /\ m.at = "recycle"
      /\ m.agent = a /\ Hop(h, m)
  BY <1>1, <1>2 DEF Put, Relabel
<1>4. a \in Agent /\ h \in Life(a) /\ m \in Life(a) /\ InFlight(h)
  BY <1>0, <1>2, <1>3, HopFlying DEF Coroutine, Life, Is, LifeLabel, CloseLabel
<1>5. Behind(a, "gamed_close")
  BY <1>3, <1>4, StageBehind
<1>6. Past("recycle") = Past("gamed_close")
  BY DEF Past, TakenBy
<1>7. ~ Free(mbox'["log"], Life(a))
  BY <1>0, <1>1, <1>4, PutIn, Services
<1>8. Out(Is(a, Past("recycle"))) /\ Single(Life(a))
  BY <1>4, <1>5, <1>6 DEF Behind, LifeInv, LifeOf
<1>9. Behind(a, "recycle")'
  BY <1>0, <1>3, <1>4, <1>7, <1>8, BehindMove
<1>10. Behind(a, m.at)'
  BY <1>3, <1>9
<1> QED BY <1>0, <1>3, <1>4, <1>10, OrderMove

LEMMA RecycleOrder ==
    ASSUME ShapeInv, LifeInv, LifeInv', OrderInv, Recycle
    PROVE  OrderInv'
<1>0. MailInv
  BY DEF ShapeInv
<1>1. Ends("gate", "recycle") /\ "recycle" \in LifeLabel
  BY <1>0, GateFlows DEF LifeLabel, CloseLabel
<1>2. PICK a \in Agent, h \in Coroutine :
         h = Cur("gate") /\ a = h.agent /\ h \in Life(a) /\ Drop(h) /\ h.at = "recycle"
  BY <1>1, EndsLife, Services
<1>3. Heads("gate") /\ InFlight(h)
  BY <1>0, <1>1, <1>2, HeadFlying, Services DEF Ends
<1>4. Behind(a, "recycle") /\ Single(Life(a))
  BY <1>2, <1>3, StageBehind DEF LifeInv, LifeOf
<1>5. slot' = [slot EXCEPT ![a] = Idle] /\ GateOK
  BY <1>2 DEF Recycle, ShapeInv, DataOK
<1>6. slot'[a].at = "idle" /\ \A b \in Agent : b # a => slot'[b] = slot[b]
  BY <1>5 DEF Idle, GateOK
<1>7. Out(Life(a))'
  BY <1>0, <1>2, <1>4, DropFacts
<1>8. Behind(a, "idle")'
  <2>1. Past("idle") = Past("recycle") /\ Leaving("idle") = Leaving("recycle")
    BY DEF Past, Leaving, TakenBy
  <2>2. "log" \in Service /\ "gate" \in Service /\ a \in Service /\ "log" # "gate"
    BY Services
  <2>3. Free(mbox["log"], Life(a))
    BY <1>0, <1>2, <1>3, <1>4, <2>2, HeadIn
  <2>4. Free(mbox["log"], Is(a, Leaving("idle"))) /\ Out(Is(a, Past("idle")))
    BY <1>4, <2>1, <2>3 DEF Behind
  <2>5. /\ mbox \in Mail /\ ext \subseteq Coroutine /\ Takes(mbox, ext, mbox', ext', h)
    BY <1>0, <1>2 DEF MailInv, Drop
  <2>6. Free(mbox'["log"], Is(a, Leaving("idle")))
    BY <2>2, <2>4, <2>5, TakeFacts
  <2>7. Out(Is(a, Past("idle")))'
    BY <2>4, <2>5, TakeFacts DEF Out
  <2>8. Free(mbox'["log"], Life(a)) /\ Free(mbox'[a], Life(a))
    BY <1>7, <2>2 DEF Out, Gone
  <2> QED BY <2>6, <2>7, <2>8 DEF Behind, Ahead, Free
<1>9. OrderOf(a)'
  <2>1. \A n \in Life(a) : ~ InFlight(n)'
    BY <1>7, GoneFlying DEF Out, InFlight
  <2>2. \A x : Stage(a, x)' => x = "idle"
    BY <2>1 DEF Stage
  <2> QED BY <1>8, <2>2 DEF OrderOf
<1>10. ASSUME NEW b \in Agent, b # a PROVE OrderOf(b)'
  <2>1. h \notin Life(b)
    BY <1>2, <1>10 DEF Life, Is
  <2> QED BY <1>0, <1>2, <1>6, <1>10, <2>1, OrderDrop DEF OrderInv
<1> QED BY <1>9, <1>10 DEF OrderInv

LEMMA OrderNew ==
    ASSUME ShapeInv, LifeInv, LifeInv', OrderInv, NEW a \in Agent, NEW m, Give(m),
           m \in Life(a), Behind(a, m.at)', \A b \in Agent : b # a => slot'[b] = slot[b]
    PROVE  OrderInv'
<1>0. MailInv /\ m \in Coroutine
  BY DEF ShapeInv, Life, Is
<1>1. OrderOf(a)'
  <2>1. InFlight(m)'
    BY <1>0, GiveInFacts
  <2>2. LifeOf(a)'
    BY DEF LifeInv
  <2>3. \A n \in Life(a) : InFlight(n)' => n = m
    BY <2>1, <2>2, AloneTwice DEF LifeOf, Single, InFlight
  <2>4. Phase(m)' /\ m.agent = a /\ m.at \in LifeLabel
    BY <2>1, <2>2 DEF LifeOf, Life, Is
  <2>5. slot'[a].at # "idle"
    BY <2>4 DEF Phase, LifeLabel
  <2>6. \A x : Stage(a, x)' => x = m.at
    BY <2>3, <2>5 DEF Stage
  <2> QED BY <2>6 DEF OrderOf
<1>2. ASSUME NEW b \in Agent, b # a PROVE OrderOf(b)'
  <2>1. \A y : m \notin Is(b, y)
    BY <1>2 DEF Life, Is
  <2>2. m \notin Life(b)
    BY <2>1 DEF Life
  <2> QED BY <1>0, <1>2, <2>1, <2>2, OrderGive DEF OrderInv
<1> QED BY <1>1, <1>2 DEF OrderInv

LEMMA LoginOrder ==
    ASSUME ShapeInv, LifeInv, LifeInv', OrderInv, NEW account \in Account, Login(account)
    PROVE  OrderInv'
<1>0. MailInv
  BY DEF ShapeInv
<1>1. PICK a \in Agent :
         /\ a = pool[1] /\ pool \in Seq(Agent) /\ pool # << >>
         /\ slot' = [slot EXCEPT ![a] = [account |-> account, at |-> "login"]]
         /\ Co("agent_open", a, account, 0) \in Coroutine
         /\ Give(Co("agent_open", a, account, 0))
  BY LoginPost
<1>2. PICK m : m = Co("agent_open", a, account, 0)
  OBVIOUS
<1>3. m.at = "agent_open" /\ m.agent = a /\ m \in Life(a)
  BY <1>1, <1>2 DEF Co, Life, Is, LifeLabel, OpenLabel
<1>4. slot[a].at = "idle"
  <2>1. 1 \in 1 .. Len(pool)
    BY <1>1
  <2> QED BY <1>1, <2>1 DEF LifeInv, PoolInv
<1>5. Out(Life(a))
  BY <1>4, NoLife
<1>6. Behind(a, "idle")
  BY <1>4 DEF OrderInv, OrderOf, Stage
<1>7. Past("agent_open") = Past("idle") /\ Leaving("agent_open") = Leaving("idle")
  BY DEF Past, Leaving, TakenBy
<1>8. Out(Is(a, Past("agent_open"))) /\ Free(mbox["log"], Is(a, Leaving("agent_open")))
  <2>1. Free(mbox["log"], Life(a))
    BY <1>5, Services DEF Out, Gone
  <2> QED BY <1>6, <1>7, <2>1 DEF Behind
<1>9. Behind(a, "agent_open")'
  BY <1>0, <1>1, <1>2, <1>3, <1>5, <1>8, BehindStart
<1>10. \A b \in Agent : b # a => slot'[b] = slot[b]
  BY <1>1 DEF ShapeInv, DataOK, GateOK
<1>11. Behind(a, m.at)'
  BY <1>3, <1>9
<1> QED BY <1>1, <1>2, <1>3, <1>10, <1>11, OrderNew

LEMMA LeaveOrder ==
    ASSUME ShapeInv, LifeInv, LifeInv', OrderInv, NEW a \in Agent, Leave(a)
    PROVE  OrderInv'
<1>0. MailInv
  BY DEF ShapeInv
<1>1. PICK m : m = Co("agent_close", a, slot[a].account, 0)
  OBVIOUS
<1>2. m \in Coroutine /\ Give(m)
  BY <1>1, LeavePost
<1>3. m.at = "agent_close" /\ m.agent = a /\ m \in Life(a)
  BY <1>1, <1>2 DEF Co, Life, Is, LifeLabel, CloseLabel
<1>4. slot' = [slot EXCEPT ![a].at = "closed"] /\ slot[a].at = "forwarded"
  BY DEF Leave
<1>5. Out(Life(a))
  BY <1>4, NoLife
<1>6. Out(Is(a, Past("agent_close")))
  BY DEF Past, TakenBy, Is, Out, Gone, Free
<1>7. Free(mbox["log"], Is(a, Leaving("agent_close")))
  <2>1. Leaving("agent_close") \subseteq FrameLabel \cup GoalLabel
    BY DEF Leaving
  <2>2. Leaving("agent_close") \cap LogLabel = {}
    BY DEF Leaving, LogLabel
  <2> QED BY <1>0, <2>1, <2>2, Whereabouts
<1>8. Behind(a, "agent_close")'
  BY <1>0, <1>2, <1>3, <1>5, <1>6, <1>7, BehindStart
<1>9. \A b \in Agent : b # a => slot'[b] = slot[b]
  BY <1>4 DEF ShapeInv, DataOK, GateOK
<1>10. Behind(a, m.at)'
  BY <1>3, <1>8
<1> QED BY <1>2, <1>3, <1>9, <1>10, OrderNew

LEMMA WelcomeOrder ==
    ASSUME ShapeInv, LifeInv, LifeInv', OrderInv, NEW a \in Agent, Welcome(a)
    PROVE  OrderInv'
<1>0. MailInv
  BY DEF ShapeInv
<1>1. Ends(a, "welcome") /\ "welcome" \in LifeLabel
  BY <1>0, AgentWaits DEF LifeLabel, OpenLabel
<1>2. PICK h : h = Cur(a) /\ h \in Life(a) /\ Drop(h)
  BY <1>1, EndsLife, Services
<1>3. slot' = [slot EXCEPT ![a].at = "forwarded"] /\ GateOK
  BY DEF Welcome, ShapeInv, DataOK
<1>4. slot'[a].at = "forwarded" /\ \A b \in Agent : b # a => slot'[b] = slot[b]
  BY <1>3 DEF GateOK
<1>5. Out(Life(a))'
  BY <1>0, <1>2, DropFacts DEF LifeInv, LifeOf
<1>6. OrderOf(a)'
  <2>1. \A n \in Life(a) : ~ InFlight(n)'
    BY <1>5, GoneFlying DEF Out, InFlight
  <2>2. \A x : ~ Stage(a, x)'
    BY <1>4, <2>1 DEF Stage
  <2> QED BY <2>2 DEF OrderOf
<1>7. ASSUME NEW b \in Agent, b # a PROVE OrderOf(b)'
  <2>1. h \notin Life(b)
    BY <1>2, <1>7 DEF Life, Is
  <2> QED BY <1>0, <1>2, <1>4, <1>7, <2>1, OrderDrop DEF OrderInv
<1> QED BY <1>6, <1>7 DEF OrderInv

\* The other coroutines: none comes to where it is too late for it.
LEMMA AsideOrder ==
    ASSUME ShapeInv, OrderInv, NEW h \in Coroutine, NEW m \in Coroutine, Hop(h, m),
           h.at \notin LifeLabel, m.at \notin LifeLabel, UNCHANGED slot,
           \A x \in LifeLabel \cup {"idle"} :
              Stage(m.agent, x) => m.at \notin Past(x) /\ m.at \notin Leaving(x)
    PROVE  OrderInv'
<1>0. MailInv
  BY DEF ShapeInv
<1>1. ASSUME NEW b \in Agent PROVE OrderOf(b)'
  <2>1. h \notin Life(b) /\ m \notin Life(b)
    BY DEF Life, Is
  <2>2. \A x \in LifeLabel \cup {"idle"} :
           Stage(b, x) => m \notin Is(b, Past(x)) /\ m \notin Is(b, Leaving(x))
    BY DEF Is
  <2> QED BY <1>0, <2>1, <2>2, OrderHop DEF OrderInv
<1> QED BY <1>1 DEF OrderInv

LEMMA NeverPast ==
    ASSUME NEW l, l \notin FrameLabel \cup GoalLabel, NEW x
    PROVE  l \notin Past(x) /\ l \notin Leaving(x)
BY DEF Past, Leaving

\* A coroutine that is in flight has not been passed.
LEMMA NotPast ==
    ASSUME OrderInv, NEW h \in Coroutine, InFlight(h), NEW x \in LifeLabel \cup {"idle"},
           Stage(h.agent, x)
    PROVE  h.at \notin Past(x)
<1>1. h.agent \in Agent
  BY DEF Coroutine
<1>2. Behind(h.agent, x)
  BY <1>1 DEF OrderInv, OrderOf
<1>3. \A m \in Is(h.agent, Past(x)) : ~ InFlight(m)
  BY <1>2, OutFlying DEF Behind
<1> QED BY <1>3 DEF Is

Keeps(from, to) == \A x \in LifeLabel \cup {"idle"} :
    from \notin Past(x) => to \notin Past(x) /\ to \notin Leaving(x)

LEMMA FlowKeeps ==
    ASSUME ShapeInv, OrderInv, NEW s, NEW from, NEW t, NEW to, Flow(s, from, t, to),
           from \notin LifeLabel, to \notin LifeLabel, Keeps(from, to), UNCHANGED slot
    PROVE  OrderInv'
<1>1. PICK h, m : Hop(h, m) /\ Relabel(h, m, from, to)
  BY DEF Flow, Put
<1>2. /\ h \in Coroutine /\ m \in Coroutine /\ h.at = from /\ m.at = to
      /\ m.agent = h.agent
  BY <1>1 DEF Relabel
<1>3. InFlight(h)
  BY <1>1, HopFlying DEF ShapeInv
<1>4. \A x \in LifeLabel \cup {"idle"} :
         Stage(m.agent, x) => m.at \notin Past(x) /\ m.at \notin Leaving(x)
  BY <1>2, <1>3, NotPast DEF Keeps
<1> QED BY <1>1, <1>2, <1>4, AsideOrder

LEMMA PutNever ==
    ASSUME ShapeInv, OrderInv, NEW s, NEW t, NEW m, Put(s, t, m),
           Cur(s).at \notin LifeLabel, m.at \notin LifeLabel,
           m.at \notin FrameLabel \cup GoalLabel, UNCHANGED slot
    PROVE  OrderInv'
<1>1. Cur(s) \in Coroutine /\ m \in Coroutine /\ Hop(Cur(s), m)
  BY DEF Put, Heads
<1> QED BY <1>1, NeverPast, AsideOrder

\* Which stages an agent has whose user is set, or that is online.
LEMMA UserStage ==
    ASSUME ShapeInv, LifeInv, NEW a \in Agent, NEW x \in LifeLabel \cup {"idle"}, Stage(a, x)
    PROVE  /\ user[a] # Nil => x \notin {"idle", "agent_open", "loaded", "opened",
                                         "gamed_close", "recycle"}
           /\ ~ Off(a) => x \in {"welcome", "agent_close", "closing", "saved", "offline"}
<1>1. CASE x = "idle"
  <2>1. slot[a].at = "idle"
    BY <1>1 DEF Stage, Life, Is, LifeLabel, OpenLabel, CloseLabel
  <2>2. Still(a)
    BY <2>1, NoLife
  <2> QED BY <1>1, <2>1, <2>2 DEF Still
<1>2. CASE x # "idle"
  <2>1. PICK m \in Life(a) : InFlight(m) /\ m.at = x
    BY <1>2 DEF Stage
  <2>2. Phase(m) /\ m.agent = a
    BY <2>1 DEF LifeInv, LifeOf, Life, Is
  <2> QED BY <1>2, <2>1, <2>2 DEF Phase, LifeLabel, OpenLabel, CloseLabel
<1> QED BY <1>1, <1>2

LEMMA FrameOrder ==
    ASSUME ShapeInv, OrderInv, NEW a \in Agent,
           Rpc(a) \/ RpcDump(a) \/ RpcWorldChat(a) \/ RpcSend(a) \/ RpcRet(a)
    PROVE  OrderInv'
<1>0. MailInv /\ UNCHANGED slot
  BY DEF ShapeInv, Rpc, RpcDump, RpcWorldChat, RpcSend, RpcRet, gateVars
<1>1. /\ "rpc" \notin LifeLabel /\ "rpc_dump" \notin LifeLabel
      /\ "rpc_chat" \notin LifeLabel /\ "rpc_send" \notin LifeLabel
      /\ "broadcast" \notin LifeLabel /\ "rpc_ret" \notin LifeLabel
  BY DEF LifeLabel, OpenLabel, CloseLabel
<1>2. /\ Keeps("rpc", "rpc_dump") /\ Keeps("rpc_dump", "rpc_chat")
      /\ Keeps("rpc_chat", "rpc_send")
  BY DEF Keeps, Past, Leaving, TakenBy, FrameLabel, GoalLabel, LifeLabel, OpenLabel, CloseLabel
<1>3. CASE Rpc(a) \/ RpcDump(a) \/ RpcWorldChat(a)
  <2>1. \/ Flow(a, "rpc", "log", "rpc_dump")
        \/ Flow(a, "rpc_dump", "log", "rpc_chat")
        \/ Flow(a, "rpc_chat", "log", "rpc_send")
    BY <1>0, <1>3, FrameSends
  <2> QED BY <1>0, <1>1, <1>2, <2>1, FlowKeeps
<1>4. CASE RpcSend(a)
  <2>1. PICK m : m = Co("broadcast", a, chatUser[a], Cur(a).n)
    OBVIOUS
  <2>2. Put(a, "chat", m) /\ Cur(a).at = "rpc_send"
    BY <1>4, <2>1, RpcSendFlow
  <2>3. m.at = "broadcast" /\ "broadcast" \notin FrameLabel \cup GoalLabel
    BY <2>1 DEF Co, FrameLabel, GoalLabel
  <2> QED BY <1>0, <1>1, <2>2, <2>3, PutNever
<1>5. CASE RpcRet(a)
  <2>1. Ends(a, "rpc_ret")
    BY <1>0, <1>5, AgentWaits
  <2>2. PICK h : h = Cur(a) /\ Drop(h) /\ h.at \notin LifeLabel
    BY <1>1, <2>1 DEF Ends
  <2>3. ASSUME NEW b \in Agent PROVE OrderOf(b)'
    <3>1. h \notin Life(b)
      BY <2>2 DEF Life, Is
    <3> QED BY <1>0, <2>2, <3>1, OrderDrop DEF OrderInv
  <2> QED BY <2>3 DEF OrderInv
<1> QED BY <1>3, <1>4, <1>5

LEMMA GoalOrder ==
    ASSUME ShapeInv, LifeInv, OrderInv, NEW a \in Agent,
           ChatWorld(a) \/ Request(a) \/ Write(a) \/ RequestFailed(a)
    PROVE  OrderInv'
<1>0. MailInv /\ UNCHANGED slot
  BY DEF ShapeInv, ChatWorld, Request, Write, RequestFailed, gateVars
<1>1. /\ "chat_world" \notin LifeLabel /\ "request" \notin LifeLabel
      /\ "write" \notin LifeLabel /\ "next" \notin LifeLabel
  BY DEF LifeLabel, OpenLabel, CloseLabel
<1>2. Keeps("chat_world", "request")
  BY DEF Keeps, Past, Leaving, TakenBy, FrameLabel, GoalLabel, LifeLabel, OpenLabel, CloseLabel
<1>3. \A from : Keeps(from, "next")
  BY NeverPast DEF Keeps, FrameLabel, GoalLabel
<1>4. CASE Request(a)
  <2>1. Flow(a, "request", "log", "write") /\ user[a] # Nil
    BY <1>0, <1>4, GoalSends DEF Request
  <2>2. PICK m : Put(a, "log", m) /\ Relabel(Cur(a), m, "request", "write")
    BY <2>1 DEF Flow
  <2>3. PICK h : h = Cur(a)
    OBVIOUS
  <2>4. /\ h \in Coroutine /\ m \in Coroutine /\ Hop(h, m) /\ h.at = "request"
        /\ m.at = "write" /\ m.agent = h.agent /\ h.agent = a
    BY <2>2, <2>3, Places DEF Put, Heads, Relabel
  <2>5. InFlight(h)
    BY <1>0, <2>4, HopFlying
  <2>6. ASSUME NEW x \in LifeLabel \cup {"idle"}, Stage(m.agent, x)
        PROVE  m.at \notin Past(x) /\ m.at \notin Leaving(x)
    <3>1. "request" \notin Past(x)
      BY <2>4, <2>5, <2>6, NotPast
    <3>2. x \notin {"idle", "agent_open", "loaded", "opened", "gamed_close", "recycle"}
      BY <2>1, <2>4, <2>6, UserStage
    <3> QED BY <2>4, <3>2 DEF Past, Leaving
  <2> QED BY <1>0, <1>1, <2>4, <2>6, AsideOrder
<1>5. CASE ChatWorld(a) \/ Write(a) \/ RequestFailed(a)
  <2>1. \/ Flow(a, "chat_world", "log", "request")
        \/ Flow(a, "chat_world", "chat", "next")
        \/ Flow(a, "request", "chat", "next")
        \/ Flow(a, "write", "chat", "next")
    BY <1>0, <1>5, GoalSends
  <2> QED BY <1>0, <1>1, <1>2, <1>3, <2>1, FlowKeeps
<1> QED BY <1>4, <1>5

\* The chat server: it calls an agent that is online.
LEMMA VisitOrder ==
    ASSUME ShapeInv, LifeInv, OrderInv, NEW from \in {"begin", "next"}, NEW n, NEW b,
           NEW todo, NEW steady, Visiting(from, n, b, todo, steady)
    PROVE  OrderInv'
<1>1. PICK a : a = onlineTab[b]
  OBVIOUS
<1>2. PICK m : m = Co("chat_world", a, b, n)
  OBVIOUS
<1>3. /\ At("chat", from) /\ n = Cur("chat").n /\ b \in Account /\ onlineTab[b] # Nil
      /\ todo \in SUBSET Account /\ steady \in SUBSET Account
      /\ Visit(n, [cast[n] EXCEPT !.todo = todo, !.steady = steady], b)
  BY DEF Visiting
<1>4. Put("chat", a, m)
  BY <1>1, <1>2, <1>3, VisitFlow
<1>5. Cur("chat").at = from /\ UNCHANGED slot
  BY <1>3, ServerHead DEF Visit, gateVars
<1>6. m.at = "chat_world" /\ m.agent = a
  BY <1>2 DEF Co
<1>7. "chat_world" \notin LifeLabel /\ from \notin LifeLabel
  BY DEF LifeLabel, OpenLabel, CloseLabel
<1>8. a \in Agent /\ ~ Off(a)
  BY <1>1, <1>3 DEF Off, ShapeInv, DataOK, TabOK, Opt
<1>9. ASSUME NEW x \in LifeLabel \cup {"idle"}, Stage(m.agent, x)
      PROVE  m.at \notin Past(x) /\ m.at \notin Leaving(x)
  <2>1. x \in {"welcome", "agent_close", "closing", "saved", "offline"}
    BY <1>6, <1>8, <1>9, UserStage
  <2> QED BY <1>6, <2>1 DEF Past, Leaving
<1>10. Cur("chat") \in Coroutine /\ m \in Coroutine /\ Hop(Cur("chat"), m)
  BY <1>4 DEF Put, Heads
<1> QED BY <1>5, <1>6, <1>7, <1>9, <1>10, AsideOrder

LEMMA ServerOrder ==
    ASSUME ShapeInv, LifeInv, LifeInv', OrderInv, ChatStep
    PROVE  OrderInv'
<1>1. ASSUME NEW from \in {"begin", "next"}, NEW n, NEW at, Answering(from, n, at)
      PROVE  OrderInv'
  <2>1. PICK m : m = Co("rpc_ret", cast[n].from, Nil, n)
    OBVIOUS
  <2>2. Put("chat", cast[n].from, m)
    BY <1>1, <2>1, AnswerFlow DEF Answering
  <2>3. Cur("chat").at = from /\ UNCHANGED slot
    BY <1>1, ServerHead DEF Answering, End, gateVars
  <2>4. m.at = "rpc_ret"
    BY <2>1 DEF Co
  <2>5. /\ "rpc_ret" \notin LifeLabel /\ from \notin LifeLabel
        /\ "rpc_ret" \notin FrameLabel \cup GoalLabel
    BY DEF LifeLabel, OpenLabel, CloseLabel, FrameLabel, GoalLabel
  <2> QED BY <2>2, <2>3, <2>4, <2>5, PutNever
<1>2. CASE Broadcast
  <2>1. Flow("chat", "broadcast", "log", "begin")
    BY <1>2, BroadcastFlow DEF ShapeInv
  <2>2. /\ "broadcast" \notin LifeLabel /\ "begin" \notin LifeLabel
        /\ "begin" \notin FrameLabel \cup GoalLabel
    BY DEF LifeLabel, OpenLabel, CloseLabel, FrameLabel, GoalLabel
  <2>3. Keeps("broadcast", "begin") /\ UNCHANGED slot
    BY <1>2, <2>2, NeverPast DEF Keeps, Broadcast, gateVars
  <2> QED BY <2>1, <2>2, <2>3, FlowKeeps
<1> QED BY <1>1, <1>2, BeginVisits, NextVisits, VisitOrder, Answers, TableOrder DEF ChatStep

\* A client's frame: the agent is neither opened nor closed.
LEMMA ClientOrder ==
    ASSUME ShapeInv, LifeInv, OrderInv, NEW a \in Agent, NEW n \in Chat, ClientChat(a, n)
    PROVE  OrderInv'
<1>0. MailInv
  BY DEF ShapeInv
<1>1. PICK m : m = Co("rpc", a, Nil, n)
  OBVIOUS
<1>2. m \in Coroutine /\ Give(m) /\ m.at = "rpc" /\ m.agent = a
  BY <1>1, ClientPost DEF Co
<1>3. slot[a].at = "forwarded" /\ UNCHANGED slot
  BY DEF ClientChat, gateVars
<1>4. Out(Life(a))
  BY <1>3, NoLife
<1>5. \A x : ~ Stage(a, x)
  <2>1. \A k \in Life(a) : ~ InFlight(k)
    BY <1>4, OutFlying
  <2> QED BY <1>3, <2>1 DEF Stage
<1>6. ASSUME NEW b \in Agent PROVE OrderOf(b)'
  <2>1. m \notin Life(b)
    BY <1>2 DEF Life, Is, LifeLabel, OpenLabel, CloseLabel
  <2>2. b # a => \A y : m \notin Is(b, y)
    BY <1>2 DEF Is
  <2> QED BY <1>0, <1>2, <1>3, <1>5, <2>1, <2>2, OrderGive DEF OrderInv
<1> QED BY <1>6 DEF OrderInv

\* The logger answers a coroutine that the life of its agent leaves behind: the
\* life is with the logger too, behind it.
LEMMA BehindBack ==
    ASSUME MailInv, NEW a \in Agent, NEW x, Behind(a, x), Single(Life(a)), NEW h, Back(h),
           h \in Is(a, Leaving(x)), h \notin Is(a, Past(x))
    PROVE  Behind(a, x)'
<1> DEFINE P == Is(a, Past(x))
           L == Is(a, Leaving(x))
           V == Life(a)
<1>1. h.agent = a /\ h \in Coroutine /\ h.at \in FrameLabel \cup GoalLabel
  BY DEF Is, Leaving
<1>2. h \notin V
  BY <1>1 DEF Life, Is, FrameLabel, GoalLabel, LifeLabel, OpenLabel, CloseLabel
<1> HIDE DEF P, L, V
<1>3. h \in L /\ h \notin P /\ Single(V)
  BY DEF P, L, V
<1>4. Home(h) = a
  BY <1>1 DEF Back, FrameLabel, GoalLabel
<1>5. PICK mb : mb = Taken("log")
  OBVIOUS
<1>6. mbox["log"] # << >> /\ h = Head(mbox["log"])
  BY DEF Back, Cur
<1>7. /\ "log" \in Service /\ a \in Service /\ a # "log"
      /\ mbox \in Mail /\ ext \subseteq Coroutine
  BY Services DEF MailInv
<1>8. Takes(mbox, ext, mb, ext, h) /\ mb \in Mail /\ Heads("log") /\ Cur("log") = h
  BY <1>5, <1>6, <1>7, HeadMail DEF Heads, Cur
<1>9. mbox' = [mb EXCEPT ![a] = Append(@, h)] /\ ext' = ext
  BY <1>4, <1>5 DEF Back
<1>10. Gives(mb, ext, mbox', ext', h)
  BY <1>7, <1>9 DEF Gives
<1>11. /\ Out(P) /\ Ahead(mbox["log"], L, V)
       /\ Free(mbox["log"], V) => Free(mbox["log"], L)
  BY DEF Behind, P, L, V
<1>12. ~ Free(mbox["log"], L)
  BY <1>3, <1>7, <1>8, HeadIn
<1>13. ~ Free(mbox["log"], V)
  BY <1>11, <1>12
<1>14. Free(mbox[a], V)
  BY <1>3, <1>7, <1>13 DEF Single, Alone
<1>15. Out(P)'
  <2>1. Gone(mb, ext, P)
    BY <1>7, <1>8, <1>11, TakeFacts DEF Out
  <2> QED BY <1>1, <1>3, <1>7, <1>8, <1>10, <2>1, GiveFacts DEF Out
<1>16. mbox'["log"] = mb["log"]
  BY <1>1, <1>7, <1>8, <1>9, GiveMail
<1>17. Ahead(mbox'["log"], L, V)
  BY <1>7, <1>8, <1>11, <1>16, TakeAhead
<1>18. Free(mbox'[a], V)
  <2>1. Free(mb[a], V)
    BY <1>7, <1>8, <1>14, TakeFacts
  <2> QED BY <1>1, <1>2, <1>7, <1>8, <1>10, <2>1, GiveFacts
<1>19. Ahead(mbox'[a], L, V)
  BY <1>18 DEF Ahead, Free
<1>20. ~ Free(mbox'["log"], V)
  <2>1. ~ Free(mb["log"], V)
    BY <1>2, <1>7, <1>8, <1>13, TakeFacts
  <2> QED BY <1>16, <2>1
<1> QED BY <1>15, <1>17, <1>19, <1>20 DEF Behind, P, L, V

LEMMA LoggerOrder ==
    ASSUME ShapeInv, LifeInv, LifeInv', OrderInv, Logger
    PROVE  OrderInv'
<1>0. MailInv /\ UNCHANGED slot
  BY DEF ShapeInv, Logger, gateVars
<1>1. PICK h : Back(h)
  BY <1>0, LoggerFlow
<1>2. PICK a : a = h.agent
  OBVIOUS
<1>3. h \in Coroutine /\ Hop(h, h) /\ a \in Agent
  BY <1>1, <1>2 DEF Back, Coroutine
<1>4. InFlight(h) /\ Single(Life(a)) /\ "log" \in Service
  BY <1>0, <1>3, HopFlying, Services DEF LifeInv, LifeOf
<1>5. CASE h.at \in LifeLabel
  <2>1. h \in Life(a)
    BY <1>2, <1>3, <1>5 DEF Life, Is
  <2>2. Behind(a, h.at)
    BY <1>3, <1>4, <2>1, StageBehind
  <2>3. mbox["log"] # << >> /\ mbox["log"] \in Seq(Coroutine) /\ h = Head(mbox["log"])
    BY <1>0, <1>1, <1>4 DEF Back, Cur, MailInv, Mail
  <2>4. Free(mbox["log"], Is(a, Leaving(h.at)))
    BY <2>1, <2>2, <2>3, TailAhead DEF Behind
  <2>5. Out(Is(a, Past(h.at)))
    BY <2>2 DEF Behind
  <2>6. Behind(a, h.at)'
    BY <1>0, <1>3, <1>4, <2>1, <2>4, <2>5, BehindMove
  <2> QED BY <1>0, <1>3, <2>1, <2>6, OrderMove
<1>6. CASE h.at \notin LifeLabel
  <2>1. \A b \in Agent : h \notin Life(b)
    BY <1>6 DEF Life, Is
  <2>2. ASSUME NEW b \in Agent, b # a PROVE OrderOf(b)'
    <3>1. \A y : h \notin Is(b, y)
      BY <1>2, <2>2 DEF Is
    <3> QED BY <1>0, <1>3, <2>1, <3>1, OrderHop DEF OrderInv
  <2>3. OrderOf(a)'
    <3>1. Quiet(Life(a))
      BY <1>0, <1>3, <2>1, HopFacts
    <3>2. ASSUME NEW x \in LifeLabel \cup {"idle"}, Stage(a, x)' PROVE Behind(a, x)'
      <4>1. Stage(a, x)
        BY <1>0, <3>1, <3>2 DEF Stage, Quiet
      <4>2. Behind(a, x)
        BY <1>3, <4>1 DEF OrderInv, OrderOf
      <4>3. h \notin Is(a, Past(x))
        BY <1>2, <1>3, <1>4, <4>1, NotPast DEF Is
      <4>4. CASE h \in Is(a, Leaving(x))
        BY <1>0, <1>1, <1>3, <1>4, <4>2, <4>3, <4>4, BehindBack
      <4>5. CASE h \notin Is(a, Leaving(x))
        BY <1>0, <1>3, <2>1, <4>2, <4>3, <4>5, BehindHop
      <4> QED BY <4>4, <4>5
    <3> QED BY <3>2 DEF OrderOf
  <2> QED BY <2>2, <2>3 DEF OrderInv
<1> QED BY <1>5, <1>6

LEMMA DatabaseOrder ==
    ASSUME ShapeInv, LifeInv, LifeInv', OrderInv, Database
    PROVE  OrderInv'
<1>0. MailInv /\ UNCHANGED slot
  BY DEF ShapeInv, Database, gateVars
<1>1. PICK h : Loads(h)
  BY <1>0, DatabaseFlow
<1>2. PICK a : a = h.agent
  OBVIOUS
<1>3. h \in Coroutine /\ Hop(h, h) /\ a \in Agent /\ h.at \in ExtLabel
  BY <1>1, <1>2 DEF Loads, Coroutine
<1>4. InFlight(h) /\ Single(Life(a))
  BY <1>0, <1>3, HopFlying DEF LifeInv, LifeOf
<1>5. h \in Life(a)
  BY <1>2, <1>3 DEF Life, Is, ExtLabel, LifeLabel, OpenLabel, CloseLabel
<1>6. Out(Is(a, Past(h.at)))
  BY <1>3, <1>4, <1>5, StageBehind DEF Behind
<1>7. Free(mbox["log"], Is(a, Leaving(h.at)))
  <2>1. Leaving(h.at) = {}
    BY <1>3 DEF Leaving, ExtLabel
  <2> QED BY <2>1 DEF Free, Is
<1>8. Behind(a, h.at)'
  BY <1>0, <1>3, <1>4, <1>5, <1>6, <1>7, BehindMove
<1> QED BY <1>0, <1>3, <1>5, <1>8, OrderMove

LEMMA OrderInit == Init => OrderInv
<1> SUFFICES ASSUME Init PROVE OrderInv
  OBVIOUS
<1>1. mbox = [s \in Service |-> << >>] /\ ext = {}
  BY DEF Init
<1>2. \A s \in Service : mbox[s] = << >>
  BY <1>1
<1>3. \A B : Out(B) /\ \A s \in Service : Free(mbox[s], B)
  BY <1>1, <1>2 DEF Out, Gone, Free
<1>4. \A s \in Service : \A B, C : Ahead(mbox[s], B, C)
  BY <1>2 DEF Ahead
<1>5. \A a \in Agent : \A x : Behind(a, x)
  BY <1>3, <1>4, Services DEF Behind
<1> QED BY <1>5 DEF OrderInv, OrderOf

LEMMA OrderStep == ShapeInv /\ LifeInv /\ OrderInv /\ [Next]_vars => OrderInv'
<1> SUFFICES ASSUME ShapeInv, LifeInv, OrderInv, [Next]_vars PROVE OrderInv'
  OBVIOUS
<1>0. LifeInv'
  BY LifeStep
<1>1. CASE UNCHANGED vars
  <2>1. UNCHANGED <<mbox, ext, slot>>
    BY <1>1 DEF vars, gateVars
  <2> QED BY <2>1 DEF OrderInv, OrderOf, Stage, InFlight, Behind, Out
<1>2. CASE ServerStep
  <2>1. CASE Logger \/ Database \/ GamedClose \/ Recycle \/ ChatStep
    BY <1>0, <2>1, LoggerOrder, DatabaseOrder, GateOrder, RecycleOrder, ServerOrder
  <2>2. CASE \E a \in Agent : AgentStep(a)
    <3>1. PICK a \in Agent : AgentStep(a)
      BY <2>2
    <3> QED BY <1>0, <3>1, OwnOrder, WelcomeOrder, FrameOrder, GoalOrder DEF AgentStep
  <2> QED BY <1>2, <2>1, <2>2 DEF ServerStep
<1>3. CASE ClientStep
  BY <1>0, <1>3, LoginOrder, ClientOrder, LeaveOrder DEF ClientStep
<1> QED BY <1>1, <1>2, <1>3 DEF Next

LEMMA OrderHolds == Spec => []OrderInv
<1>1. Init => OrderInv
  BY OrderInit
<1>2. ShapeInv /\ LifeInv /\ OrderInv /\ [Next]_vars => OrderInv'
  BY OrderStep
<1> QED BY <1>1, <1>2, ShapeHolds, LifeHolds, PTL DEF Spec

-----------------------------------------------------------------------------
(* Who a chat message is from and for.  What a coroutine reads when it goes*)
(* on is what it would have read when it started.                          *)

Named(m) ==
    /\ m.at \in FrameLabel => cast[m.n].author = chatUser[m.agent]
    /\ m.at = "broadcast" => cast[m.n].author = m.account
    /\ m.at \in GoalLabel /\ user[m.agent] # Nil => user[m.agent] = m.account
NameInv == /\ \A m \in Coroutine : InFlight(m) => Named(m)
           /\ AuthorNamed


LEMMA AuthorStays ==
    ASSUME NameInv, \A n \in Chat : /\ cast'[n].author = cast[n].author
                                    /\ cast'[n].account = cast[n].account
    PROVE  AuthorNamed'
BY DEF NameInv, AuthorNamed

LEMMA NamedStays ==
    ASSUME ShapeInv, NameInv, NEW m \in Coroutine, InFlight(m),
           \A n \in Chat : cast[n].at # "none" => cast'[n].author = cast[n].author,
           m.at \in GoalLabel => user'[m.agent] \in {user[m.agent], Nil},
           m.at \in FrameLabel => chatUser'[m.agent] = chatUser[m.agent]
    PROVE  Named(m)'
<1>1. Named(m) /\ Good(m)
  BY DEF NameInv, ShapeInv, GoodInv
<1>2. m.at \in FrameLabel \cup {"broadcast"} => cast'[m.n].author = cast[m.n].author
  BY <1>1 DEF Good, CastLabel, SentLabel
<1> QED BY <1>1, <1>2 DEF Named

\* A step after which what a coroutine in flight reads is as before.
Steady == /\ \A n \in Chat : cast[n].at # "none" => cast'[n].author = cast[n].author
          /\ \A m \in Coroutine : InFlight(m) =>
                /\ m.at \in GoalLabel => user'[m.agent] \in {user[m.agent], Nil}
                /\ m.at \in FrameLabel => chatUser'[m.agent] = chatUser[m.agent]

LEMMA NamesHop ==
    ASSUME ShapeInv, NameInv, Steady, NEW h, NEW m \in Coroutine, Hop(h, m), Named(m)',
           AuthorNamed'
    PROVE  NameInv'
<1>1. ASSUME NEW x \in Coroutine, InFlight(x)' PROVE Named(x)'
  <2>1. InFlight(x) \/ x = m
    BY <1>1, HopFacts DEF ShapeInv
  <2> QED BY <2>1, NamedStays DEF Steady
<1> QED BY <1>1 DEF NameInv

LEMMA NamesDrop ==
    ASSUME ShapeInv, NameInv, Steady, NEW h, Drop(h), AuthorNamed'
    PROVE  NameInv'
<1>1. ASSUME NEW x \in Coroutine, InFlight(x)' PROVE Named(x)'
  <2>1. InFlight(x)
    BY <1>1, DropFacts DEF ShapeInv
  <2> QED BY <2>1, NamedStays DEF Steady
<1> QED BY <1>1 DEF NameInv

LEMMA NamesGive ==
    ASSUME ShapeInv, NameInv, Steady, NEW m \in Coroutine, Give(m), Named(m)', AuthorNamed'
    PROVE  NameInv'
<1>1. ASSUME NEW x \in Coroutine, InFlight(x)' PROVE Named(x)'
  <2>1. InFlight(x) \/ x = m
    BY <1>1, GiveInFacts DEF ShapeInv
  <2> QED BY <2>1, NamedStays DEF Steady
<1> QED BY <1>1 DEF NameInv

\* Nothing that is read changes.
LEMMA StillSteady ==
    ASSUME UNCHANGED <<user, chatUser>>,
           \A n \in Chat : cast[n].at # "none" => cast'[n].author = cast[n].author
    PROVE  Steady
BY DEF Steady

\* The labels of coroutines that read nothing.
NoName(l) == l \notin FrameLabel \cup GoalLabel \cup {"broadcast"}

LEMMA UnNamed ==
    ASSUME NEW m, NoName(m.at)
    PROVE  Named(m)'
BY DEF NoName, Named

LEMMA RelabelNamed ==
    ASSUME ShapeInv, NameInv, Steady, NEW h \in Coroutine, InFlight(h), NEW m, NEW from,
           NEW to, Relabel(h, m, from, to),
           \/ NoName(to)
           \/ from \in FrameLabel /\ to \in FrameLabel
           \/ from \in GoalLabel /\ to \in GoalLabel
           \/ from = to
    PROVE  Named(m)'
<1>1. Named(h)'
  BY NamedStays DEF Steady
<1>2. h.at = from /\ m.at = to /\ m.agent = h.agent /\ m.account = h.account /\ m.n = h.n
  BY DEF Relabel
<1>3. NoName(to) => Named(m)'
  BY <1>2, UnNamed
<1>4. FrameLabel \cap GoalLabel = {} /\ "broadcast" \notin FrameLabel \cup GoalLabel
  BY DEF FrameLabel, GoalLabel
<1> QED BY <1>1, <1>2, <1>3, <1>4 DEF Named

LEMMA FlowNames ==
    ASSUME ShapeInv, NameInv, Steady, AuthorNamed', NEW s, NEW from, NEW t, NEW to,
           Flow(s, from, t, to),
           \/ NoName(to)
           \/ from \in FrameLabel /\ to \in FrameLabel
           \/ from \in GoalLabel /\ to \in GoalLabel
    PROVE  NameInv'
<1>1. PICK h, m : Hop(h, m) /\ Relabel(h, m, from, to)
  BY DEF Flow, Put
<1>2. h \in Coroutine /\ m \in Coroutine /\ InFlight(h)
  BY <1>1, HopFlying DEF Relabel, ShapeInv
<1>3. Named(m)'
  BY <1>1, <1>2, RelabelNamed
<1> QED BY <1>1, <1>2, <1>3, NamesHop

LEMMA WaitNames ==
    ASSUME ShapeInv, NameInv, Steady, AuthorNamed', NEW a, NEW from, NEW to,
           Wait(a, from, to), NoName(to)
    PROVE  NameInv'
<1>1. PICK h, m : Hop(h, m) /\ Relabel(h, m, from, to)
  BY DEF Wait
<1>2. m \in Coroutine /\ m.at = to
  BY <1>1 DEF Relabel
<1> QED BY <1>1, <1>2, UnNamed, NamesHop

\* Only the life of a changes what its coroutines read.
LEMMA LifeNames ==
    ASSUME ShapeInv, LifeInv, OrderInv, NameInv, NEW a \in Agent,
           \/ AgentOpen(a) \/ Loaded(a) \/ Opened(a) \/ Register(a) \/ Welcome(a)
           \/ AgentClose(a) \/ Closing(a) \/ Saved(a) \/ CloseFinish(a)
    PROVE  NameInv'
<1>0. MailInv /\ AgentOK /\ UNCHANGED cast /\ AuthorNamed'
  BY AuthorStays DEF ShapeInv, DataOK, AgentOpen, Loaded, Opened, Register, Welcome,
     AgentClose, Closing, Saved, CloseFinish, chatVars
<1>1. /\ NoName("loaded") /\ NoName("opened") /\ NoName("register") /\ NoName("online")
      /\ NoName("closing") /\ NoName("saved") /\ NoName("offline") /\ NoName("gamed_close")
  BY DEF NoName, FrameLabel, GoalLabel
<1>2. CASE Opened(a)
  <2>1. Flow(a, "opened", "log", "register") /\ "opened" \in LifeLabel /\ "register" \in LifeLabel
    BY <1>0, <1>2, AgentSends DEF LifeLabel, OpenLabel
  <2>2. PICK h : h = Cur(a) /\ h \in Life(a) /\ h.at = "opened" /\ \E m : Hop(h, m)
    BY <2>1, FlowLife, Services
  <2>3. InFlight(h)
    BY <1>0, <2>2, HopFlying
  <2>4. Out(Is(a, Past("opened")))
    BY <2>2, <2>3, StageBehind DEF Behind
  <2>5. GoalLabel \subseteq Past("opened")
    BY DEF Past, TakenBy, GoalLabel
  <2>6. \A m \in Coroutine : InFlight(m) /\ m.at \in GoalLabel => m.agent # a
    BY <2>4, <2>5, OutFlying DEF Is
  <2>7. user' = [user EXCEPT ![a] = Cur(a).account] /\ chatUser' = chatUser
    BY <1>2 DEF Opened
  <2>8. \A b \in Agent : b # a => user'[b] = user[b]
    BY <1>0, <2>7 DEF AgentOK
  <2>9. \A m \in Coroutine : m.agent \in Agent
    BY DEF Coroutine
  <2>10. Steady
    BY <1>0, <2>6, <2>7, <2>8, <2>9 DEF Steady
  <2> QED BY <1>0, <1>1, <2>1, <2>10, FlowNames
<1>3. CASE Register(a)
  <2>1. Flow(a, "register", "chat", "online") /\ "register" \in LifeLabel /\ "online" \in LifeLabel
    BY <1>0, <1>3, AgentSends DEF LifeLabel, OpenLabel
  <2>2. PICK h : h = Cur(a) /\ h \in Life(a) /\ h.at = "register" /\ \E m : Hop(h, m)
    BY <2>1, FlowLife, Services
  <2>3. InFlight(h)
    BY <1>0, <2>2, HopFlying
  <2>4. Out(Is(a, Past("register")))
    BY <2>2, <2>3, StageBehind DEF Behind
  <2>5. FrameLabel \subseteq Past("register")
    BY DEF Past, TakenBy, FrameLabel
  <2>6. \A m \in Coroutine : InFlight(m) /\ m.at \in FrameLabel => m.agent # a
    BY <2>4, <2>5, OutFlying DEF Is
  <2>7. chatUser' = [chatUser EXCEPT ![a] = user[a]] /\ user' = user
    BY <1>3 DEF Register
  <2>8. \A b \in Agent : b # a => chatUser'[b] = chatUser[b]
    BY <1>0, <2>7 DEF AgentOK
  <2>9. \A m \in Coroutine : m.agent \in Agent
    BY DEF Coroutine
  <2>10. Steady
    BY <1>0, <2>6, <2>7, <2>8, <2>9 DEF Steady
  <2> QED BY <1>0, <1>1, <2>1, <2>10, FlowNames
<1>4. CASE CloseFinish(a)
  <2>1. Flow(a, "close_finish", "gate", "gamed_close")
    BY <1>0, <1>4, AgentSends
  <2>2. user' = [user EXCEPT ![a] = Nil] /\ chatUser' = chatUser
    BY <1>4 DEF CloseFinish
  <2>3. \A b \in Agent : user'[b] \in {user[b], Nil}
    BY <1>0, <2>2 DEF AgentOK
  <2>4. \A m \in Coroutine : m.agent \in Agent
    BY DEF Coroutine
  <2>5. Steady
    BY <1>0, <2>2, <2>3, <2>4 DEF Steady
  <2> QED BY <1>0, <1>1, <2>1, <2>5, FlowNames
<1>5. CASE Loaded(a) \/ AgentClose(a) \/ Saved(a)
  <2>1. \/ Flow(a, "loaded", "log", "opened")
        \/ Flow(a, "agent_close", "log", "closing")
        \/ Flow(a, "saved", "chat", "offline")
    BY <1>0, <1>5, AgentSends
  <2>2. Steady
    BY <1>0, <1>5, StillSteady DEF Loaded, AgentClose, Saved, agentVars
  <2> QED BY <1>0, <1>1, <2>1, <2>2, FlowNames
<1>6. CASE AgentOpen(a) \/ Closing(a)
  <2>1. Wait(a, "agent_open", "loaded") \/ Wait(a, "closing", "saved")
    BY <1>0, <1>6, AgentWaits
  <2>2. Steady
    BY <1>0, <1>6, StillSteady DEF AgentOpen, Closing, agentVars
  <2> QED BY <1>0, <1>1, <2>1, <2>2, WaitNames
<1>7. CASE Welcome(a)
  <2>1. Ends(a, "welcome")
    BY <1>0, <1>7, AgentWaits
  <2>2. Steady
    BY <1>0, <1>7, StillSteady DEF Welcome, agentVars
  <2> QED BY <1>0, <2>1, <2>2, NamesDrop DEF Ends
<1> QED BY <1>2, <1>3, <1>4, <1>5, <1>6, <1>7

\* The account a message goes out for is read at the end of the frame.
LEMMA FrameNames ==
    ASSUME ShapeInv, NameInv, NEW a \in Agent,
           Rpc(a) \/ RpcDump(a) \/ RpcWorldChat(a) \/ RpcSend(a) \/ RpcRet(a)
    PROVE  NameInv'
<1>0. MailInv /\ Steady /\ AuthorNamed' /\ UNCHANGED cast
  BY AuthorStays, StillSteady DEF ShapeInv, Rpc, RpcDump, RpcWorldChat, RpcSend, RpcRet,
     agentVars, chatVars
<1>1. CASE Rpc(a) \/ RpcDump(a) \/ RpcWorldChat(a)
  <2>1. \/ Flow(a, "rpc", "log", "rpc_dump")
        \/ Flow(a, "rpc_dump", "log", "rpc_chat")
        \/ Flow(a, "rpc_chat", "log", "rpc_send")
    BY <1>0, <1>1, FrameSends
  <2> QED BY <1>0, <2>1, FlowNames DEF FrameLabel
<1>2. CASE RpcSend(a)
  <2>1. PICK h, m : h = Cur(a) /\ m = Co("broadcast", a, chatUser[a], h.n)
    OBVIOUS
  <2>2. Put(a, "chat", m) /\ h.at = "rpc_send"
    BY <1>2, <2>1, RpcSendFlow
  <2>3. h \in Coroutine /\ m \in Coroutine /\ Hop(h, m) /\ h.agent = a
    BY <2>1, <2>2, Places DEF Put, Heads
  <2>4. Named(h)
    BY <1>0, <2>3, HopFlying DEF NameInv
  <2>5. cast[h.n].author = chatUser[a]
    BY <2>2, <2>3, <2>4 DEF Named, FrameLabel
  <2>6. m.at = "broadcast" /\ m.account = chatUser[a] /\ m.n = h.n
    BY <2>1 DEF Co
  <2>7. Named(m)'
    BY <1>0, <2>5, <2>6 DEF Named, FrameLabel, GoalLabel
  <2> QED BY <1>0, <2>3, <2>7, NamesHop
<1>3. CASE RpcRet(a)
  <2>1. Ends(a, "rpc_ret")
    BY <1>0, <1>3, AgentWaits
  <2> QED BY <1>0, <2>1, NamesDrop DEF Ends
<1> QED BY <1>1, <1>2, <1>3

LEMMA GoalNames ==
    ASSUME ShapeInv, NameInv, NEW a \in Agent,
           ChatWorld(a) \/ Request(a) \/ Write(a) \/ RequestFailed(a)
    PROVE  NameInv'
<1>0. MailInv /\ Steady /\ AuthorNamed'
  BY AuthorStays, StillSteady DEF ShapeInv, ChatWorld, Request, Write, RequestFailed,
     agentVars, chatVars
<1>1. \/ Flow(a, "chat_world", "log", "request")
      \/ Flow(a, "chat_world", "chat", "next")
      \/ Flow(a, "request", "log", "write")
      \/ Flow(a, "request", "chat", "next")
      \/ Flow(a, "write", "chat", "next")
  BY <1>0, GoalSends
<1>2. NoName("next")
  BY DEF NoName, FrameLabel, GoalLabel
<1> QED BY <1>0, <1>1, <1>2, FlowNames DEF GoalLabel

LEMMA BroadcastNames ==
    ASSUME ShapeInv, NameInv, Broadcast
    PROVE  NameInv'
<1>1. Flow("chat", "broadcast", "log", "begin")
  BY BroadcastFlow DEF ShapeInv
<1>2. PICK h : h = Cur("chat")
  OBVIOUS
<1>3. h \in Coroutine /\ InFlight(h) /\ h.at = "broadcast"
  BY <1>1, <1>2, HeadFlying, Services DEF Flow, Put, Heads, Relabel, ShapeInv
<1>4. Good(h) /\ Named(h)
  BY <1>3 DEF ShapeInv, GoodInv, NameInv
<1>5. h.n \in Chat /\ cast[h.n].author = h.account
  BY <1>3, <1>4 DEF Good, Named, CastLabel, SentLabel
<1>6. cast' = [cast EXCEPT ![h.n].account = h.account, ![h.n].from = h.agent]
  BY <1>2 DEF Broadcast
<1>7. cast \in [Chat -> CastType]
  BY DEF ShapeInv, DataOK, CastOK
<1>8. ASSUME NEW n \in Chat
      PROVE  /\ cast'[n].author = cast[n].author
             /\ cast'[n].account = IF n = h.n THEN h.account ELSE cast[n].account
  BY <1>5, <1>6, <1>7 DEF CastType
<1>9. AuthorNamed'
  BY <1>5, <1>8 DEF NameInv, AuthorNamed
<1>10. Steady
  BY <1>8, StillSteady DEF Broadcast, agentVars
<1>11. NoName("begin")
  BY DEF NoName, FrameLabel, GoalLabel
<1> QED BY <1>1, <1>9, <1>10, <1>11, FlowNames

\* The agent that is called serves the account.
LEMMA VisitNames ==
    ASSUME ShapeInv, LifeInv, NameInv, NEW from \in {"begin", "next"}, NEW n, NEW b,
           NEW todo, NEW steady, Visiting(from, n, b, todo, steady)
    PROVE  NameInv'
<1>1. PICK a, m : a = onlineTab[b] /\ m = Co("chat_world", a, b, n)
  OBVIOUS
<1>2. /\ At("chat", from) /\ n = Cur("chat").n /\ b \in Account /\ onlineTab[b] # Nil
      /\ todo \in SUBSET Account /\ steady \in SUBSET Account
      /\ Visit(n, [cast[n] EXCEPT !.todo = todo, !.steady = steady], b)
  BY DEF Visiting
<1>3. a \in Agent /\ Put("chat", a, m)
  BY <1>1, <1>2, VisitFlow
<1>4. /\ \A k \in Chat : k # n => cast'[k] = cast[k]
      /\ cast'[n].author = cast[n].author /\ cast'[n].account = cast[n].account
  <2>1. Others(n) /\ Visited(n, b, todo, steady)
    BY <1>2, VisitFlow
  <2> QED BY <2>1 DEF Others, Visited
<1>5. AuthorNamed' /\ Steady
  <2>1. \A k \in Chat : /\ cast'[k].author = cast[k].author
                        /\ cast'[k].account = cast[k].account
    BY <1>4
  <2> QED BY <1>2, <2>1, AuthorStays, StillSteady DEF Visit, agentVars
<1>6. user'[a] = b
  BY <1>1, <1>2, <1>3, OnTable DEF Serving, Visit, agentVars
<1>7. m.at = "chat_world" /\ m.agent = a /\ m.account = b
  BY <1>1 DEF Co
<1>8. Named(m)'
  BY <1>6, <1>7 DEF Named, FrameLabel
<1> QED BY <1>3, <1>5, <1>8, NamesHop DEF Put

LEMMA AnswerNames ==
    ASSUME ShapeInv, NameInv, NEW from \in {"begin", "next"}, NEW n, NEW at,
           Answering(from, n, at)
    PROVE  NameInv'
<1>1. PICK m : m = Co("rpc_ret", cast[n].from, Nil, n)
  OBVIOUS
<1>2. /\ At("chat", from) /\ n = Cur("chat").n /\ at \in {"done", "failed"} /\ End(n, at)
  BY DEF Answering
<1>3. Put("chat", cast[n].from, m)
  BY <1>1, <1>2, AnswerFlow
<1>4. /\ \A k \in Chat : k # n => cast'[k] = cast[k]
      /\ cast'[n] = [cast[n] EXCEPT !.at = at] /\ cast[n] \in CastType
  <2>1. Others(n) /\ Answered(n, at)
    BY <1>2, AnswerFlow
  <2>2. cast[n] \in CastType
    BY <1>2, ServerHead
  <2> QED BY <2>1, <2>2 DEF Others, Answered
<1>5. \A k \in Chat : /\ cast'[k].author = cast[k].author
                      /\ cast'[k].account = cast[k].account
  BY <1>4 DEF CastType
<1>6. AuthorNamed' /\ Steady
  BY <1>2, <1>5, AuthorStays, StillSteady DEF End, agentVars
<1>7. NoName(m.at)
  BY <1>1 DEF Co, NoName, FrameLabel, GoalLabel
<1> QED BY <1>3, <1>6, <1>7, UnNamed, NamesHop DEF Put

LEMMA TableNames ==
    ASSUME ShapeInv, LifeInv, NameInv, Online \/ Offline
    PROVE  NameInv'
<1>1. NoName("welcome") /\ NoName("close_finish")
  BY DEF NoName, FrameLabel, GoalLabel
<1>2. \A n \in Chat : /\ cast'[n].author = cast[n].author
                      /\ cast'[n].account = cast[n].account
  <2>1. CASE Offline
    BY <2>1 DEF Offline
  <2>2. CASE Online
    <3>1. Insert(onlineTab')
      BY <2>2, OnlineTable
    <3>2. CastOK
      BY DEF ShapeInv, DataOK
    <3>3. \A n \in Chat : cast'[n] = cast[n] \/ Shaken(cast[n], cast'[n])
      BY <3>1, <3>2, InsertCast
    <3> QED BY <3>2, <3>3, ShakenKeeps DEF CastOK
  <2> QED BY <2>1, <2>2
<1>3. AuthorNamed' /\ Steady
  BY <1>2, AuthorStays, StillSteady DEF Online, Offline, agentVars
<1>4. \/ Flow("chat", "online", Cur("chat").agent, "welcome")
      \/ Flow("chat", "offline", Cur("chat").agent, "close_finish")
  BY TableFlow DEF ShapeInv
<1> QED BY <1>1, <1>3, <1>4, FlowNames

LEMMA ServerNames ==
    ASSUME ShapeInv, LifeInv, NameInv, ChatStep
    PROVE  NameInv'
BY BeginVisits, NextVisits, VisitNames, Answers, AnswerNames, BroadcastNames, TableNames
   DEF ChatStep

LEMMA ReturnNames ==
    ASSUME ShapeInv, NameInv, Logger \/ Database \/ GamedClose \/ Recycle
    PROVE  NameInv'
<1>0. MailInv /\ Steady /\ AuthorNamed'
  BY AuthorStays, StillSteady DEF ShapeInv, Logger, Database, GamedClose, Recycle,
     agentVars, chatVars
<1>1. CASE Logger \/ Database
  <2>1. \E h \in Coroutine : Hop(h, h)
    <3>1. CASE Logger
      BY <1>0, <3>1, LoggerFlow DEF Back
    <3>2. CASE Database
      BY <1>0, <3>2, DatabaseFlow DEF Loads
    <3> QED BY <1>1, <3>1, <3>2
  <2>2. PICK h \in Coroutine : Hop(h, h)
    BY <2>1
  <2>3. InFlight(h)
    BY <1>0, <2>2, HopFlying
  <2>4. Named(h)'
    BY <1>0, <2>3, NamedStays DEF Steady
  <2> QED BY <1>0, <2>2, <2>4, NamesHop
<1>2. CASE GamedClose
  <2>1. Flow("gate", "gamed_close", "log", "recycle")
    BY <1>0, <1>2, GateFlows
  <2>2. NoName("recycle")
    BY DEF NoName, FrameLabel, GoalLabel
  <2> QED BY <1>0, <2>1, <2>2, FlowNames
<1>3. CASE Recycle
  <2>1. Ends("gate", "recycle")
    BY <1>0, <1>3, GateFlows
  <2> QED BY <1>0, <2>1, NamesDrop DEF Ends
<1> QED BY <1>1, <1>2, <1>3

\* The client that writes is the one of the account its agent serves.
LEMMA ClientNames ==
    ASSUME ShapeInv, LifeInv, NameInv, NEW a \in Agent, NEW n \in Chat, ClientChat(a, n)
    PROVE  NameInv'
<1>1. PICK m : m = Co("rpc", a, Nil, n)
  OBVIOUS
<1>2. /\ m \in Coroutine /\ Give(m) /\ m.at = "rpc" /\ m.agent = a /\ m.n = n
  BY <1>1, ClientPost DEF Co
<1>3. /\ \A k \in Chat : k # n => cast'[k] = cast[k]
      /\ cast'[n] = [cast[n] EXCEPT !.at = "sent", !.author = slot[a].account]
      /\ cast'[n].author = slot[a].account
  BY ClientPost
<1>4. cast[n] = NoCast /\ slot[a].at = "forwarded" /\ UNCHANGED <<user, chatUser>>
  BY DEF ClientChat, agentVars
<1>5. cast[n].at = "none" /\ cast'[n].account = Nil
  BY <1>3, <1>4 DEF NoCast
<1>6. Steady
  <2>1. \A k \in Chat : cast[k].at # "none" => cast'[k].author = cast[k].author
    BY <1>3, <1>5
  <2> QED BY <1>4, <2>1, StillSteady
<1>7. AuthorNamed'
  <2>1. ASSUME NEW k \in Chat, cast'[k].account # Nil
        PROVE  cast'[k].account = cast'[k].author
    <3>1. cast'[k] = cast[k]
      BY <1>3, <1>5, <2>1
    <3> QED BY <2>1, <3>1 DEF NameInv, AuthorNamed
  <2> QED BY <2>1 DEF AuthorNamed
<1>8. chatUser[a] = slot[a].account
  BY <1>4, NoLife DEF Still, Serving, Idle
<1>9. Named(m)'
  BY <1>2, <1>3, <1>4, <1>8 DEF Named, GoalLabel
<1> QED BY <1>2, <1>6, <1>7, <1>9, NamesGive

LEMMA GateNames ==
    ASSUME ShapeInv, NameInv,
           \/ \E account \in Account : Login(account)
           \/ \E a \in Agent : Leave(a)
    PROVE  NameInv'
<1>1. ASSUME NEW account \in Account, Login(account) PROVE NameInv'
  <2>1. PICK m \in Coroutine : Give(m) /\ m.at = "agent_open"
    <3>1. PICK a \in Agent : /\ Co("agent_open", a, account, 0) \in Coroutine
                             /\ Give(Co("agent_open", a, account, 0))
      BY <1>1, LoginPost
    <3> QED BY <3>1 DEF Co
  <2>2. NoName(m.at)
    BY <2>1 DEF NoName, FrameLabel, GoalLabel
  <2>3. Steady /\ AuthorNamed'
    BY <1>1, AuthorStays, StillSteady DEF Login, agentVars, chatVars
  <2> QED BY <2>1, <2>2, <2>3, UnNamed, NamesGive
<1>2. ASSUME NEW a \in Agent, Leave(a) PROVE NameInv'
  <2>1. PICK m \in Coroutine : Give(m) /\ m.at = "agent_close"
    BY <1>2, LeavePost DEF Co
  <2>2. NoName(m.at)
    BY <2>1 DEF NoName, FrameLabel, GoalLabel
  <2>3. Steady /\ AuthorNamed'
    BY <1>2, LeaveKeeps, AuthorStays, StillSteady DEF Leave, agentVars
  <2> QED BY <2>1, <2>2, <2>3, UnNamed, NamesGive
<1> QED BY <1>1, <1>2

LEMMA NameInit == Init => NameInv
<1> SUFFICES ASSUME Init PROVE NameInv
  OBVIOUS
<1>1. \A m : ~ InFlight(m)
  BY DEF Init, InFlight, Flying
<1>2. AuthorNamed
  BY DEF Init, AuthorNamed, NoCast
<1> QED BY <1>1, <1>2 DEF NameInv

LEMMA NameStep == ShapeInv /\ LifeInv /\ OrderInv /\ NameInv /\ [Next]_vars => NameInv'
<1> SUFFICES ASSUME ShapeInv, LifeInv, OrderInv, NameInv, [Next]_vars PROVE NameInv'
  OBVIOUS
<1>1. CASE UNCHANGED vars
  <2>1. UNCHANGED <<mbox, ext, user, chatUser, cast>>
    BY <1>1 DEF vars, agentVars, chatVars
  <2> QED BY <2>1 DEF NameInv, InFlight, Named, AuthorNamed
<1>2. CASE ServerStep
  <2>1. CASE Logger \/ Database \/ GamedClose \/ Recycle \/ ChatStep
    BY <2>1, ReturnNames, ServerNames
  <2>2. CASE \E a \in Agent : AgentStep(a)
    <3>1. PICK a \in Agent : AgentStep(a)
      BY <2>2
    <3> QED BY <3>1, LifeNames, FrameNames, GoalNames DEF AgentStep
  <2> QED BY <1>2, <2>1, <2>2 DEF ServerStep
<1>3. CASE ClientStep
  BY <1>3, GateNames, ClientNames DEF ClientStep
<1> QED BY <1>1, <1>2, <1>3 DEF Next

LEMMA NameHolds == Spec => []NameInv
<1>1. Init => NameInv
  BY NameInit
<1>2. ShapeInv /\ LifeInv /\ OrderInv /\ NameInv /\ [Next]_vars => NameInv'
  BY NameStep
<1> QED BY <1>1, <1>2, ShapeHolds, LifeHolds, OrderHolds, PTL DEF Spec

\* A message goes out for the account whose client wrote it (Chat!AuthorNamed): the
\* agent is not opened for another account while a frame of its client is under way,
\* since the life of the agent stays behind the frame in every mailbox.
THEOREM AuthorNamedHolds == Spec => []AuthorNamed
<1>1. NameInv => AuthorNamed
  BY DEF NameInv
<1> QED BY <1>1, NameHolds, PTL

\* A message is received only when it is written.
LEMMA OnlyWrite ==
    ASSUME [Next]_vars
    PROVE  UNCHANGED received \/ \E a \in Agent : Write(a)
<1>1. CASE UNCHANGED vars
  BY <1>1 DEF vars, chatVars
<1>2. CASE ChatStep
  BY <1>2 DEF ChatStep, Online, Offline, Broadcast, BeginFailed, Begin, NextKey, NextEnd,
     NextFailed, End, Visit
<1>3. CASE Logger \/ Database \/ GamedClose \/ Recycle
  BY <1>3 DEF Logger, Database, GamedClose, Recycle, chatVars
<1>4. ASSUME NEW a \in Agent, AgentStep(a), ~ Write(a) PROVE UNCHANGED received
  BY <1>4 DEF AgentStep, AgentOpen, Loaded, Opened, Register, Welcome, AgentClose, Closing,
     Saved, CloseFinish, Rpc, RpcDump, RpcWorldChat, RpcSend, RpcRet, ChatWorld, Request,
     RequestFailed, chatVars
<1>5. CASE ClientStep
  BY <1>5 DEF ClientStep, Login, ClientChat, Leave, chatVars
<1> QED BY <1>1, <1>2, <1>3, <1>4, <1>5 DEF Next, ServerStep

\* A message is written to the account it was sent to (Chat!RightUser), however late
\* the agent reads its user: it has none, or still the same one.
THEOREM RightUserHolds == Spec => RightUser
<1> DEFINE Right == \A n \in Chat, account \in Account :
              received'[n][account] # received[n][account] =>
                  \E a \in Agent : At(a, "write") /\ Cur(a).n = n
                                    /\ Cur(a).account = account
<1>1. ASSUME ShapeInv, NameInv, [Next]_vars PROVE [Right]_vars
  <2>1. CASE UNCHANGED received
    BY <2>1
  <2>2. ASSUME NEW a \in Agent, Write(a) PROVE Right
    <3>1. PICK h : h = Cur(a)
      OBVIOUS
    <3>2. MailInv /\ At(a, "write") /\ user[a] # Nil
      BY <1>1, <2>2 DEF Write, ShapeInv
    <3>3. Heads(a) /\ h.at = "write"
      BY <3>1, <3>2, AtHead, Services
    <3>4. h \in Coroutine /\ InFlight(h) /\ h.agent = a
      BY <3>1, <3>2, <3>3, HeadFlying, Places, Services DEF Heads
    <3>5. h.account = user[a]
      BY <1>1, <3>2, <3>3, <3>4 DEF NameInv, Named, GoalLabel
    <3>6. received' = [received EXCEPT ![h.n][user[a]] = @ + 1]
      BY <2>2, <3>1 DEF Write
    <3>7. received \in [Chat -> [Account -> Nat]]
      BY <1>1 DEF ShapeInv, DataOK
    <3>8. ASSUME NEW n \in Chat, NEW account \in Account,
                 received'[n][account] # received[n][account]
          PROVE  h.n = n /\ h.account = account
      BY <3>5, <3>6, <3>7, <3>8
    <3> QED BY <3>1, <3>2, <3>8
  <2>3. UNCHANGED received \/ \E a \in Agent : Write(a)
    BY <1>1, OnlyWrite
  <2> QED BY <2>1, <2>2, <2>3
<1>2. [](ShapeInv /\ NameInv) /\ [][Next]_vars => [][Right]_vars
  BY <1>1, PTL
<1>3. Spec => [][Right]_vars
  BY <1>2, ShapeHolds, NameHolds, PTL DEF Spec
<1> QED BY <1>3 DEF RightUser

-----------------------------------------------------------------------------
(* The broadcasts.  What a step does to them: most steps have no part in   *)
(* them, or send one on.                                                   *)

Of(n, labels) == {m \in Coroutine : m.n = n /\ m.at \in labels}
Apart == \A n, L : L \subseteq CastLabel => Quiet(Of(n, L))

\* No broadcast changes, but for who asked for it.
SameCasts == \A n \in Chat :
    /\ cast'[n].at = cast[n].at /\ cast'[n].todo = cast[n].todo
    /\ cast'[n].cur = cast[n].cur /\ cast'[n].steady = cast[n].steady
    /\ cast'[n].disturbed = cast[n].disturbed /\ cast'[n].lost = cast[n].lost

\* A step of something else, that closes no agent.
Passing == /\ Apart /\ UNCHANGED <<cast, received, onlineTab>>
           /\ \A a \in Agent : slot'[a].at = "closed" => slot[a].at = "closed"

\* A frame or a call goes on.
Moves(h, m) ==
    /\ Hop(h, m) /\ m.n = h.n
    /\ \/ h.at \in SentLabel /\ m.at \in SentLabel
       \/ /\ h.at \in GoalLabel /\ m.at \in GoalLabel
          /\ m.agent = h.agent /\ m.account = h.account
    /\ SameCasts /\ UNCHANGED <<received, onlineTab, slot>>
Moving == \E h, m \in Coroutine : Moves(h, m)

\* A call is answered: the message was written, or the agent could not.
Wrote(h)  == /\ received' = [received EXCEPT ![h.n][user[h.agent]] = @ + 1]
             /\ user[h.agent] # Nil
Missed(h) == /\ received' = received
             /\ user[h.agent] = Nil \/ ~ cmds[h.agent]
Returns(h, m) ==
    /\ Hop(h, m) /\ m.n = h.n /\ h.at \in GoalLabel /\ m.at = "next"
    /\ Wrote(h) \/ Missed(h)
    /\ UNCHANGED <<cast, onlineTab, slot>>
Returning == \E h, m \in Coroutine : Returns(h, m)

Visits ==
    \/ \E n, b : Visiting("begin", n, b, Present, Staying)
    \/ \E n, b : /\ Visiting("next", n, b, cast[n].todo, cast[n].steady)
                 /\ ~ cast[n].lost
Ending ==
    \/ \E n : Answering("begin", n, "failed") \/ Answering("next", n, "failed")
    \/ \E n : /\ Answering("next", n, "done") /\ ~ cast[n].lost
              /\ Rest(cast[n]) = {}

LEMMA ApartHop ==
    ASSUME MailInv, NEW h \in Coroutine, NEW m \in Coroutine, Hop(h, m),
           h.at \notin CastLabel, m.at \notin CastLabel
    PROVE  Apart
<1>1. ASSUME NEW n, NEW L, L \subseteq CastLabel PROVE Quiet(Of(n, L))
  <2>1. h \notin Of(n, L) /\ m \notin Of(n, L)
    BY <1>1 DEF Of
  <2> QED BY <2>1, HopFacts
<1> QED BY <1>1 DEF Apart

LEMMA ApartDrop ==
    ASSUME MailInv, NEW h \in Coroutine, Drop(h), h.at \notin CastLabel
    PROVE  Apart
<1>1. ASSUME NEW n, NEW L, L \subseteq CastLabel PROVE Quiet(Of(n, L))
  <2>1. h \notin Of(n, L)
    BY <1>1 DEF Of
  <2> QED BY <2>1, DropFacts
<1> QED BY <1>1 DEF Apart

LEMMA ApartGive ==
    ASSUME MailInv, NEW m \in Coroutine, Give(m), m.at \notin CastLabel
    PROVE  Apart
<1>1. ASSUME NEW n, NEW L, L \subseteq CastLabel PROVE Quiet(Of(n, L))
  <2>1. m \notin Of(n, L)
    BY <1>1 DEF Of
  <2> QED BY <2>1, GiveInFacts
<1> QED BY <1>1 DEF Apart

LEMMA LifeApart ==
    ASSUME NEW l, l \in LifeLabel \cup {"rpc_ret"}
    PROVE  l \notin CastLabel
BY DEF CastLabel, SentLabel, FrameLabel, CalledLabel, GoalLabel, LifeLabel, OpenLabel, CloseLabel

LEMMA FlowApart ==
    ASSUME MailInv, NEW s, NEW from \in LifeLabel, NEW t, NEW to \in LifeLabel,
           Flow(s, from, t, to) \/ Wait(s, from, to)
    PROVE  Apart
<1>1. PICK h, m : Hop(h, m) /\ Relabel(h, m, from, to)
  BY DEF Flow, Put, Wait
<1> QED BY <1>1, ApartHop, LifeApart DEF Relabel

LEMMA EndsApart ==
    ASSUME MailInv, NEW s, NEW from \in LifeLabel \cup {"rpc_ret"}, Ends(s, from)
    PROVE  Apart
BY ApartDrop, LifeApart DEF Ends, Heads

LEMMA LifePassing ==
    ASSUME ShapeInv, NEW a \in Agent,
           \/ AgentOpen(a) \/ Loaded(a) \/ Opened(a) \/ Register(a) \/ Welcome(a)
           \/ AgentClose(a) \/ Closing(a) \/ Saved(a) \/ CloseFinish(a) \/ RpcRet(a)
    PROVE  Passing
<1>0. MailInv
  BY DEF ShapeInv
<1>1. UNCHANGED <<cast, received, onlineTab>>
  BY DEF AgentOpen, Loaded, Opened, Register, Welcome, AgentClose, Closing, Saved,
         CloseFinish, RpcRet, chatVars
<1>2. \A b \in Agent : slot'[b].at = "closed" => slot[b].at = "closed"
  <2>1. CASE Welcome(a)
    <3>1. slot' = [slot EXCEPT ![a].at = "forwarded"] /\ GateOK
      BY <2>1 DEF Welcome, ShapeInv, DataOK
    <3> QED BY <3>1 DEF GateOK
  <2>2. CASE ~ Welcome(a)
    BY <2>2 DEF AgentOpen, Loaded, Opened, Register, AgentClose, Closing, Saved,
                CloseFinish, RpcRet, gateVars
  <2> QED BY <2>1, <2>2
<1>3. Apart
  <2>1. /\ "agent_open" \in LifeLabel /\ "loaded" \in LifeLabel /\ "opened" \in LifeLabel
        /\ "register" \in LifeLabel /\ "online" \in LifeLabel /\ "welcome" \in LifeLabel
        /\ "agent_close" \in LifeLabel /\ "closing" \in LifeLabel /\ "saved" \in LifeLabel
        /\ "offline" \in LifeLabel /\ "close_finish" \in LifeLabel
        /\ "gamed_close" \in LifeLabel
    BY DEF LifeLabel, OpenLabel, CloseLabel
  <2>2. CASE AgentOpen(a) \/ Closing(a)
    BY <1>0, <2>1, <2>2, AgentWaits, FlowApart
  <2>3. CASE Welcome(a) \/ RpcRet(a)
    BY <1>0, <2>1, <2>3, AgentWaits, EndsApart
  <2>4. CASE \/ Loaded(a) \/ Opened(a) \/ Register(a) \/ AgentClose(a) \/ Saved(a)
             \/ CloseFinish(a)
    BY <1>0, <2>1, <2>4, AgentSends, FlowApart
  <2> QED BY <2>2, <2>3, <2>4
<1> QED BY <1>1, <1>2, <1>3 DEF Passing

LEMMA GatePassing ==
    ASSUME ShapeInv,
           GamedClose \/ Recycle \/ Database \/ \E account \in Account : Login(account)
    PROVE  Passing
<1>0. MailInv /\ GateOK
  BY DEF ShapeInv, DataOK
<1>1. UNCHANGED <<cast, received, onlineTab>>
  BY DEF GamedClose, Recycle, Database, Login, chatVars
<1>2. CASE GamedClose
  <2>1. Flow("gate", "gamed_close", "log", "recycle")
    BY <1>0, <1>2, GateFlows
  <2>2. "gamed_close" \in LifeLabel /\ "recycle" \in LifeLabel
    BY DEF LifeLabel, CloseLabel
  <2> QED BY <1>0, <1>1, <1>2, <2>1, <2>2, FlowApart DEF Passing, GamedClose, gateVars
<1>3. CASE Recycle
  <2>1. Ends("gate", "recycle") /\ "recycle" \in LifeLabel
    BY <1>0, <1>3, GateFlows DEF LifeLabel, CloseLabel
  <2>2. \A a \in Agent : slot'[a].at = "closed" => slot[a].at = "closed"
    BY <1>0, <1>3 DEF Recycle, GateOK, Idle
  <2> QED BY <1>0, <1>1, <2>1, <2>2, EndsApart DEF Passing
<1>4. CASE Database
  <2>1. PICK h : h \in Coroutine /\ h.at \in ExtLabel /\ Hop(h, h)
    BY <1>0, <1>4, DatabaseFlow DEF Loads
  <2>2. h.at \in LifeLabel
    BY <2>1 DEF ExtLabel, LifeLabel, OpenLabel, CloseLabel
  <2>3. Apart
    BY <1>0, <2>1, <2>2, ApartHop, LifeApart
  <2> QED BY <1>1, <1>4, <2>3 DEF Passing, Database, gateVars
<1>5. ASSUME NEW account \in Account, Login(account) PROVE Passing
  <2>1. PICK a \in Agent :
           /\ slot' = [slot EXCEPT ![a] = [account |-> account, at |-> "login"]]
           /\ Co("agent_open", a, account, 0) \in Coroutine
           /\ Give(Co("agent_open", a, account, 0))
    BY <1>5, LoginPost
  <2>2. PICK m : m = Co("agent_open", a, account, 0)
    OBVIOUS
  <2>3. m \in Coroutine /\ Give(m) /\ m.at = "agent_open"
    BY <2>1, <2>2 DEF Co
  <2>4. "agent_open" \in LifeLabel
    BY DEF LifeLabel, OpenLabel
  <2>5. Apart
    BY <1>0, <2>3, <2>4, ApartGive, LifeApart
  <2>6. \A b \in Agent : slot'[b].at = "closed" => slot[b].at = "closed"
    BY <1>0, <2>1 DEF GateOK
  <2> QED BY <1>1, <2>5, <2>6 DEF Passing
<1> QED BY <1>2, <1>3, <1>4, <1>5

LEMMA TableApart ==
    ASSUME ShapeInv, Online \/ Offline \/ \E a \in Agent : Leave(a)
    PROVE  Apart
<1>0. MailInv
  BY DEF ShapeInv
<1>1. /\ "online" \in LifeLabel /\ "welcome" \in LifeLabel
      /\ "offline" \in LifeLabel /\ "close_finish" \in LifeLabel
      /\ "agent_close" \in LifeLabel
  BY DEF LifeLabel, OpenLabel, CloseLabel
<1>2. CASE Online \/ Offline
  <2>1. \/ Flow("chat", "online", Cur("chat").agent, "welcome")
        \/ Flow("chat", "offline", Cur("chat").agent, "close_finish")
    BY <1>0, <1>2, TableFlow
  <2> QED BY <1>0, <1>1, <2>1, FlowApart
<1>3. ASSUME NEW a \in Agent, Leave(a) PROVE Apart
  <2>1. PICK m : m = Co("agent_close", a, slot[a].account, 0)
    OBVIOUS
  <2>2. m \in Coroutine /\ Give(m) /\ m.at = "agent_close"
    BY <1>3, <2>1, LeavePost DEF Co
  <2> QED BY <1>0, <1>1, <2>2, ApartGive, LifeApart
<1> QED BY <1>2, <1>3

LEMMA SameSame ==
    ASSUME UNCHANGED cast
    PROVE  SameCasts
BY DEF SameCasts

LEMMA FrameMoving ==
    ASSUME ShapeInv, NEW a \in Agent, Rpc(a) \/ RpcDump(a) \/ RpcWorldChat(a) \/ RpcSend(a)
    PROVE  Moving
<1>0. MailInv /\ UNCHANGED <<cast, received, onlineTab, slot>> /\ SameCasts
  BY SameSame DEF ShapeInv, Rpc, RpcDump, RpcWorldChat, RpcSend, chatVars, gateVars
<1>1. CASE Rpc(a) \/ RpcDump(a) \/ RpcWorldChat(a)
  <2>1. \/ Flow(a, "rpc", "log", "rpc_dump")
        \/ Flow(a, "rpc_dump", "log", "rpc_chat")
        \/ Flow(a, "rpc_chat", "log", "rpc_send")
    BY <1>0, <1>1, FrameSends
  <2>2. PICK from \in FrameLabel, to \in FrameLabel : Flow(a, from, "log", to)
    BY <2>1 DEF FrameLabel
  <2>3. PICK h, m : Hop(h, m) /\ Relabel(h, m, from, to)
    BY <2>2 DEF Flow, Put
  <2> QED BY <1>0, <2>3 DEF Relabel, Moving, Moves, SentLabel
<1>2. CASE RpcSend(a)
  <2>1. PICK h, m : h = Cur(a) /\ m = Co("broadcast", a, chatUser[a], h.n)
    OBVIOUS
  <2>2. Put(a, "chat", m) /\ h.at = "rpc_send"
    BY <1>2, <2>1, RpcSendFlow
  <2>3. h \in Coroutine /\ m \in Coroutine /\ Hop(h, m)
    BY <2>1, <2>2 DEF Put, Heads
  <2>4. m.at = "broadcast" /\ m.n = h.n
    BY <2>1 DEF Co
  <2> QED BY <1>0, <2>2, <2>3, <2>4 DEF Moving, Moves, SentLabel, FrameLabel
<1> QED BY <1>1, <1>2

LEMMA GoalKinds ==
    ASSUME ShapeInv, NEW a \in Agent,
           ChatWorld(a) \/ Request(a) \/ Write(a) \/ RequestFailed(a)
    PROVE  Moving \/ Returning
<1>0. MailInv /\ UNCHANGED <<cast, onlineTab, slot>> /\ SameCasts
  BY SameSame DEF ShapeInv, ChatWorld, Request, Write, RequestFailed, chatVars, gateVars
<1>1. ASSUME NEW from \in GoalLabel, NEW to \in GoalLabel, Flow(a, from, "log", to),
             UNCHANGED received
      PROVE  Moving
  <2>1. PICK h, m : Hop(h, m) /\ Relabel(h, m, from, to)
    BY <1>1 DEF Flow, Put
  <2> QED BY <1>0, <1>1, <2>1 DEF Relabel, Moving, Moves
<1>3. ASSUME NEW from \in GoalLabel, Flow(a, from, "chat", "next"),
             \/ received' = [received EXCEPT ![Cur(a).n][user[a]] = @ + 1] /\ user[a] # Nil
             \/ received' = received /\ (user[a] = Nil \/ ~ cmds[a])
      PROVE  Returning
  <2>1. PICK m : Put(a, "chat", m) /\ Relabel(Cur(a), m, from, "next")
    BY <1>3 DEF Flow
  <2>2. PICK h : h = Cur(a)
    OBVIOUS
  <2>3. /\ h \in Coroutine /\ m \in Coroutine /\ Hop(h, m) /\ h.agent = a
        /\ h.at = from /\ m.at = "next" /\ m.n = h.n
    BY <2>1, <2>2, Places DEF Put, Heads, Relabel
  <2>4. Wrote(h) \/ Missed(h)
    BY <1>3, <2>2, <2>3 DEF Wrote, Missed
  <2> QED BY <1>0, <2>3, <2>4 DEF Returning, Returns
<1>4. "chat_world" \in GoalLabel /\ "request" \in GoalLabel /\ "write" \in GoalLabel
  BY DEF GoalLabel
<1>5. CASE ChatWorld(a)
  <2>1. \/ Flow(a, "chat_world", "log", "request")
        \/ Flow(a, "chat_world", "chat", "next") /\ ~ cmds[a]
    BY <1>0, <1>5, GoalSends
  <2>2. UNCHANGED received
    BY <1>5 DEF ChatWorld, chatVars
  <2> QED BY <1>1, <1>3, <1>4, <2>1, <2>2
<1>6. CASE Request(a)
  BY <1>0, <1>1, <1>4, <1>6, GoalSends DEF Request, chatVars
<1>7. CASE Write(a)
  BY <1>0, <1>3, <1>4, <1>7, GoalSends DEF Write
<1>8. CASE RequestFailed(a)
  <2>1. \/ Flow(a, "request", "chat", "next")
        \/ Flow(a, "write", "chat", "next")
    BY <1>0, <1>8, GoalSends
  <2>2. UNCHANGED received /\ user[a] = Nil
    BY <1>8 DEF RequestFailed, chatVars
  <2> QED BY <1>3, <1>4, <2>1, <2>2
<1> QED BY <1>5, <1>6, <1>7, <1>8

LEMMA BroadcastMoving ==
    ASSUME ShapeInv, Broadcast
    PROVE  Moving
<1>1. Flow("chat", "broadcast", "log", "begin")
  BY BroadcastFlow DEF ShapeInv
<1>2. PICK h, m : Hop(h, m) /\ Relabel(h, m, "broadcast", "begin")
  BY <1>1 DEF Flow, Put
<1>3. PICK c : c = Cur("chat")
  OBVIOUS
<1>4. cast' = [cast EXCEPT ![c.n].account = c.account, ![c.n].from = c.agent]
  BY <1>3 DEF Broadcast
<1>5. cast \in [Chat -> CastType]
  BY DEF ShapeInv, DataOK, CastOK
<1>6. SameCasts
  BY <1>4, <1>5 DEF CastType, SameCasts
<1>7. UNCHANGED <<received, onlineTab, slot>>
  BY DEF Broadcast, gateVars
<1> QED BY <1>2, <1>6, <1>7 DEF Relabel, Moving, Moves, SentLabel

LEMMA LoggerKinds ==
    ASSUME ShapeInv, Logger
    PROVE  Passing \/ Moving
<1>0. MailInv /\ UNCHANGED <<cast, received, onlineTab, slot>> /\ SameCasts
  BY SameSame DEF ShapeInv, Logger, chatVars, gateVars
<1>1. PICK h : h \in Coroutine /\ Hop(h, h) /\ h \notin Stray("log")
  BY <1>0, LoggerFlow DEF Back
<1>2. h.at \in LogLabel
  BY <1>1, Places
<1>3. CASE h.at \in CastLabel
  <2>1. h.at \in SentLabel \/ h.at \in GoalLabel
    BY <1>2, <1>3 DEF CastLabel, CalledLabel, LogLabel
  <2> QED BY <1>0, <1>1, <2>1 DEF Moving, Moves
<1>4. CASE h.at \notin CastLabel
  BY <1>0, <1>1, <1>4, ApartHop DEF Passing
<1> QED BY <1>3, <1>4

\* All there is.
LEMMA Kinds ==
    ASSUME ShapeInv, [Next]_vars
    PROVE  \/ Passing \/ Moving \/ Returning
           \/ Visits \/ Ending
           \/ \E a \in Agent, n \in Chat : ClientChat(a, n)
           \/ Apart /\ \/ Online \/ Offline
                       \/ \E a \in Agent : Leave(a)
<1>1. CASE UNCHANGED vars
  <2>1. UNCHANGED <<mbox, ext, cast, received, onlineTab, slot>>
    BY <1>1 DEF vars, gateVars, chatVars
  <2>2. Apart
    BY <2>1 DEF Apart, Quiet, Out, Single, InFlight
  <2> QED BY <2>1, <2>2 DEF Passing
<1>2. CASE Logger \/ Database \/ GamedClose \/ Recycle
  BY <1>2, LoggerKinds, GatePassing
<1>3. CASE ChatStep
  BY <1>3, TableApart, BroadcastMoving, BeginVisits, NextVisits, Answers
     DEF ChatStep, Visits, Ending
<1>4. CASE \E a \in Agent : AgentStep(a)
  <2>1. PICK a \in Agent : AgentStep(a)
    BY <1>4
  <2> QED BY <2>1, LifePassing, FrameMoving, GoalKinds DEF AgentStep
<1>5. CASE ClientStep
  BY <1>5, GatePassing, TableApart DEF ClientStep
<1> QED BY <1>1, <1>2, <1>3, <1>4, <1>5 DEF Next, ServerStep

\* A broadcast has one coroutine while it is under way, at most, and its state says
\* of which kind.
Way(n) ==
    /\ Single(Of(n, CastLabel))
    /\ cast[n].at \in {"none", "done", "failed"} => Out(Of(n, CastLabel))
    /\ cast[n].at = "sent" => Out(Of(n, CalledLabel))
    /\ cast[n].at = "called" => Out(Of(n, SentLabel))
WayInv == \A n \in Chat : Way(n)

LEMMA CastLabels ==
    /\ SentLabel \subseteq CastLabel /\ CalledLabel \subseteq CastLabel
    /\ GoalLabel \subseteq CalledLabel /\ GoalLabel \subseteq CastLabel
    /\ SentLabel \cap CalledLabel = {}
    /\ "next" \in CalledLabel /\ "next" \notin GoalLabel /\ "begin" \in SentLabel
    /\ "next" \in CastLabel /\ "begin" \in CastLabel /\ "rpc_ret" \notin CastLabel
BY DEF CastLabel, SentLabel, FrameLabel, CalledLabel, GoalLabel

\* What a coroutine in flight says of its broadcast.
LEMMA WayNow ==
    ASSUME ShapeInv, WayInv, NEW h \in Coroutine, InFlight(h), h.at \in CastLabel
    PROVE  /\ h.n \in Chat /\ cast[h.n] \in CastType
           /\ h.at \in SentLabel => cast[h.n].at = "sent"
           /\ h.at \in CalledLabel => cast[h.n].at = "called"
<1>1. h.n \in Chat /\ cast[h.n] \in CastType
  BY DEF ShapeInv, GoodInv, Good, DataOK, CastOK
<1>2. cast[h.n].at \in {"none", "sent", "called", "done", "failed"}
  BY <1>1 DEF CastType
<1>3. Way(h.n)
  BY <1>1 DEF WayInv
<1>4. \A L : h.at \in L => ~ Out(Of(h.n, L))
  BY OutFlying DEF Of
<1> QED BY <1>1, <1>2, <1>3, <1>4, CastLabels DEF Way

\* No other coroutine of the broadcast is in flight.
LEMMA WayOne ==
    ASSUME WayInv, NEW n \in Chat, NEW h \in Of(n, CastLabel), InFlight(h),
           NEW x \in Of(n, CastLabel), InFlight(x)
    PROVE  x = h
BY AloneTwice DEF WayInv, Way, Single, InFlight

LEMMA WayApart ==
    ASSUME WayInv, Apart, \A n \in Chat : cast'[n].at = cast[n].at
    PROVE  WayInv'
<1>1. ASSUME NEW n \in Chat PROVE Way(n)'
  <2>1. Quiet(Of(n, CastLabel)) /\ Quiet(Of(n, SentLabel)) /\ Quiet(Of(n, CalledLabel))
    BY CastLabels DEF Apart
  <2> QED BY <2>1 DEF WayInv, Way, Quiet
<1> QED BY <1>1 DEF WayInv

\* A set that has but one coroutine, of another kind.
LEMMA OnlyOut ==
    ASSUME NEW n, NEW m, Only(m, Of(n, CastLabel))', NEW L, L \subseteq CastLabel, m.at \notin L
    PROVE  Out(Of(n, L))'
<1>1. \A x \in Of(n, L) : x \in Of(n, CastLabel) /\ x # m
  BY DEF Of
<1>2. \A x \in Of(n, L) : ~ InFlight(x)'
  BY <1>1 DEF Only
<1> QED BY <1>2, GoneFlying DEF Out, InFlight

LEMMA WayOther ==
    ASSUME MailInv, WayInv, NEW n, NEW k \in Chat, k # n, NEW h, NEW m \in Coroutine,
           Hop(h, m), h.n = n, m.n = n, cast'[k].at = cast[k].at
    PROVE  Way(k)'
<1>1. \A L : h \notin Of(k, L) /\ m \notin Of(k, L)
  BY DEF Of
<1>2. \A L : Quiet(Of(k, L))
  BY <1>1, HopFacts
<1> QED BY <1>2 DEF WayInv, Way, Quiet

LEMMA WayMove ==
    ASSUME ShapeInv, WayInv, NEW h \in Coroutine, NEW m \in Coroutine, Hop(h, m),
           m.n = h.n, h.at \in CastLabel,
           \/ m.at \in SentLabel /\ cast'[h.n].at = "sent"
           \/ m.at \in CalledLabel /\ cast'[h.n].at = "called",
           \A k \in Chat : k # h.n => cast'[k].at = cast[k].at
    PROVE  WayInv'
<1>0. MailInv
  BY DEF ShapeInv
<1>1. PICK n : n = h.n
  OBVIOUS
<1>2. n \in Chat /\ InFlight(h)
  BY <1>0, <1>1, HopFlying, WayNow
<1>3. Single(Of(n, CastLabel)) /\ h \in Of(n, CastLabel) /\ m \in Of(n, CastLabel)
  BY <1>1, <1>2, CastLabels DEF WayInv, Way, Of
<1>4. Only(m, Of(n, CastLabel))'
  BY <1>0, <1>3, HopFacts
<1>5. Way(n)'
  <2>1. Single(Of(n, CastLabel))'
    BY <1>4 DEF Only
  <2>2. m.at \notin SentLabel => Out(Of(n, SentLabel))'
    BY <1>4, OnlyOut, CastLabels
  <2>3. m.at \notin CalledLabel => Out(Of(n, CalledLabel))'
    BY <1>4, OnlyOut, CastLabels
  <2> QED BY <1>1, <2>1, <2>2, <2>3, CastLabels DEF Way
<1> QED BY <1>0, <1>1, <1>5, WayOther DEF WayInv

LEMMA WayEnd ==
    ASSUME ShapeInv, WayInv, NEW h \in Coroutine, NEW m \in Coroutine, Hop(h, m),
           m.n = h.n, h.at \in CastLabel, m.at \notin CastLabel,
           cast'[h.n].at \in {"done", "failed"},
           \A k \in Chat : k # h.n => cast'[k].at = cast[k].at
    PROVE  WayInv'
<1>0. MailInv
  BY DEF ShapeInv
<1>1. PICK n : n = h.n
  OBVIOUS
<1>2. n \in Chat /\ InFlight(h)
  BY <1>0, <1>1, HopFlying, WayNow
<1>3. Single(Of(n, CastLabel)) /\ h \in Of(n, CastLabel) /\ m \notin Of(n, CastLabel)
  BY <1>1, <1>2 DEF WayInv, Way, Of
<1>4. Out(Of(n, CastLabel))'
  BY <1>0, <1>3, HopFacts
<1>5. Way(n)'
  <2>1. Single(Of(n, CastLabel))'
    BY <1>4, GoneAlone DEF Out, Single
  <2> QED BY <1>1, <1>4, <2>1 DEF Way
<1> QED BY <1>0, <1>1, <1>5, WayOther DEF WayInv

LEMMA WayStart ==
    ASSUME ShapeInv, WayInv, NEW n \in Chat, NEW m \in Coroutine, Give(m),
           m.n = n, m.at \in SentLabel, cast[n].at = "none", cast'[n].at = "sent",
           \A k \in Chat : k # n => cast'[k].at = cast[k].at
    PROVE  WayInv'
<1>0. MailInv
  BY DEF ShapeInv
<1>1. Out(Of(n, CastLabel)) /\ m \in Of(n, CastLabel)
  BY CastLabels DEF WayInv, Way, Of
<1>2. Only(m, Of(n, CastLabel))'
  BY <1>0, <1>1, GiveInFacts
<1>3. Way(n)'
  <2>1. Single(Of(n, CastLabel))'
    BY <1>2 DEF Only
  <2>2. Out(Of(n, CalledLabel))'
    BY <1>2, OnlyOut, CastLabels
  <2> QED BY <2>1, <2>2 DEF Way
<1>4. ASSUME NEW k \in Chat, k # n PROVE Way(k)'
  <2>1. \A L : m \notin Of(k, L)
    BY <1>4 DEF Of
  <2>2. \A L : Quiet(Of(k, L))
    BY <1>0, <2>1, GiveInFacts
  <2> QED BY <1>4, <2>2 DEF WayInv, Way, Quiet
<1> QED BY <1>3, <1>4 DEF WayInv

\* The coroutines of a visit and of an answer.
LEMMA VisitHop ==
    ASSUME ShapeInv, NEW from \in {"begin", "next"}, NEW n, NEW b, NEW todo, NEW steady,
           Visiting(from, n, b, todo, steady)
    PROVE  /\ Others(n) /\ Visited(n, b, todo, steady) /\ n \in Chat
           /\ b \in todo /\ b \in Account /\ onlineTab[b] \in Agent
           /\ todo \in SUBSET Account /\ steady \in SUBSET Account
           /\ \E h, m \in Coroutine :
                 /\ Hop(h, m) /\ InFlight(h) /\ h.at = from /\ h.n = n
                 /\ m.at = "chat_world" /\ m.n = n /\ m.account = b
                 /\ m.agent = onlineTab[b]
           /\ UNCHANGED <<slot, onlineTab, received>>
<1>1. /\ At("chat", from) /\ n = Cur("chat").n /\ b \in Account /\ onlineTab[b] # Nil
      /\ b \in todo /\ todo \in SUBSET Account /\ steady \in SUBSET Account
      /\ Visit(n, [cast[n] EXCEPT !.todo = todo, !.steady = steady], b)
  BY DEF Visiting
<1>2. PICK h, m : h = Cur("chat") /\ m = Co("chat_world", onlineTab[b], b, n)
  OBVIOUS
<1>3. /\ Put("chat", onlineTab[b], m)
      /\ Others(n) /\ Visited(n, b, todo, steady) /\ onlineTab[b] \in Agent
  BY <1>1, <1>2, VisitFlow
<1>4. n \in Chat /\ h \in Coroutine /\ h.at = from /\ InFlight(h) /\ h.n = n
  BY <1>1, <1>2, ServerHead
<1>5. Hop(h, m) /\ m \in Coroutine
  BY <1>2, <1>3 DEF Put
<1>6. m.at = "chat_world" /\ m.n = n /\ m.account = b /\ m.agent = onlineTab[b]
  BY <1>2 DEF Co
<1>7. UNCHANGED <<slot, onlineTab, received>>
  BY <1>1 DEF Visit, gateVars
<1> QED BY <1>1, <1>3, <1>4, <1>5, <1>6, <1>7

LEMMA AnswerHop ==
    ASSUME ShapeInv, NEW from \in {"begin", "next"}, NEW n, NEW at, Answering(from, n, at)
    PROVE  /\ Others(n) /\ Answered(n, at) /\ n \in Chat /\ cast[n] \in CastType
           /\ cast'[n].at = at /\ at \in {"done", "failed"}
           /\ \E h, m \in Coroutine :
                 /\ Hop(h, m) /\ InFlight(h) /\ h.at = from /\ h.n = n
                 /\ m.at = "rpc_ret" /\ m.n = n
           /\ UNCHANGED <<slot, onlineTab, received>>
<1>1. At("chat", from) /\ n = Cur("chat").n /\ at \in {"done", "failed"} /\ End(n, at)
  BY DEF Answering
<1>2. PICK h, m : h = Cur("chat") /\ m = Co("rpc_ret", cast[n].from, Nil, n)
  OBVIOUS
<1>3. Put("chat", cast[n].from, m) /\ Others(n) /\ Answered(n, at)
  BY <1>1, <1>2, AnswerFlow
<1>4. /\ n \in Chat /\ h \in Coroutine /\ h.at = from /\ InFlight(h) /\ h.n = n
      /\ cast[n] \in CastType
  BY <1>1, <1>2, ServerHead
<1>5. Hop(h, m) /\ m \in Coroutine
  BY <1>2, <1>3 DEF Put
<1>6. m.at = "rpc_ret" /\ m.n = n
  BY <1>2 DEF Co
<1>7. cast'[n].at = at
  BY <1>3, <1>4 DEF Answered, CastType
<1>8. UNCHANGED <<slot, onlineTab, received>>
  BY <1>1 DEF End, gateVars
<1> QED BY <1>1, <1>3, <1>4, <1>5, <1>6, <1>7, <1>8

LEMMA ClientHop ==
    ASSUME ShapeInv, NEW a \in Agent, NEW n \in Chat, ClientChat(a, n)
    PROVE  /\ Others(n) /\ cast[n] = NoCast /\ cast'[n].at = "sent"
           /\ cast'[n].steady = {} /\ cast'[n].lost = FALSE
           /\ \E m \in Coroutine : Give(m) /\ m.n = n /\ m.at = "rpc"
           /\ UNCHANGED <<slot, onlineTab, received>>
<1>1. PICK m : m = Co("rpc", a, Nil, n)
  OBVIOUS
<1>2. m \in Coroutine /\ Give(m)
  BY <1>1, ClientPost
<1>3. m.at = "rpc" /\ m.n = n
  BY <1>1 DEF Co
<1>4. \A k \in Chat : k # n => cast'[k] = cast[k]
  BY ClientPost
<1>5. cast'[n] = [cast[n] EXCEPT !.at = "sent", !.author = slot[a].account]
  BY ClientPost
<1>6. cast[n] = NoCast /\ UNCHANGED <<slot, onlineTab, received>>
  BY DEF ClientChat, gateVars
<1>7. cast'[n].at = "sent" /\ cast'[n].steady = {} /\ cast'[n].lost = FALSE
  BY <1>5, <1>6 DEF NoCast
<1> QED BY <1>2, <1>3, <1>4, <1>6, <1>7 DEF Others

LEMMA WayStep == ShapeInv /\ LifeInv /\ WayInv /\ [Next]_vars => WayInv'
<1> SUFFICES ASSUME ShapeInv, LifeInv, WayInv, [Next]_vars PROVE WayInv'
  OBVIOUS
<1>0. MailInv
  BY DEF ShapeInv
<1>1. CASE Passing
  BY <1>1, WayApart DEF Passing
<1>2. CASE Moving
  <2>1. PICK h \in Coroutine, m \in Coroutine : Moves(h, m)
    BY <1>2 DEF Moving
  <2>2. InFlight(h) /\ h.at \in CastLabel
    BY <1>0, <2>1, HopFlying, CastLabels DEF Moves
  <2>3. /\ h.n \in Chat
        /\ h.at \in SentLabel => cast[h.n].at = "sent"
        /\ h.at \in CalledLabel => cast[h.n].at = "called"
    BY <2>2, WayNow
  <2>4. \A k \in Chat : cast'[k].at = cast[k].at
    BY <2>1 DEF Moves, SameCasts
  <2>5. \/ m.at \in SentLabel /\ cast'[h.n].at = "sent"
        \/ m.at \in CalledLabel /\ cast'[h.n].at = "called"
    BY <2>1, <2>3, <2>4, CastLabels DEF Moves
  <2> QED BY <2>1, <2>2, <2>4, <2>5, WayMove DEF Moves
<1>3. CASE Returning
  <2>1. PICK h \in Coroutine, m \in Coroutine : Returns(h, m)
    BY <1>3 DEF Returning
  <2>2. InFlight(h) /\ h.at \in CastLabel /\ h.at \in CalledLabel
    BY <1>0, <2>1, HopFlying, CastLabels DEF Returns
  <2>3. cast[h.n].at = "called" /\ cast' = cast
    BY <2>1, <2>2, WayNow DEF Returns
  <2> QED BY <2>1, <2>2, <2>3, WayMove, CastLabels DEF Returns
<1>4. ASSUME NEW from \in {"begin", "next"}, NEW n, NEW b, NEW todo, NEW steady,
             Visiting(from, n, b, todo, steady)
      PROVE  WayInv'
  <2>1. PICK h \in Coroutine, m \in Coroutine :
           Hop(h, m) /\ h.at = from /\ h.n = n /\ m.at = "chat_world" /\ m.n = n
    BY <1>4, VisitHop
  <2>2. cast'[n].at = "called" /\ \A k \in Chat : k # n => cast'[k].at = cast[k].at
    BY <1>4, VisitHop DEF Visited, Others
  <2>3. h.at \in CastLabel /\ m.at \in CalledLabel
    BY <2>1 DEF CastLabel, CalledLabel, SentLabel, GoalLabel
  <2> QED BY <2>1, <2>2, <2>3, WayMove
<1>5. ASSUME NEW from \in {"begin", "next"}, NEW n, NEW at, Answering(from, n, at)
      PROVE  WayInv'
  <2>1. PICK h \in Coroutine, m \in Coroutine :
           Hop(h, m) /\ h.at = from /\ h.n = n /\ m.at = "rpc_ret" /\ m.n = n
    BY <1>5, AnswerHop
  <2>2. /\ cast'[n].at \in {"done", "failed"}
        /\ \A k \in Chat : k # n => cast'[k].at = cast[k].at
    BY <1>5, AnswerHop DEF Others
  <2>3. h.at \in CastLabel /\ m.at \notin CastLabel
    BY <2>1, CastLabels
  <2> QED BY <2>1, <2>2, <2>3, WayEnd
<1>6. ASSUME NEW a \in Agent, NEW n \in Chat, ClientChat(a, n) PROVE WayInv'
  <2>1. PICK m \in Coroutine : Give(m) /\ m.n = n /\ m.at = "rpc"
    BY <1>6, ClientHop
  <2>2. Others(n) /\ cast[n] = NoCast /\ cast'[n].at = "sent"
    BY <1>6, ClientHop
  <2>3. \A k \in Chat : k # n => cast'[k].at = cast[k].at
    BY <2>2 DEF Others
  <2>4. cast[n].at = "none"
    BY <2>2 DEF NoCast
  <2> QED BY <2>1, <2>2, <2>3, <2>4, WayStart DEF SentLabel, FrameLabel
<1>7. CASE Apart /\ Online
  <2>1. \A n \in Chat : cast'[n].at = cast[n].at
    <3>1. Insert(onlineTab') /\ CastOK
      BY <1>7, OnlineTable DEF ShapeInv, DataOK
    <3>2. \A n \in Chat : cast'[n] = cast[n] \/ Shaken(cast[n], cast'[n])
      BY <3>1, InsertCast
    <3> QED BY <3>1, <3>2, ShakenKeeps DEF CastOK
  <2> QED BY <1>7, <2>1, WayApart
<1>8. CASE Apart /\ Offline
  BY <1>8, WayApart DEF Offline
<1>9. CASE Apart /\ \E a \in Agent : Leave(a)
  BY <1>9, WayApart, LeaveKeeps
<1> QED BY <1>1, <1>2, <1>3, <1>4, <1>5, <1>6, <1>7, <1>8, <1>9, Kinds DEF Visits, Ending

LEMMA WayInit == Init => WayInv
<1> SUFFICES ASSUME Init PROVE WayInv
  OBVIOUS
<1>1. \A m : ~ InFlight(m)
  BY DEF Init, InFlight, Flying
<1>2. \A n, L : Out(Of(n, L))
  BY <1>1, OutFlying
<1>3. \A n, L : Single(Of(n, L))
  BY <1>2, GoneAlone DEF Out, Single
<1> QED BY <1>2, <1>3 DEF WayInv, Way

LEMMA WayHolds == Spec => []WayInv
<1>1. Init => WayInv
  BY WayInit
<1>2. ShapeInv /\ LifeInv /\ WayInv /\ [Next]_vars => WayInv'
  BY WayStep
<1> QED BY <1>1, <1>2, ShapeHolds, LifeHolds, PTL DEF Spec

-----------------------------------------------------------------------------
(* Whom a broadcast calls.  Who has stayed since it began is in the table, *)
(* and the agent that is called is the one the table names.                *)

Attended(n) == cast[n].at = "called" =>
    \A b \in cast[n].steady : onlineTab[b] # Nil /\ slot[onlineTab[b]].at # "closed"
Aimed(m) == m.at \in GoalLabel =>
    /\ m.account = cast[m.n].cur
    /\ m.account \in cast[m.n].steady => onlineTab[m.account] = m.agent
AimInv == /\ \A n \in Chat : Attended(n)
          /\ \A m \in Coroutine : InFlight(m) => Aimed(m)

\* Account b, whose agent has not been closed, keeps it.
Stays(b) == onlineTab[b] # Nil /\ slot[onlineTab[b]].at # "closed" =>
    onlineTab'[b] = onlineTab[b] /\ slot'[onlineTab[b]].at # "closed"
\* Broadcast n goes on without those who do not stay.
Narrows(n) == /\ cast'[n].cur = cast[n].cur
              /\ cast'[n].steady \subseteq cast[n].steady
              /\ \A b \in cast'[n].steady : Stays(b)

LEMMA AttendedStays ==
    ASSUME NEW n \in Chat, Attended(n), Narrows(n), cast'[n].at = "called" => cast[n].at = "called"
    PROVE  Attended(n)'
BY DEF Attended, Narrows, Stays

LEMMA AimedStays ==
    ASSUME ShapeInv, WayInv, AimInv, NEW m \in Coroutine, InFlight(m),
           m.at \in GoalLabel => Narrows(m.n)
    PROVE  Aimed(m)'
<1> SUFFICES ASSUME m.at \in GoalLabel PROVE Aimed(m)'
  BY DEF Aimed
<1>1. m.n \in Chat /\ cast[m.n].at = "called"
  BY WayNow, CastLabels
<1>2. Aimed(m) /\ Attended(m.n) /\ Narrows(m.n)
  BY <1>1 DEF AimInv
<1>3. m.account = cast'[m.n].cur
  BY <1>2 DEF Aimed, Narrows
<1>4. ASSUME m.account \in cast'[m.n].steady PROVE onlineTab'[m.account] = m.agent
  <2>1. m.account \in cast[m.n].steady /\ Stays(m.account)
    BY <1>2, <1>4 DEF Narrows
  <2>2. /\ onlineTab[m.account] # Nil /\ slot[onlineTab[m.account]].at # "closed"
        /\ onlineTab[m.account] = m.agent
    BY <1>1, <1>2, <2>1 DEF Aimed, Attended
  <2> QED BY <2>1, <2>2 DEF Stays
<1> QED BY <1>3, <1>4 DEF Aimed

LEMMA StillNarrows ==
    ASSUME NEW n \in Chat, cast'[n].cur = cast[n].cur, cast'[n].steady = cast[n].steady,
           UNCHANGED <<onlineTab, slot>>
    PROVE  Narrows(n)
BY DEF Narrows, Stays

\* A step that has no new coroutine of a broadcast.
LEMMA AimApart ==
    ASSUME ShapeInv, WayInv, AimInv, Apart,
           \A n \in Chat : Narrows(n) /\ cast'[n].at = cast[n].at
    PROVE  AimInv'
<1>1. \A n \in Chat : Attended(n)'
  BY AttendedStays DEF AimInv
<1>2. ASSUME NEW m \in Coroutine, InFlight(m)' PROVE Aimed(m)'
  <2>1. CASE m.at \notin GoalLabel
    BY <2>1 DEF Aimed
  <2>2. CASE m.at \in GoalLabel
    <3>1. m \in Of(m.n, GoalLabel) /\ Quiet(Of(m.n, GoalLabel))
      BY <2>2, CastLabels DEF Of, Apart
    <3>2. InFlight(m)
      BY <1>2, <3>1 DEF Quiet
    <3>3. m.n \in Chat
      BY <2>2, <3>2, WayNow, CastLabels
    <3> QED BY <3>2, <3>3, AimedStays
  <2> QED BY <2>1, <2>2
<1> QED BY <1>1, <1>2 DEF AimInv

\* A step whose one new coroutine is m.
LEMMA AimNew ==
    ASSUME ShapeInv, WayInv, AimInv, NEW m \in Coroutine, Aimed(m)',
           \A x : InFlight(x)' => InFlight(x) \/ x = m,
           \A x \in Coroutine : InFlight(x) /\ x.at \in GoalLabel => Narrows(x.n),
           \A n \in Chat : Attended(n)'
    PROVE  AimInv'
<1>1. ASSUME NEW x \in Coroutine, InFlight(x)' PROVE Aimed(x)'
  <2>1. CASE x = m
    BY <2>1
  <2>2. CASE x # m
    BY <1>1, <2>2, AimedStays
  <2> QED BY <2>1, <2>2
<1> QED BY <1>1 DEF AimInv

\* A broadcast calls nobody when its coroutine is elsewhere.
LEMMA GoalOut ==
    ASSUME ShapeInv, WayInv, NEW h \in Coroutine, InFlight(h), h.at \in CastLabel,
           h.at \notin GoalLabel
    PROVE  Out(Of(h.n, GoalLabel))
<1>1. h.n \in Chat /\ h \in Of(h.n, CastLabel)
  BY WayNow DEF Of
<1>2. ASSUME NEW x \in Of(h.n, GoalLabel), InFlight(x) PROVE FALSE
  <2>1. x \in Of(h.n, CastLabel) /\ x.at \in GoalLabel
    BY CastLabels DEF Of
  <2>2. x = h
    BY <1>1, <1>2, <2>1, WayOne
  <2> QED BY <2>1, <2>2
<1> QED BY <1>2, OutFlying

LEMMA PassingAim ==
    ASSUME ShapeInv, WayInv, AimInv, Passing
    PROVE  AimInv'
<1>1. \A b : onlineTab[b] # Nil => b \notin Account \/ onlineTab[b] \in Agent
  BY DEF ShapeInv, DataOK, TabOK, Opt
<1>2. ASSUME NEW n \in Chat PROVE Narrows(n) /\ cast'[n].at = cast[n].at
  <2>1. cast[n] \in CastType
    BY DEF ShapeInv, DataOK, CastOK
  <2>2. cast[n].steady \subseteq Account
    BY <2>1 DEF CastType
  <2>3. \A b \in Account : Stays(b)
    BY <1>1 DEF Passing, Stays
  <2> QED BY <2>2, <2>3 DEF Passing, Narrows
<1> QED BY <1>2, AimApart DEF Passing

LEMMA MovingAim ==
    ASSUME ShapeInv, WayInv, AimInv, NEW h \in Coroutine, NEW m \in Coroutine, Moves(h, m)
    PROVE  AimInv'
<1>0. MailInv
  BY DEF ShapeInv
<1>1. \A n \in Chat : Narrows(n) /\ cast'[n].at = cast[n].at
  BY StillNarrows DEF Moves, SameCasts
<1>2. \A n \in Chat : Attended(n)'
  BY <1>1, AttendedStays DEF AimInv
<1>3. Hop(h, m) /\ InFlight(h)
  BY <1>0, HopFlying DEF Moves
<1>4. Aimed(m)'
  <2>1. CASE m.at \notin GoalLabel
    BY <2>1 DEF Aimed
  <2>2. CASE m.at \in GoalLabel
    <3>1. m.at \notin SentLabel
      BY <2>2, CastLabels
    <3>2. h.at \in GoalLabel /\ m.n = h.n /\ m.agent = h.agent /\ m.account = h.account
      BY <3>1 DEF Moves
    <3>3. h.n \in Chat
      BY <1>3, <3>2, WayNow, CastLabels
    <3>4. Aimed(h)'
      BY <1>1, <1>3, <3>3, AimedStays
    <3> QED BY <3>2, <3>4 DEF Aimed
  <2> QED BY <2>1, <2>2
<1>5. ASSUME NEW x \in Coroutine, InFlight(x), x.at \in GoalLabel PROVE Narrows(x.n)
  BY <1>1, <1>5, WayNow, CastLabels
<1>6. \A x : InFlight(x)' => InFlight(x) \/ x = m
  BY <1>0, <1>3, HopFacts
<1> QED BY <1>2, <1>4, <1>5, <1>6, AimNew

LEMMA ReturningAim ==
    ASSUME ShapeInv, WayInv, AimInv, NEW h \in Coroutine, NEW m \in Coroutine, Returns(h, m)
    PROVE  AimInv'
<1>0. MailInv
  BY DEF ShapeInv
<1>1. \A n \in Chat : Narrows(n) /\ cast'[n].at = cast[n].at
  BY StillNarrows DEF Returns
<1>2. \A n \in Chat : Attended(n)'
  BY <1>1, AttendedStays DEF AimInv
<1>4. Aimed(m)'
  BY CastLabels DEF Returns, Aimed
<1>5. ASSUME NEW x \in Coroutine, InFlight(x), x.at \in GoalLabel PROVE Narrows(x.n)
  BY <1>1, <1>5, WayNow, CastLabels
<1>6. \A x : InFlight(x)' => InFlight(x) \/ x = m
  BY <1>0, HopFacts DEF Returns
<1> QED BY <1>2, <1>4, <1>5, <1>6, AimNew

LEMMA VisitAim ==
    ASSUME ShapeInv, LifeInv, WayInv, AimInv, NEW from \in {"begin", "next"}, NEW n, NEW b,
           NEW todo, NEW steady, Visiting(from, n, b, todo, steady),
           \/ from = "begin" /\ steady = Staying
           \/ from = "next" /\ steady = cast[n].steady
    PROVE  AimInv'
<1>0. MailInv
  BY DEF ShapeInv
<1>1. /\ Others(n) /\ Visited(n, b, todo, steady) /\ n \in Chat
      /\ onlineTab[b] \in Agent /\ UNCHANGED <<slot, onlineTab>>
  BY VisitHop
<1>2. PICK h \in Coroutine, m \in Coroutine :
         /\ Hop(h, m) /\ InFlight(h) /\ h.at = from /\ h.n = n
         /\ m.at = "chat_world" /\ m.n = n /\ m.account = b
         /\ m.agent = onlineTab[b]
  BY VisitHop
<1>3. h.at \in CastLabel /\ h.at \notin GoalLabel
  BY <1>2, CastLabels DEF GoalLabel
<1>4. Out(Of(n, GoalLabel))
  BY <1>2, <1>3, GoalOut
<1>5. \A k \in Chat : k # n => Narrows(k) /\ cast'[k].at = cast[k].at
  BY <1>1, StillNarrows DEF Others
<1>6. ASSUME NEW x \in Coroutine, InFlight(x), x.at \in GoalLabel PROVE Narrows(x.n)
  <2>1. x.n \in Chat
    BY <1>6, WayNow, CastLabels
  <2>2. x.n # n
    BY <1>4, <1>6, OutFlying DEF Of
  <2> QED BY <1>5, <2>1, <2>2
<1>7. Attended(n)'
  <2>1. cast'[n].steady = steady
    BY <1>1 DEF Visited
  <2>2. ASSUME NEW x \in steady PROVE onlineTab[x] # Nil /\ slot[onlineTab[x]].at # "closed"
    <3>1. CASE from = "begin"
      <4>1. steady = Staying
        BY <3>1
      <4>2. x \in Account /\ onlineTab[x] # Nil
        BY <2>2, <4>1 DEF Staying, Present
      <4>3. onlineTab[x] \in Agent
        BY <4>2 DEF ShapeInv, DataOK, TabOK, Opt
      <4>4. slot[onlineTab[x]].account = x
        BY <4>2, <4>3, OnTable
      <4> QED BY <2>2, <4>1, <4>2, <4>3, <4>4 DEF Staying
    <3>2. CASE from = "next"
      <4>1. steady = cast[n].steady
        BY <3>2
      <4>2. cast[n].at = "called"
        BY <1>2, <1>3, <3>2, WayNow, CastLabels
      <4> QED BY <1>1, <2>2, <4>1, <4>2 DEF AimInv, Attended
    <3> QED BY <3>1, <3>2
  <2> QED BY <1>1, <2>1, <2>2 DEF Attended
<1>8. \A k \in Chat : Attended(k)'
  <2>1. \A k \in Chat : k # n => Attended(k)'
    BY <1>5, AttendedStays DEF AimInv
  <2> QED BY <1>7, <2>1
<1>9. Aimed(m)'
  <2>1. cast'[n].cur = b
    BY <1>1 DEF Visited
  <2> QED BY <1>1, <1>2, <2>1 DEF Aimed
<1>10. \A x : InFlight(x)' => InFlight(x) \/ x = m
  BY <1>0, <1>2, HopFacts
<1> QED BY <1>6, <1>8, <1>9, <1>10, AimNew

LEMMA AnswerAim ==
    ASSUME ShapeInv, WayInv, AimInv, NEW from \in {"begin", "next"}, NEW n, NEW at,
           Answering(from, n, at)
    PROVE  AimInv'
<1>0. MailInv
  BY DEF ShapeInv
<1>1. /\ Others(n) /\ Answered(n, at) /\ n \in Chat /\ cast[n] \in CastType
      /\ cast'[n].at = at /\ at \in {"done", "failed"} /\ UNCHANGED <<slot, onlineTab>>
  BY AnswerHop
<1>2. PICK h \in Coroutine, m \in Coroutine : Hop(h, m) /\ m.at = "rpc_ret"
  BY AnswerHop
<1>3. cast'[n].cur = cast[n].cur /\ cast'[n].steady = cast[n].steady
  BY <1>1 DEF Answered, CastType
<1>4. \A k \in Chat : Narrows(k)
  <2>1. \A k \in Chat : cast'[k].cur = cast[k].cur /\ cast'[k].steady = cast[k].steady
    BY <1>1, <1>3 DEF Others
  <2> QED BY <1>1, <2>1, StillNarrows
<1>5. \A k \in Chat : cast'[k].at = "called" => cast[k].at = "called"
  BY <1>1 DEF Others
<1>6. \A k \in Chat : Attended(k)'
  BY <1>4, <1>5, AttendedStays DEF AimInv
<1>7. ASSUME NEW x \in Coroutine, InFlight(x), x.at \in GoalLabel PROVE Narrows(x.n)
  BY <1>4, <1>7, WayNow, CastLabels
<1>8. Aimed(m)'
  BY <1>2 DEF Aimed, GoalLabel
<1>9. \A x : InFlight(x)' => InFlight(x) \/ x = m
  BY <1>0, <1>2, HopFacts
<1> QED BY <1>6, <1>7, <1>8, <1>9, AimNew

LEMMA ClientAim ==
    ASSUME ShapeInv, WayInv, AimInv, NEW a \in Agent, NEW n \in Chat, ClientChat(a, n)
    PROVE  AimInv'
<1>0. MailInv
  BY DEF ShapeInv
<1>1. /\ Others(n) /\ cast[n] = NoCast /\ cast'[n].at = "sent"
      /\ UNCHANGED <<slot, onlineTab>>
  BY ClientHop
<1>2. PICK m \in Coroutine : Give(m) /\ m.at = "rpc"
  BY ClientHop
<1>3. \A k \in Chat : k # n => Narrows(k) /\ cast'[k].at = cast[k].at
  BY <1>1, StillNarrows DEF Others
<1>4. \A k \in Chat : Attended(k)'
  <2>1. \A k \in Chat : k # n => Attended(k)'
    BY <1>3, AttendedStays DEF AimInv
  <2>2. Attended(n)'
    BY <1>1 DEF Attended
  <2> QED BY <2>1, <2>2
<1>5. ASSUME NEW x \in Coroutine, InFlight(x), x.at \in GoalLabel PROVE Narrows(x.n)
  <2>1. x.n \in Chat /\ cast[x.n].at = "called"
    BY <1>5, WayNow, CastLabels
  <2>2. x.n # n
    BY <1>1, <2>1 DEF NoCast
  <2> QED BY <1>3, <2>1, <2>2
<1>6. Aimed(m)'
  BY <1>2 DEF Aimed, GoalLabel
<1>7. \A x : InFlight(x)' => InFlight(x) \/ x = m
  BY <1>0, <1>2, GiveInFacts
<1> QED BY <1>4, <1>5, <1>6, <1>7, AimNew

LEMMA OnlineAim ==
    ASSUME ShapeInv, LifeInv, WayInv, AimInv, Apart, Online
    PROVE  AimInv'
<1>1. PICK a, x : /\ onlineTab[x] = Nil /\ onlineTab' = [onlineTab EXCEPT ![x] = a]
                  /\ Insert(onlineTab')
  BY OnlineTable
<1>2. CastOK /\ TabOK
  BY DEF ShapeInv, DataOK
<1>3. ASSUME NEW n \in Chat PROVE Narrows(n) /\ cast'[n].at = cast[n].at
  <2>1. cast'[n] = cast[n] \/ Shaken(cast[n], cast'[n])
    BY <1>1, <1>2, InsertCast
  <2>2. cast[n] \in CastType
    BY <1>2 DEF CastOK
  <2>3. /\ cast'[n].at = cast[n].at /\ cast'[n].cur = cast[n].cur
        /\ cast'[n].steady = cast[n].steady
    BY <2>1, <2>2, ShakenKeeps
  <2>4. \A b \in Account : Stays(b)
    BY <1>1, <1>2 DEF Stays, TabOK, Online, gateVars
  <2>5. cast[n].steady \subseteq Account
    BY <2>2 DEF CastType
  <2> QED BY <2>3, <2>4, <2>5 DEF Narrows
<1> QED BY <1>3, AimApart

LEMMA OfflineAim ==
    ASSUME ShapeInv, LifeInv, WayInv, AimInv, Apart, Offline
    PROVE  AimInv'
<1>1. PICK a, x : /\ onlineTab[x] = a /\ slot[a].at = "closed"
                  /\ onlineTab' = [onlineTab EXCEPT ![x] = Nil]
  BY OfflineTable
<1>2. UNCHANGED <<cast, slot>>
  BY DEF Offline, gateVars
<1>3. CastOK /\ TabOK
  BY DEF ShapeInv, DataOK
<1>4. \A b \in Account : Stays(b)
  BY <1>1, <1>2, <1>3 DEF Stays, TabOK
<1>5. ASSUME NEW n \in Chat PROVE Narrows(n) /\ cast'[n].at = cast[n].at
  <2>1. cast[n].steady \subseteq Account
    BY <1>3 DEF CastOK, CastType
  <2> QED BY <1>2, <1>4, <2>1 DEF Narrows
<1> QED BY <1>5, AimApart

LEMMA LeaveAim ==
    ASSUME ShapeInv, LifeInv, WayInv, AimInv, Apart, NEW a \in Agent, Leave(a)
    PROVE  AimInv'
<1>1. /\ slot' = [slot EXCEPT ![a].at = "closed"] /\ UNCHANGED onlineTab
      /\ GateOK /\ CastOK /\ TabOK
  BY DEF Leave, ShapeInv, DataOK
<1>2. \A c \in Agent : slot'[c].at = "closed" => c = a \/ slot[c].at = "closed"
  BY <1>1 DEF GateOK
<1>3. ASSUME NEW b \in Account, b # slot[a].account PROVE Stays(b)
  <2> SUFFICES ASSUME onlineTab[b] # Nil, slot[onlineTab[b]].at # "closed" PROVE Stays(b)
    BY DEF Stays
  <2>1. PICK c \in Agent : c = onlineTab[b]
    BY <1>1 DEF TabOK, Opt
  <2>2. c # a
    BY <1>3, <2>1, OnTable
  <2> QED BY <1>1, <1>2, <2>1, <2>2 DEF Stays
<1>4. ASSUME NEW n \in Chat PROVE Narrows(n) /\ cast'[n].at = cast[n].at
  <2>1. /\ cast'[n].at = cast[n].at /\ cast'[n].cur = cast[n].cur
        /\ cast'[n].steady = cast[n].steady \ {slot[a].account}
    BY LeaveKeeps
  <2>2. cast[n].steady \subseteq Account
    BY <1>1 DEF CastOK, CastType
  <2> QED BY <1>3, <2>1, <2>2 DEF Narrows
<1> QED BY <1>4, AimApart

LEMMA AimStep == ShapeInv /\ LifeInv /\ WayInv /\ AimInv /\ [Next]_vars => AimInv'
<1> SUFFICES ASSUME ShapeInv, LifeInv, WayInv, AimInv, [Next]_vars PROVE AimInv'
  OBVIOUS
<1>1. CASE Passing
  BY <1>1, PassingAim
<1>2. CASE Moving
  BY <1>2, MovingAim DEF Moving
<1>3. CASE Returning
  BY <1>3, ReturningAim DEF Returning
<1>4. CASE Visits
  BY <1>4, VisitAim DEF Visits
<1>5. CASE Ending
  BY <1>5, AnswerAim DEF Ending
<1>6. CASE \E a \in Agent, n \in Chat : ClientChat(a, n)
  BY <1>6, ClientAim
<1>7. CASE Apart /\ (Online \/ Offline \/ \E a \in Agent : Leave(a))
  BY <1>7, OnlineAim, OfflineAim, LeaveAim
<1> QED BY <1>1, <1>2, <1>3, <1>4, <1>5, <1>6, <1>7, Kinds

LEMMA AimInit == Init => AimInv
<1> SUFFICES ASSUME Init PROVE AimInv
  OBVIOUS
<1>1. \A m : ~ InFlight(m)
  BY DEF Init, InFlight, Flying
<1>2. \A n \in Chat : Attended(n)
  BY DEF Init, Attended, NoCast
<1> QED BY <1>1, <1>2 DEF AimInv

LEMMA AimHolds == Spec => []AimInv
<1>1. Init => AimInv
  BY AimInit
<1>2. ShapeInv /\ LifeInv /\ WayInv /\ AimInv /\ [Next]_vars => AimInv'
  BY AimStep
<1> QED BY <1>1, <1>2, ShapeHolds, LifeHolds, WayHolds, PTL DEF Spec

-----------------------------------------------------------------------------
(* How often a broadcast has reached each account.                         *)

Awaited(n) == ~ Out(Of(n, GoalLabel))
\* What broadcast n has done and has still to do for account b.
Counted(n, b) ==
    /\ received[n][b] <= 1
    /\ b \in cast[n].todo => received[n][b] = 0 /\ b # cast[n].cur
    /\ b = cast[n].cur /\ Awaited(n) => received[n][b] = 0
    /\ b \in cast[n].steady =>
          b \in cast[n].todo \/ received[n][b] = 1 \/ (b = cast[n].cur /\ Awaited(n))
Finished(n, b) ==
    /\ received[n][b] <= 1
    /\ b \in cast[n].steady => received[n][b] = 1
Reach(n) ==
    /\ cast[n].at \in {"none", "sent"} =>
          ~ cast[n].lost /\ \A b \in Account : received[n][b] = 0
    /\ cast[n].at = "called" /\ ~ cast[n].disturbed =>
          ~ cast[n].lost /\ \A b \in Account : Counted(n, b)
    /\ cast[n].at = "done" /\ ~ cast[n].disturbed => \A b \in Account : Finished(n, b)
ReachInv == \A n \in Chat : Reach(n)

\* A step that does not get broadcast n any further.
Rests(n) == /\ cast'[n].at = cast[n].at /\ cast'[n].todo = cast[n].todo
            /\ cast'[n].cur = cast[n].cur /\ cast'[n].lost = cast[n].lost
            /\ cast'[n].disturbed = cast[n].disturbed
            /\ cast'[n].steady \subseteq cast[n].steady
            /\ received'[n] = received[n]

LEMMA RestsReach ==
    ASSUME NEW n \in Chat, Reach(n), Rests(n), Awaited(n)' <=> Awaited(n)
    PROVE  Reach(n)'
<1>1. ASSUME NEW b \in Account, Counted(n, b) PROVE Counted(n, b)'
  BY <1>1 DEF Rests, Counted
<1>2. ASSUME NEW b \in Account, Finished(n, b) PROVE Finished(n, b)'
  BY <1>2 DEF Rests, Finished
<1> QED BY <1>1, <1>2 DEF Rests, Reach

LEMMA ApartAwaits ==
    ASSUME Apart, NEW n
    PROVE  Awaited(n)' <=> Awaited(n)
BY CastLabels DEF Apart, Awaited, Quiet

LEMMA ApartReach ==
    ASSUME ReachInv, Apart, \A n \in Chat : Rests(n)
    PROVE  ReachInv'
BY RestsReach, ApartAwaits DEF ReachInv

\* The other broadcasts, when the coroutine of one goes on.
LEMMA OtherReach ==
    ASSUME MailInv, ReachInv, NEW h, NEW m \in Coroutine, Hop(h, m), m.n = h.n,
           NEW k \in Chat, k # h.n, Rests(k)
    PROVE  Reach(k)'
<1>1. h \notin Of(k, GoalLabel) /\ m \notin Of(k, GoalLabel)
  BY DEF Of
<1>2. Awaited(k)' <=> Awaited(k)
  BY <1>1, HopFacts DEF Awaited, Quiet
<1> QED BY <1>2, RestsReach DEF ReachInv

\* Its own broadcast.
LEMMA OwnHop ==
    ASSUME ShapeInv, WayInv, NEW h \in Coroutine, NEW m \in Coroutine, Hop(h, m),
           InFlight(h), m.n = h.n, h.at \in CastLabel
    PROVE  /\ Awaited(h.n) <=> h.at \in GoalLabel
           /\ Awaited(h.n)' <=> m.at \in GoalLabel
<1>0. MailInv
  BY DEF ShapeInv
<1>1. PICK n : n = h.n
  OBVIOUS
<1>2. n \in Chat /\ h \in Of(n, CastLabel) /\ Single(Of(n, CastLabel))
  BY <1>1, WayNow DEF Of, WayInv, Way
<1>3. h.at \notin GoalLabel => Out(Of(n, GoalLabel))
  BY <1>1, GoalOut
<1>4. h.at \in GoalLabel => ~ Out(Of(n, GoalLabel))
  BY <1>1, OutFlying DEF Of
<1>5. CASE m.at \in GoalLabel
  <2>1. m \in Of(n, GoalLabel) /\ m \in Of(n, CastLabel)
    BY <1>1, <1>5, CastLabels DEF Of
  <2>2. InFlight(m)'
    BY <1>0, HopFacts
  <2>3. (~ Out(Of(n, GoalLabel)))'
    BY <2>1, <2>2, GoneFlying DEF Out, InFlight
  <2> QED BY <1>1, <1>3, <1>4, <1>5, <2>3 DEF Awaited
<1>6. CASE m.at \notin GoalLabel
  <2>1. Out(Of(n, GoalLabel))'
    <3>1. CASE m.at \in CastLabel
      <4>1. m \in Of(n, CastLabel)
        BY <1>1, <3>1 DEF Of
      <4>2. Only(m, Of(n, CastLabel))'
        BY <1>0, <1>2, <4>1, HopFacts
      <4> QED BY <1>6, <4>2, OnlyOut, CastLabels
    <3>2. CASE m.at \notin CastLabel
      <4>1. m \notin Of(n, CastLabel)
        BY <3>2 DEF Of
      <4>2. Out(Of(n, CastLabel))'
        BY <1>0, <1>2, <4>1, HopFacts
      <4>3. \A x \in Of(n, CastLabel) : ~ InFlight(x)'
        BY <4>2, GoneFlying DEF Out, InFlight
      <4>4. \A x \in Of(n, GoalLabel) : ~ InFlight(x)'
        BY <4>3, CastLabels DEF Of
      <4> QED BY <4>4, GoneFlying DEF Out, InFlight
    <3> QED BY <3>1, <3>2
  <2> QED BY <1>1, <1>3, <1>4, <1>6, <2>1 DEF Awaited
<1> QED BY <1>5, <1>6

LEMMA PassingReach ==
    ASSUME ReachInv, Passing
    PROVE  ReachInv'
<1>1. \A n \in Chat : Rests(n)
  BY DEF Passing, Rests
<1> QED BY <1>1, ApartReach DEF Passing

LEMMA MovingReach ==
    ASSUME ShapeInv, WayInv, ReachInv, NEW h \in Coroutine, NEW m \in Coroutine, Moves(h, m)
    PROVE  ReachInv'
<1>0. MailInv
  BY DEF ShapeInv
<1>1. \A n \in Chat : Rests(n)
  BY DEF Moves, SameCasts, Rests
<1>2. Hop(h, m) /\ InFlight(h) /\ m.n = h.n /\ h.at \in CastLabel
  BY <1>0, HopFlying, CastLabels DEF Moves
<1>3. h.n \in Chat
  BY <1>2, WayNow
<1>4. m.at \in GoalLabel <=> h.at \in GoalLabel
  BY CastLabels DEF Moves
<1>5. Reach(h.n)'
  BY <1>1, <1>2, <1>3, <1>4, OwnHop, RestsReach DEF ReachInv
<1> QED BY <1>0, <1>1, <1>2, <1>5, OtherReach DEF ReachInv

\* An agent that the table names writes what it is called for.
LEMMA MissedGone ==
    ASSUME ShapeInv, LifeInv, WayInv, AimInv, NEW h \in Coroutine, InFlight(h),
           h.at \in GoalLabel, Missed(h)
    PROVE  h.account \notin cast[h.n].steady
<1> SUFFICES ASSUME h.account \in cast[h.n].steady PROVE FALSE
  OBVIOUS
<1>1. Good(h) /\ Aimed(h)
  BY DEF ShapeInv, GoodInv, AimInv
<1>2. h.account \in Account /\ onlineTab[h.account] = h.agent /\ h.agent \in Agent
  BY <1>1 DEF Good, Aimed, Coroutine
<1>3. Serving(h.agent, h.account)
  BY <1>2, OnTable
<1>4. user[h.agent] # Nil /\ cmds[h.agent]
  BY <1>2, <1>3, ConstantAssumption DEF Serving, Account
<1> QED BY <1>4 DEF Missed

LEMMA ReturningReach ==
    ASSUME ShapeInv, LifeInv, WayInv, NameInv, AimInv, ReachInv,
           NEW h \in Coroutine, NEW m \in Coroutine, Returns(h, m)
    PROVE  ReachInv'
<1>0. MailInv
  BY DEF ShapeInv
<1>1. /\ Hop(h, m) /\ InFlight(h) /\ m.n = h.n /\ h.at \in CastLabel /\ h.at \in GoalLabel
      /\ m.at = "next" /\ (Wrote(h) \/ Missed(h))
      /\ UNCHANGED <<cast, onlineTab, slot>>
  BY <1>0, HopFlying, CastLabels DEF Returns
<1>2. PICK n, x : n = h.n /\ x = h.account
  OBVIOUS
<1>3. n \in Chat /\ cast[n].at = "called" /\ x \in Account /\ x = cast[n].cur
  BY <1>1, <1>2, WayNow, CastLabels DEF ShapeInv, GoodInv, Good, AimInv, Aimed
<1>4. Wrote(h) => received' = [received EXCEPT ![n][x] = @ + 1]
  BY <1>1, <1>2 DEF NameInv, Named, Wrote
<1>5. received \in [Chat -> [Account -> Nat]]
  BY DEF ShapeInv, DataOK
<1>6. \A k \in Chat : k # n => Rests(k)
  BY <1>1, <1>4, <1>5 DEF Rests, Missed
<1>7. Awaited(n) /\ ~ Awaited(n)'
  <2>1. /\ Awaited(h.n) <=> h.at \in GoalLabel
        /\ Awaited(h.n)' <=> m.at \in GoalLabel
    BY <1>1, OwnHop
  <2> QED BY <1>1, <1>2, <2>1, CastLabels
<1>8. ASSUME NEW b \in Account, Counted(n, b) PROVE Counted(n, b)'
  <2>1. CASE Wrote(h)
    <3>1. CASE b = x
      <4>1. received'[n][b] = received[n][b] + 1 /\ received[n][b] = 0
        BY <1>3, <1>4, <1>5, <1>7, <1>8, <2>1, <3>1 DEF Counted
      <4> QED BY <1>1, <1>3, <1>7, <1>8, <3>1, <4>1 DEF Counted
    <3>2. CASE b # x
      <4>1. received'[n][b] = received[n][b]
        BY <1>3, <1>4, <1>5, <2>1, <3>2
      <4> QED BY <1>1, <1>3, <1>7, <1>8, <3>2, <4>1 DEF Counted
    <3> QED BY <3>1, <3>2
  <2>2. CASE Missed(h)
    <3>1. x \notin cast[n].steady /\ received' = received
      BY <1>1, <1>2, <2>2, MissedGone DEF Missed
    <3> QED BY <1>1, <1>3, <1>7, <1>8, <3>1 DEF Counted
  <2> QED BY <1>1, <2>1, <2>2
<1>9. Reach(n)'
  <2>1. Reach(n)
    BY <1>3 DEF ReachInv
  <2> QED BY <1>1, <1>3, <1>8, <2>1 DEF Reach
<1> QED BY <1>0, <1>1, <1>2, <1>6, <1>9, OtherReach DEF ReachInv

\* The entry a traversal reads is called once.
LEMMA VisitReach ==
    ASSUME ShapeInv, WayInv, AimInv, ReachInv, NEW from \in {"begin", "next"}, NEW n, NEW b,
           NEW todo, NEW steady, Visiting(from, n, b, todo, steady),
           \/ from = "begin" /\ todo = Present /\ steady = Staying
           \/ from = "next" /\ todo = cast[n].todo /\ steady = cast[n].steady
    PROVE  ReachInv'
<1>0. MailInv
  BY DEF ShapeInv
<1>1. /\ Others(n) /\ Visited(n, b, todo, steady) /\ n \in Chat /\ b \in todo
      /\ UNCHANGED <<slot, onlineTab, received>>
  BY VisitHop
<1>2. PICK h \in Coroutine, m \in Coroutine :
         Hop(h, m) /\ InFlight(h) /\ h.at = from /\ h.n = n /\ m.at = "chat_world" /\ m.n = n
  BY VisitHop
<1>3. h.at \in CastLabel /\ h.at \notin GoalLabel /\ m.at \in GoalLabel
  BY <1>2, CastLabels DEF GoalLabel
<1>4. ~ Awaited(n) /\ Awaited(n)'
  <2>1. /\ Awaited(h.n) <=> h.at \in GoalLabel
        /\ Awaited(h.n)' <=> m.at \in GoalLabel
    BY <1>2, <1>3, OwnHop
  <2> QED BY <1>2, <1>3, <2>1
<1>5. \A k \in Chat : k # n => Rests(k)
  BY <1>1 DEF Others, Rests
<1>6. /\ cast'[n].at = "called" /\ cast'[n].cur = b /\ cast'[n].steady = steady
      /\ cast'[n].todo = {x \in todo : onlineTab[x] # Nil} \ {b}
      /\ cast'[n].disturbed = cast[n].disturbed /\ cast'[n].lost = cast[n].lost
  BY <1>1 DEF Visited
<1>7. Reach(n) /\ Attended(n)
  BY <1>1 DEF ReachInv, AimInv
<1>8. ASSUME from = "begin" PROVE Reach(n)'
  <2>1. todo = Present /\ steady = Staying
    BY <1>8
  <2>2. cast[n].at = "sent"
    BY <1>2, <1>3, <1>8, WayNow, CastLabels
  <2>3. ~ cast[n].lost /\ \A x \in Account : received'[n][x] = 0
    BY <1>1, <1>7, <2>2 DEF Reach
  <2>4. ASSUME NEW x \in Account PROVE Counted(n, x)'
    <3>1. x \in steady => x \in todo /\ onlineTab[x] # Nil
      BY <2>1 DEF Staying, Present
    <3>2. received'[n][x] = 0
      BY <2>3
    <3>3. x \in cast'[n].todo => x # cast'[n].cur
      BY <1>6
    <3>4. x \in cast'[n].steady => x \in cast'[n].todo \/ x = cast'[n].cur
      BY <1>6, <3>1
    <3> QED BY <1>4, <3>2, <3>3, <3>4 DEF Counted
  <2>5. ~ cast'[n].lost
    BY <1>6, <2>3
  <2> QED BY <1>6, <2>4, <2>5 DEF Reach
<1>9. ASSUME from = "next" PROVE Reach(n)'
  <2>1. todo = cast[n].todo /\ steady = cast[n].steady
    BY <1>9
  <2>2. cast[n].at = "called"
    BY <1>2, <1>3, <1>9, WayNow, CastLabels
  <2>3. ASSUME NEW x \in Account, Counted(n, x) PROVE Counted(n, x)'
    <3>1. x \in steady => onlineTab[x] # Nil
      BY <1>7, <2>1, <2>2 DEF Attended
    <3>2. x = b => received[n][x] = 0
      BY <1>1, <2>1, <2>3 DEF Counted
    <3>3. received'[n][x] = received[n][x] /\ received[n][x] <= 1
      BY <1>1, <2>3 DEF Counted
    <3>4. x \in cast'[n].todo => received[n][x] = 0 /\ x # cast'[n].cur
      BY <1>6, <2>1, <2>3 DEF Counted
    <3>5. x = cast'[n].cur => received[n][x] = 0
      BY <1>6, <3>2
    <3>6. x \in cast'[n].steady =>
             x \in cast'[n].todo \/ received[n][x] = 1 \/ x = cast'[n].cur
      BY <1>4, <1>6, <2>1, <2>3, <3>1 DEF Counted
    <3> QED BY <1>4, <3>3, <3>4, <3>5, <3>6 DEF Counted
  <2>4. ~ cast'[n].disturbed => ~ cast'[n].lost /\ \A x \in Account : Counted(n, x)'
    <3>1. ~ cast[n].disturbed => ~ cast[n].lost /\ \A x \in Account : Counted(n, x)
      BY <1>7, <2>2 DEF Reach
    <3> QED BY <1>6, <2>3, <3>1, Zenon
  <2> QED BY <1>6, <2>4 DEF Reach
<1> QED BY <1>0, <1>2, <1>5, <1>8, <1>9, OtherReach DEF ReachInv

\* A traversal that ends has left nobody out who has stayed.
LEMMA AnswerReach ==
    ASSUME ShapeInv, WayInv, AimInv, ReachInv, NEW from \in {"begin", "next"}, NEW n, NEW at,
           Answering(from, n, at), at = "done" => from = "next" /\ Rest(cast[n]) = {}
    PROVE  ReachInv'
<1>0. MailInv
  BY DEF ShapeInv
<1>1. /\ Others(n) /\ Answered(n, at) /\ n \in Chat /\ cast[n] \in CastType
      /\ cast'[n].at = at /\ at \in {"done", "failed"} /\ UNCHANGED received
  BY AnswerHop
<1>2. PICK h \in Coroutine, m \in Coroutine :
         Hop(h, m) /\ InFlight(h) /\ h.at = from /\ h.n = n /\ m.n = n
  BY AnswerHop
<1>3. \A k \in Chat : k # n => Rests(k)
  BY <1>1 DEF Others, Rests
<1>4. cast'[n].disturbed = cast[n].disturbed /\ cast'[n].steady = cast[n].steady
  BY <1>1 DEF Answered, CastType
<1>5. ASSUME at = "done", ~ cast[n].disturbed, NEW b \in Account PROVE Finished(n, b)'
  <2>1. h.at = "next" /\ Rest(cast[n]) = {}
    BY <1>2, <1>5
  <2>2. h.at \in CastLabel /\ h.at \notin GoalLabel /\ h.at \in CalledLabel
    BY <2>1, CastLabels
  <2>3. cast[n].at = "called"
    BY <1>2, <2>2, WayNow
  <2>4. ~ Awaited(n)
    BY <1>2, <2>2, GoalOut DEF Awaited
  <2>5. Counted(n, b) /\ Attended(n)
    BY <1>1, <1>5, <2>3 DEF ReachInv, Reach, AimInv
  <2>6. b \in cast[n].steady => b \notin cast[n].todo
    BY <2>1, <2>3, <2>5 DEF Attended, Rest
  <2> QED BY <1>1, <1>4, <2>4, <2>5, <2>6 DEF Counted, Finished
<1>6. Reach(n)'
  BY <1>1, <1>4, <1>5 DEF Reach
<1> QED BY <1>0, <1>2, <1>3, <1>6, OtherReach DEF ReachInv

LEMMA ClientReach ==
    ASSUME ShapeInv, WayInv, ReachInv, NEW a \in Agent, NEW n \in Chat, ClientChat(a, n)
    PROVE  ReachInv'
<1>0. MailInv
  BY DEF ShapeInv
<1>1. /\ Others(n) /\ cast[n] = NoCast /\ cast'[n].at = "sent" /\ ~ cast'[n].lost
      /\ UNCHANGED received
  BY ClientHop
<1>2. PICK m \in Coroutine : Give(m) /\ m.n = n
  BY ClientHop
<1>3. ASSUME NEW k \in Chat, k # n PROVE Reach(k)'
  <2>1. m \notin Of(k, GoalLabel)
    BY <1>2, <1>3 DEF Of
  <2>2. Awaited(k)' <=> Awaited(k)
    BY <1>0, <1>2, <2>1, GiveInFacts DEF Awaited, Quiet
  <2>3. Rests(k)
    BY <1>1, <1>3 DEF Others, Rests
  <2> QED BY <2>2, <2>3, RestsReach DEF ReachInv
<1>4. Reach(n)'
  <2>1. \A b \in Account : received[n][b] = 0
    BY <1>1 DEF ReachInv, Reach, NoCast
  <2> QED BY <1>1, <2>1 DEF Reach
<1> QED BY <1>3, <1>4 DEF ReachInv

LEMMA OnlineReach ==
    ASSUME ShapeInv, LifeInv, ReachInv, Apart, Online
    PROVE  ReachInv'
<1>1. CastOK /\ Insert(onlineTab') /\ UNCHANGED received
  BY OnlineTable DEF ShapeInv, DataOK, Online
<1>2. ASSUME NEW n \in Chat PROVE Reach(n)'
  <2>1. CASE cast'[n] = cast[n]
    <3>1. Rests(n)
      BY <1>1, <2>1 DEF Rests
    <3> QED BY <3>1, RestsReach, ApartAwaits DEF ReachInv
  <2>2. CASE Shaken(cast[n], cast'[n])
    <3>1. cast'[n].disturbed /\ cast'[n].at = "called"
      BY <1>1, <2>2, ShakenKeeps DEF CastOK, Shaken
    <3> QED BY <3>1 DEF Reach
  <2> QED BY <1>1, <2>1, <2>2, InsertCast
<1> QED BY <1>2 DEF ReachInv

LEMMA OfflineReach ==
    ASSUME ReachInv, Apart, Offline
    PROVE  ReachInv'
<1>1. \A n \in Chat : Rests(n)
  BY DEF Offline, Rests
<1> QED BY <1>1, ApartReach

LEMMA LeaveReach ==
    ASSUME ShapeInv, ReachInv, Apart, NEW a \in Agent, Leave(a)
    PROVE  ReachInv'
<1>1. UNCHANGED received
  BY DEF Leave
<1>2. ASSUME NEW n \in Chat PROVE Rests(n)
  BY <1>1, LeaveKeeps DEF Rests
<1> QED BY <1>2, ApartReach

LEMMA ReachStep ==
    ShapeInv /\ LifeInv /\ WayInv /\ NameInv /\ AimInv /\ ReachInv /\ [Next]_vars => ReachInv'
<1> SUFFICES ASSUME ShapeInv, LifeInv, WayInv, NameInv, AimInv, ReachInv, [Next]_vars
             PROVE  ReachInv'
  OBVIOUS
<1>1. CASE Passing
  BY <1>1, PassingReach
<1>2. CASE Moving
  BY <1>2, MovingReach DEF Moving
<1>3. CASE Returning
  BY <1>3, ReturningReach DEF Returning
<1>4. CASE Visits
  BY <1>4, VisitReach DEF Visits
<1>5. CASE Ending
  BY <1>5, AnswerReach DEF Ending
<1>6. CASE \E a \in Agent, n \in Chat : ClientChat(a, n)
  BY <1>6, ClientReach
<1>7. CASE Apart /\ (Online \/ Offline \/ \E a \in Agent : Leave(a))
  BY <1>7, OnlineReach, OfflineReach, LeaveReach
<1> QED BY <1>1, <1>2, <1>3, <1>4, <1>5, <1>6, <1>7, Kinds

LEMMA ReachInit == Init => ReachInv
<1> SUFFICES ASSUME Init, NEW n \in Chat PROVE Reach(n)
  BY DEF ReachInv
<1>1. cast[n] = NoCast /\ received[n] = [account \in Account |-> 0]
  BY DEF Init
<1>2. cast[n].at = "none" /\ ~ cast[n].lost
  BY <1>1 DEF NoCast
<1>3. \A b \in Account : received[n][b] = 0
  BY <1>1
<1> QED BY <1>2, <1>3 DEF Reach

LEMMA ReachHolds == Spec => []ReachInv
<1>1. Init => ReachInv
  BY ReachInit
<1>2. ShapeInv /\ LifeInv /\ WayInv /\ NameInv /\ AimInv /\ ReachInv /\ [Next]_vars => ReachInv'
  BY ReachStep
<1> QED BY <1>1, <1>2, ShapeHolds, LifeHolds, WayHolds, NameHolds, AimHolds, PTL DEF Spec

\* A broadcast that no login disturbed has reached whoever was online from its
\* beginning to its end exactly once, and nobody twice (Chat!Reached), for any number
\* of accounts and messages, whoever logs out meanwhile: next skips an account that
\* has left, and an agent that the table names writes what it is called for.
THEOREM ReachedHolds == Spec => []Reached
<1>1. ASSUME ShapeInv, ReachInv PROVE Reached
  <2>1. \A n \in Chat : cast[n].steady \subseteq Account
    BY <1>1 DEF ShapeInv, DataOK, CastOK, CastType
  <2> QED BY <1>1, <2>1 DEF ReachInv, Reach, Finished, Reached
<1> QED BY <1>1, ShapeHolds, ReachHolds, PTL
=============================================================================
