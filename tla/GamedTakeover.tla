--------------------------- MODULE GamedTakeover ---------------------------
(***************************************************************************)
(* Takeovers of the gateway, under the discipline "takeover" and with no   *)
(* client that drops before it has its agent, for any sockets, accounts    *)
(* and bounds.  Without these two premises the properties are false, and   *)
(* the README has the schedules.                                           *)
(*                                                                         *)
(* The handlers of gamed.lua, gateserver.lua and agent.lua take their      *)
(* turns in the mailboxes, and what keeps them apart is that each socket   *)
(* has one coroutine at a time that has to do with its coming and going.   *)
(* Where that coroutine is, is the stage of the socket.  Explains says     *)
(* what each stage implies for the tables of the gate, for the agents and  *)
(* for the records, and which stages two sockets of one account can be in  *)
(* at a time (Before); it is inductive together with IInv.                 *)
(*                                                                         *)
(* The stages and the agents of the sockets are no variables of Gamed;     *)
(* Explained says that there are some, and the lemma on an action names    *)
(* those after the step.                                                   *)
(*                                                                         *)
(* Over the stages, FrameInv follows the frames a client sends after its   *)
(* login: which numbers are in the mailbox of the gate, in pending_msg, in *)
(* the mailbox of the agent and served, and what a close is behind.        *)
(***************************************************************************)
EXTENDS GamedProofs, FiniteSetTheorems

-----------------------------------------------------------------------------
(* Queues: a set of coroutines is not in a queue, is in it once at most, is*)
(* ahead of another set.                                                   *)

Free(q, B) == \A i \in 1 .. Len(q) : q[i] \notin B
AtMost(q, B) == \A i, j \in 1 .. Len(q) : q[i] \in B /\ q[j] \in B => i = j
Ahead(q, X, Y) == \A i, j \in 1 .. Len(q) : q[i] \in X /\ q[j] \in Y => i < j

\* What is left of a queue when its head is taken.
LEMMA TailIndex ==
    ASSUME NEW C, NEW q \in Seq(C), q # << >>, NEW t, t = Tail(q)
    PROVE  /\ t \in Seq(C) /\ Head(q) \in C /\ Head(q) = q[1] /\ 1 \in 1 .. Len(q)
           /\ Len(t) \in Nat /\ Len(q) \in Nat
           /\ \A i \in 1 .. Len(t) : t[i] = q[i + 1] /\ i + 1 \in 1 .. Len(q)
           /\ \A k \in 1 .. Len(q) : k = 1 \/ (k - 1 \in 1 .. Len(t) /\ q[k] = t[k - 1])
<1>1. /\ t \in Seq(C) /\ Len(q) \in Nat /\ Len(q) >= 1
      /\ Len(t) = Len(q) - 1 /\ Head(q) = q[1] /\ q[1] \in C
  OBVIOUS
<1>2. \A i \in 1 .. Len(t) : t[i] = q[i + 1] /\ i + 1 \in 1 .. Len(q)
  OBVIOUS
<1>3. \A k \in 1 .. Len(q) : k = 1 \/ (k - 1 \in 1 .. Len(t) /\ q[k] = t[k - 1])
  <2> SUFFICES ASSUME NEW k \in 1 .. Len(q), k # 1
               PROVE  k - 1 \in 1 .. Len(t) /\ q[k] = t[k - 1]
    OBVIOUS
  <2>1. k - 1 \in 1 .. Len(t) /\ (k - 1) + 1 = k
    BY <1>1
  <2> QED BY <1>2, <2>1
<1> QED BY <1>1, <1>2, <1>3

LEMMA TailFacts ==
    ASSUME NEW C, NEW q \in Seq(C), q # << >>, NEW t, t = Tail(q), NEW B
    PROVE  /\ Free(q, B) => Free(t, B) /\ Head(q) \notin B
           /\ Free(t, B) /\ Head(q) \notin B => Free(q, B)
           /\ AtMost(q, B) => AtMost(t, B)
           /\ AtMost(q, B) /\ Head(q) \in B => Free(t, B)
<1>1. Free(q, B) => Free(t, B) /\ Head(q) \notin B
  BY TailIndex DEF Free
<1>2. Free(t, B) /\ Head(q) \notin B => Free(q, B)
  BY TailIndex DEF Free
<1>3. AtMost(q, B) => AtMost(t, B)
  <2> SUFFICES ASSUME AtMost(q, B), NEW i \in 1 .. Len(t), NEW j \in 1 .. Len(t),
                      t[i] \in B, t[j] \in B
               PROVE  i = j
    BY DEF AtMost
  <2>1. /\ t[i] = q[i + 1] /\ i + 1 \in 1 .. Len(q)
        /\ t[j] = q[j + 1] /\ j + 1 \in 1 .. Len(q)
    BY TailIndex
  <2>2. i + 1 = j + 1
    BY <2>1 DEF AtMost
  <2> QED BY <2>2
<1>4. AtMost(q, B) /\ Head(q) \in B => Free(t, B)
  <2> SUFFICES ASSUME AtMost(q, B), Head(q) \in B, NEW i \in 1 .. Len(t), t[i] \in B
               PROVE  FALSE
    BY DEF Free
  <2>1. /\ t[i] = q[i + 1] /\ i + 1 \in 1 .. Len(q)
        /\ Head(q) = q[1] /\ 1 \in 1 .. Len(q)
    BY TailIndex
  <2>2. i + 1 = 1
    BY <2>1 DEF AtMost
  <2> QED BY <2>2
<1> QED BY <1>1, <1>2, <1>3, <1>4

LEMMA TailAhead ==
    ASSUME NEW C, NEW q \in Seq(C), q # << >>, NEW t, t = Tail(q), NEW X, NEW Y,
           Ahead(q, X, Y)
    PROVE  /\ Ahead(t, X, Y)
           /\ Head(q) \in Y => Free(q, X)
<1>1. Ahead(t, X, Y)
  <2> SUFFICES ASSUME NEW i \in 1 .. Len(t), NEW j \in 1 .. Len(t), t[i] \in X, t[j] \in Y
               PROVE  i < j
    BY DEF Ahead
  <2>1. /\ t[i] = q[i + 1] /\ i + 1 \in 1 .. Len(q)
        /\ t[j] = q[j + 1] /\ j + 1 \in 1 .. Len(q)
    BY TailIndex
  <2>2. i + 1 < j + 1
    BY <2>1 DEF Ahead
  <2> QED BY <2>2
<1>2. Head(q) \in Y => Free(q, X)
  BY TailIndex DEF Ahead, Free
<1> QED BY <1>1, <1>2

\* A queue with one more coroutine at its end.
LEMMA AppendIndex ==
    ASSUME NEW C, NEW q \in Seq(C), NEW m \in C, NEW t, t = Append(q, m)
    PROVE  /\ t \in Seq(C) /\ Len(q) + 1 \in 1 .. Len(t) /\ t[Len(q) + 1] = m
           /\ Len(q) \in Nat
           /\ \A i \in 1 .. Len(q) : t[i] = q[i] /\ i \in 1 .. Len(t) /\ i < Len(q) + 1
           /\ \A i \in 1 .. Len(t) : i \in 1 .. Len(q) \/ i = Len(q) + 1
OBVIOUS

LEMMA AppendFacts ==
    ASSUME NEW C, NEW q \in Seq(C), NEW m \in C, NEW t, t = Append(q, m), NEW B
    PROVE  /\ Free(t, B) <=> Free(q, B) /\ m \notin B
           /\ AtMost(q, B) /\ (m \notin B \/ Free(q, B)) => AtMost(t, B)
<1>1. Free(t, B) <=> Free(q, B) /\ m \notin B
  BY AppendIndex DEF Free
<1>2. AtMost(q, B) /\ (m \notin B \/ Free(q, B)) => AtMost(t, B)
  <2> SUFFICES ASSUME AtMost(q, B), m \notin B \/ Free(q, B),
                      NEW i \in 1 .. Len(t), NEW j \in 1 .. Len(t), t[i] \in B, t[j] \in B
               PROVE  i = j
    BY DEF AtMost
  <2>1. \A k \in 1 .. Len(t) : (k \in 1 .. Len(q) /\ t[k] = q[k]) \/ (k = Len(q) + 1 /\ t[k] = m)
    BY AppendIndex
  <2>2. CASE m \notin B
    BY <2>1, <2>2 DEF AtMost
  <2>3. CASE Free(q, B)
    BY <2>1, <2>3 DEF Free
  <2> QED BY <2>2, <2>3
<1> QED BY <1>1, <1>2

LEMMA AppendAhead ==
    ASSUME NEW C, NEW q \in Seq(C), NEW m \in C, NEW t, t = Append(q, m), NEW X, NEW Y
    PROVE  /\ Ahead(q, X, Y) /\ m \notin X => Ahead(t, X, Y)
           /\ Free(q, Y) /\ m \notin X => Ahead(t, X, Y)
           /\ Free(q, Y) /\ m \notin Y => Ahead(t, X, Y)
<1>1. Ahead(q, X, Y) /\ m \notin X => Ahead(t, X, Y)
  <2> SUFFICES ASSUME Ahead(q, X, Y), m \notin X,
                      NEW i \in 1 .. Len(t), NEW j \in 1 .. Len(t), t[i] \in X, t[j] \in Y
               PROVE  i < j
    BY DEF Ahead
  <2>1. /\ i \in 1 .. Len(q) /\ t[i] = q[i] /\ i < Len(q) + 1
        /\ (j \in 1 .. Len(q) /\ t[j] = q[j]) \/ j = Len(q) + 1
    BY AppendIndex
  <2> QED BY <2>1 DEF Ahead
<1>2. Free(q, Y) => Ahead(q, X, Y)
  BY DEF Free, Ahead
<1>3. Free(q, Y) /\ m \notin Y => Ahead(t, X, Y)
  BY AppendFacts DEF Free, Ahead
<1> QED BY <1>1, <1>2, <1>3

-----------------------------------------------------------------------------
(* Mailboxes and the coroutines that wait for the database.  A set of      *)
(* coroutines is gone from them, or has one coroutine in them at most.     *)

Gone(mb, ex, B) == /\ \A s \in Service : Free(mb[s], B)
                   /\ \A m \in ex : m \notin B
Alone(mb, ex, B) ==
    /\ \A s \in Service : AtMost(mb[s], B)
    /\ \A s, t \in Service : s = t \/ Free(mb[s], B) \/ Free(mb[t], B)
    /\ \A m \in ex : m \in B =>
          /\ \A s \in Service : Free(mb[s], B)
          /\ \A n \in ex : n \in B => n = m
Flying(mb, ex, m) ==
    m \in ex \/ \E s \in Service : \E i \in 1 .. Len(mb[s]) : mb[s][i] = m

Mail == [Service -> Seq(GoodMsg)]

\* Who is alone somewhere is nowhere else.
LEMMA AloneTwice ==
    ASSUME NEW mb, NEW ex, NEW B, Alone(mb, ex, B), NEW m \in B, NEW n \in B,
           Flying(mb, ex, m), Flying(mb, ex, n)
    PROVE  m = n
BY DEF Alone, Flying, Free, AtMost

LEMMA GoneFlying ==
    ASSUME NEW mb, NEW ex, NEW B
    PROVE  Gone(mb, ex, B) <=> \A m \in B : ~ Flying(mb, ex, m)
BY DEF Gone, Flying, Free

LEMMA GoneAlone ==
    ASSUME NEW mb, NEW ex, NEW B, Gone(mb, ex, B)
    PROVE  Alone(mb, ex, B)
BY DEF Gone, Alone, Free, AtMost

\* A coroutine is taken out of a mailbox.
LEMMA TakeMail ==
    ASSUME NEW mb \in Mail, NEW s \in Service, mb[s] # << >>,
           NEW nb, nb = [mb EXCEPT ![s] = Tail(@)]
    PROVE  /\ nb \in Mail /\ Head(mb[s]) \in GoodMsg /\ mb[s] \in Seq(GoodMsg)
           /\ nb[s] = Tail(mb[s])
           /\ \A t \in Service : t # s => nb[t] = mb[t]
<1>1. mb[s] \in Seq(GoodMsg)
  BY DEF Mail
<1>2. nb[s] = Tail(mb[s]) /\ \A t \in Service : t # s => nb[t] = mb[t]
  BY DEF Mail
<1>3. Tail(mb[s]) \in Seq(GoodMsg) /\ Head(mb[s]) \in GoodMsg
  BY <1>1
<1>4. nb \in Mail
  BY <1>3 DEF Mail
<1> QED BY <1>1, <1>2, <1>3, <1>4

\* A coroutine is put into a mailbox.
LEMMA GiveMail ==
    ASSUME NEW mb \in Mail, NEW d \in Service, NEW m \in GoodMsg,
           NEW nb, nb = [mb EXCEPT ![d] = Append(@, m)]
    PROVE  /\ nb \in Mail /\ mb[d] \in Seq(GoodMsg)
           /\ nb[d] = Append(mb[d], m)
           /\ \A t \in Service : t # d => nb[t] = mb[t]
<1>1. mb[d] \in Seq(GoodMsg)
  BY DEF Mail
<1>2. nb[d] = Append(mb[d], m) /\ \A t \in Service : t # d => nb[t] = mb[t]
  BY DEF Mail
<1>3. Append(mb[d], m) \in Seq(GoodMsg)
  BY <1>1
<1>4. nb \in Mail
  BY <1>3 DEF Mail
<1> QED BY <1>1, <1>2, <1>4

\* The coroutine m is taken from where it waits; it is put somewhere.
Takes(mb, ex, nb, nx, m) ==
    \/ \E s \in Service : /\ mb[s] # << >> /\ m = Head(mb[s])
                          /\ nb = [mb EXCEPT ![s] = Tail(@)] /\ nx = ex
    \/ m \in ex /\ nb = mb /\ nx = ex \ {m}
Gives(mb, ex, nb, nx, m) ==
    \/ \E d \in Service : nb = [mb EXCEPT ![d] = Append(@, m)] /\ nx = ex
    \/ nb = mb /\ nx = ex \cup {m}

\* What taking a coroutine does to the whereabouts of a set B.
LEMMA TakeFacts ==
    ASSUME NEW mb \in Mail, NEW ex, ex \subseteq GoodMsg, NEW nb, NEW nx, NEW h,
           Takes(mb, ex, nb, nx, h), NEW B
    PROVE  /\ \A t \in Service : /\ Free(mb[t], B) => Free(nb[t], B)
                                 /\ h \notin B => (Free(nb[t], B) => Free(mb[t], B))
           /\ h \notin B => (Gone(nb, nx, B) => Gone(mb, ex, B))
           /\ Gone(mb, ex, B) => Gone(nb, nx, B) /\ h \notin B
           /\ Alone(mb, ex, B) => Alone(nb, nx, B)
           /\ Alone(mb, ex, B) /\ h \in B => Gone(nb, nx, B)
<1> DEFINE Goal ==
        /\ \A t \in Service : /\ Free(mb[t], B) => Free(nb[t], B)
                              /\ h \notin B => (Free(nb[t], B) => Free(mb[t], B))
        /\ h \notin B => (Gone(nb, nx, B) => Gone(mb, ex, B))
        /\ Gone(mb, ex, B) => Gone(nb, nx, B) /\ h \notin B
        /\ Alone(mb, ex, B) => Alone(nb, nx, B)
        /\ Alone(mb, ex, B) /\ h \in B => Gone(nb, nx, B)
<1>1. CASE h \in ex /\ nb = mb /\ nx = ex \ {h}
  BY <1>1 DEF Gone, Alone
<1>2. ASSUME NEW s \in Service, mb[s] # << >>, h = Head(mb[s]),
             nb = [mb EXCEPT ![s] = Tail(@)], nx = ex
      PROVE  Goal
  <2> HIDE DEF Goal
  <2>1. /\ mb[s] \in Seq(GoodMsg) /\ nb[s] = Tail(mb[s])
        /\ \A t \in Service : t # s => nb[t] = mb[t]
    <3>1. mb[s] \in Seq(GoodMsg)
      BY <1>2, TakeMail
    <3>2. nb[s] = Tail(mb[s])
      BY <1>2, TakeMail
    <3>3. \A t \in Service : t # s => nb[t] = mb[t]
      BY <1>2, TakeMail
    <3> QED BY <3>1, <3>2, <3>3
  <2>2. /\ Free(mb[s], B) => Free(nb[s], B) /\ h \notin B
        /\ Free(nb[s], B) /\ h \notin B => Free(mb[s], B)
        /\ AtMost(mb[s], B) => AtMost(nb[s], B)
        /\ AtMost(mb[s], B) /\ h \in B => Free(nb[s], B)
    BY <1>2, <2>1, TailFacts
  <2>3. \A t \in Service : /\ Free(mb[t], B) => Free(nb[t], B)
                           /\ h \notin B => (Free(nb[t], B) => Free(mb[t], B))
                           /\ AtMost(mb[t], B) => AtMost(nb[t], B)
    <3> SUFFICES ASSUME NEW t \in Service
                 PROVE  /\ Free(mb[t], B) => Free(nb[t], B)
                        /\ h \notin B => (Free(nb[t], B) => Free(mb[t], B))
                        /\ AtMost(mb[t], B) => AtMost(nb[t], B)
      OBVIOUS
    <3> QED BY <2>1, <2>2
  <2>4. Gone(mb, ex, B) => Gone(nb, nx, B) /\ h \notin B
    BY <1>2, <2>2, <2>3 DEF Gone
  <2>5. h \notin B /\ Gone(nb, nx, B) => Gone(mb, ex, B)
    BY <1>2, <2>3 DEF Gone
  <2>6. Alone(mb, ex, B) => Alone(nb, nx, B)
    BY <1>2, <2>3 DEF Alone
  <2>7. Alone(mb, ex, B) /\ h \in B => Gone(nb, nx, B)
    <3> SUFFICES ASSUME Alone(mb, ex, B), h \in B PROVE Gone(nb, nx, B)
      OBVIOUS
    <3>1. ~ Free(mb[s], B)
      BY <2>2
    <3>2. \A t \in Service : t # s => Free(mb[t], B)
      BY <3>1 DEF Alone
    <3>3. Free(nb[s], B)
      BY <2>2 DEF Alone
    <3>4. \A m \in ex : m \notin B
      BY <3>1 DEF Alone
    <3> QED BY <1>2, <2>3, <3>2, <3>3, <3>4 DEF Gone
  <2> QED BY <2>3, <2>4, <2>5, <2>6, <2>7 DEF Goal
<1>3. CASE \E s \in Service : /\ mb[s] # << >> /\ h = Head(mb[s])
                              /\ nb = [mb EXCEPT ![s] = Tail(@)] /\ nx = ex
  BY <1>2, <1>3
<1> QED BY <1>1, <1>3 DEF Takes

\* The coroutine taken was there, the others still are where they were.
LEMMA TakeFlying ==
    ASSUME NEW mb \in Mail, NEW ex, ex \subseteq GoodMsg, NEW nb, NEW nx, NEW h,
           Takes(mb, ex, nb, nx, h)
    PROVE  /\ nb \in Mail /\ nx \subseteq GoodMsg /\ h \in GoodMsg
           /\ Flying(mb, ex, h)
           /\ \A m : Flying(nb, nx, m) => Flying(mb, ex, m)
<1>1. h \in ex => Flying(mb, ex, h)
  BY DEF Flying
<1>2. ASSUME NEW s \in Service, mb[s] # << >>, h = Head(mb[s]),
             nb = [mb EXCEPT ![s] = Tail(@)], nx = ex
      PROVE  /\ nb \in Mail /\ h \in GoodMsg /\ Flying(mb, ex, h)
  <2>1. nb \in Mail /\ h \in GoodMsg /\ mb[s] \in Seq(GoodMsg)
    BY <1>2, TakeMail
  <2>2. h = mb[s][1] /\ 1 \in 1 .. Len(mb[s])
    BY <1>2, <2>1
  <2> QED BY <2>1, <2>2 DEF Flying
<1>3. nb \in Mail /\ h \in GoodMsg /\ Flying(mb, ex, h)
  BY <1>1, <1>2 DEF Takes
<1>4. nx \subseteq ex
  BY DEF Takes
<1>5. ASSUME NEW m, Flying(nb, nx, m) PROVE Flying(mb, ex, m)
  <2>1. \A t \in Service : Free(mb[t], {m}) => Free(nb[t], {m})
    BY TakeFacts
  <2>2. (\E t \in Service : ~ Free(nb[t], {m})) => \E t \in Service : ~ Free(mb[t], {m})
    BY <2>1
  <2> QED BY <1>4, <1>5, <2>2 DEF Flying, Free
<1> QED BY <1>3, <1>4, <1>5

\* What giving a coroutine does to the whereabouts of a set B.
LEMMA GiveFacts ==
    ASSUME NEW mb \in Mail, NEW ex, ex \subseteq GoodMsg, NEW nb, NEW nx,
           NEW m \in GoodMsg, Gives(mb, ex, nb, nx, m), NEW B
    PROVE  /\ \A t \in Service : /\ Free(nb[t], B) => Free(mb[t], B)
                                 /\ m \notin B => (Free(mb[t], B) => Free(nb[t], B))
           /\ m \notin B => /\ Gone(mb, ex, B) => Gone(nb, nx, B)
                            /\ Alone(mb, ex, B) => Alone(nb, nx, B)
           /\ Gone(nb, nx, B) => Gone(mb, ex, B) /\ m \notin B
           /\ Gone(mb, ex, B) => Alone(nb, nx, B)
<1> DEFINE Goal ==
        /\ \A t \in Service : /\ Free(nb[t], B) => Free(mb[t], B)
                              /\ m \notin B => (Free(mb[t], B) => Free(nb[t], B))
        /\ m \notin B => /\ Gone(mb, ex, B) => Gone(nb, nx, B)
                         /\ Alone(mb, ex, B) => Alone(nb, nx, B)
        /\ Gone(nb, nx, B) => Gone(mb, ex, B) /\ m \notin B
        /\ Gone(mb, ex, B) => Alone(nb, nx, B)
<1>1. CASE nb = mb /\ nx = ex \cup {m}
  BY <1>1 DEF Gone, Alone, Free, AtMost
<1>2. ASSUME NEW d \in Service, nb = [mb EXCEPT ![d] = Append(@, m)], nx = ex
      PROVE  Goal
  <2>1. /\ mb[d] \in Seq(GoodMsg) /\ nb[d] = Append(mb[d], m)
        /\ \A t \in Service : t # d => nb[t] = mb[t]
    BY <1>2, GiveMail
  <2>2. /\ Free(nb[d], B) <=> Free(mb[d], B) /\ m \notin B
        /\ AtMost(mb[d], B) /\ (m \notin B \/ Free(mb[d], B)) => AtMost(nb[d], B)
    BY <2>1, AppendFacts
  <2>3. \A t \in Service :
           /\ Free(nb[t], B) => Free(mb[t], B)
           /\ m \notin B => (Free(mb[t], B) => Free(nb[t], B))
           /\ AtMost(mb[t], B) /\ (m \notin B \/ Free(mb[d], B)) => AtMost(nb[t], B)
    <3> SUFFICES ASSUME NEW t \in Service
                 PROVE  /\ Free(nb[t], B) => Free(mb[t], B)
                        /\ m \notin B => (Free(mb[t], B) => Free(nb[t], B))
                        /\ AtMost(mb[t], B) /\ (m \notin B \/ Free(mb[d], B))
                              => AtMost(nb[t], B)
      OBVIOUS
    <3> QED BY <2>1, <2>2
  <2>4. m \notin B => /\ Gone(mb, ex, B) => Gone(nb, nx, B)
                      /\ Alone(mb, ex, B) => Alone(nb, nx, B)
    BY <1>2, <2>3 DEF Gone, Alone
  <2>5. Gone(nb, nx, B) => Gone(mb, ex, B) /\ m \notin B
    BY <1>2, <2>2, <2>3 DEF Gone
  <2>6. Gone(mb, ex, B) => Alone(nb, nx, B)
    <3> SUFFICES ASSUME Gone(mb, ex, B) PROVE Alone(nb, nx, B)
      OBVIOUS
    <3>1. \A t \in Service : Free(mb[t], B) /\ AtMost(mb[t], B)
      BY DEF Gone, Free, AtMost
    <3>2. \A t \in Service : AtMost(nb[t], B)
      BY <2>3, <3>1
    <3>3. \A t \in Service : t # d => Free(nb[t], B)
      BY <2>1, <3>1
    <3>4. \A n \in nx : n \notin B
      BY <1>2 DEF Gone
    <3> QED BY <3>2, <3>3, <3>4 DEF Alone
  <2> QED BY <2>3, <2>4, <2>5, <2>6
<1>3. CASE \E d \in Service : nb = [mb EXCEPT ![d] = Append(@, m)] /\ nx = ex
  BY <1>2, <1>3
<1> QED BY <1>1, <1>3 DEF Gives

\* The coroutine given is there now, besides the others.
LEMMA GiveFlying ==
    ASSUME NEW mb \in Mail, NEW ex, ex \subseteq GoodMsg, NEW nb, NEW nx,
           NEW m \in GoodMsg, Gives(mb, ex, nb, nx, m)
    PROVE  /\ nb \in Mail /\ nx \subseteq GoodMsg
           /\ Flying(nb, nx, m)
           /\ \A n : Flying(nb, nx, n) => Flying(mb, ex, n) \/ n = m
<1>1. nb \in Mail /\ nx \subseteq GoodMsg /\ nx \subseteq ex \cup {m}
  <2>1. CASE nb = mb /\ nx = ex \cup {m}
    BY <2>1
  <2>2. ASSUME NEW d \in Service, nb = [mb EXCEPT ![d] = Append(@, m)], nx = ex
        PROVE  nb \in Mail
    BY <2>2, GiveMail
  <2> QED BY <2>1, <2>2 DEF Gives
<1>2. Flying(nb, nx, m)
  <2>1. ~ Gone(nb, nx, {m})
    BY GiveFacts
  <2> QED BY <2>1 DEF Gone, Free, Flying
<1>3. ASSUME NEW n, Flying(nb, nx, n), n # m PROVE Flying(mb, ex, n)
  <2>1. \A t \in Service : Free(mb[t], {n}) => Free(nb[t], {n})
    BY <1>3, GiveFacts
  <2>2. (\E t \in Service : ~ Free(nb[t], {n})) => \E t \in Service : ~ Free(mb[t], {n})
    BY <2>1
  <2> QED BY <1>1, <1>3, <2>2 DEF Flying, Free
<1> QED BY <1>1, <1>2, <1>3

\* A step of a service, of the socket thread or of a service outside takes the
\* coroutines T, one or none, from where they wait, and puts N somewhere.
Moves(T, N) ==
    \E mb, ex :
        /\ \/ T = {} /\ mb = mbox /\ ex = ext
           \/ \E h : T = {h} /\ Takes(mbox, ext, mb, ex, h)
        /\ \/ N = {} /\ mbox' = mb /\ ext' = ex
           \/ \E m \in GoodMsg : N = {m} /\ Gives(mb, ex, mbox', ext', m)

Flies(m) == Flying(mbox, ext, m)

\* What a step does to the whereabouts of a set B.
LEMMA MoveFacts ==
    ASSUME mbox \in Mail, ext \subseteq GoodMsg, NEW T, NEW N, Moves(T, N), NEW B
    PROVE  /\ mbox' \in Mail /\ ext' \subseteq GoodMsg
           /\ T \subseteq GoodMsg /\ N \subseteq GoodMsg
           /\ \A h \in T : Flies(h)
           /\ \A m : Flies(m)' => Flies(m) \/ m \in N
           /\ Alone(mbox, ext, B) /\ N \cap B = {} => Alone(mbox', ext', B)
           /\ Gone(mbox, ext, B) => Alone(mbox', ext', B)
           /\ Alone(mbox, ext, B) /\ T \cap B # {} =>
                /\ Alone(mbox', ext', B)
                /\ \A m \in B : Flies(m)' => m \in N
           /\ T \cap B = {} =>
                \A t \in Service : ~ Free(mbox[t], B) => ~ Free(mbox'[t], B)
<1>1. PICK mb, ex :
        /\ \/ T = {} /\ mb = mbox /\ ex = ext
           \/ \E h : T = {h} /\ Takes(mbox, ext, mb, ex, h)
        /\ \/ N = {} /\ mbox' = mb /\ ext' = ex
           \/ \E m \in GoodMsg : N = {m} /\ Gives(mb, ex, mbox', ext', m)
  BY DEF Moves
<1>2. /\ mb \in Mail /\ ex \subseteq GoodMsg /\ T \subseteq GoodMsg
      /\ \A h \in T : Flies(h)
      /\ \A m : Flying(mb, ex, m) => Flies(m)
  <2>1. CASE T = {} /\ mb = mbox /\ ex = ext
    BY <2>1 DEF Flies
  <2>2. ASSUME NEW h, T = {h}, Takes(mbox, ext, mb, ex, h)
        PROVE  <1>2!:
    BY <2>2, TakeFlying DEF Flies
  <2> QED BY <1>1, <2>1, <2>2
<1>3. /\ Alone(mbox, ext, B) => Alone(mb, ex, B)
      /\ Gone(mbox, ext, B) => Gone(mb, ex, B)
      /\ Alone(mbox, ext, B) /\ T \cap B # {} => Gone(mb, ex, B)
      /\ T \cap B = {} =>
            \A t \in Service : ~ Free(mbox[t], B) => ~ Free(mb[t], B)
  <2>1. CASE T = {} /\ mb = mbox /\ ex = ext
    BY <2>1
  <2>2. ASSUME NEW h, T = {h}, Takes(mbox, ext, mb, ex, h)
        PROVE  <1>3!:
    BY <2>2, TakeFacts
  <2> QED BY <1>1, <2>1, <2>2
<1>4. /\ mbox' \in Mail /\ ext' \subseteq GoodMsg /\ N \subseteq GoodMsg
      /\ \A m : Flies(m)' => Flying(mb, ex, m) \/ m \in N
  <2>1. CASE N = {} /\ mbox' = mb /\ ext' = ex
    BY <1>2, <2>1 DEF Flies
  <2>2. ASSUME NEW m \in GoodMsg, N = {m}, Gives(mb, ex, mbox', ext', m)
        PROVE  <1>4!:
    BY <1>2, <2>2, GiveFlying DEF Flies
  <2> QED BY <1>1, <2>1, <2>2
<1>5. /\ Alone(mb, ex, B) /\ N \cap B = {} => Alone(mbox', ext', B)
      /\ Gone(mb, ex, B) => Alone(mbox', ext', B)
      /\ \A t \in Service : ~ Free(mb[t], B) => ~ Free(mbox'[t], B)
  <2>1. CASE N = {} /\ mbox' = mb /\ ext' = ex
    BY <2>1, GoneAlone
  <2>2. ASSUME NEW m \in GoodMsg, N = {m}, Gives(mb, ex, mbox', ext', m)
        PROVE  <1>5!:
    BY <1>2, <2>2, GiveFacts
  <2> QED BY <1>1, <2>1, <2>2
<1>6. Gone(mb, ex, B) => \A m \in B : Flies(m)' => m \in N
  BY <1>4, GoneFlying
<1> QED BY <1>2, <1>3, <1>4, <1>5, <1>6

LEMMA MoveAhead ==
    ASSUME mbox \in Mail, ext \subseteq GoodMsg, NEW T, NEW N, Moves(T, N),
           NEW t \in Service, NEW X, NEW Y, Ahead(mbox[t], X, Y), N \cap X = {}
    PROVE  Ahead(mbox'[t], X, Y)
<1>1. PICK mb, ex :
        /\ \/ T = {} /\ mb = mbox /\ ex = ext
           \/ \E h : T = {h} /\ Takes(mbox, ext, mb, ex, h)
        /\ \/ N = {} /\ mbox' = mb /\ ext' = ex
           \/ \E m \in GoodMsg : N = {m} /\ Gives(mb, ex, mbox', ext', m)
  BY DEF Moves
<1>2. mb \in Mail /\ Ahead(mb[t], X, Y)
  <2>1. CASE T = {} /\ mb = mbox /\ ex = ext
    BY <2>1
  <2>2. ASSUME NEW h, T = {h}, Takes(mbox, ext, mb, ex, h)
        PROVE  mb \in Mail /\ Ahead(mb[t], X, Y)
    <3>1. mb \in Mail
      BY <2>2, TakeFlying
    <3>2. CASE mb = mbox
      BY <3>1, <3>2
    <3>3. ASSUME NEW s \in Service, mbox[s] # << >>, mb = [mbox EXCEPT ![s] = Tail(@)]
          PROVE  Ahead(mb[t], X, Y)
      <4>1. /\ mbox[s] \in Seq(GoodMsg) /\ mb[s] = Tail(mbox[s])
            /\ (t # s => mb[t] = mbox[t])
        <5>1. mbox[s] \in Seq(GoodMsg)
          BY <3>3, TakeMail
        <5>2. mb[s] = Tail(mbox[s])
          BY <3>3, TakeMail
        <5>3. t # s => mb[t] = mbox[t]
          BY <3>3, TakeMail
        <5> QED BY <5>1, <5>2, <5>3
      <4>2. CASE t = s
        BY <3>3, <4>1, <4>2, TailAhead
      <4> QED BY <4>1, <4>2
    <3> QED BY <2>2, <3>1, <3>2, <3>3 DEF Takes
  <2> QED BY <1>1, <2>1, <2>2
<1>3. CASE N = {} /\ mbox' = mb
  BY <1>2, <1>3
<1>4. ASSUME NEW m \in GoodMsg, N = {m}, Gives(mb, ex, mbox', ext', m)
      PROVE  Ahead(mbox'[t], X, Y)
  <2>1. CASE mbox' = mb
    BY <1>2, <2>1
  <2>2. ASSUME NEW d \in Service, mbox' = [mb EXCEPT ![d] = Append(@, m)]
        PROVE  Ahead(mbox'[t], X, Y)
    <3>1. /\ mb[d] \in Seq(GoodMsg) /\ mbox'[d] = Append(mb[d], m)
          /\ (t # d => mbox'[t] = mb[t])
      BY <1>2, <2>2, GiveMail
    <3>2. m \notin X
      BY <1>4
    <3>3. CASE t = d
      BY <1>2, <3>1, <3>2, <3>3, AppendAhead
    <3> QED BY <1>2, <3>1, <3>3
  <2> QED BY <1>4, <2>1, <2>2 DEF Gives
<1> QED BY <1>1, <1>3, <1>4

-----------------------------------------------------------------------------
(* Steps of the services.  A coroutine is in the mailbox of the service it *)
(* runs in.                                                                *)

Stray(s) == {m \in GoodMsg : Home(m) # s}
Placed == \A s \in Service : Free(mbox[s], Stray(s))

\* The service s is about to handle c, which is at l.
Handles(s, c, l) ==
    /\ c = Cur(s) /\ c \in GoodMsg /\ c.at = l /\ Home(c) = s /\ Flies(c)
    /\ mbox[s] \in Seq(GoodMsg) /\ mbox[s] # << >> /\ c = mbox[s][1] /\ Len(mbox[s]) \in Nat
    /\ 1 \in 1 .. Len(mbox[s])

LEMMA Handling ==
    ASSUME IInv, Placed, NEW s \in Service, NEW l, At(s, l)
    PROVE  Handles(s, Cur(s), l)
<1>1. mbox[s] \in Seq(GoodMsg) /\ mbox[s] # << >>
  BY DEF IInv, MailInv, Service, At
<1>2. Cur(s) = mbox[s][1] /\ 1 \in 1 .. Len(mbox[s]) /\ Len(mbox[s]) \in Nat /\ Cur(s) \in GoodMsg
  BY <1>1 DEF Cur
<1>3. Home(Cur(s)) = s
  BY <1>2 DEF Placed, Free, Stray
<1> QED BY <1>1, <1>2, <1>3 DEF Handles, At, Cur, Flies, Flying

LEMMA MailOf == ASSUME IInv PROVE mbox \in Mail /\ ext \subseteq GoodMsg
BY DEF IInv, MailInv, Mail, Service

\* What is left is placed as it was, what is put is a message of the service.
LEMMA PlacedMoves ==
    ASSUME mbox \in Mail, ext \subseteq GoodMsg, Placed,
           NEW mb, NEW ex, NEW h, Takes(mbox, ext, mb, ex, h)
    PROVE  \A t \in Service : Free(mb[t], Stray(t))
<1> SUFFICES ASSUME NEW t \in Service PROVE Free(mb[t], Stray(t))
  OBVIOUS
<1>1. Free(mbox[t], Stray(t))
  BY DEF Placed
<1> QED BY <1>1, TakeFacts

LEMMA PlacedPut ==
    ASSUME NEW mb \in Mail, \A t \in Service : Free(mb[t], Stray(t)),
           NEW d \in Service, NEW m \in GoodMsg, Home(m) = d,
           mbox' = [mb EXCEPT ![d] = Append(@, m)]
    PROVE  Placed'
<1>1. \A t \in Service : Free(mbox'[t], Stray(t))
  <2> SUFFICES ASSUME NEW t \in Service PROVE Free(mbox'[t], Stray(t))
    OBVIOUS
  <2>1. Free(mb[t], Stray(t))
    OBVIOUS
  <2>2. mbox'[d] = Append(mb[d], m) /\ mb[d] \in Seq(GoodMsg)
    BY GiveMail
  <2>3. m \notin Stray(d)
    BY DEF Stray
  <2>4. CASE t = d
    <3>1. Free(mb[d], Stray(d))
      OBVIOUS
    <3>2. Free(mbox'[d], Stray(d))
      BY <2>2, <2>3, <3>1, AppendFacts
    <3> QED BY <2>4, <3>2
  <2>5. CASE t # d
    BY <2>1, <2>5, GiveMail
  <2> QED BY <2>4, <2>5
<1> QED BY <1>1 DEF Placed, Stray, Home

\* Each way to end the step of a service.
LEMMA YieldMoves ==
    ASSUME IInv, IInv', Placed, NEW s \in Service, mbox[s] # << >>, NEW m, Yield(s, m)
    PROVE  m \in GoodMsg /\ Moves({Cur(s)}, {m}) /\ Placed'
<1> DEFINE mb == [mbox EXCEPT ![s] = Tail(@)]
<1>1. m \in GoodMsg
  BY MailOf DEF Yield, IInv, MailInv
<1>2. Takes(mbox, ext, mb, ext, Cur(s))
  BY DEF Takes, Cur
<1>3. Gives(mb, ext, mbox', ext', m)
  BY DEF Gives, Yield
<1>4. \A t \in Service : Free(mb[t], Stray(t))
  BY <1>2, MailOf, PlacedMoves
<1>5. mbox' = mb
  BY DEF Yield
<1>6. Placed'
  BY <1>4, <1>5 DEF Placed, Stray, Home
<1> QED BY <1>1, <1>2, <1>3, <1>6 DEF Moves

LEMMA SendMoves ==
    ASSUME IInv, IInv', Placed, NEW s \in Service, mbox[s] # << >>,
           NEW d \in Service, d # s, NEW m, Send(s, d, m)
    PROVE  m \in GoodMsg /\ Moves({Cur(s)}, {m}) /\ (Home(m) = d => Placed')
           /\ ~ Free(mbox'[d], {m})
<1> DEFINE mb == [mbox EXCEPT ![s] = Tail(@)]
<1>1. mbox \in Mail /\ mbox' \in [Service -> Seq(GoodMsg)]
  BY MailOf DEF IInv, MailInv, Service
<1>2. Takes(mbox, ext, mb, ext, Cur(s))
  BY DEF Takes, Cur
<1>3. mb \in Mail
  BY <1>1, <1>2, MailOf, TakeFlying
<1>4. mbox' = [mb EXCEPT ![d] = Append(@, m)] /\ ext' = ext
  <2>1. mbox' = [mbox EXCEPT ![s] = Tail(@), ![d] = Append(@, m)] /\ ext' = ext
    BY DEF Send
  <2>2. \A t \in Service : mbox'[t] = IF t = d THEN Append(mb[t], m) ELSE mb[t]
    BY <1>1, <2>1 DEF Mail
  <2> DEFINE nb == [mb EXCEPT ![d] = Append(@, m)]
  <2>3. nb = [t \in Service |-> IF t = d THEN Append(mb[t], m) ELSE mb[t]]
    BY <1>3 DEF Mail
  <2>4. mbox' = [t \in Service |-> mbox'[t]]
    BY <1>1
  <2> HIDE DEF mb, nb
  <2>5. mbox' = nb
    BY <2>2, <2>3, <2>4
  <2> QED BY <2>1, <2>5 DEF nb
<1>5. mbox'[d] = Append(mb[d], m) /\ mb[d] \in Seq(GoodMsg)
  BY <1>3, <1>4 DEF Mail
<1>6. m = mbox'[d][Len(mb[d]) + 1] /\ Len(mb[d]) + 1 \in 1 .. Len(mbox'[d])
  BY <1>5
<1>7. m \in GoodMsg
  BY <1>1, <1>6
<1>8. Gives(mb, ext, mbox', ext', m)
  BY <1>4 DEF Gives
<1>9. Home(m) = d => Placed'
  <2>1. \A t \in Service : Free(mb[t], Stray(t))
    BY <1>2, MailOf, PlacedMoves
  <2> QED BY <1>3, <1>4, <1>7, <2>1, PlacedPut
<1> QED BY <1>2, <1>6, <1>7, <1>8, <1>9 DEF Moves, Free

LEMMA EndMoves ==
    ASSUME IInv, Placed, NEW s \in Service, mbox[s] # << >>, End(s)
    PROVE  Moves({Cur(s)}, {}) /\ Placed'
<1> DEFINE mb == [mbox EXCEPT ![s] = Tail(@)]
<1>1. Takes(mbox, ext, mb, ext, Cur(s)) /\ mbox' = mb /\ ext' = ext
  BY DEF Takes, Cur, End
<1>2. \A t \in Service : Free(mb[t], Stray(t))
  BY <1>1, MailOf, PlacedMoves
<1>3. Placed'
  BY <1>1, <1>2 DEF Placed, Stray, Home
<1> QED BY <1>1, <1>3 DEF Moves

LEMMA PostMoves ==
    ASSUME IInv, IInv', Placed, NEW m, Post(m), Home(m) = Gate
    PROVE  m \in GoodMsg /\ Moves({}, {m}) /\ Placed' /\ ~ Free(mbox'[Gate], {m})
<1>1. mbox \in Mail /\ mbox' \in [Service -> Seq(GoodMsg)] /\ Gate \in Service
  BY MailOf DEF IInv, MailInv, Service
<1>2. mbox' = [mbox EXCEPT ![Gate] = Append(@, m)] /\ ext' = ext
  BY DEF Post
<1>3. mbox'[Gate] = Append(mbox[Gate], m) /\ mbox[Gate] \in Seq(GoodMsg)
  BY <1>1, <1>2 DEF Mail
<1>4. m = mbox'[Gate][Len(mbox[Gate]) + 1] /\ Len(mbox[Gate]) + 1 \in 1 .. Len(mbox'[Gate])
  BY <1>3
<1>5. m \in GoodMsg
  BY <1>1, <1>4
<1>6. Gives(mbox, ext, mbox', ext', m)
  BY <1>1, <1>2 DEF Gives
<1>7. Placed'
  BY <1>1, <1>2, <1>5, PlacedPut DEF Placed
<1> QED BY <1>4, <1>5, <1>6, <1>7 DEF Moves, Free

LEMMA ReplyMoves ==
    ASSUME IInv, Placed, NEW m, Reply(m)
    PROVE  m \in GoodMsg /\ Moves({m}, {m}) /\ Placed' /\ m \in ext
<1>1. mbox \in Mail /\ ext \subseteq GoodMsg /\ m \in ext /\ m \in GoodMsg
  BY MailOf DEF Reply
<1>2. Home(m) \in Service
  BY <1>1 DEF Home, GoodMsg, Vouched, NeedsCallee, Service
<1>3. Takes(mbox, ext, mbox, ext \ {m}, m)
  BY <1>1 DEF Takes
<1>4. mbox' = [mbox EXCEPT ![Home(m)] = Append(@, m)] /\ ext' = ext \ {m}
  BY DEF Reply
<1>5. Gives(mbox, ext \ {m}, mbox', ext', m)
  BY <1>2, <1>4 DEF Gives
<1>6. Placed'
  BY <1>1, <1>2, <1>4, PlacedPut DEF Placed
<1> QED BY <1>1, <1>3, <1>5, <1>6 DEF Moves

\* A coroutine goes on as m, or ends.
Goes(s, l, m) == /\ Handles(s, Cur(s), l) /\ Moves({Cur(s)}, {m})
                 /\ m \in GoodMsg /\ Placed'
Stops(s, l)   == Handles(s, Cur(s), l) /\ Moves({Cur(s)}, {}) /\ Placed'

LEMMA YieldGoes ==
    ASSUME IInv, IInv', Placed, NEW s \in Service, NEW l, At(s, l), NEW m, Yield(s, m)
    PROVE  Goes(s, l, m)
<1>1. Handles(s, Cur(s), l)
  BY Handling
<1>2. mbox[s] # << >>
  BY DEF At
<1> QED BY <1>1, <1>2, YieldMoves DEF Goes

LEMMA SendGoes ==
    ASSUME IInv, IInv', Placed, NEW s \in Service, NEW l, At(s, l),
           NEW d \in Service, d # s, NEW m, Send(s, d, m), Home(m) = d
    PROVE  Goes(s, l, m) /\ ~ Free(mbox'[d], {m})
<1>1. Handles(s, Cur(s), l)
  BY Handling
<1>2. mbox[s] # << >>
  BY DEF At
<1>3. m \in GoodMsg /\ Moves({Cur(s)}, {m}) /\ Placed' /\ ~ Free(mbox'[d], {m})
  BY <1>2, SendMoves
<1> QED BY <1>1, <1>3 DEF Goes

LEMMA EndStops ==
    ASSUME IInv, Placed, NEW s \in Service, NEW l, At(s, l), End(s)
    PROVE  Stops(s, l)
<1>1. Handles(s, Cur(s), l)
  BY Handling
<1>2. mbox[s] # << >>
  BY DEF At
<1> QED BY <1>1, <1>2, EndMoves DEF Stops

-----------------------------------------------------------------------------
(* The stage of a socket is where the one coroutine is that has to do with *)
(* its coming or going, or a name for what it waits for when there is none.*)

\* The coroutine opens an agent for a socket, perhaps inside the one that closes
\* the agent of the socket before; it is a frame after the login.
OpenLabel == {"assign", "agent_open", "opened", "register", "welcome", "open_ret"}
Opens(m)   == m.at \in OpenLabel \/ (m.at = "agent_ret" /\ m.ret = "open_ret")
Later(m)   == m.at \in {"MSG.data", "my_dispatch"} /\ m.task[3] > 1
Subject(m) == IF Opens(m) THEN m.nfd ELSE SocketOf(m)

Life(fd) == {m \in GoodMsg : ~ Later(m) /\ Subject(m) = fd}
Data(fd) == {m \in GoodMsg : Later(m) /\ SocketOf(m) = fd}

StageOf(m) == IF m.at # "agent_ret" THEN m.at
              ELSE IF m.ret = "open_ret" THEN "open_back"
              ELSE IF m.ret = "other_ret" THEN "other_back"
              ELSE IF m.ret = "kick_ret" THEN "kick_back"
              ELSE "close_back"

\* Before and during its login; while it has the client before it kicked, and
\* when it has; while an agent is opened for it.
Entering == {"idle", "MSG.data", "auth", "refused"}
Asking   == {"other_login", "other_write", "other_back", "other_ret",
             "agent_kick", "kick_self", "gamed_kick", "kick_close"}
Asked    == {"kick_back", "kick_ret", "waiting"}
Awaited  == {"assign", "agent_open", "opened", "register", "welcome",
             "open_back", "open_ret"}
\* While its agent is closed; "passing" while the agent of the next socket is
\* opened; when its agent is given back.
Meeting  == {"leaving", "MSG.close", "close_fd", "agent_close"}
Leaving  == Meeting \cup {"closing", "close_finish"}
Ending   == {"recycle", "gamed_closed", "close_ret"}

OpenStage == {"MSG.open", "hung", "served", "leaving"} \cup Entering \cup
             Asking \cup Asked \cup Awaited
FwdStage  == {"served", "gamed_close", "passing"} \cup Leaving \cup Ending
ShutStage == FwdStage \ {"served", "leaving"}
\* It has an agent; that has it for its user; its account's record names that.
HasStage  == Awaited \cup Leaving \cup
             {"hung", "served", "gamed_close", "passing", "recycle"}
UseStage  == {"register", "welcome", "open_back", "open_ret", "hung", "served"}
             \cup Leaving
RecStage  == UseStage \cup {"agent_open", "opened", "gamed_close"}
\* "out" is a socket that is gone, or was refused.
Stage     == {"none", "out"} \cup OpenStage \cup FwdStage

In(s) == s \notin {"none", "out"}
Same(f, g) == f # g /\ AccountOf[f] = AccountOf[g]

\* What the socket thread and the gate know of a socket at the stage s.
SockAt(s, fd) ==
    /\ (s = "none") <=> (sock[fd] = "none")
    /\ s \in OpenStage => sock[fd] = "open"
    /\ s \in ShutStage => sock[fd] = "closed"
    /\ s # "out" => creq[fd] = (IF s = "leaving" THEN 1 ELSE 0)
    /\ s \in {"none", "MSG.open"} => fd \notin connection
    /\ s \notin {"none", "MSG.open", "out"} => fd \in connection
    /\ (forwarded[fd] # Nil) <=> (s \in FwdStage)
    /\ s \in {"none", "MSG.open", "idle", "MSG.data"} => pending_msg[fd] = Nil
    /\ fd \in connection /\ pending_msg[fd] = Nil =>
            s \in {"idle", "MSG.data"} \cup FwdStage
    /\ pending_msg[fd] # Nil =>
            \A i \in 1 .. Len(pending_msg[fd]) : pending_msg[fd][i] > 1
    /\ s \in {"none", "MSG.open", "idle"} => nsent[fd] = 0
    /\ s \notin {"none", "MSG.open", "idle"} /\ fd \in connection => nsent[fd] >= 1
SockPart(st) == \A fd \in Fd : SockAt(st[fd], fd)

\* ag[fd] is the agent of fd: no two sockets have one agent, and the pool none
\* of theirs.
AgAt(st, ag, fd) ==
    /\ (ag[fd] # Nil) <=> (st[fd] \in HasStage)
    /\ ag[fd] # Nil => /\ ag[fd] <= spawned
                       /\ \A i \in 1 .. Len(pool) : pool[i] # ag[fd]
    /\ st[fd] \in FwdStage /\ ag[fd] # Nil => forwarded[fd] = ag[fd]
AgPart(st, ag) ==
    /\ \A fd \in Fd : AgAt(st, ag, fd)
    /\ \A f, g \in Fd : ag[f] = ag[g] /\ ag[f] # Nil => f = g
    /\ \A i \in 1 .. Len(pool) : pool[i] <= spawned
    /\ \A i, j \in 1 .. Len(pool) : pool[i] = pool[j] => i = j

UserPart(st, ag) ==
    /\ \A fd \in Fd : st[fd] \in UseStage =>
            user[ag[fd]] = [fd |-> fd, account |-> AccountOf[fd]]
    /\ \A a \in Agent : user[a] # Nil =>
            \E fd \in Fd : ag[fd] = a /\ st[fd] \in UseStage
    /\ \A a \in Agent : cmds[a] =>
            \E fd \in Fd : ag[fd] = a /\ st[fd] \in UseStage /\ st[fd] # "register"

RecPart(st, ag) ==
    /\ \A fd \in Fd : st[fd] \in RecStage =>
            /\ online_account[AccountOf[fd]] # Nil
            /\ online_account[AccountOf[fd]].agent = ag[fd]
    /\ \A account \in Account : online_account[account] # Nil =>
            \E fd \in Fd : /\ AccountOf[fd] = account /\ st[fd] # "recycle"
                           /\ ag[fd] = online_account[account].agent
    /\ \A account \in Account : Kicked(online_account[account]) =>
            /\ online_account[account].fd \in Fd
            /\ AccountOf[online_account[account].fd] = account
            /\ st[online_account[account].fd] \in {"waiting", "assign"}
    /\ \A fd \in Fd : st[fd] = "waiting" =>
            /\ Kicked(online_account[AccountOf[fd]])
            /\ online_account[AccountOf[fd]].fd = fd

\* Of two sockets of an account, one comes before the other.
Before(s, t) ==
    \/ s = "served" /\ t \in {"MSG.open"} \cup Entering \cup Asking
    \/ /\ s \in Leaving \cup {"gamed_close"} /\ t \in Asked
       /\ t = "kick_back" => s \in Meeting
    \/ s = "passing" /\ t \in Awaited \cup {"hung"}
    \/ s \in Ending /\ t = "served"
Agree(s, t) == In(s) /\ In(t) => Before(s, t) \/ Before(t, s)
PairPart(st) == \A f, g \in Fd : Same(f, g) => Agree(st[f], st[g])

\* What a coroutine in flight knows.
Solo(st, fd) == \A g \in Fd : Same(fd, g) => ~ In(st[g])

FitsAwaited(st, ag, m, fd) ==
    /\ m.callee = ag[fd] /\ m.account = AccountOf[fd]
    /\ m.task[1] # "close" => SocketOf(m) = fd /\ Solo(st, fd)
    /\ m.task[1] = "close" => /\ Same(SocketOf(m), fd)
                              /\ st[SocketOf(m)] = "passing"
                              /\ m.agent = ag[SocketOf(m)]
    /\ m.at # "assign" => m.ret \in RetLabel /\ (m.at # "open_ret" => m.ret = "open_ret")

FitsAsking(st, ag, m, fd) ==
    /\ m.at \in {"other_login", "other_write"} => m.ret = "other_ret"
    /\ m.at \in {"agent_kick", "kick_self", "gamed_kick", "kick_close"} =>
            m.ret = "kick_ret"
    /\ \E f \in Fd : /\ Same(f, fd) /\ st[f] = "served" /\ ag[f] = m.callee
                     /\ m.at \in {"gamed_kick", "kick_close"} => m.kfd = f

FitsRec(m, fd) ==
    /\ m.nfd = fd /\ m.account = AccountOf[fd]
    /\ online_account[AccountOf[fd]] # Nil
    /\ m.rec = online_account[AccountOf[fd]].id

FitsLeaving(ag, m, fd) ==
    /\ m.task[1] = "close"
    /\ m.at \in {"agent_close", "closing", "close_finish", "gamed_close"} =>
            m.callee = ag[fd]
    /\ m.at \in {"close_finish", "gamed_close"} => m.account = AccountOf[fd]
    /\ m.at = "recycle" => m.agent = ag[fd]

Asks(s) == s \in Asking \cup {"kick_back", "kick_ret"}

Fits(st, ag, m, fd) ==
    /\ fd \in Fd
    /\ \/ st[fd] = StageOf(m)
       \/ st[fd] = "out" /\ m.at \in {"MSG.close", "close_fd"}
    /\ st[fd] \in Awaited => FitsAwaited(st, ag, m, fd)
    /\ st[fd] \in Asking => FitsAsking(st, ag, m, fd)
    /\ Asks(st[fd]) => FitsRec(m, fd)
    /\ st[fd] \in Leaving \cup Ending \cup {"gamed_close"} => FitsLeaving(ag, m, fd)

FlyPart(st, ag) ==
    /\ \A fd \in Fd : st[fd] # "out" => Alone(mbox, ext, Life(fd))
    /\ \A m : Flies(m) /\ ~ Later(m) => Fits(st, ag, m, Subject(m))

\* Where the order in a mailbox matters: the login frame is the first one; the
\* kick is answered before the agent it kicked is closed.
FirstPart(st) ==
    /\ \A fd \in Fd : st[fd] = "MSG.data" =>
            /\ ~ Free(mbox[Gate], Life(fd))
            /\ Ahead(mbox[Gate], Life(fd), Data(fd))
    /\ \A fd \in Fd : st[fd] \in {"none", "MSG.open", "idle"} =>
            \A m \in Data(fd) : ~ Flies(m)
BackPart(st, ag) == \A g \in Fd : st[g] = "kick_back" =>
    \E f \in Fd : /\ Same(f, g) /\ st[f] \in Meeting
                  /\ ~ Free(mbox[ag[f]], Life(g))
                  /\ Ahead(mbox[ag[f]], Life(g), Life(f))
RetPart(st) == \A g \in Fd : st[g] = "kick_ret" =>
    /\ ~ Free(mbox[Gate], Life(g))
    /\ \A f \in Fd : Same(f, g) /\ st[f] = "gamed_close" =>
            Ahead(mbox[Gate], Life(g), Life(f))
LeavePart(st) == \A f \in Fd : st[f] = "leaving" =>
    \E g \in Fd : Same(f, g) /\ st[g] \in Asked
KickPart(st, ag) == BackPart(st, ag) /\ RetPart(st) /\ LeavePart(st)

Ghosts(st, ag) == st \in [Fd -> Stage] /\ ag \in [Fd -> Opt(Agent)]

\* The stages st and the agents ag explain the state.
Explains(st, ag) ==
    /\ Ghosts(st, ag) /\ Placed
    /\ SockPart(st) /\ AgPart(st, ag) /\ UserPart(st, ag) /\ RecPart(st, ag)
    /\ PairPart(st) /\ FlyPart(st, ag) /\ FirstPart(st) /\ KickPart(st, ag)

-----------------------------------------------------------------------------
(* What a step keeps when it changes the stages of the sockets F only      *)

LEMMA FlyGood == ASSUME IInv, NEW m, Flies(m) PROVE m \in GoodMsg
BY MailOf DEF Flies, Flying, Mail

LEMMA FlyGoodNext == ASSUME IInv', NEW m, Flies(m)' PROVE m \in GoodMsg
BY DEF IInv, MailInv, Flies, Flying, Service

LEMMA ServiceOf == Gate \in Service /\ Agent \subseteq Service /\ Gate \notin Agent
BY DEF Service, Gate, Agent

\* A stage that is before and after the same stages as the one it comes from.
Follows(p, q) ==
    /\ In(p)
    /\ In(q) => \A r \in Stage : /\ Before(p, r) => Before(q, r)
                                 /\ Before(r, p) => Before(r, q)

LEMMA PairMove ==
    ASSUME NEW st \in [Fd -> Stage], PairPart(st), NEW f \in Fd, NEW q \in Stage,
           \A g \in Fd : Same(f, g) => Agree(q, st[g])
    PROVE  PairPart([st EXCEPT ![f] = q])
BY DEF PairPart, Agree, Same

LEMMA PairFollows ==
    ASSUME NEW st \in [Fd -> Stage], PairPart(st), NEW f \in Fd, NEW q \in Stage,
           Follows(st[f], q)
    PROVE  PairPart([st EXCEPT ![f] = q])
<1>1. ASSUME NEW g \in Fd, Same(f, g) PROVE Agree(q, st[g])
  <2>1. Agree(st[f], st[g])
    BY <1>1 DEF PairPart
  <2>2. st[g] \in Stage
    OBVIOUS
  <2> QED BY <2>1, <2>2 DEF Agree, Follows
<1> QED BY <1>1, PairMove

\* The stages outside F are the same, and so is what coroutines outside F rely
\* on.
Apart(st, ag, st2, ag2, F) ==
    /\ F \subseteq Fd
    /\ \A h \in Fd \ F : st2[h] = st[h] /\ ag2[h] = ag[h]
    /\ \A f \in F : \A h \in Fd \ F : Same(f, h) =>
            /\ st[h] \in Awaited => st[f] # "passing" /\ (In(st2[f]) => In(st[f]))
            /\ st[h] \in Asking => st[f] # "served"

\* The record an asking socket outside F has read is still there.
Recorded(st, F) ==
    \A h \in Fd \ F : Asks(st[h]) /\ online_account[AccountOf[h]] # Nil =>
        /\ online_account[AccountOf[h]]' # Nil
        /\ online_account[AccountOf[h]].id' = online_account[AccountOf[h]].id

LEMMA RecordedSame ==
    ASSUME NEW st, NEW F, UNCHANGED online_account
    PROVE  Recorded(st, F)
BY DEF Recorded

LEMMA FitsKept ==
    ASSUME NEW st, NEW ag, NEW st2, NEW ag2, Ghosts(st, ag), NEW F,
           Apart(st, ag, st2, ag2, F), Recorded(st, F),
           NEW m \in GoodMsg, NEW h \in Fd \ F, Fits(st, ag, m, h)
    PROVE  Fits(st2, ag2, m, h)'
<1>1. h \in Fd /\ st2[h] = st[h] /\ ag2[h] = ag[h]
  BY DEF Apart
<1>2. ASSUME st[h] \in Awaited
      PROVE  FitsAwaited(st2, ag2, m, h)
  <2>1. FitsAwaited(st, ag, m, h)
    BY <1>2, <1>1 DEF Fits
  <2>2. ASSUME m.task[1] # "close" PROVE Solo(st2, h)
    <3> SUFFICES ASSUME NEW g \in Fd, Same(h, g) PROVE ~ In(st2[g])
      BY DEF Solo
    <3>1. ~ In(st[g])
      BY <2>1, <2>2 DEF FitsAwaited, Solo
    <3>2. CASE g \in F
      <4>1. Same(g, h)
        BY DEF Same
      <4> QED BY <1>2, <3>1, <3>2, <4>1 DEF Apart
    <3>3. CASE g \notin F
      BY <3>1, <3>3 DEF Apart
    <3> QED BY <3>2, <3>3
  <2>3. ASSUME m.task[1] = "close"
        PROVE  st2[SocketOf(m)] = "passing" /\ ag2[SocketOf(m)] = ag[SocketOf(m)]
    <3>1. Same(SocketOf(m), h) /\ st[SocketOf(m)] = "passing"
      BY <2>1, <2>3 DEF FitsAwaited
    <3>2. SocketOf(m) \in Fd
      BY DEF GoodMsg, Msg, Task, SocketOf
    <3>3. SocketOf(m) \notin F
      BY <1>2, <3>1, <3>2 DEF Apart
    <3> QED BY <3>1, <3>2, <3>3 DEF Apart
  <2> QED BY <1>1, <2>1, <2>2, <2>3 DEF FitsAwaited
<1>3. ASSUME st[h] \in Asking
      PROVE  FitsAsking(st2, ag2, m, h)
  <2>1. FitsAsking(st, ag, m, h)
    BY <1>3, <1>1 DEF Fits
  <2>2. PICK f \in Fd : /\ Same(f, h) /\ st[f] = "served" /\ ag[f] = m.callee
                        /\ m.at \in {"gamed_kick", "kick_close"} => m.kfd = f
    BY <2>1 DEF FitsAsking
  <2>3. f \notin F
    BY <1>3, <2>2 DEF Apart
  <2>4. st2[f] = "served" /\ ag2[f] = m.callee
    BY <2>2, <2>3 DEF Apart
  <2> QED BY <2>1, <2>2, <2>4 DEF FitsAsking
<1>4. ASSUME Asks(st[h]) PROVE FitsRec(m, h)'
  BY <1>4, <1>1 DEF Fits, FitsRec, Recorded
<1>5. ASSUME st[h] \in Leaving \cup Ending \cup {"gamed_close"}
      PROVE  FitsLeaving(ag2, m, h)
  BY <1>5, <1>1 DEF Fits, FitsLeaving
<1> QED BY <1>1, <1>2, <1>3, <1>4, <1>5 DEF Fits, FitsAwaited, FitsAsking, FitsLeaving

\* The coroutines of F that are in flight after the step are the ones it put.
Cleared(F, N) ==
    \A f \in F : /\ Alone(mbox', ext', Life(f))
                 /\ \A m \in Life(f) : Flies(m)' => m \in N

LEMMA FlyKept ==
    ASSUME IInv, IInv', NEW st, NEW ag, NEW st2, NEW ag2, Ghosts(st, ag),
           FlyPart(st, ag), NEW F, Apart(st, ag, st2, ag2, F), Recorded(st, F),
           NEW T, NEW N, Moves(T, N), Cleared(F, N),
           \A m \in N : ~ Later(m) => Subject(m) \in F /\ Fits(st2, ag2, m, Subject(m))'
    PROVE  FlyPart(st2, ag2)'
<1>1. mbox \in Mail /\ ext \subseteq GoodMsg
  BY MailOf
<1>2. ASSUME NEW h \in Fd, st2[h] # "out" PROVE Alone(mbox', ext', Life(h))
  <2>1. CASE h \in F
    BY <2>1 DEF Cleared
  <2>2. CASE h \notin F
    <3>1. Alone(mbox, ext, Life(h))
      BY <1>2, <2>2 DEF Apart, FlyPart
    <3>2. N \cap Life(h) = {}
      BY <2>2 DEF Life
    <3> QED BY <1>1, <3>1, <3>2, MoveFacts
  <2> QED BY <2>1, <2>2
<1>3. ASSUME NEW m, Flies(m)', ~ Later(m) PROVE Fits(st2, ag2, m, Subject(m))'
  <2>1. m \in GoodMsg
    BY <1>3, FlyGoodNext
  <2>2. CASE m \in N
    BY <1>3, <2>2
  <2>3. CASE m \notin N
    <3>1. Flies(m)
      BY <1>1, <1>3, <2>3, MoveFacts
    <3>2. Fits(st, ag, m, Subject(m)) /\ Subject(m) \in Fd
      BY <1>3, <3>1 DEF FlyPart, Fits
    <3>3. Subject(m) \notin F
      BY <1>3, <2>1, <2>3 DEF Cleared, Life
    <3> QED BY <2>1, <3>2, <3>3, FitsKept
  <2> QED BY <2>2, <2>3
<1> QED BY <1>2, <1>3 DEF FlyPart, Life, Later, Subject, Opens, SocketOf, Fits, FitsAwaited, FitsAsking, FitsRec, FitsLeaving

\* One coroutine of f is taken.
LEMMA ClearedTake ==
    ASSUME IInv, NEW st, NEW ag, FlyPart(st, ag), NEW T, NEW N, Moves(T, N),
           NEW f \in Fd, st[f] # "out", T \cap Life(f) # {}
    PROVE  Cleared({f}, N)
<1>1. Alone(mbox, ext, Life(f))
  BY DEF FlyPart
<1> QED BY <1>1, MailOf, MoveFacts DEF Cleared

\* At some stages a socket has none.
Quiet == {"none", "idle", "waiting", "hung", "served", "leaving", "passing"}

LEMMA QuietGone ==
    ASSUME IInv, NEW st, NEW ag, FlyPart(st, ag), NEW f \in Fd, st[f] \in Quiet
    PROVE  Gone(mbox, ext, Life(f))
<1>1. ASSUME NEW m \in Life(f), Flies(m) PROVE FALSE
  <2>1. m \in GoodMsg /\ ~ Later(m) /\ Subject(m) = f
    BY <1>1 DEF Life
  <2>2. Fits(st, ag, m, f)
    BY <1>1, <2>1 DEF FlyPart
  <2>3. st[f] = StageOf(m)
    BY <2>2 DEF Fits, Quiet
  <2>4. m.at \in Label
    BY <2>1 DEF GoodMsg, Msg
  <2> QED BY <2>3, <2>4 DEF StageOf, Quiet, Label, AgentLabel, GateLabel, RetLabel
<1> QED BY <1>1, GoneFlying DEF Flies

LEMMA ClearedQuiet ==
    ASSUME IInv, NEW st, NEW ag, FlyPart(st, ag), NEW T, NEW N, Moves(T, N),
           NEW f \in Fd, st[f] \in Quiet
    PROVE  Cleared({f}, N)
<1>1. Gone(mbox, ext, Life(f))
  BY QuietGone
<1>2. Alone(mbox', ext', Life(f))
  BY <1>1, MailOf, MoveFacts
<1>3. \A m \in Life(f) : Flies(m)' => m \in N
  <2>1. \A m \in Life(f) : ~ Flies(m)
    BY <1>1, GoneFlying DEF Flies
  <2> QED BY <2>1, MailOf, MoveFacts
<1> QED BY <1>2, <1>3 DEF Cleared

LEMMA ClearedTwo ==
    ASSUME NEW f, NEW g, NEW N, Cleared({f}, N), Cleared({g}, N)
    PROVE  Cleared({f, g}, N)
BY DEF Cleared

\* A step that takes T and puts N lets the login frames wait.
FirstLike(st, st2, T, N) == \A fd \in Fd :
    /\ st2[fd] = "MSG.data" =>
            st[fd] = "MSG.data" /\ T \cap Life(fd) = {} /\ N \cap Life(fd) = {}
    /\ st2[fd] \in {"none", "MSG.open", "idle"} =>
            st[fd] \in {"none", "MSG.open", "idle"} /\ N \cap Data(fd) = {}

LEMMA FirstKept ==
    ASSUME IInv, NEW st, FirstPart(st), NEW st2, NEW T, NEW N, Moves(T, N),
           FirstLike(st, st2, T, N)
    PROVE  FirstPart(st2)'
<1>0. \A fd \in Fd :
        /\ st2[fd] = "MSG.data" =>
                st[fd] = "MSG.data" /\ T \cap Life(fd) = {} /\ N \cap Life(fd) = {}
        /\ st2[fd] \in {"none", "MSG.open", "idle"} =>
                st[fd] \in {"none", "MSG.open", "idle"} /\ N \cap Data(fd) = {}
  BY DEF FirstLike
<1>1. mbox \in Mail /\ ext \subseteq GoodMsg /\ Gate \in Service
  BY MailOf, ServiceOf
<1>2. ASSUME NEW fd \in Fd, st2[fd] = "MSG.data"
      PROVE  ~ Free(mbox'[Gate], Life(fd)) /\ Ahead(mbox'[Gate], Life(fd), Data(fd))
  <2>1. ~ Free(mbox[Gate], Life(fd)) /\ Ahead(mbox[Gate], Life(fd), Data(fd))
    BY <1>0, <1>2 DEF FirstPart
  <2>2. ~ Free(mbox'[Gate], Life(fd))
    BY <1>0, <1>1, <1>2, <2>1, MoveFacts
  <2>3. Ahead(mbox'[Gate], Life(fd), Data(fd))
    BY <1>0, <1>1, <1>2, <2>1, MoveAhead
  <2> QED BY <2>2, <2>3
<1>3. ASSUME NEW fd \in Fd, st2[fd] \in {"none", "MSG.open", "idle"}, NEW m \in Data(fd)
      PROVE  ~ Flies(m)'
  <2>1. ~ Flies(m)
    BY <1>0, <1>3 DEF FirstPart
  <2> QED BY <1>0, <1>1, <1>3, <2>1, MoveFacts
<1> QED BY <1>2, <1>3 DEF FirstPart, Life, Data, Later, Subject, Opens, SocketOf

\* And lets the kicks come before what they caused.
BackLike(st, ag, st2, ag2, T, N) ==
    /\ \A g \in Fd : st2[g] = "kick_back" =>
            st[g] = st2[g] /\ T \cap Life(g) = {} /\ N \cap Life(g) = {}
    /\ \A f, g \in Fd : Same(f, g) /\ st[g] = "kick_back" /\ st[f] \in Meeting =>
            st2[f] \in Meeting /\ ag2[f] = ag[f]
RetLike(st, st2, T, N) ==
    /\ \A g \in Fd : st2[g] = "kick_ret" =>
            st[g] = st2[g] /\ T \cap Life(g) = {} /\ N \cap Life(g) = {}
    /\ \A f \in Fd : st2[f] = "gamed_close" => st[f] = st2[f]
LeaveLike(st, st2) ==
    /\ \A f \in Fd : st2[f] = "leaving" => st[f] = st2[f]
    /\ \A f, g \in Fd : Same(f, g) /\ st2[f] = "leaving" /\ st[g] \in Asked =>
            st2[g] \in Asked
KickLike(st, ag, st2, ag2, T, N) ==
    BackLike(st, ag, st2, ag2, T, N) /\ RetLike(st, st2, T, N) /\ LeaveLike(st, st2)

LEMMA BackKept ==
    ASSUME IInv, NEW st, NEW ag, NEW st2, NEW ag2, Ghosts(st, ag), AgPart(st, ag),
           BackPart(st, ag), NEW T, NEW N, Moves(T, N),
           BackLike(st, ag, st2, ag2, T, N)
    PROVE  BackPart(st2, ag2)'
<1>1. mbox \in Mail /\ ext \subseteq GoodMsg
  BY MailOf
<1>2. ASSUME NEW g \in Fd, st2[g] = "kick_back"
      PROVE  \E f \in Fd : /\ Same(f, g) /\ st2[f] \in Meeting
                           /\ ~ Free(mbox'[ag2[f]], Life(g))
                           /\ Ahead(mbox'[ag2[f]], Life(g), Life(f))
  <2>1. st[g] = "kick_back" /\ T \cap Life(g) = {} /\ N \cap Life(g) = {}
    BY <1>2 DEF BackLike
  <2>2. PICK f \in Fd : /\ Same(f, g) /\ st[f] \in Meeting
                        /\ ~ Free(mbox[ag[f]], Life(g))
                        /\ Ahead(mbox[ag[f]], Life(g), Life(f))
    BY <2>1 DEF BackPart
  <2>3. st2[f] \in Meeting /\ ag2[f] = ag[f]
    BY <2>1, <2>2 DEF BackLike
  <2>4. ag[f] \in Service
    <3>1. ag[f] # Nil
      BY <2>2 DEF AgPart, AgAt, HasStage, Leaving
    <3> QED BY <3>1, ServiceOf DEF Ghosts, Opt
  <2>5. ~ Free(mbox'[ag[f]], Life(g))
    BY <1>1, <2>1, <2>2, <2>4, MoveFacts
  <2>6. Ahead(mbox'[ag[f]], Life(g), Life(f))
    BY <1>1, <2>1, <2>2, <2>4, MoveAhead
  <2> QED BY <2>2, <2>3, <2>5, <2>6
<1> QED BY <1>2 DEF BackPart, Life, Later, Subject, Opens, SocketOf

LEMMA RetKept ==
    ASSUME IInv, NEW st, NEW st2, RetPart(st), NEW T, NEW N, Moves(T, N),
           RetLike(st, st2, T, N)
    PROVE  RetPart(st2)'
<1>1. mbox \in Mail /\ ext \subseteq GoodMsg /\ Gate \in Service
  BY MailOf, ServiceOf
<1>2. ASSUME NEW g \in Fd, st2[g] = "kick_ret"
      PROVE  /\ ~ Free(mbox'[Gate], Life(g))
             /\ \A f \in Fd : Same(f, g) /\ st2[f] = "gamed_close" =>
                    Ahead(mbox'[Gate], Life(g), Life(f))
  <2>1. st[g] = "kick_ret" /\ T \cap Life(g) = {} /\ N \cap Life(g) = {}
    BY <1>2 DEF RetLike
  <2>2. ~ Free(mbox'[Gate], Life(g))
    BY <1>1, <2>1, MoveFacts DEF RetPart
  <2>3. ASSUME NEW f \in Fd, Same(f, g), st2[f] = "gamed_close"
        PROVE  Ahead(mbox'[Gate], Life(g), Life(f))
    <3>1. Ahead(mbox[Gate], Life(g), Life(f))
      BY <2>1, <2>3 DEF RetPart, RetLike
    <3> QED BY <1>1, <2>1, <3>1, MoveAhead
  <2> QED BY <2>2, <2>3
<1> QED BY <1>2 DEF RetPart, Life, Later, Subject, Opens, SocketOf

LEMMA LeaveKept ==
    ASSUME NEW st, NEW st2, LeavePart(st), LeaveLike(st, st2)
    PROVE  LeavePart(st2)
BY DEF LeavePart, LeaveLike

LEMMA KickKept ==
    ASSUME IInv, NEW st, NEW ag, NEW st2, NEW ag2, Ghosts(st, ag), AgPart(st, ag),
           KickPart(st, ag), NEW T, NEW N, Moves(T, N),
           KickLike(st, ag, st2, ag2, T, N)
    PROVE  KickPart(st2, ag2)'
BY BackKept, RetKept, LeaveKept DEF KickPart, KickLike

-----------------------------------------------------------------------------
(* The state of the sockets outside F is as it was.                        *)

Outside(F) == \A h \in Fd \ F :
    /\ sock'[h] = sock[h] /\ creq'[h] = creq[h] /\ nsent'[h] = nsent[h]
    /\ h \in connection' <=> h \in connection
    /\ forwarded'[h] = forwarded[h] /\ pending_msg'[h] = pending_msg[h]

LEMMA SockKept ==
    ASSUME NEW st, NEW st2, SockPart(st), NEW F, Outside(F),
           \A h \in Fd \ F : st2[h] = st[h],
           \A f \in F : SockAt(st2[f], f)'
    PROVE  SockPart(st2)'
<1> SUFFICES ASSUME NEW h \in Fd PROVE SockAt(st2[h], h)'
  BY DEF SockPart
<1>1. CASE h \in F
  BY <1>1
<1>2. CASE h \notin F
  <2>1. SockAt(st[h], h) /\ st2[h] = st[h]
    BY <1>2 DEF SockPart
  <2>2. /\ sock'[h] = sock[h] /\ creq'[h] = creq[h] /\ nsent'[h] = nsent[h]
        /\ h \in connection' <=> h \in connection
        /\ forwarded'[h] = forwarded[h] /\ pending_msg'[h] = pending_msg[h]
    BY <1>2 DEF Outside
  <2> QED BY <2>1, <2>2 DEF SockAt
<1> QED BY <1>1, <1>2

\* The sockets F have the agents they had, or none.
AgLike(st, ag, ag2, F) == \A f \in F : AgAt(st, ag2, f) /\ ag2[f] \in {ag[f], Nil}

LEMMA AgKept ==
    ASSUME NEW st, NEW ag, NEW st2, NEW ag2, AgPart(st, ag), NEW F, Outside(F),
           \A h \in Fd \ F : st2[h] = st[h] /\ ag2[h] = ag[h],
           AgLike(st2, ag, ag2, F)',
           pool' = pool, spawned' = spawned
    PROVE  AgPart(st2, ag2)'
<1>1. ASSUME NEW h \in Fd PROVE AgAt(st2, ag2, h)'
  <2>1. CASE h \in F
    BY <2>1 DEF AgLike
  <2>2. CASE h \notin F
    <3>1. AgAt(st, ag, h) /\ st2[h] = st[h] /\ ag2[h] = ag[h]
      BY <2>2 DEF AgPart
    <3>2. forwarded'[h] = forwarded[h]
      BY <2>2 DEF Outside
    <3> QED BY <3>1, <3>2 DEF AgAt
  <2> QED BY <2>1, <2>2
<1>2. \A h \in Fd : ag2[h] \in {ag[h], Nil}
  BY DEF AgLike
<1>3. ASSUME NEW f \in Fd, NEW g \in Fd, ag2[f] = ag2[g], ag2[f] # Nil PROVE f = g
  BY <1>2, <1>3 DEF AgPart
<1> QED BY <1>1, <1>3 DEF AgPart

\* The sockets F keep what their users and their record rely on.
UserLike(st, ag, st2, ag2, F) == \A f \in F :
    /\ st2[f] \in UseStage <=> st[f] \in UseStage
    /\ st[f] \in UseStage => ag2[f] = ag[f]
    /\ st2[f] = "register" <=> st[f] = "register"
RecLike(st, ag, st2, ag2, F) == \A f \in F :
    /\ st2[f] \in RecStage => st[f] \in RecStage
    /\ \/ ag2[f] = ag[f] /\ st2[f] # "recycle"
       \/ st[f] = "recycle"
       \/ online_account[AccountOf[f]] # Nil => online_account[AccountOf[f]].agent # ag[f]
    /\ st[f] \in RecStage => ag2[f] = ag[f]
    /\ st[f] \in {"waiting", "assign"} => st2[f] \in {"waiting", "assign"}
    /\ st2[f] = "waiting" => st[f] = "waiting"

LEMMA UserKept ==
    ASSUME NEW st, NEW ag, NEW st2, NEW ag2, UserPart(st, ag), NEW F,
           \A h \in Fd \ F : st2[h] = st[h] /\ ag2[h] = ag[h],
           UserLike(st, ag, st2, ag2, F), user' = user, cmds' = cmds
    PROVE  UserPart(st2, ag2)'
<1>1. \A f \in Fd : /\ st2[f] \in UseStage <=> st[f] \in UseStage
                    /\ st[f] \in UseStage => ag2[f] = ag[f]
                    /\ st2[f] = "register" <=> st[f] = "register"
  BY DEF UserLike
<1> HIDE DEF UserLike
<1> QED BY <1>1 DEF UserPart

LEMMA RecKept ==
    ASSUME NEW st, NEW ag, NEW st2, NEW ag2, RecPart(st, ag), NEW F,
           \A h \in Fd \ F : st2[h] = st[h] /\ ag2[h] = ag[h],
           RecLike(st, ag, st2, ag2, F), online_account' = online_account
    PROVE  RecPart(st2, ag2)'
<1>1. \A f \in Fd :
         /\ st2[f] \in RecStage => st[f] \in RecStage
         /\ \/ ag2[f] = ag[f] /\ (st2[f] = "recycle" => st[f] = "recycle")
            \/ st[f] = "recycle"
            \/ online_account[AccountOf[f]] # Nil => online_account[AccountOf[f]].agent # ag[f]
         /\ st[f] \in RecStage => ag2[f] = ag[f]
         /\ st[f] \in {"waiting", "assign"} => st2[f] \in {"waiting", "assign"}
         /\ st2[f] = "waiting" => st[f] = "waiting"
  BY DEF RecLike
<1>2. \A fd \in Fd : st2[fd] \in RecStage =>
            /\ online_account[AccountOf[fd]] # Nil
            /\ online_account[AccountOf[fd]].agent = ag2[fd]
  BY <1>1 DEF RecPart
<1>3. ASSUME NEW account \in Account, online_account[account] # Nil
      PROVE  \E fd \in Fd : /\ AccountOf[fd] = account /\ st2[fd] # "recycle"
                            /\ ag2[fd] = online_account[account].agent
  <2>1. PICK fd \in Fd : /\ AccountOf[fd] = account /\ st[fd] # "recycle"
                         /\ ag[fd] = online_account[account].agent
    BY <1>3 DEF RecPart
  <2> QED BY <1>1, <1>3, <2>1
<1>4. \A account \in Account : Kicked(online_account[account]) =>
            /\ online_account[account].fd \in Fd
            /\ AccountOf[online_account[account].fd] = account
            /\ st2[online_account[account].fd] \in {"waiting", "assign"}
  BY <1>1 DEF RecPart
<1>5. \A fd \in Fd : st2[fd] = "waiting" =>
            /\ Kicked(online_account[AccountOf[fd]])
            /\ online_account[AccountOf[fd]].fd = fd
  BY <1>1 DEF RecPart
<1> QED BY <1>2, <1>3, <1>4, <1>5 DEF RecPart, Kicked

-----------------------------------------------------------------------------
(* Steps that only move the coroutine of a socket on.                      *)

Hinge == {"none", "MSG.open", "idle", "MSG.data", "out", "leaving", "waiting",
          "register", "recycle", "served", "passing", "assign"}
\* Nothing changes but the mailboxes.
Idles == UNCHANGED <<sock, creq, nsent, connection, forwarded, pending_msg,
                     pool, spawned, online_account, user, cmds>>

\* From p to q nothing changes but the place of the coroutine.
Steady(p, q) ==
    /\ p \notin Hinge /\ q \notin Hinge
    /\ p \in OpenStage <=> q \in OpenStage
    /\ p \in FwdStage <=> q \in FwdStage
    /\ p \in HasStage <=> q \in HasStage
    /\ p \in UseStage <=> q \in UseStage
    /\ p \in RecStage <=> q \in RecStage

LEMMA OnwardRest ==
    ASSUME IInv, IInv', NEW st, NEW ag, Explains(st, ag), NEW f \in Fd,
           NEW q \in Stage, Steady(st[f], q), NEW st2, st2 = [st EXCEPT ![f] = q],
           Idles,
           NEW c \in Life(f), NEW m, Moves({c}, {m}), Placed',
           ~ Later(m), Subject(m) = f, Fits(st2, ag, m, f)',
           \A g \in Fd : Same(f, g) => Agree(q, st[g])
    PROVE  /\ Ghosts(st2, ag) /\ Placed' /\ SockPart(st2)' /\ AgPart(st2, ag)'
           /\ UserPart(st2, ag)' /\ RecPart(st2, ag)' /\ PairPart(st2)
           /\ FlyPart(st2, ag)' /\ FirstPart(st2)'
<1>1. /\ Ghosts(st, ag) /\ SockPart(st) /\ AgPart(st, ag) /\ UserPart(st, ag)
      /\ RecPart(st, ag) /\ PairPart(st) /\ FlyPart(st, ag) /\ FirstPart(st)
  BY DEF Explains
<1>0. /\ sock' = sock /\ creq' = creq /\ nsent' = nsent /\ connection' = connection
      /\ forwarded' = forwarded /\ pending_msg' = pending_msg /\ pool' = pool
      /\ spawned' = spawned /\ online_account' = online_account /\ user' = user
      /\ cmds' = cmds
  BY DEF Idles
<1>2. /\ st \in [Fd -> Stage] /\ st2 \in [Fd -> Stage] /\ ag \in [Fd -> Opt(Agent)]
      /\ st2[f] = q /\ \A h \in Fd \ {f} : st2[h] = st[h]
  BY <1>1 DEF Ghosts
<1>3. Ghosts(st2, ag)
  BY <1>2 DEF Ghosts
<1>4. Outside({f})
  BY <1>0 DEF Outside
<1>5. SockPart(st2)'
  <2>1. SockAt(st[f], f)
    BY <1>1 DEF SockPart
  <2>2. SockAt(q, f)'
    BY <1>0, <2>1 DEF SockAt, Steady, Hinge, ShutStage
  <2> QED BY <1>1, <1>2, <1>4, <2>2, SockKept
<1>6. AgPart(st2, ag)'
  <2>1. AgAt(st, ag, f)
    BY <1>1 DEF AgPart
  <2>2. AgAt(st2, ag, f)'
    BY <1>0, <1>2, <2>1 DEF AgAt, Steady, Hinge
  <2>3. AgLike(st2, ag, ag, {f})'
    BY <2>2 DEF AgLike
  <2> QED BY <1>0, <1>1, <1>2, <1>4, <2>3, AgKept
<1>7. UserPart(st2, ag)'
  <2>1. UserLike(st, ag, st2, ag, {f})
    BY <1>2 DEF UserLike, Steady, Hinge
  <2> QED BY <1>1, <1>2, <2>1, <1>0, UserKept
<1>8. RecPart(st2, ag)'
  <2>1. RecLike(st, ag, st2, ag, {f})
    BY <1>2 DEF RecLike, Steady, Hinge
  <2> QED BY <1>1, <1>2, <2>1, <1>0, RecKept
<1>9. PairPart(st2)
  BY <1>1, <1>2, PairMove
<1>10. FlyPart(st2, ag)'
  <2>1. st[f] # "out" /\ In(st[f]) /\ st[f] \notin {"passing", "served"}
    BY DEF Steady, Hinge, In
  <2>2. Apart(st, ag, st2, ag, {f})
    BY <1>2, <2>1 DEF Apart
  <2>3. Recorded(st, {f})
    BY <1>0 DEF Recorded
  <2>4. Cleared({f}, {m})
    BY <1>1, <2>1, ClearedTake
  <2> QED BY <1>1, <2>2, <2>3, <2>4, FlyKept
<1>11. FirstPart(st2)'
  <2>1. FirstLike(st, st2, {c}, {m})
    BY <1>2 DEF FirstLike, Steady, Hinge, Life, Data
  <2> QED BY <1>1, <2>1, FirstKept
<1> QED BY <1>3, <1>5, <1>6, <1>7, <1>8, <1>9, <1>10, <1>11

LEMMA Onward ==
    ASSUME IInv, IInv', NEW st, NEW ag, Explains(st, ag), NEW f \in Fd,
           NEW q \in Stage, Steady(st[f], q), NEW st2, st2 = [st EXCEPT ![f] = q],
           Idles,
           NEW c \in Life(f), NEW m, Moves({c}, {m}), Placed',
           ~ Later(m), Subject(m) = f, Fits(st2, ag, m, f)',
           \A g \in Fd : Same(f, g) => Agree(q, st[g]),
           st[f] \notin Asked, q \notin {"kick_back", "kick_ret", "gamed_close"},
           st[f] \in Meeting => q \in Meeting \/ \A g \in Fd : Same(f, g) => st[g] # "kick_back"
    PROVE  Explains(st2, ag)'
<1>1. st \in [Fd -> Stage] /\ Ghosts(st, ag) /\ AgPart(st, ag) /\ KickPart(st, ag)
  BY DEF Explains, Ghosts
<1>2. st2[f] = q /\ \A h \in Fd \ {f} : st2[h] = st[h]
  BY <1>1
<1>3. KickLike(st, ag, st2, ag, {c}, {m})
  BY <1>2 DEF KickLike, BackLike, RetLike, LeaveLike, Life, Steady, Hinge
<1>7. KickPart(st2, ag)'
  BY <1>1, <1>3, KickKept
<1> QED BY <1>7, OnwardRest DEF Explains

Explained == \E st, ag : Explains(st, ag)

\* What a coroutine is about shows in its place.
LEMMA Places ==
    ASSUME NEW m \in GoodMsg
    PROVE  /\ StageOf(m) \in Awaited <=> Opens(m)
           /\ StageOf(m) \in Awaited => Subject(m) = m.nfd
           /\ StageOf(m) \notin Awaited => Subject(m) = SocketOf(m)
           /\ StageOf(m) \notin {"MSG.data", "my_dispatch"} => ~ Later(m)
           /\ SocketOf(m) \in Fd /\ m \in Msg
<1>1. m \in Msg /\ m.at \in Label
  BY DEF GoodMsg, Msg
<1>2. SocketOf(m) \in Fd
  BY <1>1 DEF Msg, Task, SocketOf
<1>3. StageOf(m) \in Awaited <=> Opens(m)
  BY <1>1 DEF StageOf, Awaited, Opens, OpenLabel, Label, AgentLabel, GateLabel, RetLabel
<1>4. StageOf(m) \notin {"MSG.data", "my_dispatch"} => ~ Later(m)
  BY DEF StageOf, Later
<1> QED BY <1>1, <1>2, <1>3, <1>4 DEF Subject

\* The coroutine a service handles is the one of its socket.
LEMMA HandlesLife ==
    ASSUME IInv, NEW st, NEW ag, Explains(st, ag), NEW s \in Service, NEW l,
           NEW c, Handles(s, c, l), ~ Later(c), NEW f, f = Subject(c)
    PROVE  /\ f \in Fd /\ c \in Life(f) /\ c \in GoodMsg /\ c.at = l
           /\ Home(c) = s
           /\ Fits(st, ag, c, f)
           /\ l \notin {"MSG.close", "close_fd"} => st[f] = StageOf(c)
<1>1. c \in GoodMsg /\ c.at = l /\ Flies(c) /\ Home(c) = s
  BY DEF Handles
<1>2. Fits(st, ag, c, f)
  BY <1>1 DEF Explains, FlyPart
<1> QED BY <1>1, <1>2 DEF Fits, Life

\* The local variables of a coroutine that goes on stay; where it is changes,
\* and where it is answered.
Keeps(m, c) ==
    /\ m.task = c.task /\ m.callee = c.callee /\ m.agent = c.agent
    /\ m.nfd = c.nfd /\ m.account = c.account /\ m.rec = c.rec

LEMMA Moved ==
    ASSUME NEW c \in GoodMsg, NEW l, NEW m, m = [c EXCEPT !.at = l]
    PROVE  Keeps(m, c) /\ m.at = l /\ m.ret = c.ret /\ m.kfd = c.kfd
BY DEF GoodMsg, Msg, Keeps

\* A coroutine that opens an agent goes on.
LEMMA AwaitedOn ==
    ASSUME IInv, IInv', NEW st, NEW ag, Explains(st, ag),
           Idles,
           NEW s \in Service, NEW l, NEW c, c = Cur(s), NEW f, f = Subject(c),
           NEW m, Goes(s, l, m), Keeps(m, c),
           StageOf(c) \in Awaited, StageOf(m) \in Awaited,
           Steady(StageOf(c), StageOf(m)), m.ret = "open_ret", m.at # "assign"
    PROVE  Explained'
<1> DEFINE q == StageOf(m)
           st2 == [st EXCEPT ![f] = q]
<1>1. /\ Handles(s, c, l) /\ Moves({c}, {m}) /\ m \in GoodMsg /\ Placed'
      /\ c \in GoodMsg
  BY DEF Goes, Handles
<1>2. ~ Later(c) /\ ~ Later(m)
  BY <1>1, Places DEF Awaited
<1>3. /\ f \in Fd /\ c \in Life(f) /\ Fits(st, ag, c, f) /\ st[f] = StageOf(c)
  <2>1. Fits(st, ag, c, f) /\ f \in Fd /\ c \in Life(f) /\ c.at = l
    BY <1>1, <1>2, HandlesLife
  <2>2. l \notin {"MSG.close", "close_fd"}
    BY <2>1 DEF StageOf, Awaited
  <2> QED BY <1>1, <1>2, <2>1, <2>2, HandlesLife
<1>4. Subject(m) = f
  BY <1>1, Places DEF Keeps
<1>5. st \in [Fd -> Stage] /\ q \in Stage /\ st2[f] = q /\ \A h \in Fd : h # f => st2[h] = st[h]
  BY <1>3 DEF Explains, Ghosts, Stage, OpenStage, Awaited
<1> HIDE DEF st2, q
<1>6. Fits(st2, ag, m, f)'
  <2>1. FitsAwaited(st, ag, c, f)
    BY <1>3 DEF Fits
  <2>2. m.task[1] # "close" => Solo(st2, f)
    BY <1>5, <2>1 DEF FitsAwaited, Solo, Same, Keeps
  <2>3. m.task[1] = "close" => st2[SocketOf(m)] = "passing"
    BY <1>1, <1>5, <2>1, Places DEF FitsAwaited, Same, Keeps, SocketOf
  <2>4. FitsAwaited(st2, ag, m, f)
    BY <2>1, <2>2, <2>3 DEF FitsAwaited, Keeps, RetLabel, SocketOf
  <2> QED BY <1>3, <1>5, <2>4 DEF q, Fits, FitsAwaited, Awaited, Asking, Asks, Leaving, Meeting, Ending
<1>7. \A g \in Fd : Same(f, g) => Agree(q, st[g])
  <2>1. \A g \in Fd : Same(f, g) => Agree(st[f], st[g])
    BY <1>3 DEF Explains, PairPart
  <2> QED BY <1>3, <1>5, <2>1 DEF q, Agree, Before, In, Awaited, Entering, Asking, Asked, Leaving, Meeting, Ending
<1>8. /\ st[f] \notin Asked /\ q \notin {"kick_back", "kick_ret", "gamed_close"}
      /\ st[f] \in Meeting => q \in Meeting \/ \A g \in Fd : Same(f, g) => st[g] # "kick_back"
  BY <1>3 DEF q, Awaited, Asked, Meeting
<1>9. Steady(st[f], q)
  BY <1>3 DEF q
<1>10. Explains(st2, ag)'
  BY <1>1, <1>2, <1>3, <1>4, <1>5, <1>6, <1>7, <1>8, <1>9, Onward DEF st2
<1> QED BY <1>10 DEF Explained

\* The user of the agent of a socket is that socket.
LEMMA UserOf ==
    ASSUME IInv, NEW st, NEW ag, Explains(st, ag), NEW f \in Fd, st[f] \in UseStage
    PROVE  /\ ag[f] \in Agent /\ user[ag[f]] # Nil
           /\ UserFd(ag[f]) = f /\ user[ag[f]].account = AccountOf[f]
<1>1. user[ag[f]] = [fd |-> f, account |-> AccountOf[f]]
  BY DEF Explains, UserPart
<1>2. ag[f] \in Agent
  <2>1. st[f] \in HasStage
    BY DEF UseStage, HasStage, Awaited, Leaving
  <2> QED BY <2>1 DEF Explains, Ghosts, AgPart, AgAt, Opt
<1>3. user[ag[f]] # Nil
  BY <1>1, <1>2, NilAssumption, FdAssumption DEF User
<1> QED BY <1>1, <1>2, <1>3 DEF UserFd

\* A coroutine that has the client before it kicked goes on.
LEMMA AskingOn ==
    ASSUME IInv, IInv', NEW st, NEW ag, Explains(st, ag),
           Idles,
           NEW s \in Service, NEW l, NEW c, c = Cur(s), NEW f, f = Subject(c),
           NEW m, Goes(s, l, m), Keeps(m, c),
           StageOf(c) \in Asking, StageOf(m) \in Asking,
           m.at \in {"other_login", "other_write"} => m.ret = "other_ret",
           m.at \in {"agent_kick", "kick_self", "gamed_kick", "kick_close"} =>
                m.ret = "kick_ret",
           m.at = "gamed_kick" => m.kfd = UserFd(m.callee),
           m.at = "kick_close" => c.at = "gamed_kick" /\ m.kfd = c.kfd
    PROVE  Explained'
<1> DEFINE q == StageOf(m)
           st2 == [st EXCEPT ![f] = q]
<1>1. /\ Handles(s, c, l) /\ Moves({c}, {m}) /\ m \in GoodMsg /\ Placed'
      /\ c \in GoodMsg
  BY DEF Goes, Handles
<1>2. ~ Later(c) /\ ~ Later(m)
  BY <1>1, Places DEF Asking
<1>3. /\ f \in Fd /\ c \in Life(f) /\ Fits(st, ag, c, f) /\ st[f] = StageOf(c)
  <2>1. Fits(st, ag, c, f) /\ f \in Fd /\ c \in Life(f) /\ c.at = l
    BY <1>1, <1>2, HandlesLife
  <2>2. l \notin {"MSG.close", "close_fd"}
    BY <2>1 DEF StageOf, Asking
  <2> QED BY <1>1, <1>2, <2>1, <2>2, HandlesLife
<1>4. Subject(m) = f
  <2>1. StageOf(c) \notin Awaited /\ StageOf(m) \notin Awaited
    BY DEF Asking, Awaited
  <2> QED BY <1>1, <2>1, Places DEF Keeps, SocketOf
<1>5. st \in [Fd -> Stage] /\ q \in Stage /\ st2[f] = q /\ \A h \in Fd : h # f => st2[h] = st[h]
  BY <1>3 DEF Explains, Ghosts, Stage, OpenStage
<1> HIDE DEF st2, q
<1>6. Fits(st2, ag, m, f)'
  <2>1. FitsAsking(st, ag, c, f) /\ FitsRec(c, f)
    BY <1>3 DEF Fits, Asks
  <2>2. PICK g \in Fd : /\ Same(g, f) /\ st[g] = "served" /\ ag[g] = c.callee
                        /\ c.at \in {"gamed_kick", "kick_close"} => c.kfd = g
    BY <2>1 DEF FitsAsking
  <2>3. UserFd(c.callee) = g
    BY <2>2, UserOf DEF UseStage
  <2>4. st2[g] = "served" /\ ag[g] = m.callee
    BY <1>5, <2>2 DEF Same, Keeps
  <2>5. m.at \in {"gamed_kick", "kick_close"} => m.kfd = g
    BY <2>2, <2>3 DEF Keeps
  <2>6. FitsAsking(st2, ag, m, f)
    BY <2>2, <2>4, <2>5 DEF FitsAsking
  <2>7. FitsRec(m, f)'
    BY <2>1 DEF FitsRec, Keeps, Idles
  <2> QED BY <1>3, <1>5, <2>6, <2>7 DEF q, Fits, FitsAsking, Awaited, Asking, Leaving, Meeting, Ending
<1>7. \A g \in Fd : Same(f, g) => Agree(q, st[g])
  <2>1. \A g \in Fd : Same(f, g) => Agree(st[f], st[g])
    BY <1>3 DEF Explains, PairPart
  <2> QED BY <1>3, <1>5, <2>1 DEF q, Agree, Before, In, Awaited, Entering, Asking, Asked, Leaving, Meeting, Ending
<1>8. /\ st[f] \notin Asked /\ q \notin {"kick_back", "kick_ret", "gamed_close"}
      /\ st[f] \in Meeting => q \in Meeting \/ \A g \in Fd : Same(f, g) => st[g] # "kick_back"
  BY <1>3 DEF q, Asking, Asked, Meeting
<1>9. Steady(st[f], q)
  BY <1>3 DEF q, Steady, Hinge, OpenStage, FwdStage, HasStage, UseStage, RecStage, Entering, Asking, Asked, Awaited, Leaving, Meeting, Ending
<1>10. Explains(st2, ag)'
  BY <1>1, <1>2, <1>3, <1>4, <1>5, <1>6, <1>7, <1>8, <1>9, Onward DEF st2
<1> QED BY <1>10 DEF Explained

\* Where a coroutine that an agent runs is answered.
LEMMA RetOf ==
    ASSUME IInv, NEW st, NEW ag, Explains(st, ag), NEW s \in Service, NEW l,
           NEW c, Handles(s, c, l)
    PROVE  /\ l \in {"agent_open", "opened", "register", "welcome"} => c.ret = "open_ret"
           /\ l \in {"other_login", "other_write"} => c.ret = "other_ret"
           /\ l \in {"agent_kick", "kick_self", "gamed_kick", "kick_close"} => c.ret = "kick_ret"
<1> SUFFICES ASSUME l \in {"agent_open", "opened", "register", "welcome", "other_login",
                           "other_write", "agent_kick", "kick_self", "gamed_kick", "kick_close"}
             PROVE  /\ l \in {"agent_open", "opened", "register", "welcome"} => c.ret = "open_ret"
                    /\ l \in {"other_login", "other_write"} => c.ret = "other_ret"
                    /\ l \in {"agent_kick", "kick_self", "gamed_kick", "kick_close"} =>
                            c.ret = "kick_ret"
  OBVIOUS
<1> DEFINE f == Subject(c)
<1>1. c.at = l
  BY DEF Handles
<1>2. ~ Later(c) /\ StageOf(c) = l
  BY <1>1 DEF Later, StageOf
<1>3. Fits(st, ag, c, f) /\ st[f] = l
  BY <1>2, HandlesLife
<1> HIDE DEF f
<1> QED BY <1>1, <1>3 DEF Fits, FitsAwaited, FitsAsking, Awaited, Asking

\* cmd_agent_open goes on; what the agent does for it that changes nothing here.
LEMMA AgentOpenEx ==
    ASSUME IInv, IInv', NEW st, NEW ag, Explains(st, ag), NEW a \in Agent, AgentOpen(a)
    PROVE  Explained'
<1> DEFINE c == Cur(a)
           m == [c EXCEPT !.at = "opened"]
<1>1. At(a, "agent_open") /\ Yield(a, m) /\ Idles /\ a \in Service
  BY ServiceOf DEF AgentOpen, Pass, Idles, sockVars, gateVars, gamedVars, agentVars
<1>2. Goes(a, "agent_open", m)
  BY <1>1, YieldGoes DEF Explains
<1>3. Handles(a, c, "agent_open") /\ c \in GoodMsg /\ c.at = "agent_open"
  BY <1>2 DEF Goes, Handles
<1>4. Keeps(m, c) /\ m.at = "opened" /\ m.ret = "open_ret"
  BY <1>1, <1>3, Moved, RetOf
<1>5. /\ StageOf(c) \in Awaited /\ StageOf(m) \in Awaited
      /\ Steady(StageOf(c), StageOf(m))
  BY <1>3, <1>4 DEF StageOf, Steady, Hinge, OpenStage, FwdStage, HasStage, UseStage, RecStage,
     Entering, Asking, Asked, Awaited, Leaving, Meeting, Ending
<1> HIDE DEF m
<1> QED BY <1>1, <1>2, <1>4, <1>5, AwaitedOn

LEMMA WelcomeEx ==
    ASSUME IInv, IInv', NEW st, NEW ag, Explains(st, ag), NEW a \in Agent, Welcome(a)
    PROVE  Explained'
<1> DEFINE c == Cur(a)
           m == [c EXCEPT !.at = "agent_ret"]
<1>1. At(a, "welcome") /\ Yield(a, m) /\ Idles /\ a \in Service
  BY ServiceOf DEF Welcome, Pass, Idles, sockVars, gateVars, gamedVars, agentVars
<1>2. Goes(a, "welcome", m)
  BY <1>1, YieldGoes DEF Explains
<1>3. Handles(a, c, "welcome") /\ c \in GoodMsg /\ c.at = "welcome"
  BY <1>2 DEF Goes, Handles
<1>4. Keeps(m, c) /\ m.at = "agent_ret" /\ m.ret = "open_ret"
  BY <1>1, <1>3, Moved, RetOf
<1>5. /\ StageOf(c) \in Awaited /\ StageOf(m) \in Awaited
      /\ Steady(StageOf(c), StageOf(m))
  BY <1>3, <1>4 DEF StageOf, Steady, Hinge, OpenStage, FwdStage, HasStage, UseStage, RecStage,
     Entering, Asking, Asked, Awaited, Leaving, Meeting, Ending
<1> HIDE DEF m
<1> QED BY <1>1, <1>2, <1>4, <1>5, AwaitedOn

LEMMA OtherLoginEx ==
    ASSUME IInv, IInv', NEW st, NEW ag, Explains(st, ag), NEW a \in Agent, OtherLogin(a)
    PROVE  Explained'
<1> DEFINE c == Cur(a)
           m == [c EXCEPT !.at = "other_write"]
<1>1. At(a, "other_login") /\ Yield(a, m) /\ Idles /\ a \in Service
  BY ServiceOf DEF OtherLogin, Pass, Idles, sockVars, gateVars, gamedVars, agentVars
<1>2. Goes(a, "other_login", m)
  BY <1>1, YieldGoes DEF Explains
<1>3. Handles(a, c, "other_login") /\ c \in GoodMsg /\ c.at = "other_login"
  BY <1>2 DEF Goes, Handles
<1>4. Keeps(m, c) /\ m.at = "other_write" /\ m.ret = "other_ret"
  BY <1>1, <1>3, Moved, RetOf
<1>5. StageOf(c) \in Asking /\ StageOf(m) \in Asking
  BY <1>3, <1>4 DEF StageOf, Asking
<1> HIDE DEF m
<1> QED BY <1>1, <1>2, <1>4, <1>5, AskingOn

LEMMA OtherWriteEx ==
    ASSUME IInv, IInv', NEW st, NEW ag, Explains(st, ag), NEW a \in Agent, OtherWrite(a)
    PROVE  Explained'
<1> DEFINE c == Cur(a)
           m == [c EXCEPT !.at = "agent_ret"]
<1>1. At(a, "other_write") /\ Yield(a, m) /\ Idles /\ a \in Service
  BY ServiceOf DEF OtherWrite, Pass, Idles, sockVars, gateVars, gamedVars, agentVars
<1>2. Goes(a, "other_write", m)
  BY <1>1, YieldGoes DEF Explains
<1>3. Handles(a, c, "other_write") /\ c \in GoodMsg /\ c.at = "other_write"
  BY <1>2 DEF Goes, Handles
<1>4. Keeps(m, c) /\ m.at = "agent_ret" /\ m.ret = "other_ret"
  BY <1>1, <1>3, Moved, RetOf
<1>5. StageOf(c) \in Asking /\ StageOf(m) \in Asking
  BY <1>3, <1>4 DEF StageOf, Asking
<1> HIDE DEF m
<1> QED BY <1>1, <1>2, <1>4, <1>5, AskingOn

LEMMA AgentKickEx ==
    ASSUME IInv, IInv', NEW st, NEW ag, Explains(st, ag), NEW a \in Agent, AgentKick(a)
    PROVE  Explained'
<1> DEFINE c == Cur(a)
           m == [c EXCEPT !.at = "kick_self"]
<1>1. At(a, "agent_kick") /\ Yield(a, m) /\ Idles /\ a \in Service
  BY ServiceOf DEF AgentKick, Pass, Idles, sockVars, gateVars, gamedVars, agentVars
<1>2. Goes(a, "agent_kick", m)
  BY <1>1, YieldGoes DEF Explains
<1>3. Handles(a, c, "agent_kick") /\ c \in GoodMsg /\ c.at = "agent_kick"
  BY <1>2 DEF Goes, Handles
<1>4. Keeps(m, c) /\ m.at = "kick_self" /\ m.ret = "kick_ret"
  BY <1>1, <1>3, Moved, RetOf
<1>5. StageOf(c) \in Asking /\ StageOf(m) \in Asking
  BY <1>3, <1>4 DEF StageOf, Asking
<1> HIDE DEF m
<1> QED BY <1>1, <1>2, <1>4, <1>5, AskingOn

LEMMA AgentKickSelfEx ==
    ASSUME IInv, IInv', NEW st, NEW ag, Explains(st, ag), NEW a \in Agent, AgentKickSelf(a)
    PROVE  Explained'
<1> DEFINE c == Cur(a)
           m == [c EXCEPT !.at = "gamed_kick", !.kfd = UserFd(a)]
<1>1. /\ At(a, "kick_self") /\ Send(a, Gate, m) /\ Idles /\ a \in Service
      /\ Gate \in Service /\ Gate # a
  BY ServiceOf DEF AgentKickSelf, KickSelf, Idles, sockVars, gateVars, gamedVars, agentVars
<1>2. Handles(a, c, "kick_self") /\ c \in GoodMsg /\ c.at = "kick_self" /\ c.callee = a
  <2>1. Handles(a, c, "kick_self")
    BY <1>1, Handling DEF Explains
  <2> QED BY <2>1 DEF Handles, Home, AgentLabel
<1>3. Keeps(m, c) /\ m.at = "gamed_kick" /\ m.ret = c.ret /\ m.kfd = UserFd(a)
  BY <1>2 DEF GoodMsg, Msg, Keeps
<1>4. m.ret = "kick_ret" /\ m.kfd = UserFd(m.callee)
  BY <1>1, <1>2, <1>3, RetOf DEF Keeps
<1>5. Goes(a, "kick_self", m)
  <2>1. Home(m) = Gate
    BY <1>3 DEF Home, AgentLabel
  <2> HIDE DEF m
  <2> QED BY <1>1, <2>1, SendGoes DEF Explains
<1>6. StageOf(c) \in Asking /\ StageOf(m) \in Asking
  BY <1>2, <1>3 DEF StageOf, Asking
<1> HIDE DEF m
<1> QED BY <1>1, <1>3, <1>4, <1>5, <1>6, AskingOn

LEMMA OtherLoginDoneEx ==
    ASSUME IInv, IInv', NEW st, NEW ag, Explains(st, ag), OtherLoginDone
    PROVE  Explained'
<1> DEFINE c == Cur(Gate)
           m == [c EXCEPT !.at = "agent_kick", !.ret = "kick_ret"]
<1>1. At(Gate, "other_ret") /\ Send(Gate, c.callee, m) /\ Idles /\ Gate \in Service
  BY ServiceOf DEF OtherLoginDone, Idles, sockVars, gateVars, gamedVars, agentVars
<1>2. Handles(Gate, c, "other_ret") /\ c \in GoodMsg /\ c.at = "other_ret"
  <2>1. Handles(Gate, c, "other_ret")
    BY <1>1, Handling DEF Explains
  <2> QED BY <2>1 DEF Handles
<1>3. c.callee \in Agent /\ c.callee \in Service /\ c.callee # Gate
  BY <1>2, ServiceOf DEF GoodMsg, Vouched, NeedsCallee
<1>4. Keeps(m, c) /\ m.at = "agent_kick" /\ m.ret = "kick_ret"
  BY <1>2 DEF GoodMsg, Msg, Keeps
<1>5. Goes(Gate, "other_ret", m)
  <2>1. Home(m) = c.callee
    BY <1>4 DEF Home, AgentLabel, Keeps
  <2> HIDE DEF m
  <2> QED BY <1>1, <1>3, <2>1, SendGoes DEF Explains
<1>6. StageOf(c) \in Asking /\ StageOf(m) \in Asking
  BY <1>2, <1>4 DEF StageOf, Asking
<1> HIDE DEF m
<1> QED BY <1>1, <1>4, <1>5, <1>6, AskingOn

\* cmd_gamed_kick finds the client still connected: it stays until it is kicked.
LEMMA KickEx ==
    ASSUME IInv, IInv', NEW st, NEW ag, Explains(st, ag), Kick
    PROVE  Explained'
<1> DEFINE c == Cur(Gate)
           m == [c EXCEPT !.at = "kick_close"]
<1>1. At(Gate, "gamed_kick") /\ Idles /\ Gate \in Service
  BY ServiceOf DEF Kick, Idles, sockVars, gateVars, gamedVars, agentVars
<1>2. Handles(Gate, c, "gamed_kick") /\ c \in GoodMsg /\ c.at = "gamed_kick"
  <2>1. Handles(Gate, c, "gamed_kick")
    BY <1>1, Handling DEF Explains
  <2> QED BY <2>1 DEF Handles
<1>3. c.kfd \in connection
  <2> DEFINE f == Subject(c)
  <2>1. ~ Later(c) /\ StageOf(c) = "gamed_kick"
    BY <1>2 DEF Later, StageOf
  <2>2. Fits(st, ag, c, f) /\ st[f] = "gamed_kick"
    BY <1>1, <1>2, <2>1, HandlesLife
  <2>3. FitsAsking(st, ag, c, f)
    BY <2>2 DEF Fits, Asking
  <2>4. PICK g \in Fd : st[g] = "served" /\ c.kfd = g
    BY <1>2, <2>3 DEF FitsAsking
  <2> QED BY <2>4 DEF Explains, SockPart, SockAt
<1>4. Keeps(m, c) /\ m.at = "kick_close" /\ m.ret = c.ret /\ m.kfd = c.kfd
  BY <1>2, Moved
<1>5. m.ret = "kick_ret"
  BY <1>1, <1>2, <1>4, RetOf
<1>6. Goes(Gate, "gamed_kick", m)
  <2>1. Yield(Gate, m)
    BY <1>3 DEF Kick
  <2> HIDE DEF m
  <2> QED BY <1>1, <2>1, YieldGoes DEF Explains
<1>7. StageOf(c) \in Asking /\ StageOf(m) \in Asking
  BY <1>2, <1>4 DEF StageOf, Asking
<1> HIDE DEF m
<1> QED BY <1>1, <1>2, <1>4, <1>5, <1>6, <1>7, AskingOn

\* The agent answers the gate: no answer of a coroutine about a client before
\* the one at hand is on its way then, since that client is still being closed.
LEMMA KickAnswered ==
    ASSUME IInv, IInv', NEW st, NEW ag, Explains(st, ag), Idles,
           NEW a \in Agent, NEW c, c = Cur(a), NEW f, f = Subject(c),
           NEW m, Goes(a, "agent_ret", m), ~ Free(mbox'[Gate], {m}), Keeps(m, c),
           StageOf(c) = "kick_back", m.at = "kick_ret"
    PROVE  Explained'
<1> DEFINE st2 == [st EXCEPT ![f] = "kick_ret"]
<1>1. /\ Handles(a, c, "agent_ret") /\ Moves({c}, {m}) /\ m \in GoodMsg /\ Placed'
      /\ c \in GoodMsg
  BY DEF Goes, Handles
<1>2. ~ Later(c) /\ ~ Later(m) /\ StageOf(m) = "kick_ret" /\ a \in Service
  <2>1. StageOf(m) = "kick_ret"
    BY DEF StageOf
  <2> QED BY <1>1, <2>1, Places, ServiceOf
<1>3. /\ f \in Fd /\ c \in Life(f) /\ Fits(st, ag, c, f) /\ st[f] = "kick_back"
  BY <1>1, <1>2, HandlesLife
<1>4. Subject(m) = f
  <2>1. StageOf(c) \notin Awaited /\ StageOf(m) \notin Awaited
    BY <1>2 DEF Awaited
  <2> QED BY <1>1, <2>1, Places DEF Keeps, SocketOf
<1>5. /\ st \in [Fd -> Stage] /\ "kick_ret" \in Stage
      /\ st2[f] = "kick_ret" /\ \A h \in Fd : h # f => st2[h] = st[h]
  BY <1>3 DEF Explains, Ghosts, Stage, OpenStage, Asked
<1> HIDE DEF st2
<1>6. Fits(st2, ag, m, f)'
  <2>1. FitsRec(c, f)
    BY <1>3 DEF Fits, Asks
  <2>2. FitsRec(m, f)'
    BY <2>1 DEF FitsRec, Keeps, Idles
  <2> QED BY <1>2, <1>3, <1>5, <2>2 DEF Fits, Awaited, Asking, Leaving, Meeting, Ending
<1>7. \A g \in Fd : Same(f, g) => Agree("kick_ret", st[g]) /\ st[g] # "gamed_close"
  <2>1. \A g \in Fd : Same(f, g) => Agree("kick_back", st[g])
    BY <1>3 DEF Explains, PairPart
  <2> QED BY <2>1 DEF Agree, Before, In, Awaited, Entering, Asking, Asked, Leaving, Meeting, Ending
<1>8. Steady(st[f], "kick_ret")
  BY <1>3 DEF Steady, Hinge, OpenStage, FwdStage, HasStage, UseStage, RecStage, Entering, Asking, Asked, Awaited, Leaving, Meeting, Ending
<1>9. /\ Ghosts(st2, ag) /\ Placed' /\ SockPart(st2)' /\ AgPart(st2, ag)'
      /\ UserPart(st2, ag)' /\ RecPart(st2, ag)' /\ PairPart(st2)
      /\ FlyPart(st2, ag)' /\ FirstPart(st2)'
  BY <1>1, <1>2, <1>3, <1>4, <1>5, <1>6, <1>7, <1>8, OnwardRest DEF st2
<1>10. BackPart(st2, ag)'
  <2>1. BackLike(st, ag, st2, ag, {c}, {m})
    BY <1>3, <1>4, <1>5 DEF BackLike, Life, Meeting
  <2> QED BY <1>1, <2>1, BackKept DEF Explains, KickPart
<1>11. LeavePart(st2)
  <2>1. LeaveLike(st, st2)
    BY <1>3, <1>5 DEF LeaveLike, Asked
  <2> QED BY <2>1, LeaveKept DEF Explains, KickPart
<1>12. RetPart(st2)'
  <2>1. ASSUME NEW g \in Fd, st2[g] = "kick_ret"
        PROVE  /\ ~ Free(mbox'[Gate], Life(g))
               /\ \A h \in Fd : Same(h, g) /\ st2[h] = "gamed_close" =>
                        Ahead(mbox'[Gate], Life(g), Life(h))
    <3>1. CASE g = f
      <4>1. m \in Life(g)
        BY <1>1, <1>2, <1>4, <3>1 DEF Life
      <4>2. ~ Free(mbox'[Gate], Life(g))
        BY <4>1 DEF Free
      <4>3. \A h \in Fd : Same(h, g) => st2[h] # "gamed_close"
        BY <1>5, <1>7, <3>1 DEF Same
      <4> QED BY <4>2, <4>3
    <3>2. CASE g # f
      <4>1. {c} \cap Life(g) = {} /\ {m} \cap Life(g) = {} /\ st[g] = "kick_ret"
        BY <1>3, <1>4, <1>5, <2>1, <3>2 DEF Life
      <4>2. mbox \in Mail /\ ext \subseteq GoodMsg /\ Gate \in Service
        BY MailOf, ServiceOf
      <4>3. ~ Free(mbox[Gate], Life(g))
        BY <4>1 DEF Explains, KickPart, RetPart
      <4>4. ~ Free(mbox'[Gate], Life(g))
        BY <1>1, <4>1, <4>2, <4>3, MoveFacts
      <4>5. ASSUME NEW h \in Fd, Same(h, g), st2[h] = "gamed_close"
            PROVE  Ahead(mbox'[Gate], Life(g), Life(h))
        <5>1. st[h] = "gamed_close"
          BY <1>5, <4>5
        <5>2. Ahead(mbox[Gate], Life(g), Life(h))
          BY <4>1, <4>5, <5>1 DEF Explains, KickPart, RetPart
        <5> QED BY <1>1, <4>1, <4>2, <5>2, MoveAhead
      <4> QED BY <4>4, <4>5
    <3> QED BY <3>1, <3>2
  <2> QED BY <2>1 DEF RetPart, Life, Later, Subject, Opens, SocketOf
<1>13. Explains(st2, ag)'
  BY <1>9, <1>10, <1>11, <1>12 DEF Explains, KickPart
<1> QED BY <1>13 DEF Explained

LEMMA AgentReturnEx ==
    ASSUME IInv, IInv', NEW st, NEW ag, Explains(st, ag), NEW a \in Agent, AgentReturn(a)
    PROVE  Explained'
<1> DEFINE c == Cur(a)
           m == [c EXCEPT !.at = c.ret]
<1>1. /\ At(a, "agent_ret") /\ Send(a, Gate, m) /\ Idles /\ a \in Service
      /\ Gate \in Service /\ Gate # a
  BY ServiceOf DEF AgentReturn, Idles, sockVars, gateVars, gamedVars, agentVars
<1>2. Handles(a, c, "agent_ret") /\ c \in GoodMsg /\ c.at = "agent_ret"
  <2>1. Handles(a, c, "agent_ret")
    BY <1>1, Handling DEF Explains
  <2> QED BY <2>1 DEF Handles
<1>3. c.ret \in RetLabel
  BY <1>2 DEF GoodMsg, Vouched, NeedsRet, AgentLabel
<1>4. Keeps(m, c) /\ m.at = c.ret /\ m.ret = c.ret
  BY <1>2, Moved
<1>5. Goes(a, "agent_ret", m) /\ ~ Free(mbox'[Gate], {m})
  <2>1. Home(m) = Gate
    BY <1>3, <1>4 DEF Home, AgentLabel, RetLabel
  <2> HIDE DEF m
  <2> QED BY <1>1, <2>1, SendGoes DEF Explains
<1>6. CASE c.ret = "open_ret"
  <2>1. /\ StageOf(c) \in Awaited /\ StageOf(m) \in Awaited
        /\ Steady(StageOf(c), StageOf(m))
    BY <1>2, <1>4, <1>6 DEF StageOf, Steady, Hinge, OpenStage, FwdStage, HasStage, UseStage, RecStage,
       Entering, Asking, Asked, Awaited, Leaving, Meeting, Ending
  <2> HIDE DEF m
  <2> QED BY <1>1, <1>4, <1>5, <1>6, <2>1, AwaitedOn
<1>7. CASE c.ret = "other_ret"
  <2>1. StageOf(c) \in Asking /\ StageOf(m) \in Asking
    BY <1>2, <1>4, <1>7 DEF StageOf, Asking
  <2> HIDE DEF m
  <2> QED BY <1>1, <1>4, <1>5, <1>7, <2>1, AskingOn
<1>8. CASE c.ret = "kick_ret"
  <2>1. StageOf(c) = "kick_back"
    BY <1>2, <1>8 DEF StageOf
  <2> HIDE DEF m
  <2> QED BY <1>1, <1>4, <1>5, <1>8, <2>1, KickAnswered
<1>9. CASE c.ret = "close_ret"
  <2> DEFINE f == Subject(c)
  <2>1. StageOf(c) = "close_back"
    BY <1>2, <1>9 DEF StageOf
  <2>2. ~ Later(c)
    BY <1>2 DEF Later
  <2>3. st[f] = "close_back" /\ f \in Fd
    BY <1>1, <1>2, <2>1, <2>2, HandlesLife
  <2> HIDE DEF f
  <2>4. st[f] \in Stage
    BY <2>3 DEF Explains, Ghosts
  <2> QED BY <2>3, <2>4 DEF Stage, OpenStage, FwdStage, Entering, Asking, Asked, Awaited, Leaving, Meeting, Ending
<1> QED BY <1>3, <1>6, <1>7, <1>8, <1>9 DEF RetLabel

-----------------------------------------------------------------------------
(* Steps at which no socket changes its stage.                             *)

LEMMA FlySame ==
    ASSUME IInv, IInv', NEW st, NEW ag, FlyPart(st, ag), NEW T, NEW N, Moves(T, N),
           online_account' = online_account,
           \A m \in N : ~ Later(m) =>
                /\ Fits(st, ag, m, Subject(m))
                /\ st[Subject(m)] # "out" => T \cap Life(Subject(m)) # {}
    PROVE  FlyPart(st, ag)'
<1>1. mbox \in Mail /\ ext \subseteq GoodMsg
  BY MailOf
<1>2. ASSUME NEW h \in Fd, st[h] # "out" PROVE Alone(mbox', ext', Life(h))
  <2>1. Alone(mbox, ext, Life(h))
    BY <1>2 DEF FlyPart
  <2>2. CASE T \cap Life(h) # {}
    BY <1>1, <2>1, <2>2, MoveFacts
  <2>3. CASE T \cap Life(h) = {}
    <3>1. N \cap Life(h) = {}
      BY <1>2, <2>3 DEF Life
    <3> QED BY <1>1, <2>1, <3>1, MoveFacts
  <2> QED BY <2>2, <2>3
<1>3. ASSUME NEW m, Flies(m)', ~ Later(m) PROVE Fits(st, ag, m, Subject(m))'
  <2>1. Flies(m) \/ m \in N
    BY <1>1, <1>3, MoveFacts
  <2>2. Fits(st, ag, m, Subject(m))
    BY <1>3, <2>1 DEF FlyPart
  <2> QED BY <2>2 DEF Fits, FitsAwaited, FitsAsking, FitsRec, FitsLeaving, Subject, Opens, SocketOf
<1> QED BY <1>2, <1>3 DEF FlyPart, Life, Later, Subject, Opens, SocketOf

LEMMA Still ==
    ASSUME IInv, IInv', NEW st, NEW ag, Explains(st, ag), NEW T, NEW N, Moves(T, N), Placed',
           \A m \in N : ~ Later(m) =>
                /\ Fits(st, ag, m, Subject(m))
                /\ st[Subject(m)] # "out" => T \cap Life(Subject(m)) # {},
           FirstLike(st, st, T, N), KickLike(st, ag, st, ag, T, N),
           NEW F, Outside(F), \A f \in F : SockAt(st[f], f)', AgLike(st, ag, ag, F)',
           UNCHANGED pool, UNCHANGED spawned, UNCHANGED online_account,
           UNCHANGED user, UNCHANGED cmds
    PROVE  Explained'
<1>1. /\ Ghosts(st, ag) /\ SockPart(st) /\ AgPart(st, ag) /\ UserPart(st, ag)
      /\ RecPart(st, ag) /\ PairPart(st) /\ FlyPart(st, ag) /\ FirstPart(st) /\ KickPart(st, ag)
  BY DEF Explains
<1>2. SockPart(st)'
  BY <1>1, SockKept
<1>3. AgPart(st, ag)'
  BY <1>1, AgKept
<1>4. UserPart(st, ag)'
  BY <1>1 DEF UserPart
<1>5. RecPart(st, ag)'
  BY <1>1 DEF RecPart, Kicked
<1>6. FlyPart(st, ag)'
  BY <1>1, FlySame
<1>7. FirstPart(st)'
  BY <1>1, FirstKept
<1>8. KickPart(st, ag)'
  BY <1>1, KickKept
<1>9. Explains(st, ag)'
  BY <1>1, <1>2, <1>3, <1>4, <1>5, <1>6, <1>7, <1>8 DEF Explains
<1> QED BY <1>9 DEF Explained

\* Nothing but the mailboxes changes.
LEMMA StillIdle ==
    ASSUME IInv, IInv', NEW st, NEW ag, Explains(st, ag), NEW T, NEW N, Moves(T, N), Placed',
           \A m \in N : ~ Later(m) =>
                /\ Fits(st, ag, m, Subject(m))
                /\ st[Subject(m)] # "out" => T \cap Life(Subject(m)) # {},
           FirstLike(st, st, T, N), KickLike(st, ag, st, ag, T, N), Idles
    PROVE  Explained'
<1>1. Outside({})
  BY DEF Outside, Idles
<1>2. (\A f \in {} : SockAt(st[f], f)') /\ AgLike(st, ag, ag, {})'
  BY DEF AgLike
<1>3. /\ UNCHANGED pool /\ UNCHANGED spawned /\ UNCHANGED online_account
      /\ UNCHANGED user /\ UNCHANGED cmds
  BY DEF Idles
<1> QED BY <1>1, <1>2, <1>3, Still

\* Coroutines that are in a mailbox, not with a service outside.
LEMMA Mailed ==
    ASSUME IInv, NEW st, NEW ag, Explains(st, ag), NEW g \in Fd,
           st[g] \in {"MSG.data", "kick_back", "kick_ret"}, NEW m \in ext
    PROVE  m \notin Life(g)
<1>1. Alone(mbox, ext, Life(g))
  BY DEF Explains, FlyPart
<1>2. \E s \in Service : ~ Free(mbox[s], Life(g))
  <2>1. CASE st[g] = "kick_back"
    <3>1. PICK f \in Fd : st[f] \in Meeting /\ ~ Free(mbox[ag[f]], Life(g))
      BY <2>1 DEF Explains, KickPart, BackPart
    <3>2. ag[f] # Nil
      BY <3>1 DEF Explains, AgPart, AgAt, HasStage, Leaving
    <3> QED BY <3>1, <3>2, ServiceOf DEF Explains, Ghosts, Opt
  <2>2. CASE st[g] # "kick_back"
    BY <2>2, ServiceOf DEF Explains, FirstPart, KickPart, RetPart
  <2> QED BY <2>1, <2>2
<1> QED BY <1>1, <1>2 DEF Alone

LEMMA ReplyEx ==
    ASSUME IInv, IInv', NEW st, NEW ag, Explains(st, ag), NEW m, Reply(m)
    PROVE  Explained'
<1>1. m \in GoodMsg /\ Moves({m}, {m}) /\ Placed' /\ m \in ext /\ Flies(m)
  BY ReplyMoves DEF Explains, Flies, Flying
<1>2. \A n \in {m} : ~ Later(n) =>
                /\ Fits(st, ag, n, Subject(n))
                /\ st[Subject(n)] # "out" => {m} \cap Life(Subject(n)) # {}
  BY <1>1 DEF Explains, FlyPart, Life
<1>3. FirstLike(st, st, {m}, {m})
  <2>1. \A fd \in Fd : st[fd] = "MSG.data" => m \notin Life(fd)
    BY <1>1, Mailed
  <2>2. \A fd \in Fd : st[fd] \in {"none", "MSG.open", "idle"} => m \notin Data(fd)
    BY <1>1 DEF Explains, FirstPart
  <2> QED BY <2>1, <2>2 DEF FirstLike
<1>4. KickLike(st, ag, st, ag, {m}, {m})
  <2>1. \A g \in Fd : st[g] \in {"kick_back", "kick_ret"} => m \notin Life(g)
    BY <1>1, Mailed
  <2> QED BY <2>1 DEF KickLike, BackLike, RetLike, LeaveLike
<1>5. Idles
  BY DEF Reply, Idles, sockVars, gateVars, gamedVars, agentVars
<1> QED BY <1>1, <1>2, <1>3, <1>4, <1>5, StillIdle

\* The coroutine of a socket that is gone, or that has its agent, is no kick.
LEMMA NoKick ==
    ASSUME NEW st, NEW ag, NEW T, NEW N,
           \A g \in Fd : st[g] \in {"kick_back", "kick_ret"} =>
                T \cap Life(g) = {} /\ N \cap Life(g) = {}
    PROVE  KickLike(st, ag, st, ag, T, N)
BY DEF KickLike, BackLike, RetLike, LeaveLike

\* MSG.close and close_fd of a socket that is gone do nothing.
LEMMA StillOut ==
    ASSUME IInv, IInv', NEW st, NEW ag, Explains(st, ag), NEW f \in Fd, st[f] = "out",
           NEW T, NEW N, Moves(T, N), Placed', T \subseteq Life(f), N \subseteq Life(f),
           \A m \in N : m.at \in {"MSG.close", "close_fd"},
           Outside({f}), SockAt("out", f)',
           UNCHANGED pool, UNCHANGED spawned, UNCHANGED online_account,
           UNCHANGED user, UNCHANGED cmds
    PROVE  Explained'
<1>1. \A m \in N : ~ Later(m) =>
                /\ Fits(st, ag, m, Subject(m))
                /\ st[Subject(m)] # "out" => T \cap Life(Subject(m)) # {}
  BY DEF Life, Fits, Awaited, Asking, Asks, Leaving, Meeting, Ending
<1>2. FirstLike(st, st, T, N)
  BY DEF FirstLike, Life, Data
<1>3. KickLike(st, ag, st, ag, T, N)
  BY NoKick DEF Life
<1>4. (\A h \in {f} : SockAt(st[h], h)') /\ AgLike(st, ag, ag, {f})'
  <2>1. AgAt(st, ag, f)
    BY DEF Explains, AgPart
  <2>2. AgAt(st, ag, f)'
    BY <2>1 DEF AgAt, HasStage, FwdStage, Awaited, Leaving, Meeting, Ending
  <2> QED BY <2>2 DEF AgLike
<1> QED BY <1>1, <1>2, <1>3, <1>4, Still

-----------------------------------------------------------------------------
(* The connection of a socket closes.                                      *)

\* A coroutine that closes the agent of a socket goes on.
LEMMA LeavingOn ==
    ASSUME IInv, IInv', NEW st, NEW ag, Explains(st, ag), Idles,
           NEW s \in Service, NEW l, NEW c, c = Cur(s), NEW f, f = SocketOf(c),
           NEW m, Goes(s, l, m), m.task = c.task,
           st[f] = StageOf(c), StageOf(c) \in Leaving \cup Ending,
           StageOf(m) \in Leaving \cup Ending,
           Steady(StageOf(c), StageOf(m)), FitsLeaving(ag, m, f),
           \A g \in Fd : Same(f, g) => Agree(StageOf(m), st[g]),
           StageOf(c) \in Meeting => StageOf(m) \in Meeting \/
                                     \A g \in Fd : Same(f, g) => st[g] # "kick_back"
    PROVE  Explained'
<1> DEFINE q == StageOf(m)
           st2 == [st EXCEPT ![f] = q]
<1>1. /\ Handles(s, c, l) /\ Moves({c}, {m}) /\ m \in GoodMsg /\ Placed'
      /\ c \in GoodMsg
  BY DEF Goes, Handles
<1>2. /\ ~ Later(c) /\ ~ Later(m) /\ Subject(c) = f /\ Subject(m) = f /\ f \in Fd
  <2>1. /\ StageOf(c) \notin Awaited \cup {"MSG.data", "my_dispatch"}
        /\ StageOf(m) \notin Awaited \cup {"MSG.data", "my_dispatch"}
    BY DEF Awaited, Leaving, Meeting, Ending
  <2> QED BY <1>1, <2>1, Places DEF SocketOf
<1>3. c \in Life(f)
  BY <1>1, <1>2 DEF Life
<1>4. st \in [Fd -> Stage] /\ q \in Stage /\ st2[f] = q /\ \A h \in Fd : h # f => st2[h] = st[h]
  BY <1>2 DEF Explains, Ghosts, Stage, FwdStage
<1>5. q \in Leaving \cup Ending /\ q = StageOf(m)
  OBVIOUS
<1>6. Steady(st[f], q)
  OBVIOUS
<1>7. \A g \in Fd : Same(f, g) => Agree(q, st[g])
  OBVIOUS
<1>8. st[f] \in Meeting => q \in Meeting \/ \A g \in Fd : Same(f, g) => st[g] # "kick_back"
  OBVIOUS
<1>9. st[f] \notin Asked
  BY DEF Asked, Leaving, Meeting, Ending
<1> HIDE DEF st2, q
<1>10. Fits(st2, ag, m, f)'
  <2>1. q \notin Awaited \cup Asking \cup {"kick_back", "kick_ret"}
    BY <1>5 DEF Awaited, Asking, Leaving, Meeting, Ending
  <2> QED BY <1>2, <1>4, <1>5, <2>1 DEF Fits, FitsLeaving, Asks
<1>11. q \notin {"kick_back", "kick_ret", "gamed_close"}
  BY <1>5 DEF Leaving, Meeting, Ending
<1>12. Explains(st2, ag)'
  BY <1>1, <1>2, <1>3, <1>4, <1>6, <1>7, <1>8, <1>9, <1>10, <1>11, Onward DEF st2
<1> QED BY <1>12 DEF Explained

\* What a coroutine that closes an agent knows.
LEMMA LeavingOf ==
    ASSUME IInv, NEW st, NEW ag, Explains(st, ag), NEW s \in Service, NEW l,
           NEW c, Handles(s, c, l), NEW f, f = SocketOf(c),
           l \in {"MSG.close", "close_fd", "agent_close", "closing", "close_finish",
                  "gamed_close", "recycle", "gamed_closed", "close_ret"}
    PROVE  /\ f \in Fd /\ ~ Later(c) /\ Subject(c) = f /\ c \in Life(f) /\ c \in GoodMsg
           /\ StageOf(c) = l /\ c.at = l /\ Home(c) = s
           /\ \/ st[f] = l /\ FitsLeaving(ag, c, f)
              \/ st[f] = "out" /\ l \in {"MSG.close", "close_fd"}
<1>1. c \in GoodMsg /\ c.at = l /\ Home(c) = s /\ StageOf(c) = l
  BY DEF Handles, StageOf
<1>2. ~ Later(c) /\ Subject(c) = f
  <2>1. StageOf(c) \notin Awaited \cup {"MSG.data", "my_dispatch"}
    BY <1>1 DEF Awaited
  <2> QED BY <1>1, <2>1, Places
<1>3. f \in Fd /\ c \in Life(f) /\ Fits(st, ag, c, f)
  BY <1>2, HandlesLife
<1>4. \/ st[f] = l /\ FitsLeaving(ag, c, f)
      \/ st[f] = "out" /\ l \in {"MSG.close", "close_fd"}
  BY <1>1, <1>3 DEF Fits, Leaving, Meeting, Ending
<1> QED BY <1>1, <1>2, <1>3, <1>4

LEMMA MsgCloseEx ==
    ASSUME IInv, IInv', NEW st, NEW ag, Explains(st, ag), MsgClose
    PROVE  Explained'
<1> DEFINE c == Cur(Gate)
           m == [c EXCEPT !.at = "close_fd"]
<1>0. PICK f : f = SocketOf(c)
  OBVIOUS
<1>1. At(Gate, "MSG.close") /\ Yield(Gate, m) /\ Idles /\ Gate \in Service
  BY ServiceOf DEF MsgClose, Idles, sockVars, gateVars, gamedVars, agentVars
<1>2. Goes(Gate, "MSG.close", m)
  BY <1>1, YieldGoes DEF Explains
<1>3. /\ Handles(Gate, c, "MSG.close") /\ c \in GoodMsg /\ Moves({c}, {m}) /\ Placed'
      /\ m \in GoodMsg
  BY <1>2 DEF Goes, Handles
<1>4. Keeps(m, c) /\ m.at = "close_fd"
  BY <1>3, Moved
<1>5. /\ f \in Fd /\ Subject(c) = f /\ c \in Life(f) /\ StageOf(c) = "MSG.close"
      /\ \/ st[f] = "MSG.close" /\ FitsLeaving(ag, c, f)
         \/ st[f] = "out"
  BY <1>0, <1>1, <1>3, LeavingOf
<1>6. CASE st[f] = "out"
  <2>1. m \in Life(f)
    <3>1. ~ Later(m) /\ ~ Opens(m)
      BY <1>4 DEF Later, Opens, OpenLabel
    <3> QED BY <1>0, <1>3, <1>4, <3>1 DEF Life, Subject, Keeps, SocketOf
  <2>2. Outside({f}) /\ SockAt("out", f)'
    <3>1. SockAt("out", f)
      BY <1>5, <1>6 DEF Explains, SockPart
    <3> QED BY <1>1, <3>1 DEF Outside, SockAt, Idles
  <2>3. /\ UNCHANGED pool /\ UNCHANGED spawned /\ UNCHANGED online_account
        /\ UNCHANGED user /\ UNCHANGED cmds
    BY <1>1 DEF Idles
  <2>4. {c} \subseteq Life(f) /\ {m} \subseteq Life(f) /\ \A n \in {m} : n.at \in {"MSG.close", "close_fd"}
    BY <1>4, <1>5, <2>1
  <2> HIDE DEF m, c
  <2> QED BY <1>3, <1>5, <1>6, <2>2, <2>3, <2>4, StillOut
<1>7. CASE st[f] = "MSG.close" /\ FitsLeaving(ag, c, f)
  <2>1. /\ StageOf(m) = "close_fd" /\ "MSG.close" \in Leaving /\ "close_fd" \in Meeting
        /\ StageOf(c) \in Leaving \cup Ending /\ StageOf(m) \in Leaving \cup Ending
        /\ StageOf(m) \in Meeting
    BY <1>4, <1>5 DEF StageOf, Leaving, Meeting
  <2>2. Steady(StageOf(c), StageOf(m))
    BY <1>5, <2>1 DEF Steady, Hinge, OpenStage, FwdStage, HasStage, UseStage, RecStage,
       Entering, Asking, Asked, Awaited, Leaving, Meeting, Ending
  <2>3. FitsLeaving(ag, m, f)
    BY <1>4, <1>7 DEF FitsLeaving, Keeps
  <2>4. \A g \in Fd : Same(f, g) => Agree(StageOf(m), st[g])
    <3>1. \A g \in Fd : Same(f, g) => Agree("MSG.close", st[g])
      BY <1>5, <1>7 DEF Explains, PairPart
    <3> QED BY <2>1, <3>1 DEF Agree, Before, In, Awaited, Entering, Asking, Asked, Leaving, Meeting, Ending
  <2>5. m.task = c.task /\ st[f] = StageOf(c)
    BY <1>4, <1>5, <1>7 DEF Keeps
  <2> HIDE DEF m
  <2> QED BY <1>0, <1>1, <1>2, <2>1, <2>2, <2>3, <2>4, <2>5, LeavingOn
<1> QED BY <1>5, <1>6, <1>7

\* The coroutine of a socket that is gone ends.
LEMMA CloseOut ==
    ASSUME IInv, IInv', NEW st, NEW ag, Explains(st, ag), At(Gate, "close_fd"), End(Gate),
           NEW f, f = SocketOf(Cur(Gate)), st[f] = "out", Outside({f}), f \notin connection',
           sock' = sock, forwarded'[f] = Nil, pending_msg'[f] = pending_msg[f],
           UNCHANGED pool, UNCHANGED spawned, UNCHANGED online_account,
           UNCHANGED user, UNCHANGED cmds
    PROVE  Explained'
<1>1. Stops(Gate, "close_fd")
  BY EndStops, ServiceOf DEF Explains
<1>2. Handles(Gate, Cur(Gate), "close_fd") /\ Moves({Cur(Gate)}, {}) /\ Placed'
  BY <1>1 DEF Stops
<1>3. f \in Fd /\ Cur(Gate) \in Life(f)
  BY <1>2, LeavingOf, ServiceOf
<1>4. SockAt("out", f)'
  <2>1. SockAt("out", f) /\ "out" \notin OpenStage \cup ShutStage \cup FwdStage
    BY <1>3 DEF Explains, SockPart, OpenStage, ShutStage, FwdStage, Entering, Asking, Asked, Awaited, Leaving, Meeting, Ending
  <2>2. pending_msg'[f] # Nil =>
            \A i \in 1 .. Len(pending_msg'[f]) : pending_msg'[f][i] > 1
    BY <2>1 DEF SockAt
  <2> QED BY <2>1, <2>2 DEF SockAt
<1>5. {Cur(Gate)} \subseteq Life(f) /\ {} \subseteq Life(f)
  BY <1>3
<1> QED BY <1>2, <1>3, <1>4, <1>5, StillOut

LEMMA CloseUnknownEx ==
    ASSUME IInv, IInv', NEW st, NEW ag, Explains(st, ag), CloseUnknown
    PROVE  Explained'
<1>0. PICK f : f = SocketOf(Cur(Gate))
  OBVIOUS
<1>1. At(Gate, "close_fd") /\ End(Gate) /\ Idles /\ f \notin connection
  BY <1>0 DEF CloseUnknown, Idles, sockVars, gateVars, gamedVars, agentVars
<1>2. Handles(Gate, Cur(Gate), "close_fd")
  BY <1>1, Handling, ServiceOf DEF Explains
<1>3. f \in Fd /\ st[f] \in {"close_fd", "out"}
  BY <1>0, <1>2, LeavingOf, ServiceOf
<1>4. SockAt(st[f], f)
  BY <1>3 DEF Explains, SockPart
<1>5. st[f] = "out" /\ forwarded[f] = Nil
  BY <1>1, <1>3, <1>4 DEF SockAt, FwdStage, Leaving, Meeting, Ending
<1>6. /\ Outside({f}) /\ f \notin connection' /\ sock' = sock /\ forwarded'[f] = Nil
      /\ pending_msg'[f] = pending_msg[f]
      /\ UNCHANGED pool /\ UNCHANGED spawned /\ UNCHANGED online_account
      /\ UNCHANGED user /\ UNCHANGED cmds
  BY <1>1, <1>5 DEF Outside, Idles
<1> QED BY <1>0, <1>1, <1>5, <1>6, CloseOut

LEMMA CloseWithoutAgentEx ==
    ASSUME IInv, IInv', NEW st, NEW ag, Explains(st, ag), CloseWithoutAgent
    PROVE  Explained'
<1>0. PICK f : f = SocketOf(Cur(Gate))
  OBVIOUS
<1>1. /\ At(Gate, "close_fd") /\ End(Gate) /\ forwarded[f] = Nil /\ Forget(f)
      /\ UNCHANGED <<sockVars, gamedVars, agentVars>>
  BY <1>0 DEF CloseWithoutAgent
<1>2. Handles(Gate, Cur(Gate), "close_fd")
  BY <1>1, Handling, ServiceOf DEF Explains
<1>3. f \in Fd /\ st[f] \in {"close_fd", "out"}
  BY <1>0, <1>2, LeavingOf, ServiceOf
<1>4. SockAt(st[f], f)
  BY <1>3 DEF Explains, SockPart
<1>5. st[f] = "out"
  BY <1>1, <1>3, <1>4 DEF SockAt, FwdStage, Leaving, Meeting, Ending
<1>6. forwarded \in [Fd -> Opt(Agent)]
  BY DEF IInv, GateType
<1>7. /\ Outside({f}) /\ f \notin connection' /\ sock' = sock /\ forwarded'[f] = Nil
      /\ pending_msg'[f] = pending_msg[f]
      /\ UNCHANGED pool /\ UNCHANGED spawned /\ UNCHANGED online_account
      /\ UNCHANGED user /\ UNCHANGED cmds
  BY <1>1, <1>3, <1>6 DEF Outside, Forget, sockVars, gamedVars, agentVars
<1> QED BY <1>0, <1>1, <1>5, <1>7, CloseOut

\* close_fd calls the agent of the socket.
LEMMA CloseWithAgentEx ==
    ASSUME IInv, IInv', NEW st, NEW ag, Explains(st, ag), CloseWithAgent
    PROVE  Explained'
<1> DEFINE c == Cur(Gate)
<1>0. PICK f, a : f = SocketOf(c) /\ a = forwarded[f]
  OBVIOUS
<1> DEFINE m == [c EXCEPT !.at = "agent_close", !.callee = a, !.ret = "close_ret"]
<1>1. /\ At(Gate, "close_fd") /\ a # Nil /\ Send(Gate, a, m) /\ Idles
  BY <1>0 DEF CloseWithAgent, Idles, sockVars, gateVars, gamedVars, agentVars
<1>2. Handles(Gate, c, "close_fd") /\ c \in GoodMsg
  <2>1. Handles(Gate, c, "close_fd")
    BY <1>1, Handling, ServiceOf DEF Explains
  <2> QED BY <2>1 DEF Handles
<1>3. /\ f \in Fd /\ Subject(c) = f /\ c \in Life(f) /\ StageOf(c) = "close_fd"
      /\ \/ st[f] = "close_fd" /\ FitsLeaving(ag, c, f)
         \/ st[f] = "out"
  BY <1>0, <1>2, LeavingOf, ServiceOf
<1>4. SockAt(st[f], f) /\ AgAt(st, ag, f)
  BY <1>3 DEF Explains, SockPart, AgPart
<1>5. st[f] = "close_fd" /\ FitsLeaving(ag, c, f) /\ a = ag[f] /\ a \in Agent
  <2>1. st[f] # "out"
    BY <1>0, <1>1, <1>4 DEF SockAt, FwdStage, Leaving, Meeting, Ending
  <2>2. st[f] = "close_fd" /\ FitsLeaving(ag, c, f)
    BY <1>3, <2>1
  <2>3. ag[f] # Nil
    BY <1>4, <2>2 DEF AgAt, HasStage, Leaving, Meeting
  <2>4. a = ag[f]
    BY <1>0, <1>4, <2>2, <2>3 DEF AgAt, FwdStage, Leaving, Meeting
  <2> QED BY <1>3, <2>2, <2>3, <2>4 DEF Explains, Ghosts, Opt
<1>6. m.at = "agent_close" /\ m.callee = a /\ m.ret = "close_ret" /\ m.task = c.task
  BY <1>2 DEF GoodMsg, Msg
<1>7. Goes(Gate, "close_fd", m)
  <2>1. Home(m) = a
    BY <1>6 DEF Home, AgentLabel
  <2> HIDE DEF m
  <2> QED BY <1>1, <1>5, <2>1, SendGoes, ServiceOf DEF Explains
<1>8. /\ StageOf(m) = "agent_close" /\ StageOf(m) \in Meeting
      /\ StageOf(c) \in Leaving \cup Ending /\ StageOf(m) \in Leaving \cup Ending
  BY <1>3, <1>6 DEF StageOf, Leaving, Meeting
<1>9. Steady(StageOf(c), StageOf(m))
  BY <1>3, <1>8 DEF Steady, Hinge, OpenStage, FwdStage, HasStage, UseStage, RecStage,
     Entering, Asking, Asked, Awaited, Leaving, Meeting, Ending
<1>10. FitsLeaving(ag, m, f)
  BY <1>5, <1>6 DEF FitsLeaving
<1>11. \A g \in Fd : Same(f, g) => Agree(StageOf(m), st[g])
  <2>1. \A g \in Fd : Same(f, g) => Agree("close_fd", st[g])
    BY <1>3, <1>5 DEF Explains, PairPart
  <2> QED BY <1>8, <2>1 DEF Agree, Before, In, Awaited, Entering, Asking, Asked, Leaving, Meeting, Ending
<1> HIDE DEF m
<1> QED BY <1>0, <1>1, <1>3, <1>5, <1>6, <1>7, <1>8, <1>9, <1>10, <1>11, LeavingOn, ServiceOf

\* The agent of a socket that closes has its user still.
LEMMA ClosingUser ==
    ASSUME IInv, NEW st, NEW ag, Explains(st, ag), NEW a \in Agent, NEW l,
           l \in {"agent_close", "closing", "close_finish"}, At(a, l),
           NEW c, c = Cur(a), NEW f, f = SocketOf(c)
    PROVE  /\ Handles(a, c, l) /\ c \in GoodMsg /\ c.at = l /\ c.callee = a
           /\ f \in Fd /\ Subject(c) = f /\ c \in Life(f) /\ StageOf(c) = l
           /\ st[f] = l /\ FitsLeaving(ag, c, f) /\ ag[f] = a
           /\ user[a] # Nil /\ UserFd(a) = f /\ user[a].account = AccountOf[f]
<1>1. Handles(a, c, l)
  BY Handling, ServiceOf DEF Explains
<1>2. /\ f \in Fd /\ Subject(c) = f /\ c \in Life(f) /\ c \in GoodMsg /\ c.at = l
      /\ StageOf(c) = l /\ st[f] = l /\ FitsLeaving(ag, c, f) /\ Home(c) = a
  BY <1>1, LeavingOf, ServiceOf
<1>3. c.callee = a
  BY <1>2 DEF Home, AgentLabel
<1>4. ag[f] = a /\ st[f] \in UseStage
  BY <1>2, <1>3 DEF FitsLeaving, UseStage, Leaving, Meeting
<1> QED BY <1>1, <1>2, <1>3, <1>4, UserOf

LEMMA ClosingEx ==
    ASSUME IInv, IInv', NEW st, NEW ag, Explains(st, ag), NEW a \in Agent, Closing(a)
    PROVE  Explained'
<1> DEFINE c == Cur(a)
           m == [c EXCEPT !.at = "close_finish", !.account = user[a].account]
<1>0. PICK f : f = SocketOf(c)
  OBVIOUS
<1>1. At(a, "closing") /\ Yield(a, m) /\ Idles /\ a \in Service
  BY ServiceOf DEF Closing, Idles, sockVars, gateVars, gamedVars, agentVars
<1>2. Goes(a, "closing", m)
  BY <1>1, YieldGoes DEF Explains
<1>3. /\ c \in GoodMsg /\ c.callee = a /\ f \in Fd /\ Subject(c) = f /\ StageOf(c) = "closing"
      /\ st[f] = "closing" /\ FitsLeaving(ag, c, f) /\ user[a].account = AccountOf[f]
      /\ ag[f] = a
  BY <1>0, <1>1, ClosingUser
<1>4. /\ m.at = "close_finish" /\ m.callee = c.callee /\ m.task = c.task
      /\ m.account = AccountOf[f]
  BY <1>3 DEF GoodMsg, Msg
<1> HIDE DEF m
<1>5. /\ StageOf(m) = "close_finish" /\ "closing" \in Leaving /\ "closing" \notin Meeting
      /\ StageOf(c) \in Leaving \cup Ending /\ StageOf(m) \in Leaving \cup Ending
  BY <1>3, <1>4 DEF StageOf, Leaving, Meeting
<1>6. Steady(StageOf(c), StageOf(m))
  BY <1>3, <1>5 DEF Steady, Hinge, OpenStage, FwdStage, HasStage, UseStage, RecStage,
     Entering, Asking, Asked, Awaited, Leaving, Meeting, Ending
<1>7. FitsLeaving(ag, m, f)
  BY <1>3, <1>4 DEF FitsLeaving
<1>8. \A g \in Fd : Same(f, g) => Agree(StageOf(m), st[g])
  <2>1. \A g \in Fd : Same(f, g) => Agree("closing", st[g])
    BY <1>3 DEF Explains, PairPart
  <2> QED BY <1>5, <2>1 DEF Agree, Before, In, Awaited, Entering, Asking, Asked, Leaving, Meeting, Ending
<1> QED BY <1>0, <1>1, <1>2, <1>3, <1>4, <1>5, <1>6, <1>7, <1>8, LeavingOn

LEMMA GamedClosedEx ==
    ASSUME IInv, IInv', NEW st, NEW ag, Explains(st, ag), NEW a \in Agent, GamedClosed(a)
    PROVE  Explained'
<1> DEFINE c == Cur(a)
           m == [c EXCEPT !.at = "close_ret"]
<1>0. PICK f : f = SocketOf(c)
  OBVIOUS
<1>1. /\ At(a, "gamed_closed") /\ Send(a, Gate, m) /\ Idles /\ a \in Service
      /\ Gate \in Service /\ Gate # a
  BY ServiceOf DEF GamedClosed, Idles, sockVars, gateVars, gamedVars, agentVars
<1>2. Handles(a, c, "gamed_closed") /\ c \in GoodMsg
  <2>1. Handles(a, c, "gamed_closed")
    BY <1>1, Handling DEF Explains
  <2> QED BY <2>1 DEF Handles
<1>3. /\ f \in Fd /\ Subject(c) = f /\ StageOf(c) = "gamed_closed"
      /\ st[f] = "gamed_closed" /\ FitsLeaving(ag, c, f)
  BY <1>0, <1>1, <1>2, LeavingOf
<1>4. m.at = "close_ret" /\ m.task = c.task
  BY <1>2, Moved DEF Keeps
<1>5. Goes(a, "gamed_closed", m)
  <2>1. Home(m) = Gate
    BY <1>4 DEF Home, AgentLabel
  <2> HIDE DEF m
  <2> QED BY <1>1, <2>1, SendGoes DEF Explains
<1>6. /\ StageOf(m) = "close_ret" /\ "gamed_closed" \notin Meeting
      /\ StageOf(c) \in Leaving \cup Ending /\ StageOf(m) \in Leaving \cup Ending
  BY <1>3, <1>4 DEF StageOf, Ending, Meeting
<1>7. Steady(StageOf(c), StageOf(m))
  BY <1>3, <1>6 DEF Steady, Hinge, OpenStage, FwdStage, HasStage, UseStage, RecStage,
     Entering, Asking, Asked, Awaited, Leaving, Meeting, Ending
<1>8. FitsLeaving(ag, m, f)
  BY <1>3, <1>4 DEF FitsLeaving
<1>9. \A g \in Fd : Same(f, g) => Agree(StageOf(m), st[g])
  <2>1. \A g \in Fd : Same(f, g) => Agree("gamed_closed", st[g])
    BY <1>3 DEF Explains, PairPart
  <2> QED BY <1>6, <2>1 DEF Agree, Before, In, Awaited, Entering, Asking, Asked, Leaving, Meeting, Ending
<1> HIDE DEF m
<1> QED BY <1>0, <1>1, <1>3, <1>4, <1>5, <1>6, <1>7, <1>8, <1>9, LeavingOn

\* The kick of a socket was answered when the agent it kicked is closed.
LEMMA AgentCloseEx ==
    ASSUME IInv, IInv', NEW st, NEW ag, Explains(st, ag), NEW a \in Agent, AgentClose(a)
    PROVE  Explained'
<1> DEFINE c == Cur(a)
           m == [c EXCEPT !.at = "closing"]
<1>0. PICK f : f = SocketOf(c)
  OBVIOUS
<1>1. At(a, "agent_close") /\ Yield(a, m) /\ Idles /\ a \in Service
  BY ServiceOf DEF AgentClose, Pass, Idles, sockVars, gateVars, gamedVars, agentVars
<1>2. Goes(a, "agent_close", m)
  BY <1>1, YieldGoes DEF Explains
<1>3. /\ c \in GoodMsg /\ f \in Fd /\ Subject(c) = f /\ c \in Life(f) /\ StageOf(c) = "agent_close"
      /\ st[f] = "agent_close" /\ FitsLeaving(ag, c, f) /\ ag[f] = a /\ c.callee = a
      /\ Handles(a, c, "agent_close")
  BY <1>0, <1>1, ClosingUser
<1>4. m.at = "closing" /\ Keeps(m, c)
  BY <1>3, Moved
<1> HIDE DEF m
<1>5. \A g \in Fd : Same(f, g) => Agree("agent_close", st[g])
  BY <1>3 DEF Explains, PairPart
<1>6. ASSUME NEW g \in Fd, Same(f, g) PROVE st[g] # "kick_back"
  <2> SUFFICES ASSUME st[g] = "kick_back" PROVE FALSE
    OBVIOUS
  <2>1. PICK h \in Fd : /\ Same(h, g) /\ st[h] \in Meeting
                        /\ ~ Free(mbox[ag[h]], Life(g))
                        /\ Ahead(mbox[ag[h]], Life(g), Life(h))
    BY DEF Explains, KickPart, BackPart
  <2>2. h = f
    <3> SUFFICES ASSUME h # f PROVE FALSE
      OBVIOUS
    <3>1. Same(f, h)
      BY <1>6, <2>1 DEF Same
    <3>2. Agree("agent_close", st[h])
      BY <1>5, <3>1
    <3> QED BY <2>1, <3>2 DEF Agree, Before, In, Awaited, Entering, Asking, Asked, Leaving, Meeting, Ending
  <2>3. ~ Free(mbox[a], Life(g)) /\ Ahead(mbox[a], Life(g), Life(f))
    BY <1>3, <2>1, <2>2
  <2>4. c = mbox[a][1] /\ 1 \in 1 .. Len(mbox[a]) /\ Len(mbox[a]) \in Nat
    BY <1>3 DEF Handles
  <2>5. PICK i \in 1 .. Len(mbox[a]) : mbox[a][i] \in Life(g)
    BY <2>3 DEF Free
  <2>6. i < 1
    BY <1>3, <2>3, <2>4, <2>5 DEF Ahead
  <2> QED BY <2>4, <2>5, <2>6
<1>7. /\ StageOf(m) = "closing"
      /\ StageOf(c) \in Leaving \cup Ending /\ StageOf(m) \in Leaving \cup Ending
  BY <1>3, <1>4 DEF StageOf, Leaving, Meeting
<1>8. Steady(StageOf(c), StageOf(m))
  BY <1>3, <1>7 DEF Steady, Hinge, OpenStage, FwdStage, HasStage, UseStage, RecStage,
     Entering, Asking, Asked, Awaited, Leaving, Meeting, Ending
<1>9. FitsLeaving(ag, m, f)
  BY <1>3, <1>4 DEF FitsLeaving, Keeps
<1>10. \A g \in Fd : Same(f, g) => Agree(StageOf(m), st[g])
  BY <1>5, <1>6, <1>7 DEF Agree, Before, In, Awaited, Entering, Asking, Asked, Leaving, Meeting, Ending
<1>11. m.task = c.task
  BY <1>4 DEF Keeps
<1> QED BY <1>0, <1>1, <1>2, <1>3, <1>6, <1>7, <1>8, <1>9, <1>10, <1>11, LeavingOn

-----------------------------------------------------------------------------
(* Steps at which the sockets F change their stages.                       *)

LEMMA Advance ==
    ASSUME IInv, IInv', NEW st, NEW ag, Explains(st, ag),
           NEW st2, NEW ag2, Ghosts(st2, ag2), NEW F,
           Apart(st, ag, st2, ag2, F), Recorded(st, F), PairPart(st2),
           NEW T, NEW N, Moves(T, N), Placed', Cleared(F, N),
           \A m \in N : ~ Later(m) => Subject(m) \in F /\ Fits(st2, ag2, m, Subject(m))',
           Outside(F), \A f \in F : SockAt(st2[f], f)',
           AgPart(st2, ag2)', UserPart(st2, ag2)', RecPart(st2, ag2)',
           FirstPart(st2)', KickPart(st2, ag2)'
    PROVE  Explained'
<1>1. Ghosts(st, ag) /\ SockPart(st) /\ FlyPart(st, ag)
  BY DEF Explains
<1>2. \A h \in Fd \ F : st2[h] = st[h]
  BY DEF Apart
<1>3. SockPart(st2)'
  BY <1>1, <1>2, SockKept
<1>4. FlyPart(st2, ag2)'
  BY <1>1, FlyKept
<1>5. Explains(st2, ag2)'
  BY <1>3, <1>4 DEF Explains
<1> QED BY <1>5 DEF Explained

\* One socket does; its agent, the users and the records stay.
LEMMA AdvanceOne ==
    ASSUME IInv, IInv', NEW st, NEW ag, Explains(st, ag), NEW f \in Fd,
           NEW q \in Stage, NEW st2, st2 = [st EXCEPT ![f] = q],
           \A g \in Fd : Same(f, g) => Agree(q, st[g]),
           \A g \in Fd : Same(f, g) =>
                /\ st[g] \in Awaited => st[f] # "passing" /\ (In(q) => In(st[f]))
                /\ st[g] \in Asking => st[f] # "served",
           NEW T, NEW N, Moves(T, N), Placed', Cleared({f}, N),
           \A m \in N : ~ Later(m) => Subject(m) = f /\ Fits(st2, ag, m, f)',
           Outside({f}), SockAt(q, f)', AgAt(st2, ag, f)',
           UserLike(st, ag, st2, ag, {f}), RecLike(st, ag, st2, ag, {f}),
           FirstPart(st2)', KickPart(st2, ag)',
           UNCHANGED pool, UNCHANGED spawned, UNCHANGED online_account,
           UNCHANGED user, UNCHANGED cmds
    PROVE  Explained'
<1>1. Ghosts(st, ag) /\ AgPart(st, ag) /\ UserPart(st, ag) /\ RecPart(st, ag) /\ PairPart(st)
  BY DEF Explains
<1>2. st \in [Fd -> Stage] /\ st2[f] = q /\ \A h \in Fd \ {f} : st2[h] = st[h]
  BY <1>1 DEF Ghosts
<1>3. Ghosts(st2, ag)
  BY <1>1, <1>2 DEF Ghosts
<1>4. PairPart(st2)
  BY <1>1, <1>2, PairMove
<1>5. Apart(st, ag, st2, ag, {f})
  BY <1>2 DEF Apart
<1>6. Recorded(st, {f})
  BY RecordedSame
<1>7. AgPart(st2, ag)'
  <2>1. AgLike(st2, ag, ag, {f})'
    BY DEF AgLike
  <2> QED BY <1>1, <1>2, <2>1, AgKept
<1>8. UserPart(st2, ag)'
  BY <1>1, <1>2, UserKept
<1>9. RecPart(st2, ag)'
  BY <1>1, <1>2, RecKept
<1>10. \A h \in {f} : SockAt(st2[h], h)'
  BY <1>2
<1>11. \A m \in N : ~ Later(m) => Subject(m) \in {f} /\ Fits(st2, ag, m, Subject(m))'
  <2> SUFFICES ASSUME NEW m \in N, ~ Later(m) PROVE Subject(m) = f /\ Fits(st2, ag, m, Subject(m))'
    OBVIOUS
  <2>1. Subject(m) = f /\ Fits(st2, ag, m, f)'
    OBVIOUS
  <2>2. Subject(m)' = Subject(m)
    BY DEF Subject, Opens, SocketOf
  <2> HIDE DEF Subject
  <2> QED BY <2>1, <2>2
<1> QED BY <1>3, <1>4, <1>5, <1>6, <1>7, <1>8, <1>9, <1>10, <1>11, Advance

-----------------------------------------------------------------------------
(* The clients and the socket thread.                                      *)

\* A client connects while the other one of its account, if any, is settled.
LEMMA ClientConnectEx ==
    ASSUME Discipline = "takeover", IInv, IInv', NEW st, NEW ag, Explains(st, ag),
           NEW f \in Fd, ClientConnect(f)
    PROVE  Explained'
<1> DEFINE m == Event("MSG.open", <<"open", f, 1>>)
           st2 == [st EXCEPT ![f] = "MSG.open"]
<1>1. /\ sock[f] = "none" /\ MayConnect(f) /\ sock' = [sock EXCEPT ![f] = "open"] /\ Post(m)
      /\ creq' = creq /\ nsent' = nsent /\ connection' = connection
      /\ forwarded' = forwarded /\ pending_msg' = pending_msg
      /\ pool' = pool /\ spawned' = spawned /\ online_account' = online_account
      /\ user' = user /\ cmds' = cmds
  BY DEF ClientConnect, gateVars, gamedVars, agentVars
<1>2. m.at = "MSG.open" /\ m.task = <<"open", f, 1>> /\ SocketOf(m) = f
  BY DEF Event, SocketOf
<1>3. Home(m) = Gate /\ ~ Later(m) /\ Subject(m) = f
  BY <1>2 DEF Home, AgentLabel, Later, Subject, Opens, OpenLabel
<1> HIDE DEF m
<1>4. m \in GoodMsg /\ Moves({}, {m}) /\ Placed'
  BY <1>1, <1>3, PostMoves DEF Explains
<1>5. SockAt(st[f], f) /\ AgAt(st, ag, f) /\ st \in [Fd -> Stage]
  BY DEF Explains, SockPart, AgPart, Ghosts
<1>6. st[f] = "none"
  BY <1>1, <1>5 DEF SockAt
<1>7. st2 \in [Fd -> Stage] /\ st2[f] = "MSG.open" /\ \A h \in Fd : h # f => st2[h] = st[h]
  BY <1>5 DEF Stage, OpenStage
<1>8. ASSUME NEW g \in Fd, Same(f, g), In(st[g]) PROVE st[g] = "served"
  <2>1. SockAt(st[g], g) /\ st[g] \in Stage
    BY DEF Explains, SockPart, Ghosts
  <2>2. Active(g)
    BY <1>8, <2>1 DEF SockAt, Active, In, OpenStage
  <2>3. g \in Siblings(f)
    BY <1>8, <2>2 DEF Siblings, Same
  <2>4. Settled(g)
    BY <1>1, <2>3 DEF MayConnect
  <2>5. sock[g] = "open" /\ creq[g] = 0 /\ forwarded[g] # Nil
    BY <2>4 DEF Settled
  <2>6. st[g] \in FwdStage /\ st[g] \notin ShutStage /\ st[g] # "leaving"
    BY <1>8, <2>1, <2>5 DEF SockAt, In
  <2> QED BY <2>6 DEF ShutStage
<1> HIDE DEF st2
<1>9. \A g \in Fd : Same(f, g) =>
         /\ Agree("MSG.open", st[g])
         /\ st[g] \in Awaited => st[f] # "passing" /\ (In("MSG.open") => In(st[f]))
         /\ st[g] \in Asking => st[f] # "served"
  BY <1>6, <1>8 DEF Agree, Before, In, Awaited
<1>10. Cleared({f}, {m})
  BY <1>4, <1>6, ClearedQuiet DEF Explains, Quiet
<1>11. Fits(st2, ag, m, f)'
  BY <1>2, <1>7 DEF Fits, StageOf, Awaited, Asking, Asks, Leaving, Meeting, Ending
<1>12. Outside({f})
  BY <1>1 DEF Outside, IInv, SockType
<1>13. SockAt("MSG.open", f)'
  <2>1. sock'[f] = "open"
    BY <1>1 DEF IInv, SockType
  <2> QED BY <1>1, <1>5, <1>6, <2>1 DEF SockAt, OpenStage, FwdStage, ShutStage, Leaving, Meeting, Ending
<1>14. AgAt(st2, ag, f)'
  BY <1>1, <1>5, <1>6, <1>7 DEF AgAt, HasStage, FwdStage, Awaited, Leaving, Meeting, Ending
<1>15. UserLike(st, ag, st2, ag, {f})
  BY <1>6, <1>7 DEF UserLike, UseStage, Leaving, Meeting
<1>16. RecLike(st, ag, st2, ag, {f})
  BY <1>6, <1>7 DEF RecLike, RecStage, UseStage, Leaving, Meeting
<1>17. FirstPart(st2)'
  <2>1. FirstLike(st, st2, {}, {m})
    BY <1>3, <1>6, <1>7 DEF FirstLike, Data, Life
  <2> QED BY <1>4, <2>1, FirstKept DEF Explains
<1>18. KickPart(st2, ag)'
  <2>1. KickLike(st, ag, st2, ag, {}, {m})
    BY <1>3, <1>6, <1>7 DEF KickLike, BackLike, RetLike, LeaveLike, Life, Meeting, Asked
  <2> QED BY <1>4, <2>1, KickKept DEF Explains
<1>19. "MSG.open" \in Stage /\ \A n \in {m} : ~ Later(n) => Subject(n) = f /\ Fits(st2, ag, n, f)'
  BY <1>3, <1>11 DEF Stage, OpenStage
<1> QED
  BY <1>1, <1>4, <1>9, <1>10, <1>12, <1>13, <1>14, <1>15, <1>16, <1>17, <1>18, <1>19, AdvanceOne
     DEF st2

\* A client sends its login frame, or one after it.
LEMMA ClientSendEx ==
    ASSUME IInv, IInv', NEW st, NEW ag, Explains(st, ag), NEW f \in Fd, ClientSend(f)
    PROVE  Explained'
<1>0. PICK m : m = Event("MSG.data", <<"data", f, nsent[f] + 1>>)
  OBVIOUS
<1> DEFINE st2 == [st EXCEPT ![f] = "MSG.data"]
<1>1. /\ sock[f] = "open" /\ f \in connection /\ nsent' = [nsent EXCEPT ![f] = @ + 1] /\ Post(m)
      /\ sock' = sock /\ creq' = creq /\ connection' = connection
      /\ forwarded' = forwarded /\ pending_msg' = pending_msg
      /\ pool' = pool /\ spawned' = spawned /\ online_account' = online_account
      /\ user' = user /\ cmds' = cmds
  BY <1>0 DEF ClientSend, gateVars, gamedVars, agentVars
<1>2. m.at = "MSG.data" /\ m.task[3] = nsent[f] + 1 /\ SocketOf(m) = f
  BY <1>0 DEF Event, SocketOf
<1>3. Home(m) = Gate /\ Subject(m) = f /\ (Later(m) <=> nsent[f] + 1 > 1)
  BY <1>2 DEF Home, AgentLabel, Later, Subject, Opens, OpenLabel
<1>4. StageOf(m) = "MSG.data"
  BY <1>2 DEF StageOf
<1>5. m \in GoodMsg /\ Moves({}, {m}) /\ Placed' /\ ~ Free(mbox'[Gate], {m})
  BY <1>1, <1>3, PostMoves DEF Explains
<1>6. SockAt(st[f], f) /\ AgAt(st, ag, f) /\ st \in [Fd -> Stage]
  BY DEF Explains, SockPart, AgPart, Ghosts
<1>7. nsent[f] \in Nat /\ nsent'[f] = nsent[f] + 1
  BY <1>1, BoundAssumption DEF IInv, SockType
<1>8. Outside({f})
  BY <1>1 DEF Outside, IInv, SockType
<1>9. CASE st[f] # "idle"
  <2>1. st[f] \notin {"none", "MSG.open", "idle"} /\ nsent[f] >= 1
    BY <1>1, <1>6, <1>9 DEF SockAt
  <2>2. Later(m) /\ nsent'[f] >= 1
    BY <1>3, <1>7, <2>1
  <2>3. FirstLike(st, st, {}, {m})
    BY <1>2, <2>1, <2>2 DEF FirstLike, Life, Data
  <2>4. KickLike(st, ag, st, ag, {}, {m})
    BY <2>2, NoKick DEF Life
  <2>5. SockAt(st[f], f)'
    BY <1>1, <1>6, <2>1, <2>2 DEF SockAt
  <2>6. AgLike(st, ag, ag, {f})'
    BY <1>1, <1>6 DEF AgLike, AgAt
  <2>7. \A h \in {f} : SockAt(st[h], h)'
    BY <2>5
  <2> QED BY <1>1, <1>5, <1>8, <2>2, <2>3, <2>4, <2>6, <2>7, Still
<1>10. CASE st[f] = "idle"
  <2>1. nsent[f] = 0 /\ ~ Later(m) /\ nsent'[f] = 1
    BY <1>3, <1>6, <1>7, <1>10 DEF SockAt
  <2>2. "MSG.data" \in Stage
    BY DEF Stage, OpenStage, Entering
  <2>3. st2 \in [Fd -> Stage] /\ st2[f] = "MSG.data" /\ \A h \in Fd : h # f => st2[h] = st[h]
    BY <1>6, <2>2
  <2> HIDE DEF st2
  <2>4. \A g \in Fd : Same(f, g) =>
           /\ Agree("MSG.data", st[g])
           /\ st[g] \in Awaited => st[f] # "passing" /\ (In("MSG.data") => In(st[f]))
           /\ st[g] \in Asking => st[f] # "served"
    <3>1. \A g \in Fd : Same(f, g) => Agree("idle", st[g])
      BY <1>10 DEF Explains, PairPart
    <3> QED BY <1>10, <3>1 DEF Agree, Before, In, Awaited, Entering, Asking, Asked, Leaving, Meeting, Ending
  <2>5. Cleared({f}, {m})
    BY <1>5, <1>10, ClearedQuiet DEF Explains, Quiet
  <2>6. Fits(st2, ag, m, f)'
    BY <1>4, <2>3 DEF Fits, Awaited, Asking, Asks, Leaving, Meeting, Ending
  <2>7. SockAt("MSG.data", f)'
    BY <1>1, <1>6, <1>10, <2>1 DEF SockAt, OpenStage, FwdStage, ShutStage, Entering, Leaving, Meeting, Ending
  <2>8. AgAt(st2, ag, f)'
    BY <1>1, <1>6, <1>10, <2>3 DEF AgAt, HasStage, FwdStage, Awaited, Leaving, Meeting, Ending
  <2>9. UserLike(st, ag, st2, ag, {f})
    BY <1>10, <2>3 DEF UserLike, UseStage, Leaving, Meeting
  <2>10. RecLike(st, ag, st2, ag, {f})
    BY <1>10, <2>3 DEF RecLike, RecStage, UseStage, Leaving, Meeting
  <2>11. FirstPart(st2)'
    <3>1. ASSUME NEW h \in Fd, st2[h] = "MSG.data"
          PROVE  ~ Free(mbox'[Gate], Life(h)) /\ Ahead(mbox'[Gate], Life(h), Data(h))
      <4>1. mbox \in Mail /\ ext \subseteq GoodMsg /\ Gate \in Service
        BY MailOf, ServiceOf
      <4>2. CASE h = f
        <5>1. m \in Life(f)
          BY <1>3, <1>5, <2>1 DEF Life
        <5>2. \A n \in Data(f) : ~ Flies(n)
          BY <1>10 DEF Explains, FirstPart
        <5>3. m \notin Data(f)
          BY <2>1 DEF Data
        <5>4. \A n \in Data(f) : ~ Flies(n)'
          BY <1>5, <4>1, <5>2, <5>3, MoveFacts
        <5>5. Free(mbox'[Gate], Data(f))
          BY <4>1, <5>4 DEF Free, Flies, Flying
        <5> QED BY <1>5, <4>2, <5>1, <5>5 DEF Free, Ahead
      <4>3. CASE h # f
        <5>1. st[h] = "MSG.data" /\ {m} \cap Life(h) = {} /\ {} \cap Life(h) = {}
          BY <1>3, <2>3, <3>1, <4>3 DEF Life
        <5>2. ~ Free(mbox[Gate], Life(h)) /\ Ahead(mbox[Gate], Life(h), Data(h))
          BY <5>1 DEF Explains, FirstPart
        <5>3. ~ Free(mbox'[Gate], Life(h))
          BY <1>5, <4>1, <5>1, <5>2, MoveFacts
        <5> QED BY <1>5, <4>1, <5>1, <5>2, <5>3, MoveAhead
      <4> QED BY <4>2, <4>3
    <3>2. ASSUME NEW h \in Fd, st2[h] \in {"none", "MSG.open", "idle"}, NEW n \in Data(h)
          PROVE  ~ Flies(n)'
      <4>1. h # f /\ st[h] = st2[h]
        BY <2>3, <3>2
      <4>2. ~ Flies(n) /\ n # m
        BY <2>1, <3>2, <4>1 DEF Explains, FirstPart, Data
      <4> QED BY <1>5, <4>2, MailOf, MoveFacts
    <3> QED BY <3>1, <3>2 DEF FirstPart, Life, Data, Later, Subject, Opens, SocketOf
  <2>12. KickPart(st2, ag)'
    <3>1. KickLike(st, ag, st2, ag, {}, {m})
      BY <1>3, <1>10, <2>3 DEF KickLike, BackLike, RetLike, LeaveLike, Life, Meeting, Asked
    <3> QED BY <1>5, <3>1, KickKept DEF Explains
  <2>13. \A n \in {m} : ~ Later(n) => Subject(n) = f /\ Fits(st2, ag, n, f)'
    BY <1>3, <2>6
  <2> QED
    BY <1>1, <1>5, <1>8, <2>2, <2>4, <2>5, <2>7, <2>8, <2>9, <2>10, <2>11, <2>12, <2>13, AdvanceOne
       DEF st2
<1> QED BY <1>9, <1>10

\* The socket thread tells the gate that the connection of a socket is closed.
LEMMA PostCloseEx ==
    ASSUME IInv, IInv', NEW st, NEW ag, Explains(st, ag), NEW f \in Fd, PostClose(f),
           creq'[f] = 0, \A h \in Fd \ {f} : creq'[h] = creq[h],
           \/ st[f] = "leaving"
           \/ st[f] = "served" /\ \A g \in Fd : Same(f, g) => ~ In(st[g])
    PROVE  Explained'
<1>0. PICK m : m = Event("MSG.close", <<"close", f, nclose[f] + 1>>)
  OBVIOUS
<1> DEFINE st2 == [st EXCEPT ![f] = "MSG.close"]
<1>1. /\ sock' = [sock EXCEPT ![f] = "closed"] /\ Post(m)
      /\ nsent' = nsent /\ connection' = connection
      /\ forwarded' = forwarded /\ pending_msg' = pending_msg
      /\ pool' = pool /\ spawned' = spawned /\ online_account' = online_account
      /\ user' = user /\ cmds' = cmds
  BY <1>0 DEF PostClose, gateVars, gamedVars, agentVars
<1>2. m.at = "MSG.close" /\ m.task[1] = "close" /\ SocketOf(m) = f
  BY <1>0 DEF Event, SocketOf
<1>3. Home(m) = Gate /\ Subject(m) = f /\ ~ Later(m) /\ StageOf(m) = "MSG.close"
  BY <1>2 DEF Home, AgentLabel, Later, Subject, Opens, OpenLabel, StageOf
<1>4. m \in GoodMsg /\ Moves({}, {m}) /\ Placed'
  BY <1>1, <1>3, PostMoves DEF Explains
<1>5. SockAt(st[f], f) /\ AgAt(st, ag, f) /\ st \in [Fd -> Stage]
  BY DEF Explains, SockPart, AgPart, Ghosts
<1>6. "MSG.close" \in Stage
  BY DEF Stage, FwdStage, Leaving, Meeting
<1>7. st2 \in [Fd -> Stage] /\ st2[f] = "MSG.close" /\ \A h \in Fd : h # f => st2[h] = st[h]
  BY <1>5, <1>6
<1> HIDE DEF st2
<1>8. \A g \in Fd : Same(f, g) =>
         /\ Agree("MSG.close", st[g])
         /\ st[g] \in Awaited => st[f] # "passing" /\ (In("MSG.close") => In(st[f]))
         /\ st[g] \in Asking => st[f] # "served"
  <2>1. \A g \in Fd : Same(f, g) => Agree(st[f], st[g])
    BY DEF Explains, PairPart
  <2>2. CASE st[f] = "leaving"
    BY <2>1, <2>2 DEF Agree, Before, In, Awaited, Entering, Asking, Asked, Leaving, Meeting, Ending
  <2>3. CASE st[f] = "served" /\ \A g \in Fd : Same(f, g) => ~ In(st[g])
    BY <2>3 DEF Agree, In, Awaited, Asking
  <2> QED BY <2>2, <2>3
<1>9. Cleared({f}, {m})
  BY <1>4, ClearedQuiet DEF Explains, Quiet
<1>10. Fits(st2, ag, m, f)'
  <2>1. FitsLeaving(ag, m, f)
    BY <1>2 DEF FitsLeaving
  <2> QED BY <1>3, <1>7, <2>1 DEF Fits, FitsLeaving, Awaited, Asking, Asks, Leaving, Meeting, Ending
<1>11. Outside({f})
  BY <1>1 DEF Outside, IInv, SockType
<1>12. SockAt("MSG.close", f)'
  <2>1. sock'[f] = "closed"
    BY <1>1 DEF IInv, SockType
  <2> QED BY <1>1, <1>5, <2>1 DEF SockAt, OpenStage, FwdStage, ShutStage, Entering, Asking, Asked, Awaited, Leaving, Meeting, Ending
<1>13. AgAt(st2, ag, f)'
  BY <1>1, <1>5, <1>7 DEF AgAt, HasStage, FwdStage, Awaited, Leaving, Meeting, Ending
<1>14. UserLike(st, ag, st2, ag, {f})
  BY <1>7 DEF UserLike, UseStage, Leaving, Meeting
<1>15. RecLike(st, ag, st2, ag, {f})
  BY <1>7 DEF RecLike, RecStage, UseStage, Leaving, Meeting
<1>16. FirstPart(st2)'
  <2>1. FirstLike(st, st2, {}, {m})
    BY <1>3, <1>7 DEF FirstLike, Data, Life
  <2> QED BY <1>4, <2>1, FirstKept DEF Explains
<1>17. KickPart(st2, ag)'
  <2>1. BackLike(st, ag, st2, ag, {}, {m})
    BY <1>3, <1>7 DEF BackLike, Life, Meeting
  <2>2. RetLike(st, st2, {}, {m})
    BY <1>3, <1>7 DEF RetLike, Life
  <2>3. LeaveLike(st, st2)
    BY <1>7 DEF LeaveLike, Asked
  <2> QED BY <1>4, <2>1, <2>2, <2>3, KickKept DEF Explains, KickLike
<1>18. \A n \in {m} : ~ Later(n) => Subject(n) = f /\ Fits(st2, ag, n, f)'
  BY <1>3, <1>10
<1> QED
  BY <1>1, <1>4, <1>6, <1>8, <1>9, <1>11, <1>12, <1>13, <1>14, <1>15, <1>16, <1>17, <1>18, AdvanceOne
     DEF st2

\* A client that drops is the only one of its account.
LEMMA ClientDropEx ==
    ASSUME Discipline = "takeover", EarlyDrop = FALSE,
           IInv, IInv', NEW st, NEW ag, Explains(st, ag), NEW f \in Fd, ClientDrop(f)
    PROVE  Explained'
<1>1. /\ forwarded[f] # Nil /\ Siblings(f) = {} /\ sock[f] = "open" /\ PostClose(f)
      /\ creq' = creq
  BY DEF ClientDrop, MayDrop
<1>2. \A g \in Fd : SockAt(st[g], g) /\ st[g] \in Stage
  BY DEF Explains, SockPart, Ghosts
<1>3. ASSUME NEW g \in Fd, Same(f, g) PROVE ~ In(st[g])
  <2> SUFFICES ASSUME In(st[g]) PROVE FALSE
    OBVIOUS
  <2>1. Active(g)
    BY <1>2 DEF SockAt, Active, In, OpenStage
  <2> QED BY <1>1, <1>3, <2>1 DEF Siblings, Same
<1>4. st[f] \in FwdStage /\ st[f] \notin ShutStage
  BY <1>1, <1>2 DEF SockAt
<1>5. st[f] # "leaving"
  <2> SUFFICES ASSUME st[f] = "leaving" PROVE FALSE
    OBVIOUS
  <2>1. PICK g \in Fd : Same(f, g) /\ st[g] \in Asked
    BY DEF Explains, KickPart, LeavePart
  <2> QED BY <1>3, <2>1 DEF In, Asked
<1>6. st[f] = "served"
  BY <1>4, <1>5 DEF ShutStage
<1>7. creq'[f] = 0 /\ \A h \in Fd \ {f} : creq'[h] = creq[h]
  BY <1>1, <1>2, <1>6 DEF SockAt
<1> QED BY <1>1, <1>3, <1>6, <1>7, PostCloseEx

LEMMA SocketCloseEx ==
    ASSUME IInv, IInv', NEW st, NEW ag, Explains(st, ag), NEW f \in Fd, SocketClose(f)
    PROVE  Explained'
<1>1. creq[f] > 0 /\ creq' = [creq EXCEPT ![f] = @ - 1] /\ PostClose(f)
  BY DEF SocketClose
<1>2. SockAt(st[f], f)
  BY DEF Explains, SockPart
<1>3. creq[f] \in Nat /\ creq'[f] = creq[f] - 1 /\ \A h \in Fd \ {f} : creq'[h] = creq[h]
  BY <1>1 DEF IInv, SockType
<1>4. CASE st[f] # "out"
  <2>1. st[f] = "leaving" /\ creq'[f] = 0
    BY <1>1, <1>2, <1>3, <1>4 DEF SockAt
  <2> QED BY <1>1, <1>3, <2>1, PostCloseEx
<1>5. CASE st[f] = "out"
  <2> DEFINE m == Event("MSG.close", <<"close", f, nclose[f] + 1>>)
  <2>1. /\ sock' = [sock EXCEPT ![f] = "closed"] /\ Post(m)
        /\ nsent' = nsent /\ connection' = connection
        /\ forwarded' = forwarded /\ pending_msg' = pending_msg
        /\ pool' = pool /\ spawned' = spawned /\ online_account' = online_account
        /\ user' = user /\ cmds' = cmds
    BY <1>1 DEF PostClose, gateVars, gamedVars, agentVars
  <2>2. m.at = "MSG.close" /\ SocketOf(m) = f
    BY DEF Event, SocketOf
  <2>3. Home(m) = Gate /\ Subject(m) = f /\ ~ Later(m)
    BY <2>2 DEF Home, AgentLabel, Later, Subject, Opens, OpenLabel
  <2> HIDE DEF m
  <2>4. m \in GoodMsg /\ Moves({}, {m}) /\ Placed'
    BY <2>1, <2>3, PostMoves DEF Explains
  <2>5. Outside({f})
    BY <1>3, <2>1 DEF Outside, IInv, SockType
  <2>6. SockAt("out", f)'
    <3>1. sock'[f] = "closed"
      BY <2>1 DEF IInv, SockType
    <3> QED BY <1>2, <1>5, <2>1, <3>1 DEF SockAt, OpenStage, ShutStage, FwdStage, Entering, Asking, Asked, Awaited, Leaving, Meeting, Ending
  <2>7. {} \subseteq Life(f) /\ {m} \subseteq Life(f) /\ \A n \in {m} : n.at \in {"MSG.close", "close_fd"}
    BY <2>2, <2>3, <2>4 DEF Life
  <2> QED BY <1>5, <2>1, <2>4, <2>5, <2>6, <2>7, StillOut
<1> QED BY <1>4, <1>5

-----------------------------------------------------------------------------
(* A connection opens and its client logs in.                              *)

\* What a coroutine about its own socket knows.
LEMMA OwnOf ==
    ASSUME IInv, NEW st, NEW ag, Explains(st, ag), NEW s \in Service, NEW l,
           NEW c, Handles(s, c, l), NEW f, f = SocketOf(c),
           l \notin OpenLabel \cup {"agent_ret", "MSG.data", "my_dispatch", "MSG.close", "close_fd"}
    PROVE  /\ f \in Fd /\ ~ Later(c) /\ Subject(c) = f /\ c \in Life(f) /\ c \in GoodMsg
           /\ StageOf(c) = l /\ c.at = l /\ Home(c) = s
           /\ st[f] = l /\ Fits(st, ag, c, f)
<1>1. c \in GoodMsg /\ c.at = l /\ Home(c) = s /\ StageOf(c) = l
  BY DEF Handles, StageOf
<1>2. ~ Later(c) /\ Subject(c) = f
  BY <1>1 DEF Later, Subject, Opens
<1>3. f \in Fd /\ c \in Life(f) /\ Fits(st, ag, c, f) /\ st[f] = StageOf(c)
  BY <1>2, HandlesLife
<1> QED BY <1>1, <1>2, <1>3

\* The gate is done with a socket.
LEMMA Vanish ==
    ASSUME IInv, IInv', NEW st, NEW ag, Explains(st, ag), NEW l,
           l \in {"MSG.open", "refused", "close_ret"}, At(Gate, l), End(Gate),
           NEW f, f = SocketOf(Cur(Gate)), Outside({f}), SockAt("out", f)',
           forwarded'[f] = Nil,
           UNCHANGED pool, UNCHANGED spawned, UNCHANGED online_account,
           UNCHANGED user, UNCHANGED cmds
    PROVE  Explained'
<1>0. PICK c, q, N : c = Cur(Gate) /\ q = "out" /\ N = {}
  OBVIOUS
<1> DEFINE st2 == [st EXCEPT ![f] = q]
<1>1. Handles(Gate, c, l) /\ Moves({c}, N) /\ Placed'
  BY <1>0, EndStops, ServiceOf DEF Explains, Stops
<1>2. f \in Fd /\ c \in Life(f) /\ st[f] = l
  BY <1>0, <1>1, OwnOf, ServiceOf DEF OpenLabel
<1>3. st \in [Fd -> Stage] /\ q \in Stage
  BY <1>0 DEF Explains, Ghosts, Stage
<1>4. /\ st2 \in [Fd -> Stage] /\ st2[f] = q /\ st2[f] = "out"
      /\ \A h \in Fd : h # f => st2[h] = st[h]
  BY <1>0, <1>2, <1>3
<1> HIDE DEF st2
<1>5. \A g \in Fd : Same(f, g) =>
         /\ Agree(q, st[g])
         /\ st[g] \in Awaited => st[f] # "passing" /\ (In(q) => In(st[f]))
         /\ st[g] \in Asking => st[f] # "served"
  BY <1>0, <1>2 DEF Agree, In
<1>6. Cleared({f}, N)
  <2>1. {c} \cap Life(f) # {} /\ st[f] # "out"
    BY <1>2
  <2> QED BY <1>1, <1>2, <2>1, ClearedTake DEF Explains
<1>7. AgAt(st2, ag, f)'
  <2>1. AgAt(st, ag, f)
    BY <1>2 DEF Explains, AgPart
  <2> QED BY <1>2, <1>4, <2>1 DEF AgAt, HasStage, FwdStage, Awaited, Leaving, Meeting, Ending
<1>8. UserLike(st, ag, st2, ag, {f})
  BY <1>2, <1>4 DEF UserLike, UseStage, Leaving, Meeting
<1>9. RecLike(st, ag, st2, ag, {f})
  BY <1>2, <1>4 DEF RecLike, RecStage, UseStage, Leaving, Meeting
<1>10. FirstPart(st2)'
  <2>1. FirstLike(st, st2, {c}, N)
    BY <1>0, <1>2, <1>4 DEF FirstLike, Life
  <2> QED BY <1>1, <2>1, FirstKept DEF Explains
<1>11. KickPart(st2, ag)'
  <2>1. BackLike(st, ag, st2, ag, {c}, N)
    BY <1>0, <1>2, <1>4 DEF BackLike, Life, Meeting
  <2>2. RetLike(st, st2, {c}, N)
    BY <1>0, <1>2, <1>4 DEF RetLike, Life
  <2>3. LeaveLike(st, st2)
    BY <1>2, <1>4 DEF LeaveLike, Asked
  <2> QED BY <1>1, <2>1, <2>2, <2>3, KickKept DEF Explains, KickLike
<1>12. \A m \in N : ~ Later(m) => Subject(m) = f /\ Fits(st2, ag, m, f)'
  BY <1>0
<1>13. SockAt(q, f)'
  BY <1>0
<1> QED
  BY <1>1, <1>2, <1>3, <1>5, <1>6, <1>7, <1>8, <1>9, <1>10, <1>11, <1>12, <1>13, AdvanceOne DEF st2

LEMMA RefuseEx ==
    ASSUME IInv, IInv', NEW st, NEW ag, Explains(st, ag), Refuse
    PROVE  Explained'
<1>0. PICK f : f = SocketOf(Cur(Gate))
  OBVIOUS
<1>1. /\ At(Gate, "MSG.open") /\ End(Gate) /\ creq' = [creq EXCEPT ![f] = @ + 1]
      /\ sock' = sock /\ nsent' = nsent /\ connection' = connection
      /\ forwarded' = forwarded /\ pending_msg' = pending_msg
      /\ UNCHANGED pool /\ UNCHANGED spawned /\ UNCHANGED online_account
      /\ UNCHANGED user /\ UNCHANGED cmds
  BY <1>0 DEF Refuse, RequestClose, gateVars, gamedVars, agentVars
<1>2. Handles(Gate, Cur(Gate), "MSG.open")
  BY <1>1, Handling, ServiceOf DEF Explains
<1>3. f \in Fd /\ st[f] = "MSG.open"
  BY <1>0, <1>2, OwnOf, ServiceOf DEF OpenLabel
<1>4. SockAt("MSG.open", f)
  BY <1>3 DEF Explains, SockPart
<1>5. SockAt("out", f)' /\ forwarded'[f] = Nil
  BY <1>1, <1>4 DEF SockAt, OpenStage, ShutStage, FwdStage, Entering, Asking, Asked, Awaited, Leaving, Meeting, Ending
<1>6. Outside({f})
  BY <1>1 DEF Outside, IInv, SockType
<1> QED BY <1>0, <1>1, <1>5, <1>6, Vanish

LEMMA RefusedCloseEx ==
    ASSUME IInv, IInv', NEW st, NEW ag, Explains(st, ag), RefusedClose
    PROVE  Explained'
<1>0. PICK f : f = SocketOf(Cur(Gate))
  OBVIOUS
<1>1. /\ At(Gate, "refused") /\ End(Gate) /\ creq' = [creq EXCEPT ![f] = @ + 1]
      /\ sock' = sock /\ nsent' = nsent /\ connection' = connection
      /\ forwarded' = forwarded /\ pending_msg' = pending_msg
      /\ UNCHANGED pool /\ UNCHANGED spawned /\ UNCHANGED online_account
      /\ UNCHANGED user /\ UNCHANGED cmds
  BY <1>0 DEF RefusedClose, RequestClose, gateVars, gamedVars, agentVars
<1>2. Handles(Gate, Cur(Gate), "refused")
  BY <1>1, Handling, ServiceOf DEF Explains
<1>3. f \in Fd /\ st[f] = "refused"
  BY <1>0, <1>2, OwnOf, ServiceOf DEF OpenLabel
<1>4. SockAt("refused", f)
  BY <1>3 DEF Explains, SockPart
<1>5. SockAt("out", f)' /\ forwarded'[f] = Nil
  BY <1>1, <1>4 DEF SockAt, OpenStage, ShutStage, FwdStage, Entering, Asking, Asked, Awaited, Leaving, Meeting, Ending
<1>6. Outside({f})
  BY <1>1 DEF Outside, IInv, SockType
<1> QED BY <1>0, <1>1, <1>5, <1>6, Vanish

LEMMA CloseDoneEx ==
    ASSUME IInv, IInv', NEW st, NEW ag, Explains(st, ag), CloseDone
    PROVE  Explained'
<1>0. PICK f : f = SocketOf(Cur(Gate))
  OBVIOUS
<1>1. /\ At(Gate, "close_ret") /\ End(Gate) /\ connection' = connection \ {f}
      /\ forwarded' = [forwarded EXCEPT ![f] = Nil]
      /\ sock' = sock /\ nsent' = nsent /\ creq' = creq /\ pending_msg' = pending_msg
      /\ UNCHANGED pool /\ UNCHANGED spawned /\ UNCHANGED online_account
      /\ UNCHANGED user /\ UNCHANGED cmds
  BY <1>0 DEF CloseDone, Forget, sockVars, gamedVars, agentVars
<1>2. Handles(Gate, Cur(Gate), "close_ret")
  BY <1>1, Handling, ServiceOf DEF Explains
<1>3. f \in Fd /\ st[f] = "close_ret"
  BY <1>0, <1>2, OwnOf, ServiceOf DEF OpenLabel
<1>4. SockAt("close_ret", f)
  BY <1>3 DEF Explains, SockPart
<1>5. forwarded'[f] = Nil
  BY <1>1, <1>3 DEF IInv, GateType
<1>6. SockAt("out", f)'
  <2>1. f \notin connection' /\ sock[f] # "none"
    BY <1>1, <1>4 DEF SockAt
  <2>2. pending_msg[f] # Nil =>
            \A i \in 1 .. Len(pending_msg[f]) : pending_msg[f][i] > 1
    BY <1>4 DEF SockAt
  <2> QED BY <1>1, <1>5, <2>1, <2>2 DEF SockAt, OpenStage, ShutStage, FwdStage, Entering, Asking, Asked, Awaited, Leaving, Meeting, Ending
<1>7. Outside({f})
  BY <1>1 DEF Outside, IInv, GateType
<1> QED BY <1>0, <1>1, <1>5, <1>6, <1>7, Vanish

\* A step of the login of a socket that has none but its clients before it.
LEMMA Enter ==
    ASSUME IInv, IInv', NEW st, NEW ag, Explains(st, ag), NEW f \in Fd, NEW q,
           st[f] \in {"MSG.open", "MSG.data"}, q \in {"idle", "auth"},
           st[f] = "MSG.data" => q = "auth",
           NEW c \in Life(f), NEW N, Moves({c}, N), Placed',
           \A m \in N : ~ Later(m) /\ Subject(m) = f /\ StageOf(m) = q,
           Outside({f}), SockAt(q, f)', forwarded'[f] = forwarded[f],
           UNCHANGED pool, UNCHANGED spawned, UNCHANGED online_account,
           UNCHANGED user, UNCHANGED cmds
    PROVE  Explained'
<1> DEFINE st2 == [st EXCEPT ![f] = q]
<1>1. st \in [Fd -> Stage] /\ q \in Stage
  BY DEF Explains, Ghosts, Stage, OpenStage, Entering
<1>2. st2 \in [Fd -> Stage] /\ st2[f] = q /\ \A h \in Fd : h # f => st2[h] = st[h]
  BY <1>1
<1> HIDE DEF st2
<1>3. \A g \in Fd : Same(f, g) =>
         /\ Agree(q, st[g])
         /\ st[g] \in Awaited => st[f] # "passing" /\ (In(q) => In(st[f]))
         /\ st[g] \in Asking => st[f] # "served"
  <2>1. \A g \in Fd : Same(f, g) => Agree(st[f], st[g])
    BY DEF Explains, PairPart
  <2> QED BY <2>1 DEF Agree, Before, In, Awaited, Entering, Asking, Asked, Leaving, Meeting, Ending
<1>4. Cleared({f}, N)
  <2>1. {c} \cap Life(f) # {} /\ st[f] # "out"
    OBVIOUS
  <2> QED BY <2>1, ClearedTake DEF Explains
<1>5. ASSUME NEW m \in N, ~ Later(m) PROVE Subject(m) = f /\ Fits(st2, ag, m, f)'
  <2>1. StageOf(m) = q /\ Subject(m) = f
    OBVIOUS
  <2> QED BY <1>2, <2>1 DEF Fits, Awaited, Asking, Asks, Leaving, Meeting, Ending
<1>6. AgAt(st2, ag, f)'
  <2>1. AgAt(st, ag, f)
    BY DEF Explains, AgPart
  <2> QED BY <1>2, <2>1 DEF AgAt, HasStage, FwdStage, Awaited, Leaving, Meeting, Ending
<1>7. UserLike(st, ag, st2, ag, {f})
  BY <1>2 DEF UserLike, UseStage, Leaving, Meeting
<1>8. RecLike(st, ag, st2, ag, {f})
  BY <1>2 DEF RecLike, RecStage, UseStage, Leaving, Meeting
<1>9. FirstPart(st2)'
  <2>1. \A h \in Fd : h # f => {c} \cap Life(h) = {} /\ N \cap Life(h) = {}
    BY DEF Life
  <2>2. \A h \in Fd : N \cap Data(h) = {}
    BY DEF Data
  <2>3. FirstLike(st, st2, {c}, N)
    BY <1>2, <2>1, <2>2 DEF FirstLike
  <2> QED BY <2>3, FirstKept DEF Explains
<1>10. KickPart(st2, ag)'
  <2>1. \A h \in Fd : h # f => {c} \cap Life(h) = {} /\ N \cap Life(h) = {}
    BY DEF Life
  <2>2. KickLike(st, ag, st2, ag, {c}, N)
    BY <1>2, <2>1 DEF KickLike, BackLike, RetLike, LeaveLike, Meeting, Asked
  <2> QED BY <2>2, KickKept DEF Explains
<1> QED
  BY <1>1, <1>3, <1>4, <1>5, <1>6, <1>7, <1>8, <1>9, <1>10, AdvanceOne DEF st2

LEMMA AcceptEx ==
    ASSUME IInv, IInv', NEW st, NEW ag, Explains(st, ag), Accept
    PROVE  Explained'
<1>0. PICK c, f : c = Cur(Gate) /\ f = SocketOf(c)
  OBVIOUS
<1>1. /\ At(Gate, "MSG.open") /\ End(Gate) /\ connection' = connection \cup {f}
      /\ sock' = sock /\ creq' = creq /\ nsent' = nsent
      /\ forwarded' = forwarded /\ pending_msg' = pending_msg
      /\ UNCHANGED pool /\ UNCHANGED spawned /\ UNCHANGED online_account
      /\ UNCHANGED user /\ UNCHANGED cmds
  BY <1>0 DEF Accept, sockVars, gamedVars, agentVars
<1>2. Handles(Gate, c, "MSG.open") /\ Moves({c}, {}) /\ Placed'
  BY <1>0, <1>1, EndStops, ServiceOf DEF Explains, Stops
<1>3. f \in Fd /\ st[f] = "MSG.open" /\ c \in Life(f)
  BY <1>0, <1>2, OwnOf, ServiceOf DEF OpenLabel
<1>4. SockAt("MSG.open", f)
  BY <1>3 DEF Explains, SockPart
<1>5. SockAt("idle", f)'
  BY <1>1, <1>4 DEF SockAt, OpenStage, ShutStage, FwdStage, Entering, Asking, Asked, Awaited, Leaving, Meeting, Ending
<1>6. Outside({f})
  BY <1>1 DEF Outside
<1> QED BY <1>1, <1>2, <1>3, <1>5, <1>6, Enter

\* A frame after the login frame.
LEMMA LaterOf ==
    ASSUME IInv, NEW st, NEW ag, Explains(st, ag), At(Gate, "MSG.data"),
           NEW c, c = Cur(Gate), NEW f, f = SocketOf(c)
    PROVE  /\ Handles(Gate, c, "MSG.data") /\ c \in GoodMsg /\ f \in Fd
           /\ \/ Later(c) /\ st[f] \notin {"none", "MSG.open", "idle", "MSG.data"}
              \/ ~ Later(c) /\ Subject(c) = f /\ c \in Life(f) /\ st[f] = "MSG.data"
<1>1. Handles(Gate, c, "MSG.data")
  BY Handling, ServiceOf DEF Explains
<1>2. c \in GoodMsg /\ c.at = "MSG.data" /\ Flies(c) /\ StageOf(c) = "MSG.data"
  BY <1>1 DEF Handles, StageOf
<1>3. f \in Fd /\ Subject(c) = f
  BY <1>2, Places DEF Awaited
<1>4. CASE Later(c)
  <2>1. c \in Data(f)
    BY <1>2, <1>4 DEF Data
  <2>2. st[f] \notin {"none", "MSG.open", "idle"}
    BY <1>2, <1>3, <2>1 DEF Explains, FirstPart
  <2>3. st[f] # "MSG.data"
    <3> SUFFICES ASSUME st[f] = "MSG.data" PROVE FALSE
      OBVIOUS
    <3>1. ~ Free(mbox[Gate], Life(f)) /\ Ahead(mbox[Gate], Life(f), Data(f))
      BY <1>3 DEF Explains, FirstPart
    <3>2. c = mbox[Gate][1] /\ 1 \in 1 .. Len(mbox[Gate]) /\ Len(mbox[Gate]) \in Nat
      BY <1>1 DEF Handles
    <3>3. PICK i \in 1 .. Len(mbox[Gate]) : mbox[Gate][i] \in Life(f)
      BY <3>1 DEF Free
    <3>4. i < 1
      BY <2>1, <3>1, <3>2, <3>3 DEF Ahead
    <3> QED BY <3>2, <3>3, <3>4
  <2> QED BY <1>1, <1>2, <1>3, <1>4, <2>2, <2>3
<1>5. CASE ~ Later(c)
  <2>1. c \in Life(f) /\ st[f] = StageOf(c)
    BY <1>1, <1>3, <1>5, HandlesLife, ServiceOf
  <2> QED BY <1>1, <1>2, <1>3, <1>5, <2>1
<1> QED BY <1>4, <1>5

LEMMA StartLoginEx ==
    ASSUME IInv, IInv', NEW st, NEW ag, Explains(st, ag), StartLogin
    PROVE  Explained'
<1>0. PICK c, f : c = Cur(Gate) /\ f = SocketOf(c)
  OBVIOUS
<1>00. PICK m : m = [c EXCEPT !.at = "auth"]
  OBVIOUS
<1>1. /\ At(Gate, "MSG.data") /\ Yield(Gate, m)
      /\ f \in connection /\ forwarded[f] = Nil /\ pending_msg[f] = Nil
      /\ pending_msg' = [pending_msg EXCEPT ![f] = << >>]
      /\ sock' = sock /\ creq' = creq /\ nsent' = nsent
      /\ forwarded' = forwarded /\ connection' = connection
      /\ UNCHANGED pool /\ UNCHANGED spawned /\ UNCHANGED online_account
      /\ UNCHANGED user /\ UNCHANGED cmds
  BY <1>0, <1>00 DEF StartLogin, sockVars, gamedVars, agentVars
<1>2. /\ c \in GoodMsg /\ f \in Fd
      /\ \/ Later(c) /\ st[f] \notin {"none", "MSG.open", "idle", "MSG.data"}
         \/ ~ Later(c) /\ Subject(c) = f /\ c \in Life(f) /\ st[f] = "MSG.data"
  BY <1>0, <1>1, LaterOf
<1>3. SockAt(st[f], f)
  BY <1>2 DEF Explains, SockPart
<1>4. c \in Life(f) /\ st[f] = "MSG.data"
  BY <1>1, <1>2, <1>3 DEF SockAt
<1>5. Moves({c}, {m}) /\ Placed'
  BY <1>0, <1>1, YieldGoes, ServiceOf DEF Explains, Goes
<1>6. m.at = "auth" /\ m.task = c.task
  BY <1>00, <1>2 DEF GoodMsg, Msg
<1>7. \A n \in {m} : ~ Later(n) /\ Subject(n) = f /\ StageOf(n) = "auth"
  BY <1>0, <1>6 DEF Later, Subject, Opens, OpenLabel, SocketOf, StageOf
<1>8. pending_msg'[f] = << >> /\ Len(<< >>) = 0
  BY <1>1, <1>2 DEF IInv, GateType
<1>9. pending_msg'[f] # Nil
  <2>1. << >> \in Seq(Nth)
    OBVIOUS
  <2> QED BY <1>8, <2>1, NilAssumption
<1>10. SockAt("auth", f)'
  BY <1>1, <1>3, <1>4, <1>8, <1>9 DEF SockAt, OpenStage, ShutStage, FwdStage, Entering, Asking, Asked, Awaited, Leaving, Meeting, Ending
<1>11. Outside({f})
  BY <1>1 DEF Outside, IInv, GateType
<1> QED BY <1>1, <1>2, <1>4, <1>5, <1>7, <1>10, <1>11, Enter

\* A frame that is put aside.
LEMMA EnqueueEx ==
    ASSUME IInv, IInv', NEW st, NEW ag, Explains(st, ag), Enqueue
    PROVE  Explained'
<1>0. PICK c, f : c = Cur(Gate) /\ f = SocketOf(c)
  OBVIOUS
<1>1. /\ At(Gate, "MSG.data") /\ End(Gate)
      /\ f \in connection /\ forwarded[f] = Nil /\ pending_msg[f] # Nil
      /\ pending_msg' = [pending_msg EXCEPT ![f] = Append(@, c.task[3])]
      /\ sock' = sock /\ creq' = creq /\ nsent' = nsent
      /\ forwarded' = forwarded /\ connection' = connection
      /\ UNCHANGED pool /\ UNCHANGED spawned /\ UNCHANGED online_account
      /\ UNCHANGED user /\ UNCHANGED cmds
  BY <1>0 DEF Enqueue, sockVars, gamedVars, agentVars
<1>2. /\ c \in GoodMsg /\ f \in Fd
      /\ \/ Later(c) /\ st[f] \notin {"none", "MSG.open", "idle", "MSG.data"}
         \/ ~ Later(c) /\ Subject(c) = f /\ c \in Life(f) /\ st[f] = "MSG.data"
  BY <1>0, <1>1, LaterOf
<1>3. SockAt(st[f], f) /\ AgAt(st, ag, f)
  BY <1>2 DEF Explains, SockPart, AgPart
<1>4. Later(c) /\ st[f] \notin {"none", "MSG.open", "idle", "MSG.data"}
  BY <1>1, <1>2, <1>3 DEF SockAt
<1>5. Moves({c}, {}) /\ Placed'
  BY <1>0, <1>1, EndStops, ServiceOf DEF Explains, Stops
<1>6. c.task[3] > 1 /\ c.task[3] \in Nth
  BY <1>2, <1>4 DEF Later, GoodMsg, Msg, Task
<1>7. /\ pending_msg[f] \in Seq(Nth) /\ pending_msg'[f] = Append(pending_msg[f], c.task[3])
      /\ \A i \in 1 .. Len(pending_msg[f]) : pending_msg[f][i] > 1
  BY <1>1, <1>2, <1>3 DEF IInv, GateType, Opt, SockAt
<1>8. /\ pending_msg'[f] \in Seq(Nth)
      /\ \A i \in 1 .. Len(pending_msg'[f]) : pending_msg'[f][i] > 1
  <2> DEFINE p == pending_msg[f]
             n == c.task[3]
  <2>1. p \in Seq(Nth) /\ n \in Nth /\ n > 1 /\ \A i \in 1 .. Len(p) : p[i] > 1
    BY <1>6, <1>7
  <2> HIDE DEF p, n
  <2>2. Append(p, n) \in Seq(Nth) /\ \A i \in 1 .. Len(Append(p, n)) : Append(p, n)[i] > 1
    BY <2>1
  <2> QED BY <1>7, <2>2 DEF p, n
<1>9. pending_msg'[f] # Nil
  BY <1>8, NilAssumption
<1>10. SockAt(st[f], f)'
  BY <1>1, <1>3, <1>4, <1>8, <1>9 DEF SockAt
<1>11. (\A h \in {f} : SockAt(st[h], h)') /\ AgLike(st, ag, ag, {f})'
  BY <1>1, <1>3, <1>10 DEF AgLike, AgAt
<1>12. Outside({f})
  BY <1>1 DEF Outside, IInv, GateType
<1>13. FirstLike(st, st, {c}, {}) /\ KickLike(st, ag, st, ag, {c}, {})
  BY <1>4, NoKick DEF FirstLike, Life
<1> QED BY <1>1, <1>5, <1>11, <1>12, <1>13, Still

LEMMA RedirectEx ==
    ASSUME IInv, IInv', NEW st, NEW ag, Explains(st, ag), Redirect
    PROVE  Explained'
<1>0. PICK c, f, a : c = Cur(Gate) /\ f = SocketOf(c) /\ a = forwarded[f]
  OBVIOUS
<1>00. PICK m : m = [c EXCEPT !.at = "my_dispatch", !.callee = a]
  OBVIOUS
<1>1. /\ At(Gate, "MSG.data") /\ a # Nil /\ Send(Gate, a, m) /\ Idles
  BY <1>0, <1>00 DEF Redirect, Idles, sockVars, gateVars, gamedVars, agentVars
<1>2. /\ c \in GoodMsg /\ f \in Fd
      /\ \/ Later(c) /\ st[f] \notin {"none", "MSG.open", "idle", "MSG.data"}
         \/ ~ Later(c) /\ Subject(c) = f /\ c \in Life(f) /\ st[f] = "MSG.data"
  BY <1>0, <1>1, LaterOf
<1>3. SockAt(st[f], f) /\ a \in Agent
  BY <1>0, <1>1, <1>2 DEF Explains, SockPart, IInv, GateType, Opt
<1>4. Later(c) /\ st[f] \notin {"none", "MSG.open", "idle", "MSG.data"}
  BY <1>0, <1>1, <1>2, <1>3 DEF SockAt, FwdStage, Leaving, Meeting, Ending
<1>5. m.at = "my_dispatch" /\ m.callee = a /\ m.task = c.task
  BY <1>00, <1>2 DEF GoodMsg, Msg
<1>6. Later(m) /\ Home(m) = a /\ SocketOf(m) = f
  BY <1>0, <1>4, <1>5 DEF Later, Home, AgentLabel, SocketOf
<1>7. Moves({c}, {m}) /\ Placed'
  BY <1>0, <1>1, <1>3, <1>6, SendGoes, ServiceOf DEF Explains, Goes
<1>8. FirstLike(st, st, {c}, {m}) /\ KickLike(st, ag, st, ag, {c}, {m})
  BY <1>4, <1>6, NoKick DEF FirstLike, Life, Data
<1> QED BY <1>1, <1>6, <1>7, <1>8, StillIdle

\* The dispatcher of an agent is given a frame after the login frame.
LEMMA DispatchOf ==
    ASSUME IInv, NEW st, NEW ag, Explains(st, ag), NEW a \in Agent, At(a, "my_dispatch"),
           NEW c, c = Cur(a)
    PROVE  Handles(a, c, "my_dispatch") /\ c \in GoodMsg /\ Later(c)
<1>1. Handles(a, c, "my_dispatch")
  BY Handling, ServiceOf DEF Explains
<1>2. c \in GoodMsg /\ StageOf(c) = "my_dispatch"
  BY <1>1 DEF Handles, StageOf
<1>3. ASSUME ~ Later(c) PROVE FALSE
  <2>1. PICK f : f = Subject(c)
    OBVIOUS
  <2>2. f \in Fd /\ st[f] = "my_dispatch"
    BY <1>1, <1>2, <1>3, <2>1, HandlesLife, ServiceOf
  <2>3. st[f] \in Stage
    BY <2>2 DEF Explains, Ghosts
  <2> QED BY <2>2, <2>3 DEF Stage, OpenStage, FwdStage, Entering, Asking, Asked, Awaited, Leaving, Meeting, Ending
<1> QED BY <1>1, <1>2, <1>3

LEMMA MyDispatchEx ==
    ASSUME IInv, IInv', NEW st, NEW ag, Explains(st, ag), NEW a \in Agent, MyDispatch(a)
    PROVE  Explained'
<1>0. PICK c : c = Cur(a)
  OBVIOUS
<1>1. At(a, "my_dispatch") /\ End(a) /\ Idles
  BY <1>0 DEF MyDispatch, Idles, sockVars, gateVars, gamedVars
<1>2. c \in GoodMsg /\ Later(c)
  BY <1>0, <1>1, DispatchOf
<1>3. Moves({c}, {}) /\ Placed'
  BY <1>0, <1>1, EndStops, ServiceOf DEF Explains, Stops
<1>4. FirstLike(st, st, {c}, {}) /\ KickLike(st, ag, st, ag, {c}, {})
  BY <1>2, NoKick DEF FirstLike, Life
<1> QED BY <1>1, <1>3, <1>4, StillIdle

LEMMA LoginRefusedEx ==
    ASSUME IInv, IInv', NEW st, NEW ag, Explains(st, ag), LoginRefused
    PROVE  Explained'
<1>0. PICK c, f : c = Cur(Gate) /\ f = SocketOf(c)
  OBVIOUS
<1>00. PICK m, q, st2 : /\ m = [c EXCEPT !.at = "refused"] /\ q = "refused"
                        /\ st2 = [st EXCEPT ![f] = q]
  OBVIOUS
<1>1. At(Gate, "auth") /\ Idles /\ (f \in connection => Yield(Gate, m))
  BY <1>0, <1>00 DEF LoginRefused, Idles, sockVars, gateVars, gamedVars, agentVars
<1>2. Handles(Gate, c, "auth")
  BY <1>0, <1>1, Handling, ServiceOf DEF Explains
<1>3. f \in Fd /\ c \in Life(f) /\ c \in GoodMsg /\ st[f] = "auth"
  BY <1>0, <1>2, OwnOf, ServiceOf DEF OpenLabel
<1>4. SockAt("auth", f)
  BY <1>3 DEF Explains, SockPart
<1>5. Goes(Gate, "auth", m)
  <2>1. Yield(Gate, m)
    BY <1>1, <1>4 DEF SockAt
  <2> QED BY <1>0, <1>1, <2>1, YieldGoes, ServiceOf DEF Explains
<1>6. Moves({c}, {m}) /\ Placed'
  BY <1>0, <1>5 DEF Goes
<1>7. m.at = "refused" /\ m.task = c.task
  BY <1>00, <1>3 DEF GoodMsg, Msg
<1>8. ~ Later(m) /\ Subject(m) = f /\ StageOf(m) = "refused"
  BY <1>0, <1>7 DEF Later, Subject, Opens, OpenLabel, SocketOf, StageOf
<1>9. q \in Stage /\ st2[f] = q
  BY <1>00, <1>3 DEF Explains, Ghosts, Stage, OpenStage, Entering
<1>10. Fits(st2, ag, m, f)'
  BY <1>00, <1>3, <1>8, <1>9 DEF Fits, Awaited, Asking, Asks, Leaving, Meeting, Ending
<1>11. Steady(st[f], q)
  BY <1>00, <1>3 DEF Steady, Hinge, OpenStage, FwdStage, HasStage, UseStage, RecStage,
     Entering, Asking, Asked, Awaited, Leaving, Meeting, Ending
<1>12. \A g \in Fd : Same(f, g) => Agree(q, st[g])
  <2>1. \A g \in Fd : Same(f, g) => Agree("auth", st[g])
    BY <1>3 DEF Explains, PairPart
  <2> QED BY <1>00, <2>1 DEF Agree, Before, In, Awaited, Entering, Asking, Asked, Leaving, Meeting, Ending
<1>13. /\ st[f] \notin Asked /\ q \notin {"kick_back", "kick_ret", "gamed_close"}
       /\ st[f] \notin Meeting
  BY <1>00, <1>3 DEF Asked, Meeting
<1>14. Explains(st2, ag)'
  BY <1>00, <1>1, <1>3, <1>6, <1>8, <1>9, <1>10, <1>11, <1>12, <1>13, Onward
<1> QED BY <1>14 DEF Explained

\* The record of an account names the agent of the client that is served.
LEMMA ServedAgent ==
    ASSUME IInv, NEW st, NEW ag, Explains(st, ag), NEW f \in Fd, st[f] = "auth",
           online_account[AccountOf[f]] # Nil
    PROVE  /\ online_account[AccountOf[f]] \in Record
           /\ online_account[AccountOf[f]].agent \in Agent
           /\ \E g \in Fd : /\ Same(g, f) /\ st[g] = "served"
                            /\ ag[g] = online_account[AccountOf[f]].agent
<1>1. AccountOf[f] \in Account
  BY FdAssumption
<1>2. online_account[AccountOf[f]] \in Record
  BY <1>1 DEF IInv, GamedType, Opt
<1>3. online_account[AccountOf[f]].agent \in Agent
  BY <1>2 DEF Record
<1>4. PICK g \in Fd : /\ AccountOf[g] = AccountOf[f]
                      /\ ag[g] = online_account[AccountOf[f]].agent
  BY <1>1 DEF Explains, RecPart
<1>5. ag[g] # Nil
  BY <1>3, <1>4, NilAssumption
<1>6. st[g] \in HasStage
  BY <1>5 DEF Explains, AgPart, AgAt
<1>7. g # f
  BY <1>6 DEF HasStage, Awaited, Leaving, Meeting
<1>8. Agree("auth", st[g])
  BY <1>4, <1>7 DEF Explains, PairPart, Same
<1>9. st[g] = "served"
  BY <1>6, <1>8 DEF Agree, Before, In, HasStage, Awaited, Entering, Asking, Asked, Leaving, Meeting, Ending
<1> QED BY <1>2, <1>3, <1>4, <1>7, <1>9 DEF Same

LEMMA LoginTakeoverEx ==
    ASSUME IInv, IInv', NEW st, NEW ag, Explains(st, ag), LoginTakeover
    PROVE  Explained'
<1>0. PICK c, f, info : /\ c = Cur(Gate) /\ f = SocketOf(c)
                        /\ info = online_account[AccountOf[f]]
  OBVIOUS
<1>00. PICK m, q, st2 :
        /\ m = [c EXCEPT !.at = "other_login", !.callee = info.agent,
                         !.nfd = f, !.account = AccountOf[f], !.rec = info.id,
                         !.ret = "other_ret"]
        /\ q = "other_login" /\ st2 = [st EXCEPT ![f] = q]
  OBVIOUS
<1>1. At(Gate, "auth") /\ Idles /\ info # Nil /\ Send(Gate, info.agent, m)
  BY <1>0, <1>00 DEF LoginTakeover, Idles, sockVars, gateVars, gamedVars, agentVars
<1>2. Handles(Gate, c, "auth")
  BY <1>0, <1>1, Handling, ServiceOf DEF Explains
<1>3. f \in Fd /\ c \in Life(f) /\ c \in GoodMsg /\ st[f] = "auth"
  BY <1>0, <1>2, OwnOf, ServiceOf DEF OpenLabel
<1>4. info.agent \in Agent
  BY <1>0, <1>1, <1>3, ServedAgent
<1>40. PICK g \in Fd : Same(g, f) /\ st[g] = "served" /\ ag[g] = info.agent
  BY <1>0, <1>1, <1>3, ServedAgent
<1>7. /\ m.at = "other_login" /\ m.task = c.task /\ m.callee = info.agent /\ m.nfd = f
      /\ m.account = AccountOf[f] /\ m.rec = info.id /\ m.ret = "other_ret"
  BY <1>00, <1>3 DEF GoodMsg, Msg
<1>8. ~ Later(m) /\ Subject(m) = f /\ StageOf(m) = "other_login" /\ Home(m) = info.agent
  BY <1>0, <1>7 DEF Later, Subject, Opens, OpenLabel, SocketOf, StageOf, Home, AgentLabel
<1>6. Moves({c}, {m}) /\ Placed'
  <2>1. Goes(Gate, "auth", m)
    BY <1>1, <1>4, <1>8, SendGoes, ServiceOf DEF Explains
  <2> QED BY <1>0, <2>1 DEF Goes
<1>9. q \in Stage /\ st2[f] = q /\ \A h \in Fd : h # f => st2[h] = st[h]
  BY <1>00, <1>3 DEF Explains, Ghosts, Stage, OpenStage, Asking
<1>10. Fits(st2, ag, m, f)'
  <2>1. st2[g] = "served" /\ ag[g] = m.callee
    BY <1>7, <1>9, <1>40 DEF Same
  <2>2. FitsAsking(st2, ag, m, f)
    BY <1>7, <1>40, <2>1 DEF FitsAsking
  <2>3. FitsRec(m, f)'
    BY <1>0, <1>1, <1>7 DEF FitsRec, Idles
  <2> QED BY <1>00, <1>3, <1>8, <1>9, <2>2, <2>3 DEF Fits, FitsAsking, Awaited, Asking, Asks, Leaving, Meeting, Ending
<1>11. Steady(st[f], q)
  BY <1>00, <1>3 DEF Steady, Hinge, OpenStage, FwdStage, HasStage, UseStage, RecStage,
     Entering, Asking, Asked, Awaited, Leaving, Meeting, Ending
<1>12. \A h \in Fd : Same(f, h) => Agree(q, st[h])
  <2>1. \A h \in Fd : Same(f, h) => Agree("auth", st[h])
    BY <1>3 DEF Explains, PairPart
  <2> QED BY <1>00, <2>1 DEF Agree, Before, In, Awaited, Entering, Asking, Asked, Leaving, Meeting, Ending
<1>13. /\ st[f] \notin Asked /\ q \notin {"kick_back", "kick_ret", "gamed_close"}
       /\ st[f] \notin Meeting
  BY <1>00, <1>3 DEF Asked, Meeting
<1>14. Explains(st2, ag)'
  BY <1>00, <1>1, <1>3, <1>6, <1>8, <1>9, <1>10, <1>11, <1>12, <1>13, Onward
<1> QED BY <1>14 DEF Explained

-----------------------------------------------------------------------------
(* An agent is taken from the pool, or created.                            *)

NewFor(a, ag) ==
    /\ a <= spawned' /\ spawned <= spawned' /\ \A h \in Fd : ag[h] # a
    /\ \A i \in 1 .. Len(pool') : /\ pool'[i] # a
                                  /\ \E j \in 1 .. Len(pool) : pool'[i] = pool[j]
    /\ \A i, j \in 1 .. Len(pool') : pool'[i] = pool'[j] => i = j

LEMMA NewAgent ==
    ASSUME IInv, IInv', NEW st, NEW ag, Ghosts(st, ag), AgPart(st, ag), NEW m, ForwardAgent(m)
    PROVE  \E a \in Agent : /\ Yield(Gate, [m EXCEPT !.at = "assign", !.callee = a])
                            /\ NewFor(a, ag)
<1>1. /\ pool \in Seq(Agent) /\ spawned \in Nat /\ spawned' \in 0 .. MaxAgent
      /\ Len(pool) \in Nat /\ MaxAgent \in Nat
  BY BoundAssumption DEF IInv, GamedType
<1>2. /\ \A h \in Fd : ag[h] # Nil => /\ ag[h] <= spawned
                                      /\ \A i \in 1 .. Len(pool) : pool[i] # ag[h]
      /\ \A i \in 1 .. Len(pool) : pool[i] <= spawned
      /\ \A i, j \in 1 .. Len(pool) : pool[i] = pool[j] => i = j
  BY DEF AgPart, AgAt
<1>3. ASSUME pool # << >>, pool' = Tail(pool), spawned' = spawned,
             Yield(Gate, [m EXCEPT !.at = "assign", !.callee = Head(pool)])
      PROVE  \E a \in Agent : /\ Yield(Gate, [m EXCEPT !.at = "assign", !.callee = a])
                              /\ NewFor(a, ag)
  <2>1. /\ Head(pool) \in Agent /\ Head(pool) = pool[1] /\ 1 \in 1 .. Len(pool)
        /\ Len(pool') \in Nat
        /\ \A i \in 1 .. Len(pool') : pool'[i] = pool[i + 1] /\ i + 1 \in 1 .. Len(pool)
    BY <1>1, <1>3, TailIndex
  <2>2. PICK a : a = Head(pool)
    OBVIOUS
  <2>3. a \in Agent /\ a = pool[1] /\ a <= spawned
    BY <1>2, <2>1, <2>2
  <2>4. ASSUME NEW h \in Fd PROVE ag[h] # a
    <3>1. a # Nil
      BY <2>3, NilAssumption
    <3> QED BY <1>2, <2>1, <2>3, <3>1
  <2>5. ASSUME NEW i \in 1 .. Len(pool')
        PROVE  pool'[i] # a /\ \E j \in 1 .. Len(pool) : pool'[i] = pool[j]
    <3>1. i + 1 # 1 /\ i + 1 \in 1 .. Len(pool) /\ pool'[i] = pool[i + 1]
      BY <2>1
    <3> QED BY <1>2, <2>1, <2>3, <3>1
  <2>6. ASSUME NEW i \in 1 .. Len(pool'), NEW j \in 1 .. Len(pool'), pool'[i] = pool'[j]
        PROVE  i = j
    <3>1. i + 1 = j + 1
      BY <1>2, <2>1, <2>6
    <3> QED BY <3>1
  <2>7. spawned <= spawned'
    BY <1>1, <1>3
  <2>8. NewFor(a, ag)
    BY <1>3, <2>3, <2>4, <2>5, <2>6, <2>7 DEF NewFor
  <2> QED BY <1>3, <2>2, <2>3, <2>8
<1>4. ASSUME pool = << >>, pool' = pool, spawned < MaxAgent, spawned' = spawned + 1,
             Yield(Gate, [m EXCEPT !.at = "assign", !.callee = spawned + 1])
      PROVE  \E a \in Agent : /\ Yield(Gate, [m EXCEPT !.at = "assign", !.callee = a])
                              /\ NewFor(a, ag)
  <2>1. PICK a : a = spawned + 1
    OBVIOUS
  <2>2. a \in Agent /\ a <= spawned' /\ spawned <= spawned'
    BY <1>1, <1>4, <2>1 DEF Agent
  <2>3. ASSUME NEW h \in Fd PROVE ag[h] # a
    <3>1. a # Nil /\ ~ (a <= spawned)
      BY <1>1, <2>1, <2>2, NilAssumption
    <3> QED BY <1>2, <3>1
  <2>4. Len(pool') = 0
    BY <1>4
  <2>5. NewFor(a, ag)
    BY <2>2, <2>3, <2>4 DEF NewFor
  <2> QED BY <1>4, <2>1, <2>2, <2>5
<1> QED BY <1>3, <1>4 DEF ForwardAgent

\* The agents are those of one socket each when one more has one.
LEMMA AgGiven ==
    ASSUME IInv, IInv', NEW st, NEW ag, Ghosts(st, ag), AgPart(st, ag), NEW g \in Fd,
           NEW a \in Agent, NewFor(a, ag), NEW st2, NEW ag2, ag2 = [ag EXCEPT ![g] = a],
           st2[g] = "assign",
           \A h \in Fd \ {g} : /\ st2[h] \in HasStage <=> st[h] \in HasStage
                               /\ st2[h] \in FwdStage <=> st[h] \in FwdStage,
           UNCHANGED forwarded
    PROVE  Ghosts(st, ag2) /\ AgPart(st2, ag2)'
<1>1. /\ pool \in Seq(Agent) /\ spawned \in Nat /\ spawned' \in Nat /\ pool' \in Seq(Agent)
      /\ Agent \subseteq Nat
  BY BoundAssumption DEF IInv, GamedType, Agent
<1>2. /\ ag \in [Fd -> Opt(Agent)] /\ ag2[g] = a /\ \A h \in Fd \ {g} : ag2[h] = ag[h]
      /\ ag2 \in [Fd -> Opt(Agent)] /\ a # Nil
  BY NilAssumption DEF Ghosts, Opt
<1>3. /\ a <= spawned' /\ spawned <= spawned' /\ \A h \in Fd : ag[h] # a
      /\ \A i \in 1 .. Len(pool') : /\ pool'[i] # a
                                    /\ \E j \in 1 .. Len(pool) : pool'[i] = pool[j]
      /\ \A i, j \in 1 .. Len(pool') : pool'[i] = pool'[j] => i = j
  BY DEF NewFor
<1>4. ASSUME NEW h \in Fd PROVE AgAt(st2, ag2, h)'
  <2>1. CASE h = g
    BY <1>2, <1>3, <2>1 DEF AgAt, HasStage, FwdStage, Awaited, Leaving, Meeting, Ending
  <2>2. CASE h # g
    <3>1. AgAt(st, ag, h) /\ ag2[h] = ag[h] /\ ag[h] \in Opt(Agent)
      BY <1>2, <2>2 DEF AgPart
    <3>2. ASSUME ag[h] # Nil PROVE ag[h] <= spawned'
      <4>1. ag[h] \in Nat /\ ag[h] <= spawned
        BY <1>1, <3>1, <3>2 DEF AgAt, Opt
      <4> QED BY <1>1, <1>3, <4>1
    <3>3. ag[h] # Nil => \A i \in 1 .. Len(pool') : pool'[i] # ag[h]
      BY <1>3, <3>1 DEF AgAt
    <3> QED BY <2>2, <3>1, <3>2, <3>3 DEF AgAt
  <2> QED BY <2>1, <2>2
<1>5. \A f, h \in Fd : ag2[f] = ag2[h] /\ ag2[f] # Nil => f = h
  BY <1>2, <1>3 DEF AgPart
<1>6. ASSUME NEW i \in 1 .. Len(pool') PROVE pool'[i] <= spawned'
  <2>1. PICK j \in 1 .. Len(pool) : pool'[i] = pool[j]
    BY <1>3
  <2>2. pool[j] \in Nat /\ pool[j] <= spawned
    BY <1>1 DEF AgPart
  <2> QED BY <1>1, <1>3, <2>1, <2>2
<1>7. AgPart(st2, ag2)'
  BY <1>3, <1>4, <1>5, <1>6 DEF AgPart
<1> QED BY <1>2, <1>7 DEF Ghosts

\* The first client of an account gets an agent.
LEMMA LoginFreshEx ==
    ASSUME IInv, IInv', NEW st, NEW ag, Explains(st, ag), LoginFresh
    PROVE  Explained'
<1>0. PICK c, f, account : /\ c = Cur(Gate) /\ f = SocketOf(c) /\ account = AccountOf[f]
  OBVIOUS
<1>00. PICK n, st2 : n = [c EXCEPT !.nfd = f, !.account = account]
                     /\ st2 = [st EXCEPT ![f] = "assign"]
  OBVIOUS
<1>1. /\ At(Gate, "auth") /\ online_account[account] = Nil /\ ForwardAgent(n)
      /\ sock' = sock /\ creq' = creq /\ nsent' = nsent /\ connection' = connection
      /\ forwarded' = forwarded /\ pending_msg' = pending_msg
      /\ online_account' = online_account /\ user' = user /\ cmds' = cmds
  BY <1>0, <1>00 DEF LoginFresh, sockVars, gateVars, agentVars
<1>2. Handles(Gate, c, "auth")
  BY <1>0, <1>1, Handling, ServiceOf DEF Explains
<1>3. f \in Fd /\ c \in Life(f) /\ c \in GoodMsg /\ st[f] = "auth" /\ c.at = "auth"
  BY <1>0, <1>2, OwnOf, ServiceOf DEF OpenLabel
<1>4. Ghosts(st, ag) /\ AgPart(st, ag) /\ st \in [Fd -> Stage] /\ ag \in [Fd -> Opt(Agent)]
  BY DEF Explains, Ghosts
<1>5. PICK a \in Agent : /\ Yield(Gate, [n EXCEPT !.at = "assign", !.callee = a])
                         /\ NewFor(a, ag)
  BY <1>1, <1>4, NewAgent
<1>6. PICK m, ag2 : m = [n EXCEPT !.at = "assign", !.callee = a] /\ ag2 = [ag EXCEPT ![f] = a]
  OBVIOUS
<1>7. /\ m.at = "assign" /\ m.callee = a /\ m.nfd = f /\ m.account = account /\ m.task = c.task
  BY <1>00, <1>3, <1>6 DEF GoodMsg, Msg
<1>8. c.task[1] = "data"
  BY <1>3 DEF GoodMsg, Vouched
<1>9. Moves({c}, {m}) /\ Placed'
  BY <1>0, <1>1, <1>5, <1>6, YieldGoes, ServiceOf DEF Explains, Goes
<1>10. ~ Later(m) /\ Subject(m) = f /\ StageOf(m) = "assign" /\ SocketOf(m) = f
  BY <1>0, <1>7 DEF Later, Subject, Opens, OpenLabel, StageOf, SocketOf
<1>11. /\ st2 \in [Fd -> Stage] /\ st2[f] = "assign" /\ \A h \in Fd \ {f} : st2[h] = st[h]
       /\ ag2 \in [Fd -> Opt(Agent)] /\ ag2[f] = a /\ \A h \in Fd \ {f} : ag2[h] = ag[h]
       /\ "assign" \in Stage
  BY <1>00, <1>3, <1>4, <1>6 DEF Stage, OpenStage, Awaited, Opt
\* No other socket of the account is here, since it has no record.
<1>12. ASSUME NEW g \in Fd, Same(f, g) PROVE ~ In(st[g])
  <2>1. Agree("auth", st[g])
    BY <1>3, <1>12 DEF Explains, PairPart
  <2>2. st[g] # "served"
    BY <1>0, <1>1, <1>12 DEF Explains, RecPart, RecStage, UseStage, Same
  <2> QED BY <2>1, <2>2 DEF Agree, In, Before, Entering, Leaving, Meeting, Ending, Asked, Awaited, Asking
<1>13. PairPart(st2)
  <2>1. \A g \in Fd : Same(f, g) => Agree("assign", st[g])
    BY <1>12 DEF Agree
  <2> QED BY <1>00, <1>3, <1>4, <1>11, <2>1, PairMove DEF Explains
<1>14. Apart(st, ag, st2, ag2, {f})
  BY <1>3, <1>11, <1>12 DEF Apart, In
<1>15. Recorded(st, {f})
  BY <1>1, RecordedSame
<1>16. Cleared({f}, {m})
  <2>1. {c} \cap Life(f) # {} /\ st[f] # "out"
    BY <1>3
  <2> QED BY <1>3, <1>9, <2>1, ClearedTake DEF Explains
<1>17. Fits(st2, ag2, m, f)'
  <2>1. Solo(st2, f)
    BY <1>11, <1>12 DEF Solo, Same
  <2>2. FitsAwaited(st2, ag2, m, f)
    BY <1>0, <1>7, <1>8, <1>10, <1>11, <2>1 DEF FitsAwaited
  <2> QED BY <1>3, <1>10, <1>11, <2>2 DEF Fits, FitsAwaited, Awaited, Asking, Asks, Leaving, Meeting, Ending
<1>18. \A k \in {m} : ~ Later(k) => Subject(k) \in {f} /\ Fits(st2, ag2, k, Subject(k))'
  <2>1. Subject(m)' = Subject(m)
    BY DEF Subject, Opens, SocketOf
  <2> QED BY <1>10, <1>17, <2>1
<1>19. Outside({f})
  BY <1>1 DEF Outside
<1>20. SockAt(st2[f], f)'
  <2>1. SockAt("auth", f)
    BY <1>3 DEF Explains, SockPart
  <2>2. SockAt("assign", f)'
    BY <1>1, <2>1 DEF SockAt, OpenStage, ShutStage, FwdStage, Entering, Asking, Asked, Awaited, Leaving, Meeting, Ending
  <2> QED BY <1>11, <2>2
<1>21. AgPart(st2, ag2)'
  <2>1. \A h \in Fd \ {f} : /\ st2[h] \in HasStage <=> st[h] \in HasStage
                            /\ st2[h] \in FwdStage <=> st[h] \in FwdStage
    BY <1>11
  <2> QED BY <1>1, <1>3, <1>4, <1>5, <1>6, <1>11, <2>1, AgGiven
<1>22. UserPart(st2, ag2)'
  <2>1. UserLike(st, ag, st2, ag2, {f})
    BY <1>3, <1>11 DEF UserLike, UseStage, Leaving, Meeting
  <2> QED BY <1>1, <1>11, <2>1, UserKept DEF Explains
<1>23. RecPart(st2, ag2)'
  <2>1. RecLike(st, ag, st2, ag2, {f})
    BY <1>0, <1>1, <1>3, <1>11 DEF RecLike, RecStage, UseStage, Leaving, Meeting
  <2> QED BY <1>1, <1>11, <2>1, RecKept DEF Explains
<1>24. FirstPart(st2)'
  <2>1. FirstLike(st, st2, {c}, {m})
    BY <1>3, <1>10, <1>11 DEF FirstLike, Life, Data
  <2> QED BY <1>9, <2>1, FirstKept DEF Explains
<1>25. KickPart(st2, ag2)'
  <2>1. BackLike(st, ag, st2, ag2, {c}, {m})
    BY <1>3, <1>10, <1>11 DEF BackLike, Life, Meeting
  <2>2. RetLike(st, st2, {c}, {m})
    BY <1>3, <1>10, <1>11 DEF RetLike, Life
  <2>3. LeaveLike(st, st2)
    BY <1>3, <1>11 DEF LeaveLike, Asked
  <2> QED BY <1>4, <1>9, <2>1, <2>2, <2>3, KickKept DEF Explains, KickLike
<1>26. Ghosts(st2, ag2)
  BY <1>11 DEF Ghosts
<1>27. \A h \in {f} : SockAt(st2[h], h)'
  BY <1>20
<1> QED BY <1>9, <1>13, <1>14, <1>15, <1>16, <1>18, <1>19, <1>21, <1>22, <1>23, <1>24, <1>25,
           <1>26, <1>27, Advance

\* login_handler marks the record it read: it is still the one of the account.
LEMMA KickDoneEx ==
    ASSUME IInv, IInv', NEW st, NEW ag, Explains(st, ag), KickDone
    PROVE  Explained'
<1>0. PICK c, f, account : /\ c = Cur(Gate) /\ f = SocketOf(c) /\ account = AccountOf[f]
  OBVIOUS
<1>00. PICK q, st2, N, info : /\ q = "waiting" /\ st2 = [st EXCEPT ![f] = q] /\ N = {}
                              /\ info = online_account[account]
  OBVIOUS
<1>1. /\ At(Gate, "kick_ret") /\ End(Gate)
      /\ online_account' = [online_account EXCEPT ![c.account] = Marked(@, c)]
      /\ sock' = sock /\ creq' = creq /\ nsent' = nsent /\ connection' = connection
      /\ forwarded' = forwarded /\ pending_msg' = pending_msg
      /\ UNCHANGED pool /\ UNCHANGED spawned /\ UNCHANGED user /\ UNCHANGED cmds
  BY <1>0 DEF KickDone, sockVars, gateVars, agentVars
<1>2. Handles(Gate, c, "kick_ret") /\ Moves({c}, N) /\ Placed'
  BY <1>0, <1>00, <1>1, EndStops, ServiceOf DEF Explains, Stops
<1>3. f \in Fd /\ c \in Life(f) /\ c \in GoodMsg /\ st[f] = "kick_ret" /\ Fits(st, ag, c, f)
  BY <1>0, <1>2, OwnOf, ServiceOf DEF OpenLabel
<1>4. st \in [Fd -> Stage] /\ Ghosts(st, ag) /\ q \in Stage
  BY <1>00 DEF Explains, Ghosts, Stage, OpenStage, Asked
<1>5. /\ st2 \in [Fd -> Stage] /\ st2[f] = q /\ st2[f] = "waiting"
      /\ \A h \in Fd \ {f} : st2[h] = st[h]
  BY <1>00, <1>3, <1>4
<1>6. Ghosts(st2, ag)
  BY <1>4, <1>5 DEF Ghosts
<1>7. FitsRec(c, f)
  BY <1>3 DEF Fits, Asks
<1>8. /\ c.nfd = f /\ c.account = account /\ info # Nil /\ c.rec = info.id
      /\ account \in Account /\ info \in Record
  <2>1. account \in Account
    BY <1>0, <1>3, FdAssumption
  <2> QED BY <1>0, <1>00, <1>7, <2>1 DEF FitsRec, IInv, GamedType, Opt
<1>9. PICK new : new = [info EXCEPT !.isKick = TRUE, !.fd = f]
  OBVIOUS
<1>10. /\ online_account'[account] = new /\ new.agent = info.agent /\ new.id = info.id
       /\ new.isKick /\ new.fd = f /\ new \in Record
       /\ \A b \in Account \ {account} : online_account'[b] = online_account[b]
  <2>1. Marked(info, c) = new
    BY <1>8, <1>9 DEF Marked
  <2>2. new \in Record /\ new.agent = info.agent /\ new.id = info.id /\ new.isKick /\ new.fd = f
    BY <1>3, <1>8, <1>9 DEF Record, Opt
  <2> QED BY <1>00, <1>1, <1>8, <2>1, <2>2 DEF IInv, GamedType
<1>11. new # Nil
  BY <1>10, NilAssumption
<1>12. \A g \in Fd : Same(f, g) => Agree("kick_ret", st[g])
  BY <1>3 DEF Explains, PairPart
<1>13. PairPart(st2)
  <2>1. \A g \in Fd : Same(f, g) => Agree(q, st[g])
    BY <1>00, <1>12 DEF Agree, Before, In, Awaited, Entering, Asking, Asked, Leaving, Meeting, Ending
  <2> QED BY <1>00, <1>3, <1>4, <2>1, PairMove DEF Explains
<1>14. Apart(st, ag, st2, ag, {f})
  BY <1>3, <1>5 DEF Apart, In
<1>15. Recorded(st, {f})
  BY <1>00, <1>8, <1>10, <1>11, FdAssumption DEF Recorded
<1>16. Cleared({f}, N)
  <2>1. {c} \cap Life(f) # {} /\ st[f] # "out"
    BY <1>3
  <2> QED BY <1>2, <1>3, <2>1, ClearedTake DEF Explains
<1>17. \A m \in N : ~ Later(m) => Subject(m) \in {f} /\ Fits(st2, ag, m, Subject(m))'
  BY <1>00
<1>18. Outside({f})
  BY <1>1 DEF Outside
<1>19. \A h \in {f} : SockAt(st2[h], h)'
  <2>1. SockAt("kick_ret", f)
    BY <1>3 DEF Explains, SockPart
  <2>2. SockAt("waiting", f)'
    BY <1>1, <2>1 DEF SockAt, OpenStage, ShutStage, FwdStage, Entering, Asking, Asked, Awaited, Leaving, Meeting, Ending
  <2> QED BY <1>5, <2>2
<1>20. AgPart(st2, ag)'
  <2>1. AgAt(st, ag, f)
    BY <1>3 DEF Explains, AgPart
  <2>2. AgAt(st2, ag, f)'
    BY <1>1, <1>3, <1>5, <2>1 DEF AgAt, HasStage, FwdStage, Awaited, Leaving, Meeting, Ending
  <2>3. AgLike(st2, ag, ag, {f})'
    BY <2>2 DEF AgLike
  <2> QED BY <1>1, <1>5, <1>18, <2>3, AgKept DEF Explains
<1>21. UserPart(st2, ag)'
  <2>1. UserLike(st, ag, st2, ag, {f})
    BY <1>3, <1>5 DEF UserLike, UseStage, Leaving, Meeting
  <2> QED BY <1>1, <1>5, <2>1, UserKept DEF Explains
<1>22. RecPart(st2, ag)'
  <2>0. RecPart(st, ag)
    BY DEF Explains
  <2>1. ASSUME NEW h \in Fd, st2[h] \in RecStage
        PROVE  /\ online_account[AccountOf[h]]' # Nil
               /\ online_account[AccountOf[h]]'.agent = ag[h]
    <3>1. h # f /\ st[h] \in RecStage
      BY <1>5, <2>1 DEF RecStage, UseStage, Leaving, Meeting
    <3>2. online_account[AccountOf[h]] # Nil /\ online_account[AccountOf[h]].agent = ag[h]
      BY <2>0, <3>1 DEF RecPart
    <3>3. AccountOf[h] \in Account
      BY FdAssumption
    <3> QED BY <1>00, <1>10, <1>11, <3>2, <3>3
  <2>2. ASSUME NEW b \in Account, online_account'[b] # Nil
        PROVE  \E h \in Fd : /\ AccountOf[h] = b /\ st2[h] # "recycle"
                             /\ ag[h] = online_account'[b].agent
    <3>1. online_account[b] # Nil /\ online_account'[b].agent = online_account[b].agent
      BY <1>00, <1>8, <1>10, <2>2
    <3>2. PICK h \in Fd : /\ AccountOf[h] = b /\ st[h] # "recycle"
                          /\ ag[h] = online_account[b].agent
      BY <2>0, <3>1 DEF RecPart
    <3>3. st2[h] # "recycle"
      BY <1>5, <3>2
    <3> QED BY <3>1, <3>2, <3>3
  <2>3. ASSUME NEW b \in Account, Kicked(online_account'[b])
        PROVE  /\ online_account'[b].fd \in Fd
               /\ AccountOf[online_account'[b].fd] = b
               /\ st2[online_account'[b].fd] \in {"waiting", "assign"}
    <3>1. CASE b = account
      BY <1>0, <1>3, <1>5, <1>10, <3>1
    <3>2. CASE b # account
      BY <1>3, <1>5, <1>10, <2>0, <2>3, <3>2 DEF RecPart
    <3> QED BY <3>1, <3>2
  <2>4. ASSUME NEW h \in Fd, st2[h] = "waiting"
        PROVE  /\ Kicked(online_account'[AccountOf[h]])
               /\ online_account'[AccountOf[h]].fd = h
    <3>1. CASE h = f
      BY <1>0, <1>10, <1>11, <3>1 DEF Kicked
    <3>2. CASE h # f
      <4>1. st[h] = "waiting" /\ AccountOf[h] \in Account
        BY <1>5, <2>4, <3>2, FdAssumption
      <4>2. ~ Same(f, h)
        BY <1>12, <4>1 DEF Agree, Before, In, Awaited, Entering, Asking, Asked, Leaving, Meeting, Ending
      <4>3. AccountOf[h] # account
        BY <1>0, <3>2, <4>2 DEF Same
      <4> QED BY <1>10, <2>0, <4>1, <4>3 DEF RecPart
    <3> QED BY <3>1, <3>2
  <2> QED BY <2>1, <2>2, <2>3, <2>4 DEF RecPart, Kicked
<1>23. FirstPart(st2)'
  <2>1. FirstLike(st, st2, {c}, N)
    BY <1>00, <1>3, <1>5 DEF FirstLike, Life
  <2> QED BY <1>2, <2>1, FirstKept DEF Explains
<1>24. KickPart(st2, ag)'
  <2>1. BackLike(st, ag, st2, ag, {c}, N)
    BY <1>00, <1>3, <1>5 DEF BackLike, Life, Meeting
  <2>2. RetLike(st, st2, {c}, N)
    BY <1>00, <1>3, <1>5 DEF RetLike, Life
  <2>3. LeaveLike(st, st2)
    BY <1>3, <1>5 DEF LeaveLike, Asked
  <2> QED BY <1>2, <2>1, <2>2, <2>3, KickKept DEF Explains, KickLike
<1> QED BY <1>2, <1>6, <1>13, <1>14, <1>15, <1>16, <1>17, <1>18, <1>19, <1>20, <1>21, <1>22,
           <1>23, <1>24, Advance

-----------------------------------------------------------------------------
(* An agent is opened.                                                     *)

\* What a coroutine that opens an agent for a socket knows.
LEMMA OpensOf ==
    ASSUME IInv, NEW st, NEW ag, Explains(st, ag), NEW s \in Service, NEW l,
           NEW c, Handles(s, c, l), l \in OpenLabel, NEW f, f = Subject(c)
    PROVE  /\ f \in Fd /\ ~ Later(c) /\ c \in Life(f) /\ c \in GoodMsg /\ c.nfd = f
           /\ c.at = l /\ Home(c) = s /\ st[f] = l
           /\ FitsAwaited(st, ag, c, f) /\ ag[f] \in Agent /\ c.callee = ag[f]
           /\ c.account = AccountOf[f]
           /\ \A g \in Fd : Same(f, g) /\ In(st[g]) => st[g] = "passing"
<1>1. c \in GoodMsg /\ c.at = l /\ Home(c) = s /\ StageOf(c) = l /\ l \in Awaited
  BY DEF Handles, StageOf, OpenLabel, Awaited
<1>2. ~ Later(c) /\ f = c.nfd
  BY <1>1, Places DEF OpenLabel
<1>3. f \in Fd /\ c \in Life(f) /\ Fits(st, ag, c, f) /\ st[f] = l
  <2>1. f \in Fd /\ c \in Life(f) /\ Fits(st, ag, c, f)
    BY <1>2, HandlesLife
  <2>2. l \notin {"MSG.close", "close_fd"}
    BY DEF OpenLabel
  <2> QED BY <1>1, <2>1, <2>2 DEF Fits
<1>4. FitsAwaited(st, ag, c, f)
  BY <1>1, <1>3 DEF Fits
<1>5. ag[f] \in Agent
  <2>1. ag[f] # Nil
    BY <1>1, <1>3 DEF Explains, AgPart, AgAt, HasStage
  <2> QED BY <1>3, <2>1 DEF Explains, Ghosts, Opt
<1>6. \A g \in Fd : Same(f, g) /\ In(st[g]) => st[g] = "passing"
  <2>1. \A g \in Fd : Same(f, g) => Agree(st[f], st[g])
    BY <1>3 DEF Explains, PairPart
  <2> QED BY <1>1, <1>3, <2>1 DEF Agree, Before, In, Awaited, Entering, Asking, Asked, Leaving, Meeting, Ending
<1> QED BY <1>1, <1>2, <1>3, <1>4, <1>5, <1>6 DEF FitsAwaited

\* What it knows when it goes on.
LEMMA AwaitedFits ==
    ASSUME IInv, NEW st, NEW ag, NEW c, NEW f \in Fd, FitsAwaited(st, ag, c, f),
           c \in GoodMsg, NEW st2, \A h \in Fd : h # f => st2[h] = st[h],
           NEW m, m.task = c.task, m.callee = c.callee, m.agent = c.agent,
           m.account = c.account, m.ret = "open_ret", StageOf(m) \in Awaited,
           st2[f] = StageOf(m)
    PROVE  Fits(st2, ag, m, f)'
<1>1. m.task[1] # "close" => Solo(st2, f)
  BY DEF FitsAwaited, Solo, Same
<1>2. SocketOf(c) \in Fd /\ SocketOf(m) = SocketOf(c)
  BY Places DEF SocketOf
<1>3. m.task[1] = "close" => st2[SocketOf(m)] = "passing"
  BY <1>2 DEF FitsAwaited, Same
<1>4. FitsAwaited(st2, ag, m, f)
  BY <1>1, <1>2, <1>3 DEF FitsAwaited, RetLabel
<1> QED BY <1>4 DEF Fits, FitsAwaited, Awaited, Asking, Asks, Leaving, Meeting, Ending

LEMMA AssignEx ==
    ASSUME IInv, IInv', NEW st, NEW ag, Explains(st, ag), Assign
    PROVE  Explained'
<1>0. PICK c, f, account : /\ c = Cur(Gate) /\ f = Subject(c) /\ account = AccountOf[f]
  OBVIOUS
<1>00. PICK q, st2, new, m :
        /\ q = "agent_open" /\ st2 = [st EXCEPT ![f] = q]
        /\ new = [agent |-> c.callee, isKick |-> FALSE, fd |-> Nil, id |-> c.task]
        /\ m = [c EXCEPT !.at = "agent_open", !.ret = "open_ret"]
  OBVIOUS
<1>1. /\ At(Gate, "assign") /\ Send(Gate, c.callee, m)
      /\ online_account' = [online_account EXCEPT ![c.account] = new]
      /\ sock' = sock /\ creq' = creq /\ nsent' = nsent /\ connection' = connection
      /\ forwarded' = forwarded /\ pending_msg' = pending_msg
      /\ UNCHANGED pool /\ UNCHANGED spawned /\ UNCHANGED user /\ UNCHANGED cmds
  BY <1>0, <1>00 DEF Assign, sockVars, gateVars, agentVars
<1>2. Handles(Gate, c, "assign")
  BY <1>0, <1>1, Handling, ServiceOf DEF Explains
<1>3. /\ f \in Fd /\ c \in Life(f) /\ c \in GoodMsg /\ c.nfd = f /\ c.at = "assign"
      /\ st[f] = "assign" /\ FitsAwaited(st, ag, c, f) /\ ag[f] \in Agent /\ c.callee = ag[f]
      /\ c.account = account
      /\ \A g \in Fd : Same(f, g) /\ In(st[g]) => st[g] = "passing"
  <2>1. "assign" \in OpenLabel
    BY DEF OpenLabel
  <2> QED BY <1>0, <1>2, <2>1, OpensOf, ServiceOf
<1>4. st \in [Fd -> Stage] /\ Ghosts(st, ag) /\ q \in Stage
  BY <1>00 DEF Explains, Ghosts, Stage, OpenStage, Awaited
<1>5. /\ st2 \in [Fd -> Stage] /\ st2[f] = q /\ st2[f] = "agent_open"
      /\ \A h \in Fd \ {f} : st2[h] = st[h]
  BY <1>00, <1>3, <1>4
<1>6. Ghosts(st2, ag)
  BY <1>4, <1>5 DEF Ghosts
<1>7. /\ m.at = "agent_open" /\ m.ret = "open_ret" /\ m.task = c.task /\ m.callee = c.callee
      /\ m.nfd = f /\ m.account = c.account /\ m.agent = c.agent
  BY <1>00, <1>3 DEF GoodMsg, Msg
<1>8. ~ Later(m) /\ Subject(m) = f /\ StageOf(m) = "agent_open" /\ Home(m) = c.callee
  BY <1>7 DEF Later, Subject, Opens, OpenLabel, StageOf, Home, AgentLabel
<1>9. Moves({c}, {m}) /\ Placed'
  <2>1. Goes(Gate, "assign", m)
    BY <1>1, <1>3, <1>8, SendGoes, ServiceOf DEF Explains
  <2> QED BY <1>0, <2>1 DEF Goes
<1>10. /\ account \in Account /\ online_account'[account] = new /\ new.agent = ag[f]
       /\ ~ new.isKick /\ new # Nil
       /\ \A b \in Account \ {account} : online_account'[b] = online_account[b]
  <2>1. account \in Account
    BY <1>0, <1>3, FdAssumption
  <2>2. new \in Record
    BY <1>00, <1>3 DEF Record, Opt, GoodMsg, Msg
  <2>3. new # Nil /\ new.agent = ag[f] /\ ~ new.isKick
    BY <1>00, <1>3, <2>2, NilAssumption
  <2> QED BY <1>1, <1>3, <2>1, <2>3 DEF IInv, GamedType
<1>11. \A h \in Fd \ {f} : AccountOf[h] = account /\ In(st[h]) => st[h] = "passing"
  BY <1>0, <1>3 DEF Same
<1>13. PairPart(st2)
  <2>1. \A g \in Fd : Same(f, g) => Agree(q, st[g])
    BY <1>00, <1>3 DEF Agree, Before, Awaited
  <2> QED BY <1>00, <1>3, <1>4, <2>1, PairMove DEF Explains
<1>14. Apart(st, ag, st2, ag, {f})
  BY <1>3, <1>5 DEF Apart, In
<1>15. Recorded(st, {f})
  <2>1. ASSUME NEW h \in Fd \ {f}, Asks(st[h]) PROVE AccountOf[h] # account
    BY <1>11, <2>1 DEF Asks, Asking, In
  <2> QED BY <1>10, <2>1, FdAssumption DEF Recorded
<1>16. Cleared({f}, {m})
  <2>1. {c} \cap Life(f) # {} /\ st[f] # "out"
    BY <1>3
  <2> QED BY <1>3, <1>9, <2>1, ClearedTake DEF Explains
<1>17. Fits(st2, ag, m, f)'
  <2>1. StageOf(m) \in Awaited
    BY <1>8 DEF Awaited
  <2> QED BY <1>3, <1>5, <1>7, <1>8, <2>1, AwaitedFits
<1>18. \A k \in {m} : ~ Later(k) => Subject(k) \in {f} /\ Fits(st2, ag, k, Subject(k))'
  <2>1. Subject(m)' = Subject(m)
    BY DEF Subject, Opens, SocketOf
  <2> QED BY <1>8, <1>17, <2>1
<1>19. Outside({f})
  BY <1>1 DEF Outside
<1>20. \A h \in {f} : SockAt(st2[h], h)'
  <2>1. SockAt("assign", f)
    BY <1>3 DEF Explains, SockPart
  <2>2. SockAt("agent_open", f)'
    BY <1>1, <2>1 DEF SockAt, OpenStage, ShutStage, FwdStage, Entering, Asking, Asked, Awaited, Leaving, Meeting, Ending
  <2> QED BY <1>5, <2>2
<1>21. AgPart(st2, ag)'
  <2>1. AgAt(st, ag, f)
    BY <1>3 DEF Explains, AgPart
  <2>2. AgAt(st2, ag, f)'
    BY <1>1, <1>3, <1>5, <2>1 DEF AgAt, HasStage, FwdStage, Awaited, Leaving, Meeting, Ending
  <2>3. AgLike(st2, ag, ag, {f})'
    BY <2>2 DEF AgLike
  <2> QED BY <1>1, <1>5, <1>19, <2>3, AgKept DEF Explains
<1>22. UserPart(st2, ag)'
  <2>1. UserLike(st, ag, st2, ag, {f})
    BY <1>3, <1>5 DEF UserLike, UseStage, Leaving, Meeting
  <2> QED BY <1>1, <1>5, <2>1, UserKept DEF Explains
<1>23. RecPart(st2, ag)'
  <2>0. RecPart(st, ag)
    BY DEF Explains
  <2>1. ASSUME NEW h \in Fd, st2[h] \in RecStage
        PROVE  /\ online_account'[AccountOf[h]] # Nil
               /\ online_account'[AccountOf[h]].agent = ag[h]
    <3>1. CASE h = f
      BY <1>0, <1>10, <3>1
    <3>2. CASE h # f
      <4>1. st[h] \in RecStage /\ AccountOf[h] \in Account
        BY <1>5, <2>1, <3>2, FdAssumption
      <4>2. AccountOf[h] # account
        BY <1>11, <3>2, <4>1 DEF In, RecStage, UseStage, Leaving, Meeting
      <4> QED BY <1>10, <2>0, <4>1, <4>2 DEF RecPart
    <3> QED BY <3>1, <3>2
  <2>2. ASSUME NEW b \in Account, online_account'[b] # Nil
        PROVE  \E h \in Fd : /\ AccountOf[h] = b /\ st2[h] # "recycle"
                             /\ ag[h] = online_account'[b].agent
    <3>1. CASE b = account
      BY <1>0, <1>3, <1>5, <1>10, <3>1
    <3>2. CASE b # account
      <4>1. PICK h \in Fd : /\ AccountOf[h] = b /\ st[h] # "recycle"
                            /\ ag[h] = online_account[b].agent
        BY <1>10, <2>0, <2>2, <3>2 DEF RecPart
      <4>2. st2[h] # "recycle"
        BY <1>5, <4>1
      <4> QED BY <1>10, <3>2, <4>1, <4>2
    <3> QED BY <3>1, <3>2
  <2>3. ASSUME NEW b \in Account, Kicked(online_account'[b])
        PROVE  /\ online_account'[b].fd \in Fd
               /\ AccountOf[online_account'[b].fd] = b
               /\ st2[online_account'[b].fd] \in {"waiting", "assign"}
    <3>1. b # account
      BY <1>10, <2>3 DEF Kicked
    <3>2. online_account'[b].fd # f
      BY <1>0, <1>10, <2>0, <2>3, <3>1 DEF RecPart
    <3> QED BY <1>5, <1>10, <2>0, <2>3, <3>1, <3>2 DEF RecPart
  <2>4. ASSUME NEW h \in Fd, st2[h] = "waiting"
        PROVE  /\ Kicked(online_account'[AccountOf[h]])
               /\ online_account'[AccountOf[h]].fd = h
    <3>1. h # f /\ st[h] = "waiting" /\ AccountOf[h] \in Account
      BY <1>5, <2>4, FdAssumption
    <3>2. AccountOf[h] # account
      BY <1>11, <3>1 DEF In
    <3> QED BY <1>10, <2>0, <3>1, <3>2 DEF RecPart
  <2> QED BY <2>1, <2>2, <2>3, <2>4 DEF RecPart, Kicked
<1>24. FirstPart(st2)'
  <2>1. FirstLike(st, st2, {c}, {m})
    BY <1>3, <1>5, <1>8 DEF FirstLike, Life, Data
  <2> QED BY <1>9, <2>1, FirstKept DEF Explains
<1>25. KickPart(st2, ag)'
  <2>1. BackLike(st, ag, st2, ag, {c}, {m})
    BY <1>3, <1>5, <1>8 DEF BackLike, Life, Meeting
  <2>2. RetLike(st, st2, {c}, {m})
    BY <1>3, <1>5, <1>8 DEF RetLike, Life
  <2>3. LeaveLike(st, st2)
    BY <1>3, <1>5 DEF LeaveLike, Asked
  <2> QED BY <1>9, <2>1, <2>2, <2>3, KickKept DEF Explains, KickLike
<1> QED BY <1>6, <1>9, <1>13, <1>14, <1>15, <1>16, <1>18, <1>19, <1>20, <1>21, <1>22,
           <1>23, <1>24, <1>25, Advance

\* The login of a client whose frames wait ends in the dispatch of the first.
LEMMA PendingHangEx ==
    ASSUME IInv, IInv', NEW st, NEW ag, Explains(st, ag), PendingHang
    PROVE  Explained'
<1>0. PICK c, f : c = Cur(Gate) /\ f = Subject(c)
  OBVIOUS
<1>00. PICK q, st2, d :
        /\ q = "hung" /\ st2 = [st EXCEPT ![f] = q]
        /\ d = [Event("my_dispatch", <<"data", f, Head(pending_msg[f])>>)
                    EXCEPT !.callee = c.callee]
  OBVIOUS
<1>1. At(Gate, "open_ret")
  BY DEF PendingHang
<1>2. Handles(Gate, c, "open_ret")
  BY <1>0, <1>1, Handling, ServiceOf DEF Explains
<1>3. /\ f \in Fd /\ ~ Later(c) /\ c \in Life(f) /\ c \in GoodMsg /\ c.nfd = f
      /\ st[f] = "open_ret" /\ ag[f] \in Agent /\ c.callee = ag[f]
      /\ \A g \in Fd : Same(f, g) /\ In(st[g]) => st[g] = "passing"
  <2>1. "open_ret" \in OpenLabel
    BY DEF OpenLabel
  <2> QED BY <1>0, <1>2, <2>1, OpensOf, ServiceOf
<1>4. /\ Send(Gate, ag[f], d) /\ pending_msg[f] # Nil /\ pending_msg[f] # << >>
      /\ sock' = sock /\ creq' = creq /\ nsent' = nsent /\ connection' = connection
      /\ forwarded' = forwarded /\ pending_msg' = pending_msg
      /\ UNCHANGED pool /\ UNCHANGED spawned /\ UNCHANGED online_account
      /\ UNCHANGED user /\ UNCHANGED cmds
  BY <1>0, <1>00, <1>3 DEF PendingHang, sockVars, gateVars, gamedVars, agentVars
<1>5. SockAt("open_ret", f)
  BY <1>3 DEF Explains, SockPart
<1>6. Head(pending_msg[f]) > 1
  <2>1. pending_msg[f] \in Seq(Nth)
    BY <1>3, <1>4 DEF IInv, GateType, Opt
  <2>2. Head(pending_msg[f]) = pending_msg[f][1] /\ 1 \in 1 .. Len(pending_msg[f])
    BY <1>4, <2>1
  <2> QED BY <1>4, <1>5, <2>2 DEF SockAt
<1>7. /\ d.at = "my_dispatch" /\ d.callee = ag[f]
      /\ d.task = <<"data", f, Head(pending_msg[f])>>
  BY <1>00, <1>3 DEF Event
<1>8. Later(d) /\ Home(d) = ag[f] /\ (d \in GoodMsg => d \in Data(f))
  BY <1>6, <1>7 DEF Later, Home, AgentLabel, Data, SocketOf
<1>9. Moves({c}, {d}) /\ Placed' /\ Later(d) /\ d \in Data(f)
  <2>1. Home(d) = ag[f]
    BY <1>7 DEF Home, AgentLabel
  <2>2. Goes(Gate, "open_ret", d)
    BY <1>1, <1>3, <1>4, <2>1, SendGoes, ServiceOf DEF Explains
  <2> QED BY <1>0, <1>8, <2>2 DEF Goes
<1>10. /\ st \in [Fd -> Stage] /\ q \in Stage /\ st2[f] = q /\ st2[f] = "hung"
       /\ \A h \in Fd : h # f => st2[h] = st[h]
  BY <1>00, <1>3 DEF Explains, Ghosts, Stage, OpenStage
<1>11. \A g \in Fd : Same(f, g) => Agree(q, st[g])
  BY <1>00, <1>3 DEF Agree, Before
<1>12. \A g \in Fd : Same(f, g) =>
         /\ st[g] \in Awaited => st[f] # "passing" /\ (In(q) => In(st[f]))
         /\ st[g] \in Asking => st[f] # "served"
  BY <1>3 DEF In
<1>13. Cleared({f}, {d})
  <2>1. {c} \cap Life(f) # {} /\ st[f] # "out"
    BY <1>3
  <2> QED BY <1>3, <1>9, <2>1, ClearedTake DEF Explains
<1>14. \A m \in {d} : ~ Later(m) => Subject(m) = f /\ Fits(st2, ag, m, f)'
  BY <1>9
<1>15. Outside({f})
  BY <1>4 DEF Outside
<1>16. SockAt(q, f)'
  BY <1>00, <1>4, <1>5 DEF SockAt, OpenStage, ShutStage, FwdStage, Entering, Asking, Asked, Awaited, Leaving, Meeting, Ending
<1>17. AgAt(st2, ag, f)'
  <2>1. AgAt(st, ag, f)
    BY <1>3 DEF Explains, AgPart
  <2> QED BY <1>3, <1>4, <1>10, <2>1 DEF AgAt, HasStage, FwdStage, Awaited, Leaving, Meeting, Ending
<1>18. UserLike(st, ag, st2, ag, {f})
  BY <1>3, <1>10 DEF UserLike, UseStage, Leaving, Meeting
<1>19. RecLike(st, ag, st2, ag, {f})
  BY <1>3, <1>10 DEF RecLike, RecStage, UseStage, Leaving, Meeting
<1>20. FirstPart(st2)'
  <2>1. {d} \cap Data(f) # {} => \A h \in Fd : h # f => {d} \cap Data(h) = {}
    BY <1>9 DEF Data
  <2>2. FirstLike(st, st2, {c}, {d})
    BY <1>3, <1>9, <1>10, <2>1 DEF FirstLike, Life, Data
  <2> QED BY <1>9, <2>2, FirstKept DEF Explains
<1>21. KickPart(st2, ag)'
  <2>1. BackLike(st, ag, st2, ag, {c}, {d})
    BY <1>3, <1>9, <1>10 DEF BackLike, Life, Meeting
  <2>2. RetLike(st, st2, {c}, {d})
    BY <1>3, <1>9, <1>10 DEF RetLike, Life
  <2>3. LeaveLike(st, st2)
    BY <1>3, <1>10 DEF LeaveLike, Asked
  <2> QED BY <1>9, <2>1, <2>2, <2>3, KickKept DEF Explains, KickLike
<1>22. /\ f \in Fd /\ q \in Stage /\ st2 = [st EXCEPT ![f] = q] /\ Moves({c}, {d}) /\ Placed'
       /\ UNCHANGED pool /\ UNCHANGED spawned /\ UNCHANGED online_account
       /\ UNCHANGED user /\ UNCHANGED cmds
  BY <1>00, <1>3, <1>4, <1>9, <1>10
<1> QED BY <1>11, <1>12, <1>13, <1>14, <1>15, <1>16, <1>17,
           <1>18, <1>19, <1>20, <1>21, <1>22, AdvanceOne

\* What gateserver.forward does for a socket.
LEMMA ForwardOf ==
    ASSUME IInv, NEW st, NEW ag, Explains(st, ag), Forward,
           NEW c, c = Cur(Gate), NEW f, f = Subject(c)
    PROVE  /\ Handles(Gate, c, "open_ret") /\ f \in Fd /\ c \in Life(f) /\ c \in GoodMsg
           /\ st[f] = "open_ret" /\ c.at = "open_ret"
           /\ FitsAwaited(st, ag, c, f) /\ ag[f] \in Agent
           /\ \A g \in Fd : Same(f, g) /\ In(st[g]) => st[g] = "passing"
           /\ Outside({f}) /\ SockAt("served", f)' /\ forwarded'[f] = ag[f]
           /\ \A h \in Fd \ {f} : forwarded'[h] = forwarded[h]
           /\ UNCHANGED pool /\ UNCHANGED spawned /\ UNCHANGED online_account
           /\ UNCHANGED user /\ UNCHANGED cmds
<1>1. Handles(Gate, c, "open_ret") /\ At(Gate, "open_ret")
  <2>1. At(Gate, "open_ret")
    BY DEF Forward
  <2> QED BY <2>1, Handling, ServiceOf DEF Explains
<1>2. /\ f \in Fd /\ c \in Life(f) /\ c \in GoodMsg /\ c.nfd = f /\ c.at = "open_ret"
      /\ st[f] = "open_ret" /\ ag[f] \in Agent /\ c.callee = ag[f]
      /\ FitsAwaited(st, ag, c, f)
      /\ \A g \in Fd : Same(f, g) /\ In(st[g]) => st[g] = "passing"
  <2>1. "open_ret" \in OpenLabel
    BY DEF OpenLabel
  <2> QED BY <1>1, <2>1, OpensOf, ServiceOf
<1>3. SockAt("open_ret", f) /\ f \in connection
  <2>1. SockAt("open_ret", f)
    BY <1>2 DEF Explains, SockPart
  <2> QED BY <1>2, <2>1 DEF SockAt
<1>4. /\ pending_msg' = [pending_msg EXCEPT ![f] = Nil]
      /\ forwarded' = [forwarded EXCEPT ![f] = ag[f]]
      /\ sock' = sock /\ creq' = creq /\ nsent' = nsent /\ connection' = connection
      /\ UNCHANGED pool /\ UNCHANGED spawned /\ UNCHANGED online_account
      /\ UNCHANGED user /\ UNCHANGED cmds
  BY <1>2, <1>3 DEF Forward, sockVars, gamedVars, agentVars
<1>5. /\ pending_msg'[f] = Nil /\ forwarded'[f] = ag[f] /\ ag[f] # Nil
      /\ \A h \in Fd \ {f} : pending_msg'[h] = pending_msg[h] /\ forwarded'[h] = forwarded[h]
  BY <1>2, <1>4, NilAssumption DEF IInv, GateType
<1>6. Outside({f})
  BY <1>4, <1>5 DEF Outside
<1>7. SockAt("served", f)'
  BY <1>3, <1>4, <1>5 DEF SockAt, OpenStage, ShutStage, FwdStage, Entering, Asking, Asked, Awaited, Leaving, Meeting, Ending
<1> QED BY <1>1, <1>2, <1>4, <1>5, <1>6, <1>7

\* The login of a client is over.
LEMMA ForwardEndEx ==
    ASSUME IInv, IInv', NEW st, NEW ag, Explains(st, ag), Forward,
           Cur(Gate).task[1] # "close"
    PROVE  Explained'
<1>0. PICK c, f : c = Cur(Gate) /\ f = Subject(c)
  OBVIOUS
<1>00. PICK q, st2, N : q = "served" /\ st2 = [st EXCEPT ![f] = q] /\ N = {}
  OBVIOUS
<1>1. /\ Handles(Gate, c, "open_ret") /\ f \in Fd /\ c \in Life(f) /\ c \in GoodMsg
      /\ st[f] = "open_ret" /\ FitsAwaited(st, ag, c, f) /\ ag[f] \in Agent
      /\ Outside({f}) /\ SockAt("served", f)' /\ forwarded'[f] = ag[f]
      /\ UNCHANGED pool /\ UNCHANGED spawned /\ UNCHANGED online_account
      /\ UNCHANGED user /\ UNCHANGED cmds
  BY <1>0, ForwardOf
<1>2. \A g \in Fd : Same(f, g) => ~ In(st[g])
  BY <1>0, <1>1 DEF FitsAwaited, Solo
<1>3. Moves({c}, N) /\ Placed'
  <2>1. At(Gate, "open_ret") /\ End(Gate)
    BY <1>0 DEF Forward
  <2> QED BY <1>0, <1>00, <2>1, EndStops, ServiceOf DEF Explains, Stops
<1>4. /\ st \in [Fd -> Stage] /\ q \in Stage /\ st2[f] = q /\ st2[f] = "served"
      /\ \A h \in Fd : h # f => st2[h] = st[h]
  BY <1>00, <1>1 DEF Explains, Ghosts, Stage, OpenStage
<1>5. \A g \in Fd : Same(f, g) => Agree(q, st[g])
  BY <1>2 DEF Agree
<1>6. \A g \in Fd : Same(f, g) =>
         /\ st[g] \in Awaited => st[f] # "passing" /\ (In(q) => In(st[f]))
         /\ st[g] \in Asking => st[f] # "served"
  BY <1>1 DEF In
<1>7. Cleared({f}, N)
  <2>1. {c} \cap Life(f) # {} /\ st[f] # "out"
    BY <1>1
  <2> QED BY <1>1, <1>3, <2>1, ClearedTake DEF Explains
<1>8. \A m \in N : ~ Later(m) => Subject(m) = f /\ Fits(st2, ag, m, f)'
  BY <1>00
<1>9. SockAt(q, f)'
  BY <1>00, <1>1
<1>10. AgAt(st2, ag, f)'
  <2>1. AgAt(st, ag, f)
    BY <1>1 DEF Explains, AgPart
  <2> QED BY <1>1, <1>4, <2>1 DEF AgAt, HasStage, FwdStage, Awaited, Leaving, Meeting, Ending
<1>11. UserLike(st, ag, st2, ag, {f})
  BY <1>1, <1>4 DEF UserLike, UseStage, Leaving, Meeting
<1>12. RecLike(st, ag, st2, ag, {f})
  BY <1>1, <1>4 DEF RecLike, RecStage, UseStage, Leaving, Meeting
<1>13. FirstPart(st2)'
  <2>1. FirstLike(st, st2, {c}, N)
    BY <1>00, <1>1, <1>4 DEF FirstLike, Life
  <2> QED BY <1>3, <2>1, FirstKept DEF Explains
<1>14. KickPart(st2, ag)'
  <2>1. BackLike(st, ag, st2, ag, {c}, N)
    BY <1>00, <1>1, <1>4 DEF BackLike, Life, Meeting
  <2>2. RetLike(st, st2, {c}, N)
    BY <1>00, <1>1, <1>4 DEF RetLike, Life
  <2>3. LeaveLike(st, st2)
    BY <1>1, <1>4 DEF LeaveLike, Asked
  <2> QED BY <1>3, <2>1, <2>2, <2>3, KickKept DEF Explains, KickLike
<1>15. f \in Fd /\ q \in Stage /\ st2 = [st EXCEPT ![f] = q]
  BY <1>00, <1>1, <1>4
<1> QED BY <1>1, <1>3, <1>5, <1>6, <1>7, <1>8, <1>9, <1>10, <1>11, <1>12, <1>13, <1>14,
           <1>15, AdvanceOne

\* Two sockets of an account that have it for themselves.
LEMMA PairTwo ==
    ASSUME NEW st, NEW st2, PairPart(st), NEW f \in Fd, NEW e \in Fd, Same(e, f),
           \A h \in Fd \ {f, e} : st2[h] = st[h],
           Agree(st2[e], st2[f]),
           \A h \in Fd \ {f, e} : Same(f, h) => ~ In(st[h])
    PROVE  PairPart(st2)
<1> SUFFICES ASSUME NEW x \in Fd, NEW y \in Fd, Same(x, y) PROVE Agree(st2[x], st2[y])
  BY DEF PairPart
<1>1. CASE x \notin {f, e} /\ y \notin {f, e}
  BY <1>1 DEF PairPart
<1>2. CASE x \in {f, e} /\ y \in {f, e}
  BY <1>2 DEF Agree, Same
<1>3. CASE x \in {f, e} /\ y \notin {f, e}
  <2>1. Same(f, y)
    BY <1>3 DEF Same
  <2> QED BY <1>3, <2>1 DEF Agree
<1>4. CASE x \notin {f, e} /\ y \in {f, e}
  <2>1. Same(f, x)
    BY <1>4 DEF Same
  <2> QED BY <1>4, <2>1 DEF Agree
<1> QED BY <1>1, <1>2, <1>3, <1>4

\* The login of a client is over, and the agent of the one before it is given
\* back.
LEMMA ForwardOnEx ==
    ASSUME IInv, IInv', NEW st, NEW ag, Explains(st, ag), Forward,
           Cur(Gate).task[1] = "close"
    PROVE  Explained'
<1>0. PICK c, f, e, m : /\ c = Cur(Gate) /\ f = Subject(c) /\ e = SocketOf(c)
                        /\ m = [c EXCEPT !.at = "recycle"]
  OBVIOUS
<1>00. PICK st2 : st2 = [st EXCEPT ![f] = "served", ![e] = "recycle"]
  OBVIOUS
<1>1. /\ Handles(Gate, c, "open_ret") /\ f \in Fd /\ c \in Life(f) /\ c \in GoodMsg
      /\ st[f] = "open_ret" /\ FitsAwaited(st, ag, c, f) /\ ag[f] \in Agent
      /\ Outside({f}) /\ SockAt("served", f)' /\ forwarded'[f] = ag[f]
      /\ UNCHANGED pool /\ UNCHANGED spawned /\ UNCHANGED online_account
      /\ UNCHANGED user /\ UNCHANGED cmds
  BY <1>0, ForwardOf
<1>10. ASSUME NEW g \in Fd, Same(f, g), In(st[g]) PROVE st[g] = "passing"
  <2>1. Agree("open_ret", st[g])
    BY <1>1, <1>10 DEF Explains, PairPart
  <2> QED BY <1>10, <2>1 DEF Agree, Before, Awaited, Entering, Asking, Asked, Leaving, Meeting, Ending, In
<1>2. /\ Same(e, f) /\ st[e] = "passing" /\ c.agent = ag[e] /\ e \in Fd /\ e # f
  <2>1. e \in Fd
    BY <1>0, <1>1, Places
  <2> QED BY <1>0, <1>1, <2>1 DEF FitsAwaited, Same
<1>3. \A h \in Fd \ {f, e} : Same(f, h) => ~ In(st[h])
  <2> SUFFICES ASSUME NEW h \in Fd \ {f, e}, Same(f, h), In(st[h]) PROVE FALSE
    OBVIOUS
  <2>1. st[h] = "passing" /\ Same(e, h)
    BY <1>2, <1>10 DEF Same
  <2>2. Agree("passing", "passing")
    BY <1>2, <2>1 DEF Explains, PairPart
  <2> QED BY <2>2 DEF Agree, Before, In, Awaited, Leaving, Meeting, Ending
<1>4. /\ m.at = "recycle" /\ m.task = c.task /\ m.agent = c.agent
  BY <1>0, <1>1, Moved DEF Keeps
<1>5. ~ Later(m) /\ Subject(m) = e /\ StageOf(m) = "recycle" /\ m.task[1] = "close"
  BY <1>0, <1>4 DEF Later, Subject, Opens, OpenLabel, SocketOf, StageOf
<1>6. Moves({c}, {m}) /\ Placed'
  <2>1. At(Gate, "open_ret") /\ Yield(Gate, m)
    BY <1>0 DEF Forward
  <2> QED BY <1>0, <2>1, YieldGoes, ServiceOf DEF Explains, Goes
<1>7. Ghosts(st, ag) /\ AgPart(st, ag) /\ st \in [Fd -> Stage] /\ "served" \in Stage /\ "recycle" \in Stage
  BY DEF Explains, Ghosts, Stage, OpenStage, FwdStage, Ending
<1>8. /\ st2 \in [Fd -> Stage] /\ st2[f] = "served" /\ st2[e] = "recycle"
      /\ \A h \in Fd \ {f, e} : st2[h] = st[h]
  BY <1>00, <1>1, <1>2, <1>7
<1>9. Ghosts(st2, ag)
  BY <1>7, <1>8 DEF Ghosts
<1>11. ag[e] # ag[f]
  BY <1>1, <1>2, <1>7, NilAssumption DEF AgPart
<1>13. PairPart(st2)
  <2>1. Agree(st2[e], st2[f])
    BY <1>8 DEF Agree, Before, Ending
  <2> QED BY <1>1, <1>2, <1>3, <1>8, <2>1, PairTwo DEF Explains
<1>14. Apart(st, ag, st2, ag, {f, e})
  <2>1. ASSUME NEW h \in Fd \ {f, e}, Same(f, h) \/ Same(e, h)
        PROVE  st[h] \notin Awaited \cup Asking
    <3>1. ~ In(st[h])
      BY <1>2, <1>3, <2>1 DEF Same
    <3> QED BY <3>1 DEF In, Awaited, Asking
  <2> QED BY <1>1, <1>2, <1>8, <2>1 DEF Apart
<1>15. Recorded(st, {f, e})
  BY <1>1, RecordedSame
<1>16. Cleared({f, e}, {m})
  <2>1. {c} \cap Life(f) # {} /\ st[f] # "out"
    BY <1>1
  <2>2. Cleared({f}, {m})
    BY <1>1, <1>6, <2>1, ClearedTake DEF Explains
  <2>3. Cleared({e}, {m})
    BY <1>2, <1>6, ClearedQuiet DEF Explains, Quiet
  <2> QED BY <2>2, <2>3, ClearedTwo
<1>17. Fits(st2, ag, m, e)'
  <2>1. FitsLeaving(ag, m, e)
    BY <1>2, <1>4, <1>5 DEF FitsLeaving
  <2> QED BY <1>2, <1>5, <1>8, <2>1 DEF Fits, FitsLeaving, Awaited, Asking, Asks, Leaving, Meeting, Ending
<1>18. \A k \in {m} : ~ Later(k) => Subject(k) \in {f, e} /\ Fits(st2, ag, k, Subject(k))'
  <2>1. Subject(m)' = Subject(m)
    BY DEF Subject, Opens, SocketOf
  <2> QED BY <1>5, <1>17, <2>1
<1>19. Outside({f, e})
  BY <1>1 DEF Outside
<1>20. \A h \in {f, e} : SockAt(st2[h], h)'
  <2>1. SockAt("passing", e)
    BY <1>2 DEF Explains, SockPart
  <2>2. /\ sock'[e] = sock[e] /\ creq'[e] = creq[e] /\ nsent'[e] = nsent[e]
        /\ e \in connection' <=> e \in connection
        /\ forwarded'[e] = forwarded[e] /\ pending_msg'[e] = pending_msg[e]
    BY <1>1, <1>2 DEF Outside
  <2>3. SockAt("recycle", e)'
    BY <2>1, <2>2 DEF SockAt, OpenStage, ShutStage, FwdStage, Entering, Asking, Asked, Awaited, Leaving, Meeting, Ending
  <2> QED BY <1>1, <1>8, <2>3
<1>21. AgPart(st2, ag)'
  <2>1. AgAt(st, ag, f) /\ AgAt(st, ag, e)
    BY <1>1, <1>2, <1>7 DEF AgPart
  <2>2. AgAt(st2, ag, f)'
    BY <1>1, <1>8, <2>1 DEF AgAt, HasStage, FwdStage, Awaited, Leaving, Meeting, Ending
  <2>3. forwarded'[e] = forwarded[e]
    BY <1>1, <1>2 DEF Outside
  <2>4. AgAt(st2, ag, e)'
    BY <1>1, <1>2, <1>8, <2>1, <2>3 DEF AgAt, HasStage, FwdStage, Awaited, Leaving, Meeting, Ending
  <2>5. AgLike(st2, ag, ag, {f, e})'
    BY <2>2, <2>4 DEF AgLike
  <2> QED BY <1>1, <1>7, <1>8, <1>19, <2>5, AgKept
<1>22. UserPart(st2, ag)'
  <2>1. UserLike(st, ag, st2, ag, {f, e})
    BY <1>1, <1>2, <1>8 DEF UserLike, UseStage, Leaving, Meeting
  <2> QED BY <1>1, <1>8, <2>1, UserKept DEF Explains
<1>23. RecPart(st2, ag)'
  <2>1. online_account[AccountOf[f]].agent = ag[f]
    BY <1>1 DEF Explains, RecPart, RecStage, UseStage
  <2>2. AccountOf[e] = AccountOf[f]
    BY <1>2 DEF Same
  <2>3. RecLike(st, ag, st2, ag, {f, e})
    BY <1>1, <1>2, <1>8, <1>11, <2>1, <2>2 DEF RecLike, RecStage, UseStage, Leaving, Meeting
  <2> QED BY <1>1, <1>8, <2>3, RecKept DEF Explains
<1>24. FirstPart(st2)'
  <2>1. FirstLike(st, st2, {c}, {m})
    BY <1>1, <1>2, <1>5, <1>8 DEF FirstLike, Life, Data
  <2> QED BY <1>6, <2>1, FirstKept DEF Explains
<1>25. KickPart(st2, ag)'
  <2>1. BackLike(st, ag, st2, ag, {c}, {m})
    BY <1>1, <1>2, <1>5, <1>8 DEF BackLike, Life, Meeting
  <2>2. RetLike(st, st2, {c}, {m})
    BY <1>1, <1>2, <1>5, <1>8 DEF RetLike, Life
  <2>3. LeaveLike(st, st2)
    BY <1>1, <1>2, <1>8 DEF LeaveLike, Asked
  <2> QED BY <1>6, <1>7, <2>1, <2>2, <2>3, KickKept DEF Explains, KickLike
<1> QED BY <1>6, <1>9, <1>13, <1>14, <1>15, <1>16, <1>18, <1>19, <1>20, <1>21, <1>22,
           <1>24, <1>25, <1>23, Advance

LEMMA ForwardEx ==
    ASSUME IInv, IInv', NEW st, NEW ag, Explains(st, ag), Forward
    PROVE  Explained'
BY ForwardEndEx, ForwardOnEx

-----------------------------------------------------------------------------
(* An agent is closed.                                                     *)

\* cmd_gamed_close of an account that a client waits for.
LEMMA TakenOver ==
    ASSUME IInv, NEW st, NEW ag, Explains(st, ag), NEW f \in Fd, st[f] = "gamed_close",
           NEW info, info = online_account[AccountOf[f]], Kicked(info)
    PROVE  /\ info \in Record /\ info.fd \in Fd /\ Same(f, info.fd)
           /\ st[info.fd] = "waiting" /\ ag[info.fd] = Nil
           /\ \A h \in Fd \ {info.fd, f} : Same(info.fd, h) => ~ In(st[h])
<1>1. AccountOf[f] \in Account
  BY FdAssumption
<1>2. info \in Record
  BY <1>1 DEF Kicked, IInv, GamedType, Opt
<1>3. /\ info.fd \in Fd /\ AccountOf[info.fd] = AccountOf[f]
      /\ st[info.fd] \in {"waiting", "assign"}
  BY <1>1 DEF Explains, RecPart
<1>4. Same(f, info.fd)
  BY <1>3 DEF Same
<1>5. st[info.fd] = "waiting"
  <2>1. Agree("gamed_close", st[info.fd])
    BY <1>3, <1>4 DEF Explains, PairPart
  <2> QED BY <1>3, <2>1 DEF Agree, Before, In, Awaited, Entering, Asking, Asked, Leaving, Meeting, Ending
<1>6. ag[info.fd] = Nil
  BY <1>3, <1>5 DEF Explains, AgPart, AgAt, HasStage, Awaited, Leaving, Meeting, Ending
<1>7. ASSUME NEW h \in Fd \ {info.fd, f}, Same(info.fd, h) PROVE ~ In(st[h])
  <2>1. Same(f, h)
    BY <1>4, <1>7 DEF Same
  <2>2. Agree("gamed_close", st[h]) /\ Agree("waiting", st[h])
    BY <1>3, <1>5, <1>7, <2>1 DEF Explains, PairPart
  <2> QED BY <2>2 DEF Agree, Before, In, Awaited, Entering, Asking, Asked, Leaving, Meeting, Ending
<1> QED BY <1>2, <1>3, <1>4, <1>5, <1>6, <1>7

LEMMA CloseForTakeoverEx ==
    ASSUME IInv, IInv', NEW st, NEW ag, Explains(st, ag), CloseForTakeover
    PROVE  Explained'
<1>0. PICK c, f, info, g : /\ c = Cur(Gate) /\ f = SocketOf(c)
                           /\ info = online_account[AccountOf[f]] /\ g = info.fd
  OBVIOUS
<1>00. PICK n, st2 : n = [c EXCEPT !.agent = c.callee, !.nfd = g]
                     /\ st2 = [st EXCEPT ![f] = "passing", ![g] = "assign"]
  OBVIOUS
<1>1. /\ At(Gate, "gamed_close") /\ Handles(Gate, c, "gamed_close")
  <2>1. At(Gate, "gamed_close")
    BY DEF CloseForTakeover
  <2> QED BY <1>0, <2>1, Handling, ServiceOf DEF Explains
<1>2. /\ f \in Fd /\ c \in Life(f) /\ c \in GoodMsg /\ st[f] = "gamed_close"
      /\ c.at = "gamed_close" /\ c.task[1] = "close"
      /\ c.callee = ag[f] /\ c.account = AccountOf[f]
  <2>1. /\ f \in Fd /\ c \in Life(f) /\ c \in GoodMsg /\ st[f] = "gamed_close"
        /\ c.at = "gamed_close" /\ FitsLeaving(ag, c, f)
    BY <1>0, <1>1, LeavingOf, ServiceOf
  <2> QED BY <2>1 DEF FitsLeaving
<1>3. /\ Kicked(info) /\ ForwardAgent(n)
      /\ sock' = sock /\ creq' = creq /\ nsent' = nsent /\ connection' = connection
      /\ forwarded' = forwarded /\ pending_msg' = pending_msg
      /\ online_account' = online_account /\ user' = user /\ cmds' = cmds
  BY <1>0, <1>00, <1>2 DEF CloseForTakeover, sockVars, gateVars, agentVars
<1>4. /\ info \in Record /\ g \in Fd /\ Same(f, g) /\ st[g] = "waiting" /\ ag[g] = Nil
      /\ \A h \in Fd \ {g, f} : Same(g, h) => ~ In(st[h])
  BY <1>0, <1>2, <1>3, TakenOver
<1>5. Ghosts(st, ag) /\ AgPart(st, ag) /\ st \in [Fd -> Stage] /\ ag \in [Fd -> Opt(Agent)]
  BY DEF Explains, Ghosts
<1>6. PICK a \in Agent : /\ Yield(Gate, [n EXCEPT !.at = "assign", !.callee = a])
                         /\ NewFor(a, ag)
  BY <1>3, <1>5, NewAgent
<1>7. PICK m, ag2 : m = [n EXCEPT !.at = "assign", !.callee = a] /\ ag2 = [ag EXCEPT ![g] = a]
  OBVIOUS
<1>8. /\ m.at = "assign" /\ m.callee = a /\ m.nfd = g /\ m.account = AccountOf[f]
      /\ m.task = c.task /\ m.agent = ag[f]
  BY <1>00, <1>2, <1>7 DEF GoodMsg, Msg
<1>9. Moves({c}, {m}) /\ Placed'
  BY <1>0, <1>1, <1>6, <1>7, YieldGoes, ServiceOf DEF Explains, Goes
<1>10. ~ Later(m) /\ Subject(m) = g /\ StageOf(m) = "assign" /\ SocketOf(m) = f
  BY <1>0, <1>8 DEF Later, Subject, Opens, OpenLabel, StageOf, SocketOf
<1>11. /\ f # g /\ "assign" \in Stage /\ "passing" \in Stage /\ AccountOf[g] = AccountOf[f]
       /\ Same(g, f)
  BY <1>4 DEF Same, Stage, OpenStage, FwdStage, Awaited
<1>12. /\ st2 \in [Fd -> Stage] /\ st2[g] = "assign" /\ st2[f] = "passing"
       /\ \A h \in Fd \ {g, f} : st2[h] = st[h]
       /\ ag2 \in [Fd -> Opt(Agent)] /\ ag2[g] = a /\ ag2[f] = ag[f]
       /\ \A h \in Fd \ {g, f} : ag2[h] = ag[h]
  BY <1>00, <1>2, <1>4, <1>5, <1>7, <1>11 DEF Opt
<1>13. PairPart(st2)
  <2>1. Agree(st2[f], st2[g])
    BY <1>12 DEF Agree, Before, Awaited
  <2> QED BY <1>2, <1>4, <1>12, <2>1, PairTwo DEF Explains
<1>14. Apart(st, ag, st2, ag2, {g, f})
  <2>1. ASSUME NEW h \in Fd \ {g, f}, Same(f, h) \/ Same(g, h)
        PROVE  st[h] \notin Awaited \cup Asking
    <3>1. ~ In(st[h])
      BY <1>4, <1>11, <2>1 DEF Same
    <3> QED BY <3>1 DEF In, Awaited, Asking
  <2> QED BY <1>2, <1>4, <1>12, <2>1 DEF Apart
<1>15. Recorded(st, {g, f})
  BY <1>3, RecordedSame
<1>16. Cleared({g, f}, {m})
  <2>1. {c} \cap Life(f) # {} /\ st[f] # "out"
    BY <1>2
  <2>2. Cleared({f}, {m})
    BY <1>2, <1>9, <2>1, ClearedTake DEF Explains
  <2>3. Cleared({g}, {m})
    BY <1>4, <1>9, ClearedQuiet DEF Explains, Quiet
  <2> QED BY <2>2, <2>3, ClearedTwo
<1>17. Fits(st2, ag2, m, g)'
  <2>1. FitsAwaited(st2, ag2, m, g)
    BY <1>2, <1>4, <1>8, <1>10, <1>11, <1>12 DEF FitsAwaited
  <2> QED BY <1>4, <1>10, <1>12, <2>1 DEF Fits, FitsAwaited, Awaited, Asking, Asks, Leaving, Meeting, Ending
<1>18. \A k \in {m} : ~ Later(k) => Subject(k) \in {g, f} /\ Fits(st2, ag2, k, Subject(k))'
  <2>1. Subject(m)' = Subject(m)
    BY DEF Subject, Opens, SocketOf
  <2> QED BY <1>10, <1>17, <2>1
<1>19. Outside({g, f})
  BY <1>3 DEF Outside
<1>20. \A h \in {g, f} : SockAt(st2[h], h)'
  <2>1. SockAt("gamed_close", f) /\ SockAt("waiting", g)
    BY <1>2, <1>4 DEF Explains, SockPart
  <2>2. SockAt("passing", f)'
    BY <1>3, <2>1 DEF SockAt, OpenStage, ShutStage, FwdStage, Entering, Asking, Asked, Awaited, Leaving, Meeting, Ending
  <2>3. SockAt("assign", g)'
    BY <1>3, <2>1 DEF SockAt, OpenStage, ShutStage, FwdStage, Entering, Asking, Asked, Awaited, Leaving, Meeting, Ending
  <2> QED BY <1>12, <2>2, <2>3
<1>21. AgPart(st2, ag2)'
  <2>1. /\ st2[f] \in HasStage <=> st[f] \in HasStage
        /\ st2[f] \in FwdStage <=> st[f] \in FwdStage
    BY <1>2, <1>12 DEF HasStage, FwdStage
  <2>2. \A h \in Fd \ {g} : /\ st2[h] \in HasStage <=> st[h] \in HasStage
                            /\ st2[h] \in FwdStage <=> st[h] \in FwdStage
    BY <1>12, <2>1
  <2> QED BY <1>3, <1>4, <1>5, <1>6, <1>7, <1>12, <2>2, AgGiven
<1>22. UserPart(st2, ag2)'
  <2>1. UserLike(st, ag, st2, ag2, {g, f})
    BY <1>2, <1>4, <1>12 DEF UserLike, UseStage, Leaving, Meeting
  <2> QED BY <1>3, <1>12, <2>1, UserKept DEF Explains
<1>23. RecPart(st2, ag2)'
  <2>1. online_account[AccountOf[g]].agent # ag[g]
    BY <1>0, <1>4, <1>11, NilAssumption DEF Record
  <2>2. RecLike(st, ag, st2, ag2, {g, f})
    BY <1>2, <1>4, <1>12, <2>1 DEF RecLike, RecStage, UseStage, Leaving, Meeting
  <2> QED BY <1>3, <1>12, <2>2, RecKept DEF Explains
<1>24. FirstPart(st2)'
  <2>1. FirstLike(st, st2, {c}, {m})
    BY <1>2, <1>4, <1>10, <1>12 DEF FirstLike, Life, Data
  <2> QED BY <1>9, <2>1, FirstKept DEF Explains
<1>25. KickPart(st2, ag2)'
  <2>1. BackLike(st, ag, st2, ag2, {c}, {m})
    BY <1>2, <1>4, <1>10, <1>12 DEF BackLike, Life, Meeting
  <2>2. RetLike(st, st2, {c}, {m})
    BY <1>2, <1>4, <1>10, <1>12 DEF RetLike, Life
  <2>3. ASSUME NEW x \in Fd, NEW y \in Fd, Same(x, y), st2[x] = "leaving", st[y] \in Asked
        PROVE  st2[y] \in Asked
    <3>1. x \notin {f, g} /\ st[x] = "leaving"
      BY <1>12, <2>3
    <3>2. y # g
      BY <1>4, <2>3, <3>1 DEF Same, In
    <3>3. y # f
      BY <1>2, <2>3 DEF Asked
    <3> QED BY <1>12, <2>3, <3>2, <3>3
  <2>4. LeaveLike(st, st2)
    BY <1>2, <1>4, <1>12, <2>3 DEF LeaveLike
  <2> QED BY <1>5, <1>9, <2>1, <2>2, <2>4, KickKept DEF Explains, KickLike
<1>26. Ghosts(st2, ag2)
  BY <1>12 DEF Ghosts
<1> QED BY <1>9, <1>13, <1>14, <1>15, <1>16, <1>18, <1>19, <1>20, <1>21, <1>22, <1>23, <1>24, <1>25,
           <1>26, Advance

\* cmd_gamed_close of an account that no client waits for: none is there at
\* all, since a kick is answered before the agent it kicked is closed.
LEMMA OfflineAlone ==
    ASSUME IInv, NEW st, NEW ag, Explains(st, ag), NEW f \in Fd, st[f] = "gamed_close",
           ~ Kicked(online_account[AccountOf[f]]),
           NEW c, Handles(Gate, c, "gamed_close"), c \in Life(f),
           NEW g \in Fd, Same(f, g)
    PROVE  ~ In(st[g])
<1> SUFFICES ASSUME In(st[g]) PROVE FALSE
  OBVIOUS
<1>1. Agree("gamed_close", st[g])
  BY DEF Explains, PairPart
<1>2. st[g] \in {"waiting", "kick_ret"}
  BY <1>1 DEF Agree, Before, In, Awaited, Entering, Asking, Asked, Leaving, Meeting, Ending
<1>3. st[g] # "waiting"
  BY DEF Explains, RecPart, Same
<1>4. ~ Free(mbox[Gate], Life(g)) /\ Ahead(mbox[Gate], Life(g), Life(f))
  <2>1. st[g] = "kick_ret" /\ Same(f, g) /\ RetPart(st)
    BY <1>2, <1>3 DEF Explains, KickPart
  <2> QED BY <2>1 DEF RetPart
<1>5. c = mbox[Gate][1] /\ 1 \in 1 .. Len(mbox[Gate]) /\ Len(mbox[Gate]) \in Nat
  BY DEF Handles
<1>6. PICK i \in 1 .. Len(mbox[Gate]) : mbox[Gate][i] \in Life(g)
  BY <1>4 DEF Free
<1>7. i < 1
  BY <1>4, <1>5, <1>6 DEF Ahead
<1> QED BY <1>5, <1>6, <1>7

LEMMA CloseOfflineEx ==
    ASSUME IInv, IInv', NEW st, NEW ag, Explains(st, ag), CloseOffline
    PROVE  Explained'
<1>0. PICK c, f, account : c = Cur(Gate) /\ f = SocketOf(c) /\ account = AccountOf[f]
  OBVIOUS
<1>00. PICK q, st2, m : /\ q = "recycle" /\ st2 = [st EXCEPT ![f] = q]
                        /\ m = [c EXCEPT !.at = "recycle", !.agent = c.callee]
  OBVIOUS
<1>1. /\ At(Gate, "gamed_close") /\ Handles(Gate, c, "gamed_close")
  <2>1. At(Gate, "gamed_close")
    BY DEF CloseOffline
  <2> QED BY <1>0, <2>1, Handling, ServiceOf DEF Explains
<1>2. /\ f \in Fd /\ c \in Life(f) /\ c \in GoodMsg /\ st[f] = "gamed_close"
      /\ c.at = "gamed_close" /\ c.task[1] = "close"
      /\ c.callee = ag[f] /\ c.account = account
  <2>1. /\ f \in Fd /\ c \in Life(f) /\ c \in GoodMsg /\ st[f] = "gamed_close"
        /\ c.at = "gamed_close" /\ FitsLeaving(ag, c, f)
    BY <1>0, <1>1, LeavingOf, ServiceOf
  <2> QED BY <1>0, <2>1 DEF FitsLeaving
<1>3. /\ Yield(Gate, m) /\ ~ Kicked(online_account[account])
      /\ online_account' = [online_account EXCEPT ![account] = Nil]
      /\ sock' = sock /\ creq' = creq /\ nsent' = nsent /\ connection' = connection
      /\ forwarded' = forwarded /\ pending_msg' = pending_msg
      /\ UNCHANGED pool /\ UNCHANGED spawned /\ UNCHANGED user /\ UNCHANGED cmds
  BY <1>0, <1>00, <1>2 DEF CloseOffline, sockVars, gateVars, agentVars
<1>4. ASSUME NEW g \in Fd, Same(f, g) PROVE ~ In(st[g])
  BY <1>0, <1>1, <1>2, <1>3, <1>4, OfflineAlone
<1>5. /\ st \in [Fd -> Stage] /\ Ghosts(st, ag) /\ q \in Stage
  BY <1>00 DEF Explains, Ghosts, Stage, FwdStage, Ending
<1>6. /\ st2 \in [Fd -> Stage] /\ st2[f] = q /\ st2[f] = "recycle"
      /\ \A h \in Fd \ {f} : st2[h] = st[h]
  BY <1>00, <1>2, <1>5
<1>7. Ghosts(st2, ag)
  BY <1>5, <1>6 DEF Ghosts
<1>8. m.at = "recycle" /\ m.task = c.task /\ m.agent = ag[f]
  BY <1>00, <1>2 DEF GoodMsg, Msg
<1>9. ~ Later(m) /\ Subject(m) = f /\ StageOf(m) = "recycle"
  BY <1>0, <1>8 DEF Later, Subject, Opens, OpenLabel, SocketOf, StageOf
<1>10. Moves({c}, {m}) /\ Placed'
  BY <1>0, <1>1, <1>3, YieldGoes, ServiceOf DEF Explains, Goes
<1>11. /\ account \in Account /\ online_account'[account] = Nil
       /\ \A b \in Account \ {account} : online_account'[b] = online_account[b]
  <2>1. account \in Account
    BY <1>0, <1>2, FdAssumption
  <2> QED BY <1>3, <2>1 DEF IInv, GamedType
<1>12. \A h \in Fd \ {f} : AccountOf[h] = account => ~ In(st[h])
  BY <1>0, <1>4 DEF Same
<1>13. PairPart(st2)
  <2>1. \A g \in Fd : Same(f, g) => Agree(q, st[g])
    BY <1>4 DEF Agree
  <2> QED BY <1>00, <1>2, <1>5, <2>1, PairMove DEF Explains
<1>14. Apart(st, ag, st2, ag, {f})
  BY <1>2, <1>6 DEF Apart, In
<1>15. Recorded(st, {f})
  <2>1. ASSUME NEW h \in Fd \ {f}, Asks(st[h]) PROVE AccountOf[h] # account
    BY <1>12, <2>1 DEF Asks, Asking, In
  <2> QED BY <1>11, <2>1, FdAssumption DEF Recorded
<1>16. Cleared({f}, {m})
  <2>1. {c} \cap Life(f) # {} /\ st[f] # "out"
    BY <1>2
  <2> QED BY <1>2, <1>10, <2>1, ClearedTake DEF Explains
<1>17. Fits(st2, ag, m, f)'
  <2>1. FitsLeaving(ag, m, f)
    BY <1>2, <1>8 DEF FitsLeaving
  <2> QED BY <1>2, <1>6, <1>9, <2>1 DEF Fits, FitsLeaving, Awaited, Asking, Asks, Leaving, Meeting, Ending
<1>18. \A k \in {m} : ~ Later(k) => Subject(k) \in {f} /\ Fits(st2, ag, k, Subject(k))'
  <2>1. Subject(m)' = Subject(m)
    BY DEF Subject, Opens, SocketOf
  <2> QED BY <1>9, <1>17, <2>1
<1>19. Outside({f})
  BY <1>3 DEF Outside
<1>20. \A h \in {f} : SockAt(st2[h], h)'
  <2>1. SockAt("gamed_close", f)
    BY <1>2 DEF Explains, SockPart
  <2>2. SockAt("recycle", f)'
    BY <1>3, <2>1 DEF SockAt, OpenStage, ShutStage, FwdStage, Entering, Asking, Asked, Awaited, Leaving, Meeting, Ending
  <2> QED BY <1>6, <2>2
<1>21. AgPart(st2, ag)'
  <2>1. AgAt(st, ag, f)
    BY <1>2 DEF Explains, AgPart
  <2>2. AgAt(st2, ag, f)'
    BY <1>2, <1>3, <1>6, <2>1 DEF AgAt, HasStage, FwdStage, Awaited, Leaving, Meeting, Ending
  <2>3. AgLike(st2, ag, ag, {f})'
    BY <2>2 DEF AgLike
  <2> QED BY <1>3, <1>6, <1>19, <2>3, AgKept DEF Explains
<1>22. UserPart(st2, ag)'
  <2>1. UserLike(st, ag, st2, ag, {f})
    BY <1>2, <1>6 DEF UserLike, UseStage, Leaving, Meeting
  <2> QED BY <1>3, <1>6, <2>1, UserKept DEF Explains
<1>23. RecPart(st2, ag)'
  <2>0. RecPart(st, ag)
    BY DEF Explains
  <2>1. ASSUME NEW h \in Fd, st2[h] \in RecStage
        PROVE  /\ online_account'[AccountOf[h]] # Nil
               /\ online_account'[AccountOf[h]].agent = ag[h]
    <3>1. h # f /\ st[h] \in RecStage /\ AccountOf[h] \in Account
      BY <1>6, <2>1, FdAssumption DEF RecStage, UseStage, Leaving, Meeting
    <3>2. AccountOf[h] # account
      BY <1>12, <3>1 DEF In, RecStage, UseStage, Leaving, Meeting
    <3> QED BY <1>11, <2>0, <3>1, <3>2 DEF RecPart
  <2>2. ASSUME NEW b \in Account, online_account'[b] # Nil
        PROVE  \E h \in Fd : /\ AccountOf[h] = b /\ st2[h] # "recycle"
                             /\ ag[h] = online_account'[b].agent
    <3>1. b # account
      BY <1>11, <2>2
    <3>2. PICK h \in Fd : /\ AccountOf[h] = b /\ st[h] # "recycle"
                          /\ ag[h] = online_account[b].agent
      BY <1>11, <2>0, <2>2, <3>1 DEF RecPart
    <3>3. st2[h] # "recycle"
      BY <1>0, <1>6, <3>1, <3>2
    <3> QED BY <1>11, <3>1, <3>2, <3>3
  <2>3. ASSUME NEW b \in Account, Kicked(online_account'[b])
        PROVE  /\ online_account'[b].fd \in Fd
               /\ AccountOf[online_account'[b].fd] = b
               /\ st2[online_account'[b].fd] \in {"waiting", "assign"}
    <3>1. b # account
      BY <1>11, <2>3 DEF Kicked
    <3>2. online_account'[b].fd # f
      BY <1>0, <1>11, <2>0, <2>3, <3>1 DEF RecPart
    <3> QED BY <1>6, <1>11, <2>0, <2>3, <3>1, <3>2 DEF RecPart
  <2>4. ASSUME NEW h \in Fd, st2[h] = "waiting"
        PROVE  /\ Kicked(online_account'[AccountOf[h]])
               /\ online_account'[AccountOf[h]].fd = h
    <3>1. h # f /\ st[h] = "waiting" /\ AccountOf[h] \in Account
      BY <1>6, <2>4, FdAssumption
    <3>2. AccountOf[h] # account
      BY <1>12, <3>1 DEF In
    <3> QED BY <1>11, <2>0, <3>1, <3>2 DEF RecPart
  <2> QED BY <2>1, <2>2, <2>3, <2>4 DEF RecPart, Kicked
<1>24. FirstPart(st2)'
  <2>1. FirstLike(st, st2, {c}, {m})
    BY <1>2, <1>6, <1>9 DEF FirstLike, Life, Data
  <2> QED BY <1>10, <2>1, FirstKept DEF Explains
<1>25. KickPart(st2, ag)'
  <2>1. BackLike(st, ag, st2, ag, {c}, {m})
    BY <1>2, <1>6, <1>9 DEF BackLike, Life, Meeting
  <2>2. RetLike(st, st2, {c}, {m})
    BY <1>2, <1>6, <1>9 DEF RetLike, Life
  <2>3. LeaveLike(st, st2)
    BY <1>2, <1>6 DEF LeaveLike, Asked
  <2> QED BY <1>10, <2>1, <2>2, <2>3, KickKept DEF Explains, KickLike
<1> QED BY <1>7, <1>10, <1>13, <1>14, <1>15, <1>16, <1>18, <1>19, <1>20, <1>21, <1>22,
           <1>23, <1>24, <1>25, Advance

\* The agent is idle again.
LEMMA RecycleEx ==
    ASSUME IInv, IInv', NEW st, NEW ag, Explains(st, ag), Recycle
    PROVE  Explained'
<1>0. PICK c, f, a : c = Cur(Gate) /\ f = SocketOf(c) /\ a = ag[f]
  OBVIOUS
<1>00. PICK q, st2, ag2, m :
        /\ q = "gamed_closed" /\ st2 = [st EXCEPT ![f] = q] /\ ag2 = [ag EXCEPT ![f] = Nil]
        /\ m = [c EXCEPT !.at = "gamed_closed", !.callee = c.agent]
  OBVIOUS
<1>1. /\ At(Gate, "recycle") /\ Handles(Gate, c, "recycle")
  <2>1. At(Gate, "recycle")
    BY DEF Recycle
  <2> QED BY <1>0, <2>1, Handling, ServiceOf DEF Explains
<1>2. /\ f \in Fd /\ c \in Life(f) /\ c \in GoodMsg /\ st[f] = "recycle"
      /\ c.at = "recycle" /\ c.task[1] = "close" /\ c.agent = a
  <2>1. /\ f \in Fd /\ c \in Life(f) /\ c \in GoodMsg /\ st[f] = "recycle"
        /\ c.at = "recycle" /\ FitsLeaving(ag, c, f)
    BY <1>0, <1>1, LeavingOf, ServiceOf
  <2> QED BY <1>0, <2>1 DEF FitsLeaving
<1>3. /\ Ghosts(st, ag) /\ AgPart(st, ag) /\ st \in [Fd -> Stage] /\ ag \in [Fd -> Opt(Agent)]
      /\ q \in Stage
  BY <1>00 DEF Explains, Ghosts, Stage, FwdStage, Ending
<1>4. AgAt(st, ag, f) /\ a \in Agent /\ a # Nil /\ a \in Service /\ a # Gate
  <2>1. AgAt(st, ag, f)
    BY <1>2, <1>3 DEF AgPart
  <2>2. ag[f] # Nil
    BY <1>2, <2>1 DEF AgAt, HasStage
  <2> QED BY <1>0, <1>2, <1>3, <2>1, <2>2, ServiceOf DEF Opt
<1>5. /\ Send(Gate, a, m) /\ pool' = Append(pool, a)
      /\ sock' = sock /\ creq' = creq /\ nsent' = nsent /\ connection' = connection
      /\ forwarded' = forwarded /\ pending_msg' = pending_msg /\ spawned' = spawned
      /\ online_account' = online_account /\ user' = user /\ cmds' = cmds
  BY <1>0, <1>00, <1>2 DEF Recycle, sockVars, gateVars, agentVars
<1>6. /\ st2 \in [Fd -> Stage] /\ st2[f] = q /\ st2[f] = "gamed_closed"
      /\ \A h \in Fd \ {f} : st2[h] = st[h] /\ ag2[h] = ag[h]
      /\ ag2 \in [Fd -> Opt(Agent)] /\ ag2[f] = Nil
  BY <1>00, <1>2, <1>3 DEF Opt
<1>7. Ghosts(st2, ag2)
  BY <1>6 DEF Ghosts
<1>8. m.at = "gamed_closed" /\ m.task = c.task /\ m.callee = a
  BY <1>00, <1>2 DEF GoodMsg, Msg
<1>9. ~ Later(m) /\ Subject(m) = f /\ StageOf(m) = "gamed_closed" /\ Home(m) = a
  BY <1>0, <1>8 DEF Later, Subject, Opens, OpenLabel, SocketOf, StageOf, Home, AgentLabel
<1>10. Moves({c}, {m}) /\ Placed'
  <2>1. Goes(Gate, "recycle", m)
    BY <1>1, <1>4, <1>5, <1>9, SendGoes, ServiceOf DEF Explains
  <2> QED BY <1>0, <2>1 DEF Goes
<1>13. PairPart(st2)
  <2>1. Follows(st[f], q)
    BY <1>00, <1>2 DEF Follows, In, Before, Entering, Asking, Asked, Awaited, Ending, Leaving, Meeting
  <2> QED BY <1>00, <1>2, <1>3, <2>1, PairFollows DEF Explains
<1>14. Apart(st, ag, st2, ag2, {f})
  BY <1>2, <1>6 DEF Apart, In
<1>15. Recorded(st, {f})
  BY <1>5, RecordedSame
<1>16. Cleared({f}, {m})
  <2>1. {c} \cap Life(f) # {} /\ st[f] # "out"
    BY <1>2
  <2> QED BY <1>2, <1>10, <2>1, ClearedTake DEF Explains
<1>17. Fits(st2, ag2, m, f)'
  <2>1. FitsLeaving(ag2, m, f)
    BY <1>2, <1>8 DEF FitsLeaving
  <2> QED BY <1>2, <1>6, <1>9, <2>1 DEF Fits, FitsLeaving, Awaited, Asking, Asks, Leaving, Meeting, Ending
<1>18. \A k \in {m} : ~ Later(k) => Subject(k) \in {f} /\ Fits(st2, ag2, k, Subject(k))'
  <2>1. Subject(m)' = Subject(m)
    BY DEF Subject, Opens, SocketOf
  <2> QED BY <1>9, <1>17, <2>1
<1>19. Outside({f})
  BY <1>5 DEF Outside
<1>20. \A h \in {f} : SockAt(st2[h], h)'
  <2>1. SockAt("recycle", f)
    BY <1>2 DEF Explains, SockPart
  <2>2. SockAt("gamed_closed", f)'
    BY <1>5, <2>1 DEF SockAt, OpenStage, ShutStage, FwdStage, Entering, Asking, Asked, Awaited, Leaving, Meeting, Ending
  <2> QED BY <1>6, <2>2
<1>21. AgPart(st2, ag2)'
  <2>1. /\ pool \in Seq(Agent) /\ Len(pool) \in Nat /\ Len(pool') = Len(pool) + 1
        /\ pool'[Len(pool) + 1] = a
        /\ \A i \in 1 .. Len(pool) : pool'[i] = pool[i]
    BY <1>4, <1>5 DEF IInv, GamedType
  <2>2. /\ a <= spawned /\ \A i \in 1 .. Len(pool) : pool[i] # a
    BY <1>0, <1>4 DEF AgAt
  <2>3. \A i \in 1 .. Len(pool') : i \in 1 .. Len(pool) \/ i = Len(pool) + 1
    BY <2>1
  <2>4. ASSUME NEW h \in Fd PROVE AgAt(st2, ag2, h)'
    <3>1. CASE h = f
      BY <1>6, <3>1 DEF AgAt, HasStage, Awaited, Leaving, Meeting
    <3>2. CASE h # f
      <4>1. AgAt(st, ag, h) /\ st2[h] = st[h] /\ ag2[h] = ag[h]
        BY <1>3, <1>6, <3>2 DEF AgPart
      <4>2. ag[h] # Nil => ag[h] # a
        BY <1>0, <1>2, <1>3, <3>2 DEF AgPart
      <4>3. ASSUME ag2[h] # Nil
            PROVE  ag2[h] <= spawned /\ \A i \in 1 .. Len(pool') : pool'[i] # ag2[h]
        BY <2>1, <2>3, <4>1, <4>2, <4>3 DEF AgAt
      <4> QED BY <1>5, <4>1, <4>3 DEF AgAt
    <3> QED BY <3>1, <3>2
  <2>5. \A x, y \in Fd : ag2[x] = ag2[y] /\ ag2[x] # Nil => x = y
    BY <1>3, <1>6 DEF AgPart
  <2>6. \A i \in 1 .. Len(pool') : pool'[i] <= spawned
    BY <1>3, <2>1, <2>2, <2>3 DEF AgPart
  <2>7. \A i, j \in 1 .. Len(pool') : pool'[i] = pool'[j] => i = j
    BY <1>3, <2>1, <2>2, <2>3 DEF AgPart
  <2> QED BY <1>5, <2>4, <2>5, <2>6, <2>7 DEF AgPart
<1>22. UserPart(st2, ag2)'
  <2>1. UserLike(st, ag, st2, ag2, {f})
    BY <1>2, <1>6 DEF UserLike, UseStage, Leaving, Meeting
  <2> QED BY <1>5, <1>6, <2>1, UserKept DEF Explains
<1>23. RecPart(st2, ag2)'
  <2>1. RecLike(st, ag, st2, ag2, {f})
    BY <1>2, <1>6 DEF RecLike, RecStage, UseStage, Leaving, Meeting
  <2> QED BY <1>5, <1>6, <2>1, RecKept DEF Explains
<1>24. FirstPart(st2)'
  <2>1. FirstLike(st, st2, {c}, {m})
    BY <1>2, <1>6, <1>9 DEF FirstLike, Life, Data
  <2> QED BY <1>10, <2>1, FirstKept DEF Explains
<1>25. KickPart(st2, ag2)'
  <2>1. BackLike(st, ag, st2, ag2, {c}, {m})
    BY <1>2, <1>6, <1>9 DEF BackLike, Life, Meeting
  <2>2. RetLike(st, st2, {c}, {m})
    BY <1>2, <1>6, <1>9 DEF RetLike, Life
  <2>3. LeaveLike(st, st2)
    BY <1>2, <1>6 DEF LeaveLike, Asked
  <2> QED BY <1>3, <1>10, <2>1, <2>2, <2>3, KickKept DEF Explains, KickLike
<1> QED BY <1>7, <1>10, <1>13, <1>14, <1>15, <1>16, <1>18, <1>19, <1>20, <1>21, <1>22,
           <1>23, <1>24, <1>25, Advance

\* cmd_gamed_kick asks for the close of the socket it kicks, and is answered:
\* the answer is in the agent's mailbox before the close can be.
LEMMA KickCloseEx ==
    ASSUME IInv, IInv', NEW st, NEW ag, Explains(st, ag), KickClose
    PROVE  Explained'
<1>0. PICK c, g, f : c = Cur(Gate) /\ g = SocketOf(c) /\ f = c.kfd
  OBVIOUS
<1>00. PICK st1, st2, m :
        /\ st1 = [st EXCEPT ![f] = "leaving", ![g] = "waiting"]
        /\ st2 = [st EXCEPT ![f] = "leaving", ![g] = "kick_back"]
        /\ m = [c EXCEPT !.at = "agent_ret"]
  OBVIOUS
<1>1. /\ At(Gate, "kick_close") /\ Handles(Gate, c, "kick_close")
  <2>1. At(Gate, "kick_close")
    BY DEF KickClose
  <2> QED BY <1>0, <2>1, Handling, ServiceOf DEF Explains
<1>2. /\ g \in Fd /\ c \in Life(g) /\ c \in GoodMsg /\ st[g] = "kick_close"
      /\ c.at = "kick_close" /\ Fits(st, ag, c, g) /\ c.ret = "kick_ret"
  BY <1>0, <1>1, OwnOf, RetOf, ServiceOf DEF OpenLabel
<1>3. f \in Fd /\ Same(f, g) /\ st[f] = "served" /\ ag[f] = c.callee /\ FitsRec(c, g)
  <2>1. FitsAsking(st, ag, c, g) /\ FitsRec(c, g)
    BY <1>2 DEF Fits, Asking, Asks
  <2> QED BY <1>0, <1>2, <2>1 DEF FitsAsking
<1>4. /\ Ghosts(st, ag) /\ AgPart(st, ag) /\ st \in [Fd -> Stage]
      /\ "leaving" \in Stage /\ "kick_back" \in Stage
  BY DEF Explains, Ghosts, Stage, OpenStage, Asked
<1>5. ag[f] \in Agent /\ ag[f] \in Service /\ ag[f] # Gate
  <2>1. ag[f] # Nil
    BY <1>3, <1>4 DEF AgPart, AgAt, HasStage
  <2> QED BY <1>3, <1>4, <2>1, ServiceOf DEF Ghosts, Opt
<1>6. /\ Send(Gate, ag[f], m) /\ creq' = [creq EXCEPT ![f] = @ + 1]
      /\ sock' = sock /\ nsent' = nsent /\ connection' = connection
      /\ forwarded' = forwarded /\ pending_msg' = pending_msg
      /\ UNCHANGED pool /\ UNCHANGED spawned /\ UNCHANGED online_account
      /\ UNCHANGED user /\ UNCHANGED cmds
  BY <1>0, <1>00, <1>3 DEF KickClose, RequestClose, gateVars, gamedVars, agentVars
<1>7. /\ f # g /\ st2 \in [Fd -> Stage] /\ st2[f] = "leaving" /\ st2[g] = "kick_back"
      /\ st1[f] = "leaving" /\ st1[g] = "waiting"
      /\ \A h \in Fd \ {g, f} : st2[h] = st[h] /\ st1[h] = st[h]
  BY <1>00, <1>2, <1>3, <1>4 DEF Same
<1>8. /\ m.at = "agent_ret" /\ m.ret = "kick_ret" /\ m.task = c.task /\ m.callee = c.callee
      /\ m.nfd = c.nfd /\ m.account = c.account /\ m.rec = c.rec
  BY <1>00, <1>2, Moved DEF Keeps
<1>9. ~ Later(m) /\ Subject(m) = g /\ StageOf(m) = "kick_back" /\ Home(m) = ag[f]
  BY <1>0, <1>3, <1>8 DEF Later, Subject, Opens, OpenLabel, SocketOf, StageOf, Home, AgentLabel
<1>10. Moves({c}, {m}) /\ Placed' /\ ~ Free(mbox'[ag[f]], {m}) /\ m \in Life(g)
  <2>1. Goes(Gate, "kick_close", m) /\ ~ Free(mbox'[ag[f]], {m})
    BY <1>1, <1>5, <1>6, <1>9, SendGoes, ServiceOf DEF Explains
  <2> QED BY <1>0, <1>9, <2>1 DEF Goes, Life
<1>11. \A h \in Fd \ {g, f} : Same(g, h) => ~ In(st[h])
  <2> SUFFICES ASSUME NEW h \in Fd \ {g, f}, Same(g, h), In(st[h]) PROVE FALSE
    OBVIOUS
  <2>1. Same(f, h)
    BY <1>3 DEF Same
  <2>2. Agree("kick_close", st[h]) /\ Agree("served", st[h])
    BY <1>2, <1>3, <2>1 DEF Explains, PairPart
  <2> QED BY <2>2 DEF Agree, Before, In, Awaited, Entering, Asking, Asked, Leaving, Meeting, Ending
<1>12. Ghosts(st2, ag)
  BY <1>4, <1>7 DEF Ghosts
<1>13. PairPart(st2)
  <2>1. Agree(st2[f], st2[g])
    BY <1>7 DEF Agree, Before, Asked, Leaving, Meeting
  <2> QED BY <1>2, <1>3, <1>7, <1>11, <2>1, PairTwo DEF Explains
<1>14. Apart(st, ag, st2, ag, {g, f})
  <2>1. ASSUME NEW h \in Fd \ {g, f}, Same(f, h) \/ Same(g, h)
        PROVE  st[h] \notin Awaited \cup Asking
    <3>1. ~ In(st[h])
      BY <1>3, <1>11, <2>1 DEF Same
    <3> QED BY <3>1 DEF In, Awaited, Asking
  <2> QED BY <1>2, <1>3, <1>7, <2>1 DEF Apart
<1>15. Recorded(st, {g, f})
  BY <1>6, RecordedSame
<1>160. Cleared({f}, {m})
  BY <1>3, <1>10, ClearedQuiet DEF Explains, Quiet
<1>16. Cleared({g, f}, {m})
  <2>1. {c} \cap Life(g) # {} /\ st[g] # "out"
    BY <1>2
  <2>2. Cleared({g}, {m})
    BY <1>2, <1>10, <2>1, ClearedTake DEF Explains
  <2> QED BY <1>160, <2>2, ClearedTwo
<1>17. Fits(st2, ag, m, g)'
  <2>1. FitsRec(m, g)'
    BY <1>3, <1>6, <1>8 DEF FitsRec
  <2> QED BY <1>2, <1>7, <1>9, <2>1 DEF Fits, Awaited, Asking, Leaving, Meeting, Ending
<1>18. \A k \in {m} : ~ Later(k) => Subject(k) \in {g, f} /\ Fits(st2, ag, k, Subject(k))'
  <2>1. Subject(m)' = Subject(m)
    BY DEF Subject, Opens, SocketOf
  <2> QED BY <1>9, <1>17, <2>1
<1>190. /\ creq'[f] = creq[f] + 1 /\ \A h \in Fd \ {f} : creq'[h] = creq[h]
  BY <1>3, <1>6 DEF IInv, SockType
<1>19. Outside({g, f})
  BY <1>6, <1>190 DEF Outside
<1>20. \A h \in {g, f} : SockAt(st2[h], h)'
  <2>1. SockAt("kick_close", g) /\ SockAt("served", f)
    BY <1>2, <1>3 DEF Explains, SockPart
  <2>2. SockAt("kick_back", g)'
    BY <1>2, <1>6, <1>7, <1>190, <2>1 DEF SockAt, OpenStage, ShutStage, FwdStage, Entering, Asking, Asked, Awaited, Leaving, Meeting, Ending
  <2>3. creq'[f] = 1
    BY <1>190, <2>1 DEF SockAt
  <2>4. SockAt("leaving", f)'
    BY <1>6, <2>1, <2>3 DEF SockAt, OpenStage, ShutStage, FwdStage, Entering, Asking, Asked, Awaited, Leaving, Meeting, Ending
  <2> QED BY <1>7, <2>2, <2>4
<1>21. AgPart(st2, ag)'
  <2>1. AgAt(st, ag, f) /\ AgAt(st, ag, g)
    BY <1>2, <1>3, <1>4 DEF AgPart
  <2>2. AgAt(st2, ag, f)'
    BY <1>3, <1>6, <1>7, <2>1 DEF AgAt, HasStage, FwdStage, Awaited, Leaving, Meeting, Ending
  <2>3. AgAt(st2, ag, g)'
    BY <1>2, <1>6, <1>7, <2>1 DEF AgAt, HasStage, FwdStage, Awaited, Leaving, Meeting, Ending
  <2>4. AgLike(st2, ag, ag, {g, f})'
    BY <2>2, <2>3 DEF AgLike
  <2> QED BY <1>4, <1>6, <1>7, <1>19, <2>4, AgKept
<1>22. UserPart(st2, ag)'
  <2>1. UserLike(st, ag, st2, ag, {g, f})
    BY <1>2, <1>3, <1>7 DEF UserLike, UseStage, Leaving, Meeting
  <2> QED BY <1>6, <1>7, <2>1, UserKept DEF Explains
<1>23. RecPart(st2, ag)'
  <2>1. RecLike(st, ag, st2, ag, {g, f})
    BY <1>2, <1>3, <1>7 DEF RecLike, RecStage, UseStage, Leaving, Meeting
  <2> QED BY <1>6, <1>7, <2>1, RecKept DEF Explains
<1>24. FirstPart(st2)'
  <2>1. FirstLike(st, st2, {c}, {m})
    BY <1>2, <1>3, <1>7, <1>9 DEF FirstLike, Life, Data
  <2> QED BY <1>10, <2>1, FirstKept DEF Explains
<1>25. BackPart(st2, ag)'
  <2>1. BackLike(st, ag, st1, ag, {c}, {m})
    BY <1>2, <1>3, <1>7, <1>9 DEF BackLike, Life, Meeting
  <2>2. BackPart(st1, ag)'
    BY <1>4, <1>10, <2>1, BackKept DEF Explains, KickPart
  <2>3. ASSUME NEW x \in Fd, st2[x] = "kick_back"
        PROVE  \E y \in Fd : /\ Same(y, x) /\ st2[y] \in Meeting
                             /\ ~ Free(mbox'[ag[y]], Life(x))
                             /\ Ahead(mbox'[ag[y]], Life(x), Life(y))
    <3>1. CASE x = g
      <4>1. ~ Free(mbox'[ag[f]], Life(g))
        BY <1>10 DEF Free
      <4>2. Ahead(mbox'[ag[f]], Life(g), Life(f))
        <5>1. ASSUME NEW k \in Life(f), Flies(k)' PROVE FALSE
          BY <1>7, <1>9, <1>160, <5>1 DEF Cleared, Life
        <5>2. Gone(mbox', ext', Life(f))
          BY <5>1, GoneFlying DEF Flies
        <5> QED BY <1>5, <5>2 DEF Gone, Free, Ahead
      <4> QED BY <1>3, <1>7, <3>1, <4>1, <4>2 DEF Meeting
    <3>2. CASE x # g
      <4>1. st1[x] = "kick_back"
        BY <1>7, <2>3, <3>2
      <4>2. PICK y \in Fd : /\ Same(y, x) /\ st1[y] \in Meeting
                            /\ ~ Free(mbox'[ag[y]], Life(x))
                            /\ Ahead(mbox'[ag[y]], Life(x), Life(y))
        BY <2>2, <4>1 DEF BackPart, Life, Later, Subject, Opens, SocketOf
      <4>3. st2[y] \in Meeting
        BY <1>7, <4>2 DEF Meeting
      <4> QED BY <4>2, <4>3
    <3> QED BY <3>1, <3>2
  <2> QED BY <2>3 DEF BackPart, Life, Later, Subject, Opens, SocketOf
<1>26. RetPart(st2)'
  <2>1. RetLike(st, st2, {c}, {m})
    BY <1>2, <1>3, <1>7, <1>9 DEF RetLike, Life
  <2> QED BY <1>10, <2>1, RetKept DEF Explains, KickPart
<1>27. LeavePart(st2)
  <2> SUFFICES ASSUME NEW x \in Fd, st2[x] = "leaving"
               PROVE  \E y \in Fd : Same(x, y) /\ st2[y] \in Asked
    BY DEF LeavePart
  <2>1. CASE x = f
    BY <1>2, <1>3, <1>7, <2>1 DEF Asked
  <2>2. CASE x # f
    <3>1. st[x] = "leaving"
      BY <1>7, <2>2
    <3>2. PICK y \in Fd : Same(x, y) /\ st[y] \in Asked
      BY <3>1 DEF Explains, KickPart, LeavePart
    <3>3. st2[y] \in Asked
      BY <1>2, <1>3, <1>7, <3>2 DEF Asked
    <3> QED BY <3>2, <3>3
  <2> QED BY <2>1, <2>2
<1>28. KickPart(st2, ag)'
  BY <1>25, <1>26, <1>27 DEF KickPart
<1> QED BY <1>10, <1>12, <1>13, <1>14, <1>15, <1>16, <1>18, <1>19, <1>20, <1>21, <1>22,
           <1>23, <1>24, <1>28, Advance

-----------------------------------------------------------------------------
(* An agent gets its user, its handlers' commands, and gives both back.    *)

Stays == UNCHANGED <<sock, creq, nsent, connection, forwarded, pending_msg,
                     pool, spawned, online_account>>

\* Before its user is set, and before the commands are registered: the
\* coroutine c of the agent a, at l, is m, at q, then.
OpenStep(l, q) == \/ l = "opened" /\ q = "register"
                  \/ l = "register" /\ q = "welcome"
Opens2(a, c, l, q, m) == /\ Handles(a, c, l) /\ Moves({c}, {m}) /\ Placed'
                         /\ Keeps(m, c) /\ m.at = q /\ m.ret = c.ret
Turned(st, st2, f, q) == st2 = [st EXCEPT ![f] = q]

LEMMA OpeningEx ==
    ASSUME IInv, IInv', NEW st, NEW ag, Explains(st, ag), NEW a \in Agent,
           NEW l, NEW q, OpenStep(l, q),
           NEW c, NEW m, Opens2(a, c, l, q, m),
           NEW f, c \in Life(f), NEW st2, Turned(st, st2, f, q),
           Stays,
           UserPart(st2, ag)'
    PROVE  Explained'
<1>01. /\ Handles(a, c, l) /\ Moves({c}, {m}) /\ Placed'
       /\ Keeps(m, c) /\ m.at = q /\ m.ret = c.ret /\ st2 = [st EXCEPT ![f] = q]
  BY DEF Opens2, Turned
<1>0. /\ sock' = sock /\ creq' = creq /\ nsent' = nsent /\ connection' = connection
      /\ forwarded' = forwarded /\ pending_msg' = pending_msg /\ pool' = pool
      /\ spawned' = spawned /\ online_account' = online_account
  BY DEF Stays
<1>00. \/ l = "opened" /\ q = "register"
       \/ l = "register" /\ q = "welcome"
  BY DEF OpenStep
<1> USE <1>00, <1>01
<1>2. /\ f \in Fd /\ ~ Later(c) /\ c \in Life(f) /\ c \in GoodMsg /\ c.nfd = f
      /\ c.at = l /\ st[f] = l
      /\ FitsAwaited(st, ag, c, f) /\ ag[f] \in Agent /\ c.callee = ag[f]
  <2>1. l \in OpenLabel
    BY <1>00 DEF OpenLabel
  <2> QED BY <2>1, OpensOf, ServiceOf DEF Life
<1>3. st \in [Fd -> Stage] /\ Ghosts(st, ag) /\ q \in Stage
  BY <1>00 DEF Explains, Ghosts, Stage, OpenStage, Awaited
<1>4. /\ st2 \in [Fd -> Stage] /\ st2[f] = q
      /\ \A h \in Fd \ {f} : st2[h] = st[h]
  BY <1>2, <1>3
<1>5. Ghosts(st2, ag)
  BY <1>3, <1>4 DEF Ghosts
<1>7. ~ Later(m) /\ Subject(m) = f /\ StageOf(m) = q
  BY <1>2 DEF Later, Subject, Opens, OpenLabel, StageOf, Keeps
<1>8. PairPart(st2)
  <2>1. \A g \in Fd : Same(f, g) => Agree(l, st[g])
    BY <1>2 DEF Explains, PairPart
  <2>2. \A g \in Fd : Same(f, g) => Agree(q, st[g])
    BY <2>1 DEF Agree, Before, In, Awaited, Entering, Asking, Asked, Leaving, Meeting, Ending
  <2> QED BY <1>2, <1>3, <2>2, PairMove DEF Explains
<1>9. Apart(st, ag, st2, ag, {f})
  BY <1>2, <1>4 DEF Apart, In
<1>10. Recorded(st, {f})
  BY <1>0, RecordedSame
<1>11. Cleared({f}, {m})
  <2>1. {c} \cap Life(f) # {} /\ st[f] # "out"
    BY <1>2
  <2> QED BY <1>2, <2>1, ClearedTake DEF Explains
<1>12. Fits(st2, ag, m, f)'
  <2>1. StageOf(m) \in Awaited /\ c.ret = "open_ret"
    BY <1>2, <1>7 DEF Awaited, FitsAwaited
  <2> QED BY <1>2, <1>4, <1>7, <2>1, AwaitedFits DEF Keeps
<1>13. \A k \in {m} : ~ Later(k) => Subject(k) \in {f} /\ Fits(st2, ag, k, Subject(k))'
  <2>1. Subject(m)' = Subject(m)
    BY DEF Subject, Opens, SocketOf
  <2> QED BY <1>7, <1>12, <2>1
<1>14. Outside({f})
  BY <1>0 DEF Outside
<1>15. \A h \in {f} : SockAt(st2[h], h)'
  <2>1. SockAt(l, f)
    BY <1>2 DEF Explains, SockPart
  <2>2. SockAt(q, f)'
    BY <1>0, <2>1 DEF SockAt, OpenStage, ShutStage, FwdStage, Entering, Asking, Asked, Awaited, Leaving, Meeting, Ending
  <2> QED BY <1>4, <2>2
<1>16. AgPart(st2, ag)'
  <2>1. AgAt(st, ag, f)
    BY <1>2 DEF Explains, AgPart
  <2>2. AgAt(st2, ag, f)'
    BY <1>0, <1>2, <1>4, <2>1 DEF AgAt, HasStage, FwdStage, Awaited, Leaving, Meeting, Ending
  <2>3. AgLike(st2, ag, ag, {f})'
    BY <2>2 DEF AgLike
  <2> QED BY <1>0, <1>4, <1>14, <2>3, AgKept DEF Explains
<1>17. RecPart(st2, ag)'
  <2>1. RecLike(st, ag, st2, ag, {f})
    BY <1>2, <1>4 DEF RecLike, RecStage, UseStage, Leaving, Meeting
  <2> QED BY <1>0, <1>4, <2>1, RecKept DEF Explains
<1>18. FirstPart(st2)'
  <2>1. FirstLike(st, st2, {c}, {m})
    BY <1>2, <1>4, <1>7 DEF FirstLike, Life, Data
  <2> QED BY <2>1, FirstKept DEF Explains
<1>19. KickPart(st2, ag)'
  <2>1. BackLike(st, ag, st2, ag, {c}, {m})
    BY <1>2, <1>4, <1>7 DEF BackLike, Life, Meeting
  <2>2. RetLike(st, st2, {c}, {m})
    BY <1>2, <1>4, <1>7 DEF RetLike, Life
  <2>3. LeaveLike(st, st2)
    BY <1>2, <1>4 DEF LeaveLike, Asked
  <2> QED BY <2>1, <2>2, <2>3, KickKept DEF Explains, KickLike
<1>20. SockPart(st2)'
  BY <1>4, <1>14, <1>15, SockKept DEF Explains
<1>21. FlyPart(st2, ag)'
  BY <1>3, <1>9, <1>10, <1>11, <1>13, FlyKept DEF Explains
<1>22. Explains(st2, ag)'
  BY <1>5, <1>8, <1>16, <1>17, <1>18, <1>19, <1>20, <1>21 DEF Explains
<1> QED BY <1>22 DEF Explained

\* The socket a coroutine opens the agent a for.
LEMMA OpeningOf ==
    ASSUME IInv, NEW st, NEW ag, Explains(st, ag), NEW a \in Agent, NEW l,
           l \in {"opened", "register"}, At(a, l),
           NEW c, c = Cur(a), NEW f, f = Subject(c)
    PROVE  /\ f \in Fd /\ st[f] = l /\ ag[f] = a /\ c.nfd = f /\ c.account = AccountOf[f]
           /\ c \in Life(f)
           /\ \A h \in Fd \ {f} : ag[h] # a
<1>1. Handles(a, c, l)
  BY Handling, ServiceOf DEF Explains
<1>2. /\ f \in Fd /\ c.nfd = f /\ c.at = l /\ Home(c) = a /\ st[f] = l /\ c \in Life(f)
      /\ ag[f] \in Agent /\ c.callee = ag[f] /\ c.account = AccountOf[f]
  <2>1. l \in OpenLabel
    BY DEF OpenLabel
  <2> QED BY <1>1, <2>1, OpensOf, ServiceOf
<1>3. ag[f] = a
  BY <1>2 DEF Home, AgentLabel
<1>4. \A h \in Fd \ {f} : ag[h] # a
  <2>1. a # Nil
    BY NilAssumption
  <2> QED BY <1>2, <1>3, <2>1 DEF Explains, AgPart
<1> QED BY <1>2, <1>3, <1>4

LEMMA OpenedEx ==
    ASSUME IInv, IInv', NEW st, NEW ag, Explains(st, ag), NEW a \in Agent, Opened(a)
    PROVE  Explained'
<1>00. PICK l, q : l = "opened" /\ q = "register"
  OBVIOUS
<1>0. PICK c, f, m, st2 : /\ c = Cur(a) /\ f = Subject(c) /\ m = [c EXCEPT !.at = q]
                          /\ st2 = [st EXCEPT ![f] = q]
  OBVIOUS
<1>1. At(a, l) /\ Yield(a, m)
  BY <1>0, <1>00 DEF Opened
<1>2. /\ f \in Fd /\ c \in Life(f) /\ st[f] = "opened" /\ ag[f] = a /\ c.nfd = f /\ c.account = AccountOf[f]
      /\ \A h \in Fd \ {f} : ag[h] # a
  BY <1>0, <1>00, <1>1, OpeningOf
<1>3. /\ user' = [user EXCEPT ![a] = [fd |-> f, account |-> AccountOf[f]]]
      /\ UNCHANGED cmds /\ Stays
  BY <1>0, <1>2 DEF Opened, Stays, sockVars, gateVars, gamedVars
<1>4. /\ user'[a] = [fd |-> f, account |-> AccountOf[f]]
      /\ \A b \in Agent \ {a} : user'[b] = user[b]
  BY <1>3 DEF IInv, AgentType
<1>5. /\ st2[f] = "register" /\ \A h \in Fd \ {f} : st2[h] = st[h]
      /\ "register" \in UseStage /\ "opened" \notin UseStage
  BY <1>0, <1>00, <1>2 DEF Explains, Ghosts, UseStage, Leaving, Meeting
<1>6. UserPart(st2, ag)'
  <2>0. UserPart(st, ag)
    BY DEF Explains
  <2>1. ASSUME NEW h \in Fd, st2[h] \in UseStage
        PROVE  user'[ag[h]] = [fd |-> h, account |-> AccountOf[h]]
    <3>1. CASE h = f
      BY <1>2, <1>4, <3>1
    <3>2. CASE h # f
      <4>1. st[h] \in UseStage /\ ag[h] # a
        BY <1>2, <1>5, <2>1, <3>2
      <4>2. ag[h] \in Agent
        BY <4>1, UserOf
      <4> QED BY <1>4, <2>0, <4>1, <4>2 DEF UserPart
    <3> QED BY <3>1, <3>2
  <2>2. ASSUME NEW b \in Agent, user'[b] # Nil
        PROVE  \E h \in Fd : ag[h] = b /\ st2[h] \in UseStage
    <3>1. CASE b = a
      BY <1>2, <1>5, <3>1
    <3>2. CASE b # a
      <4>1. PICK h \in Fd : ag[h] = b /\ st[h] \in UseStage
        BY <1>4, <2>0, <2>2, <3>2 DEF UserPart
      <4> QED BY <1>2, <1>5, <3>2, <4>1
    <3> QED BY <3>1, <3>2
  <2>3. ASSUME NEW b \in Agent, cmds'[b]
        PROVE  \E h \in Fd : ag[h] = b /\ st2[h] \in UseStage /\ st2[h] # "register"
    <3>1. PICK h \in Fd : ag[h] = b /\ st[h] \in UseStage /\ st[h] # "register"
      BY <1>3, <2>0, <2>3 DEF UserPart
    <3> QED BY <1>2, <1>5, <3>1
  <2> QED BY <2>1, <2>2, <2>3 DEF UserPart
<1>7. Opens2(a, c, l, q, m)
  <2>1. Goes(a, l, m)
    BY <1>0, <1>1, YieldGoes, ServiceOf DEF Explains
  <2>2. Handles(a, c, l) /\ Moves({c}, {m}) /\ Placed' /\ c \in GoodMsg
    BY <1>0, <2>1 DEF Goes, Handles
  <2>3. Keeps(m, c) /\ m.at = q /\ m.ret = c.ret
    BY <1>0, <2>2, Moved
  <2> QED BY <2>2, <2>3 DEF Opens2
<1>8. Stays /\ c \in Life(f)
  BY <1>2, <1>3
<1>9. OpenStep(l, q) /\ Turned(st, st2, f, q)
  BY <1>0, <1>00 DEF OpenStep, Turned
<1> QED BY <1>6, <1>7, <1>8, <1>9, OpeningEx

LEMMA RegisterEx ==
    ASSUME IInv, IInv', NEW st, NEW ag, Explains(st, ag), NEW a \in Agent, Register(a)
    PROVE  Explained'
<1>00. PICK l, q : l = "register" /\ q = "welcome"
  OBVIOUS
<1>0. PICK c, f, m, st2 : /\ c = Cur(a) /\ f = Subject(c) /\ m = [c EXCEPT !.at = q]
                          /\ st2 = [st EXCEPT ![f] = q]
  OBVIOUS
<1>1. At(a, l) /\ Yield(a, m)
  BY <1>0, <1>00 DEF Register
<1>2. f \in Fd /\ c \in Life(f) /\ st[f] = "register" /\ ag[f] = a
  BY <1>0, <1>00, <1>1, OpeningOf
<1>3. /\ cmds' = [cmds EXCEPT ![a] = TRUE] /\ UNCHANGED user /\ Stays
  BY DEF Register, Stays, sockVars, gateVars, gamedVars
<1>4. \A b \in Agent \ {a} : cmds'[b] = cmds[b]
  BY <1>3 DEF IInv, AgentType
<1>5. /\ st2[f] = "welcome" /\ \A h \in Fd \ {f} : st2[h] = st[h]
      /\ "register" \in UseStage /\ "welcome" \in UseStage
  BY <1>0, <1>00, <1>2 DEF Explains, Ghosts, UseStage
<1>6. UserPart(st2, ag)'
  <2>0. UserPart(st, ag)
    BY DEF Explains
  <2>1. \A h \in Fd : st2[h] \in UseStage <=> st[h] \in UseStage
    BY <1>2, <1>5
  <2>2. ASSUME NEW b \in Agent, cmds'[b]
        PROVE  \E h \in Fd : ag[h] = b /\ st2[h] \in UseStage /\ st2[h] # "register"
    <3>1. CASE b = a
      BY <1>2, <1>5, <3>1
    <3>2. CASE b # a
      <4>1. cmds[b]
        BY <1>4, <2>2, <3>2
      <4>2. PICK h \in Fd : ag[h] = b /\ st[h] \in UseStage /\ st[h] # "register"
        BY <2>0, <4>1 DEF UserPart
      <4> QED BY <1>2, <1>5, <4>2
    <3> QED BY <3>1, <3>2
  <2> QED BY <1>3, <2>0, <2>1, <2>2 DEF UserPart
<1>7. Opens2(a, c, l, q, m)
  <2>1. Goes(a, l, m)
    BY <1>0, <1>1, YieldGoes, ServiceOf DEF Explains
  <2>2. Handles(a, c, l) /\ Moves({c}, {m}) /\ Placed' /\ c \in GoodMsg
    BY <1>0, <2>1 DEF Goes, Handles
  <2>3. Keeps(m, c) /\ m.at = q /\ m.ret = c.ret
    BY <1>0, <2>2, Moved
  <2> QED BY <2>2, <2>3 DEF Opens2
<1>8. Stays /\ c \in Life(f)
  BY <1>2, <1>3
<1>9. OpenStep(l, q) /\ Turned(st, st2, f, q)
  BY <1>0, <1>00 DEF OpenStep, Turned
<1> QED BY <1>6, <1>7, <1>8, <1>9, OpeningEx

\* The agent drops its user and tells the gate: the answer to the kick, if the
\* close was asked for by one, is ahead of that in the gate's mailbox.
LEMMA CloseFinishEx ==
    ASSUME IInv, IInv', NEW st, NEW ag, Explains(st, ag), NEW a \in Agent, CloseFinish(a)
    PROVE  Explained'
<1>00. PICK l, q : l = "close_finish" /\ q = "gamed_close"
  OBVIOUS
<1>0. PICK c, f, m, st1, st2 : /\ c = Cur(a) /\ f = SocketOf(c) /\ m = [c EXCEPT !.at = q]
                               /\ st1 = [st EXCEPT ![f] = "recycle"]
                               /\ st2 = [st EXCEPT ![f] = q]
  OBVIOUS
<1>1. At(a, l) /\ Send(a, Gate, m)
  BY <1>0, <1>00 DEF CloseFinish
<1>2. /\ Handles(a, c, l) /\ c \in GoodMsg /\ c.at = l /\ c.callee = a
      /\ f \in Fd /\ Subject(c) = f /\ c \in Life(f) /\ StageOf(c) = l
      /\ st[f] = l /\ FitsLeaving(ag, c, f) /\ ag[f] = a
  BY <1>0, <1>00, <1>1, ClosingUser
<1>3. /\ user' = [user EXCEPT ![a] = Nil] /\ cmds' = [cmds EXCEPT ![a] = FALSE]
      /\ sock' = sock /\ creq' = creq /\ nsent' = nsent /\ connection' = connection
      /\ forwarded' = forwarded /\ pending_msg' = pending_msg /\ pool' = pool
      /\ spawned' = spawned /\ online_account' = online_account
  BY DEF CloseFinish, sockVars, gateVars, gamedVars
<1>4. /\ user'[a] = Nil /\ ~ cmds'[a]
      /\ \A b \in Agent \ {a} : user'[b] = user[b] /\ cmds'[b] = cmds[b]
  BY <1>3 DEF IInv, AgentType
<1>5. st \in [Fd -> Stage] /\ Ghosts(st, ag) /\ q \in Stage
  BY <1>00 DEF Explains, Ghosts, Stage, FwdStage
<1>6. /\ st2 \in [Fd -> Stage] /\ st2[f] = q /\ st1[f] = "recycle"
      /\ \A h \in Fd \ {f} : st2[h] = st[h] /\ st1[h] = st[h]
  BY <1>0, <1>2, <1>5
<1>7. Ghosts(st2, ag)
  BY <1>5, <1>6 DEF Ghosts
<1>8. /\ Keeps(m, c) /\ m.at = q /\ ~ Later(m) /\ Subject(m) = f /\ StageOf(m) = q
      /\ Home(m) = Gate
  <2>1. Keeps(m, c) /\ m.at = q
    BY <1>0, <1>2, Moved
  <2> QED BY <1>0, <1>00, <1>2, <2>1 DEF Later, Subject, Opens, OpenLabel, StageOf, Home,
             AgentLabel, Keeps, SocketOf
<1>9. Moves({c}, {m}) /\ Placed'
  <2>1. Goes(a, l, m)
    BY <1>1, <1>8, SendGoes, ServiceOf DEF Explains
  <2> QED BY <1>0, <2>1 DEF Goes
<1>10. PairPart(st2)
  <2>1. \A g \in Fd : Same(f, g) => Agree(l, st[g])
    BY <1>2 DEF Explains, PairPart
  <2>2. \A g \in Fd : Same(f, g) => Agree(q, st[g])
    BY <1>00, <2>1 DEF Agree, Before, In, Awaited, Entering, Asking, Asked, Leaving, Meeting, Ending
  <2> QED BY <1>0, <1>2, <1>5, <2>2, PairMove DEF Explains
<1>11. Apart(st, ag, st2, ag, {f})
  BY <1>00, <1>2, <1>6 DEF Apart, In
<1>12. Recorded(st, {f})
  BY <1>3, RecordedSame
<1>13. Cleared({f}, {m})
  <2>1. {c} \cap Life(f) # {} /\ st[f] # "out"
    BY <1>00, <1>2
  <2> QED BY <1>2, <1>9, <2>1, ClearedTake DEF Explains
<1>14. Fits(st2, ag, m, f)'
  <2>1. FitsLeaving(ag, m, f)
    BY <1>00, <1>2, <1>8 DEF FitsLeaving, Keeps
  <2> QED BY <1>00, <1>2, <1>6, <1>8, <2>1 DEF Fits, FitsLeaving, Asks, Awaited, Asking
<1>15. \A k \in {m} : ~ Later(k) => Subject(k) \in {f} /\ Fits(st2, ag, k, Subject(k))'
  <2>1. Subject(m)' = Subject(m)
    BY DEF Subject, Opens, SocketOf
  <2> QED BY <1>8, <1>14, <2>1
<1>16. Outside({f})
  BY <1>3 DEF Outside
<1>17. \A h \in {f} : SockAt(st2[h], h)'
  <2>1. SockAt(l, f)
    BY <1>2 DEF Explains, SockPart
  <2>2. SockAt(q, f)'
    BY <1>00, <1>3, <2>1 DEF SockAt, OpenStage, ShutStage, FwdStage, Entering, Asking, Asked, Awaited, Leaving, Meeting, Ending
  <2> QED BY <1>6, <2>2
<1>18. AgPart(st2, ag)'
  <2>1. AgAt(st, ag, f)
    BY <1>2 DEF Explains, AgPart
  <2>2. AgAt(st2, ag, f)'
    BY <1>00, <1>2, <1>3, <1>6, <2>1 DEF AgAt, HasStage, FwdStage, Awaited, Leaving, Meeting, Ending
  <2>3. AgLike(st2, ag, ag, {f})'
    BY <2>2 DEF AgLike
  <2> QED BY <1>3, <1>6, <1>16, <2>3, AgKept DEF Explains
<1>19. UserPart(st2, ag)'
  <2>0. UserPart(st, ag)
    BY DEF Explains
  <2>1. q \notin UseStage /\ \A h \in Fd \ {f} : ag[h] # a
    <3>1. a # Nil
      BY NilAssumption
    <3> QED BY <1>00, <1>2, <3>1 DEF Explains, AgPart, UseStage, Leaving, Meeting
  <2>2. ASSUME NEW h \in Fd, st2[h] \in UseStage
        PROVE  user'[ag[h]] = [fd |-> h, account |-> AccountOf[h]]
    <3>1. h # f
      BY <1>6, <2>1, <2>2
    <3>2. st[h] \in UseStage /\ ag[h] # a
      BY <1>6, <2>1, <2>2, <3>1
    <3>3. ag[h] \in Agent
      BY <3>2, UserOf
    <3> QED BY <1>4, <2>0, <3>2, <3>3 DEF UserPart
  <2>3. ASSUME NEW b \in Agent, user'[b] # Nil
        PROVE  \E h \in Fd : ag[h] = b /\ st2[h] \in UseStage
    <3>1. b # a
      BY <1>4, <2>3
    <3>2. PICK h \in Fd : ag[h] = b /\ st[h] \in UseStage
      BY <1>4, <2>0, <2>3, <3>1 DEF UserPart
    <3> QED BY <1>2, <1>6, <3>1, <3>2
  <2>4. ASSUME NEW b \in Agent, cmds'[b]
        PROVE  \E h \in Fd : ag[h] = b /\ st2[h] \in UseStage /\ st2[h] # "register"
    <3>1. b # a
      BY <1>4, <2>4
    <3>2. cmds[b]
      BY <1>4, <2>4, <3>1
    <3>3. PICK h \in Fd : ag[h] = b /\ st[h] \in UseStage /\ st[h] # "register"
      BY <2>0, <3>2 DEF UserPart
    <3> QED BY <1>2, <1>6, <3>1, <3>3
  <2> QED BY <2>2, <2>3, <2>4 DEF UserPart
<1>20. RecPart(st2, ag)'
  <2>1. RecLike(st, ag, st2, ag, {f})
    BY <1>00, <1>2, <1>6 DEF RecLike, RecStage, UseStage, Leaving, Meeting
  <2> QED BY <1>3, <1>6, <2>1, RecKept DEF Explains
<1>21. FirstPart(st2)'
  <2>1. FirstLike(st, st2, {c}, {m})
    BY <1>00, <1>2, <1>6, <1>8 DEF FirstLike, Life, Data
  <2> QED BY <1>9, <2>1, FirstKept DEF Explains
<1>22. BackPart(st2, ag)'
  <2>1. BackLike(st, ag, st2, ag, {c}, {m})
    BY <1>00, <1>2, <1>6, <1>8 DEF BackLike, Life, Meeting
  <2> QED BY <1>5, <1>9, <2>1, BackKept DEF Explains, KickPart
<1>23. RetPart(st2)'
  <2>1. RetLike(st, st1, {c}, {m})
    BY <1>00, <1>2, <1>6, <1>8 DEF RetLike, Life
  <2>2. RetPart(st1)'
    BY <1>9, <2>1, RetKept DEF Explains, KickPart
  <2>3. mbox[Gate] \in Seq(GoodMsg) /\ mbox'[Gate] = Append(mbox[Gate], m) /\ m \in GoodMsg
    <3>1. mbox' = [mbox EXCEPT ![a] = Tail(@), ![Gate] = Append(@, m)]
      BY <1>1 DEF Send
    <3>2. m \in GoodMsg
      BY <1>9, MailOf, MoveFacts
    <3> QED BY <3>1, <3>2, MailOf, ServiceOf DEF Mail
  <2>4. Free(mbox[Gate], Life(f))
    <3>1. Alone(mbox, ext, Life(f))
      BY <1>00, <1>2 DEF Explains, FlyPart
    <3>2. ~ Free(mbox[a], Life(f))
      BY <1>2 DEF Handles, Free
    <3> QED BY <3>1, <3>2, ServiceOf DEF Alone
  <2>5. ASSUME NEW g \in Fd, st2[g] = "kick_ret"
        PROVE  /\ ~ Free(mbox'[Gate], Life(g))
               /\ \A h \in Fd : Same(h, g) /\ st2[h] = "gamed_close" =>
                    Ahead(mbox'[Gate], Life(g), Life(h))
    <3>1. st1[g] = "kick_ret" /\ g # f
      BY <1>00, <1>6, <2>5
    <3>2. /\ ~ Free(mbox'[Gate], Life(g))
          /\ \A h \in Fd : Same(h, g) /\ st1[h] = "gamed_close" =>
                Ahead(mbox'[Gate], Life(g), Life(h))
      BY <2>2, <3>1 DEF RetPart, Life, Later, Subject, Opens, SocketOf
    <3>3. Ahead(mbox'[Gate], Life(g), Life(f))
      <4>1. m \notin Life(g)
        BY <1>8, <3>1 DEF Life
      <4> QED BY <2>3, <2>4, <4>1, AppendAhead
    <3>4. ASSUME NEW h \in Fd, Same(h, g), st2[h] = "gamed_close"
          PROVE  Ahead(mbox'[Gate], Life(g), Life(h))
      BY <1>6, <3>2, <3>3, <3>4
    <3> QED BY <3>2, <3>4
  <2> QED BY <2>5 DEF RetPart, Life, Later, Subject, Opens, SocketOf
<1>24. LeavePart(st2)
  <2>1. LeaveLike(st, st2)
    BY <1>00, <1>2, <1>6 DEF LeaveLike, Asked
  <2> QED BY <2>1, LeaveKept DEF Explains, KickPart
<1>25. KickPart(st2, ag)'
  BY <1>22, <1>23, <1>24 DEF KickPart
<1>26. SockPart(st2)'
  BY <1>6, <1>16, <1>17, SockKept DEF Explains
<1>27. FlyPart(st2, ag)'
  BY <1>5, <1>9, <1>11, <1>12, <1>13, <1>15, FlyKept DEF Explains
<1>28. Explains(st2, ag)'
  BY <1>7, <1>9, <1>10, <1>18, <1>19, <1>20, <1>21, <1>25, <1>26, <1>27 DEF Explains
<1> QED BY <1>28 DEF Explained

-----------------------------------------------------------------------------
(* The steps of a service that finds no user are none: the invariant.      *)

\* A handler that needs the user of its agent finds it.
LEMMA NothingFails ==
    ASSUME IInv, NEW st, NEW ag, Explains(st, ag), NEW a \in Agent
    PROVE  /\ ~ RegisterFailed(a) /\ ~ WelcomeFailed(a)
           /\ ~ AgentCloseFailed(a) /\ ~ OtherLoginFailed(a)
<1>0. PICK c : c = Cur(a)
  OBVIOUS
<1>1. a \in Service /\ a # Nil /\ Placed
  BY ServiceOf, NilAssumption DEF Explains
<1>2. ASSUME NEW l, l \in {"register", "welcome"}, At(a, l)
      PROVE  user[a] # Nil /\ \E f \in Fd : ag[f] = a /\ st[f] = l
  <2>1. Handles(a, c, l)
    BY <1>0, <1>1, <1>2, Handling
  <2>2. PICK f : f = Subject(c)
    OBVIOUS
  <2>3. /\ f \in Fd /\ c.at = l /\ Home(c) = a /\ st[f] = l /\ c.callee = ag[f]
    <3>1. l \in OpenLabel
      BY <1>2 DEF OpenLabel
    <3> QED BY <1>1, <2>1, <2>2, <3>1, OpensOf
  <2>4. ag[f] = a /\ st[f] \in UseStage
    BY <1>2, <2>3 DEF Home, AgentLabel, UseStage
  <2> QED BY <2>3, <2>4, UserOf
<1>3. ~ RegisterFailed(a)
  <2> SUFFICES ASSUME RegisterFailed(a) PROVE FALSE
    OBVIOUS
  <2>1. PICK f \in Fd : ag[f] = a /\ st[f] = "register"
    BY <1>2 DEF RegisterFailed
  <2>2. cmds[a]
    BY <1>2 DEF RegisterFailed
  <2>3. PICK h \in Fd : ag[h] = a /\ st[h] # "register"
    BY <2>2 DEF Explains, UserPart
  <2> QED BY <1>1, <2>1, <2>3 DEF Explains, AgPart
<1>4. ~ WelcomeFailed(a)
  BY <1>2 DEF WelcomeFailed, Failed
<1>5. ~ AgentCloseFailed(a)
  BY <1>0, ClosingUser DEF AgentCloseFailed, Failed
<1>6. ~ OtherLoginFailed(a)
  <2> SUFFICES ASSUME NEW l \in {"other_login", "other_write"}, At(a, l), user[a] = Nil
               PROVE  FALSE
    BY DEF OtherLoginFailed, Failed
  <2>1. Handles(a, c, l)
    BY <1>0, <1>1, Handling
  <2>2. PICK g : g = SocketOf(c)
    OBVIOUS
  <2>3. /\ g \in Fd /\ c.at = l /\ Home(c) = a /\ st[g] = l /\ Fits(st, ag, c, g)
    BY <1>1, <2>1, <2>2, OwnOf DEF OpenLabel
  <2>4. FitsAsking(st, ag, c, g) /\ c.callee = a
    BY <2>3 DEF Fits, Asking, Home, AgentLabel
  <2>5. PICK f \in Fd : st[f] = "served" /\ ag[f] = a
    BY <2>4 DEF FitsAsking
  <2> QED BY <2>5, UserOf DEF UseStage
<1> QED BY <1>3, <1>4, <1>5, <1>6

LEMMA GateStepEx ==
    ASSUME IInv, IInv', NEW st, NEW ag, Explains(st, ag), GateStep PROVE Explained'
<1>1. CASE Refuse \/ Accept \/ Redirect \/ Enqueue \/ StartLogin
  BY <1>1, RefuseEx, AcceptEx, RedirectEx, EnqueueEx, StartLoginEx
<1>2. CASE LoginRefused \/ RefusedClose \/ LoginFresh \/ LoginTakeover
  BY <1>2, LoginRefusedEx, RefusedCloseEx, LoginFreshEx, LoginTakeoverEx
<1>3. CASE OtherLoginDone \/ KickDone \/ Assign \/ PendingHang \/ Forward
  BY <1>3, OtherLoginDoneEx, KickDoneEx, AssignEx, PendingHangEx, ForwardEx
<1>4. CASE MsgClose \/ CloseUnknown \/ CloseWithoutAgent \/ CloseWithAgent
  BY <1>4, MsgCloseEx, CloseUnknownEx, CloseWithoutAgentEx, CloseWithAgentEx
<1>5. CASE CloseForTakeover \/ CloseOffline \/ Recycle \/ CloseDone
  BY <1>5, CloseForTakeoverEx, CloseOfflineEx, RecycleEx, CloseDoneEx
<1>6. CASE Kick \/ KickClose
  BY <1>6, KickEx, KickCloseEx
<1> QED BY <1>1, <1>2, <1>3, <1>4, <1>5, <1>6 DEF GateStep

LEMMA AgentStepEx ==
    ASSUME IInv, IInv', NEW st, NEW ag, Explains(st, ag), NEW a \in Agent, AgentStep(a)
    PROVE  Explained'
<1>1. CASE \/ RegisterFailed(a) \/ WelcomeFailed(a)
           \/ AgentCloseFailed(a) \/ OtherLoginFailed(a)
  BY <1>1, NothingFails
<1>2. CASE AgentOpen(a) \/ Opened(a) \/ Register(a) \/ Welcome(a)
  BY <1>2, AgentOpenEx, OpenedEx, RegisterEx, WelcomeEx
<1>3. CASE AgentClose(a) \/ Closing(a) \/ CloseFinish(a) \/ GamedClosed(a)
  BY <1>3, AgentCloseEx, ClosingEx, CloseFinishEx, GamedClosedEx
<1>4. CASE \/ OtherLogin(a) \/ OtherWrite(a) \/ AgentKick(a) \/ AgentKickSelf(a)
           \/ AgentReturn(a) \/ MyDispatch(a)
  BY <1>4, OtherLoginEx, OtherWriteEx, AgentKickEx, AgentKickSelfEx, AgentReturnEx,
     MyDispatchEx
<1> QED BY <1>1, <1>2, <1>3, <1>4 DEF AgentStep

LEMMA ClientStepEx ==
    ASSUME Discipline = "takeover", EarlyDrop = FALSE,
           IInv, IInv', NEW st, NEW ag, Explains(st, ag), NEW f \in Fd, ClientStep(f)
    PROVE  Explained'
BY ClientConnectEx, ClientSendEx, ClientDropEx DEF ClientStep

LEMMA StutterEx ==
    ASSUME IInv, IInv', NEW st, NEW ag, Explains(st, ag), UNCHANGED vars
    PROVE  Explained'
<1>1. Idles /\ mbox' = mbox /\ ext' = ext
  BY DEF Idles, vars, sockVars, gateVars, gamedVars, agentVars
<1>2. Moves({}, {})
  BY <1>1 DEF Moves
<1>3. Placed'
  BY <1>1 DEF Explains, Placed, Free, Stray, Home
<1>4. FirstLike(st, st, {}, {}) /\ KickLike(st, ag, st, ag, {}, {})
  BY DEF FirstLike, KickLike, BackLike, RetLike, LeaveLike
<1> QED BY <1>1, <1>2, <1>3, <1>4, StillIdle

\* Under the discipline, every step leads from an explained state to another.
LEMMA NextEx ==
    ASSUME Discipline = "takeover", EarlyDrop = FALSE,
           IInv, IInv', Explained, [Next]_vars
    PROVE  Explained'
<1>1. PICK st, ag : Explains(st, ag)
  BY DEF Explained
<1>2. CASE GateStep
  BY <1>1, <1>2, GateStepEx
<1>3. CASE \E a \in Agent : AgentStep(a)
  BY <1>1, <1>3, AgentStepEx
<1>4. CASE \E m \in ext : Reply(m)
  BY <1>1, <1>4, ReplyEx
<1>5. CASE \E fd \in Fd : SocketClose(fd)
  BY <1>1, <1>5, SocketCloseEx
<1>6. CASE \E fd \in Fd : ClientStep(fd)
  BY <1>1, <1>6, ClientStepEx
<1>7. CASE UNCHANGED vars
  BY <1>1, <1>7, StutterEx
<1> QED BY <1>2, <1>3, <1>4, <1>5, <1>6, <1>7 DEF Next, ServerStep

\* At the beginning no socket has been opened.
LEMMA InitEx == ASSUME IInv, Init PROVE Explained
<1>0. PICK st, ag : st = [fd \in Fd |-> "none"] /\ ag = [fd \in Fd |-> Nil]
  OBVIOUS
<1>1. /\ \A fd \in Fd : st[fd] = "none" /\ ag[fd] = Nil
      /\ Ghosts(st, ag)
  BY <1>0 DEF Ghosts, Stage, Opt
<1>2. /\ \A s \in Service : mbox[s] = << >> /\ Len(mbox[s]) = 0
      /\ ext = {}
  BY DEF Init, Service
<1>3. \A B : \A s \in Service : Free(mbox[s], B)
  BY <1>2 DEF Free
<1>4. \A m : ~ Flies(m)
  BY <1>2 DEF Flies, Flying
<1>5. Placed
  BY <1>3 DEF Placed
<1>6. SockPart(st)
  BY <1>1 DEF SockPart, SockAt, Init, OpenStage, ShutStage, FwdStage, Entering, Asking, Asked,
     Awaited, Leaving, Meeting, Ending
<1>7. AgPart(st, ag)
  <2>1. /\ Len(pool) = InitPool
        /\ \A i \in 1 .. Len(pool) : pool[i] = i
        /\ spawned = InitPool
    BY BoundAssumption DEF Init
  <2>2. \A fd \in Fd : AgAt(st, ag, fd)
    BY <1>1 DEF AgAt, HasStage, Awaited, Leaving, Meeting
  <2> QED BY <1>1, <2>1, <2>2, BoundAssumption DEF AgPart
<1>8. UserPart(st, ag)
  BY <1>1 DEF UserPart, Init, UseStage, Leaving, Meeting
<1>9. RecPart(st, ag)
  BY <1>1 DEF RecPart, Init, Kicked, RecStage, UseStage, Leaving, Meeting
<1>10. PairPart(st)
  BY <1>1 DEF PairPart, Agree, In
<1>11. FlyPart(st, ag)
  <2>1. ASSUME NEW B PROVE Alone(mbox, ext, B)
    <3>1. Gone(mbox, ext, B)
      BY <1>2, <1>3 DEF Gone
    <3> QED BY <3>1, GoneAlone
  <2> QED BY <1>4, <2>1 DEF FlyPart
<1>12. FirstPart(st) /\ KickPart(st, ag)
  BY <1>1, <1>4 DEF FirstPart, KickPart, BackPart, RetPart, LeavePart
<1>13. Explains(st, ag)
  BY <1>1, <1>5, <1>6, <1>7, <1>8, <1>9, <1>10, <1>11, <1>12 DEF Explains
<1> QED BY <1>13 DEF Explained

\* In every behaviour of the discipline the state is explained by the stages.
THEOREM TakeoverInvariant ==
    ASSUME Discipline = "takeover", EarlyDrop = FALSE
    PROVE  Spec => []Explained
<1>1. Init => IInv /\ Explained
  BY InitInv, InitEx
<1>2. (IInv /\ Explained) /\ [Next]_vars => (IInv /\ Explained)'
  BY NextInv, NextEx
<1> QED BY <1>1, <1>2, PTL DEF Spec

-----------------------------------------------------------------------------
(* What the stages say of the gate and its agents.                         *)

LEMMA InFlightFlies ==
    ASSUME IInv, NEW m \in InFlight PROVE Flies(m) /\ m \in GoodMsg
<1>1. m \in ext \/ \E s \in DOMAIN mbox : \E i \in DOMAIN mbox[s] : mbox[s][i] = m
  BY DEF InFlight
<1>2. DOMAIN mbox = Service /\ \A s \in Service : DOMAIN mbox[s] = 1 .. Len(mbox[s])
  BY MailOf DEF Mail
<1>3. Flies(m)
  BY <1>1, <1>2 DEF Flies, Flying
<1> QED BY <1>3, FlyGood

\* The agents in the pool are no socket's agents.
LEMMA ExplainedPool ==
    ASSUME IInv, NEW st, NEW ag, Explains(st, ag)
    PROVE  PoolIdle
<1>1. /\ SockPart(st) /\ AgPart(st, ag) /\ UserPart(st, ag) /\ RecPart(st, ag)
      /\ Ghosts(st, ag)
  BY DEF Explains
<1>2. DOMAIN pool = 1 .. Len(pool) /\ \A i \in DOMAIN pool : pool[i] \in Agent
  BY DEF IInv, GamedType
<1>3. \A i, j \in DOMAIN pool : pool[i] = pool[j] => i = j
  BY <1>1, <1>2 DEF AgPart
<1>4. \A i \in DOMAIN pool : \A fd \in Fd : ag[fd] # pool[i]
  <2> SUFFICES ASSUME NEW i \in DOMAIN pool, NEW fd \in Fd, ag[fd] = pool[i] PROVE FALSE
    OBVIOUS
  <2>1. ag[fd] # Nil
    BY <1>2, NilAssumption
  <2> QED BY <1>1, <1>2, <2>1 DEF AgPart, AgAt
<1>5. ASSUME NEW i \in DOMAIN pool
      PROVE  user[pool[i]] = Nil /\ ~ cmds[pool[i]]
  BY <1>1, <1>2, <1>4 DEF UserPart
<1>6. ASSUME NEW i \in DOMAIN pool, NEW account \in Account, online_account[account] # Nil
      PROVE  online_account[account].agent # pool[i]
  BY <1>1, <1>4, <1>6 DEF RecPart
<1>7. ASSUME NEW i \in DOMAIN pool, NEW fd \in Fd, forwarded[fd] = pool[i]
      PROVE  sock[fd] = "closed"
  <2>1. forwarded[fd] # Nil
    BY <1>2, <1>7, NilAssumption
  <2>2. st[fd] \in FwdStage /\ SockAt(st[fd], fd) /\ AgAt(st, ag, fd)
    BY <1>1, <2>1 DEF SockPart, SockAt, AgPart
  <2>3. st[fd] \notin {"served", "leaving"}
    <3> SUFFICES ASSUME st[fd] \in {"served", "leaving"} PROVE FALSE
      OBVIOUS
    <3>1. ag[fd] # Nil
      BY <2>2 DEF AgAt, HasStage, Leaving, Meeting
    <3> QED BY <1>4, <1>7, <2>2, <3>1 DEF AgAt
  <2> QED BY <2>2, <2>3 DEF SockAt, ShutStage
<1>8. ASSUME NEW i \in DOMAIN pool, NEW m \in InFlight, Opening(m)
      PROVE  m.callee # pool[i]
  <2>1. m \in GoodMsg /\ Flies(m)
    BY InFlightFlies
  <2>2. StageOf(m) \in Awaited /\ ~ Later(m) /\ m.at \notin {"MSG.close", "close_fd"}
    BY <1>8 DEF Opening, StageOf, Awaited, Later
  <2>3. Fits(st, ag, m, Subject(m))
    BY <2>1, <2>2 DEF Explains, FlyPart
  <2>4. Subject(m) \in Fd /\ FitsAwaited(st, ag, m, Subject(m))
    BY <2>2, <2>3 DEF Fits
  <2> QED BY <1>4, <2>4 DEF FitsAwaited
<1> QED BY <1>3, <1>5, <1>6, <1>7, <1>8 DEF PoolIdle

\* The user of an agent is one of the sockets whose agent that is.
LEMMA ExplainedUser ==
    ASSUME IInv, NEW st, NEW ag, Explains(st, ag), NEW a \in Agent, user[a] # Nil
    PROVE  \E fd \in Fd : /\ ag[fd] = a /\ st[fd] \in UseStage
                          /\ user[a].account = AccountOf[fd]
<1>1. PICK fd \in Fd : ag[fd] = a /\ st[fd] \in UseStage
  BY DEF Explains, UserPart
<1> QED BY <1>1, UserOf

LEMMA ExplainedOwner ==
    ASSUME IInv, NEW st, NEW ag, Explains(st, ag)
    PROVE  OwnerRecorded
<1> SUFFICES ASSUME NEW a \in Agent, user[a] # Nil
             PROVE  /\ online_account[user[a].account] # Nil
                    /\ online_account[user[a].account].agent = a
  BY DEF OwnerRecorded
<1>1. PICK fd \in Fd : /\ ag[fd] = a /\ st[fd] \in UseStage
                       /\ user[a].account = AccountOf[fd]
  BY ExplainedUser
<1>2. st[fd] \in RecStage
  BY <1>1 DEF RecStage
<1> QED BY <1>1, <1>2 DEF Explains, RecPart

\* A kick reaches the agent of a socket that is served still.
LEMMA ExplainedKick ==
    ASSUME IInv, NEW st, NEW ag, Explains(st, ag)
    PROVE  KickSameAccount
<1> SUFFICES ASSUME NEW a \in Agent, At(a, "agent_kick"), user[a] # Nil
             PROVE  user[a].account = Cur(a).account
  BY DEF KickSameAccount
<1>1. PICK c, g : c = Cur(a) /\ g = SocketOf(c)
  OBVIOUS
<1>2. Handles(a, c, "agent_kick")
  BY <1>1, Handling, ServiceOf DEF Explains
<1>3. /\ g \in Fd /\ c.at = "agent_kick" /\ Home(c) = a /\ st[g] = "agent_kick"
      /\ Fits(st, ag, c, g)
  BY <1>1, <1>2, OwnOf, ServiceOf DEF OpenLabel
<1>4. FitsAsking(st, ag, c, g) /\ FitsRec(c, g) /\ c.callee = a
  BY <1>3 DEF Fits, Asking, Asks, Home, AgentLabel
<1>5. PICK f \in Fd : Same(f, g) /\ st[f] = "served" /\ ag[f] = a
  BY <1>4 DEF FitsAsking
<1>6. user[a].account = AccountOf[f]
  BY <1>5, UserOf DEF UseStage
<1> QED BY <1>1, <1>4, <1>5, <1>6 DEF Same, FitsRec

\* Who holds an account, or is about to, is the agent of a socket of it; of two
\* sockets with one account, one has not come that far, or is past it.
LEMMA ExplainedHolder ==
    ASSUME IInv, NEW st, NEW ag, Explains(st, ag), NEW a \in Agent, NEW account \in Account,
           Holds(a, account)
    PROVE  \E fd \in Fd : /\ ag[fd] = a /\ AccountOf[fd] = account
                          /\ st[fd] \in UseStage \cup {"agent_open", "opened"}
<1>1. CASE user[a] # Nil /\ user[a].account = account
  BY <1>1, ExplainedUser
<1>2. ASSUME NEW m \in InFlight, m.at \in {"agent_open", "opened"}, m.callee = a,
             m.account = account
      PROVE  \E fd \in Fd : /\ ag[fd] = a /\ AccountOf[fd] = account
                            /\ st[fd] \in {"agent_open", "opened"}
  <2>1. m \in GoodMsg /\ Flies(m)
    BY InFlightFlies
  <2>2. StageOf(m) = m.at /\ StageOf(m) \in Awaited /\ ~ Later(m)
    BY <1>2 DEF StageOf, Awaited, Later
  <2>3. Fits(st, ag, m, Subject(m))
    BY <2>1, <2>2 DEF Explains, FlyPart
  <2>4. /\ Subject(m) \in Fd /\ st[Subject(m)] = m.at
        /\ FitsAwaited(st, ag, m, Subject(m))
    BY <1>2, <2>2, <2>3 DEF Fits
  <2> QED BY <1>2, <2>4 DEF FitsAwaited
<1> QED BY <1>1, <1>2 DEF Holds

LEMMA ExplainedClose ==
    ASSUME IInv, NEW st, NEW ag, Explains(st, ag)
    PROVE  CloseBeforeOpen
<1> SUFFICES ASSUME NEW a \in Agent, NEW b \in Agent, NEW account \in Account,
                    Holds(a, account), Holds(b, account)
             PROVE  a = b
  BY DEF CloseBeforeOpen
<1>1. PICK f \in Fd : /\ ag[f] = a /\ AccountOf[f] = account
                      /\ st[f] \in UseStage \cup {"agent_open", "opened"}
  BY ExplainedHolder
<1>2. PICK g \in Fd : /\ ag[g] = b /\ AccountOf[g] = account
                      /\ st[g] \in UseStage \cup {"agent_open", "opened"}
  BY ExplainedHolder
<1>3. f = g
  <2> SUFFICES ASSUME f # g PROVE FALSE
    OBVIOUS
  <2>1. Agree(st[f], st[g])
    BY <1>1, <1>2 DEF Explains, PairPart, Same
  <2> QED BY <1>1, <1>2, <2>1 DEF Agree, Before, In, UseStage, Entering, Asking, Asked, Awaited,
             Leaving, Meeting, Ending
<1> QED BY <1>1, <1>2, <1>3

-----------------------------------------------------------------------------
(* The number of clients.                                                  *)

CountInv == /\ IsFiniteSet(connection)
            /\ nclient = Cardinality(connection) /\ nclient <= MaxClient

\* Whoever is counted was not, whoever is no longer counted was.
LEMMA CountAdded ==
    ASSUME CountInv, NEW f, f \notin connection, nclient < MaxClient, nclient \in Int,
           connection' = connection \cup {f}, nclient' = nclient + 1
    PROVE  CountInv'
<1>1. /\ IsFiniteSet(connection \cup {f})
      /\ Cardinality(connection \cup {f}) = Cardinality(connection) + 1
  BY FS_AddElement DEF CountInv
<1> QED BY <1>1, BoundAssumption DEF CountInv

LEMMA CountTaken ==
    ASSUME CountInv, NEW f, f \in connection, nclient \in Int, Forget(f)
    PROVE  CountInv'
<1>1. /\ IsFiniteSet(connection \ {f})
      /\ Cardinality(connection \ {f}) = Cardinality(connection) - 1
  BY FS_RemoveElement DEF CountInv
<1>2. connection' = connection \ {f} /\ nclient' = nclient - 1
  BY DEF Forget
<1> QED BY <1>1, <1>2, BoundAssumption DEF CountInv

LEMMA CountNext ==
    ASSUME IInv, Explained, CountInv, [Next]_vars
    PROVE  CountInv'
<1>0. PICK st, ag : Explains(st, ag)
  BY DEF Explained
<1>1. PICK c, f : c = Cur(Gate) /\ f = SocketOf(c)
  OBVIOUS
<1>2. nclient \in Int /\ Gate \in Service /\ Placed
  BY <1>0, ServiceOf DEF IInv, GateType, Explains
<1>3. CASE Accept
  <2>1. At(Gate, "MSG.open") /\ connection' = connection \cup {f}
        /\ nclient' = nclient + 1 /\ nclient < MaxClient
    BY <1>1, <1>3 DEF Accept
  <2>2. st[f] = "MSG.open" /\ f \in Fd
    <3>1. Handles(Gate, c, "MSG.open")
      BY <1>1, <1>2, <2>1, Handling
    <3> QED BY <1>0, <1>1, <1>2, <3>1, OwnOf DEF OpenLabel
  <2>3. f \notin connection
    BY <1>0, <2>2 DEF Explains, SockPart, SockAt
  <2> QED BY <1>2, <2>1, <2>3, CountAdded
<1>4. CASE CloseDone
  <2>1. At(Gate, "close_ret") /\ Forget(f)
    BY <1>1, <1>4 DEF CloseDone
  <2>2. st[f] = "close_ret" /\ f \in Fd
    <3>1. Handles(Gate, c, "close_ret")
      BY <1>1, <1>2, <2>1, Handling
    <3> QED BY <1>0, <1>1, <1>2, <3>1, OwnOf DEF OpenLabel
  <2>3. f \in connection
    BY <1>0, <2>2 DEF Explains, SockPart, SockAt
  <2> QED BY <1>2, <2>1, <2>3, CountTaken
<1>5. CASE CloseWithoutAgent
  BY <1>1, <1>2, <1>5, CountTaken DEF CloseWithoutAgent
<1>6. CASE UNCHANGED <<connection, nclient>>
  BY <1>6 DEF CountInv
<1>7. CASE GateStep
  <2>1. \/ Accept \/ CloseDone \/ CloseWithoutAgent
        \/ UNCHANGED <<connection, nclient>>
    BY <1>7 DEF GateStep, Refuse, Redirect, Enqueue, StartLogin, LoginRefused, RefusedClose,
       LoginFresh, LoginTakeover, OtherLoginDone, KickDone, Assign, PendingHang, Forward,
       MsgClose, CloseUnknown, CloseWithAgent, CloseForTakeover, CloseOffline, Recycle,
       Kick, KickClose, gateVars
  <2> QED BY <1>3, <1>4, <1>5, <1>6, <2>1
<1>8. ASSUME NEW a \in Agent, AgentStep(a) PROVE UNCHANGED <<connection, nclient>>
  BY <1>8 DEF AgentStep, AgentOpen, Opened, Register, RegisterFailed, Welcome, WelcomeFailed,
     AgentClose, Closing, CloseFinish, AgentCloseFailed, GamedClosed, OtherLogin, OtherWrite,
     OtherLoginFailed, AgentKick, AgentKickSelf, AgentReturn, MyDispatch, Pass, Failed, gateVars
<1>9. ASSUME NEW m, Reply(m) PROVE UNCHANGED <<connection, nclient>>
  BY <1>9 DEF Reply, gateVars
<1>10. ASSUME NEW fd \in Fd, SocketClose(fd) \/ ClientStep(fd)
       PROVE  UNCHANGED <<connection, nclient>>
  BY <1>10 DEF SocketClose, ClientStep, ClientConnect, ClientSend, ClientDrop, PostClose, gateVars
<1>11. CASE UNCHANGED vars
  BY <1>6, <1>11 DEF vars, gateVars
<1> QED BY <1>6, <1>7, <1>8, <1>9, <1>10, <1>11 DEF Next, ServerStep

LEMMA CountInit == ASSUME Init PROVE CountInv
BY FS_EmptySet, BoundAssumption DEF Init, CountInv

-----------------------------------------------------------------------------
(* Numbered frames.  Of those in B the queue q has the numbers lo to hi,   *)
(* each once and in order.                                                 *)

Lined(q, B, lo, hi) ==
    /\ \A i \in 1 .. Len(q) : q[i] \in B => q[i].task[3] \in lo .. hi
    /\ \A n \in lo .. hi : \E i \in 1 .. Len(q) : q[i] \in B /\ q[i].task[3] = n
    /\ \A i, j \in 1 .. Len(q) :
            q[i] \in B /\ q[j] \in B /\ i < j => q[i].task[3] < q[j].task[3]

LEMMA LinedNone ==
    ASSUME NEW q, NEW B, Free(q, B), NEW lo \in Int, NEW hi \in Int, hi < lo
    PROVE  Lined(q, B, lo, hi)
BY DEF Free, Lined

\* A queue whose head is none of them keeps them.
LEMMA LinedSkip ==
    ASSUME NEW C, NEW q \in Seq(C), q # << >>, NEW t, t = Tail(q), NEW B,
           Head(q) \notin B, NEW lo, NEW hi, Lined(q, B, lo, hi)
    PROVE  Lined(t, B, lo, hi)
<1>1. \A i \in 1 .. Len(t) : t[i] = q[i + 1] /\ i + 1 \in 1 .. Len(q)
  BY TailIndex
<1>2. ASSUME NEW i \in 1 .. Len(t), t[i] \in B PROVE t[i].task[3] \in lo .. hi
  BY <1>1, <1>2 DEF Lined
<1>3. ASSUME NEW n \in lo .. hi
      PROVE  \E i \in 1 .. Len(t) : t[i] \in B /\ t[i].task[3] = n
  <2>1. PICK k \in 1 .. Len(q) : q[k] \in B /\ q[k].task[3] = n
    BY DEF Lined
  <2>2. k # 1
    BY <2>1, TailIndex
  <2>3. k - 1 \in 1 .. Len(t) /\ q[k] = t[k - 1]
    BY <2>2, TailIndex
  <2> QED BY <2>1, <2>3
<1>4. ASSUME NEW i \in 1 .. Len(t), NEW j \in 1 .. Len(t), t[i] \in B, t[j] \in B, i < j
      PROVE  t[i].task[3] < t[j].task[3]
  <2>1. i + 1 < j + 1
    BY <1>4
  <2> QED BY <1>1, <1>4, <2>1 DEF Lined
<1> QED BY <1>2, <1>3, <1>4 DEF Lined

\* Its head, when it is one of them, is the lowest.
LEMMA LinedHead ==
    ASSUME NEW C, NEW q \in Seq(C), q # << >>, NEW t, t = Tail(q), NEW B,
           Head(q) \in B, NEW lo \in Int, NEW hi \in Int, Lined(q, B, lo, hi)
    PROVE  /\ Head(q).task[3] = lo /\ lo <= hi
           /\ Lined(t, B, lo + 1, hi)
<1>0. /\ \A i \in 1 .. Len(t) : t[i] = q[i + 1] /\ i + 1 \in 1 .. Len(q)
      /\ Head(q) = q[1] /\ 1 \in 1 .. Len(q) /\ Len(q) \in Nat /\ Len(t) \in Nat
  BY TailIndex
<1>1. q[1].task[3] \in lo .. hi
  BY <1>0 DEF Lined
<1>2. lo <= hi /\ lo \in lo .. hi
  BY <1>1
<1>3. q[1].task[3] = lo
  <2>1. PICK k \in 1 .. Len(q) : q[k] \in B /\ q[k].task[3] = lo
    BY <1>2 DEF Lined
  <2>2. CASE k = 1
    BY <2>1, <2>2
  <2>3. CASE k # 1
    <3>1. 1 < k
      BY <2>3
    <3>2. q[1].task[3] < q[k].task[3]
      BY <1>0, <2>1, <3>1 DEF Lined
    <3> QED BY <1>1, <2>1, <3>2
  <2> QED BY <2>2, <2>3
<1>4. ASSUME NEW i \in 1 .. Len(t), t[i] \in B PROVE t[i].task[3] \in lo + 1 .. hi
  <2>1. q[i + 1] \in B /\ i + 1 \in 1 .. Len(q) /\ 1 < i + 1
    BY <1>0, <1>4
  <2>2. q[i + 1].task[3] \in lo .. hi /\ q[1].task[3] < q[i + 1].task[3]
    BY <1>0, <2>1 DEF Lined
  <2> QED BY <1>0, <1>3, <2>2
<1>5. ASSUME NEW n \in lo + 1 .. hi
      PROVE  \E i \in 1 .. Len(t) : t[i] \in B /\ t[i].task[3] = n
  <2>1. PICK k \in 1 .. Len(q) : q[k] \in B /\ q[k].task[3] = n
    BY DEF Lined
  <2>2. k # 1
    BY <1>3, <2>1
  <2>3. k - 1 \in 1 .. Len(t) /\ q[k] = t[k - 1]
    BY <2>2, TailIndex
  <2> QED BY <2>1, <2>3
<1>6. ASSUME NEW i \in 1 .. Len(t), NEW j \in 1 .. Len(t), t[i] \in B, t[j] \in B, i < j
      PROVE  t[i].task[3] < t[j].task[3]
  <2>1. i + 1 < j + 1
    BY <1>6
  <2> QED BY <1>0, <1>6, <2>1 DEF Lined
<1>7. Lined(t, B, lo + 1, hi)
  BY <1>4, <1>5, <1>6 DEF Lined
<1> QED BY <1>0, <1>2, <1>3, <1>7

\* Another coroutine joins the queue.
LEMMA LinedPass ==
    ASSUME NEW C, NEW q \in Seq(C), NEW m \in C, NEW t, t = Append(q, m), NEW B,
           m \notin B, NEW lo, NEW hi, Lined(q, B, lo, hi)
    PROVE  Lined(t, B, lo, hi)
<1>0. /\ \A i \in 1 .. Len(q) : t[i] = q[i] /\ i \in 1 .. Len(t)
      /\ \A i \in 1 .. Len(t) : i \in 1 .. Len(q) \/ t[i] = m
  BY AppendIndex
<1>1. \A i \in 1 .. Len(t) : t[i] \in B => i \in 1 .. Len(q) /\ t[i] = q[i]
  BY <1>0
<1>2. ASSUME NEW n \in lo .. hi
      PROVE  \E i \in 1 .. Len(t) : t[i] \in B /\ t[i].task[3] = n
  <2>1. PICK k \in 1 .. Len(q) : q[k] \in B /\ q[k].task[3] = n
    BY DEF Lined
  <2> QED BY <1>0, <2>1
<1> QED BY <1>1, <1>2 DEF Lined

\* The next frame joins the queue.
LEMMA LinedJoin ==
    ASSUME NEW C, NEW q \in Seq(C), NEW m \in C, NEW t, t = Append(q, m), NEW B,
           m \in B, NEW lo \in Int, NEW hi \in Int, Lined(q, B, lo, hi),
           m.task[3] = hi + 1, lo <= hi + 1
    PROVE  Lined(t, B, lo, hi + 1)
<1>0. /\ \A i \in 1 .. Len(q) : t[i] = q[i] /\ i \in 1 .. Len(t)
      /\ \A i \in 1 .. Len(t) : i \in 1 .. Len(q) \/ i = Len(q) + 1
      /\ t[Len(q) + 1] = m /\ Len(q) + 1 \in 1 .. Len(t) /\ Len(q) \in Nat
  BY AppendIndex
<1>1. ASSUME NEW i \in 1 .. Len(t), t[i] \in B PROVE t[i].task[3] \in lo .. hi + 1
  <2>1. CASE i \in 1 .. Len(q)
    <3>1. t[i].task[3] \in lo .. hi
      BY <1>0, <1>1, <2>1 DEF Lined
    <3> QED BY <3>1
  <2>2. CASE i = Len(q) + 1
    BY <1>0, <2>2
  <2> QED BY <1>0, <2>1, <2>2
<1>2. ASSUME NEW n \in lo .. hi + 1
      PROVE  \E i \in 1 .. Len(t) : t[i] \in B /\ t[i].task[3] = n
  <2>1. CASE n = hi + 1
    BY <1>0, <2>1
  <2>2. CASE n # hi + 1
    <3>1. n \in lo .. hi
      BY <2>2
    <3>2. PICK k \in 1 .. Len(q) : q[k] \in B /\ q[k].task[3] = n
      BY <3>1 DEF Lined
    <3> QED BY <1>0, <3>2
  <2> QED BY <2>1, <2>2
<1>3. ASSUME NEW i \in 1 .. Len(t), NEW j \in 1 .. Len(t), t[i] \in B, t[j] \in B, i < j
      PROVE  t[i].task[3] < t[j].task[3]
  <2>1. i \in 1 .. Len(q)
    BY <1>0, <1>3
  <2>2. t[i] = q[i] /\ q[i].task[3] \in lo .. hi
    BY <1>0, <1>3, <2>1 DEF Lined
  <2>3. CASE j \in 1 .. Len(q)
    BY <1>0, <1>3, <2>1, <2>3 DEF Lined
  <2>4. CASE j = Len(q) + 1
    BY <1>0, <2>2, <2>4
  <2> QED BY <1>0, <2>3, <2>4
<1> QED BY <1>1, <1>2, <1>3 DEF Lined

\* A step that takes and puts none of them.
LEMMA MoveLined ==
    ASSUME mbox \in Mail, ext \subseteq GoodMsg, NEW T, NEW N, Moves(T, N),
           NEW B, T \cap B = {}, N \cap B = {}, NEW t \in Service,
           NEW lo, NEW hi, Lined(mbox[t], B, lo, hi)
    PROVE  Lined(mbox'[t], B, lo, hi)
<1>1. PICK mb, ex :
        /\ \/ T = {} /\ mb = mbox /\ ex = ext
           \/ \E h : T = {h} /\ Takes(mbox, ext, mb, ex, h)
        /\ \/ N = {} /\ mbox' = mb /\ ext' = ex
           \/ \E m \in GoodMsg : N = {m} /\ Gives(mb, ex, mbox', ext', m)
  BY DEF Moves
<1>2. mb \in Mail /\ Lined(mb[t], B, lo, hi)
  <2>1. CASE T = {} /\ mb = mbox /\ ex = ext
    BY <2>1
  <2>2. ASSUME NEW h, T = {h}, Takes(mbox, ext, mb, ex, h)
        PROVE  mb \in Mail /\ Lined(mb[t], B, lo, hi)
    <3>1. mb \in Mail
      BY <2>2, TakeFlying
    <3>2. CASE mb = mbox
      BY <3>1, <3>2
    <3>3. ASSUME NEW s \in Service, mbox[s] # << >>, h = Head(mbox[s]),
                 mb = [mbox EXCEPT ![s] = Tail(@)]
          PROVE  Lined(mb[t], B, lo, hi)
      <4>1. mbox[s] \in Seq(GoodMsg)
        BY <3>3, TakeMail
      <4>2. mb[s] = Tail(mbox[s])
        BY <3>3, TakeMail
      <4>3. t # s => mb[t] = mbox[t]
        BY <3>3, TakeMail
      <4>4. h \notin B
        BY <2>2
      <4>5. CASE t = s
        BY <3>3, <4>1, <4>2, <4>4, <4>5, LinedSkip
      <4> QED BY <4>3, <4>5
    <3> QED BY <2>2, <3>1, <3>2, <3>3 DEF Takes
  <2> QED BY <1>1, <2>1, <2>2
<1>3. CASE N = {} /\ mbox' = mb
  BY <1>2, <1>3
<1>4. ASSUME NEW m \in GoodMsg, N = {m}, Gives(mb, ex, mbox', ext', m)
      PROVE  Lined(mbox'[t], B, lo, hi)
  <2>1. CASE mbox' = mb
    BY <1>2, <2>1
  <2>2. ASSUME NEW d \in Service, mbox' = [mb EXCEPT ![d] = Append(@, m)]
        PROVE  Lined(mbox'[t], B, lo, hi)
    <3>1. /\ mb[d] \in Seq(GoodMsg) /\ mbox'[d] = Append(mb[d], m)
          /\ (t # d => mbox'[t] = mb[t])
      BY <1>2, <2>2, GiveMail
    <3>2. m \notin B
      BY <1>4
    <3>3. CASE t = d
      BY <1>2, <3>1, <3>2, <3>3, LinedPass
    <3> QED BY <1>2, <3>1, <3>3
  <2> QED BY <1>4, <2>1, <2>2 DEF Gives
<1> QED BY <1>1, <1>3, <1>4

-----------------------------------------------------------------------------
(* Frames after the login, in the mailbox of the gate and of an agent      *)

Raw(fd)  == {m \in GoodMsg : m.at = "MSG.data" /\ Later(m) /\ SocketOf(m) = fd}
Sent(fd) == {m \in GoodMsg : m.at = "my_dispatch" /\ Later(m) /\ SocketOf(m) = fd}

\* No agent has served the socket, or one is about to.
Unused(fd) == /\ sock[fd] # "closed" /\ forwarded[fd] = Nil
              /\ \A a \in Agent : UserFd(a) # fd
Awaits(fd) == \E m : Flies(m) /\ Opens(m) /\ m.nfd = fd

\* Of the frames of fd after its login, x have left the mailbox of the gate and
\* y were sent to its agent.
Counts(x, y, fd) ==
    /\ \A i \in 1 .. Len(served[fd]) : served[fd][i] = i + 1
    /\ Len(served[fd]) <= y
    /\ x = 0 \/ x + 1 <= nsent[fd]
    /\ pending_msg[fd] # Nil => /\ Len(pending_msg[fd]) = x
                                /\ \A i \in 1 .. x : pending_msg[fd][i] = i + 1
    /\ forwarded[fd] # Nil => pending_msg[fd] = Nil /\ y = x
    /\ sock[fd] # "closed" /\ forwarded[fd] = Nil /\ pending_msg[fd] = Nil => x = 0
    /\ Unused(fd) \/ Awaits(fd) => y = 0
    /\ Lined(mbox[Gate], Raw(fd), x + 2, nsent[fd])
    /\ \A a \in Agent : UserFd(a) = fd =>
            Lined(mbox[a], Sent(fd), Len(served[fd]) + 2, y + 1)
Frames == \A fd \in Fd : \E x, y \in Nat : Counts(x, y, fd)

\* A step that takes T and puts N leaves the frames of fd where they are.
Undisturbed(fd, T, N) ==
    /\ T \cap Data(fd) = {} /\ N \cap Data(fd) = {}
    /\ nsent'[fd] = nsent[fd] /\ pending_msg'[fd] = pending_msg[fd]
    /\ served'[fd] = served[fd]
    /\ \/ forwarded'[fd] = forwarded[fd]
       \/ forwarded'[fd] = Nil /\ sock'[fd] = "closed"
    /\ sock[fd] = "closed" => sock'[fd] = "closed"
    /\ \A a \in Agent : UserFd(a)' = fd => UserFd(a) = fd
    /\ Unused(fd)' => Unused(fd)
    /\ \A m \in N : Opens(m) /\ m.nfd = fd => Awaits(fd) \/ Unused(fd)

LEMMA RawData == ASSUME NEW fd PROVE Raw(fd) \subseteq Data(fd) /\ Sent(fd) \subseteq Data(fd)
BY DEF Raw, Sent, Data

LEMMA CountKept ==
    ASSUME IInv, NEW fd \in Fd, NEW T, NEW N, Moves(T, N), Undisturbed(fd, T, N),
           NEW x \in Nat, NEW y \in Nat, Counts(x, y, fd)
    PROVE  Counts(x, y, fd)'
<1>1. mbox \in Mail /\ ext \subseteq GoodMsg /\ Gate \in Service /\ Agent \subseteq Service
  BY MailOf, ServiceOf
<1>2. /\ T \cap Raw(fd) = {} /\ N \cap Raw(fd) = {}
      /\ T \cap Sent(fd) = {} /\ N \cap Sent(fd) = {}
  BY RawData DEF Undisturbed
<1>3. Lined(mbox'[Gate], Raw(fd), x + 2, nsent'[fd])
  <2>1. Lined(mbox[Gate], Raw(fd), x + 2, nsent[fd])
    BY DEF Counts
  <2>2. Lined(mbox'[Gate], Raw(fd), x + 2, nsent[fd])
    BY <1>1, <1>2, <2>1, MoveLined
  <2> QED BY <2>2 DEF Undisturbed
<1>4. ASSUME NEW a \in Agent, UserFd(a)' = fd
      PROVE  Lined(mbox'[a], Sent(fd), Len(served'[fd]) + 2, y + 1)
  <2>1. Lined(mbox[a], Sent(fd), Len(served[fd]) + 2, y + 1)
    BY <1>4 DEF Counts, Undisturbed
  <2>2. Lined(mbox'[a], Sent(fd), Len(served[fd]) + 2, y + 1)
    BY <1>1, <1>2, <2>1, MoveLined
  <2> QED BY <2>2 DEF Undisturbed
<1>5. Unused(fd)' \/ Awaits(fd)' => y = 0
  <2>1. ASSUME Awaits(fd)' PROVE Awaits(fd) \/ Unused(fd)
    <3>1. PICK m : Flies(m)' /\ Opens(m) /\ m.nfd = fd
      BY <2>1 DEF Awaits, Opens
    <3>2. Flies(m) \/ m \in N
      BY <1>1, <3>1, MoveFacts
    <3> QED BY <3>1, <3>2 DEF Undisturbed, Awaits
  <2> QED BY <2>1 DEF Undisturbed, Counts
<1>6. /\ \A i \in 1 .. Len(served'[fd]) : served'[fd][i] = i + 1
      /\ Len(served'[fd]) <= y
      /\ x = 0 \/ x + 1 <= nsent'[fd]
      /\ pending_msg'[fd] # Nil => /\ Len(pending_msg'[fd]) = x
                                   /\ \A i \in 1 .. x : pending_msg'[fd][i] = i + 1
  BY DEF Counts, Undisturbed
<1>7. /\ forwarded'[fd] # Nil => pending_msg'[fd] = Nil /\ y = x
      /\ sock'[fd] # "closed" /\ forwarded'[fd] = Nil /\ pending_msg'[fd] = Nil => x = 0
  BY DEF Counts, Undisturbed
<1> QED BY <1>3, <1>4, <1>5, <1>6, <1>7 DEF Counts

-----------------------------------------------------------------------------
(* What a coroutine knows of the frames of its socket                      *)

None(B) == \A k \in B : ~ Flies(k)
Closing3 == {"agent_close", "closing", "close_finish"}
Framed   == {"MSG.data", "MSG.close", "agent_close", "my_dispatch"}

Orderly(m) ==
    LET fd == SocketOf(m) IN
    /\ m.at = "my_dispatch" => UserFd(m.callee) = fd
    /\ m.at = "MSG.data" /\ forwarded[fd] # Nil => UserFd(forwarded[fd]) = fd
    /\ m.at \in Framed => m \notin ext
    /\ m.task[1] = "close" =>
            /\ sock[fd] = "closed"
            /\ m.at = "MSG.close" => Ahead(mbox[Gate], Raw(fd), {m})
            /\ m.at # "MSG.close" => None(Raw(fd))
    /\ m.at = "agent_close" => Ahead(mbox[m.callee], Sent(fd), {m})
    /\ m.at \in {"closing", "close_finish"} => None(Sent(fd))
Orders == \A m : Flies(m) => Orderly(m)

\* What a step that puts N leaves true of the coroutine m.
Calm(m, N) ==
    LET fd == SocketOf(m) IN
    /\ m.at = "my_dispatch" => UserFd(m.callee)' = fd
    /\ m.at = "MSG.data" /\ forwarded'[fd] # Nil => UserFd(forwarded[fd])' = fd
    /\ m.task[1] = "close" => sock'[fd] = "closed" /\ N \cap Raw(fd) = {}
    /\ m.at \in Closing3 => N \cap Sent(fd) = {}

LEMMA MoveExt ==
    ASSUME NEW T, NEW N, Moves(T, N), NEW m, m \in ext'
    PROVE  m \in ext \/ m \in N
BY DEF Moves, Takes, Gives

LEMMA MoveNone ==
    ASSUME IInv, NEW T, NEW N, Moves(T, N), NEW B, None(B), N \cap B = {}
    PROVE  None(B)'
<1>1. SUFFICES ASSUME NEW k \in B, Flies(k)' PROVE FALSE
  BY DEF None
<1>2. Flies(k) \/ k \in N
  BY <1>1, MailOf, MoveFacts
<1> QED BY <1>2 DEF None

LEMMA OrderlyKept ==
    ASSUME IInv, NEW T, NEW N, Moves(T, N), NEW m \in GoodMsg, m \notin N,
           Orderly(m), Calm(m, N)
    PROVE  Orderly(m)'
<1>0. PICK fd : fd = SocketOf(m)
  OBVIOUS
<1>1. mbox \in Mail /\ ext \subseteq GoodMsg /\ Gate \in Service /\ Agent \subseteq Service
  BY MailOf, ServiceOf
<1>2. m.at \in Framed => m \notin ext'
  BY MoveExt DEF Orderly
<1>3. m.at = "MSG.close" /\ m.task[1] = "close" => Ahead(mbox'[Gate], Raw(fd), {m})
  BY <1>0, <1>1, MoveAhead DEF Orderly, Calm
<1>4. m.at # "MSG.close" /\ m.task[1] = "close" => None(Raw(fd))'
  BY <1>0, MoveNone DEF Orderly, Calm
<1>5. m.at = "agent_close" => Ahead(mbox'[m.callee], Sent(fd), {m})
  <2>1. m.at = "agent_close" => m.callee \in Service
    BY <1>1 DEF GoodMsg, Vouched, NeedsCallee, AgentLabel
  <2> QED BY <1>0, <1>1, <2>1, MoveAhead DEF Orderly, Calm, Closing3
<1>6. m.at \in {"closing", "close_finish"} => None(Sent(fd))'
  BY <1>0, MoveNone DEF Orderly, Calm, Closing3
<1>7. /\ m.at = "my_dispatch" => UserFd(m.callee)' = fd
      /\ m.at = "MSG.data" /\ forwarded'[fd] # Nil => UserFd(forwarded[fd])' = fd
      /\ m.task[1] = "close" => sock'[fd] = "closed"
  BY <1>0 DEF Calm
<1> QED BY <1>0, <1>2, <1>3, <1>4, <1>5, <1>6, <1>7 DEF Orderly, SocketOf

LEMMA OrderKept ==
    ASSUME IInv, NEW T, NEW N, Moves(T, N), Orders,
           \A m \in GoodMsg : m \notin N /\ Flies(m) /\ Orderly(m) => Calm(m, N),
           \A m \in N : Orderly(m)'
    PROVE  Orders'
<1>1. SUFFICES ASSUME NEW m, Flies(m)', m \notin N PROVE Orderly(m)'
  BY DEF Orders
<1>2. Flies(m)
  BY <1>1, MailOf, MoveFacts
<1>3. m \in GoodMsg
  BY <1>2, FlyGood
<1> QED BY <1>1, <1>2, <1>3, OrderlyKept DEF Orders

-----------------------------------------------------------------------------
(* Steps that leave all frames where they are                              *)

FrameInv == Frames /\ Orders

Frozen ==
    /\ nsent' = nsent /\ pending_msg' = pending_msg /\ served' = served
    /\ forwarded' = forwarded /\ user' = user
    /\ \A fd \in Fd : sock[fd] = "closed" => sock'[fd] = "closed"

LEMMA SocketIn == ASSUME NEW m \in GoodMsg PROVE SocketOf(m) \in Fd /\ m.task[3] \in Nat
BY BoundAssumption DEF GoodMsg, Msg, Task, SocketOf, Nth

LEMMA PlainMoves ==
    ASSUME IInv, FrameInv, NEW T, NEW N, Moves(T, N),
           \A k \in T \cup N : ~ Later(k), Frozen,
           \A m \in N : Orderly(m)',
           \A m \in N : Opens(m) => Awaits(m.nfd) \/ Unused(m.nfd)
    PROVE  FrameInv'
<1>1. ASSUME NEW fd \in Fd PROVE \E x, y \in Nat : Counts(x, y, fd)'
  <2>1. PICK x \in Nat, y \in Nat : Counts(x, y, fd)
    BY DEF FrameInv, Frames
  <2>2. \A a \in Agent : UserFd(a)' = UserFd(a)
    BY DEF Frozen, UserFd
  <2>3. Unused(fd)' => Unused(fd)
    BY <2>2 DEF Unused, Frozen
  <2>4. Undisturbed(fd, T, N)
    BY <2>2, <2>3 DEF Undisturbed, Frozen, Data
  <2> QED BY <2>1, <2>4, CountKept
<1>2. Orders'
  <2>1. ASSUME NEW m \in GoodMsg, Orderly(m) PROVE Calm(m, N)
    <3>1. N \cap Raw(SocketOf(m)) = {} /\ N \cap Sent(SocketOf(m)) = {}
      BY DEF Raw, Sent
    <3>2. sock[SocketOf(m)] = "closed" => sock'[SocketOf(m)] = "closed"
      BY SocketIn DEF Frozen
    <3>3. UserFd(m.callee)' = UserFd(m.callee)
          /\ UserFd(forwarded[SocketOf(m)])' = UserFd(forwarded[SocketOf(m)])
      BY DEF Frozen, UserFd, SocketOf
    <3> QED BY <2>1, <3>1, <3>2, <3>3 DEF Orderly, Calm, Frozen, SocketOf
  <2> QED BY <2>1, OrderKept DEF FrameInv
<1> QED BY <1>1, <1>2 DEF FrameInv, Frames

\* The coroutine m goes on from c, to a place where it is about no frame.
Tame(c, m) ==
    /\ m.task = c.task /\ m.at \notin Framed /\ c.at # "MSG.close"
    /\ m.at \in {"closing", "close_finish"} => c.at \in {"closing", "close_finish"}

LEMMA TameOrderly ==
    ASSUME IInv, NEW T, NEW m, Moves(T, {m}), NEW c \in GoodMsg, Orderly(c),
           Tame(c, m), \A fd \in Fd : sock[fd] = "closed" => sock'[fd] = "closed"
    PROVE  Orderly(m)'
<1>0. PICK fd : fd = SocketOf(c)
  OBVIOUS
<1>1. fd \in Fd /\ fd = SocketOf(m)
  BY <1>0, SocketIn DEF Tame, SocketOf
<1>2. m \notin Raw(fd) /\ m \notin Sent(fd)
  BY DEF Tame, Framed, Raw, Sent
<1>3. m.task[1] = "close" => sock'[fd] = "closed" /\ None(Raw(fd))'
  <2>1. m.task[1] = "close" => sock[fd] = "closed" /\ None(Raw(fd))
    BY <1>0 DEF Tame, Orderly
  <2> QED BY <1>1, <1>2, <2>1, MoveNone
<1>4. m.at \in {"closing", "close_finish"} => None(Sent(fd))'
  <2>1. m.at \in {"closing", "close_finish"} => None(Sent(fd))
    BY <1>0 DEF Tame, Orderly
  <2> QED BY <1>2, <2>1, MoveNone
<1>5. m.at \notin Framed
  BY DEF Tame
<1> QED BY <1>1, <1>3, <1>4, <1>5 DEF Orderly, Framed, SocketOf

LEMMA PlainGoes ==
    ASSUME IInv, FrameInv, NEW s \in Service, NEW l, l \notin {"MSG.data", "my_dispatch"},
           NEW c, c = Cur(s), NEW m, Goes(s, l, m), Tame(c, m), Frozen,
           Opens(m) => (Opens(c) /\ m.nfd = c.nfd) \/ Unused(m.nfd)
    PROVE  FrameInv'
<1>1. c \in GoodMsg /\ c.at = l /\ Flies(c) /\ Moves({c}, {m})
  BY DEF Goes, Handles
<1>2. ~ Later(c) /\ ~ Later(m)
  BY <1>1 DEF Later, Tame, Framed
<1>3. Orderly(m)'
  BY <1>1, TameOrderly DEF FrameInv, Orders, Frozen
<1>4. Opens(m) => Awaits(m.nfd) \/ Unused(m.nfd)
  BY <1>1 DEF Awaits
<1>5. \A k \in {c} \cup {m} : ~ Later(k)
  BY <1>2
<1>6. \A k \in {m} : Orderly(k)'
  BY <1>3
<1> QED BY <1>1, <1>4, <1>5, <1>6, PlainMoves

LEMMA PlainStops ==
    ASSUME IInv, FrameInv, NEW s \in Service, NEW l, l \notin {"MSG.data", "my_dispatch"},
           Stops(s, l), Frozen
    PROVE  FrameInv'
<1>0. PICK c : c = Cur(s)
  OBVIOUS
<1>1. c \in GoodMsg /\ c.at = l /\ Moves({c}, {})
  BY <1>0 DEF Stops, Handles
<1>2. \A k \in {c} \cup {} : ~ Later(k)
  BY <1>1 DEF Later
<1> QED BY <1>1, <1>2, PlainMoves

-----------------------------------------------------------------------------
(* The actions of the agents that are about no frame                       *)

Goes2(s, m) == Yield(s, m) \/ \E d \in Service \ {s} : Send(s, d, m)

LEMMA TameStep ==
    ASSUME IInv, IInv', Placed, FrameInv, NEW s \in Service, NEW l, At(s, l),
           l \notin {"MSG.data", "my_dispatch", "MSG.close"},
           NEW c, c = Cur(s), NEW m, Goes2(s, m), m.task = c.task, m.at \notin Framed,
           m.at \in {"closing", "close_finish"} => l \in {"closing", "close_finish"},
           Opens(m) => (Opens(c) /\ m.nfd = c.nfd) \/ Unused(m.nfd), Frozen
    PROVE  FrameInv'
<1>1. Handles(s, c, l) /\ c \in GoodMsg /\ c.at = l /\ Flies(c)
  BY Handling DEF Handles
<1>2. m \in GoodMsg /\ Moves({c}, {m})
  <2>1. mbox[s] # << >>
    BY DEF At
  <2>2. CASE Yield(s, m)
    BY <2>1, <2>2, YieldMoves
  <2>3. ASSUME NEW d \in Service \ {s}, Send(s, d, m)
        PROVE  m \in GoodMsg /\ Moves({c}, {m})
    BY <2>1, <2>3, SendMoves
  <2> QED BY <2>2, <2>3 DEF Goes2
<1>3. Tame(c, m)
  BY <1>1 DEF Tame
<1>4. \A k \in {c} \cup {m} : ~ Later(k)
  BY <1>1 DEF Later, Framed
<1>5. \A k \in {m} : Orderly(k)'
  BY <1>1, <1>2, <1>3, TameOrderly DEF FrameInv, Orders, Frozen
<1>6. \A k \in {m} : Opens(k) => Awaits(k.nfd) \/ Unused(k.nfd)
  BY <1>1 DEF Awaits
<1> QED BY <1>2, <1>4, <1>5, <1>6, PlainMoves

\* A coroutine of an agent that is handled, and goes on there or at the gate.
LEMMA HandledBy ==
    ASSUME IInv, NEW st, NEW ag, Explains(st, ag), NEW s \in Service, NEW l, At(s, l)
    PROVE  Placed /\ Handles(s, Cur(s), l) /\ Cur(s) \in GoodMsg /\ Cur(s).at = l
BY Handling DEF Explains, Handles

\* The agent that serves a socket is the socket's agent.
LEMMA ServesOne ==
    ASSUME IInv, NEW st, NEW ag, Explains(st, ag), NEW a \in Agent, NEW fd \in Fd,
           UserFd(a) = fd
    PROVE  ag[fd] = a /\ st[fd] \in UseStage
<1>1. user[a] # Nil
  BY FdAssumption DEF UserFd
<1>2. PICK g \in Fd : ag[g] = a /\ st[g] \in UseStage
  BY <1>1 DEF Explains, UserPart
<1>3. UserFd(ag[g]) = g
  BY <1>2, UserOf
<1> QED BY <1>2, <1>3

LEMMA AgentPassFr ==
    ASSUME IInv, IInv', NEW st, NEW ag, Explains(st, ag), FrameInv, NEW a \in Agent,
           NEW l, NEW k, At(a, l), NEW c, c = Cur(a),
           <<l, k>> \in {<<"agent_open", "opened">>, <<"register", "welcome">>,
                         <<"welcome", "agent_ret">>, <<"other_login", "other_write">>,
                         <<"other_write", "agent_ret">>, <<"agent_kick", "kick_self">>},
           Yield(a, [c EXCEPT !.at = k]), Frozen
    PROVE  FrameInv'
<1>0. PICK m : m = [c EXCEPT !.at = k]
  OBVIOUS
<1>1. a \in Service /\ Placed /\ Handles(a, c, l) /\ c \in GoodMsg /\ c.at = l
  BY HandledBy, ServiceOf
<1>2. Keeps(m, c) /\ m.at = k /\ m.ret = c.ret
  BY <1>0, <1>1, Moved
<1>3. m.task = c.task /\ m.nfd = c.nfd
  BY <1>2 DEF Keeps
<1>4. l = "other_write" => c.ret = "other_ret"
  BY <1>1, RetOf
<1>5. Opens(m) => Opens(c)
  BY <1>1, <1>2, <1>4 DEF Opens, OpenLabel
<1>6. Goes2(a, m)
  BY <1>0 DEF Goes2
<1>7. l \notin {"MSG.data", "my_dispatch", "MSG.close"}
      /\ k \notin Framed \cup {"closing", "close_finish"}
  BY DEF Framed
<1> QED BY <1>1, <1>2, <1>3, <1>5, <1>6, <1>7, TameStep

LEMMA AgentPassesFr ==
    ASSUME IInv, IInv', NEW st, NEW ag, Explains(st, ag), FrameInv, NEW a \in Agent,
           \/ AgentOpen(a) \/ Register(a) \/ Welcome(a)
           \/ OtherLogin(a) \/ OtherWrite(a) \/ AgentKick(a)
    PROVE  FrameInv'
<1>1. Frozen
  BY DEF Frozen, AgentOpen, Register, Welcome, OtherLogin, OtherWrite, AgentKick, Pass,
     sockVars, gateVars, gamedVars, agentVars
<1>2. CASE AgentOpen(a)
  BY <1>1, <1>2, AgentPassFr DEF AgentOpen, Pass
<1>3. CASE Register(a)
  BY <1>1, <1>3, AgentPassFr DEF Register
<1>4. CASE Welcome(a)
  BY <1>1, <1>4, AgentPassFr DEF Welcome
<1>5. CASE OtherLogin(a)
  BY <1>1, <1>5, AgentPassFr DEF OtherLogin, Pass
<1>6. CASE OtherWrite(a)
  BY <1>1, <1>6, AgentPassFr DEF OtherWrite, Pass
<1>7. CASE AgentKick(a)
  BY <1>1, <1>7, AgentPassFr DEF AgentKick, Pass
<1> QED BY <1>2, <1>3, <1>4, <1>5, <1>6, <1>7

LEMMA AgentKickSelfFr ==
    ASSUME IInv, IInv', NEW st, NEW ag, Explains(st, ag), FrameInv, NEW a \in Agent,
           AgentKickSelf(a)
    PROVE  FrameInv'
<1>0. PICK c, m : c = Cur(a) /\ m = [c EXCEPT !.at = "gamed_kick", !.kfd = UserFd(a)]
  OBVIOUS
<1>1. /\ At(a, "kick_self") /\ Send(a, Gate, m) /\ Frozen
      /\ a \in Service /\ Gate \in Service \ {a}
  BY <1>0, ServiceOf DEF AgentKickSelf, KickSelf, Frozen, sockVars, gateVars, gamedVars, agentVars
<1>2. Placed /\ c \in GoodMsg /\ c.at = "kick_self"
  BY <1>0, <1>1, HandledBy
<1>3. m.task = c.task /\ m.at = "gamed_kick"
  BY <1>0, <1>2 DEF GoodMsg, Msg
<1>4. ~ Opens(m) /\ m.at \notin Framed
  BY <1>3 DEF Opens, OpenLabel, Framed
<1>5. Goes2(a, m)
  BY <1>1 DEF Goes2
<1> QED BY <1>0, <1>1, <1>2, <1>3, <1>4, <1>5, TameStep

LEMMA AgentReturnFr ==
    ASSUME IInv, IInv', NEW st, NEW ag, Explains(st, ag), FrameInv, NEW a \in Agent,
           AgentReturn(a)
    PROVE  FrameInv'
<1>0. PICK c, m : c = Cur(a) /\ m = [c EXCEPT !.at = c.ret]
  OBVIOUS
<1>1. /\ At(a, "agent_ret") /\ Send(a, Gate, m) /\ Frozen
      /\ a \in Service /\ Gate \in Service \ {a}
  BY <1>0, ServiceOf DEF AgentReturn, Frozen, sockVars, gateVars, gamedVars, agentVars
<1>2. Placed /\ c \in GoodMsg /\ c.at = "agent_ret"
  BY <1>0, <1>1, HandledBy
<1>3. c.ret \in RetLabel
  BY <1>2 DEF GoodMsg, Vouched, NeedsRet, AgentLabel
<1>4. m.task = c.task /\ m.nfd = c.nfd /\ m.at = c.ret
  BY <1>0, <1>2 DEF GoodMsg, Msg
<1>5. (Opens(m) => Opens(c)) /\ m.at \notin Framed \cup {"closing", "close_finish"}
  BY <1>2, <1>3, <1>4 DEF Opens, OpenLabel, Framed, RetLabel
<1>6. Goes2(a, m)
  BY <1>1 DEF Goes2
<1> QED BY <1>0, <1>1, <1>2, <1>4, <1>5, <1>6, TameStep

LEMMA ClosingFr ==
    ASSUME IInv, IInv', NEW st, NEW ag, Explains(st, ag), FrameInv, NEW a \in Agent,
           Closing(a)
    PROVE  FrameInv'
<1>0. PICK c, m : c = Cur(a) /\ m = [c EXCEPT !.at = "close_finish", !.account = user[a].account]
  OBVIOUS
<1>1. At(a, "closing") /\ Yield(a, m) /\ Frozen /\ a \in Service
  BY <1>0, ServiceOf DEF Closing, Frozen, sockVars, gateVars, gamedVars, agentVars
<1>2. Placed /\ c \in GoodMsg /\ c.at = "closing"
  BY <1>0, <1>1, HandledBy
<1>3. m.task = c.task /\ m.at = "close_finish"
  BY <1>0, <1>2 DEF GoodMsg, Msg
<1>4. ~ Opens(m) /\ m.at \notin Framed
  BY <1>3 DEF Opens, OpenLabel, Framed
<1>5. Goes2(a, m)
  BY <1>1 DEF Goes2
<1> QED BY <1>0, <1>1, <1>2, <1>3, <1>4, <1>5, TameStep

LEMMA GamedClosedFr ==
    ASSUME IInv, IInv', NEW st, NEW ag, Explains(st, ag), FrameInv, NEW a \in Agent,
           GamedClosed(a)
    PROVE  FrameInv'
<1>0. PICK c, m : c = Cur(a) /\ m = [c EXCEPT !.at = "close_ret"]
  OBVIOUS
<1>1. /\ At(a, "gamed_closed") /\ Send(a, Gate, m) /\ Frozen
      /\ a \in Service /\ Gate \in Service \ {a}
  BY <1>0, ServiceOf DEF GamedClosed, Frozen, sockVars, gateVars, gamedVars, agentVars
<1>2. Placed /\ c \in GoodMsg /\ c.at = "gamed_closed"
  BY <1>0, <1>1, HandledBy
<1>3. m.task = c.task /\ m.at = "close_ret"
  BY <1>0, <1>2 DEF GoodMsg, Msg
<1>4. ~ Opens(m) /\ m.at \notin Framed
  BY <1>3 DEF Opens, OpenLabel, Framed
<1>5. Goes2(a, m)
  BY <1>1 DEF Goes2
<1> QED BY <1>0, <1>1, <1>2, <1>3, <1>4, <1>5, TameStep

LEMMA AgentCloseFr ==
    ASSUME IInv, IInv', NEW st, NEW ag, Explains(st, ag), FrameInv, NEW a \in Agent,
           AgentClose(a)
    PROVE  FrameInv'
<1>0. PICK c, m, fd : c = Cur(a) /\ m = [c EXCEPT !.at = "closing"] /\ fd = SocketOf(c)
  OBVIOUS
<1>1. At(a, "agent_close") /\ Yield(a, m) /\ Frozen /\ a \in Service
  BY <1>0, ServiceOf DEF AgentClose, Pass, Frozen, sockVars, gateVars, gamedVars, agentVars
<1>2. /\ Placed /\ Handles(a, c, "agent_close") /\ c \in GoodMsg /\ c.at = "agent_close"
      /\ Flies(c)
  BY <1>0, <1>1, HandledBy DEF Handles
<1>3. /\ fd \in Fd /\ c.callee = a /\ UserFd(a) = fd /\ ag[fd] = a
      /\ c.task[1] = "close"
  <2>1. /\ fd \in Fd /\ c.callee = a /\ UserFd(a) = fd /\ ag[fd] = a
        /\ FitsLeaving(ag, c, fd)
    BY <1>0, <1>1, ClosingUser
  <2> QED BY <2>1 DEF FitsLeaving
<1>4. m.task = c.task /\ m.at = "closing"
  BY <1>0, <1>2 DEF GoodMsg, Msg
<1>5. m \in GoodMsg /\ Moves({c}, {m})
  BY <1>0, <1>1, <1>2, YieldMoves DEF At
<1>6. None(Sent(fd))
  <2>1. SUFFICES ASSUME NEW k \in Sent(fd), Flies(k) PROVE FALSE
    BY DEF None
  <2>2. Orderly(k) /\ k.at = "my_dispatch" /\ SocketOf(k) = fd /\ k \in GoodMsg
    BY <2>1 DEF FrameInv, Orders, Sent
  <2>3. k \notin ext /\ UserFd(k.callee) = fd /\ k.callee \in Agent
    BY <2>2 DEF Orderly, Framed, GoodMsg, Vouched, NeedsCallee, AgentLabel
  <2>4. k.callee = a
    BY <1>3, <2>3, ServesOne
  <2>5. PICK s \in Service : \E i \in 1 .. Len(mbox[s]) : mbox[s][i] = k
    BY <2>1, <2>3 DEF Flies, Flying
  <2>6. s = a
    <3>1. Home(k) = a
      BY <2>2, <2>4 DEF Home, AgentLabel
    <3> QED BY <1>2, <2>2, <2>5, <3>1 DEF Placed, Free, Stray
  <2>7. Ahead(mbox[a], Sent(fd), {c})
    BY <1>0, <1>2, <1>3 DEF FrameInv, Orders, Orderly
  <2>8. PICK i \in 1 .. Len(mbox[a]) : mbox[a][i] = k
    BY <2>5, <2>6
  <2>9. i < 1
    BY <1>2, <2>1, <2>7, <2>8 DEF Ahead, Handles
  <2> QED BY <2>9
<1>7. None(Raw(fd))
  BY <1>0, <1>2, <1>3 DEF FrameInv, Orders, Orderly
<1>8. Orderly(m)'
  <2>1. m \notin Raw(fd) /\ m \notin Sent(fd)
    BY <1>4 DEF Raw, Sent
  <2>2. None(Raw(fd))' /\ None(Sent(fd))'
    BY <1>5, <1>6, <1>7, <2>1, MoveNone
  <2>3. sock'[fd] = "closed"
    BY <1>0, <1>1, <1>2, <1>3 DEF FrameInv, Orders, Orderly, Frozen
  <2>4. fd = SocketOf(m)
    BY <1>0, <1>4 DEF SocketOf
  <2> QED BY <1>4, <2>2, <2>3, <2>4 DEF Orderly, Framed, SocketOf
<1>9. ~ Later(c) /\ ~ Later(m) /\ ~ Opens(m)
  BY <1>2, <1>4 DEF Later, Opens, OpenLabel
<1>10. (\A k \in {c} \cup {m} : ~ Later(k)) /\ (\A k \in {m} : Orderly(k)')
       /\ \A k \in {m} : Opens(k) => Awaits(k.nfd) \/ Unused(k.nfd)
  BY <1>8, <1>9
<1> QED BY <1>1, <1>5, <1>10, PlainMoves

-----------------------------------------------------------------------------
(* The user of an agent comes and goes; a frame is served.                 *)

LEMMA NoneSent ==
    ASSUME IInv, NEW st, NEW ag, Explains(st, ag), Orders, NEW fd \in Fd,
           st[fd] \notin UseStage
    PROVE  None(Sent(fd))
<1>1. SUFFICES ASSUME NEW k \in Sent(fd), Flies(k) PROVE FALSE
  BY DEF None
<1>2. Orderly(k) /\ k.at = "my_dispatch" /\ SocketOf(k) = fd /\ k \in GoodMsg
  BY <1>1 DEF Orders, Sent
<1>3. UserFd(k.callee) = fd /\ k.callee \in Agent
  BY <1>2 DEF Orderly, GoodMsg, Vouched, NeedsCallee, AgentLabel
<1> QED BY <1>3, ServesOne

\* A frame that is not the login is on its way, or the login frame itself.
LEMMA FlyingFrame ==
    ASSUME IInv, NEW st, NEW ag, Explains(st, ag), NEW k, Flies(k),
           NEW fd, fd = SocketOf(k)
    PROVE  /\ k.at = "my_dispatch" => k \in Sent(fd)
           /\ k.at = "MSG.data" => k \in Raw(fd) \/ st[fd] = "MSG.data"
<1>1. k \in GoodMsg /\ fd \in Fd
  BY FlyGood, SocketIn
<1>2. ASSUME ~ Later(k), k.at \in {"my_dispatch", "MSG.data"}
      PROVE  k.at = "MSG.data" /\ st[fd] = "MSG.data"
  <2>1. Subject(k) = fd /\ StageOf(k) = k.at
    BY <1>2 DEF Subject, Opens, OpenLabel, StageOf
  <2>2. Fits(st, ag, k, fd)
    BY <1>2, <2>1 DEF Explains, FlyPart
  <2>3. st[fd] = k.at
    BY <1>2, <2>1, <2>2 DEF Fits
  <2>4. st[fd] \in Stage
    BY <1>1 DEF Explains, Ghosts
  <2>5. "my_dispatch" \notin Stage
    BY DEF Stage, OpenStage, FwdStage, Entering, Asking, Asked, Awaited, Leaving, Meeting, Ending
  <2> QED BY <1>2, <2>3, <2>4, <2>5
<1> QED BY <1>1, <1>2 DEF Raw, Sent

LEMMA OpenedFr ==
    ASSUME IInv, IInv', NEW st, NEW ag, Explains(st, ag), FrameInv, NEW a \in Agent,
           Opened(a)
    PROVE  FrameInv'
<1>0. PICK c, m, f : c = Cur(a) /\ m = [c EXCEPT !.at = "register"] /\ f = Subject(c)
  OBVIOUS
<1>1. /\ At(a, "opened") /\ Yield(a, m) /\ a \in Service
      /\ user' = [user EXCEPT ![a] = [fd |-> c.nfd, account |-> c.account]]
      /\ served' = served /\ sock' = sock /\ nsent' = nsent
      /\ forwarded' = forwarded /\ pending_msg' = pending_msg
  BY <1>0, ServiceOf DEF Opened, sockVars, gateVars
<1>2. /\ Placed /\ Handles(a, c, "opened") /\ c \in GoodMsg /\ c.at = "opened" /\ Flies(c)
  BY <1>0, <1>1, HandledBy DEF Handles
<1>3. /\ f \in Fd /\ st[f] = "opened" /\ ag[f] = a /\ c.nfd = f
      /\ \A h \in Fd \ {f} : ag[h] # a
  BY <1>0, <1>1, OpeningOf
<1>4. m.task = c.task /\ m.at = "register" /\ m.nfd = f
  BY <1>0, <1>2, <1>3 DEF GoodMsg, Msg
<1>5. m \in GoodMsg /\ Moves({c}, {m})
  BY <1>0, <1>1, <1>2, YieldMoves DEF At
<1>6. "opened" \notin UseStage
  BY DEF UseStage, Leaving, Meeting
<1>7. user[a] = Nil
  <2>1. SUFFICES ASSUME user[a] # Nil PROVE FALSE
    OBVIOUS
  <2>2. PICK g \in Fd : ag[g] = a /\ st[g] \in UseStage
    BY <2>1 DEF Explains, UserPart
  <2> QED BY <1>3, <1>6, <2>2
<1>8. /\ UserFd(a) = Nil /\ UserFd(a)' = f
      /\ \A b \in Agent \ {a} : UserFd(b)' = UserFd(b)
  <2>1. user \in [Agent -> Opt(User)]
    BY DEF IInv, AgentType
  <2>2. user'[a] = [fd |-> f, account |-> c.account]
        /\ \A b \in Agent \ {a} : user'[b] = user[b]
    BY <1>1, <1>3, <2>1
  <2>3. user'[a] # Nil
    <3>1. c.account \in Account
      BY <1>2, <1>3, FdAssumption DEF GoodMsg, Vouched, Granted
    <3>2. user'[a] \in User
      BY <1>3, <2>2, <3>1 DEF User
    <3> QED BY <3>2, NilAssumption
  <2> QED BY <1>7, <2>2, <2>3 DEF UserFd
<1>9. ~ Later(c) /\ ~ Later(m) /\ Opens(c)
  BY <1>2, <1>4 DEF Later, Opens, OpenLabel
<1>10. ASSUME NEW g \in Fd PROVE \E x, y \in Nat : Counts(x, y, g)'
  <2>1. PICK x \in Nat, y \in Nat : Counts(x, y, g)
    BY DEF FrameInv, Frames
  <2>2. CASE g # f
    <3>1. \A b \in Agent : UserFd(b)' = g <=> UserFd(b) = g
      BY <1>8, <2>2, FdAssumption
    <3>2. Unused(g)' => Unused(g)
      BY <1>1, <3>1 DEF Unused
    <3>3. {c} \cap Data(g) = {} /\ {m} \cap Data(g) = {}
      BY <1>9 DEF Data
    <3>4. Undisturbed(g, {c}, {m})
      BY <1>1, <1>4, <2>2, <3>1, <3>2, <3>3 DEF Undisturbed
    <3> QED BY <1>5, <2>1, <3>4, CountKept
  <2>3. CASE g = f
    <3>1. y = 0
      BY <1>2, <1>3, <1>9, <2>1, <2>3 DEF Counts, Awaits
    <3>2. Len(served[f]) \in Nat
      BY <1>3 DEF IInv, AgentType
    <3>3. Len(served[f]) = 0
      BY <2>1, <2>3, <3>1, <3>2 DEF Counts
    <3>4. None(Sent(f))'
      <4>1. None(Sent(f))
        BY <1>3, <1>6, NoneSent DEF FrameInv
      <4>2. {m} \cap Sent(f) = {}
        BY <1>9 DEF Sent
      <4> QED BY <1>5, <4>1, <4>2, MoveNone
    <3>5. ASSUME NEW b \in Agent PROVE Lined(mbox'[b], Sent(f), 0 + 2, 0 + 1)
      <4>1. Free(mbox'[b], Sent(f))
        BY <3>4, ServiceOf DEF None, Flies, Flying, Free
      <4> QED BY <4>1, LinedNone
    <3>6. Lined(mbox'[Gate], Raw(f), x + 2, nsent[f])
      <4>1. {c} \cap Raw(f) = {} /\ {m} \cap Raw(f) = {}
        BY <1>9 DEF Raw
      <4>2. Lined(mbox[Gate], Raw(f), x + 2, nsent[f])
        BY <2>1, <2>3 DEF Counts
      <4> QED BY <1>5, <4>1, <4>2, MoveLined, MailOf, ServiceOf
    <3>7. Counts(x, 0, f)'
      BY <1>1, <2>1, <2>3, <3>1, <3>3, <3>5, <3>6 DEF Counts
    <3> QED BY <2>3, <3>7
  <2> QED BY <2>2, <2>3
<1>11. Orders'
  <2>1. ASSUME NEW k \in GoodMsg, Orderly(k) PROVE Calm(k, {m})
    <3>1. {m} \cap Raw(SocketOf(k)) = {} /\ {m} \cap Sent(SocketOf(k)) = {}
      BY <1>9 DEF Raw, Sent
    <3>2. SocketOf(k) \in Fd /\ SocketOf(k) # Nil
      BY SocketIn, FdAssumption
    <3>3. k.at = "my_dispatch" => k.callee \in Agent
      BY DEF GoodMsg, Vouched, NeedsCallee, AgentLabel
    <3>4. k.at = "my_dispatch" => UserFd(k.callee)' = SocketOf(k)
      BY <1>8, <2>1, <3>2, <3>3 DEF Orderly
    <3>5. k.at = "MSG.data" /\ forwarded'[SocketOf(k)] # Nil =>
                UserFd(forwarded[SocketOf(k)])' = SocketOf(k)
      <4>1. SUFFICES ASSUME k.at = "MSG.data", NEW b, b = forwarded[SocketOf(k)], b # Nil
                     PROVE  UserFd(b)' = SocketOf(k)
        BY <1>1 DEF SocketOf
      <4>2. b \in Agent /\ UserFd(b) = SocketOf(k)
        BY <2>1, <3>2, <4>1 DEF Orderly, IInv, GateType, Opt
      <4> QED BY <1>8, <3>2, <4>2
    <3> QED BY <1>1, <2>1, <3>1, <3>4, <3>5 DEF Orderly, Calm, SocketOf
  <2>2. Orderly(m)'
    <3>1. Tame(c, m) /\ Orderly(c)
      BY <1>2, <1>4 DEF Tame, Framed, FrameInv, Orders
    <3> QED BY <1>1, <1>2, <1>5, <3>1, TameOrderly
  <2> QED BY <1>5, <2>1, <2>2, OrderKept DEF FrameInv
<1> QED BY <1>10, <1>11 DEF FrameInv, Frames

LEMMA CloseFinishFr ==
    ASSUME IInv, IInv', NEW st, NEW ag, Explains(st, ag), FrameInv, NEW a \in Agent,
           CloseFinish(a)
    PROVE  FrameInv'
<1>0. PICK c, m, f : c = Cur(a) /\ m = [c EXCEPT !.at = "gamed_close"] /\ f = SocketOf(c)
  OBVIOUS
<1>1. /\ At(a, "close_finish") /\ Send(a, Gate, m) /\ a \in Service
      /\ Gate \in Service /\ Gate # a
      /\ user' = [user EXCEPT ![a] = Nil]
      /\ served' = served /\ sock' = sock /\ nsent' = nsent
      /\ forwarded' = forwarded /\ pending_msg' = pending_msg
  BY <1>0, ServiceOf DEF CloseFinish, sockVars, gateVars
<1>2. Placed /\ Handles(a, c, "close_finish") /\ c \in GoodMsg /\ c.at = "close_finish" /\ Flies(c)
  BY <1>0, <1>1, HandledBy DEF Handles
<1>3. /\ f \in Fd /\ UserFd(a) = f /\ ag[f] = a /\ st[f] = "close_finish"
      /\ c.task[1] = "close"
  <2>1. /\ f \in Fd /\ UserFd(a) = f /\ ag[f] = a /\ st[f] = "close_finish"
        /\ FitsLeaving(ag, c, f)
    BY <1>0, <1>1, ClosingUser
  <2> QED BY <2>1 DEF FitsLeaving
<1>4. m.task = c.task /\ m.at = "gamed_close"
  BY <1>0, <1>2 DEF GoodMsg, Msg
<1>5. m \in GoodMsg /\ Moves({c}, {m})
  BY <1>0, <1>1, <1>2, SendMoves DEF At
<1>6. UserFd(a)' = Nil /\ \A b \in Agent \ {a} : UserFd(b)' = UserFd(b)
  BY <1>1 DEF UserFd, IInv, AgentType
<1>7. sock[f] = "closed" /\ None(Raw(f)) /\ None(Sent(f))
  BY <1>0, <1>2, <1>3 DEF FrameInv, Orders, Orderly
<1>8. ~ Later(c) /\ ~ Later(m) /\ ~ Opens(m)
  BY <1>2, <1>4 DEF Later, Opens, OpenLabel
<1>9. ASSUME NEW g \in Fd PROVE \E x, y \in Nat : Counts(x, y, g)'
  <2>1. PICK x \in Nat, y \in Nat : Counts(x, y, g)
    BY DEF FrameInv, Frames
  <2>2. \A b \in Agent : UserFd(b)' = g => UserFd(b) = g
    BY <1>6, FdAssumption
  <2>3. Unused(g)' => Unused(g)
    BY <1>1, <1>3, <1>6, <1>7 DEF Unused
  <2>4. Undisturbed(g, {c}, {m})
    BY <1>1, <1>8, <2>2, <2>3 DEF Undisturbed, Data
  <2> QED BY <1>5, <2>1, <2>4, CountKept
<1>10. Orders'
  <2>1. ASSUME NEW k \in GoodMsg, Flies(k), Orderly(k) PROVE Calm(k, {m})
    <3>1. {m} \cap Raw(SocketOf(k)) = {} /\ {m} \cap Sent(SocketOf(k)) = {}
      BY <1>8 DEF Raw, Sent
    <3>2. SocketOf(k) \in Fd /\ SocketOf(k) # Nil
      BY SocketIn, FdAssumption
    <3>3. /\ k.at = "my_dispatch" => SocketOf(k) # f
          /\ k.at = "MSG.data" => SocketOf(k) # f
      <4>1. /\ k.at = "my_dispatch" => k \in Sent(SocketOf(k))
            /\ k.at = "MSG.data" => k \in Raw(SocketOf(k)) \/ st[SocketOf(k)] = "MSG.data"
        BY <2>1, FlyingFrame
      <4> QED BY <1>3, <1>7, <2>1, <4>1 DEF None
    <3>4. k.at = "my_dispatch" => UserFd(k.callee)' = SocketOf(k)
      <4>1. k.at = "my_dispatch" => k.callee \in Agent /\ UserFd(k.callee) = SocketOf(k)
        BY <2>1 DEF GoodMsg, Vouched, NeedsCallee, AgentLabel, Orderly
      <4> QED BY <1>3, <1>6, <3>3, <4>1
    <3>5. k.at = "MSG.data" /\ forwarded'[SocketOf(k)] # Nil =>
                UserFd(forwarded[SocketOf(k)])' = SocketOf(k)
      <4>1. SUFFICES ASSUME k.at = "MSG.data", NEW b, b = forwarded[SocketOf(k)], b # Nil
                     PROVE  UserFd(b)' = SocketOf(k)
        BY <1>1 DEF SocketOf
      <4>2. b \in Agent /\ UserFd(b) = SocketOf(k)
        BY <2>1, <3>2, <4>1 DEF Orderly, IInv, GateType, Opt
      <4> QED BY <1>3, <1>6, <3>3, <4>1, <4>2
    <3> QED BY <1>1, <2>1, <3>1, <3>4, <3>5 DEF Orderly, Calm, SocketOf
  <2>2. Orderly(m)'
    <3>1. Tame(c, m) /\ Orderly(c)
      BY <1>2, <1>4 DEF Tame, Framed, FrameInv, Orders
    <3> QED BY <1>1, <1>2, <1>5, <3>1, TameOrderly
  <2> QED BY <1>5, <2>1, <2>2, OrderKept DEF FrameInv
<1> QED BY <1>9, <1>10 DEF FrameInv, Frames

LEMMA MyDispatchFr ==
    ASSUME IInv, IInv', NEW st, NEW ag, Explains(st, ag), FrameInv, NEW a \in Agent,
           MyDispatch(a)
    PROVE  FrameInv'
<1>0. PICK c, f : c = Cur(a) /\ f = SocketOf(c)
  OBVIOUS
<1>1. /\ At(a, "my_dispatch") /\ End(a) /\ a \in Service /\ Gate \in Service /\ Gate # a
      /\ user' = user /\ sock' = sock /\ nsent' = nsent
      /\ forwarded' = forwarded /\ pending_msg' = pending_msg
  BY <1>0, ServiceOf DEF MyDispatch, sockVars, gateVars
<1>2. /\ Placed /\ Handles(a, c, "my_dispatch") /\ c \in GoodMsg /\ c.at = "my_dispatch"
      /\ Flies(c) /\ c.callee = a /\ mbox[a] \in Seq(GoodMsg) /\ mbox[a] # << >>
  BY <1>0, <1>1, HandledBy DEF Handles, Home, AgentLabel
<1>3. f \in Fd /\ f # Nil /\ c \in Sent(f) /\ UserFd(a) = f /\ user[a] # Nil
  <2>1. c \in Sent(f) /\ f \in Fd
    BY <1>0, <1>2, FlyingFrame, SocketIn
  <2>2. UserFd(a) = f
    BY <1>0, <1>2 DEF FrameInv, Orders, Orderly
  <2> QED BY <2>1, <2>2, FdAssumption DEF UserFd
<1>4. /\ served' = [served EXCEPT ![f] = Append(@, c.task[3])]
      /\ served \in [Fd -> Seq(Nth)] /\ c.task[3] \in Nth
  BY <1>0, <1>2, <1>3 DEF MyDispatch, IInv, AgentType, GoodMsg, Msg, Task
<1>5. Moves({c}, {})
  BY <1>0, <1>1, <1>2, EndMoves
<1>6. \A b : UserFd(b)' = UserFd(b)
  BY <1>1 DEF UserFd
<1>7. ASSUME NEW g \in Fd PROVE \E x, y \in Nat : Counts(x, y, g)'
  <2>1. PICK x \in Nat, y \in Nat : Counts(x, y, g)
    BY DEF FrameInv, Frames
  <2>2. CASE g # f
    <3>1. {c} \cap Data(g) = {}
      BY <1>0, <2>2 DEF Data
    <3>2. Unused(g)' => Unused(g)
      BY <1>1, <1>6 DEF Unused
    <3>3. served'[g] = served[g]
      BY <1>4, <2>2
    <3>4. Undisturbed(g, {c}, {})
      BY <1>1, <1>6, <3>1, <3>2, <3>3 DEF Undisturbed
    <3> QED BY <1>5, <2>1, <3>4, CountKept
  <2>3. CASE g = f
    <3>0. PICK n : n = Len(served[f])
      OBVIOUS
    <3>1. n \in Nat /\ served[f] \in Seq(Nth)
      BY <1>3, <1>4, <3>0
    <3>2. Lined(mbox[a], Sent(f), n + 2, y + 1)
      BY <1>3, <2>1, <2>3, <3>0 DEF Counts
    <3>3. /\ c.task[3] = n + 2 /\ n + 2 <= y + 1
          /\ Lined(Tail(mbox[a]), Sent(f), n + 3, y + 1)
      <4>1. Head(mbox[a]) = c
        BY <1>0 DEF Cur
      <4>2. n + 2 \in Int /\ y + 1 \in Int /\ (n + 2) + 1 = n + 3
        BY <3>1
      <4>3. PICK t, lo, hi : t = Tail(mbox[a]) /\ lo = n + 2 /\ hi = y + 1
        OBVIOUS
      <4>4. c.task[3] = lo /\ lo <= hi /\ Lined(t, Sent(f), lo + 1, hi)
        <5>1. PICK q, B : q = mbox[a] /\ B = Sent(f)
          OBVIOUS
        <5>2. /\ q \in Seq(GoodMsg) /\ q # << >> /\ t = Tail(q) /\ Head(q) \in B
              /\ lo \in Int /\ hi \in Int
          BY <1>2, <1>3, <4>1, <4>2, <4>3, <5>1
        <5>3. Lined(q, B, lo, hi)
          BY <3>2, <4>3, <5>1
        <5>4. Head(q).task[3] = lo /\ lo <= hi /\ Lined(t, B, lo + 1, hi)
          BY <5>2, <5>3, LinedHead
        <5> QED BY <4>1, <5>1, <5>4
      <4> QED BY <4>2, <4>3, <4>4
    <3>4. mbox'[a] = Tail(mbox[a]) /\ mbox'[Gate] = mbox[Gate]
      BY <1>1, MailOf DEF End, Mail
    <3>5. /\ served'[f] = Append(served[f], n + 2) /\ Len(served'[f]) = n + 1
          /\ \A i \in 1 .. n : served'[f][i] = served[f][i]
          /\ served'[f][n + 1] = n + 2
      BY <1>3, <1>4, <3>0, <3>1, <3>3
    <3>6. \A i \in 1 .. n + 1 : served'[f][i] = i + 1
      <4>1. \A i \in 1 .. n : served[f][i] = i + 1
        BY <2>1, <2>3, <3>0 DEF Counts
      <4> SUFFICES ASSUME NEW i \in 1 .. n + 1 PROVE served'[f][i] = i + 1
        OBVIOUS
      <4>2. CASE i = n + 1
        BY <3>1, <3>5, <4>2
      <4>3. CASE i # n + 1
        <5>1. i \in 1 .. n
          BY <3>1, <4>3
        <5> QED BY <3>5, <4>1, <5>1
      <4> QED BY <4>2, <4>3
    <3>7. ASSUME NEW b \in Agent, UserFd(b)' = f
          PROVE  Lined(mbox'[b], Sent(f), (n + 1) + 2, y + 1)
      <4>1. b = a
        BY <1>3, <1>6, <3>7, ServesOne
      <4>2. (n + 1) + 2 = n + 3
        BY <3>1
      <4> QED BY <3>3, <3>4, <4>1, <4>2
    <3>8. ~ Unused(f)' /\ ~ Awaits(f)'
      <4>1. ~ Unused(f)'
        BY <1>3, <1>6 DEF Unused
      <4>2. ASSUME Awaits(f)' PROVE Awaits(f)
        <5>1. PICK m : Flies(m)' /\ Opens(m) /\ m.nfd = f
          BY <4>2 DEF Awaits, Opens
        <5> QED BY <1>5, <5>1, MailOf, MoveFacts DEF Awaits
      <4>3. ~ Awaits(f)
        BY <2>1, <2>3, <3>1, <3>3 DEF Counts
      <4> QED BY <4>1, <4>2, <4>3
    <3>9. Lined(mbox'[Gate], Raw(f), x + 2, nsent'[f])
      BY <1>1, <2>1, <2>3, <3>4 DEF Counts
    <3>10. n + 1 <= y
      BY <3>1, <3>3
    <3>11. Counts(x, y, f)'
      <4>1. /\ x = 0 \/ x + 1 <= nsent'[f]
            /\ pending_msg'[f] # Nil => /\ Len(pending_msg'[f]) = x
                                        /\ \A i \in 1 .. x : pending_msg'[f][i] = i + 1
            /\ forwarded'[f] # Nil => pending_msg'[f] = Nil /\ y = x
            /\ sock'[f] # "closed" /\ forwarded'[f] = Nil /\ pending_msg'[f] = Nil => x = 0
        BY <1>1, <2>1, <2>3 DEF Counts
      <4> QED BY <3>5, <3>6, <3>7, <3>8, <3>9, <3>10, <4>1 DEF Counts
    <3> QED BY <2>3, <3>11
  <2> QED BY <2>2, <2>3
<1>8. Orders'
  <2>1. ASSUME NEW k \in GoodMsg, Orderly(k) PROVE Calm(k, {})
    BY <1>1, <1>6, <2>1 DEF Orderly, Calm, UserFd, SocketOf
  <2> QED BY <1>5, <2>1, OrderKept DEF FrameInv
<1> QED BY <1>7, <1>8 DEF FrameInv, Frames

-----------------------------------------------------------------------------
(* The steps of the gate that are about no frame                           *)

LEMMA StopFr ==
    ASSUME IInv, NEW st, NEW ag, Explains(st, ag), FrameInv,
           NEW l, l \notin {"MSG.data", "my_dispatch"}, At(Gate, l), End(Gate), Frozen
    PROVE  FrameInv'
<1>1. Gate \in Service /\ Placed /\ mbox[Gate] # << >>
  BY ServiceOf DEF Explains, At
<1>2. Stops(Gate, l)
  BY <1>1, Handling, EndMoves DEF Stops
<1> QED BY <1>1, <1>2, PlainStops

LEMMA GateStopsFr ==
    ASSUME IInv, NEW st, NEW ag, Explains(st, ag), FrameInv,
           \/ Refuse \/ Accept \/ RefusedClose \/ KickDone \/ CloseUnknown
    PROVE  FrameInv'
<1>1. Frozen /\ End(Gate)
  BY DEF Frozen, Refuse, Accept, RefusedClose, KickDone, CloseUnknown,
     sockVars, gateVars, gamedVars, agentVars
<1>2. \/ At(Gate, "MSG.open") \/ At(Gate, "refused")
      \/ At(Gate, "kick_ret") \/ At(Gate, "close_fd")
  BY DEF Refuse, Accept, RefusedClose, KickDone, CloseUnknown
<1> QED BY <1>1, <1>2, StopFr

LEMMA CloseWithoutAgentFr ==
    ASSUME IInv, NEW st, NEW ag, Explains(st, ag), FrameInv, CloseWithoutAgent
    PROVE  FrameInv'
<1>1. PICK f : f = SocketOf(Cur(Gate))
  OBVIOUS
<1>2. forwarded' = forwarded
  <2>1. forwarded[f] = Nil /\ forwarded' = [forwarded EXCEPT ![f] = Nil]
    BY <1>1 DEF CloseWithoutAgent, Forget
  <2> QED BY <2>1 DEF IInv, GateType
<1>3. Frozen /\ End(Gate) /\ At(Gate, "close_fd")
  BY <1>2 DEF Frozen, CloseWithoutAgent, Forget, sockVars, agentVars
<1> QED BY <1>3, StopFr

LEMMA LoginRefusedFr ==
    ASSUME IInv, IInv', NEW st, NEW ag, Explains(st, ag), FrameInv, LoginRefused
    PROVE  FrameInv'
<1>0. PICK c, m : c = Cur(Gate) /\ m = [c EXCEPT !.at = "refused"]
  OBVIOUS
<1>1. At(Gate, "auth") /\ Frozen /\ (Yield(Gate, m) \/ End(Gate)) /\ Gate \in Service
  BY <1>0, ServiceOf DEF LoginRefused, Frozen, sockVars, gateVars, agentVars
<1>2. Placed /\ c \in GoodMsg
  BY <1>0, <1>1, HandledBy
<1>3. m.task = c.task /\ m.at = "refused"
  BY <1>0, <1>2 DEF GoodMsg, Msg
<1>4. ~ Opens(m) /\ m.at \notin Framed
  BY <1>3 DEF Opens, OpenLabel, Framed
<1>5. CASE Yield(Gate, m)
  BY <1>0, <1>1, <1>2, <1>3, <1>4, <1>5, TameStep DEF Goes2
<1>6. CASE End(Gate)
  BY <1>1, <1>6, StopFr
<1> QED BY <1>1, <1>5, <1>6

LEMMA LoginTakeoverFr ==
    ASSUME IInv, IInv', NEW st, NEW ag, Explains(st, ag), FrameInv, LoginTakeover
    PROVE  FrameInv'
<1>0. PICK c, f, account, info :
        /\ c = Cur(Gate) /\ f = SocketOf(c) /\ account = AccountOf[f]
        /\ info = online_account[account]
  OBVIOUS
<1>00. PICK m : m = [c EXCEPT !.at = "other_login", !.callee = info.agent,
                              !.nfd = f, !.account = account, !.rec = info.id,
                              !.ret = "other_ret"]
  OBVIOUS
<1>1. At(Gate, "auth") /\ Frozen /\ Send(Gate, info.agent, m) /\ info # Nil /\ Gate \in Service
  BY <1>0, <1>00, ServiceOf DEF LoginTakeover, Frozen, sockVars, gateVars, agentVars
<1>2. Placed /\ c \in GoodMsg /\ c.at = "auth" /\ f \in Fd
  BY <1>0, <1>1, HandledBy, SocketIn
<1>3. m.task = c.task /\ m.at = "other_login"
  BY <1>00, <1>2 DEF GoodMsg, Msg
<1>4. ~ Opens(m) /\ m.at \notin Framed
  BY <1>3 DEF Opens, OpenLabel, Framed
<1>5. info.agent \in Service \ {Gate}
  <2>1. info \in Record
    BY <1>0, <1>1, <1>2, FdAssumption DEF IInv, GamedType, Opt
  <2> QED BY <2>1, ServiceOf DEF Record
<1> QED BY <1>0, <1>1, <1>2, <1>3, <1>4, <1>5, TameStep DEF Goes2

LEMMA OtherLoginDoneFr ==
    ASSUME IInv, IInv', NEW st, NEW ag, Explains(st, ag), FrameInv, OtherLoginDone
    PROVE  FrameInv'
<1>0. PICK c, m : c = Cur(Gate) /\ m = [c EXCEPT !.at = "agent_kick", !.ret = "kick_ret"]
  OBVIOUS
<1>1. At(Gate, "other_ret") /\ Frozen /\ Send(Gate, c.callee, m) /\ Gate \in Service
  BY <1>0, ServiceOf DEF OtherLoginDone, Frozen, sockVars, gateVars, gamedVars, agentVars
<1>2. Placed /\ c \in GoodMsg /\ c.at = "other_ret"
  BY <1>0, <1>1, HandledBy
<1>3. m.task = c.task /\ m.at = "agent_kick"
  BY <1>0, <1>2 DEF GoodMsg, Msg
<1>4. ~ Opens(m) /\ m.at \notin Framed
  BY <1>3 DEF Opens, OpenLabel, Framed
<1>5. c.callee \in Service \ {Gate}
  BY <1>2, ServiceOf DEF GoodMsg, Vouched, NeedsCallee, AgentLabel, RetLabel
<1> QED BY <1>0, <1>1, <1>2, <1>3, <1>4, <1>5, TameStep DEF Goes2

LEMMA AssignFr ==
    ASSUME IInv, IInv', NEW st, NEW ag, Explains(st, ag), FrameInv, Assign
    PROVE  FrameInv'
<1>0. PICK c, m : c = Cur(Gate) /\ m = [c EXCEPT !.at = "agent_open", !.ret = "open_ret"]
  OBVIOUS
<1>1. At(Gate, "assign") /\ Frozen /\ Send(Gate, c.callee, m) /\ Gate \in Service
  BY <1>0, ServiceOf DEF Assign, Frozen, sockVars, gateVars, gamedVars, agentVars
<1>2. Placed /\ c \in GoodMsg /\ c.at = "assign"
  BY <1>0, <1>1, HandledBy
<1>3. m.task = c.task /\ m.at = "agent_open" /\ m.nfd = c.nfd
  BY <1>0, <1>2 DEF GoodMsg, Msg
<1>4. Opens(c) /\ m.at \notin Framed
  BY <1>2, <1>3 DEF Opens, OpenLabel, Framed
<1>5. c.callee \in Service \ {Gate}
  BY <1>2, ServiceOf DEF GoodMsg, Vouched, NeedsCallee, AgentLabel, RetLabel
<1> QED BY <1>0, <1>1, <1>2, <1>3, <1>4, <1>5, TameStep DEF Goes2

LEMMA CloseOfflineFr ==
    ASSUME IInv, IInv', NEW st, NEW ag, Explains(st, ag), FrameInv, CloseOffline
    PROVE  FrameInv'
<1>0. PICK c, m : c = Cur(Gate) /\ m = [c EXCEPT !.at = "recycle", !.agent = c.callee]
  OBVIOUS
<1>1. At(Gate, "gamed_close") /\ Frozen /\ Yield(Gate, m) /\ Gate \in Service
  BY <1>0, ServiceOf DEF CloseOffline, Frozen, sockVars, gateVars, gamedVars, agentVars
<1>2. Placed /\ c \in GoodMsg
  BY <1>0, <1>1, HandledBy
<1>3. m.task = c.task /\ m.at = "recycle"
  BY <1>0, <1>2 DEF GoodMsg, Msg
<1>4. ~ Opens(m) /\ m.at \notin Framed
  BY <1>3 DEF Opens, OpenLabel, Framed
<1> QED BY <1>0, <1>1, <1>2, <1>3, <1>4, TameStep DEF Goes2

LEMMA RecycleFr ==
    ASSUME IInv, IInv', NEW st, NEW ag, Explains(st, ag), FrameInv, Recycle
    PROVE  FrameInv'
<1>0. PICK c, m : c = Cur(Gate) /\ m = [c EXCEPT !.at = "gamed_closed", !.callee = c.agent]
  OBVIOUS
<1>1. At(Gate, "recycle") /\ Frozen /\ Send(Gate, c.agent, m) /\ Gate \in Service
  BY <1>0, ServiceOf DEF Recycle, Frozen, sockVars, gateVars, gamedVars, agentVars
<1>2. Placed /\ c \in GoodMsg /\ c.at = "recycle"
  BY <1>0, <1>1, HandledBy
<1>3. m.task = c.task /\ m.at = "gamed_closed"
  BY <1>0, <1>2 DEF GoodMsg, Msg
<1>4. ~ Opens(m) /\ m.at \notin Framed
  BY <1>3 DEF Opens, OpenLabel, Framed
<1>5. c.agent \in Service \ {Gate}
  BY <1>2, ServiceOf DEF GoodMsg, Vouched, NeedsCallee, AgentLabel, RetLabel
<1> QED BY <1>0, <1>1, <1>2, <1>3, <1>4, <1>5, TameStep DEF Goes2

LEMMA KickFr ==
    ASSUME IInv, IInv', NEW st, NEW ag, Explains(st, ag), FrameInv, Kick
    PROVE  FrameInv'
<1>0. PICK c, m, n : /\ c = Cur(Gate) /\ m = [c EXCEPT !.at = "kick_close"]
                     /\ n = [c EXCEPT !.at = "agent_ret"]
  OBVIOUS
<1>1. /\ At(Gate, "gamed_kick") /\ Frozen /\ Gate \in Service
      /\ Yield(Gate, m) \/ Send(Gate, c.callee, n)
  BY <1>0, ServiceOf DEF Kick, Frozen, sockVars, gateVars, gamedVars, agentVars
<1>2. Placed /\ Handles(Gate, c, "gamed_kick") /\ c \in GoodMsg /\ c.at = "gamed_kick"
  BY <1>0, <1>1, HandledBy
<1>3. m.task = c.task /\ m.at = "kick_close" /\ n.task = c.task /\ n.at = "agent_ret"
      /\ n.ret = c.ret
  BY <1>0, <1>2 DEF GoodMsg, Msg
<1>4. c.ret = "kick_ret"
  BY <1>1, <1>2, RetOf
<1>5. ~ Opens(m) /\ ~ Opens(n) /\ m.at \notin Framed /\ n.at \notin Framed
  BY <1>3, <1>4 DEF Opens, OpenLabel, Framed
<1>6. c.callee \in Service \ {Gate}
  BY <1>2, ServiceOf DEF GoodMsg, Vouched, NeedsCallee, AgentLabel, RetLabel
<1>7. CASE Yield(Gate, m)
  <2>1. Goes2(Gate, m)
    BY <1>7 DEF Goes2
  <2> QED BY <1>0, <1>1, <1>2, <1>3, <1>5, <2>1, TameStep
<1>8. CASE Send(Gate, c.callee, n)
  <2>1. Goes2(Gate, n)
    BY <1>6, <1>8 DEF Goes2
  <2> QED BY <1>0, <1>1, <1>2, <1>3, <1>5, <2>1, TameStep
<1> QED BY <1>1, <1>7, <1>8

LEMMA KickCloseFr ==
    ASSUME IInv, IInv', NEW st, NEW ag, Explains(st, ag), FrameInv, KickClose
    PROVE  FrameInv'
<1>0. PICK c, m : c = Cur(Gate) /\ m = [c EXCEPT !.at = "agent_ret"]
  OBVIOUS
<1>1. At(Gate, "kick_close") /\ Frozen /\ Gate \in Service /\ Send(Gate, c.callee, m)
  BY <1>0, ServiceOf DEF KickClose, Frozen, gateVars, gamedVars, agentVars
<1>2. Placed /\ Handles(Gate, c, "kick_close") /\ c \in GoodMsg /\ c.at = "kick_close"
  BY <1>0, <1>1, HandledBy
<1>3. m.task = c.task /\ m.at = "agent_ret" /\ m.ret = c.ret
  BY <1>0, <1>2 DEF GoodMsg, Msg
<1>4. c.ret = "kick_ret"
  BY <1>1, <1>2, RetOf
<1>5. ~ Opens(m) /\ m.at \notin Framed
  BY <1>3, <1>4 DEF Opens, OpenLabel, Framed
<1>6. c.callee \in Service \ {Gate}
  BY <1>2, ServiceOf DEF GoodMsg, Vouched, NeedsCallee, AgentLabel, RetLabel
<1>7. Goes2(Gate, m)
  BY <1>1, <1>6 DEF Goes2
<1> QED BY <1>0, <1>1, <1>2, <1>3, <1>5, <1>7, TameStep

\* A socket that waits for its agent has been served by none.
LEMMA UnusedOf ==
    ASSUME IInv, NEW st, NEW ag, Explains(st, ag), NEW f \in Fd,
           st[f] \in {"auth", "waiting"}
    PROVE  Unused(f)
<1>1. SockAt(st[f], f)
  BY DEF Explains, SockPart
<1>2. sock[f] = "open" /\ forwarded[f] = Nil
  BY <1>1 DEF SockAt, OpenStage, FwdStage, Entering, Asked, Awaited, Leaving, Meeting, Ending
<1>3. st[f] \notin UseStage
  BY DEF UseStage, Leaving, Meeting
<1>4. \A a \in Agent : UserFd(a) # f
  BY <1>3, ServesOne
<1> QED BY <1>2, <1>4 DEF Unused

LEMMA LoginFreshFr ==
    ASSUME IInv, IInv', NEW st, NEW ag, Explains(st, ag), FrameInv, LoginFresh
    PROVE  FrameInv'
<1>0. PICK c, f, account : /\ c = Cur(Gate) /\ f = SocketOf(c) /\ account = AccountOf[f]
  OBVIOUS
<1>00. PICK n : n = [c EXCEPT !.nfd = f, !.account = account]
  OBVIOUS
<1>1. At(Gate, "auth") /\ ForwardAgent(n) /\ Frozen /\ Gate \in Service
  BY <1>0, <1>00, ServiceOf DEF LoginFresh, Frozen, sockVars, gateVars, agentVars
<1>2. Placed /\ Handles(Gate, c, "auth") /\ c \in GoodMsg
  BY <1>0, <1>1, HandledBy
<1>3. f \in Fd /\ st[f] = "auth"
  BY <1>0, <1>1, <1>2, OwnOf DEF OpenLabel
<1>4. PICK a \in Agent : Yield(Gate, [n EXCEPT !.at = "assign", !.callee = a])
  BY <1>1, NewAgent DEF Explains
<1>5. PICK m : m = [n EXCEPT !.at = "assign", !.callee = a]
  OBVIOUS
<1>6. m.at = "assign" /\ m.nfd = f /\ m.task = c.task
  BY <1>00, <1>2, <1>5 DEF GoodMsg, Msg
<1>7. Unused(m.nfd) /\ m.at \notin Framed
  BY <1>3, <1>6, UnusedOf DEF Framed
<1>8. Goes2(Gate, m)
  BY <1>4, <1>5 DEF Goes2
<1> QED BY <1>0, <1>1, <1>2, <1>6, <1>7, <1>8, TameStep

LEMMA CloseForTakeoverFr ==
    ASSUME IInv, IInv', NEW st, NEW ag, Explains(st, ag), FrameInv, CloseForTakeover
    PROVE  FrameInv'
<1>0. PICK c, f, info, g : /\ c = Cur(Gate) /\ f = SocketOf(c)
                           /\ info = online_account[c.account] /\ g = info.fd
  OBVIOUS
<1>00. PICK n : n = [c EXCEPT !.agent = c.callee, !.nfd = g]
  OBVIOUS
<1>1. At(Gate, "gamed_close") /\ Kicked(info) /\ ForwardAgent(n) /\ Frozen /\ Gate \in Service
  BY <1>0, <1>00, ServiceOf DEF CloseForTakeover, Frozen, sockVars, gateVars, agentVars
<1>2. Placed /\ Handles(Gate, c, "gamed_close") /\ c \in GoodMsg
  BY <1>0, <1>1, HandledBy
<1>3. f \in Fd /\ st[f] = "gamed_close" /\ c.account = AccountOf[f]
  <2>1. f \in Fd /\ st[f] = "gamed_close" /\ FitsLeaving(ag, c, f) /\ c.at = "gamed_close"
    BY <1>0, <1>1, <1>2, LeavingOf
  <2> QED BY <2>1 DEF FitsLeaving
<1>4. g \in Fd /\ st[g] = "waiting"
  BY <1>0, <1>1, <1>3, TakenOver
<1>5. PICK a \in Agent : Yield(Gate, [n EXCEPT !.at = "assign", !.callee = a])
  BY <1>1, NewAgent DEF Explains
<1>6. PICK m : m = [n EXCEPT !.at = "assign", !.callee = a]
  OBVIOUS
<1>7. m.at = "assign" /\ m.nfd = g /\ m.task = c.task
  BY <1>00, <1>2, <1>6 DEF GoodMsg, Msg
<1>8. Unused(m.nfd) /\ m.at \notin Framed
  BY <1>4, <1>7, UnusedOf DEF Framed
<1>9. Goes2(Gate, m)
  BY <1>5, <1>6 DEF Goes2
<1> QED BY <1>0, <1>1, <1>2, <1>7, <1>8, <1>9, TameStep

-----------------------------------------------------------------------------
(* A socket closes: its frames are before the event in the mailbox of the  *)
(* gate, then in that of its agent.                                        *)

\* What is put behind the frames of B stays behind them.
LEMMA JoinLast ==
    ASSUME IInv, NEW d \in Service, NEW m \in GoodMsg, mbox'[d] = Append(mbox[d], m),
           NEW B, m \notin B, Flies(m) => Ahead(mbox[d], B, {m})
    PROVE  Ahead(mbox'[d], B, {m})
<1>0. PICK q, t : q = mbox[d] /\ t = mbox'[d]
  OBVIOUS
<1>1. q \in Seq(GoodMsg) /\ t = Append(q, m)
  BY <1>0, MailOf DEF Mail
<1>2. CASE Free(q, {m})
  <2>1. Ahead(t, B, {m})
    BY <1>1, <1>2, AppendAhead
  <2> QED BY <1>0, <2>1
<1>3. CASE ~ Free(q, {m})
  <2>1. Flies(m)
    <3>1. PICK i \in 1 .. Len(q) : q[i] = m
      BY <1>3 DEF Free
    <3> QED BY <1>0, <3>1 DEF Flies, Flying
  <2>2. Ahead(q, B, {m})
    BY <1>0, <2>1
  <2>3. Ahead(t, B, {m})
    BY <1>1, <2>2, AppendAhead
  <2> QED BY <1>0, <2>3
<1> QED BY <1>2, <1>3

\* Frames of fd that are in flight are in the one mailbox they belong to.
LEMMA FrameAt ==
    ASSUME Placed, Orders, NEW k \in GoodMsg, k.at \in Framed, Flies(k),
           NEW s \in Service, Home(k) = s
    PROVE  \E i \in 1 .. Len(mbox[s]) : mbox[s][i] = k
<1>1. k \notin ext
  BY DEF Orders, Orderly
<1>2. PICK t \in Service : \E i \in 1 .. Len(mbox[t]) : mbox[t][i] = k
  BY <1>1 DEF Flies, Flying
<1>3. PICK i \in 1 .. Len(mbox[t]) : mbox[t][i] = k
  BY <1>2
<1>4. t = s
  BY <1>3 DEF Placed, Free, Stray
<1> QED BY <1>3, <1>4

LEMMA MsgCloseFr ==
    ASSUME IInv, IInv', NEW st, NEW ag, Explains(st, ag), FrameInv, MsgClose
    PROVE  FrameInv'
<1>0. PICK c, m, fd : c = Cur(Gate) /\ m = [c EXCEPT !.at = "close_fd"] /\ fd = SocketOf(c)
  OBVIOUS
<1>1. At(Gate, "MSG.close") /\ Yield(Gate, m) /\ Frozen /\ Gate \in Service
  BY <1>0, ServiceOf DEF MsgClose, Frozen, sockVars, gateVars, gamedVars, agentVars
<1>2. /\ Placed /\ Handles(Gate, c, "MSG.close") /\ c \in GoodMsg /\ c.at = "MSG.close"
      /\ Flies(c)
  BY <1>0, <1>1, HandledBy DEF Handles
<1>3. m.task = c.task /\ m.at = "close_fd" /\ fd \in Fd /\ fd = SocketOf(m)
  BY <1>0, <1>2, SocketIn DEF GoodMsg, Msg, SocketOf
<1>4. m \in GoodMsg /\ Moves({c}, {m})
  BY <1>0, <1>1, <1>2, YieldMoves DEF At
<1>5. ~ Later(c) /\ ~ Later(m) /\ ~ Opens(m)
  BY <1>2, <1>3 DEF Later, Opens, OpenLabel
<1>6. c.task[1] = "close" => sock[fd] = "closed" /\ None(Raw(fd))
  <2>1. SUFFICES ASSUME c.task[1] = "close", NEW k \in Raw(fd), Flies(k) PROVE FALSE
    BY <1>0, <1>2 DEF FrameInv, Orders, Orderly, None
  <2>2. k \in GoodMsg /\ k.at \in Framed /\ Home(k) = Gate
    BY <2>1 DEF Raw, Framed, Home, AgentLabel
  <2>3. PICK i \in 1 .. Len(mbox[Gate]) : mbox[Gate][i] = k
    BY <1>1, <1>2, <2>1, <2>2, FrameAt DEF FrameInv
  <2>4. Ahead(mbox[Gate], Raw(fd), {c})
    BY <1>0, <1>2, <2>1 DEF FrameInv, Orders, Orderly
  <2>5. i < 1
    BY <1>2, <2>1, <2>3, <2>4 DEF Ahead, Handles
  <2> QED BY <2>5
<1>7. Orderly(m)'
  <2>1. m.task[1] = "close" => sock'[fd] = "closed" /\ None(Raw(fd))'
    <3>1. {m} \cap Raw(fd) = {}
      BY <1>5 DEF Raw
    <3> QED BY <1>1, <1>3, <1>4, <1>6, <3>1, MoveNone DEF Frozen
  <2> QED BY <1>3, <2>1 DEF Orderly, Framed, SocketOf
<1>8. (\A k \in {c} \cup {m} : ~ Later(k)) /\ (\A k \in {m} : Orderly(k)')
       /\ \A k \in {m} : Opens(k) => Awaits(k.nfd) \/ Unused(k.nfd)
  BY <1>5, <1>7
<1> QED BY <1>1, <1>4, <1>8, PlainMoves

LEMMA CloseWithAgentFr ==
    ASSUME IInv, IInv', NEW st, NEW ag, Explains(st, ag), FrameInv, CloseWithAgent
    PROVE  FrameInv'
<1>0. PICK c, fd : c = Cur(Gate) /\ fd = SocketOf(c)
  OBVIOUS
<1>00. PICK a, m : /\ a = forwarded[fd]
                   /\ m = [c EXCEPT !.at = "agent_close", !.callee = a, !.ret = "close_ret"]
  OBVIOUS
<1>1. At(Gate, "close_fd") /\ Send(Gate, a, m) /\ a # Nil /\ Frozen /\ Gate \in Service
  BY <1>0, <1>00, ServiceOf DEF CloseWithAgent, Frozen, sockVars, gateVars, gamedVars, agentVars
<1>2. /\ Placed /\ Handles(Gate, c, "close_fd") /\ c \in GoodMsg /\ c.at = "close_fd"
      /\ Flies(c)
  BY <1>0, <1>1, HandledBy DEF Handles
<1>3. /\ m.task = c.task /\ m.at = "agent_close" /\ m.callee = a
      /\ fd \in Fd /\ fd = SocketOf(m)
  BY <1>0, <1>00, <1>2, SocketIn DEF GoodMsg, Msg, SocketOf
<1>4. a \in Service \ {Gate}
  BY <1>00, <1>1, <1>3, ServiceOf DEF IInv, GateType, Opt
<1>5. m \in GoodMsg /\ Moves({c}, {m})
  BY <1>0, <1>1, <1>2, <1>4, SendMoves DEF At
<1>6. ~ Later(c) /\ ~ Later(m) /\ ~ Opens(m)
  BY <1>2, <1>3 DEF Later, Opens, OpenLabel
<1>7. Orderly(m)'
  <2>1. m.task[1] = "close" => sock'[fd] = "closed" /\ None(Raw(fd))'
    <3>1. {m} \cap Raw(fd) = {}
      BY <1>6 DEF Raw
    <3>2. m.task[1] = "close" => sock[fd] = "closed" /\ None(Raw(fd))
      BY <1>0, <1>2, <1>3 DEF FrameInv, Orders, Orderly
    <3> QED BY <1>1, <1>3, <1>5, <3>1, <3>2, MoveNone DEF Frozen
  <2>2. m \notin ext'
    <3>1. ext' = ext
      BY <1>1 DEF Send
    <3>2. m \in ext => Flies(m)
      BY DEF Flies, Flying
    <3> QED BY <1>3, <3>1, <3>2 DEF FrameInv, Orders, Orderly, Framed
  <2>3. Ahead(mbox'[a], Sent(fd), {m})
    <3>1. mbox'[a] = Append(mbox[a], m)
      BY <1>1, <1>4, MailOf DEF Send, Mail
    <3>2. m \notin Sent(fd)
      BY <1>6 DEF Sent
    <3>3. Flies(m) => Ahead(mbox[a], Sent(fd), {m})
      BY <1>3 DEF FrameInv, Orders, Orderly
    <3> QED BY <1>4, <1>5, <3>1, <3>2, <3>3, JoinLast
  <2> QED BY <1>3, <2>1, <2>2, <2>3 DEF Orderly, SocketOf
<1>8. (\A k \in {c} \cup {m} : ~ Later(k)) /\ (\A k \in {m} : Orderly(k)')
       /\ \A k \in {m} : Opens(k) => Awaits(k.nfd) \/ Unused(k.nfd)
  BY <1>6, <1>7
<1> QED BY <1>1, <1>5, <1>8, PlainMoves

LEMMA PostCloseFr ==
    ASSUME IInv, IInv', Placed, FrameInv, NEW fd \in Fd, PostClose(fd)
    PROVE  FrameInv'
<1>0. PICK m : m = Event("MSG.close", <<"close", fd, nclose[fd] + 1>>)
  OBVIOUS
<1>1. Post(m) /\ Frozen /\ sock'[fd] = "closed" /\ Gate \in Service
  BY <1>0, ServiceOf DEF PostClose, Frozen, gateVars, gamedVars, agentVars, IInv, SockType
<1>2. m.at = "MSG.close" /\ SocketOf(m) = fd
  BY <1>0 DEF Event, SocketOf
<1>3. m \in GoodMsg /\ Moves({}, {m})
  BY <1>1, <1>2, PostMoves DEF Home, AgentLabel
<1>4. ~ Later(m) /\ ~ Opens(m)
  BY <1>2 DEF Later, Opens, OpenLabel
<1>5. Orderly(m)'
  <2>1. m \notin ext'
    <3>1. ext' = ext
      BY <1>1 DEF Post
    <3>2. m \in ext => Flies(m)
      BY DEF Flies, Flying
    <3> QED BY <1>2, <3>1, <3>2 DEF FrameInv, Orders, Orderly, Framed
  <2>2. Ahead(mbox'[Gate], Raw(fd), {m})
    <3>1. mbox'[Gate] = Append(mbox[Gate], m)
      BY <1>1, MailOf DEF Post, Mail
    <3>2. m \notin Raw(fd)
      BY <1>4 DEF Raw
    <3>3. m.task[1] = "close"
      BY <1>0 DEF Event
    <3>4. Flies(m) => Ahead(mbox[Gate], Raw(fd), {m})
      BY <1>2, <3>3 DEF FrameInv, Orders, Orderly
    <3> QED BY <1>1, <1>3, <3>1, <3>2, <3>4, JoinLast
  <2> QED BY <1>1, <1>2, <2>1, <2>2 DEF Orderly, SocketOf
<1>6. (\A k \in {} \cup {m} : ~ Later(k)) /\ (\A k \in {m} : Orderly(k)')
       /\ \A k \in {m} : Opens(k) => Awaits(k.nfd) \/ Unused(k.nfd)
  BY <1>4, <1>5
<1> QED BY <1>1, <1>3, <1>6, PlainMoves

LEMMA ClientConnectFr ==
    ASSUME IInv, IInv', Placed, FrameInv, NEW fd \in Fd, ClientConnect(fd)
    PROVE  FrameInv'
<1>0. PICK m : m = Event("MSG.open", <<"open", fd, 1>>)
  OBVIOUS
<1>1. Post(m) /\ Frozen
  BY <1>0 DEF ClientConnect, Frozen, gateVars, gamedVars, agentVars, IInv, SockType
<1>2. m.at = "MSG.open" /\ m.task[1] = "open"
  BY <1>0 DEF Event
<1>3. m \in GoodMsg /\ Moves({}, {m})
  BY <1>1, <1>2, PostMoves DEF Home, AgentLabel
<1>4. ~ Later(m) /\ ~ Opens(m)
  BY <1>2 DEF Later, Opens, OpenLabel
<1>5. Orderly(m)'
  BY <1>2 DEF Orderly, Framed
<1>6. (\A k \in {} \cup {m} : ~ Later(k)) /\ (\A k \in {m} : Orderly(k)')
       /\ \A k \in {m} : Opens(k) => Awaits(k.nfd) \/ Unused(k.nfd)
  BY <1>4, <1>5
<1> QED BY <1>1, <1>3, <1>6, PlainMoves

LEMMA ReplyFr ==
    ASSUME IInv, Placed, FrameInv, NEW m, Reply(m)
    PROVE  FrameInv'
<1>1. m \in GoodMsg /\ Moves({m}, {m}) /\ m \in ext /\ Flies(m) /\ Frozen
  BY ReplyMoves DEF Flies, Flying, Reply, Frozen, sockVars, gateVars, gamedVars, agentVars
<1>2. Orderly(m)
  BY <1>1 DEF FrameInv, Orders
<1>3. m.at \notin Framed
  BY <1>1, <1>2 DEF Orderly
<1>4. Tame(m, m) /\ ~ Later(m)
  BY <1>3 DEF Tame, Framed, Later
<1>5. Orderly(m)'
  BY <1>1, <1>2, <1>4, TameOrderly DEF Frozen
<1>6. (\A k \in {m} \cup {m} : ~ Later(k)) /\ (\A k \in {m} : Orderly(k)')
       /\ \A k \in {m} : Opens(k) => Awaits(k.nfd) \/ Unused(k.nfd)
  BY <1>1, <1>4, <1>5 DEF Awaits
<1> QED BY <1>1, <1>6, PlainMoves

-----------------------------------------------------------------------------
(* Frames are queued, redirected and sent                                  *)

\* Where no frame of fd moves, none is lost or overtaken.
LEMMA LinedKept ==
    ASSUME IInv, NEW fd \in Fd, NEW T, NEW N, Moves(T, N),
           T \cap Data(fd) = {}, N \cap Data(fd) = {},
           NEW x, NEW y, Counts(x, y, fd), user' = user, served' = served
    PROVE  /\ Lined(mbox'[Gate], Raw(fd), x + 2, nsent[fd])
           /\ \A a \in Agent : UserFd(a)' = fd =>
                Lined(mbox'[a], Sent(fd), Len(served'[fd]) + 2, y + 1)
<1>1. mbox \in Mail /\ ext \subseteq GoodMsg /\ Gate \in Service /\ Agent \subseteq Service
  BY MailOf, ServiceOf
<1>2. /\ T \cap Raw(fd) = {} /\ N \cap Raw(fd) = {}
      /\ T \cap Sent(fd) = {} /\ N \cap Sent(fd) = {}
  BY RawData
<1>3. Lined(mbox[Gate], Raw(fd), x + 2, nsent[fd])
  BY DEF Counts
<1>4. ASSUME NEW a \in Agent, UserFd(a)' = fd
      PROVE  Lined(mbox'[a], Sent(fd), Len(served'[fd]) + 2, y + 1)
  <2>1. Lined(mbox[a], Sent(fd), Len(served[fd]) + 2, y + 1)
    BY <1>4 DEF Counts, UserFd
  <2>2. Lined(mbox'[a], Sent(fd), Len(served[fd]) + 2, y + 1)
    BY <1>1, <1>2, <2>1, MoveLined
  <2> QED BY <2>2
<1> QED BY <1>1, <1>2, <1>3, <1>4, MoveLined

\* A coroutine that closes a socket, at the agent, closes it from a close event.
LEMMA CloserOf ==
    ASSUME IInv, NEW st, NEW ag, Explains(st, ag), NEW k, Flies(k), k.at \in Closing3
    PROVE  k.task[1] = "close" /\ st[SocketOf(k)] = k.at
<1>1. ~ Later(k) /\ Subject(k) = SocketOf(k) /\ StageOf(k) = k.at
  BY DEF Later, Subject, Opens, OpenLabel, StageOf, Closing3
<1>2. Fits(st, ag, k, SocketOf(k))
  BY <1>1 DEF Explains, FlyPart
<1>3. st[SocketOf(k)] = k.at
  BY <1>1, <1>2 DEF Fits, Closing3
<1>4. k.at \in Leaving
  BY DEF Closing3, Leaving, Meeting
<1> QED BY <1>2, <1>3, <1>4 DEF Fits, FitsLeaving

\* A coroutine that opens an agent for a socket is where the socket's stage says.
LEMMA OpenerOf ==
    ASSUME IInv, NEW st, NEW ag, Explains(st, ag), NEW fd, Awaits(fd)
    PROVE  st[fd] \in Awaited
<1>1. PICK m : Flies(m) /\ Opens(m) /\ m.nfd = fd
  BY DEF Awaits
<1>2. ~ Later(m) /\ Subject(m) = fd
  BY <1>1 DEF Later, Subject, Opens, OpenLabel
<1>3. Fits(st, ag, m, fd)
  BY <1>1, <1>2 DEF Explains, FlyPart
<1>4. st[fd] = StageOf(m)
  BY <1>1, <1>3 DEF Fits, Opens, OpenLabel
<1> QED BY <1>1, <1>4 DEF StageOf, Opens, OpenLabel, Awaited

LEMMA CloseDoneFr ==
    ASSUME IInv, NEW st, NEW ag, Explains(st, ag), FrameInv, CloseDone
    PROVE  FrameInv'
<1>0. PICK c, f : c = Cur(Gate) /\ f = SocketOf(c)
  OBVIOUS
<1>1. /\ At(Gate, "close_ret") /\ End(Gate) /\ forwarded' = [forwarded EXCEPT ![f] = Nil]
      /\ sock' = sock /\ nsent' = nsent /\ pending_msg' = pending_msg
      /\ user' = user /\ served' = served
  BY <1>0 DEF CloseDone, Forget, sockVars, gamedVars, agentVars
<1>2. Placed /\ Handles(Gate, c, "close_ret") /\ c \in GoodMsg /\ c.at = "close_ret"
  BY <1>0, <1>1, HandledBy, ServiceOf
<1>3. f \in Fd /\ st[f] = "close_ret"
  BY <1>0, <1>2, OwnOf, ServiceOf DEF OpenLabel
<1>4. sock[f] = "closed"
  BY <1>3 DEF Explains, SockPart, SockAt, ShutStage, FwdStage, Ending
<1>5. Moves({c}, {})
  BY <1>0, <1>1, <1>2, EndMoves, ServiceOf DEF At
<1>6. forwarded'[f] = Nil /\ \A h \in Fd \ {f} : forwarded'[h] = forwarded[h]
  BY <1>1, <1>3 DEF IInv, GateType
<1>7. \A b : UserFd(b)' = UserFd(b)
  BY <1>1 DEF UserFd
<1>8. ASSUME NEW g \in Fd PROVE \E x, y \in Nat : Counts(x, y, g)'
  <2>1. PICK x \in Nat, y \in Nat : Counts(x, y, g)
    BY DEF FrameInv, Frames
  <2>2. {c} \cap Data(g) = {}
    BY <1>2 DEF Data, Later
  <2>3. Unused(g)' => Unused(g)
    BY <1>1, <1>4, <1>6, <1>7 DEF Unused
  <2>4. Undisturbed(g, {c}, {})
    BY <1>1, <1>4, <1>6, <1>7, <2>2, <2>3 DEF Undisturbed
  <2> QED BY <1>5, <2>1, <2>4, CountKept
<1>9. Orders'
  <2>1. ASSUME NEW k \in GoodMsg, Orderly(k) PROVE Calm(k, {})
    <3>1. PICK fd \in Fd : fd = SocketOf(k)
      BY SocketIn
    <3>2. k.at = "MSG.data" /\ forwarded'[fd] # Nil => UserFd(forwarded[fd])' = fd
      <4>1. SUFFICES ASSUME k.at = "MSG.data", NEW b, b = forwarded'[fd], b # Nil
                     PROVE  UserFd(b)' = fd
        OBVIOUS
      <4>2. b = forwarded[fd]
        BY <1>6, <4>1
      <4>3. UserFd(b) = fd
        BY <2>1, <3>1, <4>1, <4>2 DEF Orderly
      <4> QED BY <1>7, <4>3
    <3> QED BY <1>1, <1>7, <2>1, <3>1, <3>2 DEF Orderly, Calm, SocketOf
  <2> QED BY <1>5, <2>1, OrderKept DEF FrameInv
<1> QED BY <1>8, <1>9 DEF FrameInv, Frames

LEMMA StartLoginFr ==
    ASSUME IInv, IInv', NEW st, NEW ag, Explains(st, ag), FrameInv, StartLogin
    PROVE  FrameInv'
<1>0. PICK c, m, f : c = Cur(Gate) /\ m = [c EXCEPT !.at = "auth"] /\ f = SocketOf(c)
  OBVIOUS
<1>1. /\ At(Gate, "MSG.data") /\ Yield(Gate, m) /\ f \in connection
      /\ forwarded[f] = Nil /\ pending_msg[f] = Nil
      /\ pending_msg' = [pending_msg EXCEPT ![f] = << >>]
      /\ sock' = sock /\ nsent' = nsent /\ forwarded' = forwarded
      /\ user' = user /\ served' = served
  BY <1>0 DEF StartLogin, sockVars, gamedVars, agentVars
<1>2. Placed /\ Handles(Gate, c, "MSG.data") /\ c \in GoodMsg /\ c.at = "MSG.data" /\ f \in Fd
  BY <1>0, <1>1, HandledBy, ServiceOf, SocketIn
<1>3. st[f] = "MSG.data" /\ ~ Later(c) /\ sock[f] = "open"
  <2>1. SockAt(st[f], f)
    BY <1>2 DEF Explains, SockPart
  <2>2. st[f] \in {"idle", "MSG.data"}
    BY <1>1, <1>2, <2>1 DEF SockAt
  <2> QED BY <1>0, <1>1, <2>1, <2>2, LaterOf DEF SockAt, OpenStage, Entering
<1>4. m.task = c.task /\ m.at = "auth"
  BY <1>0, <1>2 DEF GoodMsg, Msg
<1>5. m \in GoodMsg /\ Moves({c}, {m})
  BY <1>0, <1>1, <1>2, YieldMoves, ServiceOf DEF At
<1>6. ~ Later(m) /\ ~ Opens(m)
  BY <1>4 DEF Later, Opens, OpenLabel
<1>7. \A b : UserFd(b)' = UserFd(b)
  BY <1>1 DEF UserFd
<1>8. ASSUME NEW g \in Fd PROVE \E x, y \in Nat : Counts(x, y, g)'
  <2>1. PICK x \in Nat, y \in Nat : Counts(x, y, g)
    BY DEF FrameInv, Frames
  <2>2. {c} \cap Data(g) = {} /\ {m} \cap Data(g) = {}
    BY <1>3, <1>6 DEF Data
  <2>3. Unused(g)' <=> Unused(g)
    BY <1>1, <1>7 DEF Unused
  <2>4. CASE g # f
    <3>1. pending_msg'[g] = pending_msg[g]
      BY <1>1, <2>4 DEF IInv, GateType
    <3>2. Undisturbed(g, {c}, {m})
      BY <1>1, <1>6, <1>7, <2>2, <2>3, <3>1 DEF Undisturbed
    <3> QED BY <1>5, <2>1, <3>2, CountKept
  <2>5. CASE g = f
    <3>1. x = 0
      BY <1>1, <1>3, <2>1, <2>5 DEF Counts
    <3>2. pending_msg'[f] = << >>
      BY <1>1, <1>2 DEF IInv, GateType
    <3>3. << >> # Nil
      <4>1. << >> \in Seq(Nth)
        OBVIOUS
      <4> QED BY <4>1, NilAssumption
    <3>4. Awaits(f)' => Awaits(f)
      <4>1. SUFFICES ASSUME NEW k, Flies(k)', Opens(k), k.nfd = f PROVE Awaits(f)
        BY DEF Awaits, Opens
      <4> QED BY <1>5, <1>6, <4>1, MailOf, MoveFacts DEF Awaits
    <3>5. /\ Lined(mbox'[Gate], Raw(f), x + 2, nsent[f])
          /\ \A a \in Agent : UserFd(a)' = f =>
                Lined(mbox'[a], Sent(f), Len(served'[f]) + 2, y + 1)
      BY <1>1, <1>2, <1>5, <2>1, <2>2, <2>5, LinedKept
    <3>6. Counts(0, y, f)'
      BY <1>1, <2>1, <2>3, <2>5, <3>1, <3>2, <3>3, <3>4, <3>5 DEF Counts
    <3> QED BY <2>5, <3>6
  <2> QED BY <2>4, <2>5
<1>9. Orders'
  <2>1. ASSUME NEW k \in GoodMsg, Orderly(k) PROVE Calm(k, {m})
    <3>1. {m} \cap Raw(SocketOf(k)) = {} /\ {m} \cap Sent(SocketOf(k)) = {}
      BY <1>6 DEF Raw, Sent
    <3> QED BY <1>1, <1>7, <2>1, <3>1 DEF Orderly, Calm, UserFd, SocketOf
  <2>2. Orderly(m)'
    <3>1. m.task[1] = "data"
      BY <1>2, <1>4 DEF GoodMsg, Vouched
    <3> QED BY <1>4, <3>1 DEF Orderly, Framed
  <2> QED BY <1>5, <2>1, <2>2, OrderKept DEF FrameInv
<1> QED BY <1>8, <1>9 DEF FrameInv, Frames

LEMMA EnqueueFr ==
    ASSUME IInv, NEW st, NEW ag, Explains(st, ag), FrameInv, Enqueue
    PROVE  FrameInv'
<1>0. PICK c, f : c = Cur(Gate) /\ f = SocketOf(c)
  OBVIOUS
<1>1. /\ At(Gate, "MSG.data") /\ End(Gate)
      /\ forwarded[f] = Nil /\ pending_msg[f] # Nil
      /\ pending_msg' = [pending_msg EXCEPT ![f] = Append(@, c.task[3])]
      /\ sock' = sock /\ nsent' = nsent /\ forwarded' = forwarded
      /\ user' = user /\ served' = served
  BY <1>0 DEF Enqueue, sockVars, gamedVars, agentVars
<1>2. /\ Placed /\ Handles(Gate, c, "MSG.data") /\ c \in GoodMsg /\ c.at = "MSG.data"
      /\ f \in Fd /\ c.task[3] \in Nth
      /\ mbox[Gate] \in Seq(GoodMsg) /\ mbox[Gate] # << >> /\ Head(mbox[Gate]) = c
  <2>1. Placed /\ Handles(Gate, c, "MSG.data") /\ c \in GoodMsg /\ c.at = "MSG.data"
    BY <1>0, <1>1, HandledBy, ServiceOf
  <2>2. c.task[3] \in Nth
    BY <2>1 DEF GoodMsg, Msg, Task
  <2> QED BY <1>0, <1>1, <2>1, <2>2, MailOf, ServiceOf, SocketIn DEF Mail, At, Cur
<1>3. Later(c) /\ c \in Raw(f)
  <2>1. SockAt(st[f], f)
    BY <1>2 DEF Explains, SockPart
  <2>2. st[f] # "MSG.data"
    BY <1>1, <2>1 DEF SockAt
  <2> QED BY <1>0, <1>1, <1>2, <2>2, LaterOf DEF Raw
<1>4. Moves({c}, {})
  BY <1>0, <1>1, <1>2, EndMoves, ServiceOf
<1>5. \A b : UserFd(b)' = UserFd(b)
  BY <1>1 DEF UserFd
<1>6. mbox'[Gate] = Tail(mbox[Gate]) /\ \A a \in Agent : mbox'[a] = mbox[a]
  BY <1>1, MailOf, ServiceOf DEF End, Mail
<1>7. ASSUME NEW g \in Fd PROVE \E x, y \in Nat : Counts(x, y, g)'
  <2>1. PICK x \in Nat, y \in Nat : Counts(x, y, g)
    BY DEF FrameInv, Frames
  <2>2. Unused(g)' <=> Unused(g)
    BY <1>1, <1>5 DEF Unused
  <2>3. CASE g # f
    <3>1. pending_msg'[g] = pending_msg[g]
      BY <1>1, <2>3 DEF IInv, GateType
    <3>2. {c} \cap Data(g) = {}
      BY <1>0, <2>3 DEF Data
    <3>3. Undisturbed(g, {c}, {})
      BY <1>1, <1>5, <2>2, <3>1, <3>2 DEF Undisturbed
    <3> QED BY <1>4, <2>1, <3>3, CountKept
  <2>4. CASE g = f
    <3>0. PICK q, t, p, lo, hi : /\ q = mbox[Gate] /\ t = Tail(q) /\ p = pending_msg[f]
                                 /\ lo = x + 2 /\ hi = nsent[f]
      OBVIOUS
    <3>1. hi \in Int /\ lo \in Int /\ Lined(q, Raw(f), lo, hi)
      BY <1>2, <2>1, <2>4, <3>0, BoundAssumption DEF Counts, IInv, SockType
    <3>2. c.task[3] = lo /\ lo <= hi /\ Lined(t, Raw(f), lo + 1, hi)
      <4>1. q \in Seq(GoodMsg) /\ q # << >> /\ t = Tail(q) /\ Head(q) \in Raw(f)
        BY <1>2, <1>3, <3>0
      <4>2. Head(q).task[3] = lo /\ lo <= hi /\ Lined(t, Raw(f), lo + 1, hi)
        BY <3>1, <4>1, LinedHead
      <4> QED BY <1>2, <3>0, <4>2
    <3>3. p \in Seq(Nth) /\ Len(p) = x /\ \A i \in 1 .. x : p[i] = i + 1
      <4>1. p \in Seq(Nth)
        BY <1>1, <1>2, <3>0 DEF IInv, GateType, Opt
      <4> QED BY <1>1, <2>1, <2>4, <3>0, <4>1 DEF Counts
    <3>4. PICK r : r = Append(p, lo)
      OBVIOUS
    <3>5. pending_msg'[f] = r
      <4>1. pending_msg \in [Fd -> Opt(Seq(Nth))]
        BY DEF IInv, GateType
      <4> QED BY <1>1, <1>2, <3>0, <3>2, <3>4, <4>1
    <3>6. r # Nil /\ Len(r) = x + 1 /\ \A i \in 1 .. x + 1 : r[i] = i + 1
      <4>1. r \in Seq(Nth)
        BY <1>2, <3>2, <3>3, <3>4
      <4>2. Len(r) = x + 1 /\ r[x + 1] = x + 2 /\ \A i \in 1 .. x : r[i] = p[i]
        BY <1>2, <3>0, <3>2, <3>3, <3>4
      <4>3. ASSUME NEW i \in 1 .. x + 1 PROVE r[i] = i + 1
        <5>1. CASE i = x + 1
          BY <4>2, <5>1
        <5>2. CASE i # x + 1
          <6>1. i \in 1 .. x
            BY <5>2
          <6> QED BY <3>3, <4>2, <6>1
        <5> QED BY <5>1, <5>2
      <4> QED BY <4>1, <4>2, <4>3, NilAssumption
    <3>7. Awaits(f)' => Awaits(f)
      <4>1. SUFFICES ASSUME NEW k, Flies(k)', Opens(k), k.nfd = f PROVE Awaits(f)
        BY DEF Awaits, Opens
      <4> QED BY <1>4, <4>1, MailOf, MoveFacts DEF Awaits
    <3>8. Lined(mbox'[Gate], Raw(f), (x + 1) + 2, nsent'[f])
      <4>1. (x + 1) + 2 = lo + 1
        BY <3>0
      <4> QED BY <1>1, <1>6, <3>0, <3>2, <4>1
    <3>9. (x + 1) + 1 <= nsent'[f]
      BY <1>1, <3>0, <3>1, <3>2
    <3>10. \A a \in Agent : UserFd(a)' = f =>
              Lined(mbox'[a], Sent(f), Len(served'[f]) + 2, y + 1)
      BY <1>1, <1>5, <1>6, <2>1, <2>4 DEF Counts
    <3>11. /\ \A i \in 1 .. Len(served'[f]) : served'[f][i] = i + 1
           /\ Len(served'[f]) <= y
           /\ Unused(f)' \/ Awaits(f)' => y = 0
      BY <1>1, <2>1, <2>2, <2>4, <3>7 DEF Counts
    <3>12. Counts(x + 1, y, f)'
      BY <1>1, <3>5, <3>6, <3>8, <3>9, <3>10, <3>11 DEF Counts
    <3> QED BY <2>4, <3>12
  <2> QED BY <2>3, <2>4
<1>8. Orders'
  <2>1. ASSUME NEW k \in GoodMsg, Orderly(k) PROVE Calm(k, {})
    BY <1>1, <1>5, <2>1 DEF Orderly, Calm, UserFd, SocketOf
  <2> QED BY <1>4, <2>1, OrderKept DEF FrameInv
<1> QED BY <1>7, <1>8 DEF FrameInv, Frames

LEMMA RedirectFr ==
    ASSUME IInv, IInv', NEW st, NEW ag, Explains(st, ag), FrameInv, Redirect
    PROVE  FrameInv'
<1>0. PICK c, f : c = Cur(Gate) /\ f = SocketOf(c)
  OBVIOUS
<1>00. PICK a, m : a = forwarded[f] /\ m = [c EXCEPT !.at = "my_dispatch", !.callee = a]
  OBVIOUS
<1>1. /\ At(Gate, "MSG.data") /\ Send(Gate, a, m) /\ a # Nil
      /\ sock' = sock /\ nsent' = nsent /\ forwarded' = forwarded
      /\ pending_msg' = pending_msg /\ user' = user /\ served' = served
  BY <1>0, <1>00 DEF Redirect, sockVars, gateVars, agentVars
<1>2. /\ Placed /\ Handles(Gate, c, "MSG.data") /\ c \in GoodMsg /\ c.at = "MSG.data"
      /\ f \in Fd /\ c.task[1] = "data" /\ Flies(c)
      /\ mbox[Gate] \in Seq(GoodMsg) /\ mbox[Gate] # << >> /\ Head(mbox[Gate]) = c
  <2>1. Placed /\ Handles(Gate, c, "MSG.data") /\ c \in GoodMsg /\ c.at = "MSG.data"
    BY <1>0, <1>1, HandledBy, ServiceOf
  <2>2. c.task[1] = "data" /\ Flies(c)
    BY <2>1 DEF GoodMsg, Vouched, Handles
  <2> QED BY <1>0, <1>1, <2>1, <2>2, MailOf, ServiceOf, SocketIn DEF Mail, At, Cur
<1>3. a \in Agent /\ a \in Service \ {Gate}
  BY <1>00, <1>1, <1>2, ServiceOf DEF IInv, GateType, Opt
<1>4. st[f] \in FwdStage
  BY <1>00, <1>1, <1>2 DEF Explains, SockPart, SockAt
<1>5. Later(c) /\ c \in Raw(f)
  <2>1. st[f] # "MSG.data"
    BY <1>4 DEF FwdStage, Leaving, Meeting, Ending
  <2> QED BY <1>0, <1>1, <1>2, <2>1, LaterOf DEF Raw
<1>6. /\ m.at = "my_dispatch" /\ m.callee = a /\ m.task = c.task
      /\ SocketOf(m) = f /\ Later(m) /\ ~ Opens(m)
  <2>1. m.at = "my_dispatch" /\ m.callee = a /\ m.task = c.task
    BY <1>00, <1>2 DEF GoodMsg, Msg
  <2> QED BY <1>0, <1>5, <2>1 DEF SocketOf, Later, Opens, OpenLabel
<1>7. m \in GoodMsg /\ Moves({c}, {m})
  BY <1>0, <1>1, <1>2, <1>3, SendMoves, ServiceOf
<1>8. \A b : UserFd(b)' = UserFd(b)
  BY <1>1 DEF UserFd
<1>9. UserFd(a) = f /\ ag[f] = a
  <2>1. UserFd(a) = f
    BY <1>0, <1>00, <1>1, <1>2 DEF FrameInv, Orders, Orderly
  <2> QED BY <1>2, <1>3, <2>1, ServesOne
<1>10. /\ mbox'[Gate] = Tail(mbox[Gate]) /\ mbox'[a] = Append(mbox[a], m)
       /\ mbox[a] \in Seq(GoodMsg)
  BY <1>1, <1>3, MailOf, ServiceOf DEF Send, Mail
<1>11. ASSUME NEW g \in Fd PROVE \E x, y \in Nat : Counts(x, y, g)'
  <2>1. PICK x \in Nat, y \in Nat : Counts(x, y, g)
    BY DEF FrameInv, Frames
  <2>2. Unused(g)' <=> Unused(g)
    BY <1>1, <1>8 DEF Unused
  <2>3. CASE g # f
    <3>1. {c} \cap Data(g) = {} /\ {m} \cap Data(g) = {}
      BY <1>0, <1>6, <2>3 DEF Data
    <3>2. Undisturbed(g, {c}, {m})
      BY <1>1, <1>6, <1>8, <2>2, <3>1 DEF Undisturbed
    <3> QED BY <1>7, <2>1, <3>2, CountKept
  <2>4. CASE g = f
    <3>0. PICK q, t, lo, hi : /\ q = mbox[Gate] /\ t = Tail(q)
                              /\ lo = x + 2 /\ hi = nsent[f]
      OBVIOUS
    <3>1. hi \in Int /\ lo \in Int /\ Lined(q, Raw(f), lo, hi)
      BY <1>2, <2>1, <2>4, <3>0, BoundAssumption DEF Counts, IInv, SockType
    <3>2. c.task[3] = lo /\ lo <= hi /\ Lined(t, Raw(f), lo + 1, hi)
      <4>1. q \in Seq(GoodMsg) /\ q # << >> /\ t = Tail(q) /\ Head(q) \in Raw(f)
        BY <1>2, <1>5, <3>0
      <4>2. Head(q).task[3] = lo /\ lo <= hi /\ Lined(t, Raw(f), lo + 1, hi)
        BY <3>1, <4>1, LinedHead
      <4> QED BY <1>2, <3>0, <4>2
    <3>3. pending_msg[f] = Nil /\ y = x
      BY <1>00, <1>1, <2>1, <2>4 DEF Counts
    <3>4. PICK n : n = Len(served[f])
      OBVIOUS
    <3>5. n \in Nat /\ n <= y /\ \A i \in 1 .. n : served[f][i] = i + 1
      <4>1. served[f] \in Seq(Nth)
        BY <1>2 DEF IInv, AgentType
      <4> QED BY <2>1, <2>4, <3>4, <4>1 DEF Counts
    <3>6. ASSUME NEW b \in Agent, UserFd(b)' = f
          PROVE  Lined(mbox'[b], Sent(f), n + 2, (y + 1) + 1)
      <4>1. b = a
        BY <1>2, <1>8, <1>9, <3>6, ServesOne
      <4>2. PICK r, s, l, h : r = mbox[a] /\ s = Append(r, m) /\ l = n + 2 /\ h = y + 1
        OBVIOUS
      <4>3. Lined(r, Sent(f), l, h)
        BY <1>3, <1>9, <2>1, <2>4, <3>4, <4>2 DEF Counts
      <4>4. m \in Sent(f) /\ m.task[3] = h + 1 /\ l \in Int /\ h \in Int /\ l <= h + 1
        <5>1. m \in Sent(f)
          BY <1>6, <1>7 DEF Sent
        <5>2. m.task[3] = x + 2
          BY <1>6, <3>0, <3>2
        <5> QED BY <3>3, <3>5, <4>2, <5>1, <5>2
      <4>5. r \in Seq(GoodMsg)
        BY <1>10, <4>2
      <4>6. Lined(s, Sent(f), l, h + 1)
        <5>1. PICK B : B = Sent(f)
          OBVIOUS
        <5>2. Lined(r, B, l, h)
          BY <4>3, <5>1
        <5>3. m \in GoodMsg /\ s = Append(r, m)
          BY <1>7, <4>2
        <5>4. Lined(s, B, l, h + 1)
          BY <4>4, <4>5, <5>1, <5>2, <5>3, LinedJoin
        <5> QED BY <5>1, <5>4
      <4> QED BY <1>10, <4>1, <4>2, <4>6
    <3>7. ~ Unused(f)' /\ ~ Awaits(f)'
      <4>1. ~ Unused(f)'
        BY <1>3, <1>8, <1>9 DEF Unused
      <4>2. ASSUME Awaits(f)' PROVE Awaits(f)
        <5>1. PICK k : Flies(k)' /\ Opens(k) /\ k.nfd = f
          BY <4>2 DEF Awaits, Opens
        <5> QED BY <1>6, <1>7, <5>1, MailOf, MoveFacts DEF Awaits
      <4>3. ~ Awaits(f)
        <5>1. FwdStage \cap Awaited = {}
          BY DEF FwdStage, Awaited, Leaving, Meeting, Ending
        <5> QED BY <1>4, <5>1, OpenerOf
      <4> QED BY <4>1, <4>2, <4>3
    <3>8. Lined(mbox'[Gate], Raw(f), (x + 1) + 2, nsent'[f])
      <4>1. (x + 1) + 2 = lo + 1
        BY <3>0
      <4> QED BY <1>1, <1>10, <3>0, <3>2, <4>1
    <3>9. (x + 1) + 1 <= nsent'[f]
      BY <1>1, <3>0, <3>1, <3>2
    <3>10. n <= y + 1 /\ y + 1 = x + 1
      BY <3>3, <3>5
    <3>11. served'[f] = served[f] /\ pending_msg'[f] = Nil /\ forwarded'[f] # Nil
      BY <1>00, <1>1, <3>3
    <3>12. Counts(x + 1, y + 1, f)'
      BY <3>4, <3>5, <3>6, <3>7, <3>8, <3>9, <3>10, <3>11 DEF Counts
    <3> QED BY <2>4, <3>12
  <2> QED BY <2>3, <2>4
<1>12. Orders'
  <2>1. ASSUME NEW k \in GoodMsg, Flies(k), Orderly(k) PROVE Calm(k, {m})
    <3>1. {m} \cap Raw(SocketOf(k)) = {}
      BY <1>6 DEF Raw
    <3>2. k.at \in Closing3 => {m} \cap Sent(SocketOf(k)) = {}
      <4>1. SUFFICES ASSUME k.at \in Closing3, SocketOf(k) = f PROVE FALSE
        BY <1>6 DEF Sent
      <4>2. k.task[1] = "close" /\ k.at # "MSG.close"
        BY <2>1, <4>1, CloserOf DEF Closing3
      <4>3. None(Raw(f))
        BY <2>1, <4>1, <4>2 DEF Orderly
      <4> QED BY <1>2, <1>5, <4>3 DEF None
    <3> QED BY <1>1, <1>8, <2>1, <3>1, <3>2 DEF Orderly, Calm, UserFd, SocketOf
  <2>2. Orderly(m)'
    <3>1. m \notin ext'
      <4>1. ext' = ext
        BY <1>1 DEF Send
      <4>2. m \in ext => Flies(m)
        BY DEF Flies, Flying
      <4> QED BY <1>6, <4>1, <4>2 DEF FrameInv, Orders, Orderly, Framed
    <3>2. UserFd(a)' = f /\ m.task[1] = "data"
      BY <1>2, <1>6, <1>8, <1>9
    <3> QED BY <1>6, <3>1, <3>2 DEF Orderly, SocketOf
  <2> QED BY <1>7, <2>1, <2>2, OrderKept DEF FrameInv
<1> QED BY <1>11, <1>12 DEF FrameInv, Frames

LEMMA PendingHangFr ==
    ASSUME IInv, IInv', NEW st, NEW ag, Explains(st, ag), FrameInv, PendingHang
    PROVE  FrameInv'
<1>0. PICK c, f, p : c = Cur(Gate) /\ f = Subject(c) /\ p = pending_msg[f]
  OBVIOUS
<1>00. PICK a, m : /\ a = ag[f]
                   /\ m = [Event("my_dispatch", <<"data", f, Head(p)>>) EXCEPT !.callee = a]
  OBVIOUS
<1>1. At(Gate, "open_ret") /\ Gate \in Service
  BY ServiceOf DEF PendingHang
<1>2. Placed /\ Handles(Gate, c, "open_ret") /\ c.at = "open_ret" /\ Flies(c)
  BY <1>0, <1>1, HandledBy DEF Handles
<1>3. /\ f \in Fd /\ ~ Later(c) /\ c \in Life(f) /\ c \in GoodMsg /\ c.nfd = f
      /\ st[f] = "open_ret" /\ a \in Agent /\ c.callee = a
  <2>1. "open_ret" \in OpenLabel
    BY DEF OpenLabel
  <2> QED BY <1>0, <1>00, <1>1, <1>2, <2>1, OpensOf
<1>4. /\ Send(Gate, a, m) /\ p # Nil /\ p # << >>
      /\ sock' = sock /\ nsent' = nsent /\ forwarded' = forwarded
      /\ pending_msg' = pending_msg /\ user' = user /\ served' = served
  BY <1>0, <1>00, <1>3 DEF PendingHang, sockVars, gateVars, agentVars
<1>5. m.at = "my_dispatch" /\ m.callee = a /\ m.task = <<"data", f, Head(p)>>
  BY <1>00 DEF Event
<1>6. SocketOf(m) = f /\ ~ Opens(m) /\ m.task[1] = "data" /\ m.task[3] = Head(p)
  BY <1>5 DEF SocketOf, Opens, OpenLabel
<1>7. m \in GoodMsg /\ Moves({c}, {m}) /\ a \in Service \ {Gate}
  <2>1. a \in Service \ {Gate}
    BY <1>3, ServiceOf
  <2> QED BY <1>0, <1>1, <1>2, <1>4, <2>1, SendMoves DEF At
<1>8. \A b : UserFd(b)' = UserFd(b)
  BY <1>4 DEF UserFd
<1>9. UserFd(a) = f /\ forwarded[f] = Nil /\ st[f] # "out"
  <2>1. UserFd(a) = f
    BY <1>00, <1>3, UserOf DEF UseStage
  <2>2. forwarded[f] = Nil
    BY <1>3 DEF Explains, SockPart, SockAt, FwdStage, Leaving, Meeting, Ending
  <2> QED BY <1>3, <2>1, <2>2
<1>10. mbox'[a] = Append(mbox[a], m) /\ mbox[a] \in Seq(GoodMsg)
  BY <1>1, <1>4, <1>7, MailOf DEF Send, Mail
<1>11. {c} \cap Raw(f) = {} /\ {m} \cap Raw(f) = {}
  BY <1>2, <1>5 DEF Raw
<1>12. ASSUME NEW g \in Fd PROVE \E x, y \in Nat : Counts(x, y, g)'
  <2>1. PICK x \in Nat, y \in Nat : Counts(x, y, g)
    BY DEF FrameInv, Frames
  <2>2. Unused(g)' <=> Unused(g)
    BY <1>4, <1>8 DEF Unused
  <2>3. CASE g # f
    <3>1. {c} \cap Data(g) = {} /\ {m} \cap Data(g) = {}
      BY <1>3, <1>6, <2>3 DEF Data
    <3>2. Undisturbed(g, {c}, {m})
      BY <1>4, <1>6, <1>8, <2>2, <3>1 DEF Undisturbed
    <3> QED BY <1>7, <2>1, <3>2, CountKept
  <2>4. CASE g = f
    <3>1. y = 0
      <4>1. Awaits(f)
        BY <1>2, <1>3 DEF Awaits, Opens, OpenLabel
      <4> QED BY <2>1, <2>4, <4>1 DEF Counts
    <3>2. p \in Seq(Nth) /\ Len(p) = x /\ \A i \in 1 .. x : p[i] = i + 1
      <4>1. p \in Seq(Nth)
        BY <1>0, <1>3, <1>4 DEF IInv, GateType, Opt
      <4> QED BY <1>0, <1>4, <2>1, <2>4, <4>1 DEF Counts
    <3>3. Head(p) = 2
      <4>1. Head(p) = p[1] /\ 1 \in 1 .. Len(p)
        BY <1>4, <3>2
      <4> QED BY <3>2, <4>1
    <3>4. Len(served[f]) = 0
      <4>1. served[f] \in Seq(Nth)
        BY <1>3 DEF IInv, AgentType
      <4>2. Len(served[f]) \in Nat /\ Len(served[f]) <= y
        BY <2>1, <2>4, <4>1 DEF Counts
      <4> QED BY <3>1, <4>2
    <3>5. ASSUME NEW b \in Agent, UserFd(b)' = f
          PROVE  Lined(mbox'[b], Sent(f), 0 + 2, 1 + 1)
      <4>1. b = a
        BY <1>00, <1>3, <1>8, <3>5, ServesOne
      <4>2. PICK r, s, l, h, B : /\ r = mbox[a] /\ s = Append(r, m) /\ l = 2 /\ h = 1
                                 /\ B = Sent(f)
        OBVIOUS
      <4>3. Lined(r, B, l, h)
        <5>1. Lined(mbox[a], Sent(f), Len(served[f]) + 2, y + 1)
          BY <1>3, <1>9, <2>1, <2>4 DEF Counts
        <5>2. Len(served[f]) + 2 = l /\ y + 1 = h
          BY <3>1, <3>4, <4>2
        <5> QED BY <4>2, <5>1, <5>2
      <4>4. m \in B /\ m.task[3] = h + 1 /\ l \in Int /\ h \in Int /\ l <= h + 1
        <5>1. Later(m)
          BY <1>5, <1>6, <3>3 DEF Later
        <5> QED BY <1>5, <1>6, <1>7, <3>3, <4>2, <5>1 DEF Sent
      <4>5. r \in Seq(GoodMsg) /\ m \in GoodMsg /\ s = Append(r, m)
        BY <1>7, <1>10, <4>2
      <4>6. Lined(s, B, l, h + 1)
        BY <4>3, <4>4, <4>5, LinedJoin
      <4>7. h + 1 = 1 + 1 /\ l = 0 + 2
        BY <4>2
      <4> QED BY <1>10, <4>1, <4>2, <4>6, <4>7
    <3>6. ~ Unused(f)' /\ ~ Awaits(f)'
      <4>1. ~ Unused(f)'
        BY <1>3, <1>8, <1>9 DEF Unused
      <4>2. ASSUME NEW k, Flies(k)', Opens(k), k.nfd = f PROVE FALSE
        <5>1. Alone(mbox, ext, Life(f)) /\ {c} \cap Life(f) # {}
          BY <1>3, <1>9 DEF Explains, FlyPart
        <5>2. k # m
          BY <1>6, <4>2
        <5>3. k \in Life(f)
          <6>1. k \in GoodMsg
            BY <4>2, FlyGoodNext
          <6> QED BY <4>2, <6>1 DEF Life, Later, Subject, Opens, OpenLabel
        <5> QED BY <1>7, <4>2, <5>1, <5>2, <5>3, MailOf, MoveFacts
      <4> QED BY <4>1, <4>2 DEF Awaits, Opens
    <3>7. Lined(mbox'[Gate], Raw(f), x + 2, nsent'[f])
      <4>1. Lined(mbox[Gate], Raw(f), x + 2, nsent[f])
        BY <2>1, <2>4 DEF Counts
      <4> QED BY <1>1, <1>4, <1>7, <1>11, <4>1, MailOf, MoveLined
    <3>8. Counts(x, 1, f)'
      <4>1. /\ \A i \in 1 .. Len(served'[f]) : served'[f][i] = i + 1
            /\ x = 0 \/ x + 1 <= nsent'[f]
            /\ pending_msg'[f] # Nil => /\ Len(pending_msg'[f]) = x
                                        /\ \A i \in 1 .. x : pending_msg'[f][i] = i + 1
            /\ forwarded'[f] = Nil
            /\ pending_msg'[f] # Nil
        BY <1>0, <1>4, <1>9, <2>1, <2>4 DEF Counts
      <4>2. Len(served'[f]) = 0
        BY <1>4, <3>4
      <4> QED BY <3>5, <3>6, <3>7, <4>1, <4>2 DEF Counts
    <3> QED BY <2>4, <3>8
  <2> QED BY <2>3, <2>4
<1>13. Orders'
  <2>1. ASSUME NEW k \in GoodMsg, Flies(k), Orderly(k) PROVE Calm(k, {m})
    <3>1. {m} \cap Raw(SocketOf(k)) = {}
      BY <1>5 DEF Raw
    <3>2. k.at \in Closing3 => {m} \cap Sent(SocketOf(k)) = {}
      <4>1. SUFFICES ASSUME k.at \in Closing3, SocketOf(k) = f PROVE FALSE
        BY <1>6 DEF Sent
      <4> QED BY <1>3, <2>1, <4>1, CloserOf DEF Closing3
    <3> QED BY <1>4, <1>8, <2>1, <3>1, <3>2 DEF Orderly, Calm, UserFd, SocketOf
  <2>2. Orderly(m)'
    <3>1. m \notin ext'
      <4>1. ext' = ext
        BY <1>4 DEF Send
      <4>2. m \in ext => Flies(m)
        BY DEF Flies, Flying
      <4> QED BY <1>5, <4>1, <4>2 DEF FrameInv, Orders, Orderly, Framed
    <3> QED BY <1>5, <1>6, <1>8, <1>9, <3>1 DEF Orderly, SocketOf
  <2> QED BY <1>7, <2>1, <2>2, OrderKept DEF FrameInv
<1> QED BY <1>12, <1>13 DEF FrameInv, Frames

LEMMA ForwardFr ==
    ASSUME IInv, IInv', NEW st, NEW ag, Explains(st, ag), FrameInv, Forward
    PROVE  FrameInv'
<1>0. PICK c, f : c = Cur(Gate) /\ f = Subject(c)
  OBVIOUS
<1>00. PICK m : m = [c EXCEPT !.at = "recycle"]
  OBVIOUS
<1>1. /\ At(Gate, "open_ret") /\ Gate \in Service
      /\ Yield(Gate, m) \/ End(Gate)
      /\ sock' = sock /\ nsent' = nsent /\ served' = served /\ user' = user
  BY <1>0, <1>00, ServiceOf DEF Forward, sockVars, agentVars
<1>2. Placed /\ Handles(Gate, c, "open_ret") /\ c.at = "open_ret" /\ Flies(c) /\ c \in GoodMsg
  BY <1>0, <1>1, HandledBy DEF Handles
<1>3. /\ f \in Fd /\ st[f] = "open_ret" /\ ag[f] \in Agent
      /\ forwarded'[f] = ag[f] /\ \A h \in Fd \ {f} : forwarded'[h] = forwarded[h]
  <2>1. /\ f \in Fd /\ st[f] = "open_ret" /\ ag[f] \in Agent
        /\ Outside({f}) /\ forwarded'[f] = ag[f]
    BY <1>0, ForwardOf
  <2> QED BY <2>1 DEF Outside
<1>4. c.nfd = f
  BY <1>0, <1>2 DEF Subject, Opens, OpenLabel
<1>5. /\ pending_msg[f] = << >> /\ pending_msg'[f] = Nil
      /\ \A h \in Fd \ {f} : pending_msg'[h] = pending_msg[h]
  <2>1. pending_msg[f] \in {Nil, << >>} /\ pending_msg' = [pending_msg EXCEPT ![f] = Nil]
    BY <1>0, <1>4 DEF Forward
  <2>2. SockAt("open_ret", f)
    BY <1>3 DEF Explains, SockPart
  <2>3. pending_msg[f] # Nil
    BY <2>2 DEF SockAt, FwdStage, Leaving, Meeting, Ending
  <2> QED BY <1>3, <2>1, <2>3 DEF IInv, GateType
<1>6. m.task = c.task /\ m.at = "recycle"
  BY <1>00, <1>2 DEF GoodMsg, Msg
<1>7. PICK N : Moves({c}, N) /\ (N = {} \/ (N = {m} /\ m \in GoodMsg))
  <2>1. mbox[Gate] # << >>
    BY <1>1 DEF At
  <2>2. CASE Yield(Gate, m)
    BY <1>0, <1>1, <1>2, <2>1, <2>2, YieldMoves
  <2>3. CASE End(Gate)
    BY <1>0, <1>1, <1>2, <2>1, <2>3, EndMoves
  <2> QED BY <1>1, <2>2, <2>3
<1>8. \A b : UserFd(b)' = UserFd(b)
  BY <1>1 DEF UserFd
<1>9. ~ Later(c) /\ \A k \in N : ~ Later(k) /\ ~ Opens(k)
  BY <1>2, <1>6, <1>7 DEF Later, Opens, OpenLabel
<1>10. UserFd(ag[f]) = f /\ ag[f] # Nil /\ Awaits(f)
  <2>1. UserFd(ag[f]) = f
    BY <1>3, UserOf DEF UseStage
  <2> QED BY <1>2, <1>3, <1>4, <2>1, NilAssumption DEF Awaits, Opens, OpenLabel
<1>11. ASSUME NEW g \in Fd PROVE \E x, y \in Nat : Counts(x, y, g)'
  <2>1. PICK x \in Nat, y \in Nat : Counts(x, y, g)
    BY DEF FrameInv, Frames
  <2>2. {c} \cap Data(g) = {} /\ N \cap Data(g) = {}
    BY <1>9 DEF Data
  <2>3. CASE g # f
    <3>1. /\ forwarded'[g] = forwarded[g] /\ pending_msg'[g] = pending_msg[g]
      BY <1>3, <1>5, <2>3
    <3>2. Unused(g)' => Unused(g)
      BY <1>1, <1>8, <3>1 DEF Unused
    <3>3. Undisturbed(g, {c}, N)
      BY <1>1, <1>8, <1>9, <2>2, <3>1, <3>2 DEF Undisturbed
    <3> QED BY <1>7, <2>1, <3>3, CountKept
  <2>4. CASE g = f
    <3>1. y = 0
      BY <1>10, <2>1, <2>4 DEF Counts
    <3>2. x = 0
      <4>1. << >> # Nil
        <5>1. << >> \in Seq(Nth)
          OBVIOUS
        <5> QED BY <5>1, NilAssumption
      <4>2. Len(pending_msg[f]) = x
        BY <1>5, <2>1, <2>4, <4>1 DEF Counts
      <4> QED BY <1>5, <4>2
    <3>3. /\ Lined(mbox'[Gate], Raw(f), x + 2, nsent[f])
          /\ \A a \in Agent : UserFd(a)' = f =>
                Lined(mbox'[a], Sent(f), Len(served'[f]) + 2, y + 1)
      BY <1>1, <1>3, <1>7, <2>1, <2>2, <2>4, LinedKept
    <3>4. Counts(0, 0, f)'
      BY <1>1, <1>3, <1>5, <2>1, <2>4, <3>1, <3>2, <3>3 DEF Counts
    <3> QED BY <2>4, <3>4
  <2> QED BY <2>3, <2>4
<1>12. Orders'
  <2>1. ASSUME NEW k \in GoodMsg, Orderly(k) PROVE Calm(k, N)
    <3>1. N \cap Raw(SocketOf(k)) = {} /\ N \cap Sent(SocketOf(k)) = {}
      BY <1>9 DEF Raw, Sent
    <3>2. PICK fd \in Fd : fd = SocketOf(k)
      BY SocketIn
    <3>3. k.at = "MSG.data" /\ forwarded'[fd] # Nil => UserFd(forwarded[fd])' = fd
      <4>1. SUFFICES ASSUME k.at = "MSG.data", NEW b, b = forwarded'[fd], b # Nil
                     PROVE  UserFd(b)' = fd
        OBVIOUS
      <4>2. CASE fd = f
        BY <1>3, <1>8, <1>10, <4>1, <4>2
      <4>3. CASE fd # f
        <5>1. b = forwarded[fd]
          BY <1>3, <4>1, <4>3
        <5>2. UserFd(b) = fd
          BY <2>1, <3>2, <4>1, <5>1 DEF Orderly
        <5> QED BY <1>8, <5>2
      <4> QED BY <4>2, <4>3
    <3> QED BY <1>1, <1>8, <2>1, <3>1, <3>2, <3>3 DEF Orderly, Calm, SocketOf
  <2>2. \A k \in N : Orderly(k)'
    <3>1. SUFFICES ASSUME N = {m}, m \in GoodMsg PROVE Orderly(m)'
      BY <1>7
    <3>2. Tame(c, m) /\ Orderly(c)
      BY <1>2, <1>6 DEF Tame, Framed, FrameInv, Orders
    <3>3. Moves({c}, {m})
      BY <1>7, <3>1
    <3> QED BY <1>1, <1>2, <3>2, <3>3, TameOrderly
  <2> QED BY <1>7, <2>1, <2>2, OrderKept DEF FrameInv
<1> QED BY <1>11, <1>12 DEF FrameInv, Frames

LEMMA ClientSendFr ==
    ASSUME IInv, IInv', NEW st, NEW ag, Explains(st, ag), FrameInv, NEW f \in Fd, ClientSend(f)
    PROVE  FrameInv'
<1>0. PICK m, h : m = Event("MSG.data", <<"data", f, h + 1>>) /\ h = nsent[f]
  OBVIOUS
<1>1. /\ sock[f] = "open" /\ Post(m) /\ nsent' = [nsent EXCEPT ![f] = @ + 1]
      /\ sock' = sock /\ forwarded' = forwarded /\ pending_msg' = pending_msg
      /\ user' = user /\ served' = served
  BY <1>0 DEF ClientSend, gateVars, agentVars
<1>2. /\ m.at = "MSG.data" /\ SocketOf(m) = f /\ m.task[1] = "data" /\ m.task[3] = h + 1
      /\ ~ Opens(m)
  BY <1>0 DEF Event, SocketOf, Opens, OpenLabel
<1>3. m \in GoodMsg /\ Moves({}, {m})
  BY <1>1, <1>2, PostMoves DEF Explains, Home, AgentLabel
<1>4. /\ h \in Nat /\ nsent'[f] = h + 1 /\ \A g \in Fd \ {f} : nsent'[g] = nsent[g]
  BY <1>0, <1>1, BoundAssumption DEF IInv, SockType
<1>5. \A b : UserFd(b)' = UserFd(b)
  BY <1>1 DEF UserFd
<1>6. Later(m) <=> h > 0
  BY <1>2, <1>4 DEF Later
<1>7. /\ mbox'[Gate] = Append(mbox[Gate], m) /\ mbox[Gate] \in Seq(GoodMsg)
      /\ \A a \in Agent : mbox'[a] = mbox[a]
  BY <1>1, MailOf, ServiceOf DEF Post, Mail
<1>8. ASSUME NEW g \in Fd PROVE \E x, y \in Nat : Counts(x, y, g)'
  <2>1. PICK x \in Nat, y \in Nat : Counts(x, y, g)
    BY DEF FrameInv, Frames
  <2>2. Unused(g)' <=> Unused(g)
    BY <1>1, <1>5 DEF Unused
  <2>3. CASE g # f
    <3>1. {m} \cap Data(g) = {}
      BY <1>2, <2>3 DEF Data
    <3>2. Undisturbed(g, {}, {m})
      BY <1>1, <1>2, <1>4, <1>5, <2>2, <2>3, <3>1 DEF Undisturbed
    <3> QED BY <1>3, <2>1, <3>2, CountKept
  <2>4. CASE g = f
    <3>0. PICK q, t, lo, B : q = mbox[Gate] /\ t = Append(q, m) /\ lo = x + 2 /\ B = Raw(f)
      OBVIOUS
    <3>1. lo \in Int /\ h \in Int /\ q \in Seq(GoodMsg) /\ Lined(q, B, lo, h)
      BY <1>0, <1>4, <1>7, <2>1, <2>4, <3>0 DEF Counts
    <3>2. Lined(t, B, lo, h + 1)
      <4>1. CASE h > 0
        <5>1. m \in B /\ m.task[3] = h + 1
          BY <1>2, <1>3, <1>6, <3>0, <4>1 DEF Raw
        <5>2. lo <= h + 1
          BY <1>0, <1>4, <2>1, <2>4, <3>0, <4>1 DEF Counts
        <5> QED BY <1>3, <3>0, <3>1, <5>1, <5>2, LinedJoin
      <4>2. CASE h = 0
        <5>1. m \notin B
          BY <1>6, <3>0, <4>2 DEF Raw
        <5>2. Lined(t, B, lo, h)
          BY <1>3, <3>0, <3>1, <5>1, LinedPass
        <5>3. lo .. h + 1 = {} /\ lo .. h = {}
          BY <3>0, <4>2
        <5> QED BY <5>2, <5>3 DEF Lined
      <4> QED BY <1>4, <4>1, <4>2
    <3>3. x = 0 \/ x + 1 <= nsent'[f]
      BY <1>0, <1>4, <2>1, <2>4 DEF Counts
    <3>4. Awaits(f)' => Awaits(f)
      <4>1. SUFFICES ASSUME NEW k, Flies(k)', Opens(k), k.nfd = f PROVE Awaits(f)
        BY DEF Awaits, Opens
      <4> QED BY <1>2, <1>3, <4>1, MailOf, MoveFacts DEF Awaits
    <3>5. Lined(mbox'[Gate], Raw(f), x + 2, nsent'[f])
      BY <1>4, <1>7, <3>0, <3>2
    <3>6. \A a \in Agent : UserFd(a)' = f =>
              Lined(mbox'[a], Sent(f), Len(served'[f]) + 2, y + 1)
      BY <1>1, <1>5, <1>7, <2>1, <2>4 DEF Counts
    <3>7. Counts(x, y, f)'
      BY <1>1, <2>1, <2>2, <2>4, <3>3, <3>4, <3>5, <3>6 DEF Counts
    <3> QED BY <2>4, <3>7
  <2> QED BY <2>3, <2>4
<1>9. Orders'
  <2>1. ASSUME NEW k \in GoodMsg, Orderly(k) PROVE Calm(k, {m})
    <3>1. {m} \cap Sent(SocketOf(k)) = {}
      BY <1>2 DEF Sent
    <3>2. k.task[1] = "close" => {m} \cap Raw(SocketOf(k)) = {}
      <4>1. k.task[1] = "close" => SocketOf(k) # f
        BY <1>1, <2>1 DEF Orderly
      <4> QED BY <1>2, <4>1 DEF Raw
    <3> QED BY <1>1, <1>5, <2>1, <3>1, <3>2 DEF Orderly, Calm, UserFd, SocketOf
  <2>2. Orderly(m)'
    <3>1. m \notin ext'
      <4>1. ext' = ext
        BY <1>1 DEF Post
      <4>2. m \in ext => Flies(m)
        BY DEF Flies, Flying
      <4> QED BY <1>2, <4>1, <4>2 DEF FrameInv, Orders, Orderly, Framed
    <3>2. forwarded'[f] # Nil => UserFd(forwarded[f])' = f
      <4>1. SUFFICES ASSUME NEW b, b = forwarded[f], b # Nil PROVE UserFd(b)' = f
        BY <1>1
      <4>2. st[f] \in FwdStage /\ st[f] \notin ShutStage
        BY <1>1, <4>1 DEF Explains, SockPart, SockAt
      <4>3. st[f] \in UseStage
        BY <4>2 DEF ShutStage, UseStage, Leaving, Meeting
      <4>4. ag[f] \in Agent /\ UserFd(ag[f]) = f
        BY <4>3, UserOf
      <4>5. b = ag[f]
        BY <4>1, <4>2, <4>4, NilAssumption DEF Explains, AgPart, AgAt
      <4> QED BY <1>5, <4>4, <4>5
    <3> QED BY <1>2, <3>1, <3>2 DEF Orderly, SocketOf
  <2> QED BY <1>3, <2>1, <2>2, OrderKept DEF FrameInv
<1> QED BY <1>8, <1>9 DEF FrameInv, Frames

-----------------------------------------------------------------------------
(* Every step keeps the frames in order.                                   *)

LEMMA GateStepFr ==
    ASSUME IInv, IInv', NEW st, NEW ag, Explains(st, ag), FrameInv, GateStep
    PROVE  FrameInv'
<1>1. CASE Refuse \/ Accept \/ RefusedClose \/ KickDone \/ CloseUnknown
  BY <1>1, GateStopsFr
<1>2. CASE Redirect \/ Enqueue \/ StartLogin
  BY <1>2, RedirectFr, EnqueueFr, StartLoginFr
<1>3. CASE LoginRefused \/ LoginFresh \/ LoginTakeover \/ OtherLoginDone
  BY <1>3, LoginRefusedFr, LoginFreshFr, LoginTakeoverFr, OtherLoginDoneFr
<1>4. CASE Assign \/ PendingHang \/ Forward \/ Kick \/ KickClose
  BY <1>4, AssignFr, PendingHangFr, ForwardFr, KickFr, KickCloseFr
<1>5. CASE MsgClose \/ CloseWithoutAgent \/ CloseWithAgent \/ CloseDone
  BY <1>5, MsgCloseFr, CloseWithoutAgentFr, CloseWithAgentFr, CloseDoneFr
<1>6. CASE CloseForTakeover \/ CloseOffline \/ Recycle
  BY <1>6, CloseForTakeoverFr, CloseOfflineFr, RecycleFr
<1> QED BY <1>1, <1>2, <1>3, <1>4, <1>5, <1>6 DEF GateStep

LEMMA AgentStepFr ==
    ASSUME IInv, IInv', NEW st, NEW ag, Explains(st, ag), FrameInv,
           NEW a \in Agent, AgentStep(a)
    PROVE  FrameInv'
<1>1. CASE \/ RegisterFailed(a) \/ WelcomeFailed(a)
           \/ AgentCloseFailed(a) \/ OtherLoginFailed(a)
  BY <1>1, NothingFails
<1>2. CASE \/ AgentOpen(a) \/ Register(a) \/ Welcome(a)
           \/ OtherLogin(a) \/ OtherWrite(a) \/ AgentKick(a)
  BY <1>2, AgentPassesFr
<1>3. CASE AgentClose(a) \/ Closing(a) \/ CloseFinish(a) \/ GamedClosed(a)
  BY <1>3, AgentCloseFr, ClosingFr, CloseFinishFr, GamedClosedFr
<1>4. CASE Opened(a) \/ AgentKickSelf(a) \/ AgentReturn(a) \/ MyDispatch(a)
  BY <1>4, OpenedFr, AgentKickSelfFr, AgentReturnFr, MyDispatchFr
<1> QED BY <1>1, <1>2, <1>3, <1>4 DEF AgentStep

LEMMA NextFr ==
    ASSUME IInv, IInv', Explained, FrameInv, [Next]_vars
    PROVE  FrameInv'
<1>1. PICK st, ag : Explains(st, ag)
  BY DEF Explained
<1>2. Placed
  BY <1>1 DEF Explains
<1>3. CASE GateStep
  BY <1>1, <1>3, GateStepFr
<1>4. CASE \E a \in Agent : AgentStep(a)
  BY <1>1, <1>4, AgentStepFr
<1>5. CASE \E m \in ext : Reply(m)
  BY <1>2, <1>5, ReplyFr
<1>6. CASE \E fd \in Fd : SocketClose(fd)
  BY <1>2, <1>6, PostCloseFr DEF SocketClose
<1>7. ASSUME NEW fd \in Fd, ClientStep(fd) PROVE FrameInv'
  BY <1>1, <1>2, <1>7, ClientConnectFr, ClientSendFr, PostCloseFr DEF ClientStep, ClientDrop
<1>8. CASE UNCHANGED vars
  <2>1. Frozen /\ mbox' = mbox /\ ext' = ext
    BY <1>8 DEF Frozen, vars, sockVars, gateVars, gamedVars, agentVars
  <2>2. Moves({}, {})
    BY <2>1 DEF Moves
  <2> QED BY <2>1, <2>2, PlainMoves
<1> QED BY <1>3, <1>4, <1>5, <1>6, <1>7, <1>8 DEF Next, ServerStep

LEMMA InitFr == ASSUME IInv, Init PROVE FrameInv
<1>1. /\ \A s \in Service : mbox[s] = << >> /\ Len(mbox[s]) = 0
      /\ ext = {}
  BY DEF Init, Service
<1>2. \A B : \A s \in Service : Free(mbox[s], B)
  BY <1>1 DEF Free
<1>3. \A m : ~ Flies(m)
  BY <1>1 DEF Flies, Flying
<1>4. ASSUME NEW fd \in Fd PROVE Counts(0, 0, fd)
  <2>1. /\ nsent[fd] = 0 /\ pending_msg[fd] = Nil /\ forwarded[fd] = Nil
        /\ served[fd] = << >> /\ Len(served[fd]) = 0
    BY DEF Init
  <2>2. Lined(mbox[Gate], Raw(fd), 0 + 2, nsent[fd])
    BY <1>2, <2>1, LinedNone, ServiceOf
  <2>3. ASSUME NEW a \in Agent PROVE Lined(mbox[a], Sent(fd), Len(served[fd]) + 2, 0 + 1)
    <3>1. PICK q, lo, hi : q = mbox[a] /\ lo = Len(served[fd]) + 2 /\ hi = 0 + 1
      OBVIOUS
    <3>2. Free(q, Sent(fd)) /\ lo \in Int /\ hi \in Int /\ hi < lo
      <4>1. Free(q, Sent(fd))
        BY <1>2, <3>1, ServiceOf
      <4>2. lo = 2 /\ hi = 1
        BY <2>1, <3>1
      <4> QED BY <4>1, <4>2
    <3>3. Lined(q, Sent(fd), lo, hi)
      BY <3>2, LinedNone
    <3> QED BY <3>1, <3>3
  <2> QED BY <2>1, <2>2, <2>3 DEF Counts
<1>5. Frames
  BY <1>4 DEF Frames
<1> QED BY <1>3, <1>5 DEF FrameInv, Orders

\* A frame is served where it is taken: only MyDispatch serves.
LEMMA ServedStep ==
    ASSUME IInv, Explained, FrameInv, [Next]_vars,
           NEW fd \in Fd, served'[fd] # served[fd]
    PROVE  \E a \in Agent : /\ UserFd(a) = fd
                            /\ At(a, "my_dispatch")
                            /\ SocketOf(Cur(a)) = fd
<1>1. PICK a \in Agent : MyDispatch(a)
  BY DEF Next, ServerStep, GateStep, AgentStep, ClientStep, vars, sockVars, gateVars, gamedVars,
     agentVars, ClientConnect, ClientSend, ClientDrop, PostClose, SocketClose, Reply,
     Refuse, Accept, Redirect, Enqueue, StartLogin, LoginRefused, RefusedClose, LoginFresh,
     LoginTakeover, OtherLoginDone, KickDone, Assign, PendingHang, Forward, MsgClose,
     CloseUnknown, CloseWithoutAgent, CloseWithAgent, CloseForTakeover, CloseOffline,
     Recycle, CloseDone, Kick, KickClose, AgentOpen, Pass, Opened, Register, RegisterFailed,
     Welcome, WelcomeFailed, Failed, AgentClose, Closing, CloseFinish, AgentCloseFailed,
     GamedClosed, OtherLogin, OtherWrite, OtherLoginFailed, AgentKick, AgentKickSelf,
     AgentReturn
<1>2. PICK c : c = Cur(a)
  OBVIOUS
<1>3. PICK st, ag : Explains(st, ag)
  BY DEF Explained
<1>4. At(a, "my_dispatch") /\ a \in Service
  BY <1>1, ServiceOf DEF MyDispatch
<1>5. Handles(a, c, "my_dispatch") /\ c \in GoodMsg /\ c.at = "my_dispatch"
  BY <1>2, <1>3, <1>4, HandledBy
<1>6. UserFd(a) = SocketOf(c)
  <2>1. c.callee = a /\ Flies(c)
    BY <1>5 DEF Handles, Home, AgentLabel
  <2> QED BY <1>5, <2>1 DEF FrameInv, Orders, Orderly
<1>7. SocketOf(c) = fd
  BY <1>1, <1>2 DEF MyDispatch
<1> QED BY <1>2, <1>4, <1>6, <1>7

LEMMA FramesOrdered == ASSUME IInv, FrameInv PROVE FramesInOrder
<1>1. SUFFICES ASSUME NEW fd \in Fd
               PROVE  served[fd] = [i \in 1 .. Len(served[fd]) |-> i + 1]
  BY DEF FramesInOrder
<1>2. PICK s : s = served[fd]
  OBVIOUS
<1>3. s \in Seq(Nth)
  BY <1>2 DEF IInv, AgentType
<1>4. \A i \in 1 .. Len(s) : s[i] = i + 1
  BY <1>2 DEF FrameInv, Frames, Counts
<1>5. s = [i \in 1 .. Len(s) |-> i + 1]
  <2>1. s = [i \in 1 .. Len(s) |-> s[i]]
    BY <1>3
  <2> QED BY <1>4, <2>1
<1> QED BY <1>2, <1>5

-----------------------------------------------------------------------------
(* The theorems.                                                           *)

\* An agent of the pool is idle: no user, no commands, no record, no live
\* client, and no login that is about to open it (gamed.lua:75).
THEOREM PoolIdleHolds ==
    ASSUME Discipline = "takeover", EarlyDrop = FALSE
    PROVE  Spec => []PoolIdle
<1>1. IInv /\ Explained => PoolIdle
  BY ExplainedPool DEF Explained
<1> QED BY <1>1, Inductive, TakeoverInvariant, PTL

\* The record of an account that is online names the agent that has its user
\* (gamed.lua:92).
THEOREM OwnerRecordedHolds ==
    ASSUME Discipline = "takeover", EarlyDrop = FALSE
    PROVE  Spec => []OwnerRecorded
<1>1. IInv /\ Explained => OwnerRecorded
  BY ExplainedOwner DEF Explained
<1> QED BY <1>1, Inductive, TakeoverInvariant, PTL

\* A kick finds the agent with the account it is meant for (gamed.lua:93-100).
THEOREM KickSameAccountHolds ==
    ASSUME Discipline = "takeover", EarlyDrop = FALSE
    PROVE  Spec => []KickSameAccount
<1>1. IInv /\ Explained => KickSameAccount
  BY ExplainedKick DEF Explained
<1> QED BY <1>1, Inductive, TakeoverInvariant, PTL

\* Two agents never hold one account (gateserver.lua:96).
THEOREM CloseBeforeOpenHolds ==
    ASSUME Discipline = "takeover", EarlyDrop = FALSE
    PROVE  Spec => []CloseBeforeOpen
<1>1. IInv /\ Explained => CloseBeforeOpen
  BY ExplainedClose DEF Explained
<1> QED BY <1>1, Inductive, TakeoverInvariant, PTL

\* The counter that the gate refuses clients by counts its connections, although
\* the part of close_fd that subtracts from it looks nothing up any more
\* (gateserver.lua:68-81).
THEOREM ClientCountHolds ==
    ASSUME Discipline = "takeover", EarlyDrop = FALSE
    PROVE  Spec => []ClientCount
<1>1. Init => CountInv
  BY CountInit
<1>2. IInv /\ Explained /\ CountInv /\ [Next]_vars => CountInv'
  BY CountNext
<1>3. CountInv => ClientCount
  BY DEF CountInv, ClientCount
<1> QED BY <1>1, <1>2, <1>3, Inductive, TakeoverInvariant, PTL DEF Spec

\* What an agent has served of a client is what the client sent after its
\* login, in that order, and with nothing left out (gateserver.lua:108,
\* gameserver.lua:75).
THEOREM FramesInOrderHolds ==
    ASSUME Discipline = "takeover", EarlyDrop = FALSE
    PROVE  Spec => []FramesInOrder
<1>1. IInv /\ Init => FrameInv
  BY InitFr
<1>2. IInv /\ IInv' /\ Explained /\ FrameInv /\ [Next]_vars => FrameInv'
  BY NextFr
<1>3. IInv /\ FrameInv => FramesInOrder
  BY FramesOrdered
<1> QED BY <1>1, <1>2, <1>3, Inductive, TakeoverInvariant, PTL DEF Spec

\* A frame is served for the user who sent it, not for the next user of the
\* same agent (gateserver.lua:108 looks the agent up, agent.lua:110 the RPC).
THEOREM NoMisdeliveryHolds ==
    ASSUME Discipline = "takeover", EarlyDrop = FALSE
    PROVE  Spec => NoMisdelivery
<1>1. IInv /\ Init => FrameInv
  BY InitFr
<1>2. IInv /\ IInv' /\ Explained /\ FrameInv /\ [Next]_vars => FrameInv'
  BY NextFr
<1>3. IInv /\ Explained /\ FrameInv /\ [Next]_vars =>
        [\A fd \in Fd : served'[fd] # served[fd] =>
            \E a \in Agent : /\ UserFd(a) = fd
                             /\ At(a, "my_dispatch")
                             /\ SocketOf(Cur(a)) = fd]_vars
  BY ServedStep
<1> QED BY <1>1, <1>2, <1>3, Inductive, TakeoverInvariant, PTL DEF Spec, NoMisdelivery
=============================================================================
