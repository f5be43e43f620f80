---------------------------- MODULE GamedProofs ----------------------------
(***************************************************************************)
(* Theorems about Gamed, for every set of sockets and accounts, every      *)
(* behaviour of the clients and every bound: its type invariant, and       *)
(* Identity, that no interleaving gives a socket an agent of an account    *)
(* other than the one its token stands for.                                *)
(*                                                                         *)
(* Neither is inductive: what an agent is told to open travels in messages *)
(* and in the records of online_account.  The inductive invariant says of  *)
(* every coroutine in flight what its local variables are good for         *)
(* (Vouched), and of every record and user the same.                       *)
(***************************************************************************)
EXTENDS Gamed, TLAPS

\* A coroutine that runs in an agent, or returns to one, knows which.
NeedsCallee == AgentLabel \cup
    {"assign", "gamed_kick", "kick_close", "gamed_close", "other_ret",
     "open_ret"}
\* A coroutine that will answer the gate knows where the gate waits for it.
NeedsRet == (AgentLabel \ {"my_dispatch", "gamed_closed"}) \cup
    {"gamed_kick", "kick_close"}
\* A coroutine that hands a socket over knows which, and so does one whose
\* caller does.
HandsOver == {"assign", "agent_open", "opened", "other_ret", "kick_ret",
              "open_ret"}
\* A coroutine that closes a socket has none to hand over yet.
Closes == {"MSG.close", "close_fd", "agent_close", "closing", "close_finish",
           "gamed_close"}

\* The socket presented a good token of the account.
Granted(fd, account) ==
    fd \in Fd \ BadToken /\ account \in Account /\ AccountOf[fd] = account

Vouched(m) ==
    /\ m.at \in NeedsCallee => m.callee \in Agent
    /\ m.at \in NeedsRet => m.ret \in RetLabel
    /\ m.nfd # Nil => Granted(m.nfd, m.account)
    /\ m.at \in HandsOver => m.nfd # Nil
    /\ m.at \in NeedsRet /\ m.ret # "close_ret" => m.nfd # Nil
    /\ m.at \in Closes => m.nfd = Nil
    /\ m.at \in {"close_finish", "gamed_close"} => m.account \in Account
    /\ m.at = "kick_close" => m.kfd \in Fd
    /\ m.at = "recycle" => m.agent \in Agent
    /\ m.at \in {"MSG.data", "auth"} => m.task[1] = "data"
    /\ m.task[1] = "close" /\ m.nfd # Nil => m.agent \in Agent

GoodMsg == {m \in Msg : Vouched(m)}

MailInv ==
    /\ mbox \in [{Gate} \cup Agent -> Seq(GoodMsg)]
    /\ ext \subseteq GoodMsg

UserInv ==
    \A a \in Agent : user[a] # Nil =>
        Granted(user[a].fd, user[a].account)

RecordInv ==
    \A account \in Account :
        LET info == online_account[account] IN
        Kicked(info) => Granted(info.fd, account)

IInv ==
    /\ SockType /\ MailInv /\ GateType /\ GamedType /\ AgentType
    /\ UserInv /\ RecordInv

-----------------------------------------------------------------------------
(* Mailboxes                                                               *)

\* The head of a mailbox is a message, and the rest of it a mailbox.
LEMMA HeadIn ==
    ASSUME NEW G, NEW S, NEW f \in [S -> Seq(G)], NEW s \in S, f[s] # << >>
    PROVE  Head(f[s]) \in G /\ Tail(f[s]) \in Seq(G)
  OBVIOUS

\* What each way to leave a mailbox does to the mailboxes.
LEMMA TakeOne ==
    ASSUME NEW G, NEW S, NEW f \in [S -> Seq(G)], NEW s \in S, f[s] # << >>
    PROVE  [f EXCEPT ![s] = Tail(@)] \in [S -> Seq(G)]
  BY HeadIn

LEMMA PutOne ==
    ASSUME NEW G, NEW S, NEW f \in [S -> Seq(G)], NEW d \in S, NEW m \in G
    PROVE  [f EXCEPT ![d] = Append(@, m)] \in [S -> Seq(G)]
<1>1. Append(f[d], m) \in Seq(G)
  OBVIOUS
<1>2. QED
  BY <1>1

LEMMA TakeAndPut ==
    ASSUME NEW G, NEW S, NEW f \in [S -> Seq(G)], NEW s \in S, f[s] # << >>,
           NEW d \in S, NEW m \in G
    PROVE  [f EXCEPT ![s] = Tail(@), ![d] = Append(@, m)] \in [S -> Seq(G)]
<1>1. Tail(f[s]) \in Seq(G)
  BY HeadIn
<1>2. Append(f[d], m) \in Seq(G)
  OBVIOUS
<1>3. QED
  BY <1>1, <1>2

Service == {Gate} \cup Agent

\* A step of a service that leaves a good message behind keeps MailInv.
LEMMA YieldMail ==
    ASSUME MailInv, NEW s \in Service, mbox[s] # << >>, NEW m \in GoodMsg,
           Yield(s, m)
    PROVE  MailInv'
<1>1. mbox' \in [Service -> Seq(GoodMsg)]
  BY TakeOne DEF MailInv, Service, Yield
<1>2. ext' \subseteq GoodMsg
  BY DEF MailInv, Yield
<1>3. QED
  BY <1>1, <1>2 DEF MailInv, Service

LEMMA SendMail ==
    ASSUME MailInv, NEW s \in Service, mbox[s] # << >>,
           NEW d \in Service, NEW m \in GoodMsg, Send(s, d, m)
    PROVE  MailInv'
<1>1. mbox' \in [Service -> Seq(GoodMsg)]
  BY TakeAndPut DEF MailInv, Service, Send
<1>2. QED
  BY <1>1 DEF MailInv, Service, Send

LEMMA EndMail ==
    ASSUME MailInv, NEW s \in Service, mbox[s] # << >>, End(s)
    PROVE  MailInv'
<1>1. mbox' \in [Service -> Seq(GoodMsg)]
  BY TakeOne DEF MailInv, Service, End
<1>2. QED
  BY <1>1 DEF MailInv, Service, End

LEMMA PostMail ==
    ASSUME MailInv, NEW m \in GoodMsg, Post(m)
    PROVE  MailInv'
<1>1. mbox' \in [Service -> Seq(GoodMsg)]
  BY PutOne DEF MailInv, Service, Post
<1>2. QED
  BY <1>1 DEF MailInv, Service, Post

\* The message a service handles is a good one.
LEMMA CurGood ==
    ASSUME MailInv, NEW s \in Service, NEW l, At(s, l)
    PROVE  /\ mbox[s] # << >>
           /\ Cur(s) \in GoodMsg
           /\ Cur(s).at = l
<1>1. mbox \in [Service -> Seq(GoodMsg)] /\ mbox[s] # << >>
  BY DEF MailInv, Service, At
<1>2. Head(mbox[s]) \in GoodMsg
  BY <1>1, HeadIn
<1>3. QED
  BY <1>1, <1>2 DEF At, Cur

LEMMA EventGood ==
    ASSUME NEW k \in {"open", "data", "close"}, NEW l \in Label,
           NEW fd \in Fd, NEW n \in Nth,
           l \in {"MSG.open", "MSG.data", "MSG.close"},
           l = "MSG.data" => k = "data"
    PROVE  Event(l, <<k, fd, n>>) \in GoodMsg
<1>1. Event(l, <<k, fd, n>>) \in Msg
  BY DEF Event, Msg, Task, Kind, Opt
<1>2. Vouched(Event(l, <<k, fd, n>>))
  BY DEF Event, Vouched, NeedsCallee, NeedsRet, HandsOver, Closes, AgentLabel
<1>3. QED
  BY <1>1, <1>2 DEF GoodMsg

-----------------------------------------------------------------------------
(* What a step leaves alone keeps its invariant.                           *)

LEMMA SameSock ==
    ASSUME SockType, UNCHANGED sockVars PROVE SockType'
  BY DEF SockType, sockVars

LEMMA SameMail ==
    ASSUME MailInv, UNCHANGED <<mbox, ext>> PROVE MailInv'
  BY DEF MailInv

LEMMA SameGate ==
    ASSUME GateType, UNCHANGED gateVars PROVE GateType'
  BY DEF GateType, gateVars

LEMMA SameGamed ==
    ASSUME GamedType, RecordInv, UNCHANGED gamedVars
    PROVE  GamedType' /\ RecordInv'
  BY DEF GamedType, RecordInv, gamedVars, Kicked, Granted

LEMMA SameAgent ==
    ASSUME AgentType, UserInv, UNCHANGED agentVars
    PROVE  AgentType' /\ UserInv'
  BY DEF AgentType, UserInv, agentVars, Granted

-----------------------------------------------------------------------------
(* The gate.                                                               *)

LEMMA RefuseInv ==
    ASSUME IInv, Refuse PROVE IInv'
<1> DEFINE m == Cur(Gate)
<1>1. m \in GoodMsg /\ m.at = "MSG.open" /\ mbox[Gate] # << >>
  BY CurGood DEF Refuse, IInv, Service
<1>2. SocketOf(m) \in Fd /\ m.task \in Task
  BY <1>1 DEF GoodMsg, Msg, Task, SocketOf
<1>3. MailInv'
  BY <1>1, EndMail DEF Refuse, IInv, Service
<1>4. SockType'
  BY <1>1, <1>2 DEF Refuse, RequestClose, IInv, SockType
<1>5. QED
  BY <1>3, <1>4, SameGate, SameGamed, SameAgent DEF Refuse, IInv

LEMMA AcceptInv ==
    ASSUME IInv, Accept PROVE IInv'
<1> DEFINE m == Cur(Gate)
<1>1. m \in GoodMsg /\ m.at = "MSG.open" /\ mbox[Gate] # << >>
  BY CurGood DEF Accept, IInv, Service
<1>2. SocketOf(m) \in Fd /\ m.task \in Task
  BY <1>1 DEF GoodMsg, Msg, Task, SocketOf
<1>3. MailInv'
  BY <1>1, EndMail DEF Accept, IInv, Service
<1>4. GateType'
  BY <1>1, <1>2 DEF Accept, IInv, GateType
<1>5. QED
  BY <1>3, <1>4, SameSock, SameGamed, SameAgent DEF Accept, IInv

LEMMA RedirectInv ==
    ASSUME IInv, Redirect PROVE IInv'
<1> DEFINE m == Cur(Gate)
           n == [m EXCEPT !.at = "my_dispatch",
                          !.callee = forwarded[SocketOf(m)]]
<1>1. m \in GoodMsg /\ m.at = "MSG.data" /\ mbox[Gate] # << >>
  BY CurGood DEF Redirect, IInv, Service
<1>2. SocketOf(m) \in Fd /\ m.task \in Task
  BY <1>1 DEF GoodMsg, Msg, Task, SocketOf
<1>3. forwarded[SocketOf(m)] \in Agent
  BY <1>2 DEF Redirect, IInv, GateType, Opt
<1>4. n \in GoodMsg
  <2>1. n \in Msg
    BY <1>1, <1>2, <1>3 DEF GoodMsg, Msg, Opt, Task, Label, GateLabel, AgentLabel, RetLabel
  <2>2. Vouched(n)
    BY <1>1, <1>2, <1>3, FdAssumption DEF GoodMsg, Vouched, NeedsCallee, NeedsRet, HandsOver, Closes,
       AgentLabel, RetLabel
  <2>3. QED
    BY <2>1, <2>2 DEF GoodMsg
<1>5. MailInv'
  BY <1>1, <1>2, <1>3, <1>4, SendMail DEF Redirect, IInv, Service
<1>6. QED
  BY <1>5, SameSock, SameGate, SameGamed, SameAgent DEF Redirect, IInv

LEMMA EnqueueInv ==
    ASSUME IInv, Enqueue PROVE IInv'
<1> DEFINE m == Cur(Gate)
<1>1. m \in GoodMsg /\ m.at = "MSG.data" /\ mbox[Gate] # << >>
  BY CurGood DEF Enqueue, IInv, Service
<1>2. SocketOf(m) \in Fd /\ m.task \in Task
  BY <1>1 DEF GoodMsg, Msg, Task, SocketOf
<1>3. m.task[3] \in Nth
  BY <1>2 DEF Task
<1>4. MailInv'
  BY <1>1, EndMail DEF Enqueue, IInv, Service
<1>5. GateType'
  BY <1>1, <1>2, <1>3 DEF Enqueue, IInv, GateType, Opt
<1>6. QED
  BY <1>4, <1>5, SameSock, SameGamed, SameAgent DEF Enqueue, IInv

LEMMA StartLoginInv ==
    ASSUME IInv, StartLogin PROVE IInv'
<1> DEFINE m == Cur(Gate)
           n == [m EXCEPT !.at = "auth"]
<1>1. m \in GoodMsg /\ m.at = "MSG.data" /\ mbox[Gate] # << >>
  BY CurGood DEF StartLogin, IInv, Service
<1>2. SocketOf(m) \in Fd /\ m.task \in Task
  BY <1>1 DEF GoodMsg, Msg, Task, SocketOf
<1>3. n \in GoodMsg
  <2>1. n \in Msg
    BY <1>1, <1>2 DEF GoodMsg, Msg, Opt, Task, Label, GateLabel, AgentLabel, RetLabel
  <2>2. Vouched(n)
    BY <1>1, <1>2, FdAssumption DEF GoodMsg, Vouched, NeedsCallee, NeedsRet, HandsOver, Closes,
       AgentLabel, RetLabel
  <2>3. QED
    BY <2>1, <2>2 DEF GoodMsg
<1>4. MailInv'
  BY <1>1, <1>2, <1>3, YieldMail DEF StartLogin, IInv, Service
<1>5. GateType'
  BY <1>1, <1>2 DEF StartLogin, IInv, GateType, Opt
<1>6. QED
  BY <1>4, <1>5, SameSock, SameGamed, SameAgent DEF StartLogin, IInv

LEMMA RefusedCloseInv ==
    ASSUME IInv, RefusedClose PROVE IInv'
<1> DEFINE m == Cur(Gate)
<1>1. m \in GoodMsg /\ m.at = "refused" /\ mbox[Gate] # << >>
  BY CurGood DEF RefusedClose, IInv, Service
<1>2. SocketOf(m) \in Fd /\ m.task \in Task
  BY <1>1 DEF GoodMsg, Msg, Task, SocketOf
<1>3. MailInv'
  BY <1>1, EndMail DEF RefusedClose, IInv, Service
<1>4. SockType'
  BY <1>1, <1>2 DEF RefusedClose, RequestClose, IInv, SockType
<1>5. QED
  BY <1>3, <1>4, SameGate, SameGamed, SameAgent DEF RefusedClose, IInv

LEMMA MsgCloseInv ==
    ASSUME IInv, MsgClose PROVE IInv'
<1> DEFINE m == Cur(Gate)
           n == [m EXCEPT !.at = "close_fd"]
<1>1. m \in GoodMsg /\ m.at = "MSG.close" /\ mbox[Gate] # << >>
  BY CurGood DEF MsgClose, IInv, Service
<1>2. n \in GoodMsg
  <2>1. n \in Msg
    BY <1>1 DEF GoodMsg, Msg, Opt, Task, Label, GateLabel, AgentLabel, RetLabel
  <2>2. Vouched(n)
    BY <1>1, FdAssumption DEF GoodMsg, Vouched, NeedsCallee, NeedsRet, HandsOver, Closes,
       AgentLabel, RetLabel
  <2>3. QED
    BY <2>1, <2>2 DEF GoodMsg
<1>3. MailInv'
  BY <1>1, <1>2, YieldMail DEF MsgClose, IInv, Service
<1>4. QED
  BY <1>3, SameSock, SameGate, SameGamed, SameAgent DEF MsgClose, IInv

LEMMA CloseUnknownInv ==
    ASSUME IInv, CloseUnknown PROVE IInv'
<1> DEFINE m == Cur(Gate)
<1>1. m \in GoodMsg /\ m.at = "close_fd" /\ mbox[Gate] # << >>
  BY CurGood DEF CloseUnknown, IInv, Service
<1>2. MailInv'
  BY <1>1, EndMail DEF CloseUnknown, IInv, Service
<1>3. QED
  BY <1>2, SameSock, SameGate, SameGamed, SameAgent DEF CloseUnknown, IInv

LEMMA CloseWithoutAgentInv ==
    ASSUME IInv, CloseWithoutAgent PROVE IInv'
<1> DEFINE m == Cur(Gate)
<1>1. m \in GoodMsg /\ m.at = "close_fd" /\ mbox[Gate] # << >>
  BY CurGood DEF CloseWithoutAgent, IInv, Service
<1>2. MailInv'
  BY <1>1, EndMail DEF CloseWithoutAgent, IInv, Service
<1>3. GateType'
  BY <1>1 DEF CloseWithoutAgent, Forget, IInv, GateType, Opt
<1>4. QED
  BY <1>2, <1>3, SameSock, SameGamed, SameAgent DEF CloseWithoutAgent, IInv

LEMMA CloseWithAgentInv ==
    ASSUME IInv, CloseWithAgent PROVE IInv'
<1> DEFINE m == Cur(Gate)
           n == [m EXCEPT !.at = "agent_close",
                          !.callee = forwarded[SocketOf(m)],
                          !.ret = "close_ret"]
<1>1. m \in GoodMsg /\ m.at = "close_fd" /\ mbox[Gate] # << >>
  BY CurGood DEF CloseWithAgent, IInv, Service
<1>2. SocketOf(m) \in Fd /\ m.task \in Task
  BY <1>1 DEF GoodMsg, Msg, Task, SocketOf
<1>3. forwarded[SocketOf(m)] \in Agent
  BY <1>2 DEF CloseWithAgent, IInv, GateType, Opt
<1>4. n \in GoodMsg
  <2>1. n \in Msg
    BY <1>1, <1>2, <1>3 DEF GoodMsg, Msg, Opt, Task, Label, GateLabel, AgentLabel, RetLabel
  <2>2. Vouched(n)
    BY <1>1, <1>2, <1>3, FdAssumption DEF GoodMsg, Vouched, NeedsCallee, NeedsRet, HandsOver, Closes,
       AgentLabel, RetLabel
  <2>3. QED
    BY <2>1, <2>2 DEF GoodMsg
<1>5. MailInv'
  BY <1>1, <1>2, <1>3, <1>4, SendMail DEF CloseWithAgent, IInv, Service
<1>6. QED
  BY <1>5, SameSock, SameGate, SameGamed, SameAgent DEF CloseWithAgent, IInv

LEMMA CloseDoneInv ==
    ASSUME IInv, CloseDone PROVE IInv'
<1> DEFINE m == Cur(Gate)
<1>1. m \in GoodMsg /\ m.at = "close_ret" /\ mbox[Gate] # << >>
  BY CurGood DEF CloseDone, IInv, Service
<1>2. SocketOf(m) \in Fd /\ m.task \in Task
  BY <1>1 DEF GoodMsg, Msg, Task, SocketOf
<1>3. MailInv'
  BY <1>1, EndMail DEF CloseDone, IInv, Service
<1>4. GateType'
  BY <1>1, <1>2 DEF CloseDone, Forget, IInv, GateType, Opt
<1>5. QED
  BY <1>3, <1>4, SameSock, SameGamed, SameAgent DEF CloseDone, IInv

LEMMA OtherLoginDoneInv ==
    ASSUME IInv, OtherLoginDone PROVE IInv'
<1> DEFINE m == Cur(Gate)
           n == [m EXCEPT !.at = "agent_kick", !.ret = "kick_ret"]
<1>1. m \in GoodMsg /\ m.at = "other_ret" /\ mbox[Gate] # << >>
  BY CurGood DEF OtherLoginDone, IInv, Service
<1>2. m.callee \in Agent
  BY <1>1 DEF GoodMsg, Vouched, NeedsCallee
<1>3. n \in GoodMsg
  <2>1. n \in Msg
    BY <1>1, <1>2 DEF GoodMsg, Msg, Opt, Task, Label, GateLabel, AgentLabel, RetLabel
  <2>2. Vouched(n)
    BY <1>1, <1>2, FdAssumption DEF GoodMsg, Vouched, NeedsCallee, NeedsRet, HandsOver, Closes,
       AgentLabel, RetLabel
  <2>3. QED
    BY <2>1, <2>2 DEF GoodMsg
<1>4. MailInv'
  BY <1>1, <1>2, <1>3, SendMail DEF OtherLoginDone, IInv, Service
<1>5. QED
  BY <1>4, SameSock, SameGate, SameGamed, SameAgent DEF OtherLoginDone, IInv

LEMMA RecycleInv ==
    ASSUME IInv, Recycle PROVE IInv'
<1> DEFINE m == Cur(Gate)
           n == [m EXCEPT !.at = "gamed_closed", !.callee = m.agent]
<1>1. m \in GoodMsg /\ m.at = "recycle" /\ mbox[Gate] # << >>
  BY CurGood DEF Recycle, IInv, Service
<1>2. m.agent \in Agent
  BY <1>1 DEF GoodMsg, Vouched
<1>3. n \in GoodMsg
  <2>1. n \in Msg
    BY <1>1, <1>2 DEF GoodMsg, Msg, Opt, Task, Label, GateLabel, AgentLabel, RetLabel
  <2>2. Vouched(n)
    BY <1>1, <1>2, FdAssumption DEF GoodMsg, Vouched, NeedsCallee, NeedsRet, HandsOver, Closes,
       AgentLabel, RetLabel
  <2>3. QED
    BY <2>1, <2>2 DEF GoodMsg
<1>4. MailInv'
  BY <1>1, <1>2, <1>3, SendMail DEF Recycle, IInv, Service
<1>5. GamedType' /\ RecordInv'
  BY <1>1, <1>2 DEF Recycle, IInv, GamedType, RecordInv, Kicked, Granted
<1>6. QED
  BY <1>4, <1>5, SameSock, SameGate, SameAgent DEF Recycle, IInv

LEMMA KickCloseInv ==
    ASSUME IInv, KickClose PROVE IInv'
<1> DEFINE m == Cur(Gate)
           n == [m EXCEPT !.at = "agent_ret"]
<1>1. m \in GoodMsg /\ m.at = "kick_close" /\ mbox[Gate] # << >>
  BY CurGood DEF KickClose, IInv, Service
<1>2. m.callee \in Agent /\ m.kfd \in Fd
  BY <1>1 DEF GoodMsg, Vouched, NeedsCallee
<1>3. n \in GoodMsg
  <2>1. n \in Msg
    BY <1>1, <1>2 DEF GoodMsg, Msg, Opt, Task, Label, GateLabel, AgentLabel, RetLabel
  <2>2. Vouched(n)
    BY <1>1, <1>2, FdAssumption DEF GoodMsg, Vouched, NeedsCallee, NeedsRet, HandsOver, Closes,
       AgentLabel, RetLabel
  <2>3. QED
    BY <2>1, <2>2 DEF GoodMsg
<1>4. MailInv'
  BY <1>1, <1>2, <1>3, SendMail DEF KickClose, IInv, Service
<1>5. SockType'
  BY <1>1, <1>2 DEF KickClose, RequestClose, IInv, SockType
<1>6. QED
  BY <1>4, <1>5, SameGate, SameGamed, SameAgent DEF KickClose, IInv

LEMMA CloseOfflineInv ==
    ASSUME IInv, CloseOffline PROVE IInv'
<1> DEFINE m == Cur(Gate)
           n == [m EXCEPT !.at = "recycle", !.agent = m.callee]
<1>1. m \in GoodMsg /\ m.at = "gamed_close" /\ mbox[Gate] # << >>
  BY CurGood DEF CloseOffline, IInv, Service
<1>2. m.callee \in Agent
  BY <1>1 DEF GoodMsg, Vouched, NeedsCallee
<1>3. n \in GoodMsg
  <2>1. n \in Msg
    BY <1>1, <1>2 DEF GoodMsg, Msg, Opt, Task, Label, GateLabel, AgentLabel, RetLabel
  <2>2. Vouched(n)
    BY <1>1, <1>2, FdAssumption DEF GoodMsg, Vouched, NeedsCallee, NeedsRet, HandsOver, Closes,
       AgentLabel, RetLabel
  <2>3. QED
    BY <2>1, <2>2 DEF GoodMsg
<1>4. MailInv'
  BY <1>1, <1>2, <1>3, YieldMail DEF CloseOffline, IInv, Service
<1>5. GamedType' /\ RecordInv'
  BY <1>1, <1>2 DEF CloseOffline, IInv, GamedType, RecordInv, Kicked, Granted, Opt
<1>6. QED
  BY <1>4, <1>5, SameSock, SameGate, SameAgent DEF CloseOffline, IInv

LEMMA AssignInv ==
    ASSUME IInv, Assign PROVE IInv'
<1> DEFINE m == Cur(Gate)
           n == [m EXCEPT !.at = "agent_open", !.ret = "open_ret"]
<1>1. m \in GoodMsg /\ m.at = "assign" /\ mbox[Gate] # << >>
  BY CurGood DEF Assign, IInv, Service
<1>2. m.callee \in Agent /\ m.nfd # Nil /\ m.task \in Task
  BY <1>1 DEF GoodMsg, Msg, Vouched, NeedsCallee, HandsOver
<1>3. [agent |-> m.callee, isKick |-> FALSE, fd |-> Nil, id |-> m.task] \in Record
  BY <1>2 DEF Record, Opt
<1>4. n \in GoodMsg
  <2>1. n \in Msg
    BY <1>1, <1>2, <1>3 DEF GoodMsg, Msg, Opt, Task, Label, GateLabel, AgentLabel, RetLabel
  <2>2. Vouched(n)
    BY <1>1, <1>2, <1>3, FdAssumption DEF GoodMsg, Vouched, NeedsCallee, NeedsRet, HandsOver, Closes,
       AgentLabel, RetLabel
  <2>3. QED
    BY <2>1, <2>2 DEF GoodMsg
<1>5. MailInv'
  BY <1>1, <1>2, <1>3, <1>4, SendMail DEF Assign, IInv, Service
<1>6. GamedType' /\ RecordInv'
  BY <1>1, <1>2, <1>3 DEF Assign, IInv, GamedType, RecordInv, Kicked, Granted, Opt
<1>7. QED
  BY <1>5, <1>6, SameSock, SameGate, SameAgent DEF Assign, IInv

LEMMA KickInv ==
    ASSUME IInv, Kick PROVE IInv'
<1> DEFINE m == Cur(Gate)
           n == [m EXCEPT !.at = "kick_close"]
           r == [m EXCEPT !.at = "agent_ret"]
<1>1. m \in GoodMsg /\ m.at = "gamed_kick" /\ mbox[Gate] # << >>
  BY CurGood DEF Kick, IInv, Service
<1>2. m.callee \in Agent
  BY <1>1 DEF GoodMsg, Vouched, NeedsCallee
<1>3. CASE m.kfd \in connection
  <2>1. m.kfd \in Fd
    BY <1>3 DEF IInv, GateType
  <2>2. n \in Msg
    BY <1>1 DEF GoodMsg, Msg, Opt, Task, Label, GateLabel, AgentLabel, RetLabel
  <2>3. Vouched(n)
    BY <1>1, <2>1 DEF GoodMsg, Vouched, NeedsCallee, NeedsRet, HandsOver, Closes,
       AgentLabel, RetLabel
  <2>4. QED
    BY <1>1, <1>3, <2>2, <2>3, YieldMail, SameSock, SameGate, SameGamed,
       SameAgent DEF Kick, IInv, Service, GoodMsg
<1>4. CASE m.kfd \notin connection
  <2>1. r \in Msg
    BY <1>1 DEF GoodMsg, Msg, Opt, Task, Label, GateLabel, AgentLabel, RetLabel
  <2>2. Vouched(r)
    BY <1>1 DEF GoodMsg, Vouched, NeedsCallee, NeedsRet, HandsOver, Closes,
       AgentLabel, RetLabel
  <2>3. QED
    BY <1>1, <1>2, <1>4, <2>1, <2>2, SendMail, SameSock, SameGate, SameGamed,
       SameAgent DEF Kick, IInv, Service, GoodMsg
<1>5. QED
  BY <1>3, <1>4

LEMMA LoginRefusedInv ==
    ASSUME IInv, LoginRefused PROVE IInv'
<1> DEFINE m == Cur(Gate)
           n == [m EXCEPT !.at = "refused"]
<1>1. m \in GoodMsg /\ m.at = "auth" /\ mbox[Gate] # << >>
  BY CurGood DEF LoginRefused, IInv, Service
<1>2. n \in GoodMsg
  <2>1. n \in Msg
    BY <1>1 DEF GoodMsg, Msg, Opt, Task, Label, GateLabel, AgentLabel, RetLabel
  <2>2. Vouched(n)
    BY <1>1, FdAssumption DEF GoodMsg, Vouched, NeedsCallee, NeedsRet, HandsOver, Closes,
       AgentLabel, RetLabel
  <2>3. QED
    BY <2>1, <2>2 DEF GoodMsg
<1>3. MailInv'
  BY <1>1, <1>2, YieldMail, EndMail DEF LoginRefused, IInv, Service
<1>4. QED
  BY <1>3, SameSock, SameGate, SameGamed, SameAgent DEF LoginRefused, IInv

\* What login_handler knows when the login server has vouched for the socket.
LEMMA Verified ==
    ASSUME IInv, At(Gate, "auth"), SocketOf(Cur(Gate)) \notin BadToken
    PROVE  LET fd == SocketOf(Cur(Gate)) IN Granted(fd, AccountOf[fd])
<1>1. Cur(Gate) \in GoodMsg
  BY CurGood DEF IInv, Service
<1>2. SocketOf(Cur(Gate)) \in Fd
  BY <1>1 DEF GoodMsg, Msg, Task, SocketOf
<1>3. QED
  BY <1>2, FdAssumption DEF Granted

LEMMA LoginTakeoverInv ==
    ASSUME IInv, LoginTakeover PROVE IInv'
<1> DEFINE m == Cur(Gate)
           fd == SocketOf(m)
           account == AccountOf[fd]
           info == online_account[account]
           n == [m EXCEPT !.at = "other_login", !.callee = info.agent,
                      !.nfd = fd, !.account = account, !.rec = info.id,
                      !.ret = "other_ret"]
<1>1. m \in GoodMsg /\ m.at = "auth" /\ mbox[Gate] # << >>
  BY CurGood DEF LoginTakeover, IInv, Service
<1>2. Granted(fd, account) /\ fd \in Fd /\ account \in Account
  BY Verified DEF LoginTakeover, Granted
<1>3. info.agent \in Agent /\ info.id \in Task
  BY <1>2 DEF LoginTakeover, IInv, GamedType, Opt, Record
<1>4. n \in GoodMsg
  <2>1. n \in Msg
    BY <1>1, <1>2, <1>3 DEF GoodMsg, Msg, Opt, Task, Label, GateLabel, AgentLabel, RetLabel
  <2>2. Vouched(n)
    BY <1>1, <1>2, <1>3, FdAssumption DEF GoodMsg, Vouched, NeedsCallee, NeedsRet, HandsOver, Closes,
       AgentLabel, RetLabel
  <2>3. QED
    BY <2>1, <2>2 DEF GoodMsg
<1>5. MailInv'
  BY <1>1, <1>3, <1>4, SendMail DEF LoginTakeover, IInv, Service
<1>6. QED
  BY <1>5, SameSock, SameGate, SameGamed, SameAgent DEF LoginTakeover, IInv

LEMMA NextAgent ==
    ASSUME GamedType
    PROVE  /\ pool # << >> => Head(pool) \in Agent /\ Tail(pool) \in Seq(Agent)
           /\ spawned < MaxAgent =>
                spawned + 1 \in Agent /\ spawned + 1 \in 0 .. MaxAgent
<1>1. pool \in Seq(Agent)
  BY DEF GamedType
<1>2. pool # << >> => Head(pool) \in Agent /\ Tail(pool) \in Seq(Agent)
  BY <1>1
<1>3. spawned \in 0 .. MaxAgent /\ MaxAgent \in Nat
  BY BoundAssumption DEF GamedType
<1>4. QED
  BY <1>2, <1>3 DEF Agent

\* forward_agent yields a good message whichever agent it takes.
LEMMA ForwardAgentInv ==
    ASSUME IInv, mbox[Gate] # << >>, NEW m \in Msg,
           \A a \in Agent :
                [m EXCEPT !.at = "assign", !.callee = a] \in GoodMsg,
           ForwardAgent(m), UNCHANGED online_account
    PROVE  MailInv' /\ GamedType' /\ RecordInv'
<1>1. RecordInv'
  BY DEF IInv, RecordInv, Kicked, Granted
<1>2. CASE pool # << >>
  <2>1. Head(pool) \in Agent /\ Tail(pool) \in Seq(Agent)
    BY <1>2, NextAgent DEF IInv
  <2>2. pool' = Tail(pool) /\ spawned' = spawned
    BY <1>2 DEF ForwardAgent
  <2>3. Yield(Gate, [m EXCEPT !.at = "assign", !.callee = Head(pool)])
    BY <1>2 DEF ForwardAgent
  <2>4. MailInv'
    BY <2>1, <2>3, YieldMail DEF IInv, Service
  <2>5. GamedType'
    BY <2>1, <2>2 DEF IInv, GamedType
  <2>6. QED
    BY <1>1, <2>4, <2>5
<1>3. CASE pool = << >>
  <2>1. /\ spawned < MaxAgent /\ spawned' = spawned + 1 /\ pool' = pool
        /\ Yield(Gate, [m EXCEPT !.at = "assign", !.callee = spawned + 1])
    BY <1>3 DEF ForwardAgent
  <2>2. spawned + 1 \in Agent /\ spawned + 1 \in 0 .. MaxAgent
    BY <2>1, NextAgent DEF IInv
  <2>3. MailInv'
    BY <2>1, <2>2, YieldMail DEF IInv, Service
  <2>4. GamedType'
    BY <2>1, <2>2 DEF IInv, GamedType
  <2>5. QED
    BY <1>1, <2>3, <2>4
<1>4. QED
  BY <1>2, <1>3

LEMMA LoginFreshInv ==
    ASSUME IInv, LoginFresh PROVE IInv'
<1> DEFINE m == Cur(Gate)
           fd == SocketOf(m)
           account == AccountOf[fd]
           n == [m EXCEPT !.nfd = fd, !.account = account]
           f(a) == [n EXCEPT !.at = "assign", !.callee = a]
<1>1. m \in GoodMsg /\ m.at = "auth" /\ mbox[Gate] # << >>
  BY CurGood DEF LoginFresh, IInv, Service
<1>2. Granted(fd, account) /\ fd \in Fd /\ account \in Account
  BY Verified DEF LoginFresh, Granted
<1>3. n \in Msg
  BY <1>1, <1>2 DEF GoodMsg, Msg, Opt
<1>4. ASSUME NEW a \in Agent PROVE f(a) \in GoodMsg
  <2>1. f(a) \in Msg
    BY <1>3 DEF Msg, Opt, Label, GateLabel
  <2>2. Vouched(f(a))
    BY <1>1, <1>2, FdAssumption DEF Msg, GoodMsg, Vouched, NeedsCallee, NeedsRet, HandsOver, Closes,
       AgentLabel, RetLabel
  <2>3. QED
    BY <2>1, <2>2 DEF GoodMsg
<1>5. ForwardAgent(n) /\ UNCHANGED online_account
  BY DEF LoginFresh
<1>6. MailInv' /\ GamedType' /\ RecordInv'
  BY <1>1, <1>3, <1>4, <1>5, ForwardAgentInv
<1>7. QED
  BY <1>6, SameSock, SameGate, SameAgent DEF LoginFresh, IInv

LEMMA CloseForTakeoverInv ==
    ASSUME IInv, CloseForTakeover PROVE IInv'
<1> DEFINE m == Cur(Gate)
           info == online_account[m.account]
           n == [m EXCEPT !.agent = m.callee, !.nfd = info.fd]
           f(a) == [n EXCEPT !.at = "assign", !.callee = a]
<1>1. m \in GoodMsg /\ m.at = "gamed_close" /\ mbox[Gate] # << >>
  BY CurGood DEF CloseForTakeover, IInv, Service
<1>2. m.account \in Account /\ m.callee \in Agent
  BY <1>1 DEF GoodMsg, Vouched, NeedsCallee
<1>3. Granted(info.fd, m.account) /\ info.fd \in Fd
  BY <1>2 DEF CloseForTakeover, IInv, RecordInv, Granted
<1>4. n \in Msg
  BY <1>1, <1>2, <1>3 DEF GoodMsg, Msg, Opt
<1>5. ASSUME NEW a \in Agent PROVE f(a) \in GoodMsg
  <2>1. f(a) \in Msg
    BY <1>4 DEF Msg, Opt, Label, GateLabel
  <2>2. Vouched(f(a))
    BY <1>1, <1>2, <1>3, FdAssumption DEF Msg, GoodMsg, Vouched, NeedsCallee, NeedsRet, HandsOver, Closes,
       AgentLabel, RetLabel
  <2>3. QED
    BY <2>1, <2>2 DEF GoodMsg
<1>6. ForwardAgent(n) /\ UNCHANGED online_account
  BY DEF CloseForTakeover
<1>7. MailInv' /\ GamedType' /\ RecordInv'
  BY <1>1, <1>4, <1>5, <1>6, ForwardAgentInv
<1>8. QED
  BY <1>7, SameSock, SameGate, SameAgent DEF CloseForTakeover, IInv

LEMMA KickDoneInv ==
    ASSUME IInv, KickDone PROVE IInv'
<1> DEFINE m == Cur(Gate)
           info == online_account[m.account]
<1>1. m \in GoodMsg /\ m.at = "kick_ret" /\ mbox[Gate] # << >>
  BY CurGood DEF KickDone, IInv, Service
<1>2. Granted(m.nfd, m.account) /\ m.account \in Account /\ m.nfd \in Fd
  BY <1>1 DEF GoodMsg, Vouched, HandsOver, Granted
<1>3. MailInv'
  BY <1>1, EndMail DEF KickDone, IInv, Service
<1>4. Marked(info, m) \in Opt(Record)
  BY <1>2 DEF Marked, IInv, GamedType, Opt, Record
<1>5. online_account' = [online_account EXCEPT ![m.account] = Marked(info, m)]
  BY DEF KickDone
<1>6. GamedType'
  BY <1>4, <1>5 DEF KickDone, IInv, GamedType
<1>7. ASSUME NEW account \in Account, Kicked(online_account'[account])
      PROVE  Granted(online_account'[account].fd, account)
  <2>1. CASE account # m.account
    BY <1>5, <1>7, <2>1 DEF IInv, RecordInv, GamedType
  <2>2. CASE account = m.account /\ Marked(info, m) = info
    BY <1>5, <1>7, <2>2 DEF IInv, RecordInv, GamedType
  <2>3. CASE account = m.account /\ info # Nil /\ info.id = m.rec
    <3>1. Marked(info, m).fd = m.nfd
      BY <1>2, <2>3 DEF Marked, IInv, GamedType, Opt, Record
    <3>2. QED
      BY <1>2, <1>5, <2>3, <3>1 DEF IInv, GamedType
  <2>4. QED
    BY <2>1, <2>2, <2>3 DEF Marked
<1>8. RecordInv'
  BY <1>7 DEF RecordInv, Kicked, Granted
<1>9. QED
  BY <1>3, <1>6, <1>8, SameSock, SameGate, SameAgent DEF KickDone, IInv

LEMMA PendingHangInv ==
    ASSUME IInv, PendingHang PROVE IInv'
<1> DEFINE m == Cur(Gate)
           q == pending_msg[m.nfd]
           n == [Event("my_dispatch", <<"data", m.nfd, Head(q)>>)
                    EXCEPT !.callee = m.callee]
<1>1. m \in GoodMsg /\ m.at = "open_ret" /\ mbox[Gate] # << >>
  BY CurGood DEF PendingHang, IInv, Service
<1>2. m.nfd \in Fd /\ m.callee \in Agent
  BY <1>1 DEF GoodMsg, Msg, Vouched, NeedsCallee, HandsOver, Granted
<1>3. Head(q) \in Nth
  <2>1. q \in Seq(Nth) /\ q # << >>
    BY <1>2 DEF PendingHang, IInv, GateType, Opt
  <2>2. QED
    BY <2>1
<1>4. <<"data", m.nfd, Head(q)>> \in Task
  BY <1>2, <1>3 DEF Task, Kind
<1>5. n \in GoodMsg
  <2>1. n \in Msg
    BY <1>2, <1>4 DEF Event, Msg, Opt, Label, AgentLabel
  <2>2. Vouched(n)
    BY <1>2 DEF Event, Vouched, NeedsCallee, NeedsRet, HandsOver, Closes,
       AgentLabel
  <2>3. QED
    BY <2>1, <2>2 DEF GoodMsg
<1>6. MailInv'
  BY <1>1, <1>2, <1>5, SendMail DEF PendingHang, IInv, Service
<1>7. QED
  BY <1>6, SameSock, SameGate, SameGamed, SameAgent DEF PendingHang, IInv

LEMMA ForwardInv ==
    ASSUME IInv, Forward PROVE IInv'
<1> DEFINE m == Cur(Gate)
           n == [m EXCEPT !.at = "recycle"]
<1>1. m \in GoodMsg /\ m.at = "open_ret" /\ mbox[Gate] # << >>
  BY CurGood DEF Forward, IInv, Service
<1>2. m.nfd # Nil /\ m.nfd \in Fd /\ m.callee \in Opt(Agent)
  BY <1>1 DEF GoodMsg, Msg, Vouched, HandsOver, Granted
<1>3. MailInv'
  <2>1. CASE m.task[1] = "close"
    <3>1. n \in Msg
      BY <1>1 DEF GoodMsg, Msg, Opt, Task, Label, GateLabel, AgentLabel, RetLabel
    <3>2. Vouched(n)
      BY <1>1, <1>2, <2>1 DEF GoodMsg, Vouched, NeedsCallee, NeedsRet, HandsOver, Closes,
       AgentLabel, RetLabel
    <3>3. QED
      BY <1>1, <2>1, <3>1, <3>2, YieldMail DEF Forward, IInv, Service, GoodMsg
  <2>2. CASE m.task[1] # "close"
    BY <1>1, <2>2, EndMail DEF Forward, IInv, Service
  <2>3. QED
    BY <2>1, <2>2
<1>4. GateType'
  BY <1>2 DEF Forward, IInv, GateType, Opt
<1>5. QED
  BY <1>3, <1>4, SameSock, SameGamed, SameAgent DEF Forward, IInv

-----------------------------------------------------------------------------
(* The agents.                                                             *)

LEMMA AgentReturnInv ==
    ASSUME IInv, NEW a \in Agent, AgentReturn(a) PROVE IInv'
<1> DEFINE m == Cur(a)
           n == [m EXCEPT !.at = m.ret]
<1>1. m \in GoodMsg /\ m.at = "agent_ret" /\ mbox[a] # << >>
  BY CurGood DEF AgentReturn, IInv, Service
<1>2. m.ret \in RetLabel /\ (m.ret # "close_ret" => m.nfd # Nil)
  BY <1>1 DEF GoodMsg, Vouched, NeedsRet, AgentLabel
<1>3. m.callee \in Agent /\ m.task \in Task
  BY <1>1 DEF GoodMsg, Msg, Vouched, NeedsCallee, AgentLabel
<1>4. n \in GoodMsg
  <2>1. n \in Msg
    BY <1>1, <1>2, <1>3 DEF GoodMsg, Msg, Opt, Task, Label, GateLabel, AgentLabel, RetLabel
  <2>2. Vouched(n)
    BY <1>1, <1>2, <1>3, FdAssumption DEF GoodMsg, Vouched, NeedsCallee, NeedsRet, HandsOver, Closes,
       AgentLabel, RetLabel
  <2>3. QED
    BY <2>1, <2>2 DEF GoodMsg
<1>5. MailInv'
  BY <1>1, <1>2, <1>3, <1>4, SendMail DEF AgentReturn, IInv, Service
<1>6. QED
  BY <1>5, SameSock, SameGate, SameGamed, SameAgent DEF AgentReturn, IInv

LEMMA AgentOpenInv ==
    ASSUME IInv, NEW a \in Agent, AgentOpen(a) PROVE IInv'
<1> DEFINE m == Cur(a)
           n == [m EXCEPT !.at = "opened"]
<1>1. m \in GoodMsg /\ m.at = "agent_open" /\ mbox[a] # << >>
  BY CurGood DEF AgentOpen, IInv, Service, Pass
<1>2. n \in GoodMsg
  <2>1. n \in Msg
    BY <1>1 DEF GoodMsg, Msg, Opt, Task, Label, GateLabel, AgentLabel, RetLabel
  <2>2. Vouched(n)
    BY <1>1, FdAssumption DEF GoodMsg, Vouched, NeedsCallee, NeedsRet, HandsOver, Closes,
       AgentLabel, RetLabel
  <2>3. QED
    BY <2>1, <2>2 DEF GoodMsg
<1>3. MailInv'
  BY <1>1, <1>2, YieldMail DEF AgentOpen, IInv, Service, Pass
<1>4. QED
  BY <1>3, SameSock, SameGate, SameGamed, SameAgent DEF AgentOpen, IInv, Pass

LEMMA OpenedInv ==
    ASSUME IInv, NEW a \in Agent, Opened(a) PROVE IInv'
<1> DEFINE m == Cur(a)
           n == [m EXCEPT !.at = "register"]
<1>1. m \in GoodMsg /\ m.at = "opened" /\ mbox[a] # << >>
  BY CurGood DEF Opened, IInv, Service
<1>2. Granted(m.nfd, m.account)
  BY <1>1 DEF GoodMsg, Vouched, HandsOver
<1>3. n \in GoodMsg
  <2>1. n \in Msg
    BY <1>1, <1>2 DEF GoodMsg, Msg, Opt, Task, Label, GateLabel, AgentLabel, RetLabel
  <2>2. Vouched(n)
    BY <1>1, <1>2, FdAssumption DEF GoodMsg, Vouched, NeedsCallee, NeedsRet, HandsOver, Closes,
       AgentLabel, RetLabel
  <2>3. QED
    BY <2>1, <2>2 DEF GoodMsg
<1>4. MailInv'
  BY <1>1, <1>2, <1>3, YieldMail DEF Opened, IInv, Service
<1>5. AgentType' /\ UserInv'
  BY <1>1, <1>2 DEF Opened, IInv, AgentType, UserInv, User, Opt, Granted
<1>6. QED
  BY <1>4, <1>5, SameSock, SameGate, SameGamed DEF Opened, IInv

LEMMA RegisterInv ==
    ASSUME IInv, NEW a \in Agent, Register(a) PROVE IInv'
<1> DEFINE m == Cur(a)
           n == [m EXCEPT !.at = "welcome"]
<1>1. m \in GoodMsg /\ m.at = "register" /\ mbox[a] # << >>
  BY CurGood DEF Register, IInv, Service
<1>2. n \in GoodMsg
  <2>1. n \in Msg
    BY <1>1 DEF GoodMsg, Msg, Opt, Task, Label, GateLabel, AgentLabel, RetLabel
  <2>2. Vouched(n)
    BY <1>1, FdAssumption DEF GoodMsg, Vouched, NeedsCallee, NeedsRet, HandsOver, Closes,
       AgentLabel, RetLabel
  <2>3. QED
    BY <2>1, <2>2 DEF GoodMsg
<1>3. MailInv'
  BY <1>1, <1>2, YieldMail DEF Register, IInv, Service
<1>4. AgentType' /\ UserInv'
  BY <1>1 DEF Register, IInv, AgentType, UserInv, Granted
<1>5. QED
  BY <1>3, <1>4, SameSock, SameGate, SameGamed DEF Register, IInv

LEMMA WelcomeInv ==
    ASSUME IInv, NEW a \in Agent, Welcome(a) PROVE IInv'
<1> DEFINE m == Cur(a)
           n == [m EXCEPT !.at = "agent_ret"]
<1>1. m \in GoodMsg /\ m.at = "welcome" /\ mbox[a] # << >>
  BY CurGood DEF Welcome, IInv, Service
<1>2. n \in GoodMsg
  <2>1. n \in Msg
    BY <1>1 DEF GoodMsg, Msg, Opt, Task, Label, GateLabel, AgentLabel, RetLabel
  <2>2. Vouched(n)
    BY <1>1, FdAssumption DEF GoodMsg, Vouched, NeedsCallee, NeedsRet, HandsOver, Closes,
       AgentLabel, RetLabel
  <2>3. QED
    BY <2>1, <2>2 DEF GoodMsg
<1>3. MailInv'
  BY <1>1, <1>2, YieldMail DEF Welcome, IInv, Service
<1>4. AgentType' /\ UserInv'
  BY <1>1 DEF Welcome, IInv, AgentType, UserInv, User, Opt, Granted
<1>5. QED
  BY <1>3, <1>4, SameSock, SameGate, SameGamed DEF Welcome, IInv

LEMMA AgentCloseInv ==
    ASSUME IInv, NEW a \in Agent, AgentClose(a) PROVE IInv'
<1> DEFINE m == Cur(a)
           n == [m EXCEPT !.at = "closing"]
<1>1. m \in GoodMsg /\ m.at = "agent_close" /\ mbox[a] # << >>
  BY CurGood DEF AgentClose, IInv, Service, Pass
<1>2. n \in GoodMsg
  <2>1. n \in Msg
    BY <1>1 DEF GoodMsg, Msg, Opt, Task, Label, GateLabel, AgentLabel, RetLabel
  <2>2. Vouched(n)
    BY <1>1, FdAssumption DEF GoodMsg, Vouched, NeedsCallee, NeedsRet, HandsOver, Closes,
       AgentLabel, RetLabel
  <2>3. QED
    BY <2>1, <2>2 DEF GoodMsg
<1>3. MailInv'
  BY <1>1, <1>2, YieldMail DEF AgentClose, IInv, Service, Pass
<1>4. QED
  BY <1>3, SameSock, SameGate, SameGamed, SameAgent DEF AgentClose, IInv, Pass

LEMMA ClosingInv ==
    ASSUME IInv, NEW a \in Agent, Closing(a) PROVE IInv'
<1> DEFINE m == Cur(a)
           n == [m EXCEPT !.at = "close_finish",
                          !.account = user[a].account]
<1>1. m \in GoodMsg /\ m.at = "closing" /\ mbox[a] # << >>
  BY CurGood DEF Closing, IInv, Service
<1>2. user[a].account \in Account
  BY DEF Closing, IInv, UserInv, Granted
<1>3. n \in GoodMsg
  <2>1. n \in Msg
    BY <1>1, <1>2 DEF GoodMsg, Msg, Opt, Task, Label, GateLabel, AgentLabel, RetLabel
  <2>2. Vouched(n)
    BY <1>1, <1>2, FdAssumption DEF GoodMsg, Vouched, NeedsCallee, NeedsRet, HandsOver, Closes,
       AgentLabel, RetLabel
  <2>3. QED
    BY <2>1, <2>2 DEF GoodMsg
<1>4. MailInv'
  BY <1>1, <1>2, <1>3, YieldMail DEF Closing, IInv, Service
<1>5. QED
  BY <1>4, SameSock, SameGate, SameGamed, SameAgent DEF Closing, IInv

LEMMA CloseFinishInv ==
    ASSUME IInv, NEW a \in Agent, CloseFinish(a) PROVE IInv'
<1> DEFINE m == Cur(a)
           n == [m EXCEPT !.at = "gamed_close"]
<1>1. m \in GoodMsg /\ m.at = "close_finish" /\ mbox[a] # << >>
  BY CurGood DEF CloseFinish, IInv, Service
<1>2. n \in GoodMsg
  <2>1. n \in Msg
    BY <1>1 DEF GoodMsg, Msg, Opt, Task, Label, GateLabel, AgentLabel, RetLabel
  <2>2. Vouched(n)
    BY <1>1, FdAssumption DEF GoodMsg, Vouched, NeedsCallee, NeedsRet, HandsOver, Closes,
       AgentLabel, RetLabel
  <2>3. QED
    BY <2>1, <2>2 DEF GoodMsg
<1>3. MailInv'
  BY <1>1, <1>2, SendMail DEF CloseFinish, IInv, Service
<1>4. AgentType' /\ UserInv'
  BY <1>1 DEF CloseFinish, IInv, AgentType, UserInv, Opt, Granted
<1>5. QED
  BY <1>3, <1>4, SameSock, SameGate, SameGamed DEF CloseFinish, IInv

LEMMA GamedClosedInv ==
    ASSUME IInv, NEW a \in Agent, GamedClosed(a) PROVE IInv'
<1> DEFINE m == Cur(a)
           n == [m EXCEPT !.at = "close_ret"]
<1>1. m \in GoodMsg /\ m.at = "gamed_closed" /\ mbox[a] # << >>
  BY CurGood DEF GamedClosed, IInv, Service
<1>2. n \in GoodMsg
  <2>1. n \in Msg
    BY <1>1 DEF GoodMsg, Msg, Opt, Task, Label, GateLabel, AgentLabel, RetLabel
  <2>2. Vouched(n)
    BY <1>1, FdAssumption DEF GoodMsg, Vouched, NeedsCallee, NeedsRet, HandsOver, Closes,
       AgentLabel, RetLabel
  <2>3. QED
    BY <2>1, <2>2 DEF GoodMsg
<1>3. MailInv'
  BY <1>1, <1>2, SendMail DEF GamedClosed, IInv, Service
<1>4. QED
  BY <1>3, SameSock, SameGate, SameGamed, SameAgent DEF GamedClosed, IInv

LEMMA OtherLoginInv ==
    ASSUME IInv, NEW a \in Agent, OtherLogin(a) PROVE IInv'
<1> DEFINE m == Cur(a)
           n == [m EXCEPT !.at = "other_write"]
<1>1. m \in GoodMsg /\ m.at = "other_login" /\ mbox[a] # << >>
  BY CurGood DEF OtherLogin, IInv, Service, Pass
<1>2. n \in GoodMsg
  <2>1. n \in Msg
    BY <1>1 DEF GoodMsg, Msg, Opt, Task, Label, GateLabel, AgentLabel, RetLabel
  <2>2. Vouched(n)
    BY <1>1, FdAssumption DEF GoodMsg, Vouched, NeedsCallee, NeedsRet, HandsOver, Closes,
       AgentLabel, RetLabel
  <2>3. QED
    BY <2>1, <2>2 DEF GoodMsg
<1>3. MailInv'
  BY <1>1, <1>2, YieldMail DEF OtherLogin, IInv, Service, Pass
<1>4. QED
  BY <1>3, SameSock, SameGate, SameGamed, SameAgent DEF OtherLogin, IInv, Pass

LEMMA OtherWriteInv ==
    ASSUME IInv, NEW a \in Agent, OtherWrite(a) PROVE IInv'
<1> DEFINE m == Cur(a)
           n == [m EXCEPT !.at = "agent_ret"]
<1>1. m \in GoodMsg /\ m.at = "other_write" /\ mbox[a] # << >>
  BY CurGood DEF OtherWrite, IInv, Service, Pass
<1>2. n \in GoodMsg
  <2>1. n \in Msg
    BY <1>1 DEF GoodMsg, Msg, Opt, Task, Label, GateLabel, AgentLabel, RetLabel
  <2>2. Vouched(n)
    BY <1>1, FdAssumption DEF GoodMsg, Vouched, NeedsCallee, NeedsRet, HandsOver, Closes,
       AgentLabel, RetLabel
  <2>3. QED
    BY <2>1, <2>2 DEF GoodMsg
<1>3. MailInv'
  BY <1>1, <1>2, YieldMail DEF OtherWrite, IInv, Service, Pass
<1>4. QED
  BY <1>3, SameSock, SameGate, SameGamed, SameAgent DEF OtherWrite, IInv, Pass

LEMMA AgentKickInv ==
    ASSUME IInv, NEW a \in Agent, AgentKick(a) PROVE IInv'
<1> DEFINE m == Cur(a)
           n == [m EXCEPT !.at = "kick_self"]
<1>1. m \in GoodMsg /\ m.at = "agent_kick" /\ mbox[a] # << >>
  BY CurGood DEF AgentKick, IInv, Service, Pass
<1>2. n \in GoodMsg
  <2>1. n \in Msg
    BY <1>1 DEF GoodMsg, Msg, Opt, Task, Label, GateLabel, AgentLabel, RetLabel
  <2>2. Vouched(n)
    BY <1>1, FdAssumption DEF GoodMsg, Vouched, NeedsCallee, NeedsRet, HandsOver, Closes,
       AgentLabel, RetLabel
  <2>3. QED
    BY <2>1, <2>2 DEF GoodMsg
<1>3. MailInv'
  BY <1>1, <1>2, YieldMail DEF AgentKick, IInv, Service, Pass
<1>4. QED
  BY <1>3, SameSock, SameGate, SameGamed, SameAgent DEF AgentKick, IInv, Pass

LEMMA MyDispatchInv ==
    ASSUME IInv, NEW a \in Agent, MyDispatch(a) PROVE IInv'
<1> DEFINE m == Cur(a)
<1>1. m \in GoodMsg /\ m.at = "my_dispatch" /\ mbox[a] # << >>
  BY CurGood DEF MyDispatch, IInv, Service
<1>2. SocketOf(m) \in Fd /\ m.task[3] \in Nth
  BY <1>1 DEF GoodMsg, Msg, Task, SocketOf
<1>3. MailInv'
  BY <1>1, EndMail DEF MyDispatch, IInv, Service
<1>4. AgentType' /\ UserInv'
  BY <1>1, <1>2 DEF MyDispatch, IInv, AgentType, UserInv, Granted
<1>5. QED
  BY <1>3, <1>4, SameSock, SameGate, SameGamed DEF MyDispatch, IInv

\* A handler that raised an error, and kick_self.
LEMMA KickSelfMail ==
    ASSUME IInv, NEW a \in Agent, NEW l \in AgentLabel, At(a, l),
           l \notin {"my_dispatch", "gamed_closed"}, KickSelf(a, Cur(a))
    PROVE  MailInv'
<1> DEFINE m == Cur(a)
           n == [m EXCEPT !.at = "gamed_kick", !.kfd = UserFd(a)]
<1>1. m \in GoodMsg /\ m.at = l /\ mbox[a] # << >>
  BY CurGood DEF IInv, Service
<1>2. UserFd(a) \in Opt(Fd)
  BY DEF UserFd, IInv, AgentType, User, Opt
<1>3. n \in GoodMsg
  <2>1. n \in Msg
    BY <1>1, <1>2 DEF GoodMsg, Msg, Opt, Task, Label, GateLabel, AgentLabel, RetLabel
  <2>2. Vouched(n)
    BY <1>1, <1>2, FdAssumption DEF GoodMsg, Vouched, NeedsCallee, NeedsRet, HandsOver, Closes,
       AgentLabel, RetLabel
  <2>3. QED
    BY <2>1, <2>2 DEF GoodMsg
<1>4. QED
  BY <1>1, <1>3, SendMail DEF KickSelf, IInv, Service

LEMMA FailedInv ==
    ASSUME IInv, NEW a \in Agent, NEW l \in AgentLabel, Failed(a, l),
           l \notin {"my_dispatch", "gamed_closed"}
    PROVE  IInv'
<1>1. MailInv'
  BY KickSelfMail DEF Failed
<1>2. QED
  BY <1>1, SameSock, SameGate, SameGamed, SameAgent DEF Failed, IInv

LEMMA RegisterFailedInv ==
    ASSUME IInv, NEW a \in Agent, RegisterFailed(a) PROVE IInv'
<1>1. MailInv'
  BY KickSelfMail DEF RegisterFailed, AgentLabel
<1>2. QED
  BY <1>1, SameSock, SameGate, SameGamed, SameAgent DEF RegisterFailed, IInv

LEMMA AgentKickSelfInv ==
    ASSUME IInv, NEW a \in Agent, AgentKickSelf(a) PROVE IInv'
<1>1. MailInv'
  BY KickSelfMail DEF AgentKickSelf, AgentLabel
<1>2. QED
  BY <1>1, SameSock, SameGate, SameGamed, SameAgent DEF AgentKickSelf, IInv

-----------------------------------------------------------------------------
(* The socket thread, the clients, and the answers of other services.      *)

LEMMA PostEvent ==
    ASSUME IInv, NEW k \in Kind, NEW fd \in Fd, NEW n \in Nth,
           NEW l \in {"MSG.open", "MSG.data", "MSG.close"},
           l = "MSG.data" => k = "data",
           Post(Event(l, <<k, fd, n>>))
    PROVE  MailInv'
<1>1. l \in Label
  BY DEF Label, GateLabel
<1>2. Event(l, <<k, fd, n>>) \in GoodMsg
  BY <1>1, EventGood DEF Kind
<1>3. QED
  BY <1>2, PostMail DEF IInv

\* The ordinals of events stay in range.
LEMMA Ordinals ==
    ASSUME SockType, NEW fd \in Fd
    PROVE  /\ 1 \in Nth
           /\ nsent[fd] < MaxFrame =>
                nsent[fd] + 1 \in Nth /\ nsent[fd] + 1 \in 0 .. MaxFrame
           /\ nclose[fd] < MaxClose =>
                nclose[fd] + 1 \in Nth /\ nclose[fd] + 1 \in 0 .. MaxClose
<1>1. nsent[fd] \in 0 .. MaxFrame /\ nclose[fd] \in 0 .. MaxClose
  BY DEF SockType
<1>2. QED
  BY <1>1, BoundAssumption DEF Nth

LEMMA ClientConnectInv ==
    ASSUME IInv, NEW fd \in Fd, ClientConnect(fd) PROVE IInv'
<1>1. MailInv'
  BY PostEvent, Ordinals DEF ClientConnect, Kind, IInv
<1>2. SockType'
  BY DEF ClientConnect, IInv, SockType
<1>3. QED
  BY <1>1, <1>2, SameGate, SameGamed, SameAgent DEF ClientConnect, IInv

LEMMA ClientSendInv ==
    ASSUME IInv, NEW fd \in Fd, ClientSend(fd) PROVE IInv'
<1>1. nsent[fd] + 1 \in Nth /\ nsent[fd] + 1 \in 0 .. MaxFrame
  BY Ordinals DEF ClientSend, IInv
<1>2. MailInv'
  BY <1>1, PostEvent DEF ClientSend, Kind
<1>3. SockType'
  BY <1>1 DEF ClientSend, IInv, SockType
<1>4. QED
  BY <1>2, <1>3, SameGate, SameGamed, SameAgent DEF ClientSend, IInv

LEMMA PostCloseInv ==
    ASSUME IInv, NEW fd \in Fd, PostClose(fd), creq' \in [Fd -> Nat]
    PROVE  IInv'
<1>1. nclose[fd] + 1 \in Nth /\ nclose[fd] + 1 \in 0 .. MaxClose
  BY Ordinals DEF PostClose, IInv
<1>2. MailInv'
  BY <1>1, PostEvent DEF PostClose, Kind
<1>3. SockType'
  BY <1>1 DEF PostClose, IInv, SockType
<1>4. QED
  BY <1>2, <1>3, SameGate, SameGamed, SameAgent DEF PostClose, IInv

LEMMA ClientDropInv ==
    ASSUME IInv, NEW fd \in Fd, ClientDrop(fd) PROVE IInv'
<1>1. creq' \in [Fd -> Nat]
  BY DEF ClientDrop, IInv, SockType
<1>2. QED
  BY <1>1, PostCloseInv DEF ClientDrop

LEMMA SocketCloseInv ==
    ASSUME IInv, NEW fd \in Fd, SocketClose(fd) PROVE IInv'
<1>1. creq[fd] \in Nat /\ creq[fd] > 0
  BY DEF SocketClose, IInv, SockType
<1>2. creq' \in [Fd -> Nat]
  BY <1>1 DEF SocketClose, IInv, SockType
<1>3. QED
  BY <1>2, PostCloseInv DEF SocketClose

LEMMA ReplyInv ==
    ASSUME IInv, NEW m \in ext, Reply(m) PROVE IInv'
<1>1. m \in GoodMsg
  BY DEF IInv, MailInv
<1>2. Home(m) \in Service
  BY <1>1 DEF Home, Service, GoodMsg, Vouched, NeedsCallee
<1>3. mbox' \in [Service -> Seq(GoodMsg)]
  BY <1>1, <1>2, PutOne DEF Reply, IInv, MailInv, Service
<1>4. MailInv'
  BY <1>3 DEF Reply, IInv, MailInv, Service
<1>5. QED
  BY <1>4, SameSock, SameGate, SameGamed, SameAgent DEF Reply, IInv

-----------------------------------------------------------------------------
(* The invariant and the theorems.                                         *)

LEMMA InitInv == Init => IInv
<1> SUFFICES ASSUME Init PROVE IInv
  OBVIOUS
<1>1. SockType
  BY BoundAssumption DEF Init, SockType
<1>2. MailInv
  BY DEF Init, MailInv
<1>3. GateType
  BY DEF Init, GateType, Opt
<1>4. GamedType
  <2>1. pool \in Seq(Agent)
    BY BoundAssumption DEF Init, Agent
  <2>2. QED
    BY <2>1, BoundAssumption DEF Init, GamedType, Opt
<1>5. AgentType /\ UserInv /\ RecordInv
  BY DEF Init, AgentType, UserInv, RecordInv, Kicked, Opt
<1>6. QED
  BY <1>1, <1>2, <1>3, <1>4, <1>5 DEF IInv

LEMMA StutterInv == ASSUME IInv, UNCHANGED vars PROVE IInv'
  BY SameSock, SameMail, SameGate, SameGamed, SameAgent DEF vars, IInv

LEMMA GateStepInv == ASSUME IInv, GateStep PROVE IInv'
  BY RefuseInv, AcceptInv, RedirectInv, EnqueueInv, StartLoginInv,
     LoginRefusedInv, RefusedCloseInv, LoginFreshInv, LoginTakeoverInv,
     OtherLoginDoneInv, KickDoneInv, AssignInv, PendingHangInv, ForwardInv,
     MsgCloseInv, CloseUnknownInv, CloseWithoutAgentInv, CloseWithAgentInv,
     CloseForTakeoverInv, CloseOfflineInv, RecycleInv, CloseDoneInv, KickInv,
     KickCloseInv
     DEF GateStep

LEMMA AgentStepInv ==
    ASSUME IInv, NEW a \in Agent, AgentStep(a) PROVE IInv'
<1>1. CASE WelcomeFailed(a) \/ AgentCloseFailed(a) \/ OtherLoginFailed(a)
  BY <1>1, FailedInv DEF WelcomeFailed, AgentCloseFailed, OtherLoginFailed,
     AgentLabel
<1>2. CASE RegisterFailed(a) \/ AgentKickSelf(a)
  BY <1>2, RegisterFailedInv, AgentKickSelfInv
<1>3. CASE AgentOpen(a) \/ Opened(a) \/ Register(a) \/ Welcome(a)
  BY <1>3, AgentOpenInv, OpenedInv, RegisterInv, WelcomeInv
<1>4. CASE \/ AgentClose(a) \/ Closing(a) \/ CloseFinish(a) \/ GamedClosed(a)
  BY <1>4, AgentCloseInv, ClosingInv, CloseFinishInv, GamedClosedInv
<1>5. CASE \/ OtherLogin(a) \/ OtherWrite(a) \/ AgentKick(a)
           \/ AgentReturn(a) \/ MyDispatch(a)
  BY <1>5, OtherLoginInv, OtherWriteInv, AgentKickInv, AgentReturnInv,
     MyDispatchInv
<1>6. QED
  BY <1>1, <1>2, <1>3, <1>4, <1>5 DEF AgentStep

LEMMA NextInv == ASSUME IInv, [Next]_vars PROVE IInv'
<1>1. CASE GateStep
  BY <1>1, GateStepInv
<1>2. CASE \E a \in Agent : AgentStep(a)
  BY <1>2, AgentStepInv
<1>3. CASE \E m \in ext : Reply(m)
  BY <1>3, ReplyInv
<1>4. CASE \E fd \in Fd : SocketClose(fd) \/ ClientStep(fd)
  BY <1>4, SocketCloseInv, ClientConnectInv, ClientSendInv, ClientDropInv
     DEF ClientStep
<1>5. CASE UNCHANGED vars
  BY <1>5, StutterInv
<1>6. QED
  BY <1>1, <1>2, <1>3, <1>4, <1>5 DEF Next, ServerStep

\* The inductive invariant holds in every behaviour of the gate.
THEOREM Inductive == Spec => []IInv
<1>1. Init => IInv
  BY InitInv
<1>2. IInv /\ [Next]_vars => IInv'
  BY NextInv
<1>3. QED
  BY <1>1, <1>2, PTL DEF Spec

\* Every variable keeps its type: no message that the gate or an agent handles
\* is at a place where its coroutine cannot continue.
THEOREM TypeCorrect == Spec => []TypeOK
<1>1. IInv => TypeOK
  <2>1. GoodMsg \subseteq Msg
    BY DEF GoodMsg
  <2>2. ASSUME MailInv PROVE MailType
    <3>1. ASSUME NEW s \in Service PROVE mbox[s] \in Seq(Msg)
      BY <2>1, <2>2 DEF MailInv, Service
    <3>2. QED
      BY <2>1, <2>2, <3>1 DEF MailInv, MailType, Service
  <2>3. QED
    BY <2>2 DEF IInv, TypeOK
<1>2. QED
  BY <1>1, Inductive, PTL

\* An agent's user, and the client an account's record waits for, are sockets
\* that presented a good token of just that account (gamed.lua:39, 61, 91).
THEOREM IdentityHolds == Spec => []Identity
<1>1. IInv => Identity
  BY DEF IInv, UserInv, RecordInv, Granted, Identity
<1>2. QED
  BY <1>1, Inductive, PTL
=============================================================================
