------------------------------- MODULE Gamed -------------------------------
(***************************************************************************)
(* The game gateway of the server: service/gamed.lua with the two libraries*)
(* it is built on (gameserver.lua, gateserver.lua), and the part of        *)
(* service/agent.lua that takes a client over and gives it back            *)
(* (cmd_agent_open, cmd_agent_close, cmd_agent_other_login,                *)
(* cmd_agent_kick, kick_self, the client dispatch).                        *)
(*                                                                         *)
(* A Skynet service handles the messages of its mailbox one at a time, each*)
(* in a coroutine of its own.  A coroutine that calls another service      *)
(* yields, and the service goes on with its mailbox; the answer comes back *)
(* through the same mailbox.  The state of a coroutine is therefore a      *)
(* message record: "at" is the place where it continues, and the other     *)
(* fields are its local variables.  A suspended coroutine waits in exactly *)
(* one place: in a mailbox of this module, or in ext, while a service that *)
(* is not modelled here (logger, database, chat, login, launcher) works for*)
(* it.  syslog.debugf and dump call the logger, so each of them yields.    *)
(* Yields with nothing but a repeated nil check between them are one.      *)
(***************************************************************************)
EXTENDS Integers, Sequences, FiniteSets

CONSTANTS
    Fd,          \* the sockets clients open; Skynet does not reuse their ids
    Account,     \* the accounts of the players
    AccountOf,   \* the account a client logs in to
    BadToken,    \* the sockets whose token the login server refuses
    MaxAgent,    \* bound: agents that can be created
    InitPool,    \* config.pool: agents created when the gate opens
    MaxClient,   \* config.maxclient
    MaxClose,    \* bound: close events the socket thread posts for a socket
    MaxFrame,    \* bound: frames a client sends; the first is the login
    Dropping,    \* the clients that may drop their connection
    EarlyDrop,   \* whether they may drop it before they have an agent
    Speak,       \* what a client waits for before it sends its second frame
    Discipline,  \* how the clients of an account overlap (MayConnect, MayDrop)
    Nil          \* Lua's nil

Gate  == 0
Agent == 1 .. MaxAgent

ASSUME FdAssumption ==
    /\ Nil \notin Fd
    /\ AccountOf \in [Fd -> Account]
    /\ BadToken \subseteq Fd
    /\ Dropping \subseteq Fd
ASSUME BoundAssumption ==
    /\ MaxAgent \in Nat \ {0}
    /\ InitPool \in 0 .. MaxAgent
    /\ MaxClient \in Nat
    /\ MaxClose \in Nat
    /\ MaxFrame \in Nat
ASSUME ClientAssumption ==
    /\ EarlyDrop \in BOOLEAN
    /\ Speak \in {"eager", "greeted", "forwarded"}
    /\ Discipline \in {"free", "reconnect", "takeover"}

VARIABLES
    sock,            \* socket thread: state of each client's connection
    creq,            \* socketdriver.close requests it has not handled yet
    nclose,          \* close events posted so far for each socket
    nsent,           \* frames each client has sent
    mbox,            \* mailbox of the gate and of each agent
    ext,             \* coroutines suspended in a call to another service
    connection,      \* gateserver: sockets that have a connection object
    forwarded,       \* gateserver: connection[fd].agent
    nclient,         \* gateserver: number of clients
    pending_msg,     \* gameserver: frames that wait for the login to finish
    pool,            \* gamed: idle agents
    spawned,         \* agents created so far
    online_account,  \* gamed: the record of each account that is online
    user,            \* agent: its user, or Nil
    cmds,            \* agent: whether the handlers' commands are registered
    greeted,         \* sockets that were sent rpc_client_user_info
    served           \* frames of each client that reached its user's RPCs

sockVars  == <<sock, creq, nclose, nsent>>
gateVars  == <<connection, forwarded, nclient, pending_msg>>
gamedVars == <<pool, spawned, online_account>>
agentVars == <<user, cmds, greeted, served>>
vars == <<sockVars, mbox, ext, gateVars, gamedVars, agentVars>>

-----------------------------------------------------------------------------
(* Coroutines and records                                                  *)

Frame == 1 .. MaxFrame
Kind  == {"open", "data", "close"}          \* MSG.open, MSG.data, MSG.close
Nth   == 1 .. MaxFrame + MaxClose + 1
Task  == Kind \X Fd \X Nth
Opt(S) == S \cup {Nil}

AgentLabel ==
    {"agent_open", "opened", "register", "welcome",
     "agent_close", "closing", "close_finish", "gamed_closed",
     "other_login", "other_write", "agent_kick", "kick_self",
     "agent_ret", "my_dispatch"}
RetLabel  == {"other_ret", "kick_ret", "open_ret", "close_ret"}
GateLabel ==
    {"MSG.open", "MSG.data", "MSG.close", "auth", "refused", "assign",
     "gamed_kick", "kick_close", "gamed_close", "recycle", "close_fd"}
        \cup RetLabel
Label == AgentLabel \cup GateLabel

Msg == [at      : Label,
        task    : Task,         \* the event that started the coroutine
        callee  : Opt(Agent),   \* the agent it calls, or runs in
        agent   : Opt(Agent),   \* cmd_gamed_close: the agent to recycle
        nfd     : Opt(Fd),      \* forward_agent: the socket to hand over
        account : Opt(Account),
        rec     : Opt(Task),    \* login_handler: the record "info"
        kfd     : Opt(Fd),      \* cmd_gamed_kick: the socket to close
        ret     : Opt(RetLabel)]

Event(l, t) == [at |-> l, task |-> t, callee |-> Nil, agent |-> Nil,
                nfd |-> Nil, account |-> Nil, rec |-> Nil, kfd |-> Nil,
                ret |-> Nil]
SocketOf(m) == m.task[2]

User   == [fd : Fd, account : Account]
\* A table of online_account; id tells it from another one under its key.
Record == [agent : Agent, isKick : BOOLEAN, fd : Opt(Fd), id : Task]

\* Lua's nil is no number and no table.
ASSUME NilAssumption ==
    /\ Nil \notin Agent
    /\ Nil \notin User
    /\ Nil \notin Record
    /\ Nil \notin Seq(Nth)

-----------------------------------------------------------------------------
(* Mailboxes.  Each step of a service consumes the head of its mailbox and *)
(* then suspends the coroutine, sends it on to another service, or ends it.*)

At(s, l)  == mbox[s] # << >> /\ Head(mbox[s]).at = l
Cur(s)    == Head(mbox[s])
Home(m)   == IF m.at \in AgentLabel THEN m.callee ELSE Gate

Yield(s, m) ==
    /\ mbox' = [mbox EXCEPT ![s] = Tail(@)]
    /\ ext' = ext \cup {m}

Send(s, d, m) ==
    /\ mbox' = [mbox EXCEPT ![s] = Tail(@), ![d] = Append(@, m)]
    /\ UNCHANGED ext

End(s) ==
    /\ mbox' = [mbox EXCEPT ![s] = Tail(@)]
    /\ UNCHANGED ext

\* The answer of a service outside this module arrives.
Reply(m) ==
    /\ m \in ext
    /\ ext' = ext \ {m}
    /\ mbox' = [mbox EXCEPT ![Home(m)] = Append(@, m)]
    /\ UNCHANGED <<sockVars, gateVars, gamedVars, agentVars>>

\* The socket thread posts an event to the gate.
Post(m) ==
    /\ mbox' = [mbox EXCEPT ![Gate] = Append(@, m)]
    /\ UNCHANGED ext

-----------------------------------------------------------------------------
(* The clients and the socket thread (environment)                         *)

InFlight == ext \cup UNION {{mbox[s][i] : i \in DOMAIN mbox[s]} :
                                s \in DOMAIN mbox}

Active(fd) ==
    \/ sock[fd] = "open"
    \/ creq[fd] > 0
    \/ fd \in connection
    \/ \E m \in InFlight : SocketOf(m) = fd

Siblings(fd) ==
    {g \in Fd \ {fd} : AccountOf[g] = AccountOf[fd] /\ Active(g)}

\* The client has its agent and nothing about its socket is under way.
Settled(fd) ==
    /\ sock[fd] = "open"
    /\ creq[fd] = 0
    /\ forwarded[fd] # Nil
    /\ \A m \in InFlight : SocketOf(m) # fd

(* "free": a client connects whenever it likes.  Otherwise it does so when *)
(* nothing is left of its account's other clients, or while the only one is*)
(* settled: that one then stays until it is kicked ("takeover"), or may    *)
(* drop at the same time ("reconnect").                                    *)
MayConnect(fd) ==
    Discipline # "free" => \A g \in Siblings(fd) : Settled(g)

MayDrop(fd) ==
    /\ fd \in Dropping
    /\ EarlyDrop \/ forwarded[fd] # Nil
    /\ Discipline = "takeover" => Siblings(fd) = {}

ClientConnect(fd) ==
    /\ sock[fd] = "none"
    /\ MayConnect(fd)
    /\ sock' = [sock EXCEPT ![fd] = "open"]
    /\ Post(Event("MSG.open", <<"open", fd, 1>>))
    /\ UNCHANGED <<creq, nclose, nsent, gateVars, gamedVars, agentVars>>

MaySpeak(fd) ==
    \/ nsent[fd] = 0
    \/ Speak = "eager"
    \/ Speak = "greeted" /\ fd \in greeted
    \/ Speak = "forwarded" /\ forwarded[fd] # Nil

\* Data is read only after socketdriver.start, that is after MSG.open.
ClientSend(fd) ==
    /\ sock[fd] = "open" /\ fd \in connection
    /\ nsent[fd] < MaxFrame
    /\ MaySpeak(fd)
    /\ nsent' = [nsent EXCEPT ![fd] = @ + 1]
    /\ Post(Event("MSG.data", <<"data", fd, nsent[fd] + 1>>))
    /\ UNCHANGED <<sock, creq, nclose, gateVars, gamedVars, agentVars>>

PostClose(fd) ==
    /\ nclose[fd] < MaxClose
    /\ sock' = [sock EXCEPT ![fd] = "closed"]
    /\ nclose' = [nclose EXCEPT ![fd] = @ + 1]
    /\ Post(Event("MSG.close", <<"close", fd, nclose[fd] + 1>>))
    /\ UNCHANGED <<nsent, gateVars, gamedVars, agentVars>>

ClientDrop(fd) ==
    /\ MayDrop(fd)
    /\ sock[fd] = "open" /\ fd \in connection
    /\ PostClose(fd)
    /\ UNCHANGED creq

\* Each request to close a socket is answered by a close event, also when
\* the socket is closed already.
SocketClose(fd) ==
    /\ creq[fd] > 0
    /\ creq' = [creq EXCEPT ![fd] = @ - 1]
    /\ PostClose(fd)

RequestClose(fd) == creq' = [creq EXCEPT ![fd] = @ + 1]

-----------------------------------------------------------------------------
(* gateserver.lua and gameserver.lua                                       *)

\* MSG.open: a client too many is closed, any other gets a connection.
Refuse ==
    LET fd == SocketOf(Cur(Gate)) IN
    /\ At(Gate, "MSG.open")
    /\ nclient >= MaxClient
    /\ RequestClose(fd)
    /\ End(Gate)
    /\ UNCHANGED <<sock, nclose, nsent, gateVars, gamedVars, agentVars>>

Accept ==
    LET fd == SocketOf(Cur(Gate)) IN
    /\ At(Gate, "MSG.open")
    /\ nclient < MaxClient
    /\ connection' = connection \cup {fd}
    /\ nclient' = nclient + 1
    /\ End(Gate)
    /\ UNCHANGED <<forwarded, pending_msg, sockVars, gamedVars, agentVars>>

\* Mutant of Redirect: a debug line before the redirect, which yields.
RedirectAfterLog ==
    LET m == Cur(Gate)  a == forwarded[SocketOf(m)] IN
    /\ At(Gate, "MSG.data")
    /\ SocketOf(m) \in connection
    /\ a # Nil
    /\ Yield(Gate, [m EXCEPT !.at = "my_dispatch", !.callee = a])
    /\ UNCHANGED <<sockVars, gateVars, gamedVars, agentVars>>

\* MSG.data of a socket that has an agent: redirected to the agent.
Redirect ==
    LET m == Cur(Gate)  a == forwarded[SocketOf(m)] IN
    /\ At(Gate, "MSG.data")
    /\ SocketOf(m) \in connection
    /\ a # Nil
    /\ Send(Gate, a, [m EXCEPT !.at = "my_dispatch", !.callee = a])
    /\ UNCHANGED <<sockVars, gateVars, gamedVars, agentVars>>

\* handler.message while a login of the socket is under way.
Enqueue ==
    LET m == Cur(Gate)  fd == SocketOf(m) IN
    /\ At(Gate, "MSG.data")
    /\ fd \in connection /\ forwarded[fd] = Nil
    /\ pending_msg[fd] # Nil
    /\ pending_msg' = [pending_msg EXCEPT ![fd] = Append(@, m.task[3])]
    /\ End(Gate)
    /\ UNCHANGED <<connection, forwarded, nclient, sockVars, gamedVars,
                   agentVars>>

\* handler.message for the first frame: do_login asks the login server.
StartLogin ==
    LET m == Cur(Gate)  fd == SocketOf(m) IN
    /\ At(Gate, "MSG.data")
    /\ fd \in connection /\ forwarded[fd] = Nil
    /\ pending_msg[fd] = Nil
    /\ pending_msg' = [pending_msg EXCEPT ![fd] = << >>]
    /\ Yield(Gate, [m EXCEPT !.at = "auth"])
    /\ UNCHANGED <<connection, forwarded, nclient, sockVars, gamedVars,
                   agentVars>>

\* do_login failed: gateserver.close_client, which logs before it closes.
LoginRefused ==
    LET m == Cur(Gate)  fd == SocketOf(m) IN
    /\ At(Gate, "auth")
    /\ fd \in BadToken
    /\ IF fd \in connection
       THEN Yield(Gate, [m EXCEPT !.at = "refused"])
       ELSE End(Gate)
    /\ UNCHANGED <<sockVars, gateVars, gamedVars, agentVars>>

RefusedClose ==
    LET m == Cur(Gate) IN
    /\ At(Gate, "refused")
    /\ RequestClose(SocketOf(m))
    /\ End(Gate)
    /\ UNCHANGED <<sock, nclose, nsent, gateVars, gamedVars, agentVars>>

\* MSG.close logs, then close_fd looks the connection up.
MsgClose ==
    LET m == Cur(Gate) IN
    /\ At(Gate, "MSG.close")
    /\ Yield(Gate, [m EXCEPT !.at = "close_fd"])
    /\ UNCHANGED <<sockVars, gateVars, gamedVars, agentVars>>

\* Mutant of Forget: the client is not subtracted.
ForgetUncounted(fd) ==
    /\ connection' = connection \ {fd}
    /\ forwarded' = [forwarded EXCEPT ![fd] = Nil]
    /\ UNCHANGED <<nclient, pending_msg>>

Forget(fd) ==
    /\ connection' = connection \ {fd}
    /\ forwarded' = [forwarded EXCEPT ![fd] = Nil]
    /\ nclient' = nclient - 1
    /\ UNCHANGED pending_msg

CloseUnknown ==
    /\ At(Gate, "close_fd")
    /\ SocketOf(Cur(Gate)) \notin connection
    /\ End(Gate)
    /\ UNCHANGED <<sockVars, gateVars, gamedVars, agentVars>>

CloseWithoutAgent ==
    LET fd == SocketOf(Cur(Gate)) IN
    /\ At(Gate, "close_fd")
    /\ fd \in connection /\ forwarded[fd] = Nil
    /\ Forget(fd)
    /\ End(Gate)
    /\ UNCHANGED <<sockVars, gamedVars, agentVars>>

CloseWithAgent ==
    LET m == Cur(Gate)  fd == SocketOf(m)  a == forwarded[fd] IN
    /\ At(Gate, "close_fd")
    /\ fd \in connection /\ a # Nil
    /\ Send(Gate, a, [m EXCEPT !.at = "agent_close", !.callee = a,
                               !.ret = "close_ret"])
    /\ UNCHANGED <<sockVars, gateVars, gamedVars, agentVars>>

\* close_fd after cmd_agent_close has returned.
CloseDone ==
    /\ At(Gate, "close_ret")
    /\ Forget(SocketOf(Cur(Gate)))
    /\ End(Gate)
    /\ UNCHANGED <<sockVars, gamedVars, agentVars>>

-----------------------------------------------------------------------------
(* gamed.lua                                                               *)

\* forward_agent: take an idle agent, or create one, and yield.
ForwardAgent(m) ==
    \/ /\ pool # << >>
       /\ pool' = Tail(pool)
       /\ Yield(Gate, [m EXCEPT !.at = "assign", !.callee = Head(pool)])
       /\ UNCHANGED spawned
    \/ /\ pool = << >>
       /\ spawned < MaxAgent
       /\ spawned' = spawned + 1
       /\ Yield(Gate, [m EXCEPT !.at = "assign", !.callee = spawned + 1])
       /\ UNCHANGED pool

\* login_handler for an account that is not online.
LoginFresh ==
    LET m == Cur(Gate)  fd == SocketOf(m)  account == AccountOf[fd] IN
    /\ At(Gate, "auth")
    /\ fd \notin BadToken
    /\ online_account[account] = Nil
    /\ ForwardAgent([m EXCEPT !.nfd = fd, !.account = account])
    /\ UNCHANGED <<online_account, sockVars, gateVars, agentVars>>

\* Mutant of LoginTakeover: the verdict of the login server is not looked at.
TakeoverUnverified ==
    LET m == Cur(Gate)
        fd == SocketOf(m)
        account == AccountOf[fd]
        info == online_account[account]
    IN
    /\ At(Gate, "auth")
    /\ info # Nil
    /\ Send(Gate, info.agent,
            [m EXCEPT !.at = "other_login", !.callee = info.agent,
                      !.nfd = fd, !.account = account, !.rec = info.id,
                      !.ret = "other_ret"])
    /\ UNCHANGED <<sockVars, gateVars, gamedVars, agentVars>>

\* login_handler for an account that is: tell its agent, then kick it.
LoginTakeover ==
    LET m == Cur(Gate)
        fd == SocketOf(m)
        account == AccountOf[fd]
        info == online_account[account]
    IN
    /\ At(Gate, "auth")
    /\ fd \notin BadToken
    /\ info # Nil
    /\ Send(Gate, info.agent,
            [m EXCEPT !.at = "other_login", !.callee = info.agent,
                      !.nfd = fd, !.account = account, !.rec = info.id,
                      !.ret = "other_ret"])
    /\ UNCHANGED <<sockVars, gateVars, gamedVars, agentVars>>

OtherLoginDone ==
    LET m == Cur(Gate) IN
    /\ At(Gate, "other_ret")
    /\ Send(Gate, m.callee, [m EXCEPT !.at = "agent_kick",
                                      !.ret = "kick_ret"])
    /\ UNCHANGED <<sockVars, gateVars, gamedVars, agentVars>>

\* Mutant of Marked: isKick is not set.
MarkedWithoutKick(info, m) ==
    IF info # Nil /\ info.id = m.rec THEN [info EXCEPT !.fd = m.nfd] ELSE info

\* login_handler marks the table it read before its two calls: a table that
\* was replaced or dropped in the meantime is marked in vain.
Marked(info, m) ==
    IF info # Nil /\ info.id = m.rec
    THEN [info EXCEPT !.isKick = TRUE, !.fd = m.nfd]
    ELSE info

KickDone ==
    LET m == Cur(Gate) IN
    /\ At(Gate, "kick_ret")
    /\ online_account' = [online_account EXCEPT ![m.account] = Marked(@, m)]
    /\ End(Gate)
    /\ UNCHANGED <<pool, spawned, sockVars, gateVars, agentVars>>

\* Mutant of Assign: a record that is there already is kept.
AssignOnce ==
    LET m == Cur(Gate) IN
    /\ At(Gate, "assign")
    /\ online_account' = [online_account EXCEPT ![m.account] =
            IF @ # Nil THEN [@ EXCEPT !.isKick = FALSE, !.fd = Nil]
            ELSE [agent |-> m.callee, isKick |-> FALSE, fd |-> Nil,
                  id |-> m.task]]
    /\ Send(Gate, m.callee, [m EXCEPT !.at = "agent_open",
                                      !.ret = "open_ret"])
    /\ UNCHANGED <<pool, spawned, sockVars, gateVars, agentVars>>

\* forward_agent after its yield.
Assign ==
    LET m == Cur(Gate) IN
    /\ At(Gate, "assign")
    /\ online_account' = [online_account EXCEPT ![m.account] =
            [agent |-> m.callee, isKick |-> FALSE, fd |-> Nil,
             id |-> m.task]]
    /\ Send(Gate, m.callee, [m EXCEPT !.at = "agent_open",
                                      !.ret = "open_ret"])
    /\ UNCHANGED <<pool, spawned, sockVars, gateVars, agentVars>>

\* deal_pending_msg with frames waiting: the rawcall of the first one never
\* returns, because the client dispatch of an agent answers nothing.
PendingHang ==
    LET m == Cur(Gate)  fd == m.nfd IN
    /\ At(Gate, "open_ret")
    /\ pending_msg[fd] \notin {Nil, << >>}
    /\ Send(Gate, m.callee,
            [Event("my_dispatch", <<"data", fd, Head(pending_msg[fd])>>)
                EXCEPT !.callee = m.callee])
    /\ UNCHANGED <<sockVars, gateVars, gamedVars, agentVars>>

\* Mutants of Forward: inside cmd_gamed_close, the agent that was closed is
\* taken for the new one; or the old agent is not recycled.
ForwardOldAgent ==
    LET m == Cur(Gate)  fd == m.nfd IN
    /\ At(Gate, "open_ret")
    /\ pending_msg[fd] \in {Nil, << >>}
    /\ pending_msg' = [pending_msg EXCEPT ![fd] = Nil]
    /\ forwarded' = IF fd \in connection
                    THEN [forwarded EXCEPT ![fd] =
                            IF m.agent # Nil THEN m.agent ELSE m.callee]
                    ELSE forwarded
    /\ IF m.task[1] = "close"
       THEN Yield(Gate, [m EXCEPT !.at = "recycle"])
       ELSE End(Gate)
    /\ UNCHANGED <<connection, nclient, sockVars, gamedVars, agentVars>>

ForwardAndStop ==
    LET m == Cur(Gate)  fd == m.nfd IN
    /\ At(Gate, "open_ret")
    /\ pending_msg[fd] \in {Nil, << >>}
    /\ pending_msg' = [pending_msg EXCEPT ![fd] = Nil]
    /\ forwarded' = IF fd \in connection
                    THEN [forwarded EXCEPT ![fd] = m.callee]
                    ELSE forwarded
    /\ End(Gate)
    /\ UNCHANGED <<connection, nclient, sockVars, gamedVars, agentVars>>

\* deal_pending_msg with none, then gateserver.forward.  Inside
\* cmd_gamed_close the coroutine goes on to recycle the old agent.
Forward ==
    LET m == Cur(Gate)  fd == m.nfd IN
    /\ At(Gate, "open_ret")
    /\ pending_msg[fd] \in {Nil, << >>}
    /\ pending_msg' = [pending_msg EXCEPT ![fd] = Nil]
    /\ forwarded' = IF fd \in connection
                    THEN [forwarded EXCEPT ![fd] = m.callee]
                    ELSE forwarded
    /\ IF m.task[1] = "close"
       THEN Yield(Gate, [m EXCEPT !.at = "recycle"])
       ELSE End(Gate)
    /\ UNCHANGED <<connection, nclient, sockVars, gamedVars, agentVars>>

\* cmd_gamed_close of an account that another client waits for.
Kicked(info) == info # Nil /\ info.isKick

CloseForTakeover ==
    LET m == Cur(Gate)  info == online_account[m.account] IN
    /\ At(Gate, "gamed_close")
    /\ Kicked(info)
    /\ ForwardAgent([m EXCEPT !.agent = m.callee, !.nfd = info.fd])
    /\ UNCHANGED <<online_account, sockVars, gateVars, agentVars>>

CloseOffline ==
    LET m == Cur(Gate) IN
    /\ At(Gate, "gamed_close")
    /\ ~ Kicked(online_account[m.account])
    /\ online_account' = [online_account EXCEPT ![m.account] = Nil]
    /\ Yield(Gate, [m EXCEPT !.at = "recycle", !.agent = m.callee])
    /\ UNCHANGED <<pool, spawned, sockVars, gateVars, agentVars>>

Recycle ==
    LET m == Cur(Gate) IN
    /\ At(Gate, "recycle")
    /\ pool' = Append(pool, m.agent)
    /\ Send(Gate, m.agent, [m EXCEPT !.at = "gamed_closed",
                                     !.callee = m.agent])
    /\ UNCHANGED <<spawned, online_account, sockVars, gateVars, agentVars>>

\* cmd_gamed_kick: close_client logs before it asks for the close.
Kick ==
    LET m == Cur(Gate) IN
    /\ At(Gate, "gamed_kick")
    /\ IF m.kfd \in connection
       THEN Yield(Gate, [m EXCEPT !.at = "kick_close"])
       ELSE Send(Gate, m.callee, [m EXCEPT !.at = "agent_ret"])
    /\ UNCHANGED <<sockVars, gateVars, gamedVars, agentVars>>

KickClose ==
    LET m == Cur(Gate) IN
    /\ At(Gate, "kick_close")
    /\ RequestClose(m.kfd)
    /\ Send(Gate, m.callee, [m EXCEPT !.at = "agent_ret"])
    /\ UNCHANGED <<sock, nclose, nsent, gateVars, gamedVars, agentVars>>

-----------------------------------------------------------------------------
(* agent.lua                                                               *)

UserFd(a) == IF user[a] = Nil THEN Nil ELSE user[a].fd

\* kick_self; also what the dispatcher does when a handler raised an error.
KickSelf(a, m) ==
    Send(a, Gate, [m EXCEPT !.at = "gamed_kick", !.kfd = UserFd(a)])

\* A segment that reads the user raises an error when there is none.
Failed(a, l) ==
    /\ At(a, l)
    /\ user[a] = Nil
    /\ KickSelf(a, Cur(a))
    /\ UNCHANGED <<sockVars, gateVars, gamedVars, agentVars>>

\* A segment that changes nothing here and yields.
Pass(a, l, next) ==
    /\ At(a, l)
    /\ Yield(a, [Cur(a) EXCEPT !.at = next])
    /\ UNCHANGED <<sockVars, gateVars, gamedVars, agentVars>>

\* The coroutine answers its caller, the gate.
AgentReturn(a) ==
    LET m == Cur(a) IN
    /\ At(a, "agent_ret")
    /\ Send(a, Gate, [m EXCEPT !.at = m.ret])
    /\ UNCHANGED <<sockVars, gateVars, gamedVars, agentVars>>

\* cmd_agent_open: load the account, then set the user.
AgentOpen(a) == Pass(a, "agent_open", "opened")

\* Mutant of Opened: the user is built without its account.
OpenedAnonymous(a) ==
    LET m == Cur(a) IN
    /\ At(a, "opened")
    /\ user' = [user EXCEPT ![a] = [fd |-> m.nfd, account |-> Nil]]
    /\ Yield(a, [m EXCEPT !.at = "register"])
    /\ UNCHANGED <<cmds, greeted, served, sockVars, gateVars, gamedVars>>

Opened(a) ==
    LET m == Cur(a) IN
    /\ At(a, "opened")
    /\ user' = [user EXCEPT ![a] = [fd |-> m.nfd, account |-> m.account]]
    /\ Yield(a, [m EXCEPT !.at = "register"])
    /\ UNCHANGED <<cmds, greeted, served, sockVars, gateVars, gamedVars>>

\* handler:register; merge_safe refuses a command that is there already.
RegisterFailed(a) ==
    /\ At(a, "register")
    /\ user[a] = Nil \/ cmds[a]
    /\ KickSelf(a, Cur(a))
    /\ UNCHANGED <<sockVars, gateVars, gamedVars, agentVars>>

Register(a) ==
    /\ At(a, "register")
    /\ user[a] # Nil /\ ~ cmds[a]
    /\ cmds' = [cmds EXCEPT ![a] = TRUE]
    /\ Yield(a, [Cur(a) EXCEPT !.at = "welcome"])
    /\ UNCHANGED <<user, greeted, served, sockVars, gateVars, gamedVars>>

\* send_request of rpc_client_user_info.
WelcomeFailed(a) == Failed(a, "welcome")

Welcome(a) ==
    /\ At(a, "welcome")
    /\ user[a] # Nil
    /\ greeted' = greeted \cup {user[a].fd}
    /\ Yield(a, [Cur(a) EXCEPT !.at = "agent_ret"])
    /\ UNCHANGED <<user, cmds, served, sockVars, gateVars, gamedVars>>

\* cmd_agent_close: read the account, save, and drop the user.
AgentCloseFailed(a) == \E l \in {"agent_close", "closing", "close_finish"} :
                            Failed(a, l)

AgentClose(a) == user[a] # Nil /\ Pass(a, "agent_close", "closing")

Closing(a) ==
    /\ At(a, "closing")
    /\ user[a] # Nil
    /\ Yield(a, [Cur(a) EXCEPT !.at = "close_finish",
                               !.account = user[a].account])
    /\ UNCHANGED <<sockVars, gateVars, gamedVars, agentVars>>

\* Mutants of CloseFinish: the handlers are not unregistered; the gate is told
\* before the user is dropped (which GamedClosed is then too late for).
CloseFinishRegistered(a) ==
    /\ At(a, "close_finish")
    /\ user[a] # Nil
    /\ user' = [user EXCEPT ![a] = Nil]
    /\ Send(a, Gate, [Cur(a) EXCEPT !.at = "gamed_close"])
    /\ UNCHANGED <<cmds, greeted, served, sockVars, gateVars, gamedVars>>

CloseFinishEarly(a) ==
    /\ At(a, "close_finish")
    /\ user[a] # Nil
    /\ Send(a, Gate, [Cur(a) EXCEPT !.at = "gamed_close"])
    /\ UNCHANGED <<sockVars, gateVars, gamedVars, agentVars>>

CloseFinish(a) ==
    /\ At(a, "close_finish")
    /\ user[a] # Nil
    /\ user' = [user EXCEPT ![a] = Nil]
    /\ cmds' = [cmds EXCEPT ![a] = FALSE]
    /\ Send(a, Gate, [Cur(a) EXCEPT !.at = "gamed_close"])
    /\ UNCHANGED <<greeted, served, sockVars, gateVars, gamedVars>>

GamedClosed(a) ==
    /\ At(a, "gamed_closed")
    /\ Send(a, Gate, [Cur(a) EXCEPT !.at = "close_ret"])
    /\ UNCHANGED <<sockVars, gateVars, gamedVars, agentVars>>

\* cmd_agent_other_login: send_request of rpc_client_other_login.
OtherLoginFailed(a) == \E l \in {"other_login", "other_write"} : Failed(a, l)
OtherLogin(a) == user[a] # Nil /\ Pass(a, "other_login", "other_write")
OtherWrite(a) == user[a] # Nil /\ Pass(a, "other_write", "agent_ret")

\* cmd_agent_kick.
AgentKick(a) == Pass(a, "agent_kick", "kick_self")

AgentKickSelf(a) ==
    /\ At(a, "kick_self")
    /\ KickSelf(a, Cur(a))
    /\ UNCHANGED <<sockVars, gateVars, gamedVars, agentVars>>

\* my_dispatch looks the RPC up; RPC is nil when there is no user.
MyDispatch(a) ==
    LET m == Cur(a)  fd == SocketOf(m) IN
    /\ At(a, "my_dispatch")
    /\ served' = IF user[a] = Nil THEN served
                 ELSE [served EXCEPT ![fd] = Append(@, m.task[3])]
    /\ End(a)
    /\ UNCHANGED <<user, cmds, greeted, sockVars, gateVars, gamedVars>>

-----------------------------------------------------------------------------
Init ==
    /\ sock = [fd \in Fd |-> "none"]
    /\ creq = [fd \in Fd |-> 0]
    /\ nclose = [fd \in Fd |-> 0]
    /\ nsent = [fd \in Fd |-> 0]
    /\ mbox = [s \in {Gate} \cup Agent |-> << >>]
    /\ ext = {}
    /\ connection = {}
    /\ forwarded = [fd \in Fd |-> Nil]
    /\ nclient = 0
    /\ pending_msg = [fd \in Fd |-> Nil]
    /\ pool = [i \in 1 .. InitPool |-> i]
    /\ spawned = InitPool
    /\ online_account = [account \in Account |-> Nil]
    /\ user = [a \in Agent |-> Nil]
    /\ cmds = [a \in Agent |-> FALSE]
    /\ greeted = {}
    /\ served = [fd \in Fd |-> << >>]

GateStep ==
    \/ Refuse \/ Accept
    \/ Redirect \/ Enqueue \/ StartLogin
    \/ LoginRefused \/ RefusedClose \/ LoginFresh \/ LoginTakeover
    \/ OtherLoginDone \/ KickDone
    \/ Assign \/ PendingHang \/ Forward
    \/ MsgClose \/ CloseUnknown \/ CloseWithoutAgent \/ CloseWithAgent
    \/ CloseForTakeover \/ CloseOffline \/ Recycle \/ CloseDone
    \/ Kick \/ KickClose

AgentStep(a) ==
    \/ AgentOpen(a) \/ Opened(a) \/ Register(a) \/ RegisterFailed(a)
    \/ Welcome(a) \/ WelcomeFailed(a)
    \/ AgentClose(a) \/ Closing(a) \/ CloseFinish(a) \/ AgentCloseFailed(a)
    \/ GamedClosed(a)
    \/ OtherLogin(a) \/ OtherWrite(a) \/ OtherLoginFailed(a)
    \/ AgentKick(a) \/ AgentKickSelf(a)
    \/ AgentReturn(a) \/ MyDispatch(a)

ClientStep(fd) == ClientConnect(fd) \/ ClientSend(fd) \/ ClientDrop(fd)

ServerStep ==
    \/ GateStep
    \/ \E a \in Agent : AgentStep(a)
    \/ \E m \in ext : Reply(m)
    \/ \E fd \in Fd : SocketClose(fd)

Next == ServerStep \/ \E fd \in Fd : ClientStep(fd)

Spec == Init /\ [][Next]_vars

(* The server never stops for good while it has something to do: Skynet's  *)
(* worker threads serve every mailbox that is not empty, the other services*)
(* answer, and the socket thread runs.  Nothing is assumed of the clients. *)
FairSpec == Spec /\ WF_vars(ServerStep)

-----------------------------------------------------------------------------
(* What must hold                                                          *)

SockType ==
    /\ sock \in [Fd -> {"none", "open", "closed"}]
    /\ creq \in [Fd -> Nat]
    /\ nclose \in [Fd -> 0 .. MaxClose]
    /\ nsent \in [Fd -> 0 .. MaxFrame]
MailType ==
    /\ mbox \in [{Gate} \cup Agent -> Seq(Msg)]
    /\ ext \subseteq Msg
GateType ==
    /\ connection \subseteq Fd
    /\ forwarded \in [Fd -> Opt(Agent)]
    /\ nclient \in Int
    /\ pending_msg \in [Fd -> Opt(Seq(Nth))]
GamedType ==
    /\ pool \in Seq(Agent)
    /\ spawned \in 0 .. MaxAgent
    /\ online_account \in [Account -> Opt(Record)]
AgentType ==
    /\ user \in [Agent -> Opt(User)]
    /\ cmds \in [Agent -> BOOLEAN]
    /\ greeted \subseteq Fd
    /\ served \in [Fd -> Seq(Nth)]

\* Every variable has its type; in particular every coroutine in flight is at
\* a place of the program, with its local variables in range.
TypeOK == SockType /\ MailType /\ GateType /\ GamedType /\ AgentType

\* Whatever the clients do, an agent only ever holds a socket for the account
\* that the login server named for it, and only a socket that presented a good
\* token: no interleaving of kicks, closes and logins mixes two sockets up
\* (login_handler and cmd_gamed_close pass fd and account on separately).
Identity ==
    /\ \A a \in Agent : user[a] # Nil =>
            /\ user[a].account = AccountOf[user[a].fd]
            /\ user[a].fd \notin BadToken
    /\ \A account \in Account :
            LET info == online_account[account] IN
            Kicked(info) =>
                /\ AccountOf[info.fd] = account
                /\ info.fd \notin BadToken

Opening(m) == m.at \in {"assign", "agent_open", "opened"}

\* An agent in the pool (gamed.lua:75) is really idle: it is there once, has no
\* user and no registered commands, no account's record names it, no live
\* socket is forwarded to it and no login is about to open it.
PoolIdle ==
    /\ \A i, j \in DOMAIN pool : pool[i] = pool[j] => i = j
    /\ \A i \in DOMAIN pool :
        /\ user[pool[i]] = Nil /\ ~ cmds[pool[i]]
        /\ \A account \in Account : online_account[account] # Nil =>
                online_account[account].agent # pool[i]
        /\ \A fd \in Fd : forwarded[fd] = pool[i] => sock[fd] = "closed"
        /\ \A m \in InFlight : Opening(m) => m.callee # pool[i]

\* nclient, on which MSG.open decides to refuse a client, counts the
\* connections: close_fd runs its last part once for each of them.
ClientCount == nclient = Cardinality(connection) /\ nclient <= MaxClient

Holds(a, account) ==
    \/ user[a] # Nil /\ user[a].account = account
    \/ \E m \in InFlight : /\ m.at \in {"agent_open", "opened"}
                           /\ m.callee = a /\ m.account = account

\* Two agents never hold one account: its old agent is closed before its new
\* one is opened (gateserver.lua:96), so that they never save over each other.
CloseBeforeOpen ==
    \A a, b \in Agent, account \in Account :
        Holds(a, account) /\ Holds(b, account) => a = b

\* The record of an account names the agent that has its user, so that the
\* next login of the account finds the agent it has to kick (gamed.lua:92).
OwnerRecorded ==
    \A a \in Agent : user[a] # Nil =>
        LET info == online_account[user[a].account] IN
        info # Nil /\ info.agent = a

\* cmd_agent_kick finds the agent with the account it is meant for, or with no
\* user, although login_handler goes on with the agent it looked up before its
\* first call (gamed.lua:93-100): kick_self closes whatever the agent has then.
KickSameAccount ==
    \A a \in Agent :
        At(a, "agent_kick") /\ user[a] # Nil =>
            user[a].account = Cur(a).account

\* What an agent has served of a client is a prefix of what the client sent
\* after its login frame: redirecting frames neither reorders nor drops any.
FramesInOrder ==
    \A fd \in Fd : served[fd] = [i \in 1 .. Len(served[fd]) |-> i + 1]

\* A frame is served for the user who sent it, never for the next user of the
\* same agent (gateserver.lua:108 looks the agent up, agent.lua:110 the RPC).
NoMisdelivery ==
    [][\A fd \in Fd : served'[fd] # served[fd] =>
            \E a \in Agent : /\ UserFd(a) = fd
                             /\ At(a, "my_dispatch")
                             /\ SocketOf(Cur(a)) = fd]_vars

\* A login with a good token gets its agent as long as its client stays: the
\* promise of gamed.lua:100 that a repeated login is handled once the socket
\* of the client before it is closed.
LoginServed ==
    \A fd \in Fd \ BadToken :
        pending_msg[fd] # Nil ~> forwarded[fd] # Nil \/ fd \notin connection

\* An agent whose client is gone comes back to the pool.
AgentsReturn ==
    \A a \in Agent :
        user[a] # Nil /\ sock[user[a].fd] = "closed"
            ~> \E i \in DOMAIN pool : pool[i] = a

\* A frame queued during the login is served after it (gameserver.lua:27, 75).
PendingServed ==
    \A fd \in Fd, k \in Frame :
        (pending_msg[fd] # Nil /\ \E i \in DOMAIN pending_msg[fd] :
                                        pending_msg[fd][i] = k)
            ~> (\E i \in DOMAIN served[fd] : served[fd][i] = k)
                    \/ fd \notin connection
=============================================================================
