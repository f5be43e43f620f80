-------------------------------- MODULE Chat --------------------------------
(***************************************************************************)
(* World chat: service/chat_server.lua, the chat handler of the agents     *)
(* (lualib/agent/chat_handler.lua) and what the agent's open, close and    *)
(* client dispatch contribute to it (service/agent.lua).                   *)
(*                                                                         *)
(* A service takes the messages of its mailbox in order, and a handler that*)
(* calls another service goes on when the answer comes back through its own*)
(* mailbox.  syslog.debugf and dump are calls to the logger, which answers *)
(* in order: a coroutine that writes a line stays behind the lines written *)
(* before it.  The rights and wrongs of this module hang on that order, so *)
(* each line of the log is a round trip here.  Answers of the database, in *)
(* any order, are taken from ext.                                          *)
(*                                                                         *)
(* The gateway is reduced to what it promises: an account has one agent at *)
(* a time, closed before the next one is opened (see Gamed).               *)
(***************************************************************************)
EXTENDS Integers, Sequences, FiniteSets

CONSTANTS
    MaxAccount,  \* accounts are numbered in the order of their first login
    Agent,
    InitPool,    \* the agents in the pool, in order
    MaxLogin,    \* bound: logins
    MaxChat,     \* bound: chat messages
    Nil          \* Lua's nil

Account == 1 .. MaxAccount

ASSUME ConstantAssumption ==
    /\ MaxAccount \in Nat
    /\ InitPool \in Seq(Agent)
    /\ \A i, j \in 1 .. Len(InitPool) : InitPool[i] = InitPool[j] => i = j
    /\ MaxLogin \in Nat
    /\ MaxChat \in Nat
    /\ Nil \notin Nat \cup Agent
    /\ Agent \cap {"chat", "log", "gate"} = {}

VARIABLES
    mbox,        \* mailboxes of the agents, the chat server, logger, gateway
    ext,         \* coroutines that wait for the database
    pool,        \* gateway: idle agents
    slot,        \* gateway: what it uses the other agents for
    nlogin,      \* logins so far
    known,       \* accounts that have logged in
    user,        \* agent: the account it serves (user, user_fd), or Nil
    cmds,        \* agent: whether the commands of chat_handler are registered
    chatUser,    \* chat_handler: its own variable user, which is never cleared
    onlineTab,   \* chat_server: the agent of each account that is online
    cast,        \* the broadcast of each chat message: a coroutine of the server
    received     \* history: how often an account's client was sent a message

gateVars  == <<pool, slot, nlogin, known>>
agentVars == <<user, cmds, chatUser>>
chatVars  == <<onlineTab, cast, received>>
vars == <<mbox, ext, gateVars, agentVars, chatVars>>

Opt(S)  == S \cup {Nil}
Service == Agent \cup {"chat", "log", "gate"}
Chat    == 1 .. MaxChat
Idle    == [account |-> Nil, at |-> "idle"]

\* A broadcast that has not begun.  "from" is the agent that waits for it; todo
\* what pairs has still to visit; cur the key it visits; disturbed whether a key
\* was inserted meanwhile; lost whether pairs cannot find cur any more.  author
\* and steady are history: who wrote the message, and who has been online since
\* the broadcast began.
NoCast == [at |-> "none", author |-> Nil, account |-> Nil, from |-> Nil,
           todo |-> {}, cur |-> Nil, disturbed |-> FALSE, lost |-> FALSE,
           steady |-> {}]

Init ==
    /\ mbox = [s \in Service |-> << >>]
    /\ ext = {}
    /\ pool = InitPool
    /\ slot = [a \in Agent |-> Idle]
    /\ nlogin = 0
    /\ known = 0
    /\ user = [a \in Agent |-> Nil]
    /\ cmds = [a \in Agent |-> FALSE]
    /\ chatUser = [a \in Agent |-> Nil]
    /\ onlineTab = [account \in Account |-> Nil]
    /\ cast = [n \in Chat |-> NoCast]
    /\ received = [n \in Chat |-> [account \in Account |-> 0]]

-----------------------------------------------------------------------------
(* Mailboxes                                                               *)

\* A coroutine: the place "at" where it goes on, its agent and account, and
\* the chat message it is about (0: none).
Co(at, a, account, n) == [at |-> at, agent |-> a, account |-> account, n |-> n]

At(s, label) == mbox[s] # << >> /\ Head(mbox[s]).at = label
Cur(s) == Head(mbox[s])
Taken(s) == [mbox EXCEPT ![s] = Tail(@)]
Done(s) == mbox' = Taken(s)
\* The coroutine at the head of s goes on at "at", in the mailbox of "to".
Send(s, to, at) ==
    mbox' = [Taken(s) EXCEPT ![to] = Append(@, [Cur(s) EXCEPT !.at = at])]
\* It writes a line of log, and goes on at "at" after the logger's answer.
Log(s, at) == Send(s, "log", at)

Home(m) == CASE m.at = "begin" -> "chat"
             [] m.at = "recycle" -> "gate"
             [] OTHER -> m.agent

Logger ==
    /\ mbox["log"] # << >>
    /\ Send("log", Home(Cur("log")), Cur("log").at)
    /\ UNCHANGED <<ext, gateVars, agentVars, chatVars>>

Load(a, at) ==
    /\ Done(a)
    /\ ext' = ext \cup {[Cur(a) EXCEPT !.at = at]}

Database ==
    \E m \in ext :
        /\ ext' = ext \ {m}
        /\ mbox' = [mbox EXCEPT ![m.agent] = Append(@, m)]
        /\ UNCHANGED <<gateVars, agentVars, chatVars>>

-----------------------------------------------------------------------------
(* The gateway and its clients                                             *)

Post(s, m) == mbox' = [mbox EXCEPT ![s] = Append(@, m)]

\* forward_agent: the first agent of the pool is opened for an account that has
\* none.
Login(account) ==
    /\ nlogin < MaxLogin
    /\ account <= known + 1
    /\ pool # << >>
    /\ \A b \in Agent : slot[b].account # account
    /\ LET a == Head(pool) IN
        /\ slot' = [slot EXCEPT ![a] = [account |-> account, at |-> "login"]]
        /\ Post(a, Co("agent_open", a, account, 0))
    /\ pool' = Tail(pool)
    /\ nlogin' = nlogin + 1
    /\ known' = IF account > known THEN account ELSE known
    /\ UNCHANGED <<ext, agentVars, chatVars>>

\* The client of an agent sends a chat message.
ClientChat(a, n) ==
    /\ slot[a].at = "forwarded"
    /\ cast[n] = NoCast
    /\ \A k \in 1 .. n - 1 : cast[k] # NoCast
    /\ cast' = [cast EXCEPT ![n].at = "sent", ![n].author = slot[a].account]
    /\ Post(a, Co("rpc", a, Nil, n))
    /\ UNCHANGED <<ext, gateVars, agentVars, onlineTab, received>>

\* It leaves, and the gateway closes the agent.
Leave(a) ==
    /\ slot[a].at = "forwarded"
    /\ slot' = [slot EXCEPT ![a].at = "closed"]
    /\ cast' = [n \in Chat |-> [cast[n] EXCEPT !.steady = @ \ {slot[a].account}]]
    /\ Post(a, Co("agent_close", a, slot[a].account, 0))
    /\ UNCHANGED <<ext, pool, nlogin, known, agentVars, onlineTab, received>>

\* cmd_gamed_close writes a line before the agent is back in the pool.
GamedClose ==
    /\ At("gate", "gamed_close")
    /\ Log("gate", "recycle")
    /\ UNCHANGED <<ext, gateVars, agentVars, chatVars>>

Recycle ==
    /\ At("gate", "recycle")
    /\ LET a == Cur("gate").agent IN
        /\ slot' = [slot EXCEPT ![a] = Idle]
        /\ pool' = Append(pool, a)
    /\ Done("gate")
    /\ UNCHANGED <<ext, nlogin, known, agentVars, chatVars>>

-----------------------------------------------------------------------------
(* The agent: open and close                                               *)

AgentOpen(a) ==
    /\ At(a, "agent_open")
    /\ Load(a, "loaded")
    /\ UNCHANGED <<gateVars, agentVars, chatVars>>

Loaded(a) ==
    /\ At(a, "loaded")
    /\ Log(a, "opened")
    /\ UNCHANGED <<ext, gateVars, agentVars, chatVars>>

Opened(a) ==
    /\ At(a, "opened")
    /\ user' = [user EXCEPT ![a] = Cur(a).account]
    /\ Log(a, "register")
    /\ UNCHANGED <<ext, gateVars, cmds, chatUser, chatVars>>

\* chat_handler:register, then cmd_online.
Register(a) ==
    /\ At(a, "register")
    /\ cmds' = [cmds EXCEPT ![a] = TRUE]
    /\ chatUser' = [chatUser EXCEPT ![a] = user[a]]
    /\ Send(a, "chat", "online")
    /\ UNCHANGED <<ext, gateVars, user, chatVars>>

Welcome(a) ==
    /\ At(a, "welcome")
    /\ slot' = [slot EXCEPT ![a].at = "forwarded"]
    /\ Done(a)
    /\ UNCHANGED <<ext, pool, nlogin, known, agentVars, chatVars>>

AgentClose(a) ==
    /\ At(a, "agent_close")
    /\ Log(a, "closing")
    /\ UNCHANGED <<ext, gateVars, agentVars, chatVars>>

Closing(a) ==
    /\ At(a, "closing")
    /\ Load(a, "saved")
    /\ UNCHANGED <<gateVars, agentVars, chatVars>>

\* Mutant: the user is dropped before the chat server is told.
SavedForgetful(a) ==
    /\ At(a, "saved")
    /\ user' = [user EXCEPT ![a] = Nil]
    /\ cmds' = [cmds EXCEPT ![a] = FALSE]
    /\ Send(a, "chat", "offline")
    /\ UNCHANGED <<ext, gateVars, chatUser, chatVars>>

Saved(a) ==
    /\ At(a, "saved")
    /\ Send(a, "chat", "offline")
    /\ UNCHANGED <<ext, gateVars, agentVars, chatVars>>

\* The handlers are unregistered and the user is dropped, but not chatUser.
CloseFinish(a) ==
    /\ At(a, "close_finish")
    /\ user' = [user EXCEPT ![a] = Nil]
    /\ cmds' = [cmds EXCEPT ![a] = FALSE]
    /\ Send(a, "gate", "gamed_close")
    /\ UNCHANGED <<ext, gateVars, chatUser, chatVars>>

-----------------------------------------------------------------------------
(* The chat server                                                         *)

\* Inserting a key during a traversal leaves its rest undefined: it may go on
\* with any keys, and it fails when the key it has reached was removed and the
\* table was rebuilt without it.
Disturbed(c, todo, lost) ==
    [c EXCEPT !.todo = todo, !.disturbed = TRUE, !.lost = lost]

Traversed == {n \in Chat : cast[n].at = "called"}

Insert(tab) ==
    \E todo \in [Traversed -> SUBSET {b \in Account : tab[b] # Nil}],
       lost \in [Traversed -> BOOLEAN] :
        /\ \A n \in Traversed :
            IF tab[cast[n].cur] # Nil THEN ~ lost[n] ELSE cast[n].lost => lost[n]
        /\ cast' = [n \in Chat |-> IF n \in Traversed
                                    THEN Disturbed(cast[n], todo[n], lost[n])
                                    ELSE cast[n]]

Online ==
    /\ At("chat", "online")
    /\ LET m == Cur("chat")
           tab == [onlineTab EXCEPT ![m.account] = m.agent]
       IN  /\ onlineTab' = tab
           /\ IF onlineTab[m.account] = Nil THEN Insert(tab) ELSE UNCHANGED cast
           /\ Send("chat", m.agent, "welcome")
    /\ UNCHANGED <<ext, gateVars, agentVars, received>>

\* The assertion that the account is online fails without effect.
Offline ==
    /\ At("chat", "offline")
    /\ LET m == Cur("chat") IN
        /\ onlineTab' = [onlineTab EXCEPT ![m.account] = Nil]
        /\ Send("chat", m.agent, "close_finish")
    /\ UNCHANGED <<ext, gateVars, agentVars, cast, received>>

\* Mutant: the parameters source and account are swapped.
BroadcastSwapped ==
    /\ At("chat", "broadcast")
    /\ LET m == Cur("chat") IN
        cast' = [cast EXCEPT ![m.n].account = m.agent, ![m.n].from = m.account]
    /\ Log("chat", "begin")
    /\ UNCHANGED <<ext, gateVars, agentVars, onlineTab, received>>


Broadcast ==
    /\ At("chat", "broadcast")
    /\ LET m == Cur("chat") IN
        cast' = [cast EXCEPT ![m.n].account = m.account, ![m.n].from = m.agent]
    /\ Log("chat", "begin")
    /\ UNCHANGED <<ext, gateVars, agentVars, onlineTab, received>>

\* The answer to rpc_server_world_chat, when the broadcast is over or failed.
End(n, at) ==
    /\ mbox' = [Taken("chat") EXCEPT ![cast[n].from] =
                    Append(@, Co("rpc_ret", cast[n].from, Nil, n))]
    /\ cast' = [cast EXCEPT ![n].at = at]
    /\ UNCHANGED <<ext, gateVars, agentVars, onlineTab, received>>

\* What a traversal of table t has left, from a coroutine in state c: next
\* skips the keys that were removed.
Rest(c) == {b \in c.todo : onlineTab[b] # Nil}

\* The next entry is read, and its agent is called.
Visit(n, c, b) ==
    /\ cast' = [cast EXCEPT ![n] = [c EXCEPT !.at = "called", !.cur = b,
                                             !.todo = Rest(c) \ {b}]]
    /\ mbox' = [Taken("chat") EXCEPT ![onlineTab[b]] =
                    Append(@, Co("chat_world", onlineTab[b], b, n))]
    /\ UNCHANGED <<ext, gateVars, agentVars, onlineTab, received>>

BeginFailed ==
    /\ At("chat", "begin")
    /\ onlineTab[cast[Cur("chat").n].account] = Nil
    /\ End(Cur("chat").n, "failed")

\* Mutant: the traversal starts after the sender's own entry.
BeginAfter ==
    /\ At("chat", "begin")
    /\ LET n == Cur("chat").n
           all == {b \in Account : onlineTab[b] # Nil}
           c == [cast[n] EXCEPT
                    !.todo = all \ {cast[n].account},
                    !.steady = {b \in all : \A a \in Agent :
                                  slot[a].account = b => slot[a].at # "closed"}]
       IN  /\ onlineTab[cast[n].account] # Nil
           /\ \E b \in c.todo : Visit(n, c, b)


Begin ==
    /\ At("chat", "begin")
    /\ LET n == Cur("chat").n
           all == {b \in Account : onlineTab[b] # Nil}
           c == [cast[n] EXCEPT
                    !.todo = all,
                    !.steady = {b \in all : \A a \in Agent :
                                  slot[a].account = b => slot[a].at # "closed"}]
       IN  /\ onlineTab[cast[n].account] # Nil
           /\ \E b \in all : Visit(n, c, b)

NextKey ==
    /\ At("chat", "next")
    /\ LET n == Cur("chat").n IN
        /\ ~ cast[n].lost
        /\ \E b \in Rest(cast[n]) : Visit(n, cast[n], b)

NextEnd ==
    /\ At("chat", "next")
    /\ LET n == Cur("chat").n IN
        /\ ~ cast[n].lost
        /\ Rest(cast[n]) = {}
        /\ End(n, "done")

\* "invalid key to 'next'"
NextFailed ==
    /\ At("chat", "next")
    /\ cast[Cur("chat").n].lost
    /\ End(Cur("chat").n, "failed")

-----------------------------------------------------------------------------
(* The agent: chat                                                         *)

\* A frame of the client: my_dispatch writes two lines, the RPC a third one.
Rpc(a) ==
    /\ At(a, "rpc")
    /\ Log(a, "rpc_dump")
    /\ UNCHANGED <<ext, gateVars, agentVars, chatVars>>

\* Mutant: dump writes a line for each entry of the table.
RpcDumpLines(a) ==
    /\ At(a, "rpc_dump")
    /\ Log(a, "rpc_dump") \/ Log(a, "rpc_chat")
    /\ UNCHANGED <<ext, gateVars, agentVars, chatVars>>

RpcDump(a) ==
    /\ At(a, "rpc_dump")
    /\ Log(a, "rpc_chat")
    /\ UNCHANGED <<ext, gateVars, agentVars, chatVars>>

RpcWorldChat(a) ==
    /\ At(a, "rpc_chat")
    /\ Log(a, "rpc_send")
    /\ UNCHANGED <<ext, gateVars, agentVars, chatVars>>

\* The account is read from the handler's user now, after those lines.
RpcSend(a) ==
    /\ At(a, "rpc_send")
    /\ mbox' = [Taken(a) EXCEPT !["chat"] =
                    Append(@, Co("broadcast", a, chatUser[a], Cur(a).n))]
    /\ UNCHANGED <<ext, gateVars, agentVars, chatVars>>

RpcRet(a) ==
    /\ At(a, "rpc_ret")
    /\ Done(a)
    /\ UNCHANGED <<ext, gateVars, agentVars, chatVars>>

\* cmd_chat_world; a command that is not registered is answered all the same.
Answer(a) == Send(a, "chat", "next")

ChatWorld(a) ==
    /\ At(a, "chat_world")
    /\ IF cmds[a] THEN Log(a, "request") ELSE Answer(a)
    /\ UNCHANGED <<ext, gateVars, agentVars, chatVars>>

\* send_request asserts user_fd, writes a line, and reads user_fd again.
Request(a) ==
    /\ At(a, "request") /\ user[a] # Nil
    /\ Log(a, "write")
    /\ UNCHANGED <<ext, gateVars, agentVars, chatVars>>

\* Mutant: more lines are written between the assertion and the socket's use.
WriteLines(a) ==
    /\ At(a, "write")
    /\ \/ /\ Log(a, "write")
          /\ UNCHANGED received
       \/ /\ user[a] # Nil
          /\ received' = [received EXCEPT ![Cur(a).n][user[a]] = @ + 1]
          /\ Answer(a)
    /\ UNCHANGED <<ext, gateVars, agentVars, onlineTab, cast>>

Write(a) ==
    /\ At(a, "write") /\ user[a] # Nil
    /\ received' = [received EXCEPT ![Cur(a).n][user[a]] = @ + 1]
    /\ Answer(a)
    /\ UNCHANGED <<ext, gateVars, agentVars, onlineTab, cast>>

\* Mutant: an error is not answered.
RequestFailedMute(a) ==
    /\ At(a, "request") \/ At(a, "write")
    /\ user[a] = Nil
    /\ Done(a)
    /\ UNCHANGED <<ext, gateVars, agentVars, chatVars>>

\* There is no user any more: an error, kick_self without a socket (which the
\* gateway ignores), and an answer.
RequestFailed(a) ==
    /\ At(a, "request") \/ At(a, "write")
    /\ user[a] = Nil
    /\ Answer(a)
    /\ UNCHANGED <<ext, gateVars, agentVars, chatVars>>

-----------------------------------------------------------------------------
(* The specification                                                       *)

AgentStep(a) ==
    \/ AgentOpen(a) \/ Loaded(a) \/ Opened(a) \/ Register(a) \/ Welcome(a)
    \/ AgentClose(a) \/ Closing(a) \/ Saved(a) \/ CloseFinish(a)
    \/ Rpc(a) \/ RpcDump(a) \/ RpcWorldChat(a) \/ RpcSend(a) \/ RpcRet(a)
    \/ ChatWorld(a) \/ Request(a) \/ Write(a) \/ RequestFailed(a)

ChatStep ==
    \/ Online \/ Offline \/ Broadcast \/ BeginFailed \/ Begin
    \/ NextKey \/ NextEnd \/ NextFailed

ServerStep ==
    \/ Logger \/ Database \/ GamedClose \/ Recycle
    \/ ChatStep
    \/ \E a \in Agent : AgentStep(a)

ClientStep ==
    \/ \E account \in Account : Login(account)
    \/ \E a \in Agent : \/ \E n \in Chat : ClientChat(a, n)
                       \/ Leave(a)

Next == ServerStep \/ ClientStep

Spec == Init /\ [][Next]_vars
FairSpec == Spec /\ WF_vars(ServerStep)

-----------------------------------------------------------------------------
(* Properties                                                              *)

Label == {"agent_open", "loaded", "opened", "register", "online", "welcome",
          "agent_close", "closing", "saved", "offline", "close_finish",
          "gamed_close", "recycle", "rpc", "rpc_dump", "rpc_chat", "rpc_send",
          "broadcast", "begin", "next", "rpc_ret",
          "chat_world", "request", "write"}
Coroutine == [at : Label, agent : Agent, account : Opt(Account), n : 0 .. MaxChat]

\* The variables keep their types.
TypeOK ==
    /\ mbox \in [Service -> Seq(Coroutine)]
    /\ ext \subseteq Coroutine
    /\ pool \in Seq(Agent)
    /\ slot \in [Agent -> [account : Opt(Account),
                           at : {"idle", "login", "forwarded", "closed"}]]
    /\ nlogin \in 0 .. MaxLogin /\ known \in 0 .. MaxAccount
    /\ user \in [Agent -> Opt(Account)]
    /\ cmds \in [Agent -> BOOLEAN]
    /\ chatUser \in [Agent -> Opt(Account)]
    /\ onlineTab \in [Account -> Opt(Agent)]
    /\ cast \in [Chat -> [at : {"none", "sent", "called", "done", "failed"},
                          author : Opt(Account), account : Opt(Account),
                          from : Opt(Agent), todo : SUBSET Account,
                          cur : Opt(Account), disturbed : BOOLEAN,
                          lost : BOOLEAN, steady : SUBSET Account]]
    /\ received \in [Chat -> [Account -> Nat]]

\* An account that is online in the table is served by the agent the table
\* names, whose chat commands are registered (agent.lua:175, 190, 232, 243).
TableExact ==
    \A account \in Account : onlineTab[account] # Nil =>
        LET a == onlineTab[account] IN user[a] = account /\ cmds[a]

\* A message goes out in the name of the account whose client wrote it, though
\* three lines of log lie between the frame and the reading of the account
\* (agent.lua:111, chat_handler.lua:24): an agent is not reopened as fast.
AuthorNamed ==
    \A n \in Chat : cast[n].account # Nil => cast[n].account = cast[n].author

\* A message reaches the account it was sent to, although user_fd is read two
\* lines of log later and the agent may be recycled (agent.lua:34-36).
RightUser ==
    [][\A n \in Chat, account \in Account :
          received'[n][account] # received[n][account] =>
              \E a \in Agent : At(a, "write") /\ Cur(a).n = n
                                /\ Cur(a).account = account]_vars

\* A broadcast that no login disturbed has reached each account that was online
\* from its beginning to its end exactly once, and no account twice.
Reached ==
    \A n \in Chat : cast[n].at = "done" /\ ~ cast[n].disturbed =>
        /\ \A account \in cast[n].steady : received[n][account] = 1
        /\ \A account \in Account : received[n][account] <= 1

\* A chat message is dealt with to its end, whoever leaves meanwhile: the chain
\* of calls from the sender over the chat server to each receiver ends.
BroadcastEnds ==
    \A n \in Chat : cast[n].at = "sent" ~> cast[n].at \in {"done", "failed"}
=============================================================================
