---------------------------- MODULE LoginServer ----------------------------
(***************************************************************************)
(* The login server: service/login_server.lua (the master), its slaves     *)
(* (service/login_slave.lua), and the account part of the database         *)
(* (lualib/db/account.lua, one redis request at a time).                   *)
(*                                                                         *)
(* A client's connection is served by one coroutine, cmd_slave_auth, in one*)
(* slave.  It yields at every read from the socket and at every call; its  *)
(* calls run in the master, in another slave and in the database, and      *)
(* coroutines of other connections run in between.  auth[fd] is the state  *)
(* of the coroutine: "at" is the segment it runs next, wherever that is,   *)
(* and the other fields are its local variables.  Messages that cross each *)
(* other may arrive in any order.                                          *)
(*                                                                         *)
(* Random numbers and identifiers are fresh values named by who draws them:*)
(* the session key of connection fd is fd, the account that it creates is  *)
(* fd, and the challenges and tokens of a session are numbered.  What is   *)
(* encrypted with a key is the pair of the key and the text: decrypting it *)
(* with another key gives nothing.                                         *)
(***************************************************************************)
EXTENDS Integers, FiniteSets

CONSTANTS
    Fd,           \* the connections of clients to the login server
    Name,         \* user names
    Password,     \* passwords
    NameOf,       \* the name a client logs in with
    PasswordOf,   \* the password it has typed
    Default,      \* constant.default_password
    NSlave,       \* config.slave
    MaxSession,   \* bound: sessions the master hands out
    Login,        \* the logins at the game gateway
    MaxFault,     \* bound: redis requests that fail
    Nil           \* Lua's nil

Slave   == 0 .. NSlave - 1           \* slave[i + 1] of the master
Session == 1 .. MaxSession
Id      == Fd                        \* account identifiers

ASSUME ClientAssumption ==
    /\ NameOf \in [Fd -> Name]
    /\ PasswordOf \in [Fd -> Password]
    /\ Default \in Password
ASSUME BoundAssumption ==
    /\ NSlave \in Nat \ {0}
    /\ MaxSession \in Nat
    /\ MaxFault \in Nat

VARIABLES
    session_id,      \* master: the next session
    connection,      \* slaves: the connections they have not closed
    saved_session,   \* slaves: their sessions
    auth_timer,      \* slaves: connections whose auth timer is running
    expire_timer,    \* slaves: <<session, key>> of the running session timers
    auth,            \* slaves: the coroutine of each connection
    user,            \* redis: the hash "user:<name>"
    user_list,       \* redis: the set UserList
    nfault,          \* redis requests that have failed
    sock,            \* state of each client's socket
    inbox,           \* what a client has sent and the slave has not read
    told,            \* clients: what the server told the holder of a key
    login            \* game gateway: its logins

slaveVars  == <<connection, saved_session, auth_timer, expire_timer>>
redisVars  == <<user, user_list, nfault>>
clientVars == <<sock, inbox, told>>
vars == <<session_id, slaveVars, auth, redisVars, clientVars, login>>

-----------------------------------------------------------------------------
Opt(S) == S \cup {Nil}

Reading  == {"read_handshake", "read_auth", "read_challenge"}
Database == {"exists", "load_id", "load_salt", "load_verifier",
             "hsetnx", "hmset", "sadd"}
Label == Reading \cup Database \cup
    {"none", "auth", "handshake", "save_session", "slave_save", "auth_reply",
     "challenge", "challenge_reply", "done", "failed"}

\* A request about a session, with a text encrypted with a key.
Request == [session : Session, key : Fd, text : Nat]

Coroutine == [at       : Label,
              id       : Opt(Id),          \* accInfo.id
              salt     : BOOLEAN,          \* whether accInfo.salt is there
              verifier : Opt(Password),    \* accInfo.verifier
              session  : Opt(Session),
              place    : Opt(Slave),       \* the slave that saves the session
              request  : Opt(Request)]

Saved == [account : Id, key : Fd, challenge : Nat, token : Opt(Nat)]
Hash  == [account : Opt(Id), verifier : Opt(Password)]
Told  == [session : Session, challenge : Nat, token : Opt(Nat)]
LoginState ==
    [request : Request, verified : BOOLEAN, account : Opt(Id)]
Message == [proto : {"handshake", "auth", "challenge"}, request : Opt(Request)]

ASSUME NilAssumption ==
    /\ Nil \notin Fd /\ Nil \notin Password /\ Nil \notin Nat
    /\ Nil \notin Saved /\ Nil \notin Told /\ Nil \notin LoginState
    /\ Nil \notin Request

\* The slave that has a session.
Place(session) == session % NSlave
SavedAt(session) == saved_session[Place(session)][session]

Goto(fd, l) == auth' = [auth EXCEPT ![fd].at = l]
User(fd)    == user[NameOf[fd]]

-----------------------------------------------------------------------------
(* Clients, and the game gateway as a client of cmd_server_verify          *)

\* A client sends each message when it has the answer to the one before; the
\* answer to a handshake is of no use without the salt.
Send(fd, proto, request) ==
    /\ sock[fd] = "open" /\ inbox[fd] = Nil
    /\ inbox' = [inbox EXCEPT ![fd] =
                    [proto |-> proto, request |-> request]]
    /\ UNCHANGED <<sock, told, session_id, slaveVars, auth, redisVars, login>>

SendHandshake(fd) ==
    /\ auth[fd].at \in {"auth", "read_handshake"}
    /\ Send(fd, "handshake", Nil)

SendAuth(fd) ==
    /\ auth[fd].at = "read_auth" /\ auth[fd].salt
    /\ Send(fd, "auth", Nil)

\* The user of a client knows the keys and sessions of all the clients he has
\* had, and may present a challenge again.
SendChallenge(fd) ==
    /\ auth[fd].at = "read_challenge"
    /\ \E k \in Fd :
        /\ NameOf[k] = NameOf[fd] /\ told[k] # Nil
        /\ \E text \in 0 .. told[k].challenge :
            Send(fd, "challenge",
                 [session |-> told[k].session, key |-> k, text |-> text])

Drop(fd) ==
    /\ sock[fd] = "open"
    /\ sock' = [sock EXCEPT ![fd] = "dropped"]
    /\ UNCHANGED <<inbox, told, session_id, slaveVars, auth, redisVars, login>>

\* A login reaches the gateway, which asks the master to verify it.  The token
\* may be one that was used or replaced before.
Ask(g, k) ==
    /\ login[g] = Nil
    /\ told[k] # Nil /\ told[k].token # Nil
    /\ \E text \in 1 .. told[k].token :
        login' = [login EXCEPT ![g] =
            [request |-> [session |-> told[k].session, key |-> k,
                          text |-> text],
             verified |-> FALSE, account |-> Nil]]
    /\ UNCHANGED <<session_id, slaveVars, auth, redisVars, clientVars>>

-----------------------------------------------------------------------------
(* login_server.lua: a connection is accepted.  Which slave it is given to *)
(* makes no difference: what a slave keeps of a connection is its own.     *)

Connect(fd) ==
    /\ sock[fd] = "none"
    /\ sock' = [sock EXCEPT ![fd] = "open"]
    /\ Goto(fd, "auth")
    /\ UNCHANGED <<session_id, slaveVars, redisVars, inbox, told, login>>

-----------------------------------------------------------------------------
(* login_slave.lua: cmd_slave_auth up to the handshake                     *)

\* Mutant of SlaveAuth: no timer is started.
SlaveAuthUntimed(fd) ==
    /\ auth[fd].at = "auth"
    /\ connection' = connection \cup {fd}
    /\ Goto(fd, "read_handshake")
    /\ UNCHANGED <<auth_timer, saved_session, expire_timer, session_id,
                   redisVars, clientVars, login>>

SlaveAuth(fd) ==
    /\ auth[fd].at = "auth"
    /\ connection' = connection \cup {fd}
    /\ auth_timer' = auth_timer \cup {fd}
    /\ Goto(fd, "read_handshake")
    /\ UNCHANGED <<saved_session, expire_timer, session_id, redisVars,
                   clientVars, login>>

\* ProtoProcess.Read on a socket that is closed raises an error, and the
\* coroutine ends there: the connection stays until its timer.
ReadFailed(fd) ==
    /\ auth[fd].at \in Reading
    /\ inbox[fd] = Nil /\ sock[fd] # "open"
    /\ Goto(fd, "failed")
    /\ UNCHANGED <<session_id, slaveVars, redisVars, clientVars, login>>

Read(fd, l, next) ==
    /\ auth[fd].at = l
    /\ inbox[fd] # Nil
    /\ inbox' = [inbox EXCEPT ![fd] = Nil]
    /\ auth' = [auth EXCEPT ![fd] = next]
    /\ UNCHANGED <<session_id, slaveVars, redisVars, sock, told, login>>

ReadHandshake(fd) ==
    Read(fd, "read_handshake", [auth[fd] EXCEPT !.at = "exists"])

\* db/account.lua, cmd_account_load_by_name: one redis request after the other.
DbStep(fd, next) ==
    /\ auth' = [auth EXCEPT ![fd] = next]
    /\ UNCHANGED <<session_id, slaveVars, clientVars, login>>

Exists(fd) ==
    /\ auth[fd].at = "exists"
    /\ DbStep(fd, IF User(fd).account # Nil
                     THEN [auth[fd] EXCEPT !.at = "load_id"]
                     ELSE [auth[fd] EXCEPT !.at = "handshake", !.salt = TRUE,
                                           !.verifier = Default])
    /\ UNCHANGED redisVars

LoadId(fd) ==
    /\ auth[fd].at = "load_id"
    /\ DbStep(fd, [auth[fd] EXCEPT !.at = "load_salt",
                                      !.id = User(fd).account])
    /\ UNCHANGED redisVars

LoadSalt(fd) ==
    /\ auth[fd].at = "load_salt"
    /\ DbStep(fd, [auth[fd] EXCEPT !.at = "load_verifier",
                                      !.salt = User(fd).verifier # Nil])
    /\ UNCHANGED redisVars

LoadVerifier(fd) ==
    /\ auth[fd].at = "load_verifier"
    /\ DbStep(fd, [auth[fd] EXCEPT !.at = "handshake",
                                      !.verifier = User(fd).verifier])
    /\ UNCHANGED redisVars

\* The rest of rpc_server_handshake, and its answer.
Handshake(fd) ==
    /\ auth[fd].at = "handshake"
    /\ Goto(fd, IF auth[fd].verifier # Nil THEN "read_auth" ELSE "failed")
    /\ UNCHANGED <<session_id, slaveVars, redisVars, clientVars, login>>

-----------------------------------------------------------------------------
(* rpc_server_auth                                                         *)

\* The client has used its own password, or the default one for a name that
\* has no account; its key is the server's if that is the verifier's.
KeyAgreed(fd) ==
    auth[fd].id # Nil => auth[fd].verifier = PasswordOf[fd]

ReadAuth(fd) ==
    Read(fd, "read_auth",
         IF ~ KeyAgreed(fd) THEN [auth[fd] EXCEPT !.at = "failed"]
         ELSE IF auth[fd].id # Nil
              THEN [auth[fd] EXCEPT !.at = "save_session"]
              ELSE [auth[fd] EXCEPT !.at = "hsetnx"])

\* Mutant of Hsetnx: the field is set whether or not it is there.
HsetnxOverwrites(fd) ==
    /\ auth[fd].at = "hsetnx"
    /\ user' = [user EXCEPT ![NameOf[fd]].account = fd]
    /\ DbStep(fd, [auth[fd] EXCEPT !.at = "hmset"])
    /\ UNCHANGED <<user_list, nfault>>

\* db/account.lua, cmd_account_create.
Hsetnx(fd) ==
    /\ auth[fd].at = "hsetnx"
    /\ IF User(fd).account = Nil
       THEN /\ user' = [user EXCEPT ![NameOf[fd]].account = fd]
            /\ DbStep(fd, [auth[fd] EXCEPT !.at = "hmset"])
       ELSE /\ DbStep(fd, [auth[fd] EXCEPT !.at = "failed"])
            /\ UNCHANGED user
    /\ UNCHANGED <<user_list, nfault>>

Hmset(fd) ==
    /\ auth[fd].at = "hmset"
    /\ user' = [user EXCEPT ![NameOf[fd]].verifier = PasswordOf[fd]]
    /\ DbStep(fd, [auth[fd] EXCEPT !.at = "sadd"])
    /\ UNCHANGED <<user_list, nfault>>

\* Mutant of Sadd: the new identifier is not kept.
SaddForgetsId(fd) ==
    /\ auth[fd].at = "sadd"
    /\ user_list' = user_list \cup {fd}
    /\ DbStep(fd, [auth[fd] EXCEPT !.at = "save_session"])
    /\ UNCHANGED <<user, nfault>>

Sadd(fd) ==
    /\ auth[fd].at = "sadd"
    /\ user_list' = user_list \cup {fd}
    /\ DbStep(fd, [auth[fd] EXCEPT !.at = "save_session", !.id = fd])
    /\ UNCHANGED <<user, nfault>>

\* Mutant of Fault: nobody looks at the answer of hmset.
FaultUnnoticed(fd) ==
    /\ auth[fd].at \in Database
    /\ nfault < MaxFault
    /\ nfault' = nfault + 1
    /\ DbStep(fd, [auth[fd] EXCEPT !.at = IF @ = "hmset" THEN "sadd"
                                         ELSE "failed"])
    /\ UNCHANGED <<user, user_list>>

\* A redis request fails: the database answers nil, and an assert ends the
\* coroutine.  What was done before is not undone.
Fault(fd) ==
    /\ auth[fd].at \in Database
    /\ nfault < MaxFault
    /\ nfault' = nfault + 1
    /\ DbStep(fd, [auth[fd] EXCEPT !.at = "failed"])
    /\ UNCHANGED <<user, user_list>>

\* Mutant of SaveSession: the slave is chosen when the counter has moved on.
SaveSessionNext(fd) ==
    /\ auth[fd].at = "save_session"
    /\ session_id <= MaxSession
    /\ session_id' = session_id + 1
    /\ auth' = [auth EXCEPT ![fd].at = "slave_save",
                            ![fd].session = session_id,
                            ![fd].place = Place(session_id + 1)]
    /\ UNCHANGED <<slaveVars, redisVars, clientVars, login>>

\* Master, cmd_server_save_session.
SaveSession(fd) ==
    /\ auth[fd].at = "save_session"
    /\ session_id <= MaxSession
    /\ session_id' = session_id + 1
    /\ auth' = [auth EXCEPT ![fd].at = "slave_save",
                            ![fd].session = session_id,
                            ![fd].place = Place(session_id)]
    /\ UNCHANGED <<slaveVars, redisVars, clientVars, login>>

\* Mutant of SlaveSave: no timer is started.
SlaveSaveUntimed(fd) ==
    LET a == auth[fd] IN
    /\ a.at = "slave_save"
    /\ saved_session' = [saved_session EXCEPT ![a.place][a.session] =
            [account |-> a.id, key |-> fd, challenge |-> 0, token |-> Nil]]
    /\ Goto(fd, "auth_reply")
    /\ UNCHANGED <<expire_timer, connection, auth_timer, session_id, redisVars,
                   clientVars, login>>

\* Slave, cmd_slave_save_session.
SlaveSave(fd) ==
    LET a == auth[fd] IN
    /\ a.at = "slave_save"
    /\ saved_session' = [saved_session EXCEPT ![a.place][a.session] =
            [account |-> a.id, key |-> fd, challenge |-> 0, token |-> Nil]]
    /\ expire_timer' = expire_timer \cup {<<a.session, fd>>}
    /\ Goto(fd, "auth_reply")
    /\ UNCHANGED <<connection, auth_timer, session_id, redisVars, clientVars,
                   login>>

\* The answer to rpc_server_auth; it is lost when the socket is closed.
AuthReply(fd) ==
    /\ auth[fd].at = "auth_reply"
    /\ told' = IF sock[fd] = "open"
               THEN [told EXCEPT ![fd] = [session |-> auth[fd].session,
                                          challenge |-> 0, token |-> Nil]]
               ELSE told
    /\ Goto(fd, "read_challenge")
    /\ UNCHANGED <<session_id, slaveVars, redisVars, sock, inbox, login>>

-----------------------------------------------------------------------------
(* rpc_server_challenge                                                    *)

ReadChallenge(fd) ==
    Read(fd, "read_challenge",
         [auth[fd] EXCEPT !.at = "challenge", !.request = inbox[fd].request])

\* Slave, cmd_slave_challenge: a new token and a new challenge.
Challenged(t) ==
    [t EXCEPT !.challenge = t.challenge + 1, !.token = t.challenge + 1]

SlaveChallenge(fd) ==
    LET r == auth[fd].request
        t == SavedAt(r.session)
    IN
    /\ auth[fd].at = "challenge"
    /\ IF t # Nil /\ t.key = r.key /\ t.challenge = r.text
       THEN /\ saved_session' = [saved_session EXCEPT
                    ![Place(r.session)][r.session] = Challenged(t)]
            /\ Goto(fd, "challenge_reply")
       ELSE /\ Goto(fd, "failed")
            /\ UNCHANGED saved_session
    /\ UNCHANGED <<connection, auth_timer, expire_timer, session_id, redisVars,
                   clientVars, login>>

\* close_fd: a socket that is closed drops what it has received.
CloseFd(fd) ==
    /\ connection' = connection \ {fd}
    /\ sock' = IF fd \in connection THEN [sock EXCEPT ![fd] = "closed"]
               ELSE sock
    /\ inbox' = IF fd \in connection THEN [inbox EXCEPT ![fd] = Nil]
                ELSE inbox

\* The answer, which a client that is still there receives, and close_fd.
ChallengeReply(fd) ==
    LET r == auth[fd].request IN
    /\ auth[fd].at = "challenge_reply"
    /\ told' = IF sock[fd] = "open" /\ r.text >= told[r.key].challenge
               THEN [told EXCEPT ![r.key].challenge = r.text + 1,
                                 ![r.key].token     = r.text + 1]
               ELSE told
    /\ CloseFd(fd)
    /\ Goto(fd, "done")
    /\ UNCHANGED <<saved_session, auth_timer, expire_timer, session_id,
                   redisVars, login>>

-----------------------------------------------------------------------------
(* The timers of the slaves, and cmd_slave_verify                          *)

AuthTimeout(fd) ==
    /\ fd \in auth_timer
    /\ auth_timer' = auth_timer \ {fd}
    /\ CloseFd(fd)
    /\ UNCHANGED <<saved_session, expire_timer, session_id, auth, redisVars,
                   told, login>>

SessionTimeout(session, key) ==
    /\ <<session, key>> \in expire_timer
    /\ expire_timer' = expire_timer \ {<<session, key>>}
    /\ saved_session' =
            IF SavedAt(session) # Nil /\ SavedAt(session).key = key
            THEN [saved_session EXCEPT ![Place(session)][session] = Nil]
            ELSE saved_session
    /\ UNCHANGED <<connection, auth_timer, session_id, auth, redisVars,
                   clientVars, login>>

\* Mutant of SlaveVerify: the token is not cleared.
SlaveVerifyAgain(g) ==
    LET r == login[g].request
        t == SavedAt(r.session)
    IN
    /\ login[g] # Nil /\ ~ login[g].verified
    /\ login' = [login EXCEPT ![g].verified = TRUE,
            ![g].account = IF t # Nil /\ t.key = r.key /\ t.token = r.text
                           THEN t.account ELSE Nil]
    /\ UNCHANGED <<connection, saved_session, auth_timer, expire_timer,
                   session_id, auth, redisVars, clientVars>>

\* cmd_server_verify in the master and cmd_slave_verify in the slave.
SlaveVerify(g) ==
    LET r == login[g].request
        t == SavedAt(r.session)
    IN
    /\ login[g] # Nil /\ ~ login[g].verified
    /\ IF t # Nil /\ t.key = r.key /\ t.token = r.text
       THEN /\ login' = [login EXCEPT ![g].verified = TRUE,
                                      ![g].account  = t.account]
            /\ saved_session' = [saved_session EXCEPT
                    ![Place(r.session)][r.session].token = Nil]
       ELSE /\ login' = [login EXCEPT ![g].verified = TRUE]
            /\ UNCHANGED saved_session
    /\ UNCHANGED <<connection, auth_timer, expire_timer, session_id, auth,
                   redisVars, clientVars>>

-----------------------------------------------------------------------------
Init ==
    /\ session_id = 1
    /\ connection = {}
    /\ saved_session = [i \in Slave |-> [s \in Session |-> Nil]]
    /\ auth_timer = {}
    /\ expire_timer = {}
    /\ auth = [fd \in Fd |->
            [at |-> "none", id |-> Nil, salt |-> FALSE, verifier |-> Nil,
             session |-> Nil, place |-> Nil, request |-> Nil]]
    /\ user = [n \in Name |-> [account |-> Nil, verifier |-> Nil]]
    /\ user_list = {}
    /\ nfault = 0
    /\ sock = [fd \in Fd |-> "none"]
    /\ inbox = [fd \in Fd |-> Nil]
    /\ told = [fd \in Fd |-> Nil]
    /\ login = [g \in Login |-> Nil]

AuthStep(fd) ==
    \/ SlaveAuth(fd) \/ ReadFailed(fd)
    \/ ReadHandshake(fd)
    \/ Exists(fd) \/ LoadId(fd) \/ LoadSalt(fd) \/ LoadVerifier(fd)
    \/ Handshake(fd)
    \/ ReadAuth(fd)
    \/ Hsetnx(fd) \/ Hmset(fd) \/ Sadd(fd)
    \/ SaveSession(fd) \/ SlaveSave(fd) \/ AuthReply(fd)
    \/ ReadChallenge(fd) \/ SlaveChallenge(fd) \/ ChallengeReply(fd)

ServerStep ==
    \/ \E fd \in Fd : AuthStep(fd) \/ AuthTimeout(fd)
    \/ \E s \in Session, k \in Fd : SessionTimeout(s, k)
    \/ \E g \in Login : SlaveVerify(g)

ClientStep(fd) ==
    \/ Connect(fd)
    \/ SendHandshake(fd) \/ SendAuth(fd) \/ SendChallenge(fd)
    \/ Drop(fd)

Next ==
    \/ ServerStep
    \/ \E fd \in Fd : ClientStep(fd) \/ Fault(fd)
    \/ \E g \in Login, k \in Fd : Ask(g, k)

Spec == Init /\ [][Next]_vars

(* Every service goes on while it has something to do, and every timer     *)
(* rings.  Nothing is assumed of the clients or of redis requests failing. *)
FairSpec == Spec /\ WF_vars(ServerStep)

-----------------------------------------------------------------------------
(* What the game gateway sees of the sessions, in the terms of SessionTokens*)

Live     == [account : Id, token : Opt(Nat), issued : Nat]
Admitted == [session : Session, token : Nat, account : Id]
ASSUME MappingAssumption == Nil \notin Live /\ Nil \notin Admitted

Unsaved(s) ==
    \E fd \in Fd : auth[fd].at = "slave_save" /\ auth[fd].session = s

live == [s \in Session |->
    LET t == SavedAt(s) IN
    IF t = Nil THEN Nil
    ELSE [account |-> t.account, token |-> t.token, issued |-> t.challenge]]

used == {s \in Session : s < session_id /\ ~ Unsaved(s)}

admitted == [g \in Login |->
    IF login[g] = Nil \/ login[g].account = Nil THEN Nil
    ELSE [session |-> login[g].request.session,
          token   |-> login[g].request.text,
          account |-> login[g].account]]

-----------------------------------------------------------------------------
(* What must hold                                                          *)

SlaveType ==
    /\ session_id \in 1 .. MaxSession + 1
    /\ connection \subseteq Fd
    /\ saved_session \in [Slave -> [Session -> Opt(Saved)]]
    /\ auth_timer \subseteq Fd
    /\ expire_timer \subseteq Session \X Fd
AuthType == auth \in [Fd -> Coroutine]
RedisType ==
    /\ user \in [Name -> Hash]
    /\ user_list \subseteq Id
    /\ nfault \in 0 .. MaxFault
ClientType ==
    /\ sock \in [Fd -> {"none", "open", "dropped", "closed"}]
    /\ inbox \in [Fd -> Opt(Message)]
    /\ told \in [Fd -> Opt(Told)]
    /\ login \in [Login -> Opt(LoginState)]

\* Every variable has its type.
TypeOK == SlaveType /\ AuthType /\ RedisType /\ ClientType

\* A session is of the account that redis has under the name of the client
\* that opened it, and that client had the account's password: also when
\* clients with different passwords create one name at the same time
\* (login_slave.lua:57-67, account.lua:54).  A login is admitted to it only.
SessionOwner ==
    /\ \A i \in Slave, s \in Session :
        LET t == saved_session[i][s] IN
        t # Nil =>
            /\ User(t.key).account = t.account
            /\ User(t.key).verifier = PasswordOf[t.key]
    /\ \A g \in Login :
        admitted[g] # Nil =>
            admitted[g].account = User(login[g].request.key).account

\* A session that a client was told of can be used until its timer rings: it
\* is at the slave where the master looks for it (login_server.lua:47, 53, 58).
SessionFound ==
    \A k \in Fd :
        told[k] # Nil /\ <<told[k].session, k>> \in expire_timer =>
            /\ SavedAt(told[k].session) # Nil
            /\ SavedAt(told[k].session).key = k

\* A listed account is complete, and it is the account of its name: its player
\* can log in again with the password it was created with, although redis
\* requests may fail between the three writes that create it, and another
\* client may create the same name (account.lua:54-60).
AccountListed ==
    \A k \in user_list :
        User(k).account = k /\ User(k).verifier = PasswordOf[k]

\* What the assert of login_slave.lua:39 says: an account that is there has a
\* verifier.
VerifierLoaded ==
    \A fd \in Fd : auth[fd].at = "handshake" => auth[fd].verifier # Nil

Tokens == INSTANCE SessionTokens WITH Account <- Id

\* The login server is an implementation of SessionTokens: a session is opened
\* once, keeps its account, and admits a login only by the last token issued
\* for it, once, while it is open (login_slave.lua:135-165).
TokensSpec == Tokens!Spec

\* No token admits two logins, also when it is presented twice at once.
TokenOnce == Tokens!TokenOnce

\* Every connection is closed in the end, whatever its client does and
\* wherever its coroutine fails.
ConnectionsClosed ==
    \A fd \in Fd : fd \in connection ~> fd \notin connection

\* No slave keeps a session for ever.
SessionsExpire ==
    \A s \in Session : SavedAt(s) # Nil ~> SavedAt(s) = Nil
=============================================================================
