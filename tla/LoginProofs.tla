---------------------------- MODULE LoginProofs ----------------------------
(***************************************************************************)
(* Theorems about LoginServer, for any clients, passwords, slaves and      *)
(* bounds: its safety invariants, and that it implements SessionTokens.    *)
(*                                                                         *)
(* The inductive invariant says of each coroutine what it has established  *)
(* at the place where it is (CoInv).  Its heart is Owner: from the moment a*)
(* client has proved its password, or has created its account, redis has   *)
(* that account and that password under its name, and nobody changes them. *)
(***************************************************************************)
EXTENDS LoginServer, TLAPS

Owner(fd, id) == User(fd).account = id /\ User(fd).verifier = PasswordOf[fd]

CoHash(fd) ==
    LET a == auth[fd] IN
    /\ a.at \in {"none", "auth", "read_handshake", "exists"} => a.id = Nil
    /\ a.at = "load_id" => User(fd).account # Nil
    /\ a.at \in {"load_salt", "load_verifier", "handshake", "read_auth"}
       /\ a.id # Nil => User(fd).account = a.id
    /\ a.at \in {"handshake", "read_auth"} /\ a.id # Nil /\ a.verifier # Nil =>
            User(fd).verifier = a.verifier
    /\ a.at = "hmset" => User(fd).account = fd /\ User(fd).verifier = Nil
    /\ a.at = "sadd" => Owner(fd, fd)
    /\ a.at \in {"save_session", "slave_save"} =>
            a.id # Nil /\ Owner(fd, a.id)

CoSession(fd) ==
    LET a == auth[fd] IN
    /\ a.at \in {"slave_save", "auth_reply"} => a.session # Nil
    /\ a.at = "slave_save" =>
            /\ a.session < session_id
            /\ a.place = Place(a.session)
            /\ SavedAt(a.session) = Nil

CoClient(fd) ==
    LET a == auth[fd] IN
    /\ sock[fd] = "none" => a.at = "none"
    /\ a.at \in {"challenge", "challenge_reply"} =>
            a.request # Nil /\ told[a.request.key] # Nil
    /\ inbox[fd] # Nil =>
            /\ a.at \in Reading \cup {"auth"}
            /\ a.at = "read_challenge" =>
                    /\ inbox[fd].request # Nil
                    /\ told[inbox[fd].request.key] # Nil

CoInv(fd) == CoHash(fd) /\ CoSession(fd) /\ CoClient(fd)

\* Two coroutines never save one session.
Apart ==
    \A fd, g \in Fd :
        auth[fd].at = "slave_save" /\ auth[g].at = "slave_save"
        /\ auth[fd].session = auth[g].session => fd = g

\* An account has its identifier before it has its verifier.
UserInv == \A n \in Name : user[n].verifier # Nil => user[n].account # Nil

SavedInv ==
    \A i \in Slave, s \in Session :
        saved_session[i][s] # Nil =>
            /\ s < session_id
            /\ Owner(saved_session[i][s].key, saved_session[i][s].account)

TimerInv ==
    \A s \in Session, k \in Fd :
        <<s, k>> \in expire_timer => SavedAt(s) # Nil /\ SavedAt(s).key = k

LoginInv ==
    \A g \in Login : login[g] # Nil =>
        /\ ~ login[g].verified => login[g].account = Nil
        /\ login[g].account # Nil =>
                login[g].account = User(login[g].request.key).account

Coroutines == \A fd \in Fd : CoInv(fd)

IInv == TypeOK /\ Coroutines /\ Apart /\ UserInv /\ SavedInv /\ TimerInv
        /\ LoginInv /\ AccountListed

-----------------------------------------------------------------------------
(* Helpers                                                                 *)

\* The slave of a session is one of the slaves.
LEMMA PlaceType == \A s \in Session : Place(s) \in Slave
  BY BoundAssumption DEF Place, Slave, Session

LEMMA SavedType ==
    ASSUME TypeOK, NEW s \in Session
    PROVE  SavedAt(s) \in Opt(Saved)
  BY PlaceType DEF TypeOK, SlaveType, SavedAt

\* What the hash of a name holds is never replaced.
Kept == \A n \in Name :
    /\ user[n].account # Nil => user'[n].account = user[n].account
    /\ user[n].verifier # Nil => user'[n].verifier = user[n].verifier

LEMMA OwnerKept ==
    ASSUME TypeOK, Kept, NEW fd \in Fd, NEW id \in Id, Owner(fd, id)
    PROVE  Owner(fd, id)'
  BY ClientAssumption, NilAssumption
  DEF Owner, User, Kept, Id, TypeOK, RedisType, Hash

LEMMA InitInv == Init => IInv
  <1> SUFFICES ASSUME Init PROVE IInv
    OBVIOUS
  <1>1. TypeOK
    <2>1. SlaveType
      BY BoundAssumption
      DEF Init, SlaveType, Slave, Session, Saved, Opt
    <2>2. AuthType
      BY DEF Init, AuthType, Coroutine, Label, Reading, Database, Opt
    <2>3. RedisType /\ ClientType
      BY BoundAssumption
      DEF Init, RedisType, ClientType, Hash, Opt
    <2> QED
      BY <2>1, <2>2, <2>3 DEF TypeOK
  <1>2. Coroutines /\ Apart
    BY DEF Init, Coroutines, CoInv, CoHash, CoSession, CoClient, Apart
  <1>3. UserInv /\ SavedInv /\ TimerInv /\ LoginInv /\ AccountListed
    BY ClientAssumption DEF Init, UserInv, SavedInv, TimerInv, LoginInv, AccountListed
  <1> QED
    BY <1>1, <1>2, <1>3 DEF IInv

-----------------------------------------------------------------------------
(* Steps that change a coroutine and what its client has sent, no more     *)

Shared == <<session_id, saved_session, expire_timer, user, user_list, login>>

\* The invariant of a coroutine that does not move, when what it relies on is
\* kept.
LEMMA OtherCoroutine ==
    ASSUME IInv, NEW g \in Fd, Kept,
           auth'[g] = auth[g],
           inbox'[g] \in {inbox[g], Nil},
           sock'[g] = "none" => sock[g] = "none",
           session_id' >= session_id, session_id' \in Int,
           \A k \in Fd : told[k] # Nil => told'[k] # Nil,
           auth[g].at = "hmset" => user'[NameOf[g]] = user[NameOf[g]],
           auth[g].at = "slave_save" =>
                SavedAt(auth[g].session)' = SavedAt(auth[g].session)
    PROVE  CoInv(g)'
  <1> USE DEF IInv, Coroutines, CoInv
  <1>1. CoHash(g)'
    BY ClientAssumption, NilAssumption
    DEF CoHash, Owner, User, Kept, Id, TypeOK, RedisType, Hash
  <1>2. CoSession(g)'
    BY DEF CoSession, SavedAt, Place, TypeOK, SlaveType, AuthType, Coroutine,
           Opt, Session
  <1>3. CoClient(g)'
    BY DEF CoClient, TypeOK, AuthType, ClientType, Coroutine, Message,
           Request, Opt
  <1> QED
    BY <1>1, <1>2, <1>3

LEMMA SameShared ==
    ASSUME IInv, UNCHANGED Shared
    PROVE  UserInv' /\ SavedInv' /\ TimerInv' /\ LoginInv' /\ AccountListed'
           /\ Kept
  BY DEF IInv, Shared, UserInv, SavedInv, TimerInv, LoginInv, AccountListed, Kept,
         Owner, User, SavedAt

LEMMA Quiet ==
    ASSUME IInv, UNCHANGED Shared, NEW fd \in Fd, NEW c \in Coroutine,
           auth' = [auth EXCEPT ![fd] = c], c.at # "slave_save",
           \A g \in Fd : inbox'[g] \in {inbox[g], Nil},
           inbox' \in [Fd -> Opt(Message)],
           sock' \in [Fd -> {"none", "open", "dropped", "closed"}],
           \A g \in Fd : sock'[g] = "none" => sock[g] = "none",
           connection' \subseteq Fd, auth_timer' \subseteq Fd,
           nfault' \in 0 .. MaxFault,
           told' \in [Fd -> Opt(Told)],
           \A k \in Fd : told[k] # Nil => told'[k] # Nil,
           CoInv(fd)'
    PROVE  IInv'
  <1>0. TypeOK'
    BY DEF IInv, Shared, TypeOK, SlaveType, AuthType, RedisType, ClientType
  <1>1. UserInv' /\ SavedInv' /\ TimerInv' /\ LoginInv' /\ AccountListed' /\ Kept
    BY SameShared
  <1>2. Apart'
    BY DEF Apart, IInv, TypeOK, AuthType
  <1>3. ASSUME NEW g \in Fd PROVE CoInv(g)'
    <2>1. CASE g = fd
      BY <2>1
    <2>2. CASE g # fd
      <3>1. auth'[g] = auth[g]
        BY <2>2 DEF IInv, TypeOK, AuthType
      <3>2. session_id' >= session_id /\ session_id' \in Int
        BY DEF IInv, TypeOK, SlaveType, Shared
      <3>3. \A s : SavedAt(s)' = SavedAt(s)
        BY DEF SavedAt, Shared, Place
      <3> QED
        BY <1>1, <3>1, <3>2, <3>3, OtherCoroutine DEF Shared
    <2> QED
      BY <2>1, <2>2
  <1> QED
    BY <1>0, <1>1, <1>2, <1>3 DEF IInv, Coroutines

\* The coroutine goes on to another place with the variables it has.
LEMMA Moved ==
    ASSUME IInv, NEW fd \in Fd, NEW l \in Label, Goto(fd, l)
    PROVE  /\ auth'[fd] \in Coroutine /\ auth'[fd].at = l
           /\ auth'[fd].id = auth[fd].id
           /\ auth'[fd].verifier = auth[fd].verifier
  BY DEF Goto, IInv, TypeOK, AuthType, Coroutine

\* A coroutine that moves on and leaves its socket and its client alone.
LEMMA QuietGoto ==
    ASSUME IInv, NEW fd \in Fd,
           NEW l \in {"auth", "read_handshake", "read_auth", "failed"},
           Goto(fd, l),
           UNCHANGED <<session_id, saved_session, expire_timer, redisVars,
                       inbox, told, login>>,
           sock' \in [Fd -> {"none", "open", "dropped", "closed"}],
           \A g \in Fd : sock'[g] = "none" => sock[g] = "none",
           sock'[fd] # "none",
           connection' \subseteq Fd, auth_timer' \subseteq Fd,
           inbox[fd] # Nil => l \in {"read_handshake", "read_auth"},
           CoHash(fd)'
    PROVE  IInv'
  <1>1. l \in Label /\ l # "slave_save"
    BY DEF Label, Reading
  <1>2. CoSession(fd)' /\ CoClient(fd)'
    BY <1>1, Moved DEF CoSession, CoClient, Reading
  <1>3. UNCHANGED Shared /\ nfault' \in 0 .. MaxFault
        /\ inbox' \in [Fd -> Opt(Message)] /\ told' \in [Fd -> Opt(Told)]
    BY DEF Shared, redisVars, IInv, TypeOK, RedisType, ClientType
  <1>4. PICK c \in Coroutine :
            auth' = [auth EXCEPT ![fd] = c] /\ c.at # "slave_save"
    <2> DEFINE d == [auth[fd] EXCEPT !.at = l]
    <2>1. d \in Coroutine /\ d.at = l
      BY <1>1 DEF IInv, TypeOK, AuthType, Coroutine
    <2>2. auth' = [auth EXCEPT ![fd] = d]
      BY DEF Goto
    <2> HIDE DEF d
    <2> QED
      BY <1>1, <2>1, <2>2
  <1>5. (\A g \in Fd : inbox'[g] \in {inbox[g], Nil})
        /\ (\A k \in Fd : told[k] # Nil => told'[k] # Nil)
    OBVIOUS
  <1>6. CoInv(fd)'
    BY <1>2 DEF CoInv
  <1> QED
    BY <1>3, <1>4, <1>5, <1>6, Quiet

LEMMA ConnectInv ==
    ASSUME IInv, NEW fd \in Fd, Connect(fd)
    PROVE  IInv'
  <1>1. "auth" \in Label
    BY DEF Label
  <1>2. auth[fd].at = "none" /\ inbox[fd] = Nil /\ CoHash(fd)
    BY DEF Connect, IInv, Coroutines, CoInv, CoClient, Reading
  <1>3. CoHash(fd)'
    BY <1>1, <1>2, Moved DEF Connect, CoHash
  <1>4. /\ sock' \in [Fd -> {"none", "open", "dropped", "closed"}]
        /\ \A g \in Fd : sock'[g] = "none" => sock[g] = "none"
        /\ sock'[fd] # "none"
        /\ connection' \subseteq Fd /\ auth_timer' \subseteq Fd
    BY DEF Connect, slaveVars, IInv, TypeOK, ClientType, SlaveType
  <1> QED
    BY <1>2, <1>3, <1>4, QuietGoto DEF Connect, slaveVars

\* A coroutine that runs has a socket.
LEMMA HasSocket ==
    ASSUME IInv, NEW fd \in Fd, auth[fd].at # "none"
    PROVE  sock[fd] # "none"
  BY DEF IInv, Coroutines, CoInv, CoClient

LEMMA SlaveAuthInv ==
    ASSUME IInv, NEW fd \in Fd, SlaveAuth(fd)
    PROVE  IInv'
  <1>1. "read_handshake" \in Label
    BY DEF Label, Reading
  <1>2. CoHash(fd) /\ sock[fd] # "none"
    BY HasSocket DEF SlaveAuth, IInv, Coroutines, CoInv
  <1>3. CoHash(fd)'
    BY <1>1, <1>2, Moved DEF SlaveAuth, CoHash
  <1>4. /\ sock' \in [Fd -> {"none", "open", "dropped", "closed"}]
        /\ connection' \subseteq Fd /\ auth_timer' \subseteq Fd
    BY DEF SlaveAuth, clientVars, IInv, TypeOK, ClientType, SlaveType
  <1> QED
    BY <1>2, <1>3, <1>4, QuietGoto DEF SlaveAuth, clientVars

LEMMA ReadFailedInv ==
    ASSUME IInv, NEW fd \in Fd, ReadFailed(fd)
    PROVE  IInv'
  <1>1. "failed" \in Label
    BY DEF Label
  <1>2. sock[fd] # "none"
    BY HasSocket DEF ReadFailed, Reading
  <1>3. CoHash(fd)'
    BY <1>1, Moved DEF ReadFailed, CoHash
  <1>4. /\ sock' \in [Fd -> {"none", "open", "dropped", "closed"}]
        /\ connection' \subseteq Fd /\ auth_timer' \subseteq Fd
    BY DEF ReadFailed, clientVars, slaveVars, IInv, TypeOK, ClientType,
           SlaveType
  <1> QED
    BY <1>2, <1>3, <1>4, QuietGoto DEF ReadFailed, clientVars, slaveVars

LEMMA HandshakeInv ==
    ASSUME IInv, NEW fd \in Fd, Handshake(fd)
    PROVE  IInv'
  <1>1. PICK l \in {"read_auth", "failed"} :
            Goto(fd, l) /\ l = IF auth[fd].verifier # Nil THEN "read_auth"
                                                         ELSE "failed"
    BY DEF Handshake
  <1>2. l \in Label
    BY DEF Label, Reading
  <1>3. CoHash(fd) /\ sock[fd] # "none" /\ inbox[fd] = Nil
    BY HasSocket
    DEF Handshake, IInv, Coroutines, CoInv, CoClient, Reading
  <1>4. UNCHANGED <<user, inbox, sock>>
    BY DEF Handshake, redisVars, clientVars
  <1>5. CoHash(fd)'
    BY <1>1, <1>2, <1>3, <1>4, Moved DEF Handshake, CoHash, User
  <1>6. /\ sock' \in [Fd -> {"none", "open", "dropped", "closed"}]
        /\ connection' \subseteq Fd /\ auth_timer' \subseteq Fd
    BY <1>4 DEF Handshake, slaveVars, IInv, TypeOK, ClientType, SlaveType
  <1> QED
    BY <1>1, <1>3, <1>4, <1>5, <1>6, QuietGoto
    DEF Handshake, clientVars, slaveVars

\* A message is read: what its coroutine does next.
LEMMA QuietRead ==
    ASSUME IInv, NEW fd \in Fd, NEW l \in Reading, NEW c \in Coroutine,
           Read(fd, l, c),
           c.at \in {"exists", "failed", "save_session", "hsetnx", "challenge"},
           c.at = "challenge" => c.request # Nil /\ told[c.request.key] # Nil,
           user' = user => CoHash(fd)'
    PROVE  IInv'
  <1>1. /\ auth' = [auth EXCEPT ![fd] = c] /\ auth'[fd] = c
        /\ c.at # "slave_save"
    BY DEF Read, IInv, TypeOK, AuthType
  <1>2. UNCHANGED Shared /\ UNCHANGED <<sock, told, connection, auth_timer,
                                        nfault>>
    BY DEF Read, Shared, redisVars, slaveVars
  <1>3. /\ inbox' \in [Fd -> Opt(Message)] /\ inbox'[fd] = Nil
        /\ \A g \in Fd : inbox'[g] \in {inbox[g], Nil}
    BY DEF Read, IInv, TypeOK, ClientType, Opt
  <1>4. sock[fd] # "none"
    BY HasSocket DEF Read, Reading
  <1>5. CoSession(fd)' /\ CoClient(fd)'
    BY <1>1, <1>2, <1>3, <1>4 DEF CoSession, CoClient
  <1>6. CoHash(fd)'
    BY <1>2 DEF Shared
  <1>7. /\ sock \in [Fd -> {"none", "open", "dropped", "closed"}]
        /\ connection \subseteq Fd /\ auth_timer \subseteq Fd
        /\ nfault \in 0 .. MaxFault /\ told \in [Fd -> Opt(Told)]
    BY DEF IInv, TypeOK, SlaveType, RedisType, ClientType
  <1> QED
    BY <1>1, <1>2, <1>3, <1>5, <1>6, <1>7, Quiet DEF CoInv

LEMMA ReadHandshakeInv ==
    ASSUME IInv, NEW fd \in Fd, ReadHandshake(fd)
    PROVE  IInv'
  <1> DEFINE c == [auth[fd] EXCEPT !.at = "exists"]
  <1>1. c \in Coroutine /\ c.at = "exists" /\ c.id = auth[fd].id
    BY DEF IInv, TypeOK, AuthType, Coroutine, Label, Database
  <1>2. Read(fd, "read_handshake", c) /\ "read_handshake" \in Reading
    BY DEF ReadHandshake, Reading
  <1>3. CoHash(fd)'
    <2>1. auth[fd].id = Nil
      BY <1>2 DEF Read, IInv, Coroutines, CoInv, CoHash
    <2>2. auth'[fd] = c
      BY <1>2 DEF Read, IInv, TypeOK, AuthType
    <2> QED
      BY <1>1, <2>1, <2>2 DEF CoHash
  <1> HIDE DEF c
  <1> QED
    BY <1>1, <1>2, <1>3, QuietRead

LEMMA ReadAuthInv ==
    ASSUME IInv, NEW fd \in Fd, ReadAuth(fd)
    PROVE  IInv'
  <1> DEFINE C(l) == [auth[fd] EXCEPT !.at = l]
  <1>1. ASSUME NEW l \in {"failed", "save_session", "hsetnx"}
        PROVE  C(l) \in Coroutine /\ C(l).at = l /\ C(l).id = auth[fd].id
    BY DEF IInv, TypeOK, AuthType, Coroutine, Label, Database
  <1>2. PICK l \in {"failed", "save_session", "hsetnx"} :
            /\ Read(fd, "read_auth", C(l)) /\ "read_auth" \in Reading
            /\ l = "save_session" => KeyAgreed(fd) /\ auth[fd].id # Nil
    BY DEF ReadAuth, Reading
  <1>3. CoHash(fd) /\ auth[fd].at = "read_auth"
    BY <1>2 DEF Read, IInv, Coroutines, CoInv
  <1>4. ASSUME l = "save_session"
        PROVE  Owner(fd, auth[fd].id)
    <2>1. auth[fd].verifier = PasswordOf[fd] /\ PasswordOf[fd] # Nil
      BY <1>2, <1>4, ClientAssumption, NilAssumption DEF KeyAgreed
    <2> QED
      BY <1>2, <1>3, <1>4, <2>1 DEF CoHash, Owner
  <1>5. auth'[fd] = C(l)
    BY <1>2 DEF Read, IInv, TypeOK, AuthType
  <1> HIDE DEF C
  <1>6. user' = user => CoHash(fd)'
    BY <1>1, <1>2, <1>4, <1>5 DEF CoHash, Owner, User
  <1> QED
    BY <1>1, <1>2, <1>6, QuietRead

LEMMA ReadChallengeInv ==
    ASSUME IInv, NEW fd \in Fd, ReadChallenge(fd)
    PROVE  IInv'
  <1>1. /\ auth[fd].at = "read_challenge" /\ inbox[fd] \in Message
        /\ inbox[fd].request # Nil /\ told[inbox[fd].request.key] # Nil
    BY DEF ReadChallenge, Read, IInv, TypeOK, ClientType, Opt, Coroutines,
           CoInv, CoClient
  <1> DEFINE c == [auth[fd] EXCEPT !.at = "challenge",
                                   !.request = inbox[fd].request]
  <1>2. c \in Coroutine /\ c.at = "challenge" /\ c.request = inbox[fd].request
    BY <1>1 DEF IInv, TypeOK, AuthType, Coroutine, Label, Message
  <1>3. Read(fd, "read_challenge", c) /\ "read_challenge" \in Reading
    BY DEF ReadChallenge, Reading
  <1>4. CoHash(fd)'
    <2>1. auth'[fd] = c
      BY <1>3 DEF Read, IInv, TypeOK, AuthType
    <2> QED
      BY <1>2, <2>1 DEF CoHash
  <1> HIDE DEF c
  <1> QED
    BY <1>1, <1>2, <1>3, <1>4, QuietRead

\* A request to redis that writes nothing.
LEMMA QuietDb ==
    ASSUME IInv, NEW fd \in Fd, NEW c \in Coroutine,
           auth[fd].at \in Database, DbStep(fd, c),
           c.at \in {"load_id", "load_salt", "load_verifier", "handshake",
                    "failed"},
           UNCHANGED <<user, user_list>>, nfault' \in 0 .. MaxFault,
           CoHash(fd)'
    PROVE  IInv'
  <1>1. /\ auth' = [auth EXCEPT ![fd] = c] /\ auth'[fd] = c
        /\ c.at # "slave_save"
    BY DEF DbStep, IInv, TypeOK, AuthType
  <1>2. UNCHANGED Shared /\ UNCHANGED <<inbox, sock, told, connection,
                                        auth_timer>>
    BY DEF DbStep, Shared, slaveVars, clientVars
  <1>3. inbox[fd] = Nil /\ sock[fd] # "none"
    BY HasSocket DEF Database, Reading, IInv, Coroutines, CoInv, CoClient
  <1>4. CoSession(fd)' /\ CoClient(fd)'
    BY <1>1, <1>2, <1>3 DEF CoSession, CoClient
  <1>5. /\ sock \in [Fd -> {"none", "open", "dropped", "closed"}]
        /\ inbox \in [Fd -> Opt(Message)] /\ told \in [Fd -> Opt(Told)]
        /\ connection \subseteq Fd /\ auth_timer \subseteq Fd
    BY DEF IInv, TypeOK, SlaveType, ClientType
  <1> QED
    BY <1>1, <1>2, <1>4, <1>5, Quiet DEF CoInv

\* What a coroutine in the database has, and a read that gives it c.
LEMMA Loads ==
    ASSUME IInv, NEW fd \in Fd, NEW c, DbStep(fd, c), UNCHANGED redisVars
    PROVE  /\ auth[fd] \in Coroutine /\ CoHash(fd)
           /\ auth'[fd] = c /\ User(fd) \in Hash
           /\ UNCHANGED <<user, user_list>> /\ User(fd)' = User(fd)
           /\ nfault' \in 0 .. MaxFault
  BY ClientAssumption
  DEF DbStep, redisVars, User, IInv, Coroutines, CoInv, TypeOK, AuthType,
      RedisType

\* Going on with another segment keeps a coroutine well typed.
LEMMA Continued ==
    ASSUME NEW r \in Coroutine, NEW l \in Label, NEW b \in BOOLEAN,
           NEW id \in Opt(Id), NEW v \in Opt(Password)
    PROVE  /\ [r EXCEPT !.at = l, !.id = id] \in Coroutine
           /\ [r EXCEPT !.at = l, !.salt = b] \in Coroutine
           /\ [r EXCEPT !.at = l, !.verifier = v] \in Coroutine
  BY DEF Coroutine

LEMMA ExistsInv ==
    ASSUME IInv, NEW fd \in Fd, Exists(fd)
    PROVE  IInv'
  <1> DEFINE c == [auth[fd] EXCEPT !.at = "load_id"]
             d == [auth[fd] EXCEPT !.at = "handshake", !.salt = TRUE,
                                   !.verifier = Default]
  <1>1. auth[fd].at = "exists" /\ auth[fd].at \in Database
    BY DEF Exists, Database
  <1>2. CASE User(fd).account # Nil
    <2>1. DbStep(fd, c) /\ UNCHANGED redisVars
      BY <1>2 DEF Exists
    <2>2. c \in Coroutine /\ c.at = "load_id"
      BY DEF IInv, TypeOK, AuthType, Coroutine, Label, Database
    <2>3. CoHash(fd)'
      BY <1>2, <2>1, <2>2, Loads DEF CoHash
    <2> HIDE DEF c
    <2> QED
      BY <1>1, <2>1, <2>2, <2>3, Loads, QuietDb
  <1>3. CASE User(fd).account = Nil
    <2>1. DbStep(fd, d) /\ UNCHANGED redisVars
      BY <1>3 DEF Exists
    <2>2. d \in Coroutine /\ d.at = "handshake" /\ d.id = auth[fd].id
      BY ClientAssumption
      DEF IInv, TypeOK, AuthType, Coroutine, Label, Opt
    <2>3. CoHash(fd)'
      BY <1>1, <2>1, <2>2, Loads DEF CoHash
    <2> HIDE DEF d
    <2> QED
      BY <1>1, <2>1, <2>2, <2>3, Loads, QuietDb
  <1> QED
    BY <1>2, <1>3

LEMMA LoadIdInv ==
    ASSUME IInv, NEW fd \in Fd, LoadId(fd)
    PROVE  IInv'
  <1> DEFINE c == [auth[fd] EXCEPT !.at = "load_salt", !.id = User(fd).account]
  <1>1. DbStep(fd, c) /\ UNCHANGED redisVars /\ auth[fd].at \in Database
    BY DEF LoadId, Database
  <1>2. c \in Coroutine /\ c.at = "load_salt" /\ c.id = User(fd).account
    <2>1. auth[fd] \in Coroutine /\ User(fd) \in Hash
      BY <1>1, Loads
    <2>2. "load_salt" \in Label /\ User(fd).account \in Opt(Id)
      BY <2>1 DEF Label, Database, Hash
    <2>3. c \in Coroutine
      BY <2>1, <2>2, Continued DEF Opt
    <2> QED
      BY <2>1, <2>3 DEF Coroutine
  <1> HIDE DEF c
  <1>3. CoHash(fd)'
    BY <1>1, <1>2, Loads DEF CoHash
  <1> QED
    BY <1>1, <1>2, <1>3, Loads, QuietDb

LEMMA LoadSaltInv ==
    ASSUME IInv, NEW fd \in Fd, LoadSalt(fd)
    PROVE  IInv'
  <1> DEFINE c == [auth[fd] EXCEPT !.at = "load_verifier",
                                   !.salt = User(fd).verifier # Nil]
  <1>1. /\ DbStep(fd, c) /\ UNCHANGED redisVars
        /\ auth[fd].at = "load_salt" /\ auth[fd].at \in Database
    BY DEF LoadSalt, Database
  <1>2. c \in Coroutine /\ c.at = "load_verifier" /\ c.id = auth[fd].id
    <2>1. auth[fd] \in Coroutine
      BY <1>1, Loads
    <2>2. "load_verifier" \in Label /\ (User(fd).verifier # Nil) \in BOOLEAN
      BY DEF Label, Database
    <2>3. c \in Coroutine
      BY <2>1, <2>2, Continued DEF Opt
    <2> QED
      BY <2>1, <2>3 DEF Coroutine
  <1> HIDE DEF c
  <1>3. CoHash(fd)'
    BY <1>1, <1>2, Loads DEF CoHash
  <1> QED
    BY <1>1, <1>2, <1>3, Loads, QuietDb

LEMMA LoadVerifierInv ==
    ASSUME IInv, NEW fd \in Fd, LoadVerifier(fd)
    PROVE  IInv'
  <1> DEFINE c == [auth[fd] EXCEPT !.at = "handshake",
                                   !.verifier = User(fd).verifier]
  <1>1. /\ DbStep(fd, c) /\ UNCHANGED redisVars
        /\ auth[fd].at = "load_verifier" /\ auth[fd].at \in Database
    BY DEF LoadVerifier, Database
  <1>2. /\ c \in Coroutine /\ c.at = "handshake"
        /\ c.id = auth[fd].id /\ c.verifier = User(fd).verifier
    <2>1. auth[fd] \in Coroutine /\ User(fd) \in Hash
      BY <1>1, Loads
    <2>2. "handshake" \in Label /\ User(fd).verifier \in Opt(Password)
      BY <2>1 DEF Label, Hash
    <2>3. c \in Coroutine
      BY <2>1, <2>2, Continued DEF Opt
    <2> QED
      BY <2>1, <2>3 DEF Coroutine
  <1> HIDE DEF c
  <1>3. CoHash(fd)'
    BY <1>1, <1>2, Loads DEF CoHash
  <1> QED
    BY <1>1, <1>2, <1>3, Loads, QuietDb

LEMMA FaultInv ==
    ASSUME IInv, NEW fd \in Fd, Fault(fd)
    PROVE  IInv'
  <1> DEFINE c == [auth[fd] EXCEPT !.at = "failed"]
  <1>1. c \in Coroutine /\ c.at = "failed"
    BY DEF IInv, TypeOK, AuthType, Coroutine, Label
  <1>2. DbStep(fd, c) /\ auth[fd].at \in Database
        /\ UNCHANGED <<user, user_list>>
    BY DEF Fault
  <1>3. nfault' \in 0 .. MaxFault
    BY BoundAssumption DEF Fault, IInv, TypeOK, RedisType
  <1>4. CoHash(fd)'
    <2>1. auth'[fd] = c
      BY <1>2 DEF DbStep, IInv, TypeOK, AuthType
    <2> QED
      BY <1>1, <2>1 DEF CoHash
  <1> HIDE DEF c
  <1> QED
    BY <1>1, <1>2, <1>3, <1>4, QuietDb

LEMMA AuthReplyInv ==
    ASSUME IInv, NEW fd \in Fd, AuthReply(fd)
    PROVE  IInv'
  <1> DEFINE c == [auth[fd] EXCEPT !.at = "read_challenge"]
  <1>1. c \in Coroutine /\ c.at # "slave_save"
    BY DEF IInv, TypeOK, AuthType, Coroutine, Label, Reading
  <1>2. auth' = [auth EXCEPT ![fd] = c] /\ UNCHANGED Shared
    BY DEF AuthReply, Shared, redisVars, slaveVars, Goto
  <1>3. UNCHANGED <<sock, inbox, connection, auth_timer, nfault>>
    BY DEF AuthReply, redisVars, slaveVars
  <1>4. CoInv(fd)
    BY DEF IInv, Coroutines
  <1>5. /\ told' \in [Fd -> Opt(Told)]
        /\ \A k \in Fd : told[k] # Nil => told'[k] # Nil
    <2>1. auth[fd].session \in Session
      BY <1>4
      DEF AuthReply, CoInv, CoSession, IInv, TypeOK, AuthType, Coroutine, Opt
    <2>2. [session |-> auth[fd].session, challenge |-> 0, token |-> Nil]
            \in Told
      BY <2>1 DEF Told, Opt
    <2> QED
      BY <2>2, NilAssumption DEF AuthReply, IInv, TypeOK, ClientType, Opt
  <1>6. CoInv(fd)'
    <2>1. auth'[fd] = c /\ c.at = "read_challenge"
      BY <1>2 DEF IInv, TypeOK, AuthType, Coroutine
    <2>2. inbox'[fd] = Nil /\ sock'[fd] # "none"
      BY <1>3, <1>4 DEF AuthReply, CoInv, CoClient, Reading
    <2> QED
      BY <2>1, <2>2 DEF CoInv, CoHash, CoSession, CoClient
  <1>7. inbox \in [Fd -> Opt(Message)] /\ nfault \in 0 .. MaxFault
        /\ sock \in [Fd -> {"none", "open", "dropped", "closed"}]
        /\ connection \subseteq Fd /\ auth_timer \subseteq Fd
    BY DEF IInv, TypeOK, ClientType, RedisType, SlaveType
  <1> QED
    BY <1>1, <1>2, <1>3, <1>5, <1>6, <1>7, Quiet

\* close_fd changes what a client has sent, its socket and the connections.
LEMMA Closed ==
    ASSUME IInv, NEW fd \in Fd, CloseFd(fd)
    PROVE  /\ inbox' \in [Fd -> Opt(Message)]
           /\ \A g \in Fd : inbox'[g] \in {inbox[g], Nil}
           /\ sock' \in [Fd -> {"none", "open", "dropped", "closed"}]
           /\ \A g \in Fd : sock'[g] = "none" => sock[g] = "none"
           /\ connection' \subseteq Fd
  BY DEF CloseFd, IInv, TypeOK, ClientType, SlaveType, Opt

LEMMA ChallengeReplyInv ==
    ASSUME IInv, NEW fd \in Fd, ChallengeReply(fd)
    PROVE  IInv'
  <1> DEFINE c == [auth[fd] EXCEPT !.at = "done"]
             r == auth[fd].request
  <1>1. c \in Coroutine /\ c.at # "slave_save"
    BY DEF IInv, TypeOK, AuthType, Coroutine, Label
  <1>2. auth' = [auth EXCEPT ![fd] = c] /\ UNCHANGED Shared
    BY DEF ChallengeReply, Shared, redisVars, Goto
  <1>3. /\ inbox' \in [Fd -> Opt(Message)]
        /\ \A g \in Fd : inbox'[g] \in {inbox[g], Nil}
        /\ sock' \in [Fd -> {"none", "open", "dropped", "closed"}]
        /\ \A g \in Fd : sock'[g] = "none" => sock[g] = "none"
        /\ connection' \subseteq Fd
    BY Closed DEF ChallengeReply
  <1>4. CoInv(fd)
    BY DEF IInv, Coroutines
  <1>5. /\ told' \in [Fd -> Opt(Told)]
        /\ \A k \in Fd : told[k] # Nil => told'[k] # Nil
    <2>1. r \in Request /\ told[r.key] # Nil
      BY <1>4
      DEF ChallengeReply, CoInv, CoClient, IInv, TypeOK, AuthType, Coroutine,
          Opt
    <2>2. r.key \in Fd /\ r.text + 1 \in Nat /\ told[r.key] \in Told
      BY <2>1 DEF Request, IInv, TypeOK, ClientType, Opt
    <2>3. [told[r.key] EXCEPT !.challenge = r.text + 1, !.token = r.text + 1]
            \in Told
      BY <2>2 DEF Told, Opt
    <2>4. CASE UNCHANGED told
      BY <2>4 DEF IInv, TypeOK, ClientType
    <2>5. CASE told' = [told EXCEPT ![r.key] =
            [told[r.key] EXCEPT !.challenge = r.text + 1,
                                !.token = r.text + 1]]
      BY <2>2, <2>3, <2>5, NilAssumption DEF IInv, TypeOK, ClientType, Opt
    <2>6. UNCHANGED told \/ told' = [told EXCEPT ![r.key] =
            [told[r.key] EXCEPT !.challenge = r.text + 1,
                                !.token = r.text + 1]]
      BY <2>2 DEF ChallengeReply, IInv, TypeOK, ClientType, Told
    <2> QED
      BY <2>4, <2>5, <2>6
  <1>6. CoInv(fd)'
    <2>1. auth'[fd] = c /\ c.at = "done"
      BY <1>2 DEF IInv, TypeOK, AuthType, Coroutine
    <2>2. inbox'[fd] = Nil /\ sock'[fd] # "none"
      BY <1>3, <1>4 DEF ChallengeReply, CoInv, CoClient, Reading
    <2> QED
      BY <2>1, <2>2 DEF CoInv, CoHash, CoSession, CoClient
  <1>7. auth_timer' \subseteq Fd /\ nfault' \in 0 .. MaxFault
    BY DEF ChallengeReply, IInv, TypeOK, RedisType, SlaveType, redisVars
  <1> QED
    BY <1>1, <1>2, <1>3, <1>5, <1>6, <1>7, Quiet

-----------------------------------------------------------------------------
(* Steps in which no coroutine moves                                       *)

\* Sessions and redis stay as they are.
LEMMA Still ==
    ASSUME IInv, UNCHANGED Shared, UNCHANGED <<auth, told, nfault>>, TypeOK',
           \A g \in Fd : CoClient(g)'
    PROVE  IInv'
  <1>1. UserInv' /\ SavedInv' /\ TimerInv' /\ LoginInv' /\ AccountListed'
    BY SameShared
  <1>2. Apart'
    BY DEF IInv, Apart
  <1>3. ASSUME NEW g \in Fd PROVE CoHash(g)' /\ CoSession(g)'
    BY DEF IInv, Coroutines, CoInv, CoHash, CoSession, Owner, User, SavedAt,
           Shared
  <1> QED
    BY <1>1, <1>2, <1>3 DEF IInv, Coroutines, CoInv

LEMMA AuthTimeoutInv ==
    ASSUME IInv, NEW fd \in Fd, AuthTimeout(fd)
    PROVE  IInv'
  <1>1. /\ inbox' \in [Fd -> Opt(Message)]
        /\ \A g \in Fd : inbox'[g] \in {inbox[g], Nil}
        /\ sock' \in [Fd -> {"none", "open", "dropped", "closed"}]
        /\ \A g \in Fd : sock'[g] = "none" => sock[g] = "none"
        /\ connection' \subseteq Fd
    BY Closed DEF AuthTimeout
  <1>2. UNCHANGED Shared /\ UNCHANGED <<auth, told, nfault>>
        /\ auth_timer' \subseteq Fd
    BY DEF AuthTimeout, Shared, redisVars, IInv, TypeOK, SlaveType
  <1>3. TypeOK'
    BY <1>1, <1>2
    DEF IInv, TypeOK, SlaveType, AuthType, RedisType, ClientType, Shared
  <1>4. \A g \in Fd : CoClient(g)'
    BY <1>1, <1>2 DEF IInv, Coroutines, CoInv, CoClient
  <1> QED
    BY <1>2, <1>3, <1>4, Still

LEMMA DropInv ==
    ASSUME IInv, NEW fd \in Fd, Drop(fd)
    PROVE  IInv'
  <1>1. /\ UNCHANGED Shared
        /\ UNCHANGED <<auth, told, nfault, inbox, connection, auth_timer>>
    BY DEF Drop, Shared, redisVars, slaveVars
  <1>2. /\ sock' \in [Fd -> {"none", "open", "dropped", "closed"}]
        /\ \A g \in Fd : sock'[g] = "none" => sock[g] = "none"
    BY DEF Drop, IInv, TypeOK, ClientType
  <1>3. TypeOK'
    BY <1>1, <1>2
    DEF IInv, TypeOK, SlaveType, AuthType, RedisType, ClientType, Shared
  <1>4. \A g \in Fd : CoClient(g)'
    BY <1>1, <1>2 DEF IInv, Coroutines, CoInv, CoClient
  <1> QED
    BY <1>1, <1>3, <1>4, Still

\* A message is sent to a coroutine that will read it.
LEMMA SendInv ==
    ASSUME IInv, NEW fd \in Fd, NEW proto, NEW request,
           Send(fd, proto, request),
           [proto |-> proto, request |-> request] \in Message,
           auth[fd].at \in Reading \cup {"auth"},
           auth[fd].at = "read_challenge" =>
                request # Nil /\ told[request.key] # Nil
    PROVE  IInv'
  <1>1. /\ UNCHANGED Shared
        /\ UNCHANGED <<auth, told, nfault, sock, connection, auth_timer>>
    BY DEF Send, Shared, redisVars, slaveVars
  <1>2. /\ inbox' \in [Fd -> Opt(Message)]
        /\ inbox'[fd] = [proto |-> proto, request |-> request]
        /\ \A g \in Fd \ {fd} : inbox'[g] = inbox[g]
    BY DEF Send, IInv, TypeOK, ClientType, Opt
  <1>3. TypeOK'
    BY <1>1, <1>2
    DEF IInv, TypeOK, SlaveType, AuthType, RedisType, ClientType, Shared
  <1>4. ASSUME NEW g \in Fd PROVE CoClient(g)'
    <2>1. CoClient(g)
      BY DEF IInv, Coroutines, CoInv
    <2>2. CASE g = fd
      BY <1>1, <1>2, <2>1, <2>2 DEF CoClient
    <2>3. CASE g # fd
      BY <1>1, <1>2, <2>1, <2>3 DEF CoClient
    <2> QED
      BY <2>2, <2>3
  <1> QED
    BY <1>1, <1>3, <1>4, Still

LEMMA SendHandshakeInv ==
    ASSUME IInv, NEW fd \in Fd, SendHandshake(fd) \/ SendAuth(fd)
    PROVE  IInv'
  <1>1. \A proto \in {"handshake", "auth"} :
            [proto |-> proto, request |-> Nil] \in Message
    BY DEF Message, Opt
  <1> QED
    BY <1>1, SendInv DEF SendHandshake, SendAuth, Reading

LEMMA SendChallengeInv ==
    ASSUME IInv, NEW fd \in Fd, SendChallenge(fd)
    PROVE  IInv'
  <1>1. PICK k \in Fd :
            /\ told[k] # Nil
            /\ \E text \in 0 .. told[k].challenge :
                Send(fd, "challenge",
                     [session |-> told[k].session, key |-> k, text |-> text])
    BY DEF SendChallenge
  <1>2. PICK text \in 0 .. told[k].challenge :
            Send(fd, "challenge",
                 [session |-> told[k].session, key |-> k, text |-> text])
    BY <1>1
  <1> DEFINE r == [session |-> told[k].session, key |-> k, text |-> text]
  <1>3. r \in Request
    BY <1>1 DEF IInv, TypeOK, ClientType, Told, Request, Opt
  <1>4. [proto |-> "challenge", request |-> r] \in Message
    BY <1>3 DEF Message, Opt
  <1>5. r # Nil /\ told[r.key] # Nil
    BY <1>1, <1>3, NilAssumption
  <1>6. auth[fd].at \in Reading
    BY DEF SendChallenge, Reading
  <1> HIDE DEF r
  <1> QED
    BY <1>2, <1>4, <1>5, <1>6, SendInv DEF r

LEMMA AskInv ==
    ASSUME IInv, NEW g \in Login, NEW k \in Fd, Ask(g, k)
    PROVE  IInv'
  <1>1. PICK text \in 1 .. told[k].token :
            login' = [login EXCEPT ![g] =
                [request |-> [session |-> told[k].session, key |-> k,
                              text |-> text],
                 verified |-> FALSE, account |-> Nil]]
    BY DEF Ask
  <1>2. told[k].session \in Session /\ told[k].token \in Nat
    BY DEF Ask, IInv, TypeOK, ClientType, Told, Opt
  <1>3. [request |-> [session |-> told[k].session, key |-> k, text |-> text],
         verified |-> FALSE, account |-> Nil] \in LoginState
    BY <1>2 DEF LoginState, Request, Opt
  <1>4. UNCHANGED <<session_id, slaveVars, auth, redisVars, clientVars>>
    BY DEF Ask
  <1>5. TypeOK'
    BY <1>1, <1>3, <1>4
    DEF IInv, TypeOK, SlaveType, AuthType, RedisType, ClientType, slaveVars,
        redisVars, clientVars, Opt
  <1>6. Coroutines' /\ Apart'
    BY <1>4 DEF IInv, Coroutines, CoInv, CoHash, CoSession, CoClient, Apart,
        Owner, User, SavedAt, slaveVars, redisVars, clientVars
  <1>7. UserInv' /\ SavedInv' /\ TimerInv' /\ AccountListed'
    BY <1>4 DEF IInv, UserInv, SavedInv, TimerInv, AccountListed, Owner, User,
        SavedAt, slaveVars, redisVars, clientVars
  <1>8. LoginInv'
    BY <1>1, <1>4
    DEF IInv, LoginInv, User, TypeOK, ClientType, slaveVars, redisVars,
        clientVars
  <1> QED
    BY <1>5, <1>6, <1>7, <1>8 DEF IInv

-----------------------------------------------------------------------------
(* Steps that write redis: an account is created                           *)

\* What an accepted write leaves to be shown.
LEMMA Written ==
    ASSUME IInv, Kept, NEW fd \in Fd, NEW c \in Coroutine,
           auth' = [auth EXCEPT ![fd] = c], c.at # "slave_save",
           UNCHANGED <<session_id, slaveVars, clientVars, login, nfault>>,
           user' \in [Name -> Hash], UserInv', user_list' \subseteq Id,
           \A g \in Fd \ {fd} : auth[g].at = "hmset" =>
                user'[NameOf[g]] = user[NameOf[g]],
           \A k \in user_list' \ user_list : k \in Fd /\ Owner(k, k)',
           CoInv(fd)'
    PROVE  IInv'
  <1>1. TypeOK'
    BY DEF IInv, TypeOK, SlaveType, AuthType, RedisType, ClientType, slaveVars,
           clientVars
  <1>2. \A g \in Fd, id \in Id : Owner(g, id) => Owner(g, id)'
    BY OwnerKept DEF IInv
  <1>3. SavedInv'
    BY <1>2 DEF IInv, SavedInv, TypeOK, SlaveType, Saved, Opt, slaveVars
  <1>4. TimerInv'
    BY DEF IInv, TimerInv, SavedAt, slaveVars
  <1>5. LoginInv'
    <2>1. \A g \in Login : login[g] # Nil => login[g].request.key \in Fd
      BY DEF IInv, TypeOK, ClientType, LoginState, Request, Opt
    <2>2. \A k \in Fd : User(k).account # Nil =>
                User(k)'.account = User(k).account
      BY ClientAssumption DEF Kept, User
    <2> QED
      BY <2>1, <2>2 DEF IInv, LoginInv
  <1>6. AccountListed'
    <2>1. \A k \in user_list : k \in Fd /\ Owner(k, k)
      BY DEF IInv, AccountListed, Owner, TypeOK, RedisType, Id
    <2>2. \A k \in user_list' : Owner(k, k)'
      BY <1>2, <2>1 DEF Id
    <2> QED
      BY <2>2 DEF AccountListed, Owner
  <1>7. Apart'
    BY DEF Apart, IInv, TypeOK, AuthType
  <1>8. ASSUME NEW g \in Fd PROVE CoInv(g)'
    <2>1. CASE g = fd
      BY <2>1
    <2>2. CASE g # fd
      <3>1. auth'[g] = auth[g]
        BY <2>2 DEF IInv, TypeOK, AuthType
      <3>2. session_id' >= session_id /\ session_id' \in Int
        BY DEF IInv, TypeOK, SlaveType
      <3>3. \A s : SavedAt(s)' = SavedAt(s)
        BY DEF SavedAt, Place, slaveVars
      <3> QED
        BY <2>2, <3>1, <3>2, <3>3, OtherCoroutine DEF clientVars
    <2> QED
      BY <2>1, <2>2
  <1> QED
    BY <1>1, <1>3, <1>4, <1>5, <1>6, <1>7, <1>8 DEF IInv, Coroutines

LEMMA HsetnxInv ==
    ASSUME IInv, NEW fd \in Fd, Hsetnx(fd)
    PROVE  IInv'
  <1> DEFINE n == NameOf[fd]
             c == [auth[fd] EXCEPT !.at = "hmset"]
             d == [auth[fd] EXCEPT !.at = "failed"]
  <1>1. n \in Name /\ fd # Nil /\ fd \in Id
    BY ClientAssumption, NilAssumption DEF Id
  <1>2. CoInv(fd) /\ auth[fd].at = "hsetnx"
    BY DEF IInv, Coroutines, Hsetnx
  <1>3. c \in Coroutine /\ d \in Coroutine
        /\ c.at = "hmset" /\ d.at = "failed"
    BY DEF IInv, TypeOK, AuthType, Coroutine, Label, Database
  <1>4. /\ UNCHANGED <<session_id, slaveVars, clientVars, login, nfault,
                       user_list>>
        /\ UNCHANGED <<inbox, sock>>
    BY DEF Hsetnx, DbStep, clientVars
  <1>5. inbox[fd] = Nil /\ sock[fd] # "none"
    BY <1>2 DEF CoInv, CoClient, Reading
  <1>6. CASE User(fd).account = Nil
    <2>1. user' = [user EXCEPT ![n].account = fd]
          /\ auth' = [auth EXCEPT ![fd] = c]
      BY <1>6 DEF Hsetnx, DbStep
    <2>2. user[n].account = Nil /\ user[n].verifier = Nil
      BY <1>1, <1>6 DEF User, IInv, UserInv
    <2>3. /\ user'[n].account = fd /\ user'[n].verifier = Nil
          /\ \A m \in Name \ {n} : user'[m] = user[m]
          /\ user' \in [Name -> Hash]
      BY <1>1, <2>1, <2>2 DEF IInv, TypeOK, RedisType, Hash, Opt
    <2>4. Kept /\ UserInv'
      <3>1. \A m \in Name \ {n} : user'[m] = user[m]
        BY <2>3
      <3> QED
        BY <2>2, <2>3, <3>1, <1>1 DEF Kept, UserInv, IInv
    <2>5. ASSUME NEW g \in Fd \ {fd}, auth[g].at = "hmset"
          PROVE  user'[NameOf[g]] = user[NameOf[g]]
      <3>1. User(g).account = g
        BY <2>5 DEF IInv, Coroutines, CoInv, CoHash
      <3>2. NameOf[g] # n
        BY <2>2, <3>1, NilAssumption DEF User
      <3> QED
        BY <2>3, <3>2, ClientAssumption
    <2>6. CoInv(fd)'
      <3>1. auth'[fd] = c
        BY <2>1 DEF IInv, TypeOK, AuthType
      <3> QED
        BY <1>3, <1>4, <1>5, <2>3, <3>1
        DEF CoInv, CoHash, CoSession, CoClient, User
    <2>7. user_list' \subseteq Id /\ user_list' \ user_list = {}
      BY <1>4 DEF IInv, TypeOK, RedisType
    <2> HIDE DEF c
    <2> QED
      BY <1>3, <1>4, <2>1, <2>3, <2>4, <2>5, <2>6, <2>7, Written
  <1>7. CASE User(fd).account # Nil
    <2>1. UNCHANGED user /\ auth' = [auth EXCEPT ![fd] = d]
      BY <1>7 DEF Hsetnx, DbStep
    <2>2. /\ Kept /\ UserInv' /\ user' \in [Name -> Hash]
          /\ user_list' \subseteq Id /\ user_list' \ user_list = {}
      BY <1>4, <2>1 DEF Kept, UserInv, IInv, TypeOK, RedisType
    <2>3. CoInv(fd)'
      <3>1. auth'[fd] = d
        BY <2>1 DEF IInv, TypeOK, AuthType
      <3> QED
        BY <1>3, <1>4, <1>5, <3>1 DEF CoInv, CoHash, CoSession, CoClient
    <2> HIDE DEF d
    <2> QED
      BY <1>3, <1>4, <2>1, <2>2, <2>3, Written
  <1> QED
    BY <1>6, <1>7

LEMMA HmsetInv ==
    ASSUME IInv, NEW fd \in Fd, Hmset(fd)
    PROVE  IInv'
  <1> DEFINE n == NameOf[fd]
             c == [auth[fd] EXCEPT !.at = "sadd"]
  <1>1. n \in Name /\ PasswordOf[fd] \in Password
    BY ClientAssumption
  <1>2. CoInv(fd) /\ auth[fd].at = "hmset"
    BY DEF IInv, Coroutines, Hmset
  <1>3. c \in Coroutine /\ c.at = "sadd"
    BY DEF IInv, TypeOK, AuthType, Coroutine, Label, Database
  <1>4. /\ UNCHANGED <<session_id, slaveVars, clientVars, login, nfault,
                       user_list>>
        /\ UNCHANGED <<inbox, sock>>
    BY DEF Hmset, DbStep, clientVars
  <1>5. inbox[fd] = Nil /\ sock[fd] # "none"
    BY <1>2 DEF CoInv, CoClient, Reading
  <1>6. user' = [user EXCEPT ![n].verifier = PasswordOf[fd]]
        /\ auth' = [auth EXCEPT ![fd] = c]
    BY DEF Hmset, DbStep
  <1>7. user[n].account = fd /\ user[n].verifier = Nil
    BY <1>2 DEF CoInv, CoHash, User
  <1>8. /\ user'[n].account = fd /\ user'[n].verifier = PasswordOf[fd]
        /\ \A m \in Name \ {n} : user'[m] = user[m]
        /\ user' \in [Name -> Hash]
    BY <1>1, <1>6, <1>7 DEF IInv, TypeOK, RedisType, Hash, Opt
  <1>9. Kept /\ UserInv'
    <2>1. fd # Nil
      BY NilAssumption
    <2> QED
      BY <1>7, <1>8, <2>1 DEF Kept, UserInv, IInv
  <1>10. ASSUME NEW g \in Fd \ {fd}, auth[g].at = "hmset"
         PROVE  user'[NameOf[g]] = user[NameOf[g]]
    <2>1. User(g).account = g
      BY <1>10 DEF IInv, Coroutines, CoInv, CoHash
    <2>2. NameOf[g] # n
      BY <1>7, <2>1 DEF User
    <2> QED
      BY <1>8, <2>2, ClientAssumption
  <1>11. CoInv(fd)'
    <2>1. auth'[fd] = c
      BY <1>6 DEF IInv, TypeOK, AuthType
    <2> QED
      BY <1>3, <1>4, <1>5, <1>8, <2>1
      DEF CoInv, CoHash, CoSession, CoClient, Owner, User
  <1>12. user_list' \subseteq Id /\ user_list' \ user_list = {}
    BY <1>4 DEF IInv, TypeOK, RedisType
  <1> HIDE DEF c
  <1> QED
    BY <1>3, <1>4, <1>6, <1>8, <1>9, <1>10, <1>11, <1>12, Written

LEMMA SaddInv ==
    ASSUME IInv, NEW fd \in Fd, Sadd(fd)
    PROVE  IInv'
  <1> DEFINE c == [auth[fd] EXCEPT !.at = "save_session", !.id = fd]
  <1>1. CoInv(fd) /\ auth[fd].at = "sadd"
    BY DEF IInv, Coroutines, Sadd
  <1>2. c \in Coroutine /\ c.at = "save_session" /\ c.id = fd
    BY DEF IInv, TypeOK, AuthType, Coroutine, Label, Opt, Id
  <1>3. /\ UNCHANGED <<session_id, slaveVars, clientVars, login, nfault, user>>
        /\ UNCHANGED <<inbox, sock>>
        /\ auth' = [auth EXCEPT ![fd] = c]
        /\ user_list' = user_list \cup {fd}
    BY DEF Sadd, DbStep, clientVars
  <1>4. inbox[fd] = Nil /\ sock[fd] # "none"
    BY <1>1 DEF CoInv, CoClient, Reading
  <1>5. Owner(fd, fd)'
    BY <1>1, <1>3 DEF CoInv, CoHash, Owner, User
  <1>6. /\ Kept /\ UserInv' /\ user' \in [Name -> Hash]
        /\ user_list' \subseteq Id
    BY <1>3 DEF Kept, UserInv, IInv, TypeOK, RedisType, Id
  <1>7. CoInv(fd)'
    <2>1. auth'[fd] = c /\ fd # Nil
      BY <1>3, NilAssumption DEF IInv, TypeOK, AuthType
    <2> QED
      BY <1>2, <1>3, <1>4, <1>5, <2>1 DEF CoInv, CoHash, CoSession, CoClient
  <1>8. \A k \in user_list' \ user_list : k \in Fd /\ Owner(k, k)'
    BY <1>3, <1>5
  <1>9. \A g \in Fd \ {fd} : auth[g].at = "hmset" =>
                user'[NameOf[g]] = user[NameOf[g]]
    BY <1>3
  <1> HIDE DEF c
  <1> QED
    BY <1>2, <1>3, <1>6, <1>7, <1>8, <1>9, Written

-----------------------------------------------------------------------------
(* Steps that change the sessions                                          *)

LEMMA SaveSessionInv ==
    ASSUME IInv, NEW fd \in Fd, SaveSession(fd)
    PROVE  IInv'
  <1>0. PICK s \in Session : s = session_id
    BY BoundAssumption DEF SaveSession, Session, IInv, TypeOK, SlaveType
  <1>1. Place(s) \in Slave /\ session_id' = s + 1 /\ s \in Int
    BY <1>0, PlaceType DEF SaveSession, Session
  <1>2. CoInv(fd) /\ auth[fd].at = "save_session"
    BY DEF IInv, Coroutines, SaveSession
  <1>3. PICK c \in Coroutine :
            /\ c = [auth[fd] EXCEPT !.at = "slave_save", !.session = s,
                                    !.place = Place(s)]
            /\ c.at = "slave_save" /\ c.session = s
            /\ c.place = Place(s) /\ c.id = auth[fd].id
    <2> DEFINE d == [auth[fd] EXCEPT !.at = "slave_save", !.session = s,
                                     !.place = Place(s)]
    <2>1. d \in Coroutine
      BY <1>0, <1>1 DEF IInv, TypeOK, AuthType, Coroutine, Label, Opt
    <2>2. /\ d.at = "slave_save" /\ d.session = s
          /\ d.place = Place(s) /\ d.id = auth[fd].id
      BY DEF IInv, TypeOK, AuthType, Coroutine
    <2> QED
      BY <2>1, <2>2
  <1>4. auth' = [auth EXCEPT ![fd] = c]
    BY <1>0, <1>3 DEF SaveSession
  <1>5. UNCHANGED <<slaveVars, redisVars, clientVars, login>>
    BY DEF SaveSession
  <1>6. UNCHANGED <<saved_session, expire_timer, user, user_list, nfault, inbox,
                    sock, told>>
    BY <1>5 DEF slaveVars, redisVars, clientVars
  <1>7. SavedAt(s) = Nil
    BY <1>0, <1>1 DEF SavedAt, IInv, SavedInv
  <1>8. auth'[fd] = c /\ \A g \in Fd \ {fd} : auth'[g] = auth[g]
    BY <1>4 DEF IInv, TypeOK, AuthType
  <1>9. TypeOK'
    <2>1. session_id' \in 1 .. MaxSession + 1
      BY <1>1, BoundAssumption DEF Session
    <2> QED
      BY <1>3, <1>4, <1>5, <2>1
      DEF IInv, TypeOK, SlaveType, AuthType, RedisType, ClientType, slaveVars,
          redisVars, clientVars
  <1>10. Kept
    BY <1>6 DEF Kept
  <1>11. CoInv(fd)'
    <2>1. inbox'[fd] = Nil /\ sock'[fd] # "none"
      BY <1>2, <1>6 DEF CoInv, CoClient, Reading
    <2>2. c.id # Nil /\ Owner(fd, c.id)'
      BY <1>2, <1>3, <1>6 DEF CoInv, CoHash, Owner, User
    <2>3. s # Nil /\ SavedAt(s) = Nil /\ (\A r : SavedAt(r)' = SavedAt(r))
      BY <1>1, <1>6, <1>7, NilAssumption DEF SavedAt, Place, Session
    <2>4. CoHash(fd)'
      BY <1>3, <1>8, <2>2 DEF CoHash
    <2>5. CoSession(fd)'
      <3>1. c.session < session_id'
        BY <1>1, <1>3
      <3>2. c.session # Nil /\ c.place = Place(c.session)
            /\ SavedAt(c.session)' = Nil
        BY <1>3, <2>3
      <3> QED
        BY <1>8, <3>1, <3>2 DEF CoSession, SavedAt, Place
    <2>6. CoClient(fd)'
      BY <1>3, <1>8, <2>1 DEF CoClient
    <2> QED
      BY <2>4, <2>5, <2>6 DEF CoInv
  <1>12. ASSUME NEW g \in Fd \ {fd} PROVE CoInv(g)'
    <2>1. \A r : SavedAt(r)' = SavedAt(r)
      BY <1>6 DEF SavedAt, Place
    <2> QED
      BY <1>0, <1>1, <1>6, <1>8, <1>10, <2>1, OtherCoroutine
  <1>13. Apart'
    <2>1. \A g \in Fd : auth[g].at = "slave_save" => auth[g].session # s
      BY <1>0, <1>1 DEF IInv, Coroutines, CoInv, CoSession
    <2> QED
      BY <1>3, <1>8, <2>1 DEF Apart, IInv
  <1>14. SavedInv'
    <2>1. \A i \in Slave, r \in Session :
                saved_session[i][r] # Nil => r < session_id'
      BY <1>0, <1>1 DEF IInv, SavedInv, Session
    <2> QED
      BY <1>6, <2>1 DEF IInv, SavedInv, Owner, User
  <1>15. UserInv' /\ TimerInv' /\ LoginInv' /\ AccountListed'
    BY <1>5
    DEF IInv, UserInv, TimerInv, LoginInv, AccountListed, User, SavedAt,
        slaveVars, redisVars, clientVars
  <1> QED
    BY <1>9, <1>11, <1>12, <1>13, <1>14, <1>15 DEF IInv, Coroutines

\* One session is written, deleted or changed.
SetSession(s, v) ==
    saved_session' = [saved_session EXCEPT ![Place(s)][s] = v]

LEMMA SavedExcept ==
    ASSUME TypeOK, NEW s \in Session, NEW v \in Opt(Saved), SetSession(s, v)
    PROVE  /\ saved_session' \in [Slave -> [Session -> Opt(Saved)]]
           /\ SavedAt(s)' = v
           /\ \A r \in Session \ {s} : SavedAt(r)' = SavedAt(r)
           /\ \A i \in Slave, r \in Session :
                saved_session'[i][r] \in {saved_session[i][r], v}
  <1>1. Place(s) \in Slave
    BY PlaceType
  <1>2. \A r \in Session : Place(r) \in Slave
    BY PlaceType
  <1>3. saved_session \in [Slave -> [Session -> Opt(Saved)]]
    BY DEF TypeOK, SlaveType
  <1>4. /\ \A i \in Slave, r \in Session : saved_session'[i][r] =
              IF i = Place(s) /\ r = s THEN v ELSE saved_session[i][r]
        /\ saved_session' \in [Slave -> [Session -> Opt(Saved)]]
    BY <1>1, <1>3 DEF SetSession
  <1>5. \A r \in Session : SavedAt(r)' = saved_session'[Place(r)][r]
    BY DEF SavedAt, Place
  <1> QED
    BY <1>1, <1>2, <1>4, <1>5 DEF SavedAt

\* What is left to be shown when a session changes and redis does not.
LEMMA Sessions ==
    ASSUME IInv, NEW s \in Session, NEW v \in Opt(Saved), SetSession(s, v),
           v # Nil => s < session_id /\ Owner(v.key, v.account),
           UNCHANGED <<session_id, connection, auth_timer, redisVars, clientVars>>,
           auth' \in [Fd -> Coroutine],
           expire_timer' \subseteq Session \X Fd,
           login' \in [Login -> Opt(LoginState)],
           \A g \in Fd : auth'[g] = auth[g] \/
                (auth'[g].at # "slave_save" /\ CoInv(g)'),
           \A g \in Fd :
                auth'[g].at = "slave_save" /\ auth[g].session = s => v = Nil,
           TimerInv', LoginInv'
    PROVE  IInv'
  <1>1. /\ saved_session' \in [Slave -> [Session -> Opt(Saved)]]
        /\ SavedAt(s)' = v
        /\ \A r \in Session \ {s} : SavedAt(r)' = SavedAt(r)
        /\ \A i \in Slave, r \in Session :
                saved_session'[i][r] = saved_session[i][r]
                \/ (r = s /\ saved_session'[i][r] = v)
    <2>1. TypeOK
      BY DEF IInv
    <2>2. \A i \in Slave, r \in Session :
                saved_session'[i][r] # saved_session[i][r] => r = s
      BY PlaceType DEF SetSession, IInv, TypeOK, SlaveType
    <2>3. /\ saved_session' \in [Slave -> [Session -> Opt(Saved)]]
          /\ SavedAt(s)' = v
          /\ \A r \in Session \ {s} : SavedAt(r)' = SavedAt(r)
          /\ \A i \in Slave, r \in Session :
                saved_session'[i][r] \in {saved_session[i][r], v}
      BY <2>1, SavedExcept
    <2>4. ASSUME NEW i \in Slave, NEW r \in Session
          PROVE  saved_session'[i][r] = saved_session[i][r]
                 \/ (r = s /\ saved_session'[i][r] = v)
      BY <2>2, <2>3
    <2> QED
      BY <2>3, <2>4
  <1>2. TypeOK'
    BY <1>1
    DEF IInv, TypeOK, SlaveType, AuthType, RedisType, ClientType, redisVars,
        clientVars
  <1>3. UNCHANGED <<user, user_list, inbox, sock, told>> /\ Kept
    BY DEF redisVars, clientVars, Kept
  <1>4. ASSUME NEW g \in Fd PROVE CoInv(g)'
    <2>1. CASE auth'[g] = auth[g]
      <3>1. session_id' >= session_id /\ session_id' \in Int
        BY DEF IInv, TypeOK, SlaveType
      <3>2. ASSUME auth[g].at = "slave_save"
            PROVE  SavedAt(auth[g].session)' = SavedAt(auth[g].session)
        <4>1. CoSession(g) /\ auth[g].session \in Session
          BY <3>2
          DEF IInv, Coroutines, CoInv, CoSession, TypeOK, AuthType, Coroutine,
              Opt
        <4>2. CASE auth[g].session = s
          <5>1. v = Nil /\ SavedAt(s) = Nil /\ SavedAt(s)' = Nil
            BY <1>1, <2>1, <3>2, <4>1, <4>2 DEF CoSession
          <5>2. SavedAt(s)' = saved_session'[Place(s)][s]
            BY DEF SavedAt, Place
          <5>3. SavedAt(auth[g].session)' = saved_session'[Place(s)][s]
            BY <2>1, <4>2 DEF SavedAt, Place
          <5>4. SavedAt(auth[g].session) = SavedAt(s)
            BY <4>2
          <5> QED
            BY <5>1, <5>2, <5>3, <5>4
        <4>3. CASE auth[g].session # s
          <5>1. PICK r \in Session : r = auth[g].session
            BY <4>1
          <5>2. SavedAt(r)' = SavedAt(r)
            BY <1>1, <4>3, <5>1
          <5>3. SavedAt(auth[g].session)' = saved_session'[Place(r)][r]
            BY <2>1, <5>1 DEF SavedAt, Place
          <5>4. SavedAt(r)' = saved_session'[Place(r)][r]
            BY DEF SavedAt, Place
          <5> QED
            BY <5>1, <5>2, <5>3, <5>4
        <4> QED
          BY <4>2, <4>3
      <3> QED
        BY <1>3, <2>1, <3>1, <3>2, OtherCoroutine
    <2>2. CASE auth'[g] # auth[g]
      BY <2>2
    <2> QED
      BY <2>1, <2>2
  <1>5. Apart'
    BY DEF Apart, IInv
  <1>6. SavedInv'
    <2>1. SavedInv
      BY DEF IInv
    <2> QED
      BY <1>1, <1>3, <2>1 DEF SavedInv, Owner, User
  <1>7. UserInv' /\ AccountListed'
    BY <1>3 DEF IInv, UserInv, AccountListed, User
  <1> QED
    BY <1>2, <1>4, <1>5, <1>6, <1>7 DEF IInv, Coroutines

LEMMA SlaveSaveInv ==
    ASSUME IInv, NEW fd \in Fd, SlaveSave(fd)
    PROVE  IInv'
  <1>1. CoInv(fd) /\ auth[fd].at = "slave_save" /\ auth[fd] \in Coroutine
    BY DEF IInv, Coroutines, SlaveSave, TypeOK, AuthType
  <1>2. PICK s \in Session, id \in Id :
            /\ s = auth[fd].session /\ id = auth[fd].id
            /\ s < session_id /\ auth[fd].place = Place(s)
            /\ SavedAt(s) = Nil /\ Owner(fd, id)
    BY <1>1 DEF CoInv, CoSession, CoHash, Coroutine, Opt
  <1>3. PICK v \in Saved :
            v = [account |-> id, key |-> fd, challenge |-> 0, token |-> Nil]
    BY DEF Saved, Opt
  <1>4. v # Nil /\ v.key = fd /\ v.account = id
    BY <1>3, NilAssumption
  <1>5. SetSession(s, v) /\ expire_timer' = expire_timer \cup {<<s, fd>>}
    BY <1>2, <1>3 DEF SlaveSave, SetSession
  <1>6. PICK c \in Coroutine :
            /\ c = [auth[fd] EXCEPT !.at = "auth_reply"]
            /\ c.at = "auth_reply" /\ c.session = s
    <2> DEFINE d == [auth[fd] EXCEPT !.at = "auth_reply"]
    <2>1. d \in Coroutine
      BY <1>1 DEF Coroutine, Label
    <2>2. d.at = "auth_reply" /\ d.session = s
      BY <1>1, <1>2 DEF Coroutine
    <2> QED
      BY <2>1, <2>2
  <1>7. auth' = [auth EXCEPT ![fd] = c]
    BY <1>6 DEF SlaveSave, Goto
  <1>8. UNCHANGED <<connection, auth_timer, session_id, redisVars, clientVars,
                    login>>
    BY DEF SlaveSave
  <1>9. auth'[fd] = c /\ \A g \in Fd \ {fd} : auth'[g] = auth[g]
    BY <1>7 DEF IInv, TypeOK, AuthType
  <1>10. CoInv(fd)'
    <2>1. inbox'[fd] = Nil /\ sock'[fd] # "none"
      BY <1>1, <1>8 DEF CoInv, CoClient, Reading, clientVars
    <2>2. s # Nil
      BY NilAssumption DEF Session
    <2> QED
      BY <1>6, <1>9, <2>1, <2>2 DEF CoInv, CoHash, CoSession, CoClient
  <1>11. /\ SavedAt(s)' = v
         /\ \A r \in Session \ {s} : SavedAt(r)' = SavedAt(r)
    BY <1>5, SavedExcept DEF IInv, Opt
  <1>12. TimerInv'
    BY <1>2, <1>4, <1>5, <1>11 DEF IInv, TimerInv
  <1>13. LoginInv'
    BY <1>8 DEF IInv, LoginInv, User, redisVars
  <1>14. /\ auth' \in [Fd -> Coroutine]
         /\ expire_timer' \subseteq Session \X Fd
         /\ login' \in [Login -> Opt(LoginState)]
    BY <1>5, <1>7, <1>8 DEF IInv, TypeOK, AuthType, SlaveType, ClientType
  <1>15. \A g \in Fd :
                auth'[g].at = "slave_save" /\ auth[g].session = s => v = Nil
    BY <1>1, <1>2, <1>6, <1>9 DEF IInv, Apart
  <1>16. \A g \in Fd : auth'[g] = auth[g] \/
                (auth'[g].at # "slave_save" /\ CoInv(g)')
    <2> TAKE g \in Fd
    <2>1. CASE g = fd
      BY <1>6, <1>9, <1>10, <2>1
    <2>2. CASE g # fd
      BY <1>9, <2>2
    <2> QED
      BY <2>1, <2>2
  <1>17. v \in Opt(Saved)
    BY DEF Opt
  <1> QED
    BY <1>2, <1>4, <1>5, <1>8, <1>12, <1>13, <1>14, <1>15, <1>16, <1>17,
       Sessions

LEMMA SlaveChallengeInv ==
    ASSUME IInv, NEW fd \in Fd, SlaveChallenge(fd)
    PROVE  IInv'
  <1>1. CoInv(fd) /\ auth[fd].at = "challenge" /\ auth[fd] \in Coroutine
    BY DEF IInv, Coroutines, SlaveChallenge, TypeOK, AuthType
  <1>2. PICK r \in Request : r = auth[fd].request /\ told[r.key] # Nil
    BY <1>1 DEF CoInv, CoClient, Coroutine, Opt
  <1>3. inbox[fd] = Nil /\ sock[fd] # "none" /\ r # Nil
    BY <1>1, <1>2, NilAssumption DEF CoInv, CoClient, Reading
  <1>4. UNCHANGED <<connection, auth_timer, expire_timer, session_id, redisVars,
                    clientVars, login>>
    BY DEF SlaveChallenge
  <1>5. UNCHANGED <<inbox, sock, told, user, user_list, nfault>>
    BY <1>4 DEF redisVars, clientVars
  <1>6. PICK s \in Session : s = r.session
    BY DEF Request
  <1> DEFINE t == saved_session[Place(s)][s]
             OK == t # Nil /\ t.key = r.key /\ t.challenge = r.text
  <1>7. SavedAt(s) = t /\ t \in Opt(Saved)
    BY SavedType DEF SavedAt, IInv
  <1>8. CASE OK
    <2>1. t \in Saved
      BY <1>7, <1>8 DEF Opt
    <2>2. PICK v \in Saved : v = Challenged(t)
      <3>1. t.challenge \in Nat /\ t.challenge + 1 \in Opt(Nat)
            /\ t.challenge + 1 \in Nat
        BY <2>1 DEF Saved, Opt
      <3>2. Challenged(t) \in Saved
        BY <2>1, <3>1 DEF Challenged, Saved
      <3> QED
        BY <3>2
    <2>3. v # Nil /\ v.key = t.key /\ v.account = t.account
      BY <2>1, <2>2, NilAssumption DEF Challenged, Saved
    <2>4. PICK c \in Coroutine :
            /\ c = [auth[fd] EXCEPT !.at = "challenge_reply"]
            /\ c.at = "challenge_reply" /\ c.request = r
      <3> DEFINE d == [auth[fd] EXCEPT !.at = "challenge_reply"]
      <3>1. d \in Coroutine
        BY <1>1 DEF Coroutine, Label
      <3>2. d.at = "challenge_reply" /\ d.request = r
        BY <1>1, <1>2 DEF Coroutine
      <3> QED
        BY <3>1, <3>2
    <2>5. SetSession(s, v) /\ auth' = [auth EXCEPT ![fd] = c]
      BY <1>2, <1>6, <1>8, <2>2, <2>4
      DEF SlaveChallenge, SetSession, SavedAt, Goto
    <2>6. auth'[fd] = c /\ \A g \in Fd \ {fd} : auth'[g] = auth[g]
      BY <2>5 DEF IInv, TypeOK, AuthType
    <2>7. CoInv(fd)'
      BY <1>2, <1>3, <1>5, <2>4, <2>6 DEF CoInv, CoHash, CoSession, CoClient
    <2>8. /\ SavedAt(s)' = v
          /\ \A q \in Session \ {s} : SavedAt(q)' = SavedAt(q)
      BY <2>5, SavedExcept DEF IInv, Opt
    <2>9. TimerInv'
      <3>1. ASSUME NEW q \in Session, NEW k \in Fd, <<q, k>> \in expire_timer'
            PROVE  SavedAt(q)' # Nil /\ SavedAt(q)'.key = k
        <4>1. SavedAt(q) # Nil /\ SavedAt(q).key = k
          BY <1>4, <3>1 DEF IInv, TimerInv
        <4>2. CASE q = s
          BY <1>7, <2>3, <2>8, <4>1, <4>2
        <4>3. CASE q # s
          BY <2>8, <4>1, <4>3
        <4> QED
          BY <4>2, <4>3
      <3> QED
        BY <3>1 DEF TimerInv
    <2>10. LoginInv'
      BY <1>4, <1>5 DEF IInv, LoginInv, User
    <2>11. s < session_id /\ Owner(v.key, v.account)
      BY <1>8, <2>3, PlaceType DEF IInv, SavedInv
    <2>12. /\ auth' \in [Fd -> Coroutine]
           /\ expire_timer' \subseteq Session \X Fd
           /\ login' \in [Login -> Opt(LoginState)]
      BY <1>4, <2>5 DEF IInv, TypeOK, AuthType, SlaveType, ClientType
    <2>13. \A g \in Fd :
                auth'[g].at = "slave_save" /\ auth[g].session = s => v = Nil
      <3>1. ASSUME NEW g \in Fd, auth'[g].at = "slave_save",
                   auth[g].session = s
            PROVE  FALSE
        <4>1. auth[g].at = "slave_save"
          BY <2>4, <2>6, <3>1
        <4>2. SavedAt(s) = Nil
          BY <3>1, <4>1 DEF IInv, Coroutines, CoInv, CoSession
        <4> QED
          BY <1>7, <1>8, <4>2
      <3> QED
        BY <3>1
    <2>14. \A g \in Fd : auth'[g] = auth[g] \/
                (auth'[g].at # "slave_save" /\ CoInv(g)')
      <3> TAKE g \in Fd
      <3>1. CASE g = fd
        BY <2>4, <2>6, <2>7, <3>1
      <3>2. CASE g # fd
        BY <2>6, <3>2
      <3> QED
        BY <3>1, <3>2
    <2>15. v \in Opt(Saved)
      BY DEF Opt
    <2> QED
      BY <1>4, <2>5, <2>9, <2>10, <2>11, <2>12, <2>13, <2>14, <2>15, Sessions
  <1>9. CASE ~ OK
    <2> DEFINE c == [auth[fd] EXCEPT !.at = "failed"]
    <2>1. c \in Coroutine /\ c.at = "failed"
      BY <1>1 DEF Coroutine, Label
    <2>2. auth' = [auth EXCEPT ![fd] = c] /\ UNCHANGED saved_session
      BY <1>2, <1>6, <1>9 DEF SlaveChallenge, SavedAt, Goto
    <2>3. CoInv(fd)'
      <3>1. auth'[fd] = c
        BY <2>2 DEF IInv, TypeOK, AuthType
      <3> QED
        BY <1>3, <1>5, <2>1, <3>1 DEF CoInv, CoHash, CoSession, CoClient
    <2>4. UNCHANGED Shared
      BY <1>4, <1>5, <2>2 DEF Shared
    <2>5. /\ \A g \in Fd : inbox'[g] \in {inbox[g], Nil}
          /\ inbox' \in [Fd -> Opt(Message)]
          /\ sock' \in [Fd -> {"none", "open", "dropped", "closed"}]
          /\ \A g \in Fd : sock'[g] = "none" => sock[g] = "none"
          /\ connection' \subseteq Fd /\ auth_timer' \subseteq Fd
          /\ nfault' \in 0 .. MaxFault
          /\ told' \in [Fd -> Opt(Told)]
          /\ \A k \in Fd : told[k] # Nil => told'[k] # Nil
      BY <1>4, <1>5 DEF IInv, TypeOK, ClientType, SlaveType, RedisType
    <2> HIDE DEF c
    <2> QED
      BY <2>1, <2>2, <2>3, <2>4, <2>5, Quiet
  <1> QED
    BY <1>8, <1>9

LEMMA SessionTimeoutInv ==
    ASSUME IInv, NEW s \in Session, NEW k \in Fd, SessionTimeout(s, k)
    PROVE  IInv'
  <1>1. SetSession(s, Nil) /\ expire_timer' = expire_timer \ {<<s, k>>}
    BY DEF SessionTimeout, SetSession, IInv, TimerInv
  <1>2. UNCHANGED <<connection, auth_timer, session_id, auth, redisVars,
                    clientVars, login>>
    BY DEF SessionTimeout
  <1>3. Nil \in Opt(Saved)
    BY DEF Opt
  <1>4. \A r \in Session \ {s} : SavedAt(r)' = SavedAt(r)
    BY <1>1, <1>3, SavedExcept DEF IInv
  <1>5. TimerInv'
    <2>1. ASSUME NEW q \in Session, NEW h \in Fd, <<q, h>> \in expire_timer'
          PROVE  SavedAt(q)' # Nil /\ SavedAt(q)'.key = h
      <3>1. SavedAt(q) # Nil /\ SavedAt(q).key = h
        BY <1>1, <2>1 DEF IInv, TimerInv
      <3>2. q # s
        BY <1>1, <2>1, <3>1 DEF IInv, TimerInv, SessionTimeout
      <3> QED
        BY <1>4, <3>1, <3>2
    <2> QED
      BY <2>1 DEF TimerInv
  <1>6. LoginInv'
    BY <1>2 DEF IInv, LoginInv, User, redisVars
  <1>7. /\ auth' \in [Fd -> Coroutine]
        /\ expire_timer' \subseteq Session \X Fd
        /\ login' \in [Login -> Opt(LoginState)]
    BY <1>1, <1>2 DEF IInv, TypeOK, AuthType, SlaveType, ClientType
  <1>8. \A g \in Fd : auth'[g] = auth[g]
    BY <1>2
  <1> QED
    BY <1>1, <1>2, <1>3, <1>5, <1>6, <1>7, <1>8, Sessions

LEMMA SlaveVerifyInv ==
    ASSUME IInv, NEW g \in Login, SlaveVerify(g)
    PROVE  IInv'
  <1>1. PICK q \in LoginState : q = login[g]
    BY DEF SlaveVerify, IInv, TypeOK, ClientType, Opt
  <1>2. PICK r \in Request, s \in Session, k \in Fd :
            r = q.request /\ s = r.session /\ k = r.key
    BY DEF LoginState, Request
  <1> DEFINE t == saved_session[Place(s)][s]
             OK == t # Nil /\ t.key = r.key /\ t.token = r.text
  <1>3. SavedAt(s) = t /\ t \in Opt(Saved)
    BY SavedType DEF SavedAt, IInv
  <1>4. UNCHANGED <<connection, auth_timer, expire_timer, session_id, auth,
                    redisVars, clientVars>>
    BY DEF SlaveVerify
  <1>5. q.account = Nil /\ q # Nil
    BY <1>1 DEF SlaveVerify, IInv, LoginInv
  <1>6. UNCHANGED <<user, user_list>>
    BY <1>4 DEF redisVars
  <1>7. CASE OK
    <2>1. t \in Saved
      BY <1>3, <1>7 DEF Opt
    <2>2. PICK v \in Saved : v = [t EXCEPT !.token = Nil]
      BY <2>1 DEF Saved, Opt
    <2>3. v # Nil /\ v.key = t.key /\ v.account = t.account
      BY <2>1, <2>2, NilAssumption DEF Saved
    <2>4. s < session_id /\ Owner(t.key, t.account)
      BY <1>7, PlaceType DEF IInv, SavedInv
    <2>5. SetSession(s, v)
      BY <1>1, <1>2, <1>7, <2>2 DEF SlaveVerify, SetSession, SavedAt
    <2>6. login' = [login EXCEPT ![g] =
                        [q EXCEPT !.verified = TRUE, !.account = t.account]]
      BY <1>1, <1>2, <1>7 DEF SlaveVerify, SavedAt
    <2>7. [q EXCEPT !.verified = TRUE, !.account = t.account] \in LoginState
      BY <2>1 DEF LoginState, Saved, Opt
    <2>8. login' \in [Login -> Opt(LoginState)]
      BY <2>6, <2>7 DEF IInv, TypeOK, ClientType, Opt
    <2>9. LoginInv'
      <3>1. /\ login'[g].verified /\ login'[g].account = t.account
            /\ login'[g].request = r
            /\ \A h \in Login \ {g} : login'[h] = login[h]
        BY <1>2, <2>6 DEF IInv, TypeOK, ClientType, LoginState
      <3>2. t.account = User(r.key).account
        BY <1>7, <2>4 DEF Owner
      <3>3. LoginInv
        BY DEF IInv
      <3> HIDE DEF t, OK
      <3>4. ASSUME NEW h \in Login, login'[h] # Nil
            PROVE  /\ ~ login'[h].verified => login'[h].account = Nil
                   /\ login'[h].account # Nil => login'[h].account =
                            user[NameOf[login'[h].request.key]].account
        <4>1. CASE h = g
          BY <3>1, <3>2, <4>1 DEF User
        <4>2. CASE h # g
          BY <3>1, <3>3, <3>4, <4>2 DEF LoginInv, User
        <4> QED
          BY <4>1, <4>2
      <3> QED
        BY <1>6, <3>4 DEF LoginInv, User
    <2>10. /\ SavedAt(s)' = v
           /\ \A p \in Session \ {s} : SavedAt(p)' = SavedAt(p)
      BY <2>5, SavedExcept DEF IInv, Opt
    <2>11. TimerInv'
      <3>1. ASSUME NEW p \in Session, NEW h \in Fd, <<p, h>> \in expire_timer'
            PROVE  SavedAt(p)' # Nil /\ SavedAt(p)'.key = h
        <4>1. SavedAt(p) # Nil /\ SavedAt(p).key = h
          BY <1>4, <3>1 DEF IInv, TimerInv
        <4>2. CASE p = s
          BY <1>3, <2>3, <2>10, <4>1, <4>2
        <4>3. CASE p # s
          BY <2>10, <4>1, <4>3
        <4> QED
          BY <4>2, <4>3
      <3> QED
        BY <3>1 DEF TimerInv
    <2>12. \A h \in Fd :
                auth'[h].at = "slave_save" /\ auth[h].session = s => v = Nil
      <3>1. ASSUME NEW h \in Fd, auth'[h].at = "slave_save",
                   auth[h].session = s
            PROVE  FALSE
        <4>1. auth[h].at = "slave_save"
          BY <1>4, <3>1
        <4>2. SavedAt(s) = Nil
          BY <3>1, <4>1 DEF IInv, Coroutines, CoInv, CoSession
        <4> QED
          BY <1>3, <1>7, <4>2
      <3> QED
        BY <3>1
    <2>13. /\ auth' \in [Fd -> Coroutine]
           /\ expire_timer' \subseteq Session \X Fd
           /\ \A h \in Fd : auth'[h] = auth[h]
           /\ v \in Opt(Saved)
      BY <1>4 DEF IInv, TypeOK, AuthType, SlaveType, Opt
    <2>14. Owner(v.key, v.account)
      BY <2>3, <2>4
    <2> QED
      BY <1>4, <2>4, <2>5, <2>8, <2>9, <2>11, <2>12, <2>13, <2>14, Sessions
  <1>8. CASE ~ OK
    <2>1. /\ login' = [login EXCEPT ![g] = [q EXCEPT !.verified = TRUE]]
          /\ UNCHANGED saved_session
      BY <1>1, <1>2, <1>8 DEF SlaveVerify, SavedAt
    <2>2. [q EXCEPT !.verified = TRUE] \in LoginState
      BY DEF LoginState
    <2>3. TypeOK'
      BY <1>4, <2>1, <2>2
      DEF IInv, TypeOK, SlaveType, AuthType, RedisType, ClientType, redisVars,
          clientVars, Opt
    <2>4. Coroutines' /\ Apart'
      BY <1>4, <2>1 DEF IInv, Coroutines, CoInv, CoHash, CoSession, CoClient,
         Apart, Owner, User, SavedAt, redisVars, clientVars
    <2>5. UserInv' /\ SavedInv' /\ TimerInv' /\ AccountListed'
      BY <1>4, <2>1 DEF IInv, UserInv, SavedInv, TimerInv, AccountListed, Owner,
         User, SavedAt, redisVars, clientVars
    <2>6. LoginInv'
      <3>1. login'[g].account = Nil
            /\ \A h \in Login \ {g} : login'[h] = login[h]
        BY <1>5, <2>1 DEF IInv, TypeOK, ClientType, LoginState
      <3> QED
        BY <1>6, <3>1 DEF IInv, LoginInv, User
    <2> QED
      BY <2>3, <2>4, <2>5, <2>6 DEF IInv
  <1> QED
    BY <1>7, <1>8

-----------------------------------------------------------------------------
(* The theorems                                                            *)

LEMMA StepInv == IInv /\ [Next]_vars => IInv'
  <1> SUFFICES ASSUME IInv, [Next]_vars PROVE IInv'
    OBVIOUS
  <1>1. ASSUME NEW fd \in Fd, AuthStep(fd) PROVE IInv'
    BY <1>1, SlaveAuthInv, ReadFailedInv, ReadHandshakeInv, ExistsInv,
       LoadIdInv, LoadSaltInv, LoadVerifierInv, HandshakeInv, ReadAuthInv,
       HsetnxInv, HmsetInv, SaddInv, SaveSessionInv, SlaveSaveInv,
       AuthReplyInv, ReadChallengeInv, SlaveChallengeInv, ChallengeReplyInv
    DEF AuthStep
  <1>2. CASE ServerStep
    BY <1>1, <1>2, AuthTimeoutInv, SessionTimeoutInv, SlaveVerifyInv
    DEF ServerStep
  <1>3. CASE \E fd \in Fd : ClientStep(fd) \/ Fault(fd)
    BY <1>3, ConnectInv, SendHandshakeInv, SendChallengeInv, DropInv, FaultInv
    DEF ClientStep
  <1>4. CASE \E g \in Login, k \in Fd : Ask(g, k)
    BY <1>4, AskInv
  <1>5. CASE UNCHANGED vars
    <2>1. UNCHANGED Shared /\ UNCHANGED <<auth, told, nfault, inbox, sock>>
      BY <1>5 DEF vars, Shared, slaveVars, redisVars, clientVars
    <2>2. TypeOK'
      BY <1>5
      DEF vars, IInv, TypeOK, SlaveType, AuthType, RedisType, ClientType,
          slaveVars, redisVars, clientVars
    <2>3. \A g \in Fd : CoClient(g)'
      BY <2>1 DEF IInv, Coroutines, CoInv, CoClient
    <2> QED
      BY <2>1, <2>2, <2>3, Still
  <1> QED
    BY <1>2, <1>3, <1>4, <1>5 DEF Next

LEMMA Inductive == Spec => []IInv
  BY InitInv, StepInv, PTL DEF Spec

\* Every variable has its type, whatever the clients and redis do.
THEOREM TypeCorrect == Spec => []TypeOK
  <1>1. IInv => TypeOK
    BY DEF IInv
  <1> QED
    BY <1>1, Inductive, PTL

\* A session is of the account of its client's name, and the client had the
\* password (login_slave.lua:57-67, account.lua:54).
THEOREM OwnerHolds == Spec => []SessionOwner
  <1>1. IInv => SessionOwner
    <2> SUFFICES ASSUME IInv PROVE SessionOwner
      OBVIOUS
    <2>1. ASSUME NEW g \in Login, admitted[g] # Nil
          PROVE  admitted[g].account = User(login[g].request.key).account
      <3>1. login[g] # Nil /\ login[g].account # Nil
            /\ admitted[g].account = login[g].account
        BY <2>1 DEF admitted
      <3> QED
        BY <3>1 DEF IInv, LoginInv
    <2> QED
      BY <2>1 DEF IInv, SavedInv, Owner, SessionOwner
  <1> QED
    BY <1>1, Inductive, PTL

\* A session whose timer has not rung is where the master looks for it, for
\* any number of slaves (login_server.lua:47, 53, 58).
THEOREM SessionFoundHolds == Spec => []SessionFound
  <1>1. IInv => SessionFound
    BY DEF IInv, TimerInv, SessionFound, TypeOK, ClientType, Told, Opt
  <1> QED
    BY <1>1, Inductive, PTL

\* A listed account is complete and nobody replaces it, whichever requests to
\* redis fail and however many clients create the name (account.lua:54-60).
THEOREM AccountsListed == Spec => []AccountListed
  <1>1. IInv => AccountListed
    BY DEF IInv
  <1> QED
    BY <1>1, Inductive, PTL

-----------------------------------------------------------------------------
(* The login server implements SessionTokens, and so no token admits two   *)
(* logins.  The mapping is that of LoginServer: a session that the master  *)
(* has numbered counts as used when its slave has saved it.                *)

TokenVars == <<live, used, admitted>>

-----------------------------------------------------------------------------
(* What a step changes of the mapped state                                 *)

LEMMA SameLive ==
    ASSUME UNCHANGED saved_session
    PROVE  UNCHANGED live
  BY DEF live, SavedAt, Place

LEMMA LiveAt ==
    ASSUME IInv, NEW s \in Session
    PROVE  /\ SavedAt(s) = Nil => live[s] = Nil
           /\ SavedAt(s) # Nil =>
                /\ live[s] = [account |-> SavedAt(s).account,
                              token   |-> SavedAt(s).token,
                              issued  |-> SavedAt(s).challenge]
                /\ live[s] \in Live /\ live[s] # Nil
  <1>1. SavedAt(s) \in Opt(Saved)
    BY SavedType DEF IInv
  <1> QED
    BY <1>1, MappingAssumption DEF live, Live, Saved, Opt

\* One session changes.
LEMMA LiveExcept ==
    ASSUME IInv, NEW s \in Session, NEW v \in Opt(Saved), SetSession(s, v)
    PROVE  live' = [live EXCEPT ![s] =
                IF v = Nil THEN Nil
                ELSE [account |-> v.account, token |-> v.token,
                      issued |-> v.challenge]]
  <1>1. /\ SavedAt(s)' = v
        /\ \A r \in Session \ {s} : SavedAt(r)' = SavedAt(r)
    BY SavedExcept DEF IInv
  <1> DEFINE L(t) == IF t = Nil THEN Nil
                     ELSE [account |-> t.account, token |-> t.token,
                           issued |-> t.challenge]
  <1>2. live = [r \in Session |-> L(SavedAt(r))]
    BY DEF live
  <1>3. live' = [r \in Session |-> L(SavedAt(r)')]
    BY DEF live
  <1> HIDE DEF L
  <1>4. live' = [live EXCEPT ![s] = L(v)]
    BY <1>1, <1>2, <1>3
  <1> QED
    BY <1>4 DEF L

LEMMA SameAdmitted ==
    ASSUME UNCHANGED login
    PROVE  UNCHANGED admitted
  BY DEF admitted

\* No coroutine comes to slave_save or leaves it.
LEMMA SameUsed ==
    ASSUME UNCHANGED session_id,
           \A g \in Fd : auth'[g] = auth[g] \/
                (auth'[g].at # "slave_save" /\ auth[g].at # "slave_save")
    PROVE  UNCHANGED used
  <1>1. \A s \in Session : Unsaved(s)' <=> Unsaved(s)
    BY DEF Unsaved
  <1> QED
    BY <1>1 DEF used

LEMMA QuietToken ==
    ASSUME IInv, UNCHANGED <<session_id, saved_session, login>>,
           NEW fd \in Fd, NEW c,
           auth' = [auth EXCEPT ![fd] = c],
           c.at # "slave_save", auth[fd].at # "slave_save"
    PROVE  UNCHANGED TokenVars
  <1>1. \A g \in Fd : auth'[g] = auth[g] \/
            (auth'[g].at # "slave_save" /\ auth[g].at # "slave_save")
    BY DEF IInv, TypeOK, AuthType
  <1> QED
    BY <1>1, SameLive, SameAdmitted, SameUsed DEF TokenVars

-----------------------------------------------------------------------------
(* Each step of the login server is a step of SessionTokens, or none       *)

LEMMA ReadToken ==
    ASSUME IInv, NEW fd \in Fd,
           ReadHandshake(fd) \/ ReadAuth(fd) \/ ReadChallenge(fd)
    PROVE  UNCHANGED TokenVars
  <1>1. auth[fd] \in Coroutine
    BY DEF IInv, TypeOK, AuthType
  <1>2. UNCHANGED <<session_id, saved_session, login>>
        /\ auth[fd].at # "slave_save"
    BY DEF ReadHandshake, ReadAuth, ReadChallenge, Read, slaveVars
  <1>3. \A l : [auth[fd] EXCEPT !.at = l].at = l
    BY <1>1 DEF Coroutine
  <1>4. [auth[fd] EXCEPT !.at = "challenge", !.request = inbox[fd].request].at
            = "challenge"
    BY <1>1 DEF Coroutine
  <1>5. PICK c : auth' = [auth EXCEPT ![fd] = c] /\ c.at # "slave_save"
    <2>1. CASE ReadHandshake(fd)
      BY <1>3, <2>1 DEF ReadHandshake, Read
    <2>2. CASE ReadAuth(fd)
      BY <1>3, <2>2 DEF ReadAuth, Read
    <2>3. CASE ReadChallenge(fd)
      BY <1>4, <2>3 DEF ReadChallenge, Read
    <2> QED
      BY <2>1, <2>2, <2>3
  <1> QED
    BY <1>2, <1>5, QuietToken

LEMMA DatabaseToken ==
    ASSUME IInv, NEW fd \in Fd,
           \/ Exists(fd) \/ LoadId(fd) \/ LoadSalt(fd) \/ LoadVerifier(fd)
           \/ Hsetnx(fd) \/ Hmset(fd) \/ Sadd(fd) \/ Fault(fd)
    PROVE  UNCHANGED TokenVars
  <1>1. auth[fd] \in Coroutine
    BY DEF IInv, TypeOK, AuthType
  <1>2. auth[fd].at \in Database /\ \E c : DbStep(fd, c) /\ c.at # "slave_save"
    <2>1. \A l : [auth[fd] EXCEPT !.at = l].at = l
      BY <1>1 DEF Coroutine
    <2>2. /\ [auth[fd] EXCEPT !.at = "load_salt",
                               !.id = User(fd).account].at = "load_salt"
          /\ [auth[fd] EXCEPT !.at = "load_verifier",
                !.salt = User(fd).verifier # Nil].at = "load_verifier"
          /\ [auth[fd] EXCEPT !.at = "handshake",
                !.verifier = User(fd).verifier].at = "handshake"
          /\ [auth[fd] EXCEPT !.at = "save_session", !.id = fd].at
                = "save_session"
      BY <1>1 DEF Coroutine
    <2>3. [auth[fd] EXCEPT !.at = "handshake", !.salt = TRUE,
                           !.verifier = Default].at = "handshake"
      BY <1>1 DEF Coroutine
    <2>4. CASE Exists(fd)
      BY <2>1, <2>3, <2>4 DEF Exists, Database
    <2>5. CASE LoadId(fd) \/ LoadSalt(fd) \/ LoadVerifier(fd)
      BY <2>2, <2>5 DEF LoadId, LoadSalt, LoadVerifier, Database
    <2>6. CASE Hsetnx(fd) \/ Hmset(fd) \/ Fault(fd)
      BY <2>1, <2>6 DEF Hsetnx, Hmset, Fault, Database
    <2>7. CASE Sadd(fd)
      BY <2>2, <2>7 DEF Sadd, Database
    <2> QED
      BY <2>4, <2>5, <2>6, <2>7
  <1>3. PICK c : DbStep(fd, c) /\ c.at # "slave_save"
    BY <1>2
  <1>4. auth[fd].at # "slave_save"
    BY <1>2 DEF Database
  <1>5. UNCHANGED <<session_id, saved_session, login>>
        /\ auth' = [auth EXCEPT ![fd] = c]
    BY <1>3 DEF DbStep, slaveVars
  <1> QED
    BY <1>3, <1>4, <1>5, QuietToken

LEMMA GotoToken ==
    ASSUME IInv, NEW fd \in Fd,
           \/ Connect(fd) \/ SlaveAuth(fd) \/ ReadFailed(fd) \/ Handshake(fd)
           \/ AuthReply(fd) \/ ChallengeReply(fd)
    PROVE  UNCHANGED TokenVars
  <1>1. auth[fd] \in Coroutine
    BY DEF IInv, TypeOK, AuthType
  <1>2. auth[fd].at # "slave_save"
    BY DEF Connect, SlaveAuth, ReadFailed, Handshake, AuthReply,
           ChallengeReply, Reading, IInv, Coroutines, CoInv, CoClient
  <1>3. PICK l : Goto(fd, l) /\ l # "slave_save"
    BY DEF Connect, SlaveAuth, ReadFailed, Handshake, AuthReply,
           ChallengeReply
  <1>4. UNCHANGED <<session_id, saved_session, login>>
    BY DEF Connect, SlaveAuth, ReadFailed, Handshake, AuthReply,
           ChallengeReply, slaveVars
  <1> DEFINE c == [auth[fd] EXCEPT !.at = l]
  <1>5. c.at = l /\ auth' = [auth EXCEPT ![fd] = c]
    BY <1>1, <1>3 DEF Coroutine, Goto
  <1> HIDE DEF c
  <1> QED
    BY <1>2, <1>3, <1>4, <1>5, QuietToken

\* Steps of clients, and a timer that closes a connection.
LEMMA ClientToken ==
    ASSUME IInv,
           \/ \E fd \in Fd : \/ SendHandshake(fd) \/ SendAuth(fd)
                             \/ SendChallenge(fd) \/ Drop(fd)
                             \/ AuthTimeout(fd)
           \/ \E g \in Login, k \in Fd : Ask(g, k)
    PROVE  UNCHANGED TokenVars
  <1>1. UNCHANGED <<session_id, saved_session, auth>>
    BY DEF SendHandshake, SendAuth, SendChallenge, Send, Drop, AuthTimeout,
           Ask, slaveVars
  <1>2. UNCHANGED admitted
    <2>1. CASE UNCHANGED login
      BY <2>1, SameAdmitted
    <2>2. CASE \E g \in Login, k \in Fd : Ask(g, k)
      <3>1. PICK g \in Login, k \in Fd : Ask(g, k)
        BY <2>2
      <3>2. login[g] = Nil /\ login'[g].account = Nil
            /\ \A h \in Login \ {g} : login'[h] = login[h]
        BY <3>1 DEF Ask, IInv, TypeOK, ClientType
      <3>3. \A h \in Login : admitted'[h] = admitted[h]
        BY <3>2 DEF admitted
      <3> QED
        BY <3>3 DEF admitted
    <2> QED
      BY <2>1, <2>2
      DEF SendHandshake, SendAuth, SendChallenge, Send, Drop, AuthTimeout
  <1> QED
    BY <1>1, <1>2, SameLive, SameUsed DEF TokenVars

LEMMA SaveSessionToken ==
    ASSUME IInv, NEW fd \in Fd, SaveSession(fd)
    PROVE  UNCHANGED TokenVars
  <1>1. UNCHANGED <<saved_session, login>>
    BY DEF SaveSession, slaveVars
  <1>2. PICK s \in Session : s = session_id /\ s \in Int
    BY BoundAssumption DEF SaveSession, Session, IInv, TypeOK, SlaveType
  <1>3. /\ auth'[fd].at = "slave_save" /\ auth'[fd].session = s
        /\ \A g \in Fd \ {fd} : auth'[g] = auth[g]
        /\ session_id' = s + 1 /\ auth[fd].at = "save_session"
    BY <1>2 DEF SaveSession, IInv, TypeOK, AuthType, Coroutine
  <1>4. \A r \in Session : Unsaved(r)' <=> Unsaved(r) \/ r = s
    BY <1>3 DEF Unsaved
  <1>5. \A r \in Session : r < s + 1 <=> r < s \/ r = s
    BY <1>2 DEF Session
  <1>6. \A r \in Session : ~ (r = s /\ r < s)
    BY <1>2
  <1>7. used' = {r \in Session : r < s + 1 /\ ~ Unsaved(r)'}
    BY <1>3 DEF used
  <1>8. used = {r \in Session : r < s /\ ~ Unsaved(r)}
    BY <1>2 DEF used
  <1>9. UNCHANGED used
    BY <1>4, <1>5, <1>6, <1>7, <1>8
  <1> QED
    BY <1>1, <1>9, SameLive, SameAdmitted DEF TokenVars

LEMMA OpenToken ==
    ASSUME IInv, NEW fd \in Fd, SlaveSave(fd)
    PROVE  \E s \in Session, id \in Id : Tokens!Open(s, id)
  <1>1. CoInv(fd) /\ auth[fd].at = "slave_save" /\ auth[fd] \in Coroutine
    BY DEF IInv, Coroutines, SlaveSave, TypeOK, AuthType
  <1>2. PICK s \in Session, id \in Id :
            /\ s = auth[fd].session /\ id = auth[fd].id
            /\ s < session_id /\ auth[fd].place = Place(s)
    BY <1>1 DEF CoInv, CoSession, CoHash, Coroutine, Opt
  <1>3. PICK v \in Saved :
            v = [account |-> id, key |-> fd, challenge |-> 0, token |-> Nil]
    BY DEF Saved, Opt
  <1>4. v # Nil /\ v \in Opt(Saved) /\ SetSession(s, v)
    BY <1>2, <1>3, NilAssumption DEF SlaveSave, SetSession, Opt
  <1>5. live' = [live EXCEPT ![s] = [account |-> id, token |-> Nil, issued |-> 0]]
    BY <1>3, <1>4, LiveExcept
  <1>6. UNCHANGED <<session_id, login>>
    BY DEF SlaveSave
  <1>7. /\ auth'[fd].at # "slave_save"
        /\ \A g \in Fd \ {fd} : auth'[g] = auth[g]
    BY DEF SlaveSave, Goto, IInv, TypeOK, AuthType, Coroutine
  <1>8. Unsaved(s) /\ ~ Unsaved(s)'
    BY <1>1, <1>2, <1>7 DEF Unsaved, IInv, Apart
  <1>9. \A r \in Session \ {s} : Unsaved(r)' <=> Unsaved(r)
    BY <1>2, <1>7 DEF Unsaved
  <1>10. s \notin used /\ used' = used \cup {s}
    BY <1>2, <1>6, <1>8, <1>9 DEF used
  <1> QED
    BY <1>5, <1>6, <1>10, SameAdmitted DEF Tokens!Open

LEMMA IssueToken ==
    ASSUME IInv, NEW fd \in Fd, SlaveChallenge(fd)
    PROVE  (\E s \in Session : Tokens!Issue(s)) \/ UNCHANGED TokenVars
  <1>1. CoInv(fd) /\ auth[fd].at = "challenge" /\ auth[fd] \in Coroutine
    BY DEF IInv, Coroutines, SlaveChallenge, TypeOK, AuthType
  <1>2. PICK r \in Request, s \in Session :
            r = auth[fd].request /\ s = r.session
    BY <1>1 DEF CoInv, CoClient, Coroutine, Opt, Request
  <1>3. UNCHANGED <<session_id, login>>
    BY DEF SlaveChallenge
  <1>4. /\ auth'[fd].at # "slave_save"
        /\ \A g \in Fd \ {fd} : auth'[g] = auth[g]
    BY DEF SlaveChallenge, Goto, IInv, TypeOK, AuthType, Coroutine
  <1>5. UNCHANGED <<used, admitted>>
    BY <1>1, <1>3, <1>4, SameUsed, SameAdmitted
  <1>6. CASE UNCHANGED saved_session
    BY <1>5, <1>6, SameLive DEF TokenVars
  <1>7. CASE ~ UNCHANGED saved_session
    <2>1. PICK t \in Saved : t = SavedAt(s) /\ t # Nil
      BY <1>2, <1>7, SavedType DEF SlaveChallenge, IInv, Opt
    <2>2. t.challenge \in Nat /\ t.challenge + 1 \in Opt(Nat)
          /\ t.challenge + 1 \in Nat
      BY <2>1 DEF Saved, Opt
    <2>3. PICK v \in Saved : v = Challenged(t)
      BY <2>1, <2>2 DEF Challenged, Saved
    <2>4. v # Nil /\ v \in Opt(Saved) /\ SetSession(s, v)
      BY <1>2, <1>7, <2>1, <2>3, NilAssumption
      DEF SlaveChallenge, SetSession, Opt
    <2>5. /\ v.account = t.account /\ v.token = t.challenge + 1
          /\ v.challenge = t.challenge + 1
      BY <2>1, <2>3 DEF Challenged, Saved
    <2>6. live' = [live EXCEPT ![s] =
            [account |-> t.account, token |-> t.challenge + 1,
             issued |-> t.challenge + 1]]
      BY <2>4, <2>5, LiveExcept
    <2>7. /\ live[s] # Nil
          /\ live[s] = [account |-> t.account, token |-> t.token,
                        issued |-> t.challenge]
      BY <2>1, LiveAt
    <2>8. [live[s] EXCEPT !.token = live[s].issued + 1,
                          !.issued = live[s].issued + 1]
            = [account |-> t.account, token |-> t.challenge + 1,
               issued |-> t.challenge + 1]
      <3> DEFINE l == [account |-> t.account, token |-> t.token,
                       issued |-> t.challenge]
      <3>1. live[s] = l
        BY <2>7
      <3>2. l.issued = t.challenge
        OBVIOUS
      <3>3. \A n : [l EXCEPT !.token = n, !.issued = n]
                    = [account |-> t.account, token |-> n, issued |-> n]
        <4> TAKE n
        <4>1. [l EXCEPT !.token = n]
                = [account |-> t.account, token |-> n, issued |-> t.challenge]
          OBVIOUS
        <4>2. [[account |-> t.account, token |-> n, issued |-> t.challenge]
                EXCEPT !.issued = n]
                = [account |-> t.account, token |-> n, issued |-> n]
          OBVIOUS
        <4> QED
          BY <4>1, <4>2
      <3> HIDE DEF l
      <3> QED
        BY <3>1, <3>2, <3>3
    <2>9. live' = [live EXCEPT ![s].token  = live[s].issued + 1,
                               ![s].issued = live[s].issued + 1]
      BY <2>6, <2>8 DEF live
    <2> QED
      BY <1>5, <2>7, <2>9 DEF Tokens!Issue
  <1> QED
    BY <1>6, <1>7

LEMMA ExpireToken ==
    ASSUME IInv, NEW s \in Session, NEW k \in Fd, SessionTimeout(s, k)
    PROVE  Tokens!Expire(s)
  <1>1. SetSession(s, Nil) /\ SavedAt(s) # Nil
    BY DEF SessionTimeout, SetSession, IInv, TimerInv
  <1>2. live' = [live EXCEPT ![s] = Nil]
    BY <1>1, LiveExcept DEF Opt
  <1>3. live[s] # Nil
    BY <1>1, LiveAt
  <1>4. UNCHANGED <<session_id, auth, login>>
    BY DEF SessionTimeout
  <1>5. UNCHANGED <<used, admitted>>
    BY <1>4, SameUsed, SameAdmitted
  <1> QED
    BY <1>2, <1>3, <1>5 DEF Tokens!Expire

LEMMA AdmitToken ==
    ASSUME IInv, NEW g \in Login, SlaveVerify(g)
    PROVE  (\E s \in Session : Tokens!Admit(g, s)) \/ UNCHANGED TokenVars
  <1>1. PICK q \in LoginState :
            q = login[g] /\ q # Nil /\ q.account = Nil
    BY DEF SlaveVerify, IInv, TypeOK, ClientType, LoginInv, Opt
  <1>2. PICK r \in Request, s \in Session : r = q.request /\ s = r.session
    BY DEF LoginState, Request
  <1>3. UNCHANGED <<session_id, auth>>
    BY DEF SlaveVerify
  <1>4. UNCHANGED used
    BY <1>3, SameUsed
  <1>5. admitted[g] = Nil
    BY <1>1 DEF admitted
  <1> DEFINE t == SavedAt(s)
             OK == t # Nil /\ t.key = r.key /\ t.token = r.text
  <1>6. CASE ~ OK
    <2>1. UNCHANGED saved_session
          /\ login' = [login EXCEPT ![g] = [q EXCEPT !.verified = TRUE]]
      BY <1>1, <1>2, <1>6 DEF SlaveVerify
    <2>2. login'[g].account = Nil
          /\ \A h \in Login \ {g} : login'[h] = login[h]
      BY <1>1, <2>1 DEF IInv, TypeOK, ClientType, LoginState
    <2>3. \A h \in Login : admitted'[h] = admitted[h]
      BY <1>5, <2>2 DEF admitted
    <2>4. UNCHANGED admitted
      BY <2>3 DEF admitted
    <2> QED
      BY <1>4, <2>1, <2>4, SameLive DEF TokenVars
  <1>7. CASE OK
    <2>1. PICK u \in Saved : u = SavedAt(s)
      BY <1>7, SavedType DEF IInv, Opt
    <2>2. PICK v \in Saved : v = [u EXCEPT !.token = Nil]
      BY <2>1 DEF Saved, Opt
    <2>3. /\ v # Nil /\ v \in Opt(Saved)
          /\ v.account = u.account /\ v.token = Nil
          /\ v.challenge = u.challenge
      BY <2>1, <2>2, NilAssumption DEF Saved, Opt
    <2>4. SetSession(s, v)
      BY <1>1, <1>2, <1>7, <2>1, <2>2 DEF SlaveVerify, SetSession, SavedAt
    <2>5. live' = [live EXCEPT ![s] =
            [account |-> u.account, token |-> Nil, issued |-> u.challenge]]
      BY <2>3, <2>4, LiveExcept
    <2>6. /\ live[s] # Nil
          /\ live[s] = [account |-> u.account, token |-> u.token,
                        issued |-> u.challenge]
      BY <1>7, <2>1, LiveAt
    <2>7. live' = [live EXCEPT ![s].token = Nil]
      BY <2>5, <2>6 DEF live
    <2>8. u.token = r.text /\ r.text # Nil /\ u.account # Nil
      BY <1>7, <2>1, NilAssumption DEF Request, Saved, Id
    <2>9. login' = [login EXCEPT ![g] =
                        [q EXCEPT !.verified = TRUE, !.account = u.account]]
      BY <1>1, <1>2, <1>7, <2>1 DEF SlaveVerify
    <2>10. /\ login'[g] = [q EXCEPT !.verified = TRUE, !.account = u.account]
           /\ \A h \in Login \ {g} : login'[h] = login[h]
      BY <2>9 DEF IInv, TypeOK, ClientType
    <2>11. /\ login'[g] \in LoginState /\ login'[g] # Nil
           /\ login'[g].account = u.account /\ login'[g].request = r
      <3>1. [q EXCEPT !.verified = TRUE, !.account = u.account] \in LoginState
        BY <2>1 DEF LoginState, Saved, Opt
      <3> QED
        BY <1>2, <2>10, <3>1, NilAssumption DEF LoginState
    <2>12. admitted'[g] = [session |-> s, token |-> u.token,
                           account |-> u.account]
      BY <1>2, <2>8, <2>11 DEF admitted
    <2>13. \A h \in Login \ {g} : admitted'[h] = admitted[h]
      BY <2>10 DEF admitted
    <2>14. admitted' = [admitted EXCEPT ![g] =
                [session |-> s, token |-> live[s].token,
                 account |-> live[s].account]]
      <3> DEFINE a == [session |-> s, token |-> u.token,
                       account |-> u.account]
      <3>1. /\ admitted = [h \in Login |-> admitted[h]]
            /\ admitted' = [h \in Login |-> admitted'[h]]
        BY DEF admitted
      <3>2. admitted' = [admitted EXCEPT ![g] = a]
        BY <2>12, <2>13, <3>1
      <3>3. live[s].token = u.token /\ live[s].account = u.account
        BY <2>6
      <3> QED
        BY <3>2, <3>3
    <2> QED
      <3>1. live[s].token # Nil
        BY <2>6, <2>8
      <3>2. Tokens!Admit(g, s)
        BY <1>4, <1>5, <2>6, <2>7, <2>14, <3>1 DEF Tokens!Admit
      <3> QED
        BY <3>2
  <1> QED
    BY <1>6, <1>7

LEMMA StepToken ==
    ASSUME IInv, [Next]_vars
    PROVE  [Tokens!Next]_Tokens!vars
  <1>1. SUFFICES Tokens!Next \/ UNCHANGED TokenVars
    BY DEF Tokens!vars, TokenVars
  <1>2. ASSUME NEW fd \in Fd, AuthStep(fd)
        PROVE  Tokens!Next \/ UNCHANGED TokenVars
    <2>1. CASE SlaveSave(fd)
      BY <2>1, OpenToken DEF Tokens!Next
    <2>2. CASE SlaveChallenge(fd)
      BY <2>2, IssueToken DEF Tokens!Next
    <2> QED
      BY <1>2, <2>1, <2>2, ReadToken, DatabaseToken, GotoToken,
         SaveSessionToken
      DEF AuthStep
  <1>3. CASE ServerStep
    <2>1. CASE \E s \in Session, k \in Fd : SessionTimeout(s, k)
      BY <2>1, ExpireToken DEF Tokens!Next
    <2>2. CASE \E g \in Login : SlaveVerify(g)
      BY <2>2, AdmitToken DEF Tokens!Next
    <2> QED
      BY <1>2, <1>3, <2>1, <2>2, ClientToken DEF ServerStep
  <1>4. CASE \E fd \in Fd : ClientStep(fd) \/ Fault(fd)
    BY <1>4, GotoToken, DatabaseToken, ClientToken DEF ClientStep
  <1>5. CASE \E g \in Login, k \in Fd : Ask(g, k)
    BY <1>5, ClientToken
  <1>6. CASE UNCHANGED vars
    <2>1. UNCHANGED <<session_id, saved_session, auth, login>>
      BY <1>6 DEF vars, slaveVars
    <2> QED
      BY <2>1, SameLive, SameUsed, SameAdmitted DEF TokenVars
  <1> QED
    BY <1>3, <1>4, <1>5, <1>6 DEF Next

LEMMA InitToken == Init => Tokens!Init
  <1> SUFFICES ASSUME Init PROVE Tokens!Init
    OBVIOUS
  <1>1. live = [s \in Session |-> Nil]
    BY PlaceType DEF Init, live, SavedAt
  <1>2. used = {}
    BY DEF Init, used, Session
  <1>3. admitted = [g \in Login |-> Nil]
    BY DEF Init, admitted
  <1> QED
    BY <1>1, <1>2, <1>3 DEF Tokens!Init

\* Whatever the clients, the timers and redis do, and in whatever order the
\* messages arrive, the login server does no more than SessionTokens allows.
THEOREM Refinement == Spec => TokensSpec
  <1>1. IInv /\ [Next]_vars => [Tokens!Next]_Tokens!vars
    BY StepToken
  <1> QED
    BY <1>1, InitToken, Inductive, PTL DEF Spec, TokensSpec, Tokens!Spec

-----------------------------------------------------------------------------
(* What SessionTokens promises                                             *)

\* A token that was used is one that was issued for its session, and it is not
\* the one that admits now.
Spent(g) ==
    LET a == admitted[g] IN
    a # Nil =>
        /\ a.session \in used
        /\ live[a.session] # Nil =>
                /\ a.token <= live[a.session].issued
                /\ a.token # live[a.session].token

TokenInv ==
    /\ live \in [Session -> Opt(Live)]
    /\ admitted \in [Login -> Opt(Admitted)]
    /\ \A s \in Session : live[s] # Nil =>
            s \in used /\ (live[s].token # Nil => live[s].token <= live[s].issued)
    /\ \A g \in Login : Spent(g)
    /\ TokenOnce

LEMMA TokenInit == Tokens!Init => TokenInv
  BY DEF Tokens!Init, TokenInv, Spent, TokenOnce, Tokens!TokenOnce, Opt

LEMMA TokenStep ==
    ASSUME TokenInv, [Tokens!Next]_Tokens!vars
    PROVE  TokenInv'
  <1> USE DEF TokenInv
  <1>1. CASE UNCHANGED Tokens!vars
    BY <1>1 DEF Tokens!vars, Spent, TokenOnce, Tokens!TokenOnce
  <1>2. ASSUME NEW s \in Session, NEW id \in Id, Tokens!Open(s, id)
        PROVE  TokenInv'
    <2> DEFINE l == [account |-> id, token |-> Nil, issued |-> 0]
    <2>1. l \in Live
      BY DEF Live, Opt
    <2>2. live' = [live EXCEPT ![s] = l] /\ UNCHANGED admitted
          /\ used' = used \cup {s} /\ s \notin used /\ l.token = Nil
      BY <1>2 DEF Tokens!Open
    <2> HIDE DEF l
    <2>3. live' \in [Session -> Opt(Live)]
      BY <2>1, <2>2 DEF Opt
    <2>4. \A g \in Login : Spent(g)'
      BY <2>2 DEF Spent, Admitted, Opt
    <2>5. TokenOnce'
      BY <2>2 DEF TokenOnce, Tokens!TokenOnce
    <2>6. \A r \in Session : live'[r] # Nil =>
            r \in used' /\ (live'[r].token # Nil =>
                                live'[r].token <= live'[r].issued)
      BY <2>2
    <2> QED
      BY <2>2, <2>3, <2>4, <2>5, <2>6
  <1>3. ASSUME NEW s \in Session, Tokens!Issue(s)
        PROVE  TokenInv'
    <2>1. PICK l \in Live : l = live[s] /\ l.issued \in Nat
      BY <1>3 DEF Tokens!Issue, Opt, Live
    <2>2. PICK m \in Live :
            /\ m = [l EXCEPT !.token = l.issued + 1, !.issued = l.issued + 1]
            /\ m.token = l.issued + 1 /\ m.issued = l.issued + 1
      <3>1. l.issued + 1 \in Nat /\ l.issued + 1 \in Opt(Nat)
        BY <2>1 DEF Opt
      <3>2. [l EXCEPT !.token = l.issued + 1, !.issued = l.issued + 1] \in Live
        BY <3>1 DEF Live
      <3> QED
        BY <3>2 DEF Live
    <2>3. live' = [live EXCEPT ![s] = m] /\ UNCHANGED <<used, admitted>>
          /\ s \in used
      BY <1>3, <2>1, <2>2 DEF Tokens!Issue
    <2>4. live' \in [Session -> Opt(Live)]
      BY <2>2, <2>3 DEF Opt
    <2>5. ASSUME NEW g \in Login PROVE Spent(g)'
      <3>1. CASE admitted[g] # Nil /\ admitted[g].session = s
        <4>1. admitted[g].token \in Nat /\ admitted[g].token <= l.issued
          BY <1>3, <2>1, <3>1 DEF Spent, Admitted, Opt, Tokens!Issue
        <4>2. admitted[g].token <= m.issued /\ admitted[g].token # m.token
          BY <2>1, <2>2, <4>1
        <4> QED
          BY <2>3, <3>1, <4>2 DEF Spent
      <3>2. CASE ~ (admitted[g] # Nil /\ admitted[g].session = s)
        BY <2>3, <3>2 DEF Spent, Admitted, Opt
      <3> QED
        BY <3>1, <3>2
    <2>6. TokenOnce'
      BY <2>3 DEF TokenOnce, Tokens!TokenOnce
    <2>7. \A r \in Session : live'[r] # Nil =>
            r \in used' /\ (live'[r].token # Nil =>
                                live'[r].token <= live'[r].issued)
      BY <2>1, <2>2, <2>3
    <2> QED
      BY <2>3, <2>4, <2>5, <2>6, <2>7
  <1>4. ASSUME NEW s \in Session, NEW g \in Login, Tokens!Admit(g, s)
        PROVE  TokenInv'
    <2>1. PICK l \in Live : l = live[s] /\ l.token \in Nat /\ l.issued \in Nat
      BY <1>4 DEF Tokens!Admit, Opt, Live
    <2>2. PICK m \in Live :
            /\ m = [l EXCEPT !.token = Nil] /\ m.token = Nil
            /\ m.issued = l.issued
      <3> DEFINE n == [l EXCEPT !.token = Nil]
      <3>1. n \in Live /\ n.token = Nil /\ n.issued = l.issued
        BY DEF Live, Opt
      <3> QED
        BY <3>1
    <2>3. PICK a \in Admitted :
            /\ a = [session |-> s, token |-> l.token, account |-> l.account]
            /\ a.session = s /\ a.token = l.token
      <3> DEFINE b == [session |-> s, token |-> l.token, account |-> l.account]
      <3>1. b \in Admitted
        BY <2>1 DEF Live, Admitted
      <3>2. b.session = s /\ b.token = l.token
        OBVIOUS
      <3> HIDE DEF b
      <3>3. \E a \in Admitted : a = b /\ a.session = s /\ a.token = l.token
        BY <3>1, <3>2
      <3> QED
        BY <3>3 DEF b
    <2>4. /\ live' = [live EXCEPT ![s] = m] /\ UNCHANGED used
          /\ admitted' = [admitted EXCEPT ![g] = a]
          /\ s \in used /\ l.token <= l.issued /\ admitted[g] = Nil
          /\ live[s] # Nil
      BY <1>4, <2>1, <2>2, <2>3, NilAssumption DEF Tokens!Admit
    <2>5. /\ live' \in [Session -> Opt(Live)]
          /\ admitted' \in [Login -> Opt(Admitted)]
      BY <2>2, <2>3, <2>4 DEF Opt
    <2>6. /\ admitted'[g] = a
          /\ \A h \in Login \ {g} : admitted'[h] = admitted[h]
          /\ live'[s] = m /\ \A r \in Session \ {s} : live'[r] = live[r]
      BY <2>4
    <2>7. ASSUME NEW h \in Login PROVE Spent(h)'
      <3>1. CASE h = g
        <4>1. a.token <= m.issued /\ a.token # m.token
          BY <2>1, <2>2, <2>3, <2>4, NilAssumption
        <4> QED
          BY <2>3, <2>4, <2>6, <3>1, <4>1 DEF Spent
      <3>2. CASE h # g /\ admitted[h] # Nil /\ admitted[h].session = s
        <4>1. admitted[h].token \in Nat /\ admitted[h].token <= l.issued
          BY <2>1, <2>4, <3>2 DEF Spent, Admitted, Opt
        <4>2. admitted[h].token <= m.issued /\ admitted[h].token # m.token
          BY <2>2, <4>1, NilAssumption
        <4> QED
          BY <2>4, <2>6, <3>2, <4>2 DEF Spent
      <3>3. CASE h # g /\ ~ (admitted[h] # Nil /\ admitted[h].session = s)
        BY <2>4, <2>6, <3>3 DEF Spent, Admitted, Opt
      <3> QED
        BY <3>1, <3>2, <3>3
    <2>8. TokenOnce'
      <3>1. ASSUME NEW h \in Login \ {g}, admitted[h] # Nil
            PROVE  admitted[h].session # a.session \/ admitted[h].token # a.token
        BY <2>1, <2>3, <2>4, <3>1 DEF Spent
      <3> QED
        BY <2>6, <3>1 DEF TokenOnce, Tokens!TokenOnce
    <2>9. \A r \in Session : live'[r] # Nil =>
            r \in used' /\ (live'[r].token # Nil =>
                                live'[r].token <= live'[r].issued)
      BY <2>2, <2>4, <2>6
    <2> QED
      BY <2>5, <2>7, <2>8, <2>9
  <1>5. ASSUME NEW s \in Session, Tokens!Expire(s)
        PROVE  TokenInv'
    <2>1. live' = [live EXCEPT ![s] = Nil] /\ UNCHANGED <<used, admitted>>
      BY <1>5 DEF Tokens!Expire
    <2>2. live' \in [Session -> Opt(Live)]
      BY <2>1 DEF Opt
    <2>3. \A g \in Login : Spent(g)'
      BY <2>1 DEF Spent, Admitted, Opt
    <2> QED
      BY <2>1, <2>2, <2>3 DEF TokenOnce, Tokens!TokenOnce
  <1> QED
    BY <1>1, <1>2, <1>3, <1>4, <1>5 DEF Tokens!Next

\* No token admits two logins at the game gateway, for any number of clients,
\* logins, sessions and slaves (login_slave.lua:161-162).
THEOREM TokenOnceHolds == Spec => []TokenOnce
  <1>1. TokenInv /\ [Tokens!Next]_Tokens!vars => TokenInv'
    BY TokenStep
  <1>2. TokensSpec => []TokenInv
    BY <1>1, TokenInit, PTL DEF TokensSpec, Tokens!Spec
  <1>3. TokenInv => TokenOnce
    BY DEF TokenInv
  <1> QED
    BY <1>2, <1>3, Refinement, PTL
=============================================================================
