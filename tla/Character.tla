----------------------------- MODULE Character ------------------------------
(***************************************************************************)
(* The characters of an account: the requests of the character handler     *)
(* (lualib/agent/character_handler.lua), the records and lists they keep   *)
(* in the database (lualib/db/character.lua over service/database.lua, as  *)
(* JSON by lualib/db/packer.lua), and the save when the agent is closed.   *)
(*                                                                         *)
(* Every request to the database is a step, carried out when it is sent;   *)
(* the coroutines of the agents interleave between them.  A request that   *)
(* fails in redis is answered with nil, which the handler does not tell    *)
(* from an empty list, and of a save does not look at.  A crash of the     *)
(* server leaves only what is in the database.                             *)
(*                                                                         *)
(* The gateway gives an account at most one agent at a time (see Gamed),   *)
(* and ids are those of uuid.gen, distinct and growing (see Uuid).         *)
(***************************************************************************)
EXTENDS Integers, FiniteSets

CONSTANTS
    Account, Agent,
    MaxId,       \* bound: characters created
    Bucket(_),   \* the hash of redis that an id is stored in
    Settled,     \* whether a client stays until its requests are done
    MaxRpc,      \* how many requests of one client run at once
    MaxFault,    \* bound: requests that fail in redis
    Nil          \* Lua's nil

Id == 1 .. MaxId

ASSUME ConstantAssumption ==
    /\ MaxId \in Nat /\ MaxRpc \in Nat /\ MaxFault \in Nat
    /\ Settled \in BOOLEAN
    /\ Nil \notin Account \cup Nat

VARIABLES
    record,      \* database: ids whose character is saved
    list,        \* database: what an account's list decodes to
    open,        \* agents that serve a client
    user,        \* character handler: the account of the agent's last client
    character,   \* user.character: the one picked, or Nil
    co,          \* coroutines of requests
    nid,         \* ids generated so far
    nfault,      \* requests that failed
    owner,       \* history: the account that an id was created for
    deleted,     \* history: ids that a delete was accepted for
    created,     \* history: ids whose creation is complete
    raced,       \* history: accounts with two requests running at once
    holed        \* history: accounts whose list was stored as an object

dbVars      == <<record, list>>
agentVars   == <<open, user, character>>
historyVars == <<owner, deleted, created, raced, holed>>
vars == <<dbVars, agentVars, co, nid, nfault, historyVars>>

Init ==
    /\ record = {}
    /\ list = [account \in Account |-> {}]
    /\ open = {}
    /\ user = [a \in Agent |-> Nil]
    /\ character = [a \in Agent |-> Nil]
    /\ co = {}
    /\ nid = 0 /\ nfault = 0
    /\ owner = [id \in Id |-> Nil]
    /\ deleted = {} /\ created = {} /\ raced = {} /\ holed = {}

-----------------------------------------------------------------------------
(* Lists, as Lua tables and as JSON                                        *)

\* A table is a set of entries: a key, whether it is a string, and an id.
Entry(k, s, id) == [key |-> k, str |-> s, id |-> id]
Ids(t) == {e.id : e \in t}
Border(t) == Cardinality({e \in t : ~ e.str})

\* Mutant: the new id takes the place of the last one.
InsertOver(t, id) == {e \in t : e.str \/ e.key < Border(t)} \cup
                     {Entry(IF Border(t) = 0 THEN 1 ELSE Border(t), FALSE, id)}
\* table.insert counts the keys that are numbers only.
Insert(t, id) == t \cup {Entry(Border(t) + 1, FALSE, id)}
Without(t, id) == {e \in t : e.id # id}

\* cjson, with encode_sparse_array (true, 1, 1), writes a table with the keys
\* 1 .. n as an array; a table with a gap becomes an object, whose keys are
\* decoded as strings, and where a number and a string that read the same are
\* one key: either of them is the last, which counts.
Dense(t) == {e.key : e \in t} = 1 .. Cardinality(t) /\ \A e \in t : ~ e.str
\* Mutant: a table with a gap is not converted, and comes back with its gap.
PackedSparse(t) == {t}
Packed(t) ==
    IF Dense(t) THEN {t}
    ELSE {u \in SUBSET {Entry(e.key, TRUE, e.id) : e \in t} :
             /\ {e.key : e \in u} = {e.key : e \in t}
             /\ \A e, f \in u : e.key = f.key => e = f}

\* What cmd list answers; an error, or no list yet, is taken for an empty list.
Loaded(account, ok) == IF ok THEN list[account] ELSE {}

\* savelist, or nothing when the request fails.
SaveList(account, t, ok) ==
    /\ \E u \in Packed(t) : list' = IF ok THEN [list EXCEPT ![account] = u] ELSE list
    /\ holed' = IF Dense(t) THEN holed ELSE holed \cup {account}

Save(id, ok) == record' = IF ok THEN record \cup {id} ELSE record

\* The request of a step: it may fail.
Request(ok) ==
    /\ ok \/ nfault < MaxFault
    /\ nfault' = IF ok THEN nfault ELSE nfault + 1

-----------------------------------------------------------------------------
(* Clients                                                                 *)

Running(a) == {c \in co : c.agent = a}
Begin(c) == co' = co \cup {c}
Go(c, at) == co' = (co \ {c}) \cup {[c EXCEPT !.at = at]}
End(c) == co' = co \ {c}

\* cmd_agent_open: the agent registers a new user table.
Login(a, account) ==
    /\ a \notin open
    /\ \A b \in open : user[b] # account
    /\ open' = open \cup {a}
    /\ user' = [user EXCEPT ![a] = account]
    /\ character' = [character EXCEPT ![a] = Nil]
    /\ UNCHANGED <<dbVars, co, nid, nfault, historyVars>>

\* cmd_agent_close saves the character that was picked.
Close(a, ok) ==
    /\ a \in open
    /\ Settled => Running(a) = {}
    /\ ok \/ character[a] # Nil
    /\ Request(ok)
    /\ IF character[a] = Nil THEN UNCHANGED record ELSE Save(character[a], ok)
    /\ open' = open \ {a}
    /\ character' = [character EXCEPT ![a] = Nil]
    /\ UNCHANGED <<list, user, co, nid, historyVars>>

\* A client sends a request; it names any id for a character it claims.
Ask(a, op, id, at) ==
    /\ a \in open
    /\ Cardinality(Running(a)) < MaxRpc
    /\ Begin([op |-> op, agent |-> a, at |-> at, id |-> id, tab |-> {}])
    /\ raced' = IF Running(a) = {} THEN raced ELSE raced \cup {user[a]}
    /\ UNCHANGED <<dbVars, agentVars, nfault, deleted, created, holed>>

-----------------------------------------------------------------------------
(* Create: the record, then the list read, extended and saved              *)

Create(a) ==
    /\ nid < MaxId
    /\ nid' = nid + 1
    /\ owner' = [owner EXCEPT ![nid + 1] = user[a]]
    /\ Ask(a, "create", nid + 1, "save")

CreateSave(c, ok) ==
    /\ c.at = "save"
    /\ Request(ok) /\ Save(c.id, ok)
    /\ Go(c, "load")
    /\ UNCHANGED <<list, agentVars, nid, historyVars>>

CreateLoad(c, ok) ==
    /\ c.op = "create" /\ c.at = "load"
    /\ Request(ok)
    /\ co' = (co \ {c}) \cup
             {[c EXCEPT !.at = "savelist", !.tab = Loaded(user[c.agent], ok)]}
    /\ UNCHANGED <<dbVars, agentVars, nid, historyVars>>

CreateDone(c, ok) ==
    /\ c.op = "create" /\ c.at = "savelist"
    /\ Request(ok) /\ SaveList(user[c.agent], Insert(c.tab, c.id), ok)
    /\ created' = created \cup {c.id}
    /\ End(c)
    /\ UNCHANGED <<record, agentVars, nid, owner, deleted, raced>>

-----------------------------------------------------------------------------
(* Pick: the list is searched, the record loaded                           *)

Pick(a, id) == Ask(a, "pick", id, "load") /\ UNCHANGED <<nid, owner>>

\* Mutant: any id is good.
PickAny(c, ok) ==
    /\ c.op = "pick" /\ c.at = "load"
    /\ Request(ok)
    /\ Go(c, "record")
    /\ UNCHANGED <<dbVars, agentVars, nid, historyVars>>
\* check_character: the request goes on only for an id of the user's list.
PickCheck(c, ok) ==
    /\ c.op = "pick" /\ c.at = "load"
    /\ Request(ok)
    /\ IF c.id \in Ids(Loaded(user[c.agent], ok)) THEN Go(c, "record") ELSE End(c)
    /\ UNCHANGED <<dbVars, agentVars, nid, historyVars>>

PickLoad(c, ok) ==
    /\ c.at = "record" /\ c.op = "pick"
    /\ Request(ok)
    /\ IF ok /\ c.id \in record THEN Go(c, "picked") ELSE End(c)
    /\ UNCHANGED <<dbVars, agentVars, nid, historyVars>>

\* The answer: user.character of whoever the agent serves now.
PickDone(c) ==
    /\ c.at = "picked"
    /\ character' = [character EXCEPT ![c.agent] = c.id]
    /\ End(c)
    /\ UNCHANGED <<dbVars, open, user, nid, nfault, historyVars>>

-----------------------------------------------------------------------------
(* Delete: the list without the id, then the record                        *)

Delete(a, id) == Ask(a, "delete", id, "load") /\ UNCHANGED <<nid, owner>>

\* Mutant: the record goes first.
DeleteFirst(c, ok) ==
    /\ c.op = "delete" /\ c.at = "load"
    /\ Request(ok)
    /\ LET t == Loaded(user[c.agent], ok) IN
        IF c.id \in Ids(t)
        THEN /\ co' = (co \ {c}) \cup {[c EXCEPT !.at = "savelist", !.tab = t]}
             /\ deleted' = deleted \cup {c.id}
             /\ record' = record \ {c.id}
        ELSE End(c) /\ UNCHANGED <<deleted, record>>
    /\ UNCHANGED <<list, agentVars, nid, owner, created, raced, holed>>
DeleteLoad(c, ok) ==
    /\ c.op = "delete" /\ c.at = "load"
    /\ Request(ok)
    /\ LET t == Loaded(user[c.agent], ok) IN
        IF c.id \in Ids(t)
        THEN /\ co' = (co \ {c}) \cup {[c EXCEPT !.at = "savelist", !.tab = t]}
             /\ deleted' = deleted \cup {c.id}
        ELSE End(c) /\ UNCHANGED deleted
    /\ UNCHANGED <<dbVars, agentVars, nid, owner, created, raced, holed>>

DeleteSave(c, ok) ==
    /\ c.op = "delete" /\ c.at = "savelist"
    /\ Request(ok) /\ SaveList(user[c.agent], Without(c.tab, c.id), ok)
    /\ Go(c, "record")
    /\ UNCHANGED <<record, agentVars, nid, owner, deleted, created, raced>>

\* del takes the key of the hash, not the field: all its records go.
DeleteRecord(c, ok) ==
    /\ c.op = "delete" /\ c.at = "record"
    /\ Request(ok)
    /\ record' = IF ok THEN {id \in record : Bucket(id) # Bucket(c.id)} ELSE record
    /\ End(c)
    /\ UNCHANGED <<list, agentVars, nid, historyVars>>

-----------------------------------------------------------------------------

Crash ==
    /\ open' = {} /\ co' = {}
    /\ user' = [a \in Agent |-> Nil]
    /\ character' = [a \in Agent |-> Nil]
    /\ UNCHANGED <<dbVars, nid, nfault, historyVars>>

Step(c) ==
    \/ \E ok \in BOOLEAN :
        \/ CreateSave(c, ok) \/ CreateLoad(c, ok) \/ CreateDone(c, ok)
        \/ PickCheck(c, ok) \/ PickLoad(c, ok)
        \/ DeleteLoad(c, ok) \/ DeleteSave(c, ok) \/ DeleteRecord(c, ok)
    \/ PickDone(c)

Next ==
    \/ \E a \in Agent :
        \/ \E account \in Account : Login(a, account)
        \/ \E ok \in BOOLEAN : Close(a, ok)
        \/ Create(a)
        \/ \E id \in 1 .. nid : Pick(a, id) \/ Delete(a, id)
    \/ \E c \in co : Step(c)
    \/ Crash

Spec == Init /\ [][Next]_vars

-----------------------------------------------------------------------------
(* Properties                                                              *)

\* The shape of the state: lists have one entry for a key and an id.
TypeOK ==
    /\ record \subseteq 1 .. nid
    /\ \A account \in Account : LET t == list[account] IN
        /\ t \subseteq [key : 1 .. nid, str : BOOLEAN, id : 1 .. nid]
        /\ \A e, f \in t : e.key = f.key \/ e.id = f.id => e = f
        /\ (\A e \in t : e.str) \/ Dense(t)
    /\ open \subseteq Agent
    /\ user \in [Agent -> Account \cup {Nil}]
    /\ \A a \in open : user[a] # Nil
    /\ \A c \in co : c.agent \in Agent /\ c.id \in 1 .. nid
    /\ nid \in 0 .. MaxId /\ nfault \in 0 .. MaxFault

\* A character stays with the account it was created for: no list holds
\* another account's id, and nobody plays another account's character,
\* whatever ids clients send, however their requests overlap, and whatever
\* fails; as long as clients stay until their requests are done, since the
\* handler reads the agent's user again after every call.
Owned ==
    Settled =>
        /\ \A account \in Account, id \in Id :
              id \in Ids(list[account]) => owner[id] = account
        /\ \A a \in open :
              character[a] # Nil => owner[character[a]] = user[a]

\* A listed character can be loaded: its record is written before it is listed
\* and removed after it is unlisted, so that a crash between the two requests
\* leaves a record too many and never one too few.  It takes that no request
\* fails, that the account sends its requests one at a time, and that no other
\* character has the same hash.
ListedSaved ==
    nfault = 0 => \A account \in Account \ raced :
        \A id \in Ids(list[account]) :
            id \in record \/ \E d \in deleted \ {id} : Bucket(d) = Bucket(id)

\* A character whose creation is complete stays listed until it is deleted,
\* through every order of other creations and deletions, crashes and new
\* logins.  It takes what ListedSaved takes, and that the account never had a
\* list with a gap stored: that comes back with strings for keys.
NothingLost ==
    nfault = 0 => \A id \in created \ deleted :
        owner[id] \notin raced \cup holed => id \in Ids(list[owner[id]])
=============================================================================
