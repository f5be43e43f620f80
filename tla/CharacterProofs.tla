-------------------------- MODULE CharacterProofs ---------------------------
(***************************************************************************)
(* Proofs about Character, for any accounts, agents, hashes, numbers of    *)
(* requests at once and failures.                                          *)
(*                                                                         *)
(* Owned is not inductive: a request under way carries an id, or a copy of *)
(* a list, that it will store later.  OwnInv says that these belong to the *)
(* agent's present user too, which takes that the user stays (Settled).    *)
(*                                                                         *)
(* ShapeInv is the type invariant made inductive.  That a list has one     *)
(* entry for a key rests on how many there are: table.insert takes the key *)
(* after the last number, and it is free and not above the number of ids,  *)
(* since the id of a create under way is in no table yet (Unborn).         *)
(*                                                                         *)
(* KeptInv is behind ListedSaved and NothingLost.  An account whose        *)
(* requests come one at a time has one coroutine; what that one has read   *)
(* is what the database still holds, and the record that a delete removes  *)
(* is of a character that no list holds any more (Ready).                  *)
(***************************************************************************)
EXTENDS Character, FiniteSetTheorems, TLAPS

-----------------------------------------------------------------------------
(* Characters stay with their account                                      *)

\* An id that was created for an account.
Of(id, account) == id \in 1 .. nid /\ owner[id] = account

TypeInv ==
    /\ nid \in 0 .. MaxId
    /\ list = [account \in Account |-> list[account]]
    /\ owner = [id \in Id |-> owner[id]]
    /\ user = [a \in Agent |-> user[a]]
    /\ character = [a \in Agent |-> character[a]]
    /\ open \subseteq Agent
    /\ \A a \in open : user[a] \in Account

ListsOwn == \A account \in Account : \A e \in list[account] : Of(e.id, account)
PlaysOwn == \A a \in open : character[a] # Nil => Of(character[a], user[a])

\* What a coroutine may have read, and will write.
Vouched(c) ==
    /\ c = [op |-> c.op, agent |-> c.agent, at |-> c.at, id |-> c.id, tab |-> c.tab]
    /\ c.agent \in open
    /\ \A e \in c.tab : Of(e.id, user[c.agent])
    /\ c.op = "create" => Of(c.id, user[c.agent])
    /\ c.op = "pick" /\ c.at = "record" => Of(c.id, user[c.agent])
    /\ c.at = "picked" => Of(c.id, user[c.agent])

OwnInv == /\ TypeInv /\ ListsOwn /\ PlaysOwn
          /\ \A c \in co : Vouched(c)

-----------------------------------------------------------------------------

\* JSON brings no id into a list, whatever it does to the keys.
LEMMA PackedIds ==
    ASSUME NEW t, NEW u \in Packed(t), NEW e \in u
    PROVE  \E f \in t : f.id = e.id
<1>1. CASE Dense(t)
  BY <1>1 DEF Packed
<1>2. CASE ~ Dense(t)
  <2>1. e \in {Entry(f.key, TRUE, f.id) : f \in t}
    BY <1>2 DEF Packed
  <2>2. PICK f \in t : e = Entry(f.key, TRUE, f.id)
    BY <2>1
  <2> QED BY <2>2 DEF Entry
<1> QED BY <1>1, <1>2

\* A list with a new id has the ids it had, and the new one.
LEMMA InsertIds ==
    ASSUME NEW t, NEW id, NEW e \in Insert(t, id)
    PROVE  e.id = id \/ e \in t
BY DEF Insert, Entry

\* Saving a list of an account's own ids keeps the lists right.
LEMMA SaveListOwn ==
    ASSUME TypeInv, ListsOwn,
           NEW account \in Account, NEW t, NEW ok \in BOOLEAN,
           \A e \in t : Of(e.id, account),
           SaveList(account, t, ok), UNCHANGED <<nid, owner>>
    PROVE  ListsOwn' /\ list' = [b \in Account |-> list'[b]]
<1>1. PICK u \in Packed(t) :
        list' = IF ok THEN [list EXCEPT ![account] = u] ELSE list
  BY DEF SaveList
<1>2. \A e \in u : Of(e.id, account)
  BY PackedIds
<1>3. list' = [b \in Account |-> list'[b]]
  BY <1>1 DEF TypeInv
<1>4. ListsOwn'
  BY <1>1, <1>2 DEF TypeInv, ListsOwn, Of
<1> QED BY <1>3, <1>4

\* What load_list returns is the account's own.
LEMMA LoadedOwn ==
    ASSUME ListsOwn, NEW account \in Account, NEW ok \in BOOLEAN
    PROVE  \A e \in Loaded(account, ok) : Of(e.id, account)
BY DEF ListsOwn, Loaded

\* A step of a coroutine changes nothing the other coroutines rely on.
LEMMA OthersVouched ==
    ASSUME OwnInv, NEW c \in co, UNCHANGED <<open, user, nid, owner>>,
           TypeInv' /\ ListsOwn' /\ PlaysOwn',
           NEW d, co' \subseteq (co \ {c}) \cup {d}, Vouched(d)'
    PROVE  OwnInv'
<1>1. \A k \in co : Vouched(k)'
  BY DEF OwnInv, Vouched, Of
<1>2. \A k \in co' : Vouched(k)'
  BY <1>1
<1> QED BY <1>2 DEF OwnInv

LEMMA OneLess ==
    ASSUME OwnInv, NEW c \in co, UNCHANGED <<open, user, nid, owner>>, End(c),
           TypeInv' /\ ListsOwn' /\ PlaysOwn'
    PROVE  OwnInv'
BY DEF OwnInv, Vouched, Of, End

\* A coroutine that has read the account's own list.
LEMMA CopyVouched ==
    ASSUME NEW c, Vouched(c), UNCHANGED <<open, user, nid, owner>>,
           NEW t, \A e \in t : Of(e.id, user[c.agent])
    PROVE  Vouched([c EXCEPT !.at = "savelist", !.tab = t])'
<1>1. PICK op, agent, at, id, tab :
        c = [op |-> op, agent |-> agent, at |-> at, id |-> id, tab |-> tab]
  BY DEF Vouched
<1>2. [c EXCEPT !.at = "savelist", !.tab = t]
        = [op |-> op, agent |-> agent, at |-> "savelist", id |-> id, tab |-> t]
  <2>1. [c EXCEPT !.at = "savelist", !.tab = t]
          = [[c EXCEPT !.at = "savelist"] EXCEPT !.tab = t]
    OBVIOUS
  <2>2. [c EXCEPT !.at = "savelist"]
          = [op |-> op, agent |-> agent, at |-> "savelist", id |-> id, tab |-> tab]
    BY <1>1
  <2>3. [[op |-> op, agent |-> agent, at |-> "savelist", id |-> id, tab |-> tab]
           EXCEPT !.tab = t]
          = [op |-> op, agent |-> agent, at |-> "savelist", id |-> id, tab |-> t]
    OBVIOUS
  <2> QED BY <2>1, <2>2, <2>3
<1>3. \A i, account : Of(i, account) => Of(i, account)'
  BY DEF Of
<1> QED BY <1>1, <1>2, <1>3 DEF Vouched

-----------------------------------------------------------------------------

LEMMA InitOwn == ASSUME ConstantAssumption PROVE Init => OwnInv
BY DEF Init, OwnInv, TypeInv, ListsOwn, PlaysOwn, ConstantAssumption

LEMMA AskOwn ==
    ASSUME OwnInv, NEW a \in Agent, NEW op, NEW id, NEW at,
           Ask(a, op, id, at), at \notin {"record", "picked"},
           nid' \in 0 .. MaxId, nid <= nid',
           owner' = [i \in Id |-> owner'[i]],
           \A i \in 1 .. nid : owner'[i] = owner[i],
           op = "create" => id \in 1 .. nid' /\ owner'[id] = user[a]
    PROVE  OwnInv'
<1> DEFINE d == [op |-> op, agent |-> a, at |-> at, id |-> id, tab |-> {}]
<1>1. co' = co \cup {d} /\ UNCHANGED <<record, list, open, user, character>> /\ a \in open
  BY DEF Ask, Begin, dbVars, agentVars
<1>2. \A i, account : Of(i, account) => Of(i, account)'
  BY DEF OwnInv, TypeInv, Of
<1>3. TypeInv' /\ ListsOwn' /\ PlaysOwn'
  BY <1>1, <1>2 DEF OwnInv, TypeInv, ListsOwn, PlaysOwn
<1>4. \A k \in co : Vouched(k)'
  BY <1>1, <1>2 DEF OwnInv, Vouched
<1>5. Vouched(d)'
  BY <1>1 DEF Vouched, Of
<1> QED BY <1>1, <1>3, <1>4, <1>5 DEF OwnInv

\* A step of a coroutine, one case for each place of the program.
LEMMA StepOwn ==
    ASSUME OwnInv, NEW c \in co, Step(c)
    PROVE  OwnInv'
<1>1. Vouched(c) /\ c.agent \in open /\ user[c.agent] \in Account /\ c.agent \in Agent
  BY DEF OwnInv, Vouched, TypeInv
<1>2. ASSUME NEW ok \in BOOLEAN, CreateSave(c, ok) PROVE OwnInv'
  <2>1. UNCHANGED <<list, open, user, character, nid, owner>>
    BY <1>2 DEF CreateSave, agentVars, historyVars
  <2>2. TypeInv' /\ ListsOwn' /\ PlaysOwn'
    BY <2>1 DEF OwnInv, TypeInv, ListsOwn, PlaysOwn, Of
  <2>3. Vouched([c EXCEPT !.at = "load"])'
    BY <1>1, <2>1 DEF Vouched, Of
  <2>4. co' = (co \ {c}) \cup {[c EXCEPT !.at = "load"]}
    BY <1>2 DEF CreateSave, Go
  <2> QED BY <2>1, <2>2, <2>3, <2>4, OthersVouched
<1>3. ASSUME NEW ok \in BOOLEAN, CreateLoad(c, ok) PROVE OwnInv'
  <2>1. UNCHANGED <<list, open, user, character, nid, owner>>
    BY <1>3 DEF CreateLoad, dbVars, agentVars, historyVars
  <2>2. TypeInv' /\ ListsOwn' /\ PlaysOwn'
    BY <2>1 DEF OwnInv, TypeInv, ListsOwn, PlaysOwn, Of
  <2>3. PICK t : t = Loaded(user[c.agent], ok)
    OBVIOUS
  <2>4. \A e \in t : Of(e.id, user[c.agent])
    BY <1>1, <2>3, LoadedOwn DEF OwnInv
  <2>5. Vouched([c EXCEPT !.at = "savelist", !.tab = t])'
    BY <1>1, <2>1, <2>4, CopyVouched
  <2>6. co' = (co \ {c}) \cup {[c EXCEPT !.at = "savelist", !.tab = t]}
    BY <1>3, <2>3 DEF CreateLoad
  <2> QED BY <2>1, <2>2, <2>5, <2>6, OthersVouched
<1>4. ASSUME NEW ok \in BOOLEAN, CreateDone(c, ok) PROVE OwnInv'
  <2>1. /\ UNCHANGED <<open, user, character, nid, owner>>
        /\ End(c) /\ c.op = "create"
        /\ SaveList(user[c.agent], Insert(c.tab, c.id), ok)
    BY <1>4 DEF CreateDone, agentVars
  <2>2. \A e \in Insert(c.tab, c.id) : Of(e.id, user[c.agent])
    BY <1>1, <2>1, InsertIds DEF Vouched
  <2>3. ListsOwn' /\ list' = [b \in Account |-> list'[b]]
    BY <1>1, <2>1, <2>2, SaveListOwn DEF OwnInv
  <2>4. TypeInv' /\ PlaysOwn'
    BY <2>1, <2>3 DEF OwnInv, TypeInv, PlaysOwn, Of
  <2> QED BY <2>1, <2>3, <2>4, OneLess
<1>5. ASSUME NEW ok \in BOOLEAN, PickCheck(c, ok) PROVE OwnInv'
  <2>1. UNCHANGED <<list, open, user, character, nid, owner>>
    BY <1>5 DEF PickCheck, dbVars, agentVars, historyVars
  <2>2. TypeInv' /\ ListsOwn' /\ PlaysOwn'
    BY <2>1 DEF OwnInv, TypeInv, ListsOwn, PlaysOwn, Of
  <2>3. CASE c.id \in Ids(Loaded(user[c.agent], ok))
    <3>1. Of(c.id, user[c.agent])
      BY <1>1, <2>3, LoadedOwn DEF OwnInv, Ids
    <3>2. Vouched([c EXCEPT !.at = "record"])'
      BY <1>1, <2>1, <3>1 DEF Vouched, Of
    <3>3. co' = (co \ {c}) \cup {[c EXCEPT !.at = "record"]}
      BY <1>5, <2>3 DEF PickCheck, Go
    <3> QED BY <2>1, <2>2, <3>2, <3>3, OthersVouched
  <2>4. CASE c.id \notin Ids(Loaded(user[c.agent], ok))
    <3>1. End(c)
      BY <1>5, <2>4 DEF PickCheck
    <3> QED BY <2>1, <2>2, <3>1, OneLess
  <2> QED BY <2>3, <2>4
<1>6. ASSUME NEW ok \in BOOLEAN, PickLoad(c, ok) PROVE OwnInv'
  <2>1. UNCHANGED <<list, open, user, character, nid, owner>>
    BY <1>6 DEF PickLoad, dbVars, agentVars, historyVars
  <2>2. TypeInv' /\ ListsOwn' /\ PlaysOwn'
    BY <2>1 DEF OwnInv, TypeInv, ListsOwn, PlaysOwn, Of
  <2>3. CASE Go(c, "picked")
    <3>1. Of(c.id, user[c.agent])
      BY <1>1, <1>6 DEF PickLoad, Vouched
    <3>2. Vouched([c EXCEPT !.at = "picked"])'
      BY <1>1, <2>1, <3>1 DEF Vouched, Of
    <3>3. co' = (co \ {c}) \cup {[c EXCEPT !.at = "picked"]}
      BY <2>3 DEF Go
    <3> QED BY <2>1, <2>2, <3>2, <3>3, OthersVouched
  <2>4. CASE End(c)
    BY <2>1, <2>2, <2>4, OneLess
  <2> QED BY <1>6, <2>3, <2>4 DEF PickLoad
<1>7. ASSUME PickDone(c) PROVE OwnInv'
  <2>1. /\ UNCHANGED <<list, open, user, nid, owner>> /\ End(c)
        /\ character' = [character EXCEPT ![c.agent] = c.id]
        /\ c.at = "picked"
    BY <1>7 DEF PickDone, dbVars, historyVars
  <2>2. TypeInv' /\ ListsOwn'
    BY <2>1 DEF OwnInv, TypeInv, ListsOwn, Of
  <2>3. PlaysOwn'
    BY <1>1, <2>1 DEF OwnInv, TypeInv, PlaysOwn, Vouched, Of
  <2> QED BY <2>1, <2>2, <2>3, OneLess
<1>8. ASSUME NEW ok \in BOOLEAN, DeleteLoad(c, ok) PROVE OwnInv'
  <2>1. UNCHANGED <<list, open, user, character, nid, owner>>
    BY <1>8 DEF DeleteLoad, dbVars, agentVars
  <2>2. TypeInv' /\ ListsOwn' /\ PlaysOwn'
    BY <2>1 DEF OwnInv, TypeInv, ListsOwn, PlaysOwn, Of
  <2>3. PICK t : t = Loaded(user[c.agent], ok)
    OBVIOUS
  <2>4. CASE End(c)
    BY <2>1, <2>2, <2>4, OneLess
  <2>5. CASE co' = (co \ {c}) \cup {[c EXCEPT !.at = "savelist", !.tab = t]}
    <3>1. \A e \in t : Of(e.id, user[c.agent])
      BY <1>1, <2>3, LoadedOwn DEF OwnInv
    <3>2. Vouched([c EXCEPT !.at = "savelist", !.tab = t])'
      BY <1>1, <2>1, <3>1, CopyVouched
    <3> QED BY <2>1, <2>2, <2>5, <3>2, OthersVouched
  <2> QED BY <1>8, <2>3, <2>4, <2>5 DEF DeleteLoad
<1>9. ASSUME NEW ok \in BOOLEAN, DeleteSave(c, ok) PROVE OwnInv'
  <2>1. /\ UNCHANGED <<open, user, character, nid, owner>>
        /\ Go(c, "record") /\ c.op = "delete"
        /\ SaveList(user[c.agent], Without(c.tab, c.id), ok)
    BY <1>9 DEF DeleteSave, agentVars
  <2>2. \A e \in Without(c.tab, c.id) : Of(e.id, user[c.agent])
    BY <1>1 DEF Vouched, Without
  <2>3. ListsOwn' /\ list' = [b \in Account |-> list'[b]]
    BY <1>1, <2>1, <2>2, SaveListOwn DEF OwnInv
  <2>4. TypeInv' /\ PlaysOwn'
    BY <2>1, <2>3 DEF OwnInv, TypeInv, PlaysOwn, Of
  <2>5. Vouched([c EXCEPT !.at = "record"])'
    BY <1>1, <2>1 DEF Vouched, Of
  <2>6. co' = (co \ {c}) \cup {[c EXCEPT !.at = "record"]}
    BY <2>1 DEF Go
  <2> QED BY <2>1, <2>3, <2>4, <2>5, <2>6, OthersVouched
<1>10. ASSUME NEW ok \in BOOLEAN, DeleteRecord(c, ok) PROVE OwnInv'
  <2>1. UNCHANGED <<list, open, user, character, nid, owner>> /\ End(c)
    BY <1>10 DEF DeleteRecord, agentVars, historyVars
  <2>2. TypeInv' /\ ListsOwn' /\ PlaysOwn'
    BY <2>1 DEF OwnInv, TypeInv, ListsOwn, PlaysOwn, Of
  <2> QED BY <2>1, <2>2, OneLess
<1> QED BY <1>2, <1>3, <1>4, <1>5, <1>6, <1>7, <1>8, <1>9, <1>10 DEF Step

\* Any step.  The user of an agent changes only when no request is under way.
LEMMA NextOwn ==
    ASSUME ConstantAssumption, Settled, OwnInv, [Next]_vars
    PROVE  OwnInv'
<1>1. ASSUME NEW a \in Agent, NEW account \in Account, Login(a, account) PROVE OwnInv'
  <2>1. /\ a \notin open /\ open' = open \cup {a}
        /\ user' = [user EXCEPT ![a] = account]
        /\ character' = [character EXCEPT ![a] = Nil]
        /\ UNCHANGED <<list, co, nid, owner>>
    BY <1>1 DEF Login, dbVars, historyVars
  <2>2. \A b \in open : b # a /\ b \in Agent
    BY <2>1 DEF OwnInv, TypeInv
  <2>3. TypeInv' /\ ListsOwn' /\ PlaysOwn'
    BY <2>1, <2>2 DEF OwnInv, TypeInv, ListsOwn, PlaysOwn, Of
  <2>4. \A c \in co : c.agent \in open /\ c.agent # a /\ user'[c.agent] = user[c.agent]
    BY <2>1, <2>2 DEF OwnInv, Vouched, TypeInv
  <2>5. \A c \in co' : Vouched(c)'
    BY <2>1, <2>4 DEF OwnInv, Vouched, Of
  <2> QED BY <2>3, <2>5 DEF OwnInv
<1>2. ASSUME NEW a \in Agent, NEW ok \in BOOLEAN, Close(a, ok) PROVE OwnInv'
  <2>1. /\ Running(a) = {} /\ open' = open \ {a}
        /\ character' = [character EXCEPT ![a] = Nil]
        /\ UNCHANGED <<list, user, co, nid, owner>>
    BY <1>2 DEF Close, historyVars
  <2>2. TypeInv' /\ ListsOwn' /\ PlaysOwn'
    BY <2>1 DEF OwnInv, TypeInv, ListsOwn, PlaysOwn, Of
  <2>3. \A c \in co : c.agent # a
    BY <2>1 DEF Running
  <2>4. \A c \in co' : Vouched(c)'
    BY <2>1, <2>3 DEF OwnInv, Vouched, Of
  <2> QED BY <2>2, <2>4 DEF OwnInv
<1>3. ASSUME NEW a \in Agent, Create(a) PROVE OwnInv'
  <2>1. /\ nid' = nid + 1 /\ nid < MaxId
        /\ owner' = [owner EXCEPT ![nid + 1] = user[a]]
        /\ Ask(a, "create", nid + 1, "save")
    BY <1>3 DEF Create
  <2>2. /\ nid' \in 0 .. MaxId /\ nid <= nid' /\ nid + 1 \in 1 .. nid'
        /\ owner' = [i \in Id |-> owner'[i]]
        /\ \A i \in 1 .. nid : owner'[i] = owner[i]
        /\ owner'[nid + 1] = user[a]
    <3>1. nid \in Nat /\ nid + 1 \in Id /\ owner = [i \in Id |-> owner[i]]
      BY <2>1 DEF OwnInv, TypeInv, Id, ConstantAssumption
    <3>2. \A i \in 1 .. nid : i # nid + 1 /\ i \in Id
      BY <2>1, <3>1 DEF Id, ConstantAssumption
    <3>3. owner' = [i \in Id |-> owner'[i]] /\ owner'[nid + 1] = user[a]
      BY <2>1, <3>1
    <3>4. \A i \in 1 .. nid : owner'[i] = owner[i]
      BY <2>1, <3>1, <3>2
    <3> QED BY <2>1, <3>1, <3>3, <3>4 DEF ConstantAssumption
  <2>3. "save" \notin {"record", "picked"}
    OBVIOUS
  <2> QED BY <2>1, <2>2, <2>3, AskOwn
<1>4. ASSUME NEW a \in Agent, NEW id \in 1 .. nid, Pick(a, id) \/ Delete(a, id)
      PROVE OwnInv'
  <2>1. /\ Ask(a, "pick", id, "load") \/ Ask(a, "delete", id, "load")
        /\ UNCHANGED <<nid, owner>>
    BY <1>4 DEF Pick, Delete
  <2>2. /\ nid' \in 0 .. MaxId /\ nid <= nid'
        /\ owner' = [i \in Id |-> owner'[i]]
        /\ \A i \in 1 .. nid : owner'[i] = owner[i]
    BY <2>1 DEF OwnInv, TypeInv, ConstantAssumption
  <2> QED BY <2>1, <2>2, AskOwn
<1>5. ASSUME NEW c \in co, Step(c) PROVE OwnInv'
  BY <1>5, StepOwn
<1>6. ASSUME Crash PROVE OwnInv'
  BY <1>6 DEF Crash, OwnInv, TypeInv, ListsOwn, PlaysOwn, Of, dbVars, historyVars
<1>7. ASSUME UNCHANGED vars PROVE OwnInv'
  BY <1>7 DEF vars, dbVars, agentVars, historyVars, OwnInv, TypeInv, ListsOwn,
              PlaysOwn, Vouched, Of
<1> QED BY <1>1, <1>2, <1>3, <1>4, <1>5, <1>6, <1>7 DEF Next

\* No list holds another account's character and nobody plays one, whatever
\* clients send and whatever fails: Owned, of the requests of
\* character_handler.lua.
THEOREM OwnedHolds ==
    ASSUME ConstantAssumption
    PROVE  Spec => []Owned
<1>1. CASE Settled
  <2>1. Init => OwnInv
    BY InitOwn
  <2>2. OwnInv /\ [Next]_vars => OwnInv'
    BY <1>1, NextOwn
  <2>3. OwnInv => Owned
    BY DEF OwnInv, ListsOwn, PlaysOwn, Owned, Ids, Of
  <2> QED BY <2>1, <2>2, <2>3, PTL DEF Spec
<1>2. CASE ~ Settled
  <2>1. Owned
    BY <1>2 DEF Owned
  <2> QED BY <2>1, PTL
<1> QED BY <1>1, <1>2

-----------------------------------------------------------------------------
(* Tables                                                                  *)

\* The entries of a table of n ids at most, and what a stored table is: one
\* entry for an id, one for a key, and keys that are strings, or numbers
\* without a gap.
Row(n) == [key : 1 .. n, str : BOOLEAN, id : 1 .. n]
Listed(t, n) == t \subseteq Row(n) /\ \A e, f \in t : e.id = f.id => e = f
Keyed(t) == \A e, f \in t : e.key = f.key => e = f
Table(t, n) == Listed(t, n) /\ Keyed(t) /\ ((\A e \in t : e.str) \/ Dense(t))

LEMMA RowGrows ==
    ASSUME NEW n \in Nat
    PROVE  Row(n) \subseteq Row(n + 1)
<1>1. 1 .. n \subseteq 1 .. n + 1
  OBVIOUS
<1> QED BY <1>1 DEF Row

LEMMA RowFields ==
    ASSUME NEW n, NEW e \in Row(n)
    PROVE  /\ e.key \in 1 .. n /\ e.str \in BOOLEAN /\ e.id \in 1 .. n
           /\ e = Entry(e.key, e.str, e.id)
BY DEF Row, Entry

\* A table without one of the ids has less than n entries.
LEMMA TableSmall ==
    ASSUME NEW n \in Nat, NEW t, Listed(t, n), NEW id \in 1 .. n, id \notin Ids(t)
    PROVE  /\ IsFiniteSet(t) /\ Cardinality(t) \in Nat
           /\ Cardinality(t) + 1 <= n
<1> DEFINE S == (1 .. n) \ {id}
           f == [e \in t |-> e.id]
<1>1. IsFiniteSet(S) /\ Cardinality(S) = n - 1
  <2>1. IsFiniteSet(1 .. n) /\ Cardinality(1 .. n) = n
    BY FS_Interval
  <2> QED BY <2>1, FS_RemoveElement
<1>2. f \in Injection(t, S)
  <2>1. f \in [t -> S]
    BY RowFields DEF Listed, Ids
  <2>2. \A d, e \in t : f[d] = f[e] => d = e
    BY DEF Listed
  <2> QED BY <2>1, <2>2 DEF Injection, IsInjective
<1>3. IsFiniteSet(t) /\ Cardinality(t) <= Cardinality(S)
  <2> HIDE DEF f, S
  <2> QED BY <1>1, <1>2, FS_Injection
<1>4. Cardinality(t) \in Nat
  BY <1>3, FS_CardinalityType
<1> QED BY <1>1, <1>3, <1>4

\* The key that table.insert takes.
LEMMA BorderKey ==
    ASSUME NEW n \in Nat, NEW t, Table(t, n), NEW id \in 1 .. n, id \notin Ids(t)
    PROVE  /\ Border(t) + 1 \in 1 .. n
           /\ (\A e \in t : ~ e.str) => \A e \in t : e.key # Border(t) + 1
<1>1. IsFiniteSet(t) /\ Cardinality(t) \in Nat /\ Cardinality(t) + 1 <= n
  BY TableSmall DEF Table
<1>2. CASE \A e \in t : e.str
  <2>1. {e \in t : ~ e.str} = {}
    BY <1>2
  <2>2. Border(t) = 0
    BY <2>1, FS_EmptySet DEF Border
  <2> QED BY <1>2, <2>2
<1>3. CASE Dense(t)
  <2>1. {e \in t : ~ e.str} = t
    BY <1>3 DEF Dense
  <2>2. Border(t) = Cardinality(t)
    BY <2>1 DEF Border
  <2>3. \A e \in t : e.key \in 1 .. Cardinality(t)
    BY <1>3 DEF Dense
  <2> QED BY <1>1, <2>2, <2>3
<1> QED BY <1>2, <1>3 DEF Table

\* table.insert of a new id.
LEMMA InsertListed ==
    ASSUME NEW n \in Nat, NEW t, Table(t, n), NEW id \in 1 .. n, id \notin Ids(t)
    PROVE  /\ Listed(Insert(t, id), n)
           /\ Dense(Insert(t, id)) => Keyed(Insert(t, id))
<1> DEFINE d == Entry(Border(t) + 1, FALSE, id)
<1>1. d \in Row(n) /\ d.id = id /\ d.key = Border(t) + 1 /\ d.str = FALSE
  BY BorderKey DEF Row, Entry
<1>2. Insert(t, id) = t \cup {d}
  BY DEF Insert
<1>3. \A e \in t : e.id # d.id
  BY <1>1 DEF Ids
<1>4. Dense(Insert(t, id)) => \A e \in t : e.key # d.key
  BY <1>1, <1>2, BorderKey DEF Dense
<1> HIDE DEF d
<1>5. Listed(t \cup {d}, n)
  BY <1>1, <1>3 DEF Listed, Table
<1>6. (\A e \in t : e.key # d.key) => Keyed(t \cup {d})
  BY DEF Keyed, Table
<1> QED BY <1>2, <1>4, <1>5, <1>6

\* What is read back after a table was saved is a table again.
LEMMA PackedTable ==
    ASSUME NEW n \in Nat, NEW t, Listed(t, n), Dense(t) => Keyed(t), NEW u \in Packed(t)
    PROVE  Table(u, n)
<1>1. CASE Dense(t)
  BY <1>1 DEF Packed, Table
<1>2. CASE ~ Dense(t)
  <2>1. u \subseteq {Entry(e.key, TRUE, e.id) : e \in t} /\ Keyed(u)
    BY <1>2 DEF Packed, Keyed
  <2>2. \A d \in u : d \in Row(n) /\ d.str /\ \E e \in t : d = Entry(e.key, TRUE, e.id)
    <3> SUFFICES ASSUME NEW d \in u
                 PROVE  d \in Row(n) /\ d.str /\ \E e \in t : d = Entry(e.key, TRUE, e.id)
      OBVIOUS
    <3>1. PICK e \in t : d = Entry(e.key, TRUE, e.id)
      BY <2>1
    <3>2. e.key \in 1 .. n /\ e.id \in 1 .. n
      BY RowFields DEF Listed
    <3> QED BY <3>1, <3>2 DEF Entry, Row
  <2>3. \A d, e \in u : d.id = e.id => d = e
    <3> SUFFICES ASSUME NEW d \in u, NEW e \in u, d.id = e.id PROVE d = e
      OBVIOUS
    <3>1. PICK p \in t : d = Entry(p.key, TRUE, p.id)
      BY <2>2
    <3>2. PICK q \in t : e = Entry(q.key, TRUE, q.id)
      BY <2>2
    <3>3. p.id = q.id
      BY <3>1, <3>2 DEF Entry
    <3>4. p = q
      BY <3>3 DEF Listed
    <3> QED BY <3>1, <3>2, <3>4
  <2> QED BY <2>1, <2>2, <2>3 DEF Table, Listed
<1> QED BY <1>1, <1>2

LEMMA WithoutListed ==
    ASSUME NEW n \in Nat, NEW t, Table(t, n), NEW id
    PROVE  Listed(Without(t, id), n) /\ Keyed(Without(t, id))
BY DEF Without, Table, Listed, Keyed

-----------------------------------------------------------------------------
(* Types                                                                   *)

\* What may be stored: a table without the id of a create under way.
Unborn(t) == \A c \in co : c.op = "create" => c.id \notin Ids(t)

\* The record of a coroutine.
Formed(c) == c = [op |-> c.op, agent |-> c.agent, at |-> c.at, id |-> c.id, tab |-> c.tab]

ShapeInv ==
    /\ TypeOK
    /\ list = [account \in Account |-> list[account]]
    /\ \A account \in Account : Table(list[account], nid) /\ Unborn(list[account])
    /\ character \in [Agent -> (1 .. nid) \cup {Nil}]
    /\ \A c \in co : /\ Formed(c)
                     /\ user[c.agent] \in Account
                     /\ Table(c.tab, nid) /\ Unborn(c.tab)
    /\ \A c, d \in co : c.op = "create" /\ d.op = "create" /\ c.id = d.id => c = d

\* What TypeOK says of a list.
LEMMA TableMeans ==
    ASSUME NEW t, NEW n
    PROVE  Table(t, n) <=>
             /\ t \subseteq [key : 1 .. n, str : BOOLEAN, id : 1 .. n]
             /\ \A e, f \in t : e.key = f.key \/ e.id = f.id => e = f
             /\ (\A e \in t : e.str) \/ Dense(t)
BY Zenon DEF Table, Listed, Keyed, Row

\* TypeOK after a step that keeps the number of ids.
LEMMA TypeOKNext ==
    ASSUME record' \subseteq 1 .. nid',
           \A account \in Account : Table(list'[account], nid'),
           open' \subseteq Agent,
           user' \in [Agent -> Account \cup {Nil}],
           \A a \in open' : user'[a] # Nil,
           \A c \in co' : c.agent \in Agent /\ c.id \in 1 .. nid',
           nid' \in 0 .. MaxId, nfault' \in 0 .. MaxFault
    PROVE  TypeOK'
BY TableMeans, Zenon DEF TypeOK

LEMMA EmptyTable == ASSUME NEW n PROVE Table({}, n) /\ Unborn({})
BY DEF Table, Listed, Keyed, Unborn, Ids

LEMMA LoadedTable ==
    ASSUME ShapeInv, NEW account \in Account, NEW ok \in BOOLEAN
    PROVE  Table(Loaded(account, ok), nid) /\ Unborn(Loaded(account, ok))
BY EmptyTable DEF ShapeInv, Loaded

\* Saving a table keeps the lists tables.
LEMMA SaveListTable ==
    ASSUME ShapeInv, NEW account \in Account, NEW t, NEW ok \in BOOLEAN,
           Listed(t, nid), Dense(t) => Keyed(t), SaveList(account, t, ok)
    PROVE  /\ list' = [b \in Account |-> list'[b]]
           /\ \A b \in Account : Table(list'[b], nid)
           /\ \A b \in Account : \A e \in list'[b] :
                 \/ \E f \in list[b] : f.id = e.id
                 \/ \E f \in t : f.id = e.id
<1>1. PICK u \in Packed(t) :
        list' = IF ok THEN [list EXCEPT ![account] = u] ELSE list
  BY DEF SaveList
<1>2. nid \in Nat
  BY DEF ShapeInv, TypeOK
<1>3. Table(u, nid)
  BY <1>2, PackedTable
<1>4. \A e \in u : \E f \in t : f.id = e.id
  <2>1. CASE Dense(t)
    BY <2>1 DEF Packed
  <2>2. CASE ~ Dense(t)
    <3> SUFFICES ASSUME NEW e \in u PROVE \E f \in t : f.id = e.id
      OBVIOUS
    <3>1. PICK f \in t : e = Entry(f.key, TRUE, f.id)
      BY <2>2 DEF Packed
    <3> QED BY <3>1 DEF Entry
  <2> QED BY <2>1, <2>2
<1>5. list' = [b \in Account |-> list'[b]]
  BY <1>1 DEF ShapeInv
<1>6. \A b \in Account : list'[b] = list[b] \/ list'[b] = u
  BY <1>1 DEF ShapeInv
<1> QED BY <1>3, <1>4, <1>5, <1>6 DEF ShapeInv

\* A step of a coroutine that keeps the tables tables, and moves or ends it.
LEMMA MoveShape ==
    ASSUME ShapeInv, NEW c \in co, UNCHANGED <<open, user, nid>>,
           record' \subseteq 1 .. nid, nfault' \in 0 .. MaxFault,
           character' \in [Agent -> (1 .. nid) \cup {Nil}],
           list' = [b \in Account |-> list'[b]],
           \A b \in Account : Table(list'[b], nid) /\ (Unborn(list[b]))',
           \/ End(c)
           \/ \E at, t : /\ co' = (co \ {c}) \cup
                              {[op |-> c.op, agent |-> c.agent, at |-> at,
                                id |-> c.id, tab |-> t]}
                         /\ Table(t, nid) /\ Unborn(t)
    PROVE  ShapeInv'
<1>1. CASE End(c)
  <2>1. co' \subseteq co
    BY <1>1 DEF End
  <2>2. \A d \in co' : Unborn(d.tab)'
    BY <2>1 DEF ShapeInv, Unborn, Ids
  <2>3. \A d \in co' : d.agent \in Agent /\ d.id \in 1 .. nid
    BY <2>1 DEF ShapeInv, TypeOK
  <2>4. TypeOK'
    BY <2>3, TypeOKNext DEF ShapeInv, TypeOK
  <2> QED BY <2>1, <2>2, <2>4, Zenon DEF ShapeInv, Formed
<1>2. ASSUME NEW at, NEW t,
             co' = (co \ {c}) \cup {[op |-> c.op, agent |-> c.agent, at |-> at,
                                     id |-> c.id, tab |-> t]},
             Table(t, nid), Unborn(t)
      PROVE  ShapeInv'
  <2> DEFINE d == [op |-> c.op, agent |-> c.agent, at |-> at, id |-> c.id, tab |-> t]
  <2>1. d.op = c.op /\ d.agent = c.agent /\ d.id = c.id /\ d.tab = t /\ Formed(d)
    BY DEF Formed
  <2>2. co' = (co \ {c}) \cup {d}
    BY <1>2
  <2> HIDE DEF d
  <2>3. \A k \in co' : k \in co \/ k = d
    BY <2>2
  <2>4. \A s : Unborn(s) => Unborn(s)'
    BY <2>1, <2>3 DEF Unborn, Ids
  <2>5. \A k \in co' : Formed(k) /\ user[k.agent] \in Account
                        /\ k.agent \in Agent /\ k.id \in 1 .. nid
    BY <2>1, <2>3 DEF ShapeInv, TypeOK
  <2>6. \A k \in co' : Table(k.tab, nid) /\ Unborn(k.tab)
    BY <2>1, <2>3, <1>2 DEF ShapeInv
  <2>7. \A j, k \in co' : j.op = "create" /\ k.op = "create" /\ j.id = k.id => j = k
    BY <2>1, <2>2 DEF ShapeInv
  <2>8. TypeOK'
    BY <2>5, TypeOKNext DEF ShapeInv, TypeOK
  <2>9. \A k \in co' : Unborn(k.tab)'
    BY <2>4, <2>6 DEF Unborn, Ids
  <2> QED BY <2>5, <2>6, <2>7, <2>8, <2>9, Zenon DEF ShapeInv, Formed
<1> QED BY <1>1, <1>2

LEMMA InitShape == ASSUME ConstantAssumption PROVE Init => ShapeInv
<1> SUFFICES ASSUME Init PROVE ShapeInv
  OBVIOUS
<1>1. Table({}, nid) /\ Unborn({})
  BY EmptyTable
<1>2. \A account \in Account : list[account] = {}
  BY DEF Init
<1>3. TypeOK
  BY <1>1, <1>2, TableMeans DEF Init, TypeOK, ConstantAssumption
<1> QED BY <1>1, <1>2, <1>3 DEF Init, ShapeInv

\* The id of a request: one that was made, or the next one.
LEMMA AskShape ==
    ASSUME ConstantAssumption, ShapeInv,
           NEW a \in Agent, NEW op, NEW id, NEW at, Ask(a, op, id, at),
           \/ nid' = nid /\ id \in 1 .. nid /\ op # "create"
           \/ nid < MaxId /\ nid' = nid + 1 /\ id = nid + 1
    PROVE  ShapeInv'
<1> DEFINE d == [op |-> op, agent |-> a, at |-> at, id |-> id, tab |-> {}]
<1>1. /\ co' = co \cup {d} /\ a \in open
      /\ UNCHANGED <<record, list, open, user, character, nfault>>
  BY DEF Ask, Begin, dbVars, agentVars
<1>2. /\ d.op = op /\ d.agent = a /\ d.id = id /\ d.tab = {} /\ Formed(d)
  BY DEF Formed
<1> HIDE DEF d
<1>3. /\ nid \in Nat /\ nid' \in 0 .. MaxId /\ 1 .. nid \subseteq 1 .. nid' /\ id \in 1 .. nid'
  BY DEF ShapeInv, TypeOK, ConstantAssumption
<1>4. \A t : Table(t, nid) => Table(t, nid')
  <2>1. Row(nid) \subseteq Row(nid')
    BY <1>3, RowGrows
  <2> QED BY <2>1 DEF Table, Listed
<1>5. \A t : Table(t, nid) /\ Unborn(t) => Unborn(t)'
  <2> SUFFICES ASSUME NEW t, Table(t, nid), Unborn(t) PROVE Unborn(t)'
    OBVIOUS
  <2>1. \A e \in t : e.id \in 1 .. nid
    BY RowFields DEF Table, Listed
  <2>2. op = "create" => id \notin Ids(t)
    BY <2>1, <1>3 DEF Ids
  <2> QED BY <2>2, <1>1, <1>2 DEF Unborn, Ids
<1>6. Table({}, nid') /\ Unborn({})'
  BY EmptyTable DEF Unborn, Ids
<1>7. user[a] \in Account
  BY <1>1 DEF ShapeInv, TypeOK
<1>8. \A k \in co' : /\ Formed(k) /\ user[k.agent] \in Account
                     /\ k.agent \in Agent /\ k.id \in 1 .. nid'
                     /\ Table(k.tab, nid') /\ (Unborn(k.tab))'
  <2>1. \A k \in co : Formed(k) /\ user[k.agent] \in Account
                      /\ k.agent \in Agent /\ k.id \in 1 .. nid'
    BY <1>3 DEF ShapeInv, TypeOK
  <2>2. \A k \in co : Table(k.tab, nid') /\ (Unborn(k.tab))'
    BY <1>4, <1>5 DEF ShapeInv
  <2>3. Table(d.tab, nid') /\ (Unborn(d.tab))'
    BY <1>2, <1>6
  <2> QED BY <1>1, <1>2, <1>3, <1>7, <2>1, <2>2, <2>3
<1>9. \A j, k \in co' : j.op = "create" /\ k.op = "create" /\ j.id = k.id => j = k
  <2>1. \A k \in co : d.op = "create" => k.id # d.id
    BY <1>2, <1>3 DEF ShapeInv, TypeOK
  <2> QED BY <2>1, <1>1 DEF ShapeInv
<1>10. \A account \in Account : Table(list'[account], nid') /\ (Unborn(list[account]))'
  <2>1. \A account \in Account : Table(list[account], nid') /\ (Unborn(list[account]))'
    BY <1>1, <1>4, <1>5 DEF ShapeInv, Unborn
  <2> QED BY <2>1, <1>1
<1>11. TypeOK'
  <2>1. record' \subseteq 1 .. nid'
    BY <1>1, <1>3 DEF ShapeInv, TypeOK
  <2> QED BY <1>1, <1>3, <1>8, <1>10, <2>1, TypeOKNext DEF ShapeInv, TypeOK
<1>12. character' \in [Agent -> (1 .. nid') \cup {Nil}] /\ list' = [b \in Account |-> list'[b]]
  BY <1>1, <1>3 DEF ShapeInv
<1> QED BY <1>1, <1>8, <1>9, <1>10, <1>11, <1>12, Zenon DEF ShapeInv, Formed

\* A coroutine's record after a step.
LEMMA Moved ==
    ASSUME NEW c, Formed(c), NEW at, NEW t
    PROVE  /\ [c EXCEPT !.at = at]
                = [op |-> c.op, agent |-> c.agent, at |-> at, id |-> c.id, tab |-> c.tab]
           /\ [c EXCEPT !.at = at, !.tab = t]
                = [op |-> c.op, agent |-> c.agent, at |-> at, id |-> c.id, tab |-> t]
<1>1. PICK op, agent, at0, id, tab :
        c = [op |-> op, agent |-> agent, at |-> at0, id |-> id, tab |-> tab]
  BY DEF Formed
<1>2. [c EXCEPT !.at = at]
        = [op |-> op, agent |-> agent, at |-> at, id |-> id, tab |-> tab]
  BY <1>1
<1>3. [c EXCEPT !.at = at, !.tab = t] = [[c EXCEPT !.at = at] EXCEPT !.tab = t]
  OBVIOUS
<1>4. [[op |-> op, agent |-> agent, at |-> at, id |-> id, tab |-> tab] EXCEPT !.tab = t]
        = [op |-> op, agent |-> agent, at |-> at, id |-> id, tab |-> t]
  OBVIOUS
<1> QED BY <1>1, <1>2, <1>3, <1>4

\* A step of a coroutine, one case for each place of the program.
LEMMA StepShape ==
    ASSUME ConstantAssumption, ShapeInv, NEW c \in co, Step(c)
    PROVE  ShapeInv'
<1> DEFINE Moves(at, t) ==
      co' = (co \ {c}) \cup {[op |-> c.op, agent |-> c.agent, at |-> at,
                              id |-> c.id, tab |-> t]}
<1>1. /\ Formed(c) /\ c.agent \in Agent /\ c.id \in 1 .. nid
      /\ user[c.agent] \in Account /\ Table(c.tab, nid) /\ Unborn(c.tab)
  BY DEF ShapeInv, TypeOK
<1>2. \A at : Go(c, at) => Moves(at, c.tab)
  BY <1>1, Moved DEF Go
<1>3. \A at, t : co' = (co \ {c}) \cup {[c EXCEPT !.at = at, !.tab = t]} => Moves(at, t)
  BY <1>1, Moved
<1>4. \A ok \in BOOLEAN : Request(ok) => nfault' \in 0 .. MaxFault
  BY DEF Request, ShapeInv, TypeOK, ConstantAssumption
<1>5. /\ record \subseteq 1 .. nid /\ nfault \in 0 .. MaxFault /\ nid \in Nat
      /\ character \in [Agent -> (1 .. nid) \cup {Nil}]
  BY DEF ShapeInv, TypeOK
<1>6. co' \subseteq co \/ (\E at, t : Moves(at, t))
        => \A t : Unborn(t) => Unborn(t)'
  BY DEF Unborn, Ids
<1>7. ASSUME UNCHANGED <<list, open, user, character, nid>>,
             record' \subseteq 1 .. nid, nfault' \in 0 .. MaxFault,
             \/ End(c)
             \/ \E at, t : Moves(at, t) /\ Table(t, nid) /\ Unborn(t)
      PROVE  ShapeInv'
  <2>1. \A t : Unborn(t) => Unborn(t)'
    BY <1>6, <1>7 DEF End
  <2>2. \A b \in Account : Table(list'[b], nid) /\ (Unborn(list[b]))'
    BY <2>1, <1>7 DEF ShapeInv, Unborn
  <2>3. list' = [b \in Account |-> list'[b]]
    BY <1>7 DEF ShapeInv
  <2> HIDE DEF Moves
  <2>4. \/ End(c)
        \/ \E at, t : /\ co' = (co \ {c}) \cup {[op |-> c.op, agent |-> c.agent,
                                                 at |-> at, id |-> c.id, tab |-> t]}
                      /\ Table(t, nid) /\ Unborn(t)
    BY <1>7, Zenon DEF Moves
  <2> QED BY <1>5, <1>7, <2>2, <2>3, <2>4, MoveShape
<1>8. ASSUME NEW ok \in BOOLEAN, CreateSave(c, ok) PROVE ShapeInv'
  <2>1. record' \subseteq 1 .. nid
    BY <1>1, <1>5, <1>8 DEF CreateSave, Save
  <2>2. /\ UNCHANGED <<list, open, user, character, nid>> /\ nfault' \in 0 .. MaxFault
        /\ Moves("load", c.tab)
    BY <1>2, <1>4, <1>8 DEF CreateSave, agentVars
  <2> HIDE DEF Moves
  <2> QED BY <1>1, <1>7, <2>1, <2>2
<1>9. ASSUME NEW ok \in BOOLEAN, CreateLoad(c, ok) PROVE ShapeInv'
  <2>1. Table(Loaded(user[c.agent], ok), nid) /\ Unborn(Loaded(user[c.agent], ok))
    BY <1>1, LoadedTable
  <2>2. /\ UNCHANGED <<record, list, open, user, character, nid>>
        /\ nfault' \in 0 .. MaxFault
        /\ Moves("savelist", Loaded(user[c.agent], ok))
    BY <1>3, <1>4, <1>9 DEF CreateLoad, agentVars, dbVars
  <2> HIDE DEF Moves
  <2> QED BY <1>5, <1>7, <2>1, <2>2
<1>10. ASSUME NEW ok \in BOOLEAN, CreateDone(c, ok) PROVE ShapeInv'
  <2>1. c.op = "create" /\ c.id \notin Ids(c.tab)
    BY <1>1, <1>10 DEF CreateDone, Unborn
  <2>2. /\ Listed(Insert(c.tab, c.id), nid)
        /\ Dense(Insert(c.tab, c.id)) => Keyed(Insert(c.tab, c.id))
    BY <1>1, <1>5, <2>1, InsertListed
  <2>3. /\ SaveList(user[c.agent], Insert(c.tab, c.id), ok) /\ End(c)
        /\ UNCHANGED <<record, open, user, character, nid>> /\ nfault' \in 0 .. MaxFault
    BY <1>4, <1>10 DEF CreateDone, agentVars
  <2>4. /\ list' = [b \in Account |-> list'[b]]
        /\ \A b \in Account : Table(list'[b], nid)
        /\ \A b \in Account : \A e \in list'[b] :
              \/ \E f \in list[b] : f.id = e.id
              \/ \E f \in Insert(c.tab, c.id) : f.id = e.id
    BY <1>1, <2>2, <2>3, SaveListTable
  <2>5. \A k \in co' : k \in co /\ (k.op = "create" => k.id # c.id)
    BY <2>1, <2>3 DEF End, ShapeInv
  <2>6. \A b \in Account : Unborn(list[b])'
    <3> SUFFICES ASSUME NEW b \in Account, NEW k \in co', k.op = "create",
                        NEW e \in list'[b], e.id = k.id
                 PROVE  FALSE
      BY DEF Unborn, Ids
    <3>1. \/ \E f \in list[b] : f.id = k.id
          \/ \E f \in c.tab : f.id = k.id
          \/ c.id = k.id
      BY <2>4 DEF Insert, Entry
    <3>2. Unborn(list[b])
      BY DEF ShapeInv
    <3> QED BY <1>1, <2>5, <3>1, <3>2 DEF Unborn, Ids
  <2> QED BY <1>5, <2>3, <2>4, <2>6, MoveShape
<1>11. ASSUME NEW ok \in BOOLEAN, PickCheck(c, ok) PROVE ShapeInv'
  <2>1. /\ UNCHANGED <<record, list, open, user, character, nid>>
        /\ nfault' \in 0 .. MaxFault
        /\ End(c) \/ Moves("record", c.tab)
    BY <1>2, <1>4, <1>11 DEF PickCheck, agentVars, dbVars
  <2> HIDE DEF Moves
  <2> QED BY <1>1, <1>5, <1>7, <2>1
<1>12. ASSUME NEW ok \in BOOLEAN, PickLoad(c, ok) PROVE ShapeInv'
  <2>1. /\ UNCHANGED <<record, list, open, user, character, nid>>
        /\ nfault' \in 0 .. MaxFault
        /\ End(c) \/ Moves("picked", c.tab)
    BY <1>2, <1>4, <1>12 DEF PickLoad, agentVars, dbVars
  <2> HIDE DEF Moves
  <2> QED BY <1>1, <1>5, <1>7, <2>1
<1>13. ASSUME PickDone(c) PROVE ShapeInv'
  <2>1. /\ UNCHANGED <<record, list, open, user, nid, nfault>> /\ End(c)
        /\ character' = [character EXCEPT ![c.agent] = c.id]
    BY <1>13 DEF PickDone, dbVars
  <2>2. character' \in [Agent -> (1 .. nid) \cup {Nil}]
    BY <1>1, <1>5, <2>1
  <2>3. \A t : Unborn(t) => Unborn(t)'
    BY <2>1 DEF End, Unborn, Ids
  <2>4. \A b \in Account : Table(list'[b], nid) /\ (Unborn(list[b]))'
    BY <2>1, <2>3 DEF ShapeInv, Unborn
  <2>5. list' = [b \in Account |-> list'[b]]
    BY <2>1 DEF ShapeInv
  <2> QED BY <1>5, <2>1, <2>2, <2>4, <2>5, MoveShape
<1>14. ASSUME NEW ok \in BOOLEAN, DeleteLoad(c, ok) PROVE ShapeInv'
  <2>1. Table(Loaded(user[c.agent], ok), nid) /\ Unborn(Loaded(user[c.agent], ok))
    BY <1>1, LoadedTable
  <2>2. /\ UNCHANGED <<record, list, open, user, character, nid>>
        /\ nfault' \in 0 .. MaxFault
        /\ End(c) \/ Moves("savelist", Loaded(user[c.agent], ok))
    BY <1>3, <1>4, <1>14 DEF DeleteLoad, agentVars, dbVars
  <2> HIDE DEF Moves
  <2> QED BY <1>5, <1>7, <2>1, <2>2
<1>15. ASSUME NEW ok \in BOOLEAN, DeleteSave(c, ok) PROVE ShapeInv'
  <2>1. Listed(Without(c.tab, c.id), nid) /\ Keyed(Without(c.tab, c.id))
    BY <1>1, <1>5, WithoutListed
  <2>2. /\ SaveList(user[c.agent], Without(c.tab, c.id), ok)
        /\ Moves("record", c.tab)
        /\ UNCHANGED <<record, open, user, character, nid>> /\ nfault' \in 0 .. MaxFault
    BY <1>2, <1>4, <1>15 DEF DeleteSave, agentVars
  <2>3. /\ list' = [b \in Account |-> list'[b]]
        /\ \A b \in Account : Table(list'[b], nid)
        /\ \A b \in Account : \A e \in list'[b] :
              \/ \E f \in list[b] : f.id = e.id
              \/ \E f \in Without(c.tab, c.id) : f.id = e.id
    BY <1>1, <2>1, <2>2, SaveListTable
  <2>4. \A b \in Account : Unborn(list[b])'
    <3>1. \A t : Unborn(t) => Unborn(t)'
      BY <1>6, <2>2
    <3>2. \A b \in Account : Unborn(list'[b])
      <4> SUFFICES ASSUME NEW b \in Account, NEW k \in co, k.op = "create",
                          NEW e \in list'[b], e.id = k.id
                   PROVE  FALSE
        BY DEF Unborn, Ids
      <4>1. (\E f \in list[b] : f.id = k.id) \/ (\E f \in c.tab : f.id = k.id)
        BY <2>3 DEF Without
      <4>2. Unborn(list[b])
        BY DEF ShapeInv
      <4> QED BY <1>1, <4>1, <4>2 DEF Unborn, Ids
    <3> QED BY <3>1, <3>2 DEF Unborn
  <2> HIDE DEF Moves
  <2>5. \E at, t : /\ co' = (co \ {c}) \cup {[op |-> c.op, agent |-> c.agent,
                                              at |-> at, id |-> c.id, tab |-> t]}
                   /\ Table(t, nid) /\ Unborn(t)
    BY <1>1, <2>2, Zenon DEF Moves
  <2> QED BY <1>5, <2>2, <2>3, <2>4, <2>5, MoveShape
<1>16. ASSUME NEW ok \in BOOLEAN, DeleteRecord(c, ok) PROVE ShapeInv'
  <2>1. /\ UNCHANGED <<list, open, user, character, nid>>
        /\ nfault' \in 0 .. MaxFault /\ End(c)
        /\ record' \subseteq record
    BY <1>4, <1>16 DEF DeleteRecord, agentVars
  <2> HIDE DEF Moves
  <2> QED BY <1>5, <1>7, <2>1
<1> QED BY <1>8, <1>9, <1>10, <1>11, <1>12, <1>13, <1>14, <1>15, <1>16 DEF Step

\* Any step.
LEMMA NextShape ==
    ASSUME ConstantAssumption, ShapeInv, [Next]_vars
    PROVE  ShapeInv'
<1>1. ASSUME NEW a \in Agent, NEW account \in Account, Login(a, account) PROVE ShapeInv'
  <2>1. /\ open' = open \cup {a}
        /\ user' = [user EXCEPT ![a] = account]
        /\ character' = [character EXCEPT ![a] = Nil]
        /\ UNCHANGED <<record, list, co, nid, nfault>>
    BY <1>1 DEF Login, dbVars
  <2>2. /\ user' \in [Agent -> Account \cup {Nil}]
        /\ character' \in [Agent -> (1 .. nid) \cup {Nil}]
        /\ \A b \in Agent : user'[b] = user[b] \/ user'[b] \in Account
        /\ user'[a] \in Account
    BY <2>1 DEF ShapeInv, TypeOK
  <2>3. \A b \in open' : b \in Agent /\ user'[b] # Nil
    BY <2>1, <2>2 DEF ShapeInv, TypeOK, ConstantAssumption
  <2>4. TypeOK'
    BY <2>1, <2>2, <2>3, TypeOKNext DEF ShapeInv, TypeOK
  <2>5. \A c \in co : user'[c.agent] \in Account
    BY <2>2 DEF ShapeInv, TypeOK
  <2> QED BY <2>1, <2>2, <2>4, <2>5 DEF ShapeInv, Unborn, Ids
<1>2. ASSUME NEW a \in Agent, NEW ok \in BOOLEAN, Close(a, ok) PROVE ShapeInv'
  <2>1. /\ open' = open \ {a}
        /\ character' = [character EXCEPT ![a] = Nil]
        /\ UNCHANGED <<list, user, co, nid>>
    BY <1>2 DEF Close
  <2>2. record' \subseteq 1 .. nid /\ nfault' \in 0 .. MaxFault
    BY <1>2 DEF Close, Request, Save, ShapeInv, TypeOK, ConstantAssumption
  <2>3. TypeOK'
    BY <2>1, <2>2, TypeOKNext DEF ShapeInv, TypeOK
  <2>4. character' \in [Agent -> (1 .. nid) \cup {Nil}]
    BY <2>1 DEF ShapeInv
  <2> QED BY <2>1, <2>3, <2>4 DEF ShapeInv, Unborn, Ids
<1>3. ASSUME NEW a \in Agent, Create(a) PROVE ShapeInv'
  BY <1>3, AskShape DEF Create
<1>4. ASSUME NEW a \in Agent, NEW id \in 1 .. nid, Pick(a, id) \/ Delete(a, id)
      PROVE ShapeInv'
  BY <1>4, AskShape DEF Pick, Delete
<1>5. ASSUME NEW c \in co, Step(c) PROVE ShapeInv'
  BY <1>5, StepShape
<1>6. ASSUME Crash PROVE ShapeInv'
  <2>1. /\ open' = {} /\ co' = {} /\ user' = [a \in Agent |-> Nil]
        /\ character' = [a \in Agent |-> Nil]
        /\ UNCHANGED <<record, list, nid, nfault>>
    BY <1>6 DEF Crash, dbVars
  <2>2. TypeOK'
    BY <2>1, TypeOKNext DEF ShapeInv, TypeOK
  <2> QED BY <2>1, <2>2 DEF ShapeInv, Unborn, Ids
<1>7. CASE UNCHANGED vars
  <2>1. UNCHANGED <<record, list, open, user, character, co, nid, nfault>>
    BY <1>7 DEF vars, dbVars, agentVars
  <2>2. TypeOK'
    BY <2>1, TypeOKNext DEF ShapeInv, TypeOK
  <2> QED BY <2>1, <2>2 DEF ShapeInv, Unborn, Ids
<1> QED BY <1>1, <1>2, <1>3, <1>4, <1>5, <1>6, <1>7 DEF Next

\* The variables keep their types, and lists stay tables with one entry for
\* a key and an id, whatever requests overlap and fail, and whether or not
\* clients stay.
THEOREM TypeHolds ==
    ASSUME ConstantAssumption
    PROVE  Spec => []TypeOK
<1>1. Init => ShapeInv
  BY InitShape
<1>2. ShapeInv /\ [Next]_vars => ShapeInv'
  BY NextShape
<1>3. ShapeInv => TypeOK
  BY DEF ShapeInv
<1> QED BY <1>1, <1>2, <1>3, PTL DEF Spec

-----------------------------------------------------------------------------
(* What is listed is saved, and what was created stays listed              *)

\* No request failed, and the account sent its requests one at a time.
Quiet(account) == nfault = 0 /\ account \notin raced

\* The record is there, or went with another one of its hash.
Saved(id) == id \in record \/ \E d \in deleted \ {id} : Bucket(d) = Bucket(id)

\* What a request under way relies on.
Ready(c) ==
    /\ c.op = "delete" /\ c.at \in {"savelist", "record"} =>
            c.id \in deleted /\ c.id \in Ids(c.tab)
    /\ Quiet(user[c.agent]) =>
        /\ c.op = "create" /\ c.at \in {"load", "savelist"} => Saved(c.id)
        /\ c.at = "savelist" => c.tab = list[user[c.agent]]
        /\ c.op = "delete" /\ c.at = "record" => c.id \notin Ids(list[user[c.agent]])

\* What the account's list must hold, and must not.
Right(account) ==
    /\ \A id \in Ids(list[account]) : Saved(id)
    /\ \A id \in created \ deleted :
          owner[id] = account /\ account \notin holed => id \in Ids(list[account])

KeptInv ==
    /\ \A a, b \in open : user[a] = user[b] => a = b
    /\ \A c, d \in co :
          user[c.agent] = user[d.agent] /\ user[c.agent] \notin raced => c = d
    /\ \A c \in co : Ready(c)
    /\ \A account \in Account : Quiet(account) => Right(account)
    /\ \A id \in created : \E account \in Account : Of(id, account)

\* A step of a coroutine that leaves its own account right, and its own
\* coroutine ready, disturbs no other.
LEMMA MoveKept ==
    ASSUME OwnInv, ShapeInv, KeptInv, NEW c \in co,
           UNCHANGED <<open, user, nid, owner, raced>>,
           nfault' = 0 => nfault = 0, deleted \subseteq deleted', holed \subseteq holed',
           \A id : Saved(id) => (Saved(id))' \/ (id = c.id /\ id \in Ids(c.tab)),
           \A b \in Account : b # user[c.agent] => list'[b] = list[b],
           \/ created' = created
           \/ created' = created \cup {c.id} /\ c.op = "create",
           (Quiet(user[c.agent]))' => (Right(user[c.agent]))',
           \/ End(c)
           \/ \E d : co' = (co \ {c}) \cup {d} /\ d.agent = c.agent /\ (Ready(d))'
    PROVE  KeptInv'
<1>1. Vouched(c) /\ user[c.agent] \in Account
  BY DEF OwnInv, ShapeInv
<1>2. \A b \in Account : (Quiet(b))' => Quiet(b)
  BY DEF Quiet
<1>3. \A b \in Account : b # user[c.agent] =>
        \A id \in Ids(list[b]) : Saved(id) => (Saved(id))'
  <2> SUFFICES ASSUME NEW b \in Account, b # user[c.agent],
                      NEW id \in Ids(list[b]), Saved(id), id \in Ids(c.tab)
               PROVE  FALSE
    OBVIOUS
  <2>1. Of(id, b)
    BY DEF OwnInv, ListsOwn, Ids
  <2>2. Of(id, user[c.agent])
    BY <1>1 DEF Vouched, Ids
  <2> QED BY <2>1, <2>2 DEF Of
<1>4. \A b \in Account : (Quiet(b))' => (Right(b))'
  <2> SUFFICES ASSUME NEW b \in Account, b # user[c.agent], (Quiet(b))'
               PROVE  (Right(b))'
    OBVIOUS
  <2>1. Right(b) /\ list'[b] = list[b]
    BY <1>2 DEF KeptInv
  <2>2. \A id \in Ids(list[b]) : (Saved(id))'
    BY <1>3, <2>1 DEF Right
  <2>3. \A id \in created' : owner[id] = b => id \in created
    BY <1>1 DEF Vouched, Of
  <2> QED BY <2>1, <2>2, <2>3 DEF Right, Ids
<1>5. \A k \in co : k # c => (Ready(k))'
  <2> SUFFICES ASSUME NEW k \in co, k # c PROVE (Ready(k))'
    OBVIOUS
  <2>1. Ready(k)
    BY DEF KeptInv
  <2>2. k.op = "delete" /\ k.at \in {"savelist", "record"} =>
            k.id \in deleted' /\ k.id \in Ids(k.tab)
    BY <2>1 DEF Ready
  <2>3. ASSUME (Quiet(user[k.agent]))'
        PROVE /\ k.op = "create" /\ k.at \in {"load", "savelist"} => (Saved(k.id))'
              /\ k.at = "savelist" => k.tab = list'[user[k.agent]]
              /\ k.op = "delete" /\ k.at = "record" => k.id \notin Ids(list'[user[k.agent]])
    <3>1. user[k.agent] \in Account
      BY DEF ShapeInv
    <3>2. Quiet(user[k.agent])
      BY <2>3 DEF Quiet
    <3>3. user[k.agent] # user[c.agent]
      BY <3>2 DEF KeptInv, Quiet
    <3>4. list'[user[k.agent]] = list[user[k.agent]]
      BY <3>1, <3>3
    <3>5. k.op = "create" => k.id \notin Ids(c.tab)
      BY DEF ShapeInv, Unborn
    <3> QED BY <2>1, <3>2, <3>4, <3>5 DEF Ready
  <2> QED BY <2>2, <2>3 DEF Ready
<1>6. \A k \in co' : (Ready(k))'
  BY <1>5 DEF End
<1>7. \A k, l \in co' :
        user[k.agent] = user[l.agent] /\ user[k.agent] \notin raced => k = l
  <2>1. \A k, l \in co :
          user[k.agent] = user[l.agent] /\ user[k.agent] \notin raced => k = l
    BY DEF KeptInv
  <2> QED BY <2>1 DEF End
<1>8. \A id \in created' : \E account \in Account : Of(id, account)
  BY <1>1 DEF KeptInv, Vouched
<1> QED BY <1>4, <1>6, <1>7, <1>8 DEF KeptInv, Of

\* The fields of a coroutine after its step.
LEMMA GoFields ==
    ASSUME NEW c, Formed(c), NEW at, NEW d, d = [c EXCEPT !.at = at]
    PROVE  /\ d.op = c.op /\ d.agent = c.agent /\ d.at = at
           /\ d.id = c.id /\ d.tab = c.tab
<1>1. d = [op |-> c.op, agent |-> c.agent, at |-> at, id |-> c.id, tab |-> c.tab]
  BY Moved
<1> QED BY <1>1

\* A table without a gap is read back as it was.
LEMMA SaveListDense ==
    ASSUME OwnInv, NEW account \in Account, NEW t, SaveList(account, t, TRUE)
    PROVE  /\ \A id \in Ids(list'[account]) : id \in Ids(t)
           /\ account \notin holed' => list'[account] = t
<1>1. PICK u \in Packed(t) : list' = [list EXCEPT ![account] = u]
  BY DEF SaveList
<1>2. list'[account] = u
  BY <1>1 DEF OwnInv, TypeInv
<1>3. \A e \in u : \E f \in t : f.id = e.id
  BY PackedIds
<1>4. Dense(t) => u = t
  BY DEF Packed
<1>5. account \notin holed' => Dense(t)
  BY DEF SaveList
<1> QED BY <1>2, <1>3, <1>4, <1>5 DEF Ids

\* Saving a list leaves the lists of the other accounts.
LEMMA SaveListOthers ==
    ASSUME OwnInv, NEW account \in Account, NEW t, NEW ok \in BOOLEAN,
           SaveList(account, t, ok)
    PROVE  /\ \A b \in Account : b # account => list'[b] = list[b]
           /\ holed \subseteq holed'
BY DEF SaveList, OwnInv, TypeInv

\* A step of a coroutine keeps what was saved and listed.
LEMMA StepKept ==
    ASSUME ConstantAssumption, OwnInv, ShapeInv, KeptInv, NEW c \in co, Step(c)
    PROVE  KeptInv'
<1> DEFINE account == user[c.agent]
           Moves(at, t) == co' = (co \ {c}) \cup {[op |-> c.op, agent |-> c.agent,
                                                    at |-> at, id |-> c.id, tab |-> t]}
<1>1. /\ Formed(c) /\ account \in Account /\ Ready(c)
      /\ Quiet(account) => Right(account)
  BY DEF ShapeInv, KeptInv
<1>2. nfault \in Nat
  BY DEF ShapeInv, TypeOK, ConstantAssumption
<1>3. \A ok \in BOOLEAN : Request(ok) /\ nfault' = 0 => nfault = 0 /\ ok = TRUE
  BY <1>2 DEF Request
<1>4. \A s : record \subseteq record' /\ deleted \subseteq deleted' =>
        (Saved(s) => (Saved(s))')
  BY DEF Saved
<1>4b. \A at, t : co' = (co \ {c}) \cup {[c EXCEPT !.at = at, !.tab = t]} => Moves(at, t)
  BY <1>1, Moved
\* Steps that change no list.
<1>5. ASSUME UNCHANGED <<list, open, user, nid, owner, created, raced, holed>>,
             nfault' = 0 => nfault = 0,
             record \subseteq record', deleted \subseteq deleted',
             \/ End(c)
             \/ \E d : co' = (co \ {c}) \cup {d} /\ d.agent = c.agent /\ (Ready(d))'
      PROVE  KeptInv'
  <2>1. \A s : Saved(s) => (Saved(s))'
    BY <1>4, <1>5
  <2>2. (Quiet(account))' => Quiet(account)
    BY <1>5 DEF Quiet
  <2>3. (Quiet(account))' => (Right(account))'
    <3> SUFFICES ASSUME (Quiet(account))' PROVE (Right(account))'
      OBVIOUS
    <3>1. Right(account)
      BY <1>1, <2>2
    <3>2. \A id \in Ids(list[account]) : (Saved(id))'
      BY <2>1, <3>1 DEF Right
    <3> QED BY <1>5, <3>1, <3>2 DEF Right, Ids
  <2> QED BY <1>5, <2>1, <2>3, MoveKept
<1>6. ASSUME NEW ok \in BOOLEAN, CreateSave(c, ok) PROVE KeptInv'
  <2>1. /\ UNCHANGED <<list, open, user, nid, owner, created, raced, holed, deleted>>
        /\ Request(ok) /\ record' = IF ok THEN record \cup {c.id} ELSE record
        /\ co' = (co \ {c}) \cup {[c EXCEPT !.at = "load"]}
    BY <1>6 DEF CreateSave, Save, Go, agentVars, historyVars
  <2>2. PICK d : d = [c EXCEPT !.at = "load"]
    OBVIOUS
  <2>3. d.op = c.op /\ d.agent = c.agent /\ d.at = "load" /\ d.id = c.id
    BY <1>1, <2>2, GoFields
  <2>4. (Quiet(account))' => (Saved(c.id))'
    BY <1>3, <2>1 DEF Quiet, Saved
  <2>5. (Ready(d))'
    BY <2>1, <2>3, <2>4 DEF Ready
  <2> QED BY <1>3, <1>5, <2>1, <2>2, <2>3, <2>5
<1>7. ASSUME NEW ok \in BOOLEAN, CreateLoad(c, ok) PROVE KeptInv'
  <2>1. /\ UNCHANGED <<record, list, open, user, nid, owner, created, raced, holed, deleted>>
        /\ Request(ok) /\ c.op = "create" /\ c.at = "load"
    BY <1>7 DEF CreateLoad, dbVars, agentVars, historyVars
  <2>2. PICK t : t = Loaded(account, ok)
    OBVIOUS
  <2>3. Moves("savelist", t)
    BY <1>4b, <1>7, <2>2 DEF CreateLoad
  <2>4. PICK d : d = [op |-> c.op, agent |-> c.agent, at |-> "savelist",
                      id |-> c.id, tab |-> t]
    OBVIOUS
  <2>5. /\ co' = (co \ {c}) \cup {d} /\ d.op = c.op /\ d.agent = c.agent
        /\ d.at = "savelist" /\ d.id = c.id /\ d.tab = t
    BY <2>3, <2>4
  <2>6. (Quiet(account))' => Quiet(account) /\ t = list[account]
    BY <1>3, <2>1, <2>2 DEF Quiet, Loaded
  <2>7. (Quiet(account))' => (Saved(c.id))'
    BY <1>1, <1>4, <2>1, <2>6 DEF Ready
  <2>8. (Ready(d))'
    BY <2>1, <2>5, <2>6, <2>7 DEF Ready
  <2> QED BY <1>3, <1>5, <2>1, <2>5, <2>8
<1>8. ASSUME NEW ok \in BOOLEAN, CreateDone(c, ok) PROVE KeptInv'
  <2>1. /\ UNCHANGED <<record, open, user, nid, owner, deleted, raced>>
        /\ Request(ok) /\ End(c) /\ created' = created \cup {c.id}
        /\ SaveList(account, Insert(c.tab, c.id), ok)
        /\ c.op = "create" /\ c.at = "savelist"
    BY <1>8 DEF CreateDone, agentVars
  <2>2. /\ \A b \in Account : b # account => list'[b] = list[b]
        /\ holed \subseteq holed'
    BY <1>1, <2>1, SaveListOthers
  <2>3. (Quiet(account))' => (Right(account))'
    <3> SUFFICES ASSUME (Quiet(account))' PROVE (Right(account))'
      OBVIOUS
    <3>1. Quiet(account) /\ ok = TRUE
      BY <1>3, <2>1 DEF Quiet
    <3>2. Right(account) /\ Saved(c.id) /\ c.tab = list[account]
      BY <1>1, <2>1, <3>1 DEF Ready
    <3>3. /\ \A id \in Ids(list'[account]) : id \in Ids(Insert(c.tab, c.id))
          /\ account \notin holed' => list'[account] = Insert(c.tab, c.id)
      BY <1>1, <2>1, <3>1, SaveListDense
    <3>4. \A id : id \in Ids(Insert(c.tab, c.id)) <=> id = c.id \/ id \in Ids(list[account])
      <4>1. \A e \in Insert(c.tab, c.id) : e.id = c.id \/ e \in c.tab
        BY InsertIds
      <4>2. c.tab \subseteq Insert(c.tab, c.id)
        BY DEF Insert
      <4>3. \E e \in Insert(c.tab, c.id) : e.id = c.id
        <5>1. Entry(Border(c.tab) + 1, FALSE, c.id) \in Insert(c.tab, c.id)
          BY DEF Insert
        <5>2. Entry(Border(c.tab) + 1, FALSE, c.id).id = c.id
          BY DEF Entry
        <5> QED BY <5>1, <5>2
      <4> QED BY <3>2, <4>1, <4>2, <4>3 DEF Ids
    <3>5. \A id \in Ids(list'[account]) : (Saved(id))'
      BY <1>4, <2>1, <3>2, <3>3, <3>4 DEF Right
    <3>6. \A id \in created' \ deleted' :
            owner[id] = account /\ account \notin holed' => id \in Ids(list'[account])
      BY <2>1, <2>2, <3>2, <3>3, <3>4 DEF Right
    <3> QED BY <2>1, <3>5, <3>6 DEF Right, Ids
  <2>4. \A s : Saved(s) => (Saved(s))'
    BY <1>4, <2>1
  <2> QED BY <1>3, <2>1, <2>2, <2>3, <2>4, MoveKept
<1>9. ASSUME NEW ok \in BOOLEAN, PickCheck(c, ok) \/ PickLoad(c, ok) PROVE KeptInv'
  <2>1. /\ UNCHANGED <<record, list, open, user, nid, owner, created, raced, holed, deleted>>
        /\ Request(ok) /\ c.op = "pick"
        /\ \/ End(c)
           \/ \E at \in {"record", "picked"} : co' = (co \ {c}) \cup {[c EXCEPT !.at = at]}
    BY <1>9 DEF PickCheck, PickLoad, Go, dbVars, agentVars, historyVars
  <2>2. ASSUME NEW at \in {"record", "picked"}, NEW d, d = [c EXCEPT !.at = at]
        PROVE  d.agent = c.agent /\ (Ready(d))'
    <3>1. d.op = c.op /\ d.agent = c.agent /\ d.at = at
      BY <1>1, <2>2, GoFields
    <3> QED BY <2>1, <3>1 DEF Ready
  <2> QED BY <1>3, <1>5, <2>1, <2>2
<1>10. ASSUME PickDone(c) PROVE KeptInv'
  BY <1>5, <1>10 DEF PickDone, dbVars, historyVars
<1>11. ASSUME NEW ok \in BOOLEAN, DeleteLoad(c, ok) PROVE KeptInv'
  <2>1. /\ UNCHANGED <<record, list, open, user, nid, owner, created, raced, holed>>
        /\ Request(ok) /\ c.op = "delete"
    BY <1>11 DEF DeleteLoad, dbVars, agentVars
  <2>2. PICK t : t = Loaded(account, ok)
    OBVIOUS
  <2>3. CASE c.id \notin Ids(t)
    <3>1. End(c) /\ deleted' = deleted
      BY <1>11, <2>2, <2>3 DEF DeleteLoad
    <3> QED BY <1>3, <1>5, <2>1, <3>1
  <2>4. CASE c.id \in Ids(t)
    <3>1. Moves("savelist", t) /\ deleted' = deleted \cup {c.id}
      BY <1>4b, <1>11, <2>2, <2>4 DEF DeleteLoad
    <3>2. PICK d : d = [op |-> c.op, agent |-> c.agent, at |-> "savelist",
                        id |-> c.id, tab |-> t]
      OBVIOUS
    <3>3. /\ co' = (co \ {c}) \cup {d} /\ d.op = c.op /\ d.agent = c.agent
          /\ d.at = "savelist" /\ d.id = c.id /\ d.tab = t
      BY <3>1, <3>2
    <3>4. (Quiet(account))' => t = list'[account]
      BY <1>3, <2>1, <2>2 DEF Quiet, Loaded
    <3>5. (Ready(d))'
      BY <2>1, <2>4, <3>1, <3>3, <3>4 DEF Ready
    <3> QED BY <1>3, <1>5, <2>1, <3>1, <3>3, <3>5
  <2> QED BY <2>3, <2>4
<1>12. ASSUME NEW ok \in BOOLEAN, DeleteSave(c, ok) PROVE KeptInv'
  <2>1. /\ UNCHANGED <<record, open, user, nid, owner, deleted, created, raced>>
        /\ Request(ok) /\ co' = (co \ {c}) \cup {[c EXCEPT !.at = "record"]}
        /\ SaveList(account, Without(c.tab, c.id), ok)
        /\ c.op = "delete" /\ c.at = "savelist"
    BY <1>12 DEF DeleteSave, Go, agentVars
  <2>2. /\ \A b \in Account : b # account => list'[b] = list[b]
        /\ holed \subseteq holed'
    BY <1>1, <2>1, SaveListOthers
  <2>3. \A id : id \in Ids(Without(c.tab, c.id)) <=> id # c.id /\ id \in Ids(c.tab)
    BY DEF Ids, Without
  <2>4. c.id \in deleted /\ c.id \in Ids(c.tab)
    BY <1>1, <2>1 DEF Ready
  <2>5. ASSUME (Quiet(account))'
        PROVE  /\ (Right(account))'
               /\ c.id \notin Ids(list'[account])
    <3>1. Quiet(account) /\ ok = TRUE
      BY <1>3, <2>1, <2>5 DEF Quiet
    <3>2. Right(account) /\ c.tab = list[account]
      BY <1>1, <2>1, <3>1 DEF Ready
    <3>3. /\ \A id \in Ids(list'[account]) : id \in Ids(Without(c.tab, c.id))
          /\ account \notin holed' => list'[account] = Without(c.tab, c.id)
      BY <1>1, <2>1, <3>1, SaveListDense
    <3>4. \A id \in Ids(list'[account]) : (Saved(id))'
      BY <1>4, <2>1, <2>3, <3>2, <3>3 DEF Right
    <3>5. \A id \in created' \ deleted' :
            owner[id] = account /\ account \notin holed' => id \in Ids(list'[account])
      BY <2>1, <2>2, <2>3, <2>4, <3>2, <3>3 DEF Right
    <3> QED BY <2>1, <2>3, <3>3, <3>4, <3>5 DEF Right, Ids
  <2>6. PICK d : d = [c EXCEPT !.at = "record"]
    OBVIOUS
  <2>7. d.op = c.op /\ d.agent = c.agent /\ d.at = "record" /\ d.id = c.id /\ d.tab = c.tab
    BY <1>1, <2>6, GoFields
  <2>8. (Ready(d))'
    BY <2>1, <2>4, <2>5, <2>7 DEF Ready
  <2>9. \A s : Saved(s) => (Saved(s))'
    BY <1>4, <2>1
  <2> QED BY <1>3, <2>1, <2>2, <2>5, <2>6, <2>7, <2>8, <2>9, MoveKept
\* The records of a hash go: their characters have been excused since.
<1>13. ASSUME NEW ok \in BOOLEAN, DeleteRecord(c, ok) PROVE KeptInv'
  <2>1. /\ UNCHANGED <<list, open, user, nid, owner, deleted, created, raced, holed>>
        /\ Request(ok) /\ End(c)
        /\ record' = IF ok THEN {id \in record : Bucket(id) # Bucket(c.id)} ELSE record
        /\ c.op = "delete" /\ c.at = "record"
    BY <1>13 DEF DeleteRecord, agentVars, historyVars
  <2>2. c.id \in deleted /\ c.id \in Ids(c.tab)
    BY <1>1, <2>1 DEF Ready
  <2>3. \A id : Saved(id) => (Saved(id))' \/ id = c.id
    BY <2>1, <2>2 DEF Saved
  <2>4. (Quiet(account))' => (Right(account))'
    <3> SUFFICES ASSUME (Quiet(account))' PROVE (Right(account))'
      OBVIOUS
    <3>1. Quiet(account)
      BY <1>3, <2>1 DEF Quiet
    <3>2. Right(account) /\ c.id \notin Ids(list[account])
      BY <1>1, <2>1, <3>1 DEF Ready
    <3>3. \A id \in Ids(list[account]) : (Saved(id))'
      BY <2>3, <3>2 DEF Right
    <3> QED BY <2>1, <3>2, <3>3 DEF Right, Ids
  <2> QED BY <1>3, <2>1, <2>2, <2>3, <2>4, MoveKept
<1> QED BY <1>6, <1>7, <1>8, <1>9, <1>10, <1>11, <1>12, <1>13 DEF Step

LEMMA InitKept == Init => KeptInv
BY DEF Init, KeptInv, Right, Ids

\* A request is the account's only one, or the account counts as raced.
LEMMA AskKept ==
    ASSUME OwnInv, ShapeInv, KeptInv,
           NEW a \in Agent, NEW op, NEW id, NEW at, Ask(a, op, id, at),
           at \in {"save", "load"}, op = "create" => at = "save",
           \A i \in 1 .. nid : owner'[i] = owner[i] /\ i \in 1 .. nid'
    PROVE  KeptInv'
<1>1. PICK d : d = [op |-> op, agent |-> a, at |-> at, id |-> id, tab |-> {}]
  OBVIOUS
<1>2. /\ co' = co \cup {d} /\ a \in open
      /\ raced' = IF Running(a) = {} THEN raced ELSE raced \cup {user[a]}
      /\ UNCHANGED <<record, list, open, user, character, nfault, deleted, created, holed>>
  BY <1>1 DEF Ask, Begin, dbVars, agentVars
<1>3. d.op = op /\ d.agent = a /\ d.at = at
  BY <1>1
<1>4. \A account : (Quiet(account))' => Quiet(account)
  BY <1>2 DEF Quiet
<1>5. \A s : (Saved(s))' <=> Saved(s)
  BY <1>2 DEF Saved
<1>6. (Ready(d))'
  BY <1>3 DEF Ready
<1>7. \A k \in co : (Ready(k))'
  BY <1>2, <1>4, <1>5 DEF KeptInv, Ready
<1>8. \A k \in co : user[k.agent] = user[a] => k \in Running(a)
  BY <1>2 DEF OwnInv, Vouched, KeptInv, Running
<1>9. \A k \in co : user[k.agent] = user[a] => user[a] \in raced'
  BY <1>2, <1>8
<1>10. \A k, l \in co' :
         user[k.agent] = user[l.agent] /\ user[k.agent] \notin raced' => k = l
  <2>1. raced \subseteq raced'
    BY <1>2
  <2>2. \A k, l \in co :
          user[k.agent] = user[l.agent] /\ user[k.agent] \notin raced => k = l
    BY DEF KeptInv
  <2> QED BY <1>2, <1>3, <1>9, <2>1, <2>2
<1>11. \A i \in created : \E account \in Account : Of(i, account) /\ (Of(i, account))'
  BY DEF KeptInv, Of
<1>12. \A account \in Account : (Quiet(account))' => (Right(account))'
  <2> SUFFICES ASSUME NEW account \in Account, (Quiet(account))'
               PROVE  (Right(account))'
    OBVIOUS
  <2>1. Right(account)
    BY <1>4 DEF KeptInv
  <2>2. \A i \in created : owner'[i] = owner[i]
    BY <1>11 DEF Of
  <2> QED BY <1>2, <1>5, <2>1, <2>2 DEF Right, Ids
<1> QED BY <1>2, <1>6, <1>7, <1>10, <1>11, <1>12 DEF KeptInv

\* Any step does.
LEMMA NextKept ==
    ASSUME ConstantAssumption, Settled, OwnInv, ShapeInv, KeptInv, [Next]_vars
    PROVE  KeptInv'
<1>1. ASSUME NEW a \in Agent, NEW account \in Account, Login(a, account) PROVE KeptInv'
  <2>1. /\ a \notin open /\ \A b \in open : user[b] # account
        /\ open' = open \cup {a}
        /\ user' = [user EXCEPT ![a] = account]
        /\ UNCHANGED <<record, list, co, nid, nfault, owner, deleted, created, raced, holed>>
    BY <1>1 DEF Login, dbVars, historyVars
  <2>2. user'[a] = account /\ \A b \in open : b # a /\ user'[b] = user[b]
    BY <2>1 DEF OwnInv, TypeInv
  <2>3. \A c \in co : user'[c.agent] = user[c.agent]
    BY <2>2 DEF OwnInv, Vouched
  <2>4. \A c \in co : (Ready(c))'
    BY <2>1, <2>3 DEF KeptInv, Ready, Quiet, Saved, Ids
  <2>5. \A b \in Account : (Quiet(b))' => (Right(b))'
    BY <2>1 DEF KeptInv, Quiet, Right, Saved, Ids
  <2>6. \A b, c \in open' : user'[b] = user'[c] => b = c
    BY <2>1, <2>2 DEF KeptInv
  <2> QED BY <2>1, <2>3, <2>4, <2>5, <2>6 DEF KeptInv, Of
<1>2. ASSUME NEW a \in Agent, NEW ok \in BOOLEAN, Close(a, ok) PROVE KeptInv'
  <2>1. /\ open' \subseteq open
        /\ UNCHANGED <<list, user, co, nid, owner, deleted, created, raced, holed>>
        /\ Request(ok)
        /\ record \subseteq record'
    BY <1>2 DEF Close, Save, historyVars
  <2>2. nfault' = 0 => nfault = 0
    BY <2>1 DEF Request, ShapeInv, TypeOK, ConstantAssumption
  <2>3. \A s : Saved(s) => (Saved(s))'
    BY <2>1 DEF Saved
  <2>4. \A c \in co : (Ready(c))'
    BY <2>1, <2>2, <2>3 DEF KeptInv, Ready, Quiet, Ids
  <2>5. \A b \in Account : (Quiet(b))' => (Right(b))'
    BY <2>1, <2>2, <2>3 DEF KeptInv, Quiet, Right, Ids
  <2> QED BY <2>1, <2>4, <2>5 DEF KeptInv, Of
<1>3. ASSUME NEW a \in Agent, Create(a) PROVE KeptInv'
  <2>1. /\ nid' = nid + 1 /\ nid < MaxId /\ nid \in Nat
        /\ owner' = [owner EXCEPT ![nid + 1] = user[a]]
        /\ Ask(a, "create", nid + 1, "save")
    BY <1>3 DEF Create, ShapeInv, TypeOK, ConstantAssumption
  <2>2. \A i \in 1 .. nid : owner'[i] = owner[i] /\ i \in 1 .. nid'
    BY <2>1 DEF OwnInv, TypeInv
  <2> QED BY <2>1, <2>2, AskKept
<1>4. ASSUME NEW a \in Agent, NEW id \in 1 .. nid, Pick(a, id) \/ Delete(a, id)
      PROVE KeptInv'
  <2>1. /\ Ask(a, "pick", id, "load") \/ Ask(a, "delete", id, "load")
        /\ UNCHANGED <<nid, owner>>
    BY <1>4 DEF Pick, Delete
  <2> QED BY <2>1, AskKept
<1>5. ASSUME NEW c \in co, Step(c) PROVE KeptInv'
  BY <1>5, StepKept
<1>6. ASSUME Crash PROVE KeptInv'
  BY <1>6 DEF Crash, KeptInv, Quiet, Right, Saved, Ids, Of, dbVars, historyVars
<1>7. CASE UNCHANGED vars
  <2>1. UNCHANGED <<record, list, open, user, co, nid, nfault, owner, deleted,
                    created, raced, holed>>
    BY <1>7 DEF vars, dbVars, agentVars, historyVars
  <2> QED BY <2>1 DEF KeptInv, Ready, Quiet, Right, Saved, Ids, Of
<1> QED BY <1>1, <1>2, <1>3, <1>4, <1>5, <1>6, <1>7 DEF Next

\* The three invariants hold together.
LEMMA KeptHolds ==
    ASSUME ConstantAssumption, Settled
    PROVE  Spec => [](OwnInv /\ ShapeInv /\ KeptInv)
<1> DEFINE Inv == OwnInv /\ ShapeInv /\ KeptInv
<1>1. Init => Inv
  BY InitOwn, InitShape, InitKept
<1>2. Inv /\ [Next]_vars => Inv'
  BY NextOwn, NextShape, NextKept
<1> QED BY <1>1, <1>2, PTL DEF Spec

\* What an account lists can be loaded, as long as clients stay until their
\* requests are done: CreateSave writes the record before CreateDone lists it,
\* and DeleteSave unlists it before DeleteRecord removes it.
THEOREM ListedSavedHolds ==
    ASSUME ConstantAssumption, Settled
    PROVE  Spec => []ListedSaved
<1>1. KeptInv => ListedSaved
  BY DEF KeptInv, Right, Quiet, Saved, ListedSaved
<1> QED BY <1>1, KeptHolds, PTL

\* A complete character stays listed until it is deleted, as long as clients
\* stay until their requests are done.
THEOREM NothingLostHolds ==
    ASSUME ConstantAssumption, Settled
    PROVE  Spec => []NothingLost
<1>1. KeptInv => NothingLost
  BY DEF KeptInv, Right, Quiet, NothingLost, Of
<1> QED BY <1>1, KeptHolds, PTL
=============================================================================
