-------------------------------- MODULE Uuid --------------------------------
(***************************************************************************)
(* Unique identifiers: lualib/base/uuid.lua and its C half, lua-uuid.c.    *)
(* Every service has a Lua VM of its own and, with it, its own timestamp,  *)
(* service and sequence; the counter sid is a static variable of the       *)
(* shared library, so all the VMs of the process have one.  The workers of *)
(* Skynet run the VMs in parallel.                                         *)
(*                                                                         *)
(* Two clocks matter.  os.time counts seconds, skynet.timeout counts ticks *)
(* of a hundredth of a second; "left" is the number of ticks until the next*)
(* second.  An identifier is its three fields: the code keeps them apart   *)
(* by shifts, as long as sid stays below the 15 bits of its field.         *)
(***************************************************************************)
EXTENDS Integers, Sequences

CONSTANTS
    Maker,       \* the services that make identifiers: login slaves
    Agent,       \* the services that load the module too, and make none: agents
    TimerTicks,  \* skynet_timeout (100, ...): ticks in a second
    SeqLimit,    \* 1024
    SidLimit,    \* 0xffff
    MaxClock,    \* bound: seconds that pass
    Late,        \* whether agents are created after the first identifier, as
                 \* gamed does when its pool is empty
    Racing,      \* whether several workers run lsid at once (config: thread)
    Slack,       \* how early a timer may ring by os.time: it counts from the
                 \* last tick, and no tick begins exactly with a second
    Nil          \* Lua's nil

Vm == Maker \cup Agent              \* a Lua VM for each

ASSUME LimitAssumption ==
    /\ TimerTicks \in Nat \ {0}
    /\ SeqLimit \in Nat
    /\ SidLimit \in Nat
    /\ MaxClock \in Nat
    /\ Nil \notin Nat
ASSUME BuildAssumption == Late \in BOOLEAN /\ Racing \in BOOLEAN /\ Slack \in Nat

VARIABLES
    sid,        \* lua-uuid.c: the counter of the process
    loaded,     \* the VMs that have run luaopen_uuid_core
    register,   \* the value a VM is about to store in sid (lsid), or Nil
    service,    \* the service field of a VM, or Nil
    timestamp,  \* the second a VM has cached, or Nil
    sequence,   \* the last sequence number of a VM
    expire,     \* the tick at which the timer of a VM is due
    issued,     \* the identifiers each VM has returned, in order
    clock,      \* os.time
    tick,       \* skynet.now
    left        \* ticks until the next second

sidVars   == <<sid, loaded, register, service>>
stampVars == <<timestamp, sequence, expire, issued>>
timeVars  == <<clock, tick, left>>
vars == <<sidVars, stampVars, timeVars>>

Id == [timestamp : Nat, service : Nat, sequence : Nat]

Init ==
    /\ sid = 0
    /\ loaded = {}
    /\ register  = [v \in Maker |-> Nil]
    /\ service   = [v \in Maker |-> Nil]
    /\ timestamp = [v \in Maker |-> Nil]
    /\ sequence  = [v \in Maker |-> 0]
    /\ expire    = [v \in Maker |-> 0]
    /\ issued    = [v \in Maker |-> << >>]
    /\ clock = 0
    /\ tick = 0
    /\ left \in 1 .. TimerTicks

-----------------------------------------------------------------------------
(* The counter of the process                                              *)

NobodyIn == Racing \/ \A v \in Maker : register[v] = Nil
NobodyServed == \A v \in Maker : register[v] = Nil /\ service[v] = Nil

\* require "uuid.core": each VM that opens the library resets the counter.
Load(v) ==
    /\ v \notin loaded
    /\ Late \/ NobodyServed
    /\ NobodyIn
    /\ loaded' = loaded \cup {v}
    /\ sid' = 0
    /\ UNCHANGED <<register, service, stampVars, timeVars>>

\* lsid reads sid and tests it, and stores the next value: two memory accesses
\* that nothing makes one.  At the limit it returns nothing, and gen fails.
\* The slaves are all started before one of them is given a client.
SidRead(v) ==
    /\ Maker \subseteq loaded
    /\ Late \/ Agent \subseteq loaded
    /\ service[v] = Nil /\ register[v] = Nil
    /\ sid < SidLimit
    /\ NobodyIn
    /\ register' = [register EXCEPT ![v] = sid + 1]
    /\ UNCHANGED <<sid, loaded, service, stampVars, timeVars>>

\* Mutant: the next value is returned but not stored.
SidWriteLost(v) ==
    /\ register[v] # Nil
    /\ service' = [service EXCEPT ![v] = register[v]]
    /\ register' = [register EXCEPT ![v] = Nil]
    /\ UNCHANGED <<sid, loaded, stampVars, timeVars>>

SidWrite(v) ==
    /\ register[v] # Nil
    /\ sid' = register[v]
    /\ service' = [service EXCEPT ![v] = register[v]]
    /\ register' = [register EXCEPT ![v] = Nil]
    /\ UNCHANGED <<loaded, stampVars, timeVars>>

-----------------------------------------------------------------------------
(* uuid.gen                                                                *)

\* Mutant: the cached second is used before it is set.
StampUnset(v) == timestamp[v]
\* Mutant: the timer is started for the ticks that are left of the second.
DueShort == tick + left - 1

\* The second and the sequence number gen goes on with, and the end of a timer.
Stamp(v) == IF timestamp[v] = Nil THEN clock ELSE timestamp[v]
Number(v) == IF timestamp[v] = Nil THEN 1 ELSE sequence[v] + 1
Due == tick + TimerTicks

\* The cached second is set, and its timer started, by the first call only.
Advance(v) ==
    /\ service[v] # Nil
    /\ timestamp' = [timestamp EXCEPT ![v] = Stamp(v)]
    /\ sequence'  = [sequence EXCEPT ![v] = Number(v)]
    /\ expire'    = [expire EXCEPT ![v] = IF timestamp[v] = Nil THEN Due ELSE @]

Gen(v) ==
    /\ Number(v) < SeqLimit
    /\ Advance(v)
    /\ issued' = [issued EXCEPT ![v] =
                    Append(@, [timestamp |-> Stamp(v), service |-> service[v],
                               sequence |-> Number(v)])]
    /\ UNCHANGED <<sidVars, timeVars>>

\* The assertion of line 29 fails; the number has been counted already.  The
\* bound is on the calls that go on failing.
GenFailed(v) ==
    /\ Number(v) = SeqLimit
    /\ Advance(v)
    /\ UNCHANGED <<issued, sidVars, timeVars>>

\* The timer's callback runs some time after the timer is due.
TimerFire(v) ==
    /\ timestamp[v] # Nil
    /\ expire[v] <= tick + Slack
    /\ timestamp' = [timestamp EXCEPT ![v] = Nil]
    /\ UNCHANGED <<sequence, expire, issued, sidVars, timeVars>>

-----------------------------------------------------------------------------
(* Time                                                                    *)

Tick ==
    /\ tick' = tick + 1
    /\ \/ left > 1 /\ left' = left - 1 /\ clock' = clock
       \/ left = 1 /\ clock < MaxClock /\ left' = TimerTicks /\ clock' = clock + 1
    /\ UNCHANGED <<sidVars, stampVars>>

Next ==
    \/ \E v \in Vm : Load(v)
    \/ \E v \in Maker : \/ SidRead(v) \/ SidWrite(v)
                        \/ Gen(v) \/ GenFailed(v) \/ TimerFire(v)
    \/ Tick

Spec == Init /\ [][Next]_vars

-----------------------------------------------------------------------------
(* Properties                                                              *)

\* The variables keep their types.
TypeOK ==
    /\ sid \in Nat
    /\ loaded \subseteq Vm
    /\ register  \in [Maker -> Nat \cup {Nil}]
    /\ service   \in [Maker -> Nat \cup {Nil}]
    /\ timestamp \in [Maker -> Nat \cup {Nil}]
    /\ sequence  \in [Maker -> Nat]
    /\ expire    \in [Maker -> Nat]
    /\ issued    \in [Maker -> Seq(Id)]
    /\ clock \in Nat /\ tick \in Nat /\ left \in Nat

\* No identifier is returned twice, by one service or by two (uuid.lua:13).
UniqueIds ==
    \A v, w \in Maker : \A i \in DOMAIN issued[v], j \in DOMAIN issued[w] :
        issued[v][i] = issued[w][j] => v = w /\ i = j

\* The order of identifiers: by second, then by sequence number.
Before(a, b) ==
    \/ a.timestamp < b.timestamp
    \/ a.timestamp = b.timestamp /\ a.sequence < b.sequence

\* The identifiers of one service increase, across every renewal of its cached
\* second, however its timer is delayed (uuid.lua:20-31).
Increasing ==
    \A v \in Maker : \A i, j \in DOMAIN issued[v] :
        i < j => Before(issued[v][i], issued[v][j])
=============================================================================
