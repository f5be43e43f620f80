------------------------------ MODULE Moniter -------------------------------
(***************************************************************************)
(* The service monitor, service/moniter.lua.  Services register with it    *)
(* when they open; every five seconds it calls them one after the other,   *)
(* and forgets, with an alarm, the one whose call fails.  The loop walks   *)
(* over the table of services and yields in each call; services register   *)
(* and exit meanwhile.  The timer is started again at the end of the loop  *)
(* only.                                                                   *)
(***************************************************************************)
EXTENDS Integers

CONSTANTS
    Ser,         \* the services that register
    Hanging,     \* those that may hang: they never answer again
    Nil          \* Lua's nil

ASSUME ConstantAssumption == Hanging \subseteq Ser /\ Nil \notin Ser

VARIABLES
    serTab,      \* the services the monitor knows
    status,      \* what became of each service
    request,     \* cmd register of a service, on its way to the monitor
    at,          \* heartBeatScheduler: timer running, next key, or in a call
    todo,        \* the keys pairs has still to visit
    cur,         \* the service that is called
    answer,      \* the answer to the call: none yet, ok, or error
    alarm        \* how often serviceDump was called for each service

serVars  == <<status, request>>
loopVars == <<at, todo, cur, answer>>
vars == <<serTab, serVars, loopVars, alarm>>

Init ==
    /\ serTab = {}
    /\ status  = [s \in Ser |-> "unborn"]
    /\ request = [s \in Ser |-> FALSE]
    /\ at = "timer" /\ todo = {} /\ cur = Nil /\ answer = "none"
    /\ alarm = [s \in Ser |-> 0]

-----------------------------------------------------------------------------
(* The services                                                            *)

\* A service opens: skynet.call (moniter, "lua", "register", ...).
Open(s) ==
    /\ status[s] = "unborn"
    /\ status'  = [status EXCEPT ![s] = "running"]
    /\ request' = [request EXCEPT ![s] = TRUE]
    /\ UNCHANGED <<serTab, loopVars, alarm>>

Exit(s) ==
    /\ status[s] = "running"
    /\ status' = [status EXCEPT ![s] = "exited"]
    /\ UNCHANGED <<serTab, request, loopVars, alarm>>

Hang(s) ==
    /\ s \in Hanging
    /\ status[s] = "running"
    /\ status' = [status EXCEPT ![s] = "hung"]
    /\ UNCHANGED <<serTab, request, loopVars, alarm>>

\* cmd_heart_beat, or the error Skynet answers for a service that has exited.
\* A service may also exit after its answer.
HeartBeat(s) ==
    /\ at = "called" /\ cur = s /\ answer = "none"
    /\ \/ status[s] = "running" /\ answer' = "ok"
       \/ status[s] = "exited"  /\ answer' = "error"
    /\ UNCHANGED <<serTab, serVars, at, todo, cur, alarm>>

-----------------------------------------------------------------------------
(* The monitor                                                             *)

\* Inserting a key leaves the rest of a traversal undefined: it may go on with
\* any keys.  The key it has reached is always still there.
Register(s) ==
    /\ request[s]
    /\ request' = [request EXCEPT ![s] = FALSE]
    /\ serTab' = serTab \cup {s}
    /\ IF at = "called" /\ s \notin serTab THEN todo' \in SUBSET serTab'
                                           ELSE UNCHANGED todo
    /\ UNCHANGED <<status, at, cur, answer, alarm>>

\* Mutant: the loop goes on with what the last one left.
RingStale ==
    /\ at = "timer"
    /\ at' = "next"
    /\ UNCHANGED <<serTab, serVars, todo, cur, answer, alarm>>

Ring ==
    /\ at = "timer"
    /\ at' = "next"
    /\ todo' = serTab
    /\ UNCHANGED <<serTab, serVars, cur, answer, alarm>>

\* The next key that is still in the table is called.
CallService(s) ==
    /\ at = "next" /\ s \in todo \cap serTab
    /\ at' = "called"
    /\ cur' = s
    /\ todo' = todo \ {s}
    /\ answer' = "none"
    /\ UNCHANGED <<serTab, serVars, alarm>>

Alive ==
    /\ at = "called" /\ answer = "ok"
    /\ at' = "next"
    /\ UNCHANGED <<serTab, serVars, todo, cur, answer, alarm>>

\* Mutant: the error is reported, and the service is not forgotten.
DeadKept ==
    /\ at = "called" /\ answer = "error"
    /\ alarm' = [alarm EXCEPT ![cur] = @ + 1]
    /\ at' = "next"
    /\ UNCHANGED <<serTab, serVars, todo, cur, answer>>

\* Mutant: the error leaves the loop, and nothing starts the timer again.
DeadEnd ==
    /\ at = "called" /\ answer = "error"
    /\ alarm' = [alarm EXCEPT ![cur] = @ + 1]
    /\ serTab' = serTab \ {cur}
    /\ at' = "ended"
    /\ UNCHANGED <<serVars, todo, cur, answer>>

\* serviceDump, and the service is forgotten.  The line of log before it yields
\* once more, at a place where nothing reads what others may change.
Dead ==
    /\ at = "called" /\ answer = "error"
    /\ alarm' = [alarm EXCEPT ![cur] = @ + 1]
    /\ serTab' = serTab \ {cur}
    /\ at' = "next"
    /\ UNCHANGED <<serVars, todo, cur, answer>>

\* The loop is over: the timer is started again.
Sleep ==
    /\ at = "next" /\ todo \cap serTab = {}
    /\ at' = "timer"
    /\ UNCHANGED <<serTab, serVars, todo, cur, answer, alarm>>

MoniterStep ==
    \/ \E s \in Ser : Register(s) \/ CallService(s) \/ HeartBeat(s)
    \/ Ring \/ Alive \/ Dead \/ Sleep

Next == MoniterStep \/ \E s \in Ser : Open(s) \/ Exit(s) \/ Hang(s)

Spec == Init /\ [][Next]_vars
FairSpec == Spec /\ WF_vars(MoniterStep)

-----------------------------------------------------------------------------
(* Properties                                                              *)

\* The variables keep their types.
TypeOK ==
    /\ serTab \subseteq Ser
    /\ status \in [Ser -> {"unborn", "running", "exited", "hung"}]
    /\ request \in [Ser -> BOOLEAN]
    /\ at \in {"timer", "next", "called"}
    /\ todo \subseteq Ser
    /\ cur \in Ser \cup {Nil}
    /\ answer \in {"none", "ok", "error"}
    /\ alarm \in [Ser -> Nat]

\* There is one alarm for each service that has exited and was forgotten, and
\* none for the others, whoever registers during the loop (moniter.lua:31-34).
AlarmExact ==
    \A s \in Ser : /\ alarm[s] <= 1
                   /\ alarm[s] = 1 => status[s] = "exited" /\ s \notin serTab

Hung == \E s \in Ser : status[s] = "hung"

\* A service is asked again and again as long as it is registered and none
\* hangs: a service that hangs stops the loop (moniter.lua:22, 41).
AskedAgain ==
    \A s \in Ser :
        s \in serTab ~> (at = "called" /\ cur = s) \/ s \notin serTab \/ Hung

\* A registered service that exits is noticed, unless one hangs.
DeadNoticed ==
    \A s \in Ser :
        s \in serTab /\ status[s] = "exited" ~> alarm[s] = 1 \/ Hung
=============================================================================
