--------------------------- MODULE MoniterProofs ----------------------------
(***************************************************************************)
(* The alarms of the service monitor, for any services: the theorem        *)
(* AlarmHolds.                                                             *)
(*                                                                         *)
(* AlarmExact is not inductive: a service could be alarmed twice if it     *)
(* registered again after its alarm, or if the walk called a service that  *)
(* is not in the table.  MInv says that a service asks to be registered    *)
(* once, and that the called service stays in the table.                   *)
(***************************************************************************)
EXTENDS Moniter, TLAPS

\* A service is unborn, then on its way to the table, then in it, then out.
LifeInv ==
    \A s \in Ser : /\ request[s] \/ s \in serTab => status[s] # "unborn"
                   /\ s \in serTab => ~ request[s]
                   /\ request[s] \/ s \in serTab => alarm[s] = 0

\* The service that is called is in the table, and an error says that it is gone.
CallInv ==
    at = "called" => /\ cur \in serTab
                     /\ answer = "error" => status[cur] = "exited"

MInv == TypeOK /\ LifeInv /\ CallInv /\ AlarmExact

-----------------------------------------------------------------------------

LEMMA InitMInv == ASSUME ConstantAssumption PROVE Init => MInv
BY DEF ConstantAssumption, Init, MInv, TypeOK, LifeInv, CallInv, AlarmExact

\* The steps of the services: none of them brings an exited service back.
LEMMA ServiceStep ==
    ASSUME MInv, NEW s \in Ser, Open(s) \/ Exit(s) \/ Hang(s) \/ HeartBeat(s)
    PROVE  MInv'
<1> USE DEF MInv, TypeOK, LifeInv, CallInv, AlarmExact, serVars, loopVars
<1>1. CASE Open(s)
  BY <1>1 DEF Open
<1>2. CASE Exit(s)
  BY <1>2 DEF Exit
<1>3. CASE Hang(s)
  BY <1>3 DEF Hang
<1>4. CASE HeartBeat(s)
  BY <1>4 DEF HeartBeat
<1> QED BY <1>1, <1>2, <1>3, <1>4

\* A service is entered in the table once, when there was no alarm for it yet.
LEMMA RegisterStep ==
    ASSUME MInv, NEW s \in Ser, Register(s)
    PROVE  MInv'
<1>1. /\ request[s] /\ request' = [request EXCEPT ![s] = FALSE]
      /\ serTab' = serTab \cup {s}
      /\ UNCHANGED <<status, at, cur, answer, alarm>>
  BY DEF Register
<1>2. todo' \subseteq serTab' \/ todo' = todo
  BY DEF Register
<1>3. TypeOK'
  BY <1>1, <1>2 DEF MInv, TypeOK
<1>4. LifeInv' /\ CallInv' /\ AlarmExact'
  BY <1>1 DEF MInv, TypeOK, LifeInv, CallInv, AlarmExact
<1> QED BY <1>3, <1>4 DEF MInv

\* The loop: only Dead changes the table or the alarms.
LEMMA LoopStep ==
    ASSUME MInv, (\E s \in Ser : CallService(s)) \/ Ring \/ Alive \/ Dead \/ Sleep
    PROVE  MInv'
<1> USE DEF MInv, TypeOK, LifeInv, CallInv, AlarmExact, serVars, loopVars
<1>1. ASSUME NEW s \in Ser, CallService(s) PROVE MInv'
  BY <1>1 DEF CallService
<1>2. CASE Ring
  BY <1>2 DEF Ring
<1>3. CASE Alive
  BY <1>3 DEF Alive
<1>4. CASE Dead
  <2>1. cur \in Ser /\ alarm[cur] = 0 /\ status[cur] = "exited"
    BY <1>4 DEF Dead
  <2> QED BY <1>4, <2>1 DEF Dead
<1>5. CASE Sleep
  BY <1>5 DEF Sleep
<1> QED BY <1>1, <1>2, <1>3, <1>4, <1>5

\* Any step.
LEMMA NextMInv == MInv /\ [Next]_vars => MInv'
<1> SUFFICES ASSUME MInv, [Next]_vars PROVE MInv'
  OBVIOUS
<1>1. CASE Next
  BY <1>1, ServiceStep, RegisterStep, LoopStep DEF Next, MoniterStep
<1>2. CASE UNCHANGED vars
  BY <1>2 DEF vars, serVars, loopVars, MInv, TypeOK, LifeInv, CallInv, AlarmExact
<1> QED BY <1>1, <1>2

\* The variables of moniter.lua keep their types, for any services.
THEOREM TypeCorrect == ASSUME ConstantAssumption PROVE Spec => []TypeOK
<1>1. MInv => TypeOK
  BY DEF MInv
<1> QED BY <1>1, InitMInv, NextMInv, PTL DEF Spec

\* For any services, however they register, exit and hang during the loop of
\* moniter.lua:31, there is one alarm for each that exited and was forgotten,
\* and none for another.
THEOREM AlarmHolds == ASSUME ConstantAssumption PROVE Spec => []AlarmExact
<1>1. MInv => AlarmExact
  BY DEF MInv
<1> QED BY <1>1, InitMInv, NextMInv, PTL DEF Spec
=============================================================================
