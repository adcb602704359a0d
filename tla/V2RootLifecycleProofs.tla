------------------------ MODULE V2RootLifecycleProofs ------------------------
(***************************************************************************)
(* Proofs about V2RootLifecycle, for any number of callers, ports, ids and *)
(* features.                                                               *)
(***************************************************************************)
EXTENDS V2RootLifecycle, TLAPS

StartLabels == {"startPrepare", "startCreate", "startReset", "startSpawn", "startReturn"}
StopLabels == {"stopClose", "stopReset"}
SpeedLabels == {"speedQuery", "speedWait"}

\* A caller is inside Start or Stop exactly while it holds serverLock, and in
\* the middle of a speed query exactly while it holds statsMutex.
LockInv ==
  \A c \in Callers :
    /\ pc[c] \in StartLabels \cup StopLabels <=> serverLock = c
    /\ pc[c] \in SpeedLabels <=> statsMutex = c

\* Ids are handed out in order; an id belongs to TestLatency or to Start.
IdInv ==
  /\ \A n \in tests \cup closed : n <= ids
  /\ \A c \in Callers :
       /\ pc[c] \in {"testCreate", "testClose"} => my[c] \in tests
       /\ pc[c] = "startCreate" =>
            /\ my[c] \in 1..ids /\ my[c] = statsApiPort
            /\ my[c] \notin tests \cup closed

\* What the holder of serverLock has done so far.
StageInv ==
  \A c \in Callers :
    /\ pc[c] \in {"startPrepare", "startCreate", "stopReset"} => server = NONE
    /\ pc[c] \in {"startReset", "startSpawn", "startReturn"} => server = my[c] /\ server \in Ids
    /\ pc[c] = "stopClose" => server \in Ids
    /\ pc[c] = "stopReset" => serverStatus = "STOPPED"

ServerInv ==
  server # NONE => /\ server <= ids
                   /\ server \notin tests \cup closed
                   /\ done = server
                   /\ statsApiPort = server

\* Once Start has reset the totals, only queries through the port of the new
\* server are under way.
BaselineInv ==
  (server # NONE /\ \A c \in Callers : pc[c] # "startReset") =>
    /\ baseline \in {NONE, server}
    /\ \A c \in Callers : pc[c] = "speedWait" => my[c] = server

IInv == /\ TypeOK /\ LockInv /\ IdInv /\ StageInv /\ ServerInv /\ BaselineInv
        /\ StatusTracksServer

\* The part of the types that the steps below depend on.
CallTypes ==
  /\ pc \in [Callers -> Labels]
  /\ my \in [Callers -> Ids \cup {NONE}]
  /\ server \in Ids \cup {NONE} /\ statsApiPort \in Ids \cup {NONE}
  /\ ids \in Nat /\ MaxIds \in Nat
  /\ tests \subseteq Ids /\ closed \subseteq Ids
  /\ NONE \notin Callers \cup Nat
-----------------------------------------------------------------------------

\* The part of the types that the steps below depend on.
LEMMA CallTypesHold == ASSUME IInv PROVE CallTypes
BY LifecycleAssumption DEF IInv, TypeOK, CallTypes, Ids

\* Every step keeps the types.
LEMMA TypeOKStep ==
  ASSUME IInv, Next
  PROVE  TypeOK'
<1>0. TypeOK /\ StageInv /\ IdInv
  BY DEF IInv
<1> USE <1>0 DEF TypeOK, Labels, AllOps, Goto, apiVars, idVars, instVars
<1>1. ASSUME NEW c \in Callers, NEW op \in AllOps, Call(c, op) PROVE TypeOK'
  BY <1>1 DEF Call
<1>2. ASSUME NEW c \in Callers, StartLock(c) PROVE TypeOK'
  <2>1. /\ pc' \in [Callers -> Labels] /\ serverLock' \in Callers \cup {NONE}
        /\ serverStatus' \in {"STOPPED", "STARTING", "RUNNING", "STOPPING"}
    BY <1>2 DEF StartLock
  <2> QED
    BY <1>2, <2>1 DEF StartLock
<1>3. ASSUME NEW c \in Callers, StartRejects(c) PROVE TypeOK'
  BY <1>3 DEF StartRejects, StartFails
<1>4. ASSUME NEW c \in Callers, StartPickPort(c) PROVE TypeOK'
  BY SMTT(20), <1>4, LifecycleAssumption DEF StartPickPort, PickFreePort, Ids
<1>5. ASSUME NEW c \in Callers, StartCreateFails(c) PROVE TypeOK'
  <2>1. my[c] \in Ids
    BY <1>5, LifecycleAssumption DEF StartCreateFails, IdInv, Ids
  <2> QED
    BY <1>5, <2>1 DEF StartCreateFails, StartFails, NewFails
<1>6. ASSUME NEW c \in Callers, StartCreate(c) PROVE TypeOK'
  <2>1. my[c] \in Ids
    BY <1>6, LifecycleAssumption DEF StartCreate, IdInv, Ids
  <2> QED
    BY <1>6, <2>1 DEF StartCreate, NewInstance
<1>7. ASSUME NEW c \in Callers, StartReset(c) PROVE TypeOK'
  BY <1>7 DEF StartReset
<1>8. ASSUME NEW c \in Callers, StartSpawn(c) PROVE TypeOK'
  BY <1>8 DEF StartSpawn, StageInv
<1>9. ASSUME NEW c \in Callers, StartReturn(c) PROVE TypeOK'
  BY <1>9 DEF StartReturn
<1>10. ASSUME NEW c \in Callers, StopLock(c) PROVE TypeOK'
  <2>1. /\ pc' \in [Callers -> Labels] /\ serverLock' \in Callers \cup {NONE}
        /\ serverStatus' \in {"STOPPED", "STARTING", "RUNNING", "STOPPING"}
    BY <1>10 DEF StopLock
  <2> QED
    BY <1>10, <2>1 DEF StopLock
<1>11. ASSUME NEW c \in Callers, StopClose(c) PROVE TypeOK'
  BY <1>11 DEF StopClose, InstanceClose, StageInv
<1>12. ASSUME NEW c \in Callers, StopReset(c) PROVE TypeOK'
  BY <1>12 DEF StopReset
<1>13. ASSUME NEW c \in Callers, TrafficCheck(c) PROVE TypeOK'
  BY <1>13 DEF TrafficCheck
<1>14. ASSUME NEW c \in Callers, SpeedLock(c) PROVE TypeOK'
  BY <1>14 DEF SpeedLock
<1>15. ASSUME NEW c \in Callers, QueryDial(c) PROVE TypeOK'
  BY <1>15 DEF QueryDial
<1>16. ASSUME NEW c \in Callers, TotalReturn(c) PROVE TypeOK'
  BY <1>16 DEF TotalReturn
<1>17. ASSUME NEW c \in Callers, SpeedReturn(c) PROVE TypeOK'
  BY <1>17 DEF SpeedReturn, Answers
<1>18. ASSUME NEW c \in Callers, TestRejects(c) PROVE TypeOK'
  BY <1>18 DEF TestRejects, NewFails, IdInv
<1>19. ASSUME NEW c \in Callers, TestPickPort(c) PROVE TypeOK'
  BY SMTT(20), <1>19, LifecycleAssumption DEF TestPickPort, PickFreePort, Ids
<1>20. ASSUME NEW c \in Callers, TestSpawn(c) PROVE TypeOK'
  BY <1>20 DEF TestSpawn, NewInstance, IdInv
<1>21. ASSUME NEW c \in Callers, TestClose(c) PROVE TypeOK'
  <2>1. my[c] \in Ids
    BY <1>21 DEF TestClose, IdInv
  <2> QED
    BY <1>21, <2>1 DEF TestClose, InstanceClose
<1>22. ASSUME NEW n \in Ids, InstanceStart(n) PROVE TypeOK'
  BY <1>22 DEF InstanceStart
<1>23. ASSUME NEW n \in Ids, InstanceStartFeature(n) PROVE TypeOK'
  <2>1. bound' \in [Ids -> SUBSET (Ports \cup {UserPort, NONE})]
    <3>1. Wanted(n) \subseteq Ports \cup {UserPort, NONE}
      BY DEF Wanted
    <3>2. CASE bound' = bound
      BY <3>2
    <3>3. CASE \E got \in SUBSET Wanted(n) : BindPorts(n, got)
      BY <3>1, <3>3 DEF BindPorts
    <3> QED
      BY <1>23, <3>2, <3>3 DEF InstanceStartFeature
  <2>2. started' \in [Ids -> 0..NFeatures]
    BY <1>23, LifecycleAssumption DEF InstanceStartFeature
  <2>3. go' \in [Ids -> {"none", "spawned", "starting", "failed", "finished", "exited"}]
    BY <1>23 DEF InstanceStartFeature
  <2> QED
    BY <1>23, <2>1, <2>2, <2>3 DEF InstanceStartFeature
<1>24. ASSUME NEW n \in Ids, StartGoroutineFailed(n) PROVE TypeOK'
  BY <1>24 DEF StartGoroutineFailed
<1> HIDE <1>0 DEF TypeOK, Labels, AllOps
<1> QED
  BY Zenon, <1>1, <1>2, <1>3, <1>4, <1>5, <1>6, <1>7, <1>8, <1>9, <1>10, <1>11, <1>12,
       <1>13, <1>14, <1>15, <1>16, <1>17, <1>18, <1>19, <1>20, <1>21, <1>22, <1>23,
       <1>24
  DEF Next, CallerStep, StartStep, StopStep, TrafficStep, TestStep, GoroutineStep

\* Every step keeps the two locks and the program counters in agreement.
LEMMA LockInvStep ==
  ASSUME IInv, Next
  PROVE  LockInv'
<1>0. CallTypes /\ LockInv
  BY CallTypesHold DEF IInv
<1> USE <1>0 DEF CallTypes, LockInv, StartLabels, StopLabels, SpeedLabels, Goto,
     apiVars, idVars, instVars
<1>1. ASSUME NEW c \in Callers, NEW op \in AllOps, Call(c, op) PROVE LockInv'
  BY <1>1 DEF Call, AllOps
<1>2. ASSUME NEW c \in Callers, StartLock(c) PROVE LockInv'
  BY <1>2 DEF StartLock
<1>3. ASSUME NEW c \in Callers, StartRejects(c) PROVE LockInv'
  BY <1>3 DEF StartRejects, StartFails
<1>4. ASSUME NEW c \in Callers, StartPickPort(c) PROVE LockInv'
  BY <1>4 DEF StartPickPort, PickFreePort
<1>5. ASSUME NEW c \in Callers, StartCreateFails(c) PROVE LockInv'
  BY <1>5 DEF StartCreateFails, StartFails, NewFails
<1>6. ASSUME NEW c \in Callers, StartCreate(c) PROVE LockInv'
  BY <1>6 DEF StartCreate, NewInstance
<1>7. ASSUME NEW c \in Callers, StartReset(c) PROVE LockInv'
  BY <1>7 DEF StartReset
<1>8. ASSUME NEW c \in Callers, StartSpawn(c) PROVE LockInv'
  BY <1>8 DEF StartSpawn
<1>9. ASSUME NEW c \in Callers, StartReturn(c) PROVE LockInv'
  BY <1>9 DEF StartReturn
<1>10. ASSUME NEW c \in Callers, StopLock(c) PROVE LockInv'
  BY <1>10 DEF StopLock
<1>11. ASSUME NEW c \in Callers, StopClose(c) PROVE LockInv'
  BY <1>11 DEF StopClose, InstanceClose
<1>12. ASSUME NEW c \in Callers, StopReset(c) PROVE LockInv'
  BY <1>12 DEF StopReset
<1>13. ASSUME NEW c \in Callers, TrafficCheck(c) PROVE LockInv'
  BY <1>13 DEF TrafficCheck
<1>14. ASSUME NEW c \in Callers, SpeedLock(c) PROVE LockInv'
  BY <1>14 DEF SpeedLock
<1>15. ASSUME NEW c \in Callers, QueryDial(c) PROVE LockInv'
  BY <1>15 DEF QueryDial
<1>16. ASSUME NEW c \in Callers, TotalReturn(c) PROVE LockInv'
  BY <1>16 DEF TotalReturn
<1>17. ASSUME NEW c \in Callers, SpeedReturn(c) PROVE LockInv'
  BY <1>17 DEF SpeedReturn, Answers
<1>18. ASSUME NEW c \in Callers, TestRejects(c) PROVE LockInv'
  BY <1>18 DEF TestRejects, NewFails
<1>19. ASSUME NEW c \in Callers, TestPickPort(c) PROVE LockInv'
  BY <1>19 DEF TestPickPort, PickFreePort
<1>20. ASSUME NEW c \in Callers, TestSpawn(c) PROVE LockInv'
  BY <1>20 DEF TestSpawn, NewInstance
<1>21. ASSUME NEW c \in Callers, TestClose(c) PROVE LockInv'
  BY <1>21 DEF TestClose, InstanceClose
<1>22. ASSUME NEW n \in Ids, InstanceStart(n) PROVE LockInv'
  BY <1>22 DEF InstanceStart
<1>23. ASSUME NEW n \in Ids, InstanceStartFeature(n) PROVE LockInv'
  BY <1>23 DEF InstanceStartFeature, BindPorts, Wanted, Busy
<1>24. ASSUME NEW n \in Ids, StartGoroutineFailed(n) PROVE LockInv'
  BY <1>24 DEF StartGoroutineFailed
<1> HIDE <1>0 DEF CallTypes, LockInv, StartLabels, StopLabels, SpeedLabels, Goto
<1> QED
  BY Zenon, <1>1, <1>2, <1>3, <1>4, <1>5, <1>6, <1>7, <1>8, <1>9, <1>10, <1>11, <1>12,
       <1>13, <1>14, <1>15, <1>16, <1>17, <1>18, <1>19, <1>20, <1>21, <1>22, <1>23,
       <1>24
  DEF Next, CallerStep, StartStep, StopStep, TrafficStep, TestStep, GoroutineStep

\* Every step keeps the ids apart.
LEMMA IdInvStep ==
  ASSUME IInv, Next
  PROVE  IdInv'
<1>0. CallTypes /\ IdInv /\ StageInv /\ LockInv /\ ServerInv
  BY CallTypesHold DEF IInv
<1> USE <1>0 DEF CallTypes, IdInv, StageInv, LockInv, ServerInv, Ids, StartLabels,
     StopLabels, SpeedLabels, Goto, apiVars, idVars, instVars
<1>1. ASSUME NEW c \in Callers, NEW op \in AllOps, Call(c, op) PROVE IdInv'
  BY <1>1 DEF Call, AllOps
<1>2. ASSUME NEW c \in Callers, StartLock(c) PROVE IdInv'
  BY <1>2 DEF StartLock
<1>3. ASSUME NEW c \in Callers, StartRejects(c) PROVE IdInv'
  BY <1>3 DEF StartRejects, StartFails
<1>4. ASSUME NEW c \in Callers, StartPickPort(c) PROVE IdInv'
  BY <1>4 DEF StartPickPort, PickFreePort
<1>5. ASSUME NEW c \in Callers, StartCreateFails(c) PROVE IdInv'
  BY <1>5 DEF StartCreateFails, StartFails, NewFails
<1>6. ASSUME NEW c \in Callers, StartCreate(c) PROVE IdInv'
  BY <1>6 DEF StartCreate, NewInstance
<1>7. ASSUME NEW c \in Callers, StartReset(c) PROVE IdInv'
  BY <1>7 DEF StartReset
<1>8. ASSUME NEW c \in Callers, StartSpawn(c) PROVE IdInv'
  BY <1>8 DEF StartSpawn
<1>9. ASSUME NEW c \in Callers, StartReturn(c) PROVE IdInv'
  BY <1>9 DEF StartReturn
<1>10. ASSUME NEW c \in Callers, StopLock(c) PROVE IdInv'
  BY <1>10 DEF StopLock
<1>11. ASSUME NEW c \in Callers, StopClose(c) PROVE IdInv'
  BY <1>11 DEF StopClose, InstanceClose
<1>12. ASSUME NEW c \in Callers, StopReset(c) PROVE IdInv'
  BY <1>12 DEF StopReset
<1>13. ASSUME NEW c \in Callers, TrafficCheck(c) PROVE IdInv'
  BY <1>13 DEF TrafficCheck
<1>14. ASSUME NEW c \in Callers, SpeedLock(c) PROVE IdInv'
  BY <1>14 DEF SpeedLock
<1>15. ASSUME NEW c \in Callers, QueryDial(c) PROVE IdInv'
  BY <1>15 DEF QueryDial
<1>16. ASSUME NEW c \in Callers, TotalReturn(c) PROVE IdInv'
  BY <1>16 DEF TotalReturn
<1>17. ASSUME NEW c \in Callers, SpeedReturn(c) PROVE IdInv'
  BY <1>17 DEF SpeedReturn, Answers
<1>18. ASSUME NEW c \in Callers, TestRejects(c) PROVE IdInv'
  BY <1>18 DEF TestRejects, NewFails
<1>19. ASSUME NEW c \in Callers, TestPickPort(c) PROVE IdInv'
  BY <1>19 DEF TestPickPort, PickFreePort
<1>20. ASSUME NEW c \in Callers, TestSpawn(c) PROVE IdInv'
  BY <1>20 DEF TestSpawn, NewInstance
<1>21. ASSUME NEW c \in Callers, TestClose(c) PROVE IdInv'
  BY <1>21 DEF TestClose, InstanceClose
<1>22. ASSUME NEW n \in Ids, InstanceStart(n) PROVE IdInv'
  BY <1>22 DEF InstanceStart
<1>23. ASSUME NEW n \in Ids, InstanceStartFeature(n) PROVE IdInv'
  BY <1>23 DEF InstanceStartFeature, BindPorts, Wanted, Busy
<1>24. ASSUME NEW n \in Ids, StartGoroutineFailed(n) PROVE IdInv'
  BY <1>24 DEF StartGoroutineFailed
<1> HIDE <1>0 DEF CallTypes, IdInv, StageInv, LockInv, ServerInv, Ids, StartLabels,
     StopLabels, SpeedLabels, Goto
<1> QED
  BY Zenon, <1>1, <1>2, <1>3, <1>4, <1>5, <1>6, <1>7, <1>8, <1>9, <1>10, <1>11, <1>12,
       <1>13, <1>14, <1>15, <1>16, <1>17, <1>18, <1>19, <1>20, <1>21, <1>22, <1>23,
       <1>24
  DEF Next, CallerStep, StartStep, StopStep, TrafficStep, TestStep, GoroutineStep

\* Every step keeps what the lock holder relies on.
LEMMA StageInvStep ==
  ASSUME IInv, Next
  PROVE  StageInv'
<1>0. CallTypes /\ StageInv /\ LockInv /\ IdInv /\ ServerInv /\ StatusTracksServer
  BY CallTypesHold DEF IInv
<1> USE <1>0 DEF CallTypes, StageInv, LockInv, IdInv, ServerInv, StatusTracksServer,
     Ids, StartLabels, StopLabels, SpeedLabels, Goto, apiVars, idVars, instVars
<1>1. ASSUME NEW c \in Callers, NEW op \in AllOps, Call(c, op) PROVE StageInv'
  BY <1>1 DEF Call, AllOps
<1>2. ASSUME NEW c \in Callers, StartLock(c) PROVE StageInv'
  BY <1>2 DEF StartLock
<1>3. ASSUME NEW c \in Callers, StartRejects(c) PROVE StageInv'
  BY <1>3 DEF StartRejects, StartFails
<1>4. ASSUME NEW c \in Callers, StartPickPort(c) PROVE StageInv'
  BY <1>4 DEF StartPickPort, PickFreePort
<1>5. ASSUME NEW c \in Callers, StartCreateFails(c) PROVE StageInv'
  BY <1>5 DEF StartCreateFails, StartFails, NewFails
<1>6. ASSUME NEW c \in Callers, StartCreate(c) PROVE StageInv'
  BY <1>6 DEF StartCreate, NewInstance
<1>7. ASSUME NEW c \in Callers, StartReset(c) PROVE StageInv'
  BY <1>7 DEF StartReset
<1>8. ASSUME NEW c \in Callers, StartSpawn(c) PROVE StageInv'
  BY <1>8 DEF StartSpawn
<1>9. ASSUME NEW c \in Callers, StartReturn(c) PROVE StageInv'
  BY <1>9 DEF StartReturn
<1>10. ASSUME NEW c \in Callers, StopLock(c) PROVE StageInv'
  BY <1>10 DEF StopLock
<1>11. ASSUME NEW c \in Callers, StopClose(c) PROVE StageInv'
  BY <1>11 DEF StopClose, InstanceClose
<1>12. ASSUME NEW c \in Callers, StopReset(c) PROVE StageInv'
  BY <1>12 DEF StopReset
<1>13. ASSUME NEW c \in Callers, TrafficCheck(c) PROVE StageInv'
  BY <1>13 DEF TrafficCheck
<1>14. ASSUME NEW c \in Callers, SpeedLock(c) PROVE StageInv'
  BY <1>14 DEF SpeedLock
<1>15. ASSUME NEW c \in Callers, QueryDial(c) PROVE StageInv'
  BY <1>15 DEF QueryDial
<1>16. ASSUME NEW c \in Callers, TotalReturn(c) PROVE StageInv'
  BY <1>16 DEF TotalReturn
<1>17. ASSUME NEW c \in Callers, SpeedReturn(c) PROVE StageInv'
  BY <1>17 DEF SpeedReturn, Answers
<1>18. ASSUME NEW c \in Callers, TestRejects(c) PROVE StageInv'
  BY <1>18 DEF TestRejects, NewFails
<1>19. ASSUME NEW c \in Callers, TestPickPort(c) PROVE StageInv'
  BY <1>19 DEF TestPickPort, PickFreePort
<1>20. ASSUME NEW c \in Callers, TestSpawn(c) PROVE StageInv'
  BY <1>20 DEF TestSpawn, NewInstance
<1>21. ASSUME NEW c \in Callers, TestClose(c) PROVE StageInv'
  BY <1>21 DEF TestClose, InstanceClose
<1>22. ASSUME NEW n \in Ids, InstanceStart(n) PROVE StageInv'
  BY <1>22 DEF InstanceStart
<1>23. ASSUME NEW n \in Ids, InstanceStartFeature(n) PROVE StageInv'
  BY <1>23 DEF InstanceStartFeature, BindPorts, Wanted, Busy
<1>24. ASSUME NEW n \in Ids, StartGoroutineFailed(n) PROVE StageInv'
  BY <1>24 DEF StartGoroutineFailed
<1> HIDE <1>0 DEF CallTypes, StageInv, LockInv, IdInv, ServerInv,
     StatusTracksServer, Ids, StartLabels, StopLabels, SpeedLabels, Goto
<1> QED
  BY Zenon, <1>1, <1>2, <1>3, <1>4, <1>5, <1>6, <1>7, <1>8, <1>9, <1>10, <1>11, <1>12,
       <1>13, <1>14, <1>15, <1>16, <1>17, <1>18, <1>19, <1>20, <1>21, <1>22, <1>23,
       <1>24
  DEF Next, CallerStep, StartStep, StopStep, TrafficStep, TestStep, GoroutineStep

\* Every step keeps the current server open, with its own channel and port.
LEMMA ServerInvStep ==
  ASSUME IInv, Next
  PROVE  ServerInv'
<1>0. CallTypes /\ ServerInv /\ StageInv /\ LockInv /\ IdInv
  BY CallTypesHold DEF IInv
<1> USE <1>0 DEF CallTypes, ServerInv, StageInv, LockInv, IdInv, Ids, StartLabels,
     StopLabels, SpeedLabels, Goto, apiVars, idVars, instVars
<1>1. ASSUME NEW c \in Callers, NEW op \in AllOps, Call(c, op) PROVE ServerInv'
  BY <1>1 DEF Call, AllOps
<1>2. ASSUME NEW c \in Callers, StartLock(c) PROVE ServerInv'
  BY <1>2 DEF StartLock
<1>3. ASSUME NEW c \in Callers, StartRejects(c) PROVE ServerInv'
  BY <1>3 DEF StartRejects, StartFails
<1>4. ASSUME NEW c \in Callers, StartPickPort(c) PROVE ServerInv'
  BY <1>4 DEF StartPickPort, PickFreePort
<1>5. ASSUME NEW c \in Callers, StartCreateFails(c) PROVE ServerInv'
  BY <1>5 DEF StartCreateFails, StartFails, NewFails
<1>6. ASSUME NEW c \in Callers, StartCreate(c) PROVE ServerInv'
  BY <1>6 DEF StartCreate, NewInstance
<1>7. ASSUME NEW c \in Callers, StartReset(c) PROVE ServerInv'
  BY <1>7 DEF StartReset
<1>8. ASSUME NEW c \in Callers, StartSpawn(c) PROVE ServerInv'
  BY <1>8 DEF StartSpawn
<1>9. ASSUME NEW c \in Callers, StartReturn(c) PROVE ServerInv'
  BY <1>9 DEF StartReturn
<1>10. ASSUME NEW c \in Callers, StopLock(c) PROVE ServerInv'
  BY <1>10 DEF StopLock
<1>11. ASSUME NEW c \in Callers, StopClose(c) PROVE ServerInv'
  BY <1>11 DEF StopClose, InstanceClose
<1>12. ASSUME NEW c \in Callers, StopReset(c) PROVE ServerInv'
  BY <1>12 DEF StopReset
<1>13. ASSUME NEW c \in Callers, TrafficCheck(c) PROVE ServerInv'
  BY <1>13 DEF TrafficCheck
<1>14. ASSUME NEW c \in Callers, SpeedLock(c) PROVE ServerInv'
  BY <1>14 DEF SpeedLock
<1>15. ASSUME NEW c \in Callers, QueryDial(c) PROVE ServerInv'
  BY <1>15 DEF QueryDial
<1>16. ASSUME NEW c \in Callers, TotalReturn(c) PROVE ServerInv'
  BY <1>16 DEF TotalReturn
<1>17. ASSUME NEW c \in Callers, SpeedReturn(c) PROVE ServerInv'
  BY <1>17 DEF SpeedReturn, Answers
<1>18. ASSUME NEW c \in Callers, TestRejects(c) PROVE ServerInv'
  BY <1>18 DEF TestRejects, NewFails
<1>19. ASSUME NEW c \in Callers, TestPickPort(c) PROVE ServerInv'
  BY <1>19 DEF TestPickPort, PickFreePort
<1>20. ASSUME NEW c \in Callers, TestSpawn(c) PROVE ServerInv'
  BY <1>20 DEF TestSpawn, NewInstance
<1>21. ASSUME NEW c \in Callers, TestClose(c) PROVE ServerInv'
  BY <1>21 DEF TestClose, InstanceClose
<1>22. ASSUME NEW n \in Ids, InstanceStart(n) PROVE ServerInv'
  BY <1>22 DEF InstanceStart
<1>23. ASSUME NEW n \in Ids, InstanceStartFeature(n) PROVE ServerInv'
  BY <1>23 DEF InstanceStartFeature, BindPorts, Wanted, Busy
<1>24. ASSUME NEW n \in Ids, StartGoroutineFailed(n) PROVE ServerInv'
  BY <1>24 DEF StartGoroutineFailed
<1> HIDE <1>0 DEF CallTypes, ServerInv, StageInv, LockInv, IdInv, Ids, StartLabels,
     StopLabels, SpeedLabels, Goto
<1> QED
  BY Zenon, <1>1, <1>2, <1>3, <1>4, <1>5, <1>6, <1>7, <1>8, <1>9, <1>10, <1>11, <1>12,
       <1>13, <1>14, <1>15, <1>16, <1>17, <1>18, <1>19, <1>20, <1>21, <1>22, <1>23,
       <1>24
  DEF Next, CallerStep, StartStep, StopStep, TrafficStep, TestStep, GoroutineStep

\* Every step keeps the totals those of the current server.
LEMMA BaselineInvStep ==
  ASSUME IInv, Next
  PROVE  BaselineInv'
<1>0. CallTypes /\ BaselineInv /\ ServerInv /\ StageInv /\ LockInv
  BY CallTypesHold DEF IInv
<1> USE <1>0 DEF CallTypes, BaselineInv, ServerInv, StageInv, LockInv, Ids,
     StartLabels, StopLabels, SpeedLabels, Goto, apiVars, idVars, instVars
<1>1. ASSUME NEW c \in Callers, NEW op \in AllOps, Call(c, op) PROVE BaselineInv'
  BY <1>1 DEF Call, AllOps
<1>2. ASSUME NEW c \in Callers, StartLock(c) PROVE BaselineInv'
  BY <1>2 DEF StartLock
<1>3. ASSUME NEW c \in Callers, StartRejects(c) PROVE BaselineInv'
  BY <1>3 DEF StartRejects, StartFails
<1>4. ASSUME NEW c \in Callers, StartPickPort(c) PROVE BaselineInv'
  BY <1>4 DEF StartPickPort, PickFreePort
<1>5. ASSUME NEW c \in Callers, StartCreateFails(c) PROVE BaselineInv'
  BY <1>5 DEF StartCreateFails, StartFails, NewFails
<1>6. ASSUME NEW c \in Callers, StartCreate(c) PROVE BaselineInv'
  BY <1>6 DEF StartCreate, NewInstance
<1>7. ASSUME NEW c \in Callers, StartReset(c) PROVE BaselineInv'
  BY <1>7 DEF StartReset
<1>8. ASSUME NEW c \in Callers, StartSpawn(c) PROVE BaselineInv'
  BY <1>8 DEF StartSpawn
<1>9. ASSUME NEW c \in Callers, StartReturn(c) PROVE BaselineInv'
  BY <1>9 DEF StartReturn
<1>10. ASSUME NEW c \in Callers, StopLock(c) PROVE BaselineInv'
  BY <1>10 DEF StopLock
<1>11. ASSUME NEW c \in Callers, StopClose(c) PROVE BaselineInv'
  BY <1>11 DEF StopClose, InstanceClose
<1>12. ASSUME NEW c \in Callers, StopReset(c) PROVE BaselineInv'
  BY <1>12 DEF StopReset
<1>13. ASSUME NEW c \in Callers, TrafficCheck(c) PROVE BaselineInv'
  BY <1>13 DEF TrafficCheck
<1>14. ASSUME NEW c \in Callers, SpeedLock(c) PROVE BaselineInv'
  BY <1>14 DEF SpeedLock
<1>15. ASSUME NEW c \in Callers, QueryDial(c) PROVE BaselineInv'
  BY <1>15 DEF QueryDial
<1>16. ASSUME NEW c \in Callers, TotalReturn(c) PROVE BaselineInv'
  BY <1>16 DEF TotalReturn
<1>17. ASSUME NEW c \in Callers, SpeedReturn(c) PROVE BaselineInv'
  BY <1>17 DEF SpeedReturn, Answers
<1>18. ASSUME NEW c \in Callers, TestRejects(c) PROVE BaselineInv'
  BY <1>18 DEF TestRejects, NewFails
<1>19. ASSUME NEW c \in Callers, TestPickPort(c) PROVE BaselineInv'
  BY <1>19 DEF TestPickPort, PickFreePort
<1>20. ASSUME NEW c \in Callers, TestSpawn(c) PROVE BaselineInv'
  BY <1>20 DEF TestSpawn, NewInstance
<1>21. ASSUME NEW c \in Callers, TestClose(c) PROVE BaselineInv'
  BY <1>21 DEF TestClose, InstanceClose
<1>22. ASSUME NEW n \in Ids, InstanceStart(n) PROVE BaselineInv'
  BY <1>22 DEF InstanceStart
<1>23. ASSUME NEW n \in Ids, InstanceStartFeature(n) PROVE BaselineInv'
  BY <1>23 DEF InstanceStartFeature, BindPorts, Wanted, Busy
<1>24. ASSUME NEW n \in Ids, StartGoroutineFailed(n) PROVE BaselineInv'
  BY <1>24 DEF StartGoroutineFailed
<1> HIDE <1>0 DEF CallTypes, BaselineInv, ServerInv, StageInv, LockInv, Ids,
     StartLabels, StopLabels, SpeedLabels, Goto
<1> QED
  BY Zenon, <1>1, <1>2, <1>3, <1>4, <1>5, <1>6, <1>7, <1>8, <1>9, <1>10, <1>11, <1>12,
       <1>13, <1>14, <1>15, <1>16, <1>17, <1>18, <1>19, <1>20, <1>21, <1>22, <1>23,
       <1>24
  DEF Next, CallerStep, StartStep, StopStep, TrafficStep, TestStep, GoroutineStep

\* Every step keeps the reported status in agreement with the server.
LEMMA StatusTracksServerStep ==
  ASSUME IInv, Next
  PROVE  StatusTracksServer'
<1>0. CallTypes /\ StatusTracksServer /\ LockInv /\ StageInv
  BY CallTypesHold DEF IInv
<1> USE <1>0 DEF CallTypes, StatusTracksServer, LockInv, StageInv, Ids, StartLabels,
     StopLabels, SpeedLabels, Goto, apiVars, idVars, instVars
<1>1. ASSUME NEW c \in Callers, NEW op \in AllOps, Call(c, op) PROVE StatusTracksServer'
  BY <1>1 DEF Call, AllOps
<1>2. ASSUME NEW c \in Callers, StartLock(c) PROVE StatusTracksServer'
  BY <1>2 DEF StartLock
<1>3. ASSUME NEW c \in Callers, StartRejects(c) PROVE StatusTracksServer'
  BY <1>3 DEF StartRejects, StartFails
<1>4. ASSUME NEW c \in Callers, StartPickPort(c) PROVE StatusTracksServer'
  BY <1>4 DEF StartPickPort, PickFreePort
<1>5. ASSUME NEW c \in Callers, StartCreateFails(c) PROVE StatusTracksServer'
  BY <1>5 DEF StartCreateFails, StartFails, NewFails
<1>6. ASSUME NEW c \in Callers, StartCreate(c) PROVE StatusTracksServer'
  BY <1>6 DEF StartCreate, NewInstance
<1>7. ASSUME NEW c \in Callers, StartReset(c) PROVE StatusTracksServer'
  BY <1>7 DEF StartReset
<1>8. ASSUME NEW c \in Callers, StartSpawn(c) PROVE StatusTracksServer'
  BY <1>8 DEF StartSpawn
<1>9. ASSUME NEW c \in Callers, StartReturn(c) PROVE StatusTracksServer'
  BY <1>9 DEF StartReturn
<1>10. ASSUME NEW c \in Callers, StopLock(c) PROVE StatusTracksServer'
  BY <1>10 DEF StopLock
<1>11. ASSUME NEW c \in Callers, StopClose(c) PROVE StatusTracksServer'
  BY <1>11 DEF StopClose, InstanceClose
<1>12. ASSUME NEW c \in Callers, StopReset(c) PROVE StatusTracksServer'
  BY <1>12 DEF StopReset
<1>13. ASSUME NEW c \in Callers, TrafficCheck(c) PROVE StatusTracksServer'
  BY <1>13 DEF TrafficCheck
<1>14. ASSUME NEW c \in Callers, SpeedLock(c) PROVE StatusTracksServer'
  BY <1>14 DEF SpeedLock
<1>15. ASSUME NEW c \in Callers, QueryDial(c) PROVE StatusTracksServer'
  BY <1>15 DEF QueryDial
<1>16. ASSUME NEW c \in Callers, TotalReturn(c) PROVE StatusTracksServer'
  BY <1>16 DEF TotalReturn
<1>17. ASSUME NEW c \in Callers, SpeedReturn(c) PROVE StatusTracksServer'
  BY <1>17 DEF SpeedReturn, Answers
<1>18. ASSUME NEW c \in Callers, TestRejects(c) PROVE StatusTracksServer'
  BY <1>18 DEF TestRejects, NewFails
<1>19. ASSUME NEW c \in Callers, TestPickPort(c) PROVE StatusTracksServer'
  BY <1>19 DEF TestPickPort, PickFreePort
<1>20. ASSUME NEW c \in Callers, TestSpawn(c) PROVE StatusTracksServer'
  BY <1>20 DEF TestSpawn, NewInstance
<1>21. ASSUME NEW c \in Callers, TestClose(c) PROVE StatusTracksServer'
  BY <1>21 DEF TestClose, InstanceClose
<1>22. ASSUME NEW n \in Ids, InstanceStart(n) PROVE StatusTracksServer'
  BY <1>22 DEF InstanceStart
<1>23. ASSUME NEW n \in Ids, InstanceStartFeature(n) PROVE StatusTracksServer'
  BY <1>23 DEF InstanceStartFeature, BindPorts, Wanted, Busy
<1>24. ASSUME NEW n \in Ids, StartGoroutineFailed(n) PROVE StatusTracksServer'
  BY <1>24 DEF StartGoroutineFailed
<1> HIDE <1>0 DEF CallTypes, StatusTracksServer, LockInv, StageInv, Ids,
     StartLabels, StopLabels, SpeedLabels, Goto
<1> QED
  BY Zenon, <1>1, <1>2, <1>3, <1>4, <1>5, <1>6, <1>7, <1>8, <1>9, <1>10, <1>11, <1>12,
       <1>13, <1>14, <1>15, <1>16, <1>17, <1>18, <1>19, <1>20, <1>21, <1>22, <1>23,
       <1>24
  DEF Next, CallerStep, StartStep, StopStep, TrafficStep, TestStep, GoroutineStep

\* The initial state satisfies the inductive invariant.
LEMMA InitIInv == Init => IInv
BY LifecycleAssumption, SMTT(20)
DEF Init, IInv, TypeOK, Labels, LockInv, StartLabels, StopLabels, SpeedLabels, IdInv,
    StageInv, ServerInv, BaselineInv, StatusTracksServer, Ids

\* Steps that change nothing preserve it.
LEMMA StutterIInv == IInv /\ UNCHANGED vars => IInv'
BY DEF vars, apiVars, idVars, instVars, IInv, TypeOK, LockInv, IdInv, StageInv,
       ServerInv, BaselineInv, StatusTracksServer

\* The inductive invariant holds in every behaviour.
LEMMA Inductive == Spec => []IInv
<1>1. IInv /\ [Next]_vars => IInv'
  BY TypeOKStep, LockInvStep, IdInvStep, StageInvStep, ServerInvStep, BaselineInvStep,
     StatusTracksServerStep, StutterIInv DEF IInv
<1> QED
  BY InitIInv, <1>1, PTL DEF Spec

\* The variables of the library keep their types.
THEOREM TypeCorrect == Spec => []TypeOK
<1>1. IInv => TypeOK
  BY DEF IInv
<1> QED
  BY Inductive, <1>1, PTL

\* GetStatus reports STOPPED exactly when there is no server and RUNNING
\* otherwise, for any number of threads calling the library and instances that
\* come up late or fail.
THEOREM StatusCorrect == Spec => []StatusTracksServer
<1>1. IInv => StatusTracksServer
  BY DEF IInv
<1> QED
  BY Inductive, <1>1, PTL

\* No server is closed twice and no done channel is closed twice by Stop.
THEOREM ClosedOnce == Spec => []ServerIsOpen
<1>1. IInv => ServerIsOpen
  BY DEF IInv, ServerInv, ServerIsOpen
<1> QED
  BY Inductive, <1>1, PTL

\* The totals GetRealtimeSpeed subtracts were read through the API port of the
\* server that is running, whatever the interleaving of Start, Stop and delayed
\* speed queries.
THEOREM BaselineCorrect == Spec => []BaselineOfCurrentServer
<1>1. IInv => BaselineOfCurrentServer
  <2>1. ASSUME IInv, serverLock = NONE, server # NONE
        PROVE  \A c \in Callers : pc[c] # "startReset"
    BY Zenon, <2>1, LifecycleAssumption DEF IInv, LockInv, StartLabels
  <2> QED
    BY Zenon, <2>1 DEF IInv, BaselineInv, BaselineOfCurrentServer
<1> QED
  BY Inductive, <1>1, PTL
=============================================================================
