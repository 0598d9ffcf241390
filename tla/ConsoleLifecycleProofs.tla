----------------------- MODULE ConsoleLifecycleProofs -----------------------
(***************************************************************************)
(* Proofs about ConsoleLifecycle, for every number of workers, consoles,    *)
(* resets, slots, attempts and faults.                                      *)
(***************************************************************************)
EXTENDS ConsoleLifecycle, FiniteSetTheorems, TLAPS

-----------------------------------------------------------------------------
(* Type correctness.  It needs to know where the loop counter can still     *)
(* grow and that a worker only connects a console it has created.           *)

Located ==
  \A w \in Workers :
    /\ pc[w] \in {"logout", "key", "token"} => attempt[w] < MaxAttempts
    /\ pc[w] = "connect" => cur # None

TypeInv == TypeOK /\ Located

\* The members of the pool can be counted, so a slot that is free can be taken.
LEMMA OthersBounded ==
  ASSUME IloTypeOK, ~PoolFull
  PROVE  others + 1 \in 0..PoolSize
<1>1. IsFiniteSet(pool)
  BY CookiesAssumption, FS_Subset DEF IloTypeOK
<1>2. Cardinality(pool) \in Nat
  BY <1>1, FS_CardinalityType
<1> QED
  BY <1>2, PoolAssumption DEF IloTypeOK, PoolFull

\* A step of worker w to one of the labels L leaves the others where they are.
LEMMA GotoType ==
  ASSUME pc \in [Workers -> Labels], NEW w \in Workers,
         NEW L \in SUBSET Labels, \E label \in L : Goto(w, label)
  PROVE  /\ pc' \in [Workers -> Labels]
         /\ pc'[w] \in L
         /\ \A v \in Workers \ {w} : pc'[v] = pc[v]
  BY DEF Goto

LEMMA FaultType ==
  ASSUME TypeOK, NEW k, Fault(k)
  PROVE  faults' \in 0..MaxFaults
  BY BudgetAssumption DEF TypeOK, Fault

LEMMA RequestLostType ==
  ASSUME TypeOK, RequestLost
  PROVE  UNCHANGED iloVars /\ faults' \in 0..MaxFaults
  BY FaultType DEF RequestLost, TypeOK

LEMMA ScheduleType ==
  ASSUME TypeOK, ScheduleReconnect
  PROVE  fresh' \in 0..MaxTimers /\ ripe' = ripe /\ fresh' > 0
  BY TimersAssumption DEF TypeOK, ScheduleReconnect

\* start_console_thread changes at most one worker, from "off" to "begin".
LEMMA StartType ==
  ASSUME TypeOK, StartConsole
  PROVE  /\ pc' \in [Workers -> Labels]
         /\ lock' = TRUE
         /\ \A v \in Workers :
              pc'[v] = pc[v] \/ (~lock /\ pc[v] = "off" /\ pc'[v] = "begin")
<1>1. lock' = TRUE
  <2>1. CASE lock /\ UNCHANGED <<lock, pc>>
    <3>1. lock' = lock /\ lock = TRUE
      BY <2>1 DEF TypeOK
    <3> QED
      BY <3>1, Zenon
  <2> QED
    BY <2>1 DEF StartConsole
<1>2. CASE UNCHANGED pc
  BY <1>1, <1>2 DEF TypeOK
<1>3. CASE ~lock /\ SpawnWorker
  <2>1. PICK w \in Workers : pc[w] = "off" /\ Goto(w, "begin")
    BY <1>3 DEF SpawnWorker
  <2>2. pc \in [Workers -> Labels] /\ {"begin"} \in SUBSET Labels
    BY DEF TypeOK, Labels
  <2>3. /\ pc' \in [Workers -> Labels]
        /\ pc'[w] = "begin"
        /\ \A v \in Workers \ {w} : pc'[v] = pc[v]
    BY <2>1, <2>2, GotoType
  <2> QED
    BY <1>1, <1>3, <2>1, <2>3
<1> QED
  BY <1>2, <1>3 DEF StartConsole

LEMMA IloUnchanged ==
  ASSUME IloTypeOK, UNCHANGED iloVars
  PROVE  IloTypeOK'
  BY DEF IloTypeOK, iloVars

\* What the program's requests do to the iLO2 keeps its state well typed.
LEMMA IloRequestType ==
  ASSUME IloTypeOK,
         \/ \E k \in Cookies : GrantSlot(k) \/ ReleaseSlot(k)
         \/ ArmKvm
         \/ Reboot
         \/ Booted
         \/ \E c \in Consoles : HangUp(c) \/ AcceptKvm(c)
  PROVE  IloTypeOK'
<1>1. up' \in BOOLEAN /\ armed' \in BOOLEAN
  BY Zenon DEF IloTypeOK, GrantSlot, ReleaseSlot, ArmKvm, Reboot, Booted, HangUp,
               AcceptKvm
<1>2. pool' \subseteq Cookies /\ others' \in 0..PoolSize
  BY PoolAssumption DEF IloTypeOK, GrantSlot, ReleaseSlot, ArmKvm, Reboot, Booted,
                        HangUp, AcceptKvm
<1>3. kvm' \in Consoles \cup {None} /\ eof' \subseteq Consoles
      /\ seizing' \subseteq Consoles
  BY DEF IloTypeOK, GrantSlot, ReleaseSlot, ArmKvm, Reboot, Booted, HangUp, AcceptKvm
<1> QED
  BY <1>1, <1>2, <1>3 DEF IloTypeOK

LEMMA IloEnvironmentType ==
  ASSUME IloTypeOK,
         \/ OtherUserLogsOut \/ OtherUserLogsIn \/ ArmingExpires \/ SlotTimesOut
         \/ KvmCloses \/ KvmVanishes \/ KvmSeizedByOther
  PROVE  IloTypeOK'
<1>1. up' \in BOOLEAN /\ armed' \in BOOLEAN
  BY Zenon DEF IloTypeOK, OtherUserLogsOut, OtherUserLogsIn, ArmingExpires,
               SlotTimesOut, KvmCloses, KvmVanishes, KvmSeizedByOther
<1>2. others' \in 0..PoolSize
  BY OthersBounded, PoolAssumption
     DEF IloTypeOK, OtherUserLogsOut, OtherUserLogsIn, ArmingExpires,
         SlotTimesOut, KvmCloses, KvmVanishes, KvmSeizedByOther
<1>3. /\ pool' \subseteq Cookies
      /\ kvm' \in Consoles \cup {None} 
      /\ eof' \subseteq Consoles
      /\ seizing' \subseteq Consoles
  BY DEF IloTypeOK, OtherUserLogsOut, OtherUserLogsIn, ArmingExpires,
         SlotTimesOut, KvmCloses, KvmVanishes, KvmSeizedByOther
<1> QED
  BY <1>1, <1>2, <1>3 DEF IloTypeOK

LEMMA LogoutType ==
  ASSUME TypeOK, LogoutRequest
  PROVE  IloTypeOK' /\ cookie' = None /\ faults' \in 0..MaxFaults
<1>1. IloTypeOK
  BY DEF TypeOK
<1>2. CASE cookie = None /\ UNCHANGED <<iloVars, faults>>
  BY <1>1, <1>2, IloUnchanged DEF LogoutRequest, TypeOK
<1>3. CASE cookie # None /\ ReleaseSlot(cookie) /\ UNCHANGED faults
  BY <1>1, <1>3, IloRequestType DEF LogoutRequest, TypeOK
<1>4. CASE RequestLost
  BY <1>1, <1>4, IloUnchanged, RequestLostType DEF LogoutRequest
<1> QED
  BY <1>2, <1>3, <1>4 DEF LogoutRequest

\* What a step of a worker keeps well typed, but for its label and the iLO2.
LEMMA TypeOfStep ==
  ASSUME TypeOK, NEW w \in Workers, WorkerStep(w)
  PROVE  lock' \in BOOLEAN /\ prompted' \in BOOLEAN /\ abandoned' \in BOOLEAN
  BY Zenon
     DEF TypeOK, WorkerStep, Begin, Logout, LoginKey, AskUser, LoginToken, FetchParams,
         Connect, Tail, Fail, Release, WorkerFrame

LEMMA TypeBegin ==
  ASSUME TypeInv, NEW w \in Workers, Begin(w)
  PROVE  TypeInv'
<1> USE DEF TypeInv
<1>1. pc \in [Workers -> Labels] /\ {"logout"} \in SUBSET Labels
      /\ \E label \in {"logout"} : Goto(w, label)
  BY DEF TypeOK, Labels, Begin
<1>2. pc' \in [Workers -> Labels] /\ pc'[w] = "logout"
      /\ \A v \in Workers \ {w} : pc'[v] = pc[v]
  BY <1>1, GotoType
<1>3. IloTypeOK'
  BY IloUnchanged DEF Begin, TypeOK
<1>4. /\ attempt' \in [Workers -> 0..MaxAttempts]
      /\ attempt'[w] = 0
      /\ \A v \in Workers \ {w} : attempt'[v] = attempt[v]
  BY AttemptsAssumption DEF Begin, TypeOK
<1>5. state' \in States
  BY DEF Begin, States
<1>6. TypeOK'
  BY <1>2, <1>3, <1>4, <1>5, TypeOfStep DEF Begin, TypeOK, budgets, WorkerStep
<1>7. Located'
  BY <1>2, <1>4, AttemptsAssumption DEF Begin, Located
<1> QED
  BY <1>6, <1>7

LEMMA TypeLogout ==
  ASSUME TypeInv, NEW w \in Workers, Logout(w)
  PROVE  TypeInv'
<1> USE DEF TypeInv
<1>1. pc \in [Workers -> Labels] /\ {"key"} \in SUBSET Labels
      /\ \E label \in {"key"} : Goto(w, label)
  BY DEF TypeOK, Labels, Logout
<1>2. pc' \in [Workers -> Labels] /\ pc'[w] = "key"
      /\ \A v \in Workers \ {w} : pc'[v] = pc[v]
  BY <1>1, GotoType
<1>3. IloTypeOK' /\ cookie' = None /\ faults' \in 0..MaxFaults
  BY LogoutType DEF Logout
<1>4. TypeOK'
  BY <1>2, <1>3, TypeOfStep DEF Logout, WorkerFrame, TypeOK, WorkerStep
<1>5. Located'
  BY <1>2 DEF Logout, WorkerFrame, Located
<1> QED
  BY <1>4, <1>5

LEMMA TypeLoginKey ==
  ASSUME TypeInv, NEW w \in Workers, LoginKey(w)
  PROVE  TypeInv'
<1> USE DEF TypeInv
<1>1. pc \in [Workers -> Labels] /\ {"release", "token", "fail"} \in SUBSET Labels
      /\ \E label \in {"release", "token", "fail"} : Goto(w, label)
  BY DEF TypeOK, Labels, LoginKey, AskUser
<1>2. pc' \in [Workers -> Labels] /\ pc'[w] \in {"release", "token", "fail"}
      /\ \A v \in Workers \ {w} : pc'[v] = pc[v]
  BY <1>1, GotoType
<1>3. UNCHANGED iloVars /\ faults' \in 0..MaxFaults
  BY RequestLostType DEF LoginKey, TypeOK
<1>4. IloTypeOK'
  BY <1>3, IloUnchanged DEF TypeOK
<1>5. state' \in States /\ fresh' = fresh /\ ripe' = ripe
  BY DEF LoginKey, AskUser, States, TypeOK
<1>6. TypeOK'
  BY <1>2, <1>3, <1>4, <1>5, TypeOfStep DEF LoginKey, TypeOK, WorkerStep
<1>7. Located'
  BY <1>2 DEF LoginKey, Located
<1> QED
  BY <1>6, <1>7

LEMMA TypeLoginToken ==
  ASSUME TypeInv, NEW w \in Workers, LoginToken(w)
  PROVE  TypeInv'
<1> USE DEF TypeInv
<1>1. pc \in [Workers -> Labels] /\ {"params", "fail"} \in SUBSET Labels
      /\ \E label \in {"params", "fail"} : Goto(w, label)
  BY DEF TypeOK, Labels, LoginToken
<1>2. pc' \in [Workers -> Labels] /\ pc'[w] \in {"params", "fail"}
      /\ \A v \in Workers \ {w} : pc'[v] = pc[v]
  BY <1>1, GotoType
<1>3. IloTypeOK' /\ faults' \in 0..MaxFaults
  <2>1. CASE \E k \in FreshCookies : GrantSlot(k)
    <3>1. faults' \in 0..MaxFaults
      BY <2>1, FaultType, RequestLostType DEF LoginToken, TypeOK
    <3> QED
      BY <2>1, <3>1, IloRequestType DEF FreshCookies, TypeOK
  <2>2. CASE UNCHANGED iloVars
    BY <2>2, IloUnchanged, FaultType, RequestLostType DEF LoginToken, TypeOK
  <2> QED
    BY <2>1, <2>2, RequestLostType DEF LoginToken
<1>4. cookie' \in Cookies \cup {None}
  BY DEF LoginToken, FreshCookies, TypeOK
<1>5. attempt[w] < MaxAttempts
  BY DEF LoginToken, Located
<1>6. /\ attempt' \in [Workers -> 0..MaxAttempts]
      /\ \A v \in Workers \ {w} : attempt'[v] = attempt[v]
  BY <1>5, AttemptsAssumption DEF LoginToken, TypeOK
<1>7. TypeOK'
  BY <1>2, <1>3, <1>4, <1>6, TypeOfStep
     DEF LoginToken, WorkerFrame, TypeOK, WorkerStep
<1>8. Located'
  BY <1>2, <1>6 DEF LoginToken, WorkerFrame, Located
<1> QED
  BY <1>7, <1>8

LEMMA TypeFetchParams ==
  ASSUME TypeInv, NEW w \in Workers, FetchParams(w)
  PROVE  TypeInv'
<1> USE DEF TypeInv
<1>1. pc \in [Workers -> Labels]
      /\ {"connect", "fail", "logout", "params"} \in SUBSET Labels
  BY DEF TypeOK, Labels
<1>2. /\ pc' \in [Workers -> Labels]
      /\ pc'[w] \in {"connect", "fail", "logout", "params"}
      /\ \A v \in Workers \ {w} : pc'[v] = pc[v]
  <2>1. CASE UNCHANGED pc
    BY <2>1, <1>1 DEF FetchParams
  <2>2. CASE \E label \in {"connect", "fail", "logout", "params"} : Goto(w, label)
    BY <2>2, <1>1, GotoType
  <2> QED
    BY <2>1, <2>2 DEF FetchParams, RequestRaises, Refused
<1>3. IloTypeOK' /\ faults' \in 0..MaxFaults
  <2>1. CASE ArmKvm
    <3>1. faults' \in 0..MaxFaults
      BY <2>1, FaultType, RequestLostType DEF FetchParams, RequestRaises, TypeOK
    <3> QED
      BY <2>1, <3>1, IloRequestType DEF TypeOK
  <2>2. CASE UNCHANGED iloVars
    BY <2>2, IloUnchanged, FaultType, RequestLostType
       DEF FetchParams, RequestRaises, TypeOK
  <2>3. CASE (\E k \in FreshCookies : GrantSlot(k)) /\ UNCHANGED faults
    BY <2>3, IloRequestType DEF FreshCookies, TypeOK
  <2> QED
    BY <2>1, <2>2, <2>3, RequestLostType DEF FetchParams, RequestRaises
<1>4. cookie' \in Cookies \cup {None} /\ cur' \in Consoles \cup {None}
  BY DEF FetchParams, FreshCookies, NewConsole, TypeOK
<1>5. TypeOK'
  BY <1>2, <1>3, <1>4, TypeOfStep DEF FetchParams, WorkerFrame, TypeOK, WorkerStep
<1>6. pc'[w] = "logout" => attempt[w] < MaxAttempts
  BY <1>1 DEF FetchParams, Goto, RequestRaises, Refused
<1>7. pc'[w] = "connect" => cur' # None
  BY <1>1, NoneAssumption DEF FetchParams, Goto, RequestRaises, Refused, NewConsole
<1>8. cur # None => cur' # None
  BY NoneAssumption DEF FetchParams, NewConsole
<1>9. Located'
  BY <1>2, <1>6, <1>7, <1>8 DEF FetchParams, WorkerFrame, Located
<1> QED
  BY <1>5, <1>9

LEMMA TypeConnect ==
  ASSUME TypeInv, NEW w \in Workers, Connect(w)
  PROVE  TypeInv'
<1> USE DEF TypeInv
<1>1. pc \in [Workers -> Labels] /\ {"tail", "fail", "logout"} \in SUBSET Labels
      /\ \E label \in {"tail", "fail", "logout"} : Goto(w, label)
  BY DEF TypeOK, Labels, Connect, RequestRaises, Refused
<1>2. pc' \in [Workers -> Labels] /\ pc'[w] \in {"tail", "fail", "logout"}
      /\ \A v \in Workers \ {w} : pc'[v] = pc[v]
  BY <1>1, GotoType
<1>3. cur \in Consoles
  BY DEF Connect, Located, TypeOK
<1>4. IloTypeOK' /\ faults' \in 0..MaxFaults
  <2>1. CASE AcceptKvm(cur) /\ UNCHANGED faults
    BY <1>3, <2>1, IloRequestType DEF TypeOK
  <2>2. CASE UNCHANGED iloVars
    BY <2>2, IloUnchanged, RequestLostType DEF Connect, RequestRaises, TypeOK
  <2> QED
    BY <2>1, <2>2, RequestLostType DEF Connect, RequestRaises
<1>5. con' \in [Consoles -> {"idle", "live", "seized"}]
  BY <1>3 DEF Connect, TypeOK
<1>6. TypeOK'
  BY <1>2, <1>4, <1>5, TypeOfStep DEF Connect, WorkerFrame, TypeOK, WorkerStep
<1>7. pc'[w] = "logout" => attempt[w] < MaxAttempts
  BY <1>1 DEF Connect, Goto, RequestRaises, Refused
<1>8. Located'
  BY <1>2, <1>7 DEF Connect, WorkerFrame, Located
<1> QED
  BY <1>6, <1>8

LEMMA TypeEndOfWorker ==
  ASSUME TypeInv, NEW w \in Workers, Tail(w) \/ Fail(w) \/ Release(w)
  PROVE  TypeInv'
<1> USE DEF TypeInv
<1>1. pc \in [Workers -> Labels] /\ {"release", "off"} \in SUBSET Labels
      /\ \E label \in {"release", "off"} : Goto(w, label)
  BY DEF TypeOK, Labels, Tail, Fail, Release
<1>2. pc' \in [Workers -> Labels] /\ pc'[w] \in {"release", "off"}
      /\ \A v \in Workers \ {w} : pc'[v] = pc[v]
  BY <1>1, GotoType
<1>3. IloTypeOK'
  BY IloUnchanged DEF Tail, Fail, Release, TypeOK
<1>4. state' \in States /\ fresh' \in 0..MaxTimers /\ ripe' \in 0..MaxTimers
  BY ScheduleType DEF Tail, Fail, Release, WorkerFrame, States, TypeOK
<1>5. TypeOK'
  BY <1>2, <1>3, <1>4, TypeOfStep
     DEF Tail, Fail, Release, WorkerFrame, TypeOK, WorkerStep, budgets
<1>6. Located'
  BY <1>2 DEF Tail, Fail, Release, WorkerFrame, Located
<1> QED
  BY <1>5, <1>6

LEMMA TypeWorker ==
  ASSUME TypeInv, NEW w \in Workers, WorkerStep(w)
  PROVE  TypeInv'
  BY TypeBegin, TypeLogout, TypeLoginKey, TypeLoginToken, TypeFetchParams, TypeConnect,
     TypeEndOfWorker DEF WorkerStep

LEMMA TypeReceiver ==
  ASSUME TypeInv, NEW c \in Consoles, Receiver(c)
  PROVE  TypeInv'
<1> USE DEF TypeInv
<1>1. IloTypeOK'
  BY IloRequestType DEF Receiver, SeizeReceived, RecvLoopEnds, TypeOK
<1>2. fresh' \in 0..MaxTimers /\ ripe' = ripe
  BY ScheduleType
     DEF Receiver, SeizeReceived, RecvLoopEnds, OnConsoleDisconnected, TypeOK
<1>3. state' \in States
  BY DEF Receiver, SeizeReceived, RecvLoopEnds, OnConsoleDisconnected, States
<1>4. con' \in [Consoles -> {"idle", "live", "seized"}]
  BY DEF Receiver, SeizeReceived, RecvLoopEnds, TypeOK
<1>5. UNCHANGED <<proc, lock, pc, attempt, cookie, cur, reset, prompted, abandoned,
                  budgets>>
  BY DEF Receiver, SeizeReceived, RecvLoopEnds, ReceiverFrame
<1>6. TypeOK'
  BY <1>1, <1>2, <1>3, <1>4, <1>5 DEF TypeOK, budgets
<1>7. Located'
  BY <1>5 DEF Located
<1> QED
  BY <1>6, <1>7

\* A step that starts a worker, or does not, and leaves its counter alone.
LEMMA LocatedStart ==
  ASSUME TypeInv, StartConsole, UNCHANGED <<attempt, cur>>
  PROVE  Located'
  BY StartType DEF TypeInv, Located

LEMMA TypeTimer ==
  ASSUME TypeInv, DelayElapses \/ TimerFires
  PROVE  TypeInv'
<1> USE DEF TypeInv
<1>1. CASE DelayElapses
  <2>1. IloTypeOK'
    BY <1>1, IloUnchanged DEF DelayElapses, TypeOK
  <2>2. fresh' \in 0..MaxTimers /\ ripe' \in 0..MaxTimers
    BY <1>1, TimersAssumption DEF DelayElapses, TypeOK
  <2>3. TypeOK'
    BY <1>1, <2>1, <2>2 DEF DelayElapses, exceptTimers, TypeOK, budgets
  <2>4. Located'
    BY <1>1 DEF DelayElapses, exceptTimers, Located
  <2> QED
    BY <2>3, <2>4
<1>2. CASE TimerFires
  <2>1. IloTypeOK'
    BY <1>2, IloUnchanged DEF TimerFires, TypeOK
  <2>2. ripe' \in 0..MaxTimers
    BY <1>2, TimersAssumption DEF TimerFires, TypeOK
  <2>3. lock' \in BOOLEAN /\ pc' \in [Workers -> Labels]
    BY <1>2, StartType DEF TimerFires
  <2>4. TypeOK'
    BY <1>2, <2>1, <2>2, <2>3 DEF TimerFires, TypeOK, budgets
  <2>5. Located'
    BY <1>2, LocatedStart DEF TimerFires
  <2> QED
    BY <2>4, <2>5
<1> QED
  BY <1>1, <1>2

LEMMA TypeClick ==
  ASSUME TypeInv, ClickStart
  PROVE  TypeInv'
<1> USE DEF TypeInv
<1>1. IloTypeOK'
  BY IloUnchanged DEF ClickStart, TypeOK
<1>2. lock' \in BOOLEAN /\ pc' \in [Workers -> Labels]
  BY StartType DEF ClickStart
<1>3. clicks' \in 0..MaxClicks
  BY BudgetAssumption DEF ClickStart, TypeOK
<1>4. TypeOK'
  BY <1>1, <1>2, <1>3 DEF ClickStart, EventLoopFrame, TypeOK
<1>5. Located'
  BY LocatedStart DEF ClickStart, EventLoopFrame
<1> QED
  BY <1>4, <1>5

LEMMA TypeReset ==
  ASSUME TypeInv, NEW r \in Resets, ConfirmReset(r) \/ ResetStep(r)
  PROVE  TypeInv'
<1> USE DEF TypeInv
<1>1. CASE ConfirmReset(r)
  <2>1. IloTypeOK'
    BY <1>1, IloUnchanged DEF ConfirmReset, TypeOK
  <2>2. clicks' \in 0..MaxClicks
    BY <1>1, BudgetAssumption DEF ConfirmReset, TypeOK
  <2>3. TypeOK'
    BY <1>1, <2>1, <2>2 DEF ConfirmReset, EventLoopFrame, TypeOK
  <2>4. Located'
    BY <1>1 DEF ConfirmReset, EventLoopFrame, Located
  <2> QED
    BY <2>3, <2>4
<1>2. CASE SendReset(r) \/ ResetTimesOut(r)
  <2>1. IloTypeOK' /\ faults' \in 0..MaxFaults
    <3>1. CASE Reboot
      BY <1>2, <3>1, IloRequestType, FaultType, RequestLostType
         DEF SendReset, ResetTimesOut, TypeOK
    <3>2. CASE UNCHANGED iloVars
      BY <1>2, <3>2, IloUnchanged, FaultType, RequestLostType
         DEF SendReset, ResetTimesOut, TypeOK
    <3> QED
      BY <1>2, <3>1, <3>2, RequestLostType DEF SendReset, ResetTimesOut
  <2>2. reset' \in [Resets -> {"idle", "send", "wait"}] /\ state' \in States
    BY <1>2 DEF SendReset, ResetTimesOut, ResetFails, States, TypeOK
  <2>3. abandoned' \in BOOLEAN
    BY <1>2, Zenon DEF SendReset, ResetTimesOut, ResetFails, TypeOK
  <2>4. UNCHANGED <<proc, attempt, cookie, con, cur, fresh, ripe, lock, pc, prompted,
                    clicks, stops>>
    BY <1>2 DEF SendReset, ResetTimesOut, EventLoopFrame
  <2>5. TypeOK'
    BY <2>1, <2>2, <2>3, <2>4 DEF TypeOK
  <2>6. Located'
    BY <2>4 DEF Located
  <2> QED
    BY <2>5, <2>6
<1>3. CASE ResetDone(r)
  <2>1. IloTypeOK'
    BY <1>3, IloUnchanged DEF ResetDone, TypeOK
  <2>2. lock' \in BOOLEAN /\ pc' \in [Workers -> Labels]
    <3>1. CASE StartConsole
      BY <3>1, StartType
    <3>2. CASE UNCHANGED <<lock, pc>>
      BY <3>2, Zenon DEF TypeOK
    <3> QED
      BY <1>3, <3>1, <3>2 DEF ResetDone
  <2>3. TypeOK'
    BY <1>3, <2>1, <2>2 DEF ResetDone, EventLoopFrame, TypeOK, budgets
  <2>4. Located'
    <3>1. CASE StartConsole
      BY <1>3, <3>1, LocatedStart DEF ResetDone, EventLoopFrame
    <3>2. CASE UNCHANGED <<lock, pc>>
      BY <1>3, <3>2 DEF ResetDone, EventLoopFrame, Located
    <3> QED
      BY <1>3, <3>1, <3>2 DEF ResetDone
  <2> QED
    BY <2>3, <2>4
<1> QED
  BY <1>1, <1>2, <1>3 DEF ResetStep

LEMMA TypeVanish ==
  ASSUME TypeInv, Vanish, faults' \in 0..MaxFaults
  PROVE  TypeInv'
<1> USE DEF TypeInv
<1>1. IloTypeOK'
  BY DEF Vanish, IloTypeOK, TypeOK
<1>2. lock' \in BOOLEAN /\ abandoned' \in BOOLEAN
  BY Zenon DEF Vanish
<1>3. pc' \in [Workers -> Labels] /\ state' \in States
  BY DEF Vanish, Labels, States
<1>4. fresh' \in 0..MaxTimers /\ ripe' \in 0..MaxTimers
  BY TimersAssumption DEF Vanish
<1>5. TypeOK'
  BY <1>1, <1>2, <1>3, <1>4 DEF Vanish, MainFrame, TypeOK
<1>6. Located'
  BY DEF Vanish, Located
<1> QED
  BY <1>5, <1>6

LEMMA TypeMain ==
  ASSUME TypeInv, MainStep \/ Stop \/ Crash
  PROVE  TypeInv'
<1> USE DEF TypeInv
<1>1. CASE Boot
  <2>1. IloTypeOK'
    BY <1>1, IloUnchanged DEF Boot, TypeOK
  <2>2. lock' \in BOOLEAN /\ pc' \in [Workers -> Labels]
    BY <1>1, StartType DEF Boot
  <2>3. TypeOK'
    BY <1>1, <2>1, <2>2 DEF Boot, MainFrame, TypeOK
  <2>4. Located'
    BY <1>1, LocatedStart DEF Boot, MainFrame
  <2> QED
    BY <2>3, <2>4
<1>2. CASE Stop
  <2>1. IloTypeOK'
    BY <1>2, IloUnchanged DEF Stop, TypeOK
  <2>2. TypeOK'
    BY <1>2, <2>1, BudgetAssumption DEF Stop, MainFrame, TypeOK
  <2>3. Located'
    BY <1>2 DEF Stop, MainFrame, Located
  <2> QED
    BY <2>2, <2>3
<1>3. CASE FinalLogout
  <2>1. IloTypeOK' /\ cookie' = None /\ faults' \in 0..MaxFaults
    BY <1>3, LogoutType DEF FinalLogout
  <2>2. TypeOK'
    BY <1>3, <2>1 DEF FinalLogout, MainFrame, TypeOK
  <2>3. Located'
    BY <1>3 DEF FinalLogout, MainFrame, Located
  <2> QED
    BY <2>2, <2>3
<1>4. CASE Exit
  BY <1>4, TypeVanish DEF Exit, TypeOK
<1>5. CASE Crash
  BY <1>5, TypeVanish, FaultType DEF Crash
<1> QED
  BY <1>1, <1>2, <1>3, <1>4, <1>5 DEF MainStep

LEMMA TypeEnvironment ==
  ASSUME TypeInv, Environment \/ IloBoots
  PROVE  TypeInv'
<1> USE DEF TypeInv
<1>1. IloTypeOK' /\ faults' \in 0..MaxFaults
  <2>1. CASE Environment
    BY <2>1, IloEnvironmentType, FaultType DEF Environment, TypeOK
  <2>2. CASE IloBoots
    BY <2>2, IloRequestType DEF IloBoots, TypeOK, budgets
  <2> QED
    BY <2>1, <2>2
<1>2. UNCHANGED <<serverVars, clicks, stops>>
  BY DEF Environment, IloBoots, budgets
<1>3. TypeOK'
  BY <1>1, <1>2 DEF TypeOK, serverVars
<1>4. Located'
  BY <1>2 DEF Located, serverVars
<1> QED
  BY <1>3, <1>4

LEMMA TypeInit == Init => TypeInv
<1> SUFFICES ASSUME Init PROVE TypeInv
  OBVIOUS
<1>1. IloTypeOK
  <2>1. up \in BOOLEAN /\ armed \in BOOLEAN
    BY Zenon DEF Init, IloInit
  <2> QED
    BY <2>1 DEF Init, IloInit, IloTypeOK
<1>2. lock \in BOOLEAN /\ prompted \in BOOLEAN /\ abandoned \in BOOLEAN
  BY Zenon DEF Init
<1>3. pc \in [Workers -> Labels] /\ state \in States
  BY DEF Init, Labels, States
<1>4. /\ attempt \in [Workers -> 0..MaxAttempts]
      /\ fresh \in 0..MaxTimers /\ ripe \in 0..MaxTimers
      /\ faults \in 0..MaxFaults /\ clicks \in 0..MaxClicks /\ stops \in 0..MaxStops
  BY AttemptsAssumption, TimersAssumption, BudgetAssumption DEF Init
<1>5. TypeOK
  BY <1>1, <1>2, <1>3, <1>4 DEF Init, TypeOK
<1>6. Located
  BY DEF Init, Located
<1> QED
  BY <1>5, <1>6 DEF TypeInv

LEMMA TypeStutter ==
  ASSUME TypeInv, UNCHANGED vars
  PROVE  TypeInv'
  BY DEF TypeInv, TypeOK, IloTypeOK, Located, vars, iloVars, serverVars, budgets

LEMMA TypeInvariant == Spec => []TypeInv
<1>1. TypeInv /\ [Next]_vars => TypeInv'
  BY TypeWorker, TypeReceiver, TypeTimer, TypeClick, TypeReset, TypeMain,
     TypeEnvironment, TypeStutter DEF Next
<1> QED
  BY <1>1, TypeInit, PTL DEF Spec

\* Every variable keeps its type, whatever fails and whoever interferes.
THEOREM TypeCorrect == Spec => []TypeOK
<1>1. TypeInv => TypeOK
  BY DEF TypeInv
<1> QED
  BY <1>1, TypeInvariant, PTL

-----------------------------------------------------------------------------
(* Mutual exclusion of the connect workers.                                 *)

\* Who moves the workers and the lock.
LEMMA WhoMovesWorkers ==
  ASSUME [Next]_vars
  PROVE  \/ UNCHANGED <<lock, pc>>
         \/ \E w \in Workers : WorkerStep(w)
         \/ StartConsole
         \/ Vanish
<1> USE DEF Next, vars, serverVars
<1>1. CASE \E c \in Consoles : Receiver(c)
  BY <1>1 DEF Receiver, SeizeReceived, RecvLoopEnds, ReceiverFrame
<1>2. CASE DelayElapses \/ TimerFires \/ ClickStart
  BY <1>2 DEF DelayElapses, exceptTimers, TimerFires, ClickStart
<1>3. CASE \E r \in Resets : ConfirmReset(r) \/ ResetStep(r)
  BY <1>3 DEF ConfirmReset, ResetStep, SendReset, ResetDone, ResetTimesOut
<1>4. CASE MainStep \/ Stop \/ Crash
  BY <1>4 DEF MainStep, Boot, FinalLogout, Exit, Stop, Crash
<1>5. CASE IloBoots \/ Environment
  BY <1>5 DEF IloBoots, Environment
<1> QED
  BY <1>1, <1>2, <1>3, <1>4, <1>5

\* A worker that steps was active; it stays so, and the lock with it, until it
\* releases the lock and ends.
LEMMA WorkerMoves ==
  ASSUME TypeInv, NEW w \in Workers, WorkerStep(w)
  PROVE  /\ pc[w] # "off"
         /\ \A v \in Workers \ {w} : pc'[v] = pc[v]
         /\ \/ pc'[w] # "off" /\ UNCHANGED lock
            \/ pc'[w] = "off" /\ ~lock' /\ Release(w)
<1>1. pc \in [Workers -> Labels]
  BY DEF TypeInv, TypeOK
<1>2. CASE Begin(w) \/ Logout(w) \/ LoginKey(w) \/ LoginToken(w)
  BY <1>1, <1>2 DEF Begin, Logout, LoginKey, AskUser, LoginToken, Goto
<1>3. CASE FetchParams(w)
  BY <1>1, <1>3 DEF FetchParams, RequestRaises, Refused, Goto
<1>4. CASE Connect(w)
  BY <1>1, <1>4 DEF Connect, RequestRaises, Refused, Goto
<1>5. CASE Tail(w) \/ Fail(w)
  BY <1>1, <1>5 DEF Tail, Fail, Goto
<1>6. CASE Release(w)
  BY <1>1, <1>6 DEF Release, Goto
<1> QED
  BY <1>2, <1>3, <1>4, <1>5, <1>6 DEF WorkerStep

LEMMA OneWorkerStep ==
  ASSUME TypeInv, OneWorker, [Next]_vars
  PROVE  OneWorker'
<1> USE DEF OneWorker, Active
<1>1. CASE UNCHANGED <<lock, pc>>
  BY <1>1
<1>2. ASSUME NEW w \in Workers, WorkerStep(w)
      PROVE  OneWorker'
  BY <1>2, WorkerMoves
<1>3. CASE StartConsole
  <2>1. CASE lock /\ UNCHANGED <<lock, pc>>
    BY <2>1
  <2>2. CASE ~lock /\ lock' = TRUE /\ SpawnWorker
    <3>1. PICK w \in Workers : Goto(w, "begin")
      BY <2>2 DEF SpawnWorker
    <3>2. pc'[w] = "begin" /\ \A v \in Workers \ {w} : pc'[v] = pc[v]
      BY <3>1 DEF Goto, TypeInv, TypeOK
    <3> QED
      BY <2>2, <3>2
  <2> QED
    BY <1>3, <2>1, <2>2 DEF StartConsole
<1>4. CASE Vanish
  BY <1>4 DEF Vanish
<1> QED
  BY <1>1, <1>2, <1>3, <1>4, WhoMovesWorkers

\* No two connect workers, hence no two logins, are ever under way together,
\* and the lock tells.
THEOREM MutualExclusion == Spec => []OneWorker
<1>1. Init => OneWorker
  BY DEF Init, OneWorker, Active
<1> QED
  BY <1>1, OneWorkerStep, TypeInvariant, PTL DEF Spec

-----------------------------------------------------------------------------
(* The console is never given up silently, and "connected" is never stale.  *)
(* Both hold because a worker in its last statements leaves something       *)
(* behind: a receiving console, a timer that cannot be over before the      *)
(* worker is, or a user who was told.                                       *)

CurReceiving == cur # None /\ Receiving(cur)

LeavesSomething ==
  \A w \in Workers :
    /\ pc[w] = "tail" => CurReceiving \/ fresh > 0
    /\ pc[w] = "release" => \/ \E c \in Consoles : Receiving(c)
                            \/ fresh > 0
                            \/ state = "session_exhausted"
                            \/ abandoned
    /\ pc[w] = "release" /\ state = "connected" => CurReceiving \/ fresh > 0
    /\ pc[w] \notin {"off", "begin", "release"} => state # "connected"

HandOver == Supervised /\ ConnectedIsBacked /\ LeavesSomething

BaseInv == TypeInv /\ OneWorker

\* While worker w steps there is no other one.
LEMMA OnlyWorker ==
  ASSUME BaseInv, NEW w \in Workers, WorkerStep(w)
  PROVE  /\ pc[w] # "off"
         /\ \A v \in Workers \ {w} : pc[v] = "off" /\ pc'[v] = "off"
         /\ lock
         /\ pc'[w] # "off" => lock'
  BY WorkerMoves DEF BaseInv, OneWorker, Active

LEMMA HandOverDialling ==
  ASSUME BaseInv, HandOver, NEW w \in Workers,
         Begin(w) \/ Logout(w) \/ LoginKey(w) \/ LoginToken(w) \/ FetchParams(w)
  PROVE  HandOver'
<1> USE DEF BaseInv, HandOver
<1>1. WorkerStep(w)
  BY DEF WorkerStep
<1>2. \A v \in Workers \ {w} : pc'[v] = "off"
  BY <1>1, OnlyWorker
<1>3. pc \in [Workers -> Labels]
  BY DEF TypeInv, TypeOK
<1>4. CASE Begin(w)
  <2>1. pc'[w] = "logout" /\ state' = "connecting"
    BY <1>3, <1>4 DEF Begin, Goto
  <2>2. lock'
    BY <1>1, <2>1, OnlyWorker
  <2> QED
    BY <1>2, <2>1, <2>2 DEF Supervised, ConnectedIsBacked, LeavesSomething
<1>5. CASE LoginKey(w) /\ AskUser(w)
  <2>1. pc'[w] = "release" /\ state' = "session_exhausted"
    BY <1>3, <1>5 DEF AskUser, Goto
  <2>2. lock'
    BY <1>1, <2>1, OnlyWorker
  <2> QED
    BY <1>2, <2>1, <2>2 DEF Supervised, ConnectedIsBacked, LeavesSomething
<1>6. CASE Logout(w) \/ LoginToken(w) \/ FetchParams(w) \/ (LoginKey(w) /\ ~AskUser(w))
  <2>1. pc'[w] \in {"logout", "key", "token", "params", "connect", "fail"}
        /\ state' = state
    <3>1. CASE Logout(w) \/ LoginToken(w)
      BY <1>3, <3>1 DEF Logout, LoginToken, Goto
    <3>2. CASE FetchParams(w)
      BY <1>3, <3>2 DEF FetchParams, RequestRaises, Refused, Goto
    <3>3. CASE LoginKey(w) /\ ~AskUser(w)
      BY <1>3, <3>3 DEF LoginKey, Goto
    <3> QED
      BY <1>6, <3>1, <3>2, <3>3
  <2>2. state' # "connected"
    BY <1>6, <2>1 DEF LeavesSomething, Logout, LoginToken, FetchParams, LoginKey
  <2>3. lock'
    BY <1>1, <2>1, OnlyWorker
  <2> QED
    BY <1>2, <2>1, <2>2, <2>3 DEF Supervised, ConnectedIsBacked, LeavesSomething
<1> QED
  BY <1>4, <1>5, <1>6

LEMMA HandOverConnect ==
  ASSUME BaseInv, HandOver, NEW w \in Workers, Connect(w)
  PROVE  HandOver'
<1> USE DEF BaseInv, HandOver
<1>1. WorkerStep(w)
  BY DEF WorkerStep
<1>2. \A v \in Workers \ {w} : pc'[v] = "off"
  BY <1>1, OnlyWorker
<1>3. pc \in [Workers -> Labels]
  BY DEF TypeInv, TypeOK
<1>4. pc'[w] \in {"tail", "logout", "fail"} /\ state' = state
  BY <1>3 DEF Connect, RequestRaises, Refused, Goto
<1>5. state' # "connected"
  BY <1>4 DEF LeavesSomething, Connect
<1>6. lock'
  BY <1>1, <1>4, OnlyWorker
<1>7. pc'[w] = "tail" => CurReceiving'
  <2>1. cur \in Consoles /\ con \in [Consoles -> {"idle", "live", "seized"}]
    BY DEF Connect, TypeInv, TypeOK, Located
  <2> QED
    BY <1>3, <2>1, NoneAssumption
       DEF Connect, RequestRaises, Refused, Goto, CurReceiving, Receiving
<1> QED
  BY <1>2, <1>4, <1>5, <1>6, <1>7 DEF Supervised, ConnectedIsBacked, LeavesSomething

LEMMA HandOverEnd ==
  ASSUME BaseInv, HandOver, NEW w \in Workers, Tail(w) \/ Fail(w) \/ Release(w)
  PROVE  HandOver'
<1> USE DEF BaseInv, HandOver
<1>1. WorkerStep(w)
  BY DEF WorkerStep
<1>2. \A v \in Workers \ {w} : pc[v] = "off" /\ pc'[v] = "off"
  BY <1>1, OnlyWorker
<1>3. pc \in [Workers -> Labels] /\ fresh \in Nat /\ ripe \in Nat
      /\ cur \in Consoles \cup {None}
  BY DEF TypeInv, TypeOK
<1>4. CASE Tail(w)
  <2>1. pc'[w] = "release" /\ UNCHANGED <<con, cur, fresh, ripe>>
    BY <1>3, <1>4 DEF Tail, WorkerFrame, Goto
  <2>2. lock'
    BY <1>1, <2>1, OnlyWorker
  <2>3. CurReceiving' \/ fresh' > 0
    BY <1>4, <2>1 DEF Tail, LeavesSomething, CurReceiving, Receiving
  <2>4. CurReceiving' => \E c \in Consoles : Receiving(c)'
    BY <1>3, <2>1 DEF CurReceiving
  <2>5. LeavesSomething'
    BY <1>2, <2>1, <2>3, <2>4 DEF LeavesSomething
  <2>6. ConnectedIsBacked'
    BY <1>3, <2>1, <2>3 DEF ConnectedIsBacked, RetryPending, CurReceiving
  <2> QED
    BY <2>2, <2>5, <2>6 DEF Supervised
<1>5. CASE Fail(w)
  <2>1. pc'[w] = "release" /\ fresh' > 0 /\ ripe' = ripe /\ state' = "error"
    BY <1>3, <1>5, ScheduleType DEF Fail, Goto, TypeInv
  <2>2. lock'
    BY <1>1, <2>1, OnlyWorker
  <2> QED
    BY <1>2, <2>1, <2>2 DEF Supervised, ConnectedIsBacked, LeavesSomething
<1>6. CASE Release(w)
  <2>1. /\ pc[w] = "release" /\ pc'[w] = "off"
        /\ UNCHANGED <<con, cur, fresh, ripe, state, abandoned, proc, reset>>
    BY <1>3, <1>6 DEF Release, WorkerFrame, Goto
  <2>2. Supervised'
    BY <1>3, <2>1 DEF Supervised, RetryPending, LeavesSomething, Receiving
  <2>3. ConnectedIsBacked'
    BY <1>2, <1>3, <2>1
       DEF ConnectedIsBacked, RetryPending, LeavesSomething, CurReceiving, Receiving
  <2>4. LeavesSomething'
    BY <1>2, <2>1 DEF LeavesSomething
  <2> QED
    BY <2>2, <2>3, <2>4
<1> QED
  BY <1>4, <1>5, <1>6

LEMMA PositiveSum ==
  ASSUME NEW m \in Nat, NEW n \in Nat, m > 0 \/ n > 0
  PROVE  m + n > 0
  OBVIOUS

\* A lost console leaves a fresh timer behind, so nobody is left without.
LEMMA HandOverReceiver ==
  ASSUME BaseInv, HandOver, NEW c \in Consoles, Receiver(c)
  PROVE  HandOver'
<1>1. fresh' > 0 /\ fresh' \in Nat /\ ripe' \in Nat
  BY ScheduleType
     DEF Receiver, SeizeReceived, RecvLoopEnds, OnConsoleDisconnected, BaseInv, TypeInv,
         TypeOK
<1>2. state' = "disconnected" /\ UNCHANGED pc
  BY DEF Receiver, SeizeReceived, RecvLoopEnds, OnConsoleDisconnected, ReceiverFrame
<1>3. RetryPending'
  BY <1>1, PositiveSum DEF RetryPending
<1>4. Supervised' /\ ConnectedIsBacked'
  BY <1>3 DEF Supervised, ConnectedIsBacked
<1>5. LeavesSomething'
  BY <1>1, <1>2 DEF LeavesSomething
<1> QED
  BY <1>4, <1>5 DEF HandOver

\* A timer does not get ripe before the worker that started it has ended.
LEMMA HandOverDelay ==
  ASSUME BaseInv, HandOver, DelayElapses
  PROVE  HandOver'
<1>1. fresh' \in Nat /\ ripe' \in Nat /\ ripe' > 0
  BY TimersAssumption DEF DelayElapses, BaseInv, TypeInv, TypeOK
<1>2. UNCHANGED <<pc, state>> /\ \A w \in Workers : pc[w] \notin {"tail", "release"}
  BY DEF DelayElapses, exceptTimers, NoLastStatements
<1>3. RetryPending'
  BY <1>1, PositiveSum DEF RetryPending
<1>4. Supervised' /\ ConnectedIsBacked'
  BY <1>3 DEF Supervised, ConnectedIsBacked
<1>5. LeavesSomething'
  BY <1>2 DEF HandOver, LeavesSomething, DelayElapses, exceptTimers
<1> QED
  BY <1>4, <1>5 DEF HandOver

\* Whatever a request to start the console uses up, a worker is there after it.
LEMMA HandOverStart ==
  ASSUME BaseInv, HandOver, StartConsole, ripe' \in Nat,
         UNCHANGED <<con, cur, fresh, state, abandoned>>
  PROVE  HandOver'
<1> USE DEF BaseInv, HandOver
<1>1. /\ lock'
      /\ \A v \in Workers :
           pc'[v] = pc[v] \/ (~lock /\ pc[v] = "off" /\ pc'[v] = "begin")
  BY StartType DEF TypeInv
<1>2. fresh \in Nat
  BY DEF TypeInv, TypeOK
<1>3. Supervised'
  BY <1>1 DEF Supervised
<1>4. ConnectedIsBacked'
  <2>1. SUFFICES ASSUME state = "connected"
                 PROVE  \/ CurReceiving
                        \/ fresh > 0
                        \/ \E w \in Workers : pc'[w] = "begin"
    BY <1>2, PositiveSum DEF ConnectedIsBacked, CurReceiving, Receiving, RetryPending
  <2>2. CASE lock
    <3>1. PICK w \in Workers : pc[w] # "off"
      BY <2>2 DEF OneWorker, Active
    <3>2. pc[w] \in {"begin", "release"}
      BY <2>1, <3>1 DEF LeavesSomething
    <3> QED
      BY <1>1, <2>1, <2>2, <3>2 DEF LeavesSomething
  <2>3. CASE ~lock
    <3>1. PICK w \in Workers : pc[w] = "off" /\ Goto(w, "begin")
      BY <2>3 DEF StartConsole, SpawnWorker
    <3>2. pc'[w] = "begin"
      BY <3>1 DEF Goto, TypeInv, TypeOK
    <3> QED
      BY <3>2
  <2> QED
    BY <2>2, <2>3
<1>5. LeavesSomething'
  BY <1>1 DEF LeavesSomething, CurReceiving, Receiving
<1> QED
  BY <1>3, <1>4, <1>5

LEMMA HandOverStarts ==
  ASSUME BaseInv, HandOver,
         \/ TimerFires \/ ClickStart \/ Boot
         \/ proc = "running" /\ \E r \in Resets : ResetDone(r)
  PROVE  HandOver'
<1>1. StartConsole /\ UNCHANGED <<con, cur, fresh, state, abandoned>>
  BY DEF TimerFires, ClickStart, Boot, ResetDone, EventLoopFrame
<1>2. ripe' \in Nat
  BY DEF TimerFires, ClickStart, Boot, ResetDone, EventLoopFrame, BaseInv, TypeInv,
         TypeOK
<1> QED
  BY <1>1, <1>2, HandOverStart

\* After a shutdown a reset that is still under way changes nothing of the server.
LEMMA LateReset ==
  ASSUME BaseInv, HandOver, NEW r \in Resets, ResetStep(r), proc # "running"
  PROVE  HandOver'
<1>1. UNCHANGED <<proc, lock, pc, con, cur, fresh, ripe, state, abandoned>>
  BY DEF ResetStep, SendReset, ResetDone, ResetTimesOut, ResetFails, EventLoopFrame
<1> QED
  BY <1>1 DEF HandOver, Supervised, ConnectedIsBacked, RetryPending, LeavesSomething,
              CurReceiving, Receiving

\* A reset is under way, or its user is told that it failed.
LEMMA HandOverReset ==
  ASSUME BaseInv, HandOver, NEW r \in Resets, proc = "running",
         ConfirmReset(r) \/ SendReset(r) \/ ResetTimesOut(r)
  PROVE  HandOver'
<1> USE DEF BaseInv, HandOver
<1>1. UNCHANGED <<pc, con, cur, fresh, ripe>>
  BY DEF ConfirmReset, SendReset, ResetTimesOut, EventLoopFrame
<1>2. CASE ResetFails(r)
  <2>1. state' = "error" /\ abandoned'
    BY <1>2 DEF ResetFails
  <2> QED
    BY <1>1, <2>1
       DEF Supervised, ConnectedIsBacked, LeavesSomething, CurReceiving, Receiving
<1>3. CASE reset' = [reset EXCEPT ![r] = "wait"] \/ reset' = [reset EXCEPT ![r] = "send"]
  <2>1. reset'[r] # "idle"
    BY <1>3 DEF TypeInv, TypeOK
  <2>2. CASE ResetFails(r)
    BY <1>2, <2>2
  <2>3. CASE ~ResetFails(r)
    <3>1. UNCHANGED <<state, abandoned>>
      BY <2>3 DEF ConfirmReset, SendReset, ResetTimesOut
    <3> QED
      BY <1>1, <2>1, <3>1
         DEF Supervised, Resetting, ConnectedIsBacked, RetryPending, LeavesSomething,
             CurReceiving, Receiving
  <2> QED
    BY <2>2, <2>3
<1> QED
  BY <1>2, <1>3 DEF ConfirmReset, SendReset, ResetTimesOut

\* Nothing is claimed of a process that is not running.
LEMMA HandOverStop ==
  ASSUME BaseInv, HandOver, Stop \/ FinalLogout \/ Exit \/ Crash
  PROVE  HandOver'
<1> USE DEF HandOver
<1>1. proc' # "running"
  BY DEF Stop, FinalLogout, Exit, Crash, Vanish
<1>2. CASE Stop \/ FinalLogout
  <2>1. UNCHANGED <<pc, con, cur, fresh, ripe, state, abandoned>>
    BY <1>2 DEF Stop, FinalLogout
  <2> QED
    BY <1>1, <2>1
       DEF Supervised, ConnectedIsBacked, RetryPending, LeavesSomething, CurReceiving,
           Receiving
<1>3. CASE Vanish
  BY <1>1, <1>3 DEF Vanish, Supervised, ConnectedIsBacked, LeavesSomething
<1> QED
  BY <1>2, <1>3 DEF Exit, Crash

LEMMA HandOverUnchanged ==
  ASSUME HandOver, UNCHANGED serverVars
  PROVE  HandOver'
  BY DEF HandOver, Supervised, ConnectedIsBacked, RetryPending, Resetting,
         LeavesSomething, CurReceiving, Receiving, serverVars

LEMMA HandOverStep ==
  ASSUME BaseInv, HandOver, [Next]_vars
  PROVE  HandOver'
<1>1. ASSUME NEW w \in Workers, WorkerStep(w)
      PROVE  HandOver'
  BY <1>1, HandOverDialling, HandOverConnect, HandOverEnd DEF WorkerStep
<1>2. ASSUME NEW r \in Resets, ConfirmReset(r) \/ ResetStep(r)
      PROVE  HandOver'
  <2>1. CASE proc = "running"
    BY <1>2, <2>1, HandOverReset, HandOverStarts DEF ResetStep
  <2>2. CASE proc # "running"
    BY <1>2, <2>2, LateReset DEF ConfirmReset
  <2> QED
    BY <2>1, <2>2
<1>3. CASE MainStep \/ Stop \/ Crash
  BY <1>3, HandOverStarts, HandOverStop DEF MainStep
<1>4. CASE IloBoots \/ Environment \/ UNCHANGED vars
  BY <1>4, HandOverUnchanged DEF IloBoots, Environment, vars
<1> QED
  BY <1>1, <1>2, <1>3, <1>4, HandOverReceiver, HandOverDelay, HandOverStarts DEF Next

LEMMA HandOverInvariant == Spec => []HandOver
<1>1. Init => HandOver
  BY DEF Init, HandOver, Supervised, ConnectedIsBacked, LeavesSomething
<1>2. TypeInv /\ OneWorker => BaseInv
  BY DEF BaseInv
<1> QED
  BY <1>1, <1>2, HandOverStep, TypeInvariant, MutualExclusion, PTL DEF Spec

\* The console is never given up silently: a running server that neither dials
\* nor receives has a retry or a reset pending, or has told its user.
THEOREM NeverUnattended == Spec => []Supervised
<1>1. HandOver => Supervised
  BY DEF HandOver
<1> QED
  BY <1>1, HandOverInvariant, PTL

\* "connected" is shown only while a console receives, or while the retry that
\* corrects it is on its way.
THEOREM NoStaleConnected == Spec => []ConnectedIsBacked
<1>1. HandOver => ConnectedIsBacked
  BY DEF HandOver
<1> QED
  BY <1>1, HandOverInvariant, PTL
-----------------------------------------------------------------------------
(***************************************************************************)
(* ConsoleLifecycle implements ConsoleDuty, for every number of workers,    *)
(* consoles, resets and faults and every policy of the iLO2; and what holds *)
(* besides of a server whose network loses nothing, or that nobody touches. *)
(***************************************************************************)

(* The refinement.  A duty changes hands in few ways, and the invariant of  *)
(* NeverUnattended says that whoever gives it up hands it on.               *)

Inv == BaseInv /\ HandOver

LEMMA InvAlways == Spec => []Inv
<1>1. TypeInv /\ OneWorker /\ HandOver => Inv
  BY DEF Inv, BaseInv
<1> QED
  BY <1>1, TypeInvariant, MutualExclusion, HandOverInvariant, PTL

\* The user knows that he is waited for.
Asked == state = "session_exhausted" \/ abandoned

\* What the present duty means.
LEMMA DutyMeaning ==
  /\ CurrentDuty \in Duty!Duties
  /\ CurrentDuty = "down" <=> proc # "running"
  /\ CurrentDuty = "dialling" <=> proc = "running" /\ lock
  /\ CurrentDuty = "streaming" <=>
       proc = "running" /\ ~lock /\ \E c \in Consoles : Receiving(c)
  /\ CurrentDuty = "waiting" <=>
       /\ proc = "running" /\ ~lock /\ ~(\E c \in Consoles : Receiving(c))
       /\ RetryPending
  /\ CurrentDuty = "resetting" <=>
       /\ proc = "running" /\ ~lock /\ ~(\E c \in Consoles : Receiving(c))
       /\ ~RetryPending /\ Resetting
  /\ CurrentDuty = "parked" <=>
       /\ proc = "running" /\ ~lock /\ ~(\E c \in Consoles : Receiving(c))
       /\ ~RetryPending /\ ~Resetting
BY Zenon DEF CurrentDuty, Duty!Duties

LEMMA DutyMeaningNext ==
  /\ CurrentDuty' \in Duty!Duties
  /\ CurrentDuty' = "down" <=> proc' # "running"
  /\ CurrentDuty' = "dialling" <=> proc' = "running" /\ lock'
  /\ CurrentDuty' = "streaming" <=>
       proc' = "running" /\ ~lock' /\ (\E c \in Consoles : Receiving(c))'
  /\ CurrentDuty' = "waiting" <=>
       /\ proc' = "running" /\ ~lock' /\ ~(\E c \in Consoles : Receiving(c))'
       /\ RetryPending'
  /\ CurrentDuty' = "resetting" <=>
       /\ proc' = "running" /\ ~lock' /\ ~(\E c \in Consoles : Receiving(c))'
       /\ ~RetryPending' /\ Resetting'
  /\ CurrentDuty' = "parked" <=>
       /\ proc' = "running" /\ ~lock' /\ ~(\E c \in Consoles : Receiving(c))'
       /\ ~RetryPending' /\ ~Resetting'
BY Zenon DEF CurrentDuty, Duty!Duties

\* Whatever happens to a duty that is dialled for, given up by the process, or
\* stays with whom it is, is promised.
LEMMA CommonDuty ==
  ASSUME Inv', CurrentDuty' \in {"dialling", "down", CurrentDuty}
               \/ CurrentDuty = "dialling"
  PROVE  Duty!DutyNext
<1>1. Asked' \in BOOLEAN
  BY DEF Asked, Inv, BaseInv, TypeInv, TypeOK
<1>2. CurrentDuty' = "parked" => Asked'
  BY DutyMeaningNext DEF Inv, HandOver, Supervised, Asked
<1>3. CASE CurrentDuty' = CurrentDuty
  BY <1>1, <1>2, <1>3 DEF Duty!DutyNext, Duty!Inform, Asked
<1>4. CASE CurrentDuty' = "dialling" /\ CurrentDuty # "dialling"
  BY <1>1, <1>4 DEF Duty!DutyNext, Duty!Dial, Asked
<1>5. CASE CurrentDuty' = "down" /\ CurrentDuty # "down"
  BY <1>1, <1>5 DEF Duty!DutyNext, Duty!ShutDown, Asked
<1>6. CASE CurrentDuty = "dialling" /\ CurrentDuty' \notin {"dialling", "down"}
  <2>1. CurrentDuty' \in {"streaming", "waiting", "resetting", "parked"}
    BY <1>6, DutyMeaningNext DEF Duty!Duties
  <2> QED
    BY <1>1, <1>2, <1>6, <2>1 DEF Duty!DutyNext, Duty!Settle, Asked
<1> QED
  BY <1>3, <1>4, <1>5, <1>6

\* A process only begins to run with a worker.
LEMMA BootDials ==
  ASSUME Inv, Inv', [Next]_vars, proc # "running"
  PROVE  Duty!DutyNext
<1>1. CASE proc' # "running"
  BY <1>1, DutyMeaning, DutyMeaningNext, CommonDuty
<1>2. CASE proc' = "running"
  <2>1. Boot
    <3>1. CASE UNCHANGED proc
      BY <1>2, <3>1
    <3>2. CASE \E w \in Workers : WorkerStep(w)
      BY <3>1, <3>2
         DEF WorkerStep, Begin, Logout, LoginKey, LoginToken, FetchParams, Connect, Tail,
             Fail, Release, WorkerFrame
    <3>3. CASE \/ \E c \in Consoles : Receiver(c)
               \/ \E r \in Resets : ConfirmReset(r) \/ ResetStep(r)
               \/ DelayElapses \/ TimerFires \/ ClickStart \/ IloBoots \/ Environment
      BY <3>1, <3>3
         DEF Receiver, SeizeReceived, RecvLoopEnds, ReceiverFrame, ConfirmReset, ResetStep,
             SendReset, ResetDone, ResetTimesOut, EventLoopFrame, DelayElapses,
             exceptTimers, TimerFires, ClickStart, IloBoots, Environment, serverVars
    <3>4. CASE FinalLogout \/ Exit \/ Stop \/ Crash
      BY <1>2, <3>4 DEF FinalLogout, Exit, Stop, Crash, Vanish
    <3> QED
      BY <3>1, <3>2, <3>3, <3>4 DEF Next, MainStep, vars, serverVars
  <2>2. lock'
    BY <2>1, StartType DEF Boot, Inv, BaseInv, TypeInv
  <2> QED
    BY <1>2, <2>2, DutyMeaningNext, CommonDuty
<1> QED
  BY <1>1, <1>2

\* A free lock and an unchanged process: nothing but a console, a timer or a
\* reset can have moved.
IdleFrame ==
  /\ proc = "running" /\ proc' = "running"
  /\ ~lock /\ ~lock'

LEMMA SameReceivers ==
  ASSUME IdleFrame, UNCHANGED con, RetryPending' = RetryPending, Resetting' = Resetting
  PROVE  CurrentDuty' = CurrentDuty
BY Zenon DEF IdleFrame, CurrentDuty, Receiving

\* A console that stops streaming leaves a retry behind.
LEMMA ReceiverHandsOn ==
  ASSUME Inv, Inv', IdleFrame, NEW c \in Consoles, Receiver(c)
  PROVE  Duty!DutyNext
<1>1. RetryPending'
  <2>1. fresh' > 0 /\ fresh' \in Nat /\ ripe' \in Nat
    BY ScheduleType
       DEF Receiver, SeizeReceived, RecvLoopEnds, OnConsoleDisconnected, Inv, BaseInv,
           TypeInv, TypeOK
  <2> QED
    BY <2>1, PositiveSum DEF RetryPending
<1>2. CurrentDuty = "streaming"
  <2>1. Receiving(c)
    BY DEF Receiver, SeizeReceived, RecvLoopEnds, Receiving
  <2> QED
    BY <2>1, DutyMeaning DEF IdleFrame
<1>3. CurrentDuty' \in {"streaming", "waiting"}
  BY <1>1, DutyMeaningNext DEF IdleFrame, Duty!Duties
<1>4. CASE CurrentDuty' = "streaming"
  BY <1>2, <1>4, CommonDuty
<1>5. CASE CurrentDuty' = "waiting"
  <2>1. Asked' \in BOOLEAN
    BY DEF Asked, Inv, BaseInv, TypeInv, TypeOK
  <2> QED
    BY <1>2, <1>5, <2>1 DEF Duty!DutyNext, Duty!LoseConsole, Asked
<1> QED
  BY <1>3, <1>4, <1>5

\* The delay of a retry that elapses leaves it pending.
LEMMA DelayKeepsDuty ==
  ASSUME Inv, Inv', IdleFrame, DelayElapses
  PROVE  Duty!DutyNext
<1>1. RetryPending /\ RetryPending'
  <2>1. /\ fresh \in Nat /\ ripe \in Nat /\ fresh > 0
        /\ fresh' \in Nat /\ ripe' \in Nat /\ ripe' > 0
    BY TimersAssumption DEF DelayElapses, Inv, BaseInv, TypeInv, TypeOK
  <2> QED
    BY <2>1, PositiveSum DEF RetryPending
<1>2. UNCHANGED <<con, reset>>
  BY DEF DelayElapses, exceptTimers
<1>3. CurrentDuty' = CurrentDuty
  BY <1>1, <1>2, Zenon DEF CurrentDuty, IdleFrame, Receiving
<1> QED
  BY <1>3, CommonDuty

\* A reset is confirmed while the console is parked, and one that fails parks
\* it again; while somebody else is in charge it changes nothing.
LEMMA ResetHandsOn ==
  ASSUME Inv, Inv', IdleFrame, NEW r \in Resets,
         ConfirmReset(r) \/ SendReset(r) \/ ResetTimesOut(r)
  PROVE  Duty!DutyNext
<1>1. UNCHANGED <<con, fresh, ripe>>
  BY DEF ConfirmReset, SendReset, ResetTimesOut, EventLoopFrame
<1>2. RetryPending' = RetryPending
  BY <1>1 DEF RetryPending
<1>3. Asked' \in BOOLEAN
  BY DEF Asked, Inv, BaseInv, TypeInv, TypeOK
<1>4. reset \in [Resets -> {"idle", "send", "wait"}]
  BY DEF Inv, BaseInv, TypeInv, TypeOK
<1>5. CASE Resetting' = Resetting
  BY <1>1, <1>2, <1>5, SameReceivers, CommonDuty
<1>6. CASE Resetting' /\ ~Resetting
  <2>1. CASE CurrentDuty = "parked"
    <3>1. CurrentDuty' = "resetting"
      BY <1>1, <1>2, <1>6, <2>1, DutyMeaning, DutyMeaningNext DEF IdleFrame, Receiving
    <3> QED
      BY <1>3, <2>1, <3>1 DEF Duty!DutyNext, Duty!ConfirmReset, Asked
  <2>2. CASE CurrentDuty # "parked"
    <3>1. CurrentDuty' = CurrentDuty
      BY <1>1, <1>2, <1>6, <2>2, Zenon DEF CurrentDuty, IdleFrame, Receiving
    <3> QED
      BY <3>1, CommonDuty
  <2> QED
    BY <2>1, <2>2
<1>7. CASE Resetting /\ ~Resetting'
  <2>1. Asked'
    <3>1. CASE ResetFails(r)
      BY <3>1 DEF ResetFails, Asked, IdleFrame
    <3>2. CASE reset' = [reset EXCEPT ![r] = "send"] \/ reset' = [reset EXCEPT ![r] = "wait"]
      <4>1. reset'[r] # "idle"
        BY <1>4, <3>2
      <4> QED
        BY <1>7, <4>1 DEF Resetting
    <3> QED
      BY <3>1, <3>2 DEF ConfirmReset, SendReset, ResetTimesOut, IdleFrame
  <2>2. CASE CurrentDuty = "resetting"
    <3>1. CurrentDuty' = "parked"
      BY <1>1, <1>2, <1>7, <2>2, DutyMeaning, DutyMeaningNext DEF IdleFrame, Receiving
    <3>2. Asked' = TRUE
      BY <1>3, <2>1
    <3> QED
      BY <2>2, <3>1, <3>2 DEF Duty!DutyNext, Duty!GiveUpReset, Asked
  <2>3. CASE CurrentDuty # "resetting"
    <3>1. CurrentDuty' = CurrentDuty
      BY <1>1, <1>2, <1>7, <2>3, Zenon DEF CurrentDuty, IdleFrame, Receiving
    <3> QED
      BY <3>1, CommonDuty
  <2> QED
    BY <2>2, <2>3
<1>8. Resetting \in BOOLEAN /\ Resetting' \in BOOLEAN
  BY DEF Resetting
<1> QED
  BY <1>5, <1>6, <1>7, <1>8

LEMMA DutyStep ==
  ASSUME Inv, Inv', [Next]_vars
  PROVE  [Duty!DutyNext]_<<CurrentDuty, state = "session_exhausted" \/ abandoned>>
<1>1. CASE UNCHANGED <<serverVars>>
  <2>1. CurrentDuty' = CurrentDuty
    BY <1>1 DEF CurrentDuty, serverVars, Receiving, RetryPending, Resetting
  <2> QED
    BY <2>1, CommonDuty
<1>2. CASE proc # "running" \/ proc' # "running" \/ lock \/ lock'
  BY <1>2, BootDials, DutyMeaning, DutyMeaningNext, CommonDuty
<1>3. CASE IdleFrame
  <2>1. ASSUME NEW w \in Workers, WorkerStep(w)
        PROVE  FALSE
    BY <1>3, <2>1, OnlyWorker DEF IdleFrame, Inv
  <2>2. CASE TimerFires \/ ClickStart \/ MainStep \/ Stop \/ Crash
    <3>1. ~StartConsole
      BY <1>3, StartType DEF IdleFrame, Inv, BaseInv, TypeInv
    <3> QED
      BY <1>3, <2>2, <3>1
         DEF IdleFrame, TimerFires, ClickStart, MainStep, Boot, FinalLogout, Exit, Stop,
             Crash, Vanish
  <2>3. ASSUME NEW r \in Resets, ConfirmReset(r) \/ ResetStep(r)
        PROVE  Duty!DutyNext
    <3>1. ~ResetDone(r)
      BY <1>3, StartType DEF IdleFrame, ResetDone, Inv, BaseInv, TypeInv
    <3> QED
      BY <1>3, <2>3, <3>1, ResetHandsOn DEF ResetStep
  <2>4. CASE IloBoots \/ Environment \/ UNCHANGED vars
    BY <1>1, <2>4 DEF IloBoots, Environment, vars
  <2> QED
    BY <1>3, <2>1, <2>2, <2>3, <2>4, ReceiverHandsOn, DelayKeepsDuty DEF Next
<1> QED
  BY <1>2, <1>3 DEF IdleFrame

\* The server keeps the promise of ConsoleDuty: whoever gives the console up
\* hands it to somebody, and it is parked only with its user told, whatever
\* fails, whoever clicks and whenever the process is stopped or killed.
THEOREM DutyFulfilled == Spec => FulfilsDuty
<1>1. Init => Duty!DutyInit
  <2>1. Init => CurrentDuty = "down"
    BY DutyMeaning DEF Init
  <2> QED
    BY <2>1 DEF Init, Duty!DutyInit
<1>2. Inv /\ Inv' /\ [Next]_vars
        => [Duty!DutyNext]_<<CurrentDuty, state = "session_exhausted" \/ abandoned>>
  BY DutyStep
<1> QED
  BY <1>1, <1>2, InvAlways, PTL DEF Spec, FulfilsDuty, Duty!DutySpec, Duty!dutyVars

-----------------------------------------------------------------------------
(* The web-session slots, with a network that loses no request and a        *)
(* process that is neither killed nor stopped.                              *)

Reliable == FaultKinds \cap {"lose_request", "lose_reply", "crash"} = {} /\ MaxStops = 0

\* Only the cookie at hand holds a slot, and none is at hand when one is asked
\* for; a controller that is down holds none at all.
SlotInv ==
  /\ pool \subseteq {cookie}
  /\ \A w \in Workers : pc[w] \in {"key", "token"} => cookie = None
  /\ ~up => pool = {}
  /\ proc \in {"down", "running"}
  /\ stops = 0

LEMMA NothingLost ==
  ASSUME Reliable
  PROVE  /\ \A k \in {"lose_request", "lose_reply", "crash"} : ~Fault(k)
         /\ RequestLost => ~up /\ UNCHANGED iloVars
BY DEF Reliable, Fault, RequestLost

LEMMA NoCookieNoSlot ==
  ASSUME TypeOK, pool \subseteq {cookie}, cookie = None
  PROVE  pool = {}
BY NoneAssumption DEF TypeOK, IloTypeOK

LEMMA SlotWorker ==
  ASSUME Reliable, BaseInv, SlotInv, NEW w \in Workers, WorkerStep(w)
  PROVE  SlotInv'
<1> USE DEF BaseInv, SlotInv
<1>1. \A v \in Workers \ {w} : pc'[v] = "off"
  BY OnlyWorker
<1>2. TypeOK /\ pc \in [Workers -> Labels]
  BY DEF TypeInv, TypeOK
<1>3. CASE Logout(w)
  <2>1. cookie' = None /\ pool' = {} /\ up' = up
    BY <1>2, <1>3, NothingLost, NoCookieNoSlot DEF Logout, LogoutRequest, ReleaseSlot, iloVars
  <2> QED
    BY <1>3, <2>1 DEF Logout, WorkerFrame
<1>4. CASE LoginKey(w)
  <2>1. UNCHANGED <<iloVars, cookie, proc, stops>> /\ pc[w] = "key"
    BY <1>4, NothingLost DEF LoginKey
  <2> QED
    BY <1>1, <2>1 DEF iloVars
<1>5. CASE LoginToken(w)
  <2>1. cookie = None /\ pool = {}
    BY <1>2, <1>5, NoCookieNoSlot DEF LoginToken
  <2>2. pc'[w] \notin {"key", "token"}
    BY <1>2, <1>5 DEF LoginToken, Goto
  <2>3. CASE UNCHANGED <<iloVars, cookie>>
    BY <1>1, <1>5, <2>1, <2>2, <2>3 DEF LoginToken, WorkerFrame, iloVars
  <2>4. CASE \E k \in FreshCookies : up /\ GrantSlot(k) /\ cookie' = k
    BY <1>1, <1>5, <2>1, <2>2, <2>4 DEF LoginToken, WorkerFrame, GrantSlot
  <2> QED
    BY <1>5, <2>3, <2>4, NothingLost DEF LoginToken
<1>6. CASE FetchParams(w)
  <2>1. pc'[w] \notin {"key", "token"}
    BY <1>2, <1>6 DEF FetchParams, RequestRaises, Refused, Goto
  <2>2. CASE UNCHANGED <<up, pool, cookie>>
    BY <1>1, <1>6, <2>1, <2>2 DEF FetchParams, WorkerFrame
  <2>3. CASE cookie = None /\ up /\ \E k \in FreshCookies : GrantSlot(k) /\ cookie' = k
    <3>1. pool = {}
      BY <1>2, <2>3, NoCookieNoSlot
    <3> QED
      BY <1>1, <1>6, <2>1, <2>3, <3>1 DEF FetchParams, WorkerFrame, GrantSlot
  <2> QED
    BY <1>6, <2>2, <2>3, NothingLost DEF FetchParams, RequestRaises, ArmKvm, iloVars
<1>7. CASE Connect(w)
  <2>1. UNCHANGED <<up, pool, cookie, proc, stops>>
    BY <1>7, NothingLost DEF Connect, AcceptKvm, RequestRaises, WorkerFrame, iloVars
  <2>2. pc'[w] \notin {"key", "token"}
    BY <1>2, <1>7 DEF Connect, RequestRaises, Refused, Goto
  <2> QED
    BY <1>1, <2>1, <2>2
<1>8. CASE Begin(w) \/ Tail(w) \/ Fail(w) \/ Release(w)
  <2>1. UNCHANGED <<iloVars, cookie, proc, stops>>
    BY <1>8 DEF Begin, Tail, Fail, Release, WorkerFrame, budgets
  <2>2. pc'[w] \notin {"key", "token"}
    BY <1>2, <1>8 DEF Begin, Tail, Fail, Release, Goto
  <2> QED
    BY <1>1, <2>1, <2>2 DEF iloVars
<1> QED
  BY <1>3, <1>4, <1>5, <1>6, <1>7, <1>8 DEF WorkerStep

\* A step that starts no login keeps the slot: what it does to the pool is to
\* empty it.
LEMMA SlotOther ==
  ASSUME SlotInv, UNCHANGED <<cookie, stops>>,
         pool' \subseteq pool, up' = up \/ up' \/ pool' = {},
         proc' \in {"down", "running"},
         \A v \in Workers : pc'[v] = pc[v] \/ pc'[v] = "begin"
  PROVE  SlotInv'
BY DEF SlotInv

LEMMA SlotStep ==
  ASSUME Reliable, BaseInv, SlotInv, [Next]_vars
  PROVE  SlotInv'
<1> USE DEF SlotInv
<1>1. CASE /\ StartConsole \/ UNCHANGED pc
           /\ UNCHANGED <<cookie, stops, iloVars>> /\ proc' \in {"down", "running"}
  BY <1>1, StartType, SlotOther DEF BaseInv, TypeInv, iloVars
<1>2. CASE TimerFires \/ ClickStart \/ Boot \/ \E r \in Resets : ResetDone(r)
  <2>1. /\ StartConsole \/ UNCHANGED pc
        /\ UNCHANGED <<cookie, stops, iloVars>> /\ proc' \in {"down", "running"}
    BY <1>2 DEF TimerFires, ClickStart, Boot, ResetDone, EventLoopFrame, budgets
  <2> QED
    BY <1>1, <2>1
<1>3. ASSUME NEW c \in Consoles, Receiver(c)
      PROVE  SlotInv'
  BY <1>3, SlotOther
     DEF Receiver, SeizeReceived, RecvLoopEnds, ReceiverFrame, HangUp, budgets
<1>4. CASE DelayElapses \/ UNCHANGED vars
  BY <1>4, SlotOther DEF DelayElapses, exceptTimers, iloVars, budgets, vars, serverVars
<1>5. ASSUME NEW r \in Resets, ConfirmReset(r) \/ SendReset(r) \/ ResetTimesOut(r)
      PROVE  SlotInv'
  <2>1. UNCHANGED <<cookie, stops, proc, pc>>
    BY <1>5 DEF ConfirmReset, SendReset, ResetTimesOut, EventLoopFrame
  <2>2. UNCHANGED iloVars \/ Reboot
    BY <1>5, NothingLost DEF ConfirmReset, SendReset, ResetTimesOut
  <2> QED
    BY <2>1, <2>2, SlotOther DEF Reboot, iloVars
<1>6. ~FinalLogout /\ ~Exit /\ ~Stop /\ ~Crash
  BY NothingLost DEF FinalLogout, Exit, Stop, Crash
<1>7. CASE Environment \/ IloBoots
  <2>1. UNCHANGED <<serverVars, stops>>
    BY <1>7 DEF Environment, IloBoots, budgets
  <2>2. pool' \subseteq pool /\ (up' = up \/ up')
    BY <1>7
       DEF Environment, IloBoots, Booted, OtherUserLogsOut, ArmingExpires, SlotTimesOut,
           OtherUserLogsIn, KvmCloses, KvmVanishes, KvmSeizedByOther
  <2> QED
    BY <2>1, <2>2, SlotOther DEF serverVars
<1> QED
  BY <1>2, <1>3, <1>4, <1>5, <1>6, <1>7, SlotWorker DEF Next, MainStep, ResetStep

\* A server whose requests are answered never takes a second slot of the pool:
\* however connections drop, slots time out and resets interfere, it logs out
\* before it logs in.
THEOREM NeverTwoSlots ==
  ASSUME Reliable
  PROVE  Spec => []OneSlot
<1>1. Init => SlotInv
  BY BudgetAssumption DEF Init, IloInit, SlotInv, Reliable
<1>2. TypeInv /\ OneWorker /\ SlotInv /\ [Next]_vars => SlotInv'
  BY SlotStep DEF BaseInv
<1>3. SlotInv => OneSlot
  BY DEF SlotInv, OneSlot
<1> QED
  BY <1>1, <1>2, <1>3, TypeInvariant, MutualExclusion, PTL DEF Spec

-----------------------------------------------------------------------------
(* A server that nobody touches: no clicks, and no other client that seizes *)
(* the console.  One duty goes round.                                       *)

Untouched == MaxClicks = 0 /\ "seize" \notin FaultKinds

Failing(w) == Dialling(w) \/ pc[w] = "fail"
NobodyReceives == \A c \in Consoles : con[c] = "idle"

\* Who has the duty: a worker that has not come to an end of its attempt, a
\* console, one timer -- or nobody, when the pool is exhausted or the process is
\* gone.
OneDutyInv ==
  /\ clicks = 0 /\ seizing = {}
  /\ \A r \in Resets : reset[r] = "idle"
  /\ \A c \in Consoles : con[c] # "seized" /\ (kvm = c => con[c] = "live")
  /\ \A c, d \in Consoles : Receiving(c) /\ Receiving(d) => c = d
  /\ fresh + ripe > 0 => fresh + ripe = 1 /\ NobodyReceives
  /\ ripe > 0 => \A w \in Workers : pc[w] = "off"
  /\ \A w \in Workers : Failing(w) => fresh + ripe = 0 /\ NobodyReceives
  /\ state = "session_exhausted" =>
       /\ fresh + ripe = 0 /\ NobodyReceives
       /\ \A w \in Workers : pc[w] \in {"off", "release"}
  /\ proc = "down" =>
       /\ fresh + ripe = 0 /\ NobodyReceives
       /\ state = "idle"
       /\ \A w \in Workers : pc[w] = "off"

\* The first timer there is.
LEMMA FirstTimer ==
  ASSUME TypeOK, ScheduleReconnect, fresh + ripe = 0
  PROVE  fresh' + ripe' = 1 /\ ripe' = 0
<1>1. fresh \in Nat /\ ripe \in Nat /\ MaxTimers \in Nat \ {0}
  BY TimersAssumption DEF TypeOK
<1>2. fresh = 0 /\ ripe = 0
  BY <1>1
<1> QED
  BY <1>1, <1>2 DEF ScheduleReconnect

\* A worker that goes on with its attempt still has the duty.
LEMMA DutyDialling ==
  ASSUME BaseInv, OneDutyInv, NEW w \in Workers, Failing(w),
         Failing(w)' \/ (pc'[w] = "release" /\ state' = "session_exhausted"),
         \A v \in Workers \ {w} : pc'[v] = "off",
         state' = "session_exhausted" => pc'[w] = "release",
         UNCHANGED <<con, kvm, seizing, fresh, ripe, reset, clicks, proc>>
  PROVE  OneDutyInv'
<1>1. fresh + ripe = 0 /\ NobodyReceives
  BY DEF OneDutyInv
<1>2. proc # "down" /\ proc' # "down"
  BY DEF OneDutyInv, Failing, Dialling
<1>3. fresh \in Nat /\ ripe \in Nat
  BY DEF BaseInv, TypeInv, TypeOK
<1>4. fresh' + ripe' = 0 /\ NobodyReceives' /\ ~(ripe' > 0)
  BY <1>1, <1>3 DEF NobodyReceives
<1> QED
  BY <1>2, <1>4 DEF OneDutyInv, NobodyReceives, Receiving

LEMMA DutyLogin ==
  ASSUME BaseInv, OneDutyInv, NEW w \in Workers,
         Begin(w) \/ Logout(w) \/ LoginKey(w) \/ LoginToken(w) \/ FetchParams(w)
  PROVE  OneDutyInv'
<1>1. /\ pc \in [Workers -> Labels]
      /\ \A v \in Workers \ {w} : pc'[v] = "off"
  BY OnlyWorker DEF WorkerStep, BaseInv, TypeInv, TypeOK
<1>2. Failing(w) /\ state # "session_exhausted"
  BY DEF OneDutyInv, Begin, Logout, LoginKey, LoginToken, FetchParams, Failing, Dialling
<1>3. UNCHANGED <<con, reset, clicks, proc, fresh, ripe>>
  BY DEF Begin, Logout, LoginKey, AskUser, LoginToken, FetchParams, WorkerFrame, budgets
<1>4. UNCHANGED <<kvm, seizing>>
  BY DEF Begin, Logout, LogoutRequest, LoginKey, LoginToken, FetchParams, RequestRaises,
         RequestLost, ReleaseSlot, GrantSlot, ArmKvm, iloVars
<1>5. \/ Failing(w)' /\ state' # "session_exhausted"
      \/ pc'[w] = "release" /\ state' = "session_exhausted"
  <2>1. CASE Begin(w)
    BY <1>1, <2>1 DEF Begin, Goto, Failing, Dialling
  <2>2. CASE Logout(w) \/ LoginToken(w)
    BY <1>1, <1>2, <2>2 DEF Logout, LoginToken, WorkerFrame, Goto, Failing, Dialling
  <2>3. CASE LoginKey(w)
    BY <1>1, <1>2, <2>3 DEF LoginKey, AskUser, Goto, Failing, Dialling
  <2>4. CASE FetchParams(w)
    BY <1>1, <1>2, <2>4
       DEF FetchParams, RequestRaises, Refused, WorkerFrame, Goto, Failing, Dialling
  <2> QED
    BY <2>1, <2>2, <2>3, <2>4
<1> QED
  BY <1>1, <1>2, <1>3, <1>4, <1>5, DutyDialling

\* The console the worker connects is the only one.
LEMMA DutyConnect ==
  ASSUME BaseInv, OneDutyInv, NEW w \in Workers, Connect(w)
  PROVE  OneDutyInv'
<1>1. /\ pc \in [Workers -> Labels]
      /\ con \in [Consoles -> {"idle", "live", "seized"}]
      /\ cur \in Consoles
      /\ kvm \in Consoles \cup {None}
      /\ fresh \in Nat /\ ripe \in Nat
  BY DEF Connect, BaseInv, TypeInv, TypeOK, IloTypeOK, Located
<1>2. \A v \in Workers \ {w} : pc'[v] = "off"
  BY OnlyWorker DEF WorkerStep
<1>3. Failing(w) /\ fresh + ripe = 0 /\ NobodyReceives /\ state # "session_exhausted"
  BY DEF OneDutyInv, Connect, Failing, Dialling
<1>4. UNCHANGED <<reset, clicks, proc, fresh, ripe, state>>
  BY DEF Connect, WorkerFrame
<1>5. CASE UNCHANGED iloVars /\ UNCHANGED con
  <2>1. Failing(w)'
    BY <1>1, <1>3, <1>5 DEF Connect, Goto, Refused, RequestRaises, AcceptKvm, Failing,
                           Dialling, NobodyReceives, iloVars
  <2> QED
    BY <1>2, <1>3, <1>4, <1>5, <2>1, DutyDialling DEF iloVars
<1>6. CASE AcceptKvm(cur) /\ con' = [con EXCEPT ![cur] = "live"] /\ Goto(w, "tail")
  <2>1. kvm = None
    BY <1>1, <1>3 DEF OneDutyInv, NobodyReceives
  <2>2. kvm' = cur /\ seizing' = {}
    BY <1>6, <2>1 DEF AcceptKvm, OneDutyInv
  <2>3. con'[cur] = "live" /\ \A c \in Consoles \ {cur} : con'[c] = "idle"
    BY <1>1, <1>3, <1>6 DEF NobodyReceives
  <2>4. pc'[w] = "tail" /\ ~Failing(w)' /\ \A v \in Workers \ {w} : ~Failing(v)'
    BY <1>1, <1>2, <1>6 DEF Goto, Failing, Dialling
  <2>5. fresh' + ripe' = 0 /\ ~(ripe' > 0) /\ proc' # "down"
    BY <1>1, <1>3, <1>4 DEF OneDutyInv, Failing, Dialling
  <2> QED
    BY <1>3, <1>4, <2>2, <2>3, <2>4, <2>5 DEF OneDutyInv, Receiving
<1> QED
  BY <1>5, <1>6 DEF Connect, RequestRaises, RequestLost

LEMMA DutyEnd ==
  ASSUME BaseInv, OneDutyInv, NEW w \in Workers, Tail(w) \/ Fail(w) \/ Release(w)
  PROVE  OneDutyInv'
<1>1. /\ pc \in [Workers -> Labels] /\ TypeOK
      /\ fresh \in Nat /\ ripe \in Nat
  BY DEF BaseInv, TypeInv, TypeOK
<1>2. pc[w] # "off" /\ \A v \in Workers \ {w} : pc[v] = "off" /\ pc'[v] = "off"
  BY OnlyWorker DEF WorkerStep
<1>3. UNCHANGED <<iloVars, reset, clicks, proc, con>> /\ proc # "down"
  BY <1>2 DEF Tail, Fail, Release, WorkerFrame, OneDutyInv, budgets
<1>4. pc'[w] \in {"release", "off"} /\ \A v \in Workers : ~Failing(v)'
  BY <1>1, <1>2 DEF Tail, Fail, Release, Goto, Failing, Dialling
<1>5. CASE Tail(w) \/ Release(w)
  <2>1. UNCHANGED <<fresh, ripe>>
    BY <1>5 DEF Tail, Release, WorkerFrame
  <2>2. state' = "session_exhausted" => state = "session_exhausted"
    BY <1>5 DEF Tail, Release
  <2>3. ~(ripe > 0)
    BY <1>2 DEF OneDutyInv
  <2> QED
    BY <1>2, <1>3, <1>4, <2>1, <2>2, <2>3
       DEF OneDutyInv, NobodyReceives, Receiving, iloVars
<1>6. CASE Fail(w)
  <2>1. fresh + ripe = 0 /\ NobodyReceives /\ ScheduleReconnect /\ state' = "error"
    BY <1>6 DEF Fail, OneDutyInv, Failing
  <2>2. fresh' + ripe' = 1 /\ ripe' = 0
    BY <1>1, <2>1, FirstTimer
  <2>3. ~(ripe' > 0)
    BY <2>2
  <2> QED
    BY <1>3, <1>4, <2>1, <2>2, <2>3 DEF OneDutyInv, NobodyReceives, Receiving, iloVars
<1> QED
  BY <1>5, <1>6

\* The only console that receives gives the duty to the only timer.
LEMMA DutyReceiver ==
  ASSUME BaseInv, OneDutyInv, NEW c \in Consoles, Receiver(c)
  PROVE  OneDutyInv'
<1>1. /\ con \in [Consoles -> {"idle", "live", "seized"}] /\ TypeOK
      /\ kvm \in Consoles \cup {None}
      /\ fresh \in Nat /\ ripe \in Nat
  BY DEF BaseInv, TypeInv, TypeOK, IloTypeOK
<1>2. RecvLoopEnds(c) /\ con[c] = "live"
  BY DEF Receiver, SeizeReceived, RecvLoopEnds, OneDutyInv
<1>3. UNCHANGED <<proc, pc, reset, clicks>> /\ ScheduleReconnect /\ state' = "disconnected"
  BY <1>2 DEF RecvLoopEnds, ReceiverFrame, OnConsoleDisconnected, budgets
<1>4. fresh + ripe = 0
  BY <1>1, <1>2 DEF OneDutyInv, NobodyReceives
<1>5. fresh' + ripe' = 1 /\ ripe' = 0 /\ ~(ripe' > 0)
  BY <1>1, <1>3, <1>4, FirstTimer
<1>6. NobodyReceives'
  BY <1>1, <1>2 DEF NobodyReceives, OneDutyInv, Receiving, RecvLoopEnds
<1>7. \A v \in Workers : ~Failing(v)'
  BY <1>2, <1>3 DEF OneDutyInv, NobodyReceives, Failing, Dialling
<1>8. seizing' = {} /\ \A d \in Consoles : kvm' # d
  BY <1>1, <1>2, NoneAssumption DEF RecvLoopEnds, HangUp, OneDutyInv, Receiving
<1>9. proc' # "down"
  BY <1>2, <1>3 DEF OneDutyInv, NobodyReceives
<1> QED
  BY <1>3, <1>5, <1>6, <1>7, <1>8, <1>9 DEF OneDutyInv, NobodyReceives, Receiving

\* A retry that begins uses its timer up.
LEMMA DutyTimer ==
  ASSUME BaseInv, OneDutyInv, DelayElapses \/ TimerFires
  PROVE  OneDutyInv'
<1>1. TypeOK /\ fresh \in Nat /\ ripe \in Nat /\ MaxTimers \in Nat \ {0}
  BY TimersAssumption DEF BaseInv, TypeInv, TypeOK
<1>2. CASE DelayElapses
  <2>1. fresh + ripe = 1 /\ fresh = 1 /\ NobodyReceives
    BY <1>1, <1>2 DEF DelayElapses, OneDutyInv
  <2>2. fresh' + ripe' = 1
    BY <1>1, <1>2, <2>1 DEF DelayElapses
  <2>3. UNCHANGED <<proc, pc, con, state, reset, clicks, iloVars>>
    BY <1>2 DEF DelayElapses, exceptTimers, budgets
  <2>4. \A w \in Workers : pc[w] = "off"
    <3>1. \A w \in Workers : pc[w] \in Labels /\ ~Failing(w) /\ pc[w] \notin {"tail", "release"}
      BY <1>1, <1>2, <2>1 DEF DelayElapses, NoLastStatements, OneDutyInv, TypeOK
    <3> QED
      BY <3>1 DEF Failing, Dialling, Labels
  <2> QED
    BY <2>1, <2>2, <2>3, <2>4
       DEF OneDutyInv, NobodyReceives, Receiving, Failing, Dialling, iloVars
<1>3. CASE TimerFires
  <2>1. fresh + ripe = 1 /\ ripe > 0 /\ ripe' = ripe - 1 /\ NobodyReceives
        /\ \A w \in Workers : pc[w] = "off"
    BY <1>1, <1>3 DEF TimerFires, OneDutyInv
  <2>2. fresh' + ripe' = 0 /\ ~(ripe' > 0) /\ ~(fresh' + ripe' > 0)
    BY <1>1, <1>3, <2>1 DEF TimerFires
  <2>3. UNCHANGED <<proc, con, state, reset, clicks, iloVars>> /\ proc # "down"
    BY <1>3 DEF TimerFires, budgets
  <2>4. state # "session_exhausted"
    BY <1>1, <2>1 DEF OneDutyInv
  <2> QED
    BY <2>1, <2>2, <2>3, <2>4 DEF OneDutyInv, NobodyReceives, Receiving, iloVars
<1> QED
  BY <1>2, <1>3

\* A process begins with one worker and ends with everything it has.
LEMMA DutyProcess ==
  ASSUME Untouched, BaseInv, OneDutyInv, MainStep \/ Stop \/ Crash
  PROVE  OneDutyInv'
<1>1. TypeOK /\ fresh \in Nat /\ ripe \in Nat
  BY DEF BaseInv, TypeInv, TypeOK
<1>2. CASE Boot
  <2>1. fresh + ripe = 0 /\ NobodyReceives /\ state = "idle"
    BY <1>2 DEF Boot, OneDutyInv
  <2>2. UNCHANGED <<fresh, ripe, con, state, reset, clicks, iloVars>> /\ proc' = "running"
    BY <1>2 DEF Boot, MainFrame
  <2>3. fresh' + ripe' = 0 /\ ~(ripe' > 0) /\ ~(fresh' + ripe' > 0)
    BY <1>1, <2>1, <2>2
  <2> QED
    BY <2>1, <2>2, <2>3 DEF OneDutyInv, NobodyReceives, Receiving, iloVars
<1>3. CASE Stop \/ FinalLogout
  <2>1. UNCHANGED <<pc, con, state, fresh, ripe, clicks>> /\ proc' # "down"
    BY <1>3 DEF Stop, FinalLogout, MainFrame
  <2>2. \A r \in Resets : reset'[r] = "idle"
    BY <1>3 DEF Stop, FinalLogout, OneDutyInv
  <2>3. UNCHANGED <<kvm, seizing>>
    BY <1>3 DEF Stop, FinalLogout, LogoutRequest, RequestLost, ReleaseSlot, iloVars
  <2> QED
    BY <2>1, <2>2, <2>3 DEF OneDutyInv, NobodyReceives, Receiving, Failing, Dialling
<1>4. CASE Vanish
  <2>1. fresh' + ripe' = 0 /\ ~(ripe' > 0) /\ ~(fresh' + ripe' > 0)
    BY <1>4 DEF Vanish
  <2>2. NobodyReceives' /\ state' = "idle" /\ \A w \in Workers : pc'[w] = "off"
    BY <1>4 DEF Vanish, NobodyReceives
  <2>3. clicks' = 0 /\ seizing' = {} /\ \A c \in Consoles : kvm' # c
    BY <1>4, NoneAssumption DEF Vanish, MainFrame, OneDutyInv
  <2>4. \A r \in Resets : reset'[r] = "idle"
    BY <1>4 DEF Vanish
  <2> QED
    BY <2>1, <2>2, <2>3, <2>4 DEF OneDutyInv, NobodyReceives, Receiving, Failing, Dialling
<1> QED
  BY <1>2, <1>3, <1>4 DEF MainStep, Exit, Crash

\* Nobody else touches the console: connections close, but none is seized.
LEMMA DutyEnvironment ==
  ASSUME Untouched, BaseInv, OneDutyInv, IloBoots \/ Environment \/ UNCHANGED vars
  PROVE  OneDutyInv'
<1>1. UNCHANGED <<serverVars, clicks>>
  BY DEF IloBoots, Environment, vars, budgets
<1>2. seizing' = {} /\ \A c \in Consoles : kvm' = c => kvm = c
  BY NoneAssumption
     DEF IloBoots, Environment, vars, Untouched, Fault, OneDutyInv, Booted, iloVars,
         OtherUserLogsOut, ArmingExpires, SlotTimesOut, OtherUserLogsIn, KvmCloses,
         KvmVanishes, KvmSeizedByOther
<1> QED
  BY <1>1, <1>2
     DEF OneDutyInv, NobodyReceives, Receiving, Failing, Dialling, serverVars

LEMMA DutyGoesRound ==
  ASSUME Untouched, BaseInv, OneDutyInv, [Next]_vars
  PROVE  OneDutyInv'
<1>1. ASSUME NEW w \in Workers, WorkerStep(w)
      PROVE  OneDutyInv'
  BY <1>1, DutyLogin, DutyConnect, DutyEnd DEF WorkerStep
<1>2. ~ClickStart /\ \A r \in Resets : ~ConfirmReset(r) /\ ~ResetStep(r)
  BY DEF OneDutyInv, ClickStart, ConfirmReset, ResetStep, SendReset, ResetDone,
         ResetTimesOut
<1> QED
  BY <1>1, <1>2, DutyReceiver, DutyTimer, DutyProcess, DutyEnvironment DEF Next

LEMMA OneDutyInvariant ==
  ASSUME Untouched
  PROVE  Spec => []OneDutyInv
<1>1. Init => OneDutyInv
  <2> SUFFICES ASSUME Init PROVE OneDutyInv
    OBVIOUS
  <2>1. fresh + ripe = 0 /\ ~(fresh + ripe > 0) /\ ~(ripe > 0)
    BY DEF Init
  <2>2. NobodyReceives /\ \A w \in Workers : pc[w] = "off" /\ ~Failing(w)
    BY DEF Init, NobodyReceives, Failing, Dialling
  <2>3. clicks = 0 /\ seizing = {} /\ \A c \in Consoles : kvm # c
    BY NoneAssumption DEF Init, IloInit, Untouched
  <2> QED
    BY <2>1, <2>2, <2>3 DEF Init, OneDutyInv, NobodyReceives, Receiving
<1>2. TypeInv /\ OneWorker /\ OneDutyInv /\ [Next]_vars => OneDutyInv'
  BY DutyGoesRound DEF BaseInv
<1> QED
  BY <1>1, <1>2, TypeInvariant, MutualExclusion, PTL DEF Spec

\* With nobody clicking and nobody seizing the console there is one duty: never
\* two consoles, never a retry beside a console or an attempt, never two
\* retries, whatever is lost, refused or killed.
THEOREM DutyIsOne ==
  ASSUME Untouched
  PROVE  Spec => []OneDuty
<1>1. TypeInv /\ OneDutyInv => OneDuty
  <2> SUFFICES ASSUME TypeInv, OneDutyInv, NEW c \in Consoles, NEW d \in Consoles
               PROVE  /\ Receiving(c) /\ Receiving(d) => c = d
                      /\ Receiving(c) => ~RetryPending /\ \A w \in Workers : ~Dialling(w)
                      /\ RetryPending => fresh + ripe = 1 /\ \A w \in Workers : ~Dialling(w)
    BY DEF OneDuty
  <2>1. fresh \in Nat /\ ripe \in Nat
    BY DEF TypeInv, TypeOK
  <2> QED
    BY <2>1 DEF OneDutyInv, NobodyReceives, Receiving, RetryPending, Failing
<1> QED
  BY <1>1, OneDutyInvariant, TypeInvariant, PTL

\* ... an exhausted pool stays with the user: no timer is left that would retry,
THEOREM ExhaustionParks ==
  ASSUME Untouched
  PROVE  Spec => []ExhaustedParks
<1>1. TypeInv /\ OneDutyInv => ExhaustedParks
  <2>1. TypeInv => fresh \in Nat /\ ripe \in Nat
    BY DEF TypeInv, TypeOK
  <2> QED
    BY <2>1 DEF OneDutyInv, ExhaustedParks, RetryPending
<1> QED
  BY <1>1, OneDutyInvariant, TypeInvariant, PTL

\* ... and a console that streams is not replaced.
THEOREM StreamingKept ==
  ASSUME Untouched
  PROVE  Spec => HealthyConsoleKept
<1>1. BaseInv /\ OneDutyInv /\ [Next]_vars => [Serving /\ proc' # "down" => cur' = cur]_vars
  <2> SUFFICES ASSUME BaseInv, OneDutyInv, Next, Serving, proc' # "down"
               PROVE  cur' = cur
    BY DEF vars, serverVars
  <2>1. cur \in Consoles /\ con[cur] = "live"
    BY DEF Serving, BaseInv, TypeInv, TypeOK
  <2>2. ASSUME NEW w \in Workers, WorkerStep(w) PROVE cur' = cur
    <3>1. ~FetchParams(w)
      BY <2>1 DEF FetchParams, OneDutyInv, NobodyReceives, Failing, Dialling
    <3> QED
      BY <2>2, <3>1 DEF WorkerStep, Begin, Logout, LoginKey, LoginToken, Connect, Tail,
                        Fail, Release
  <2>3. CASE DelayElapses \/ TimerFires \/ ClickStart \/ IloBoots \/ Environment
    BY <2>3 DEF DelayElapses, exceptTimers, TimerFires, ClickStart, EventLoopFrame,
                IloBoots, Environment, serverVars
  <2>4. CASE MainStep \/ Stop \/ Crash
    BY <2>4 DEF MainStep, Boot, FinalLogout, Exit, Stop, Crash, Vanish
  <2>5. ASSUME NEW r \in Resets, ConfirmReset(r) \/ ResetStep(r) PROVE cur' = cur
    BY <2>5 DEF ConfirmReset, ResetStep, SendReset, ResetDone, ResetTimesOut,
                EventLoopFrame
  <2>6. ASSUME NEW c \in Consoles, Receiver(c) PROVE cur' = cur
    BY <2>6 DEF Receiver, SeizeReceived, RecvLoopEnds, ReceiverFrame
  <2> QED
    BY <2>2, <2>3, <2>4, <2>5, <2>6 DEF Next
<1>2. TypeInv /\ OneWorker => BaseInv
  BY DEF BaseInv
<1> QED
  BY <1>1, <1>2, OneDutyInvariant, TypeInvariant, MutualExclusion, PTL
     DEF Spec, HealthyConsoleKept
=============================================================================
