-------------------------- MODULE ConsoleLifecycle --------------------------
(***************************************************************************)
(* How WebServer keeps a KVM console to the iLO2 alive: the connect worker  *)
(* (webserver._connect_worker) behind the non-blocking _connecting lock,    *)
(* the receiver thread of every IloConsole, the reconnect timers, the       *)
(* confirmed reset of the management processor, and the process's start and *)
(* shutdown.  Each request to the iLO2 is one step; everything between two  *)
(* requests belongs to the step of the first.                              *)
(***************************************************************************)
EXTENDS IloController

CONSTANTS Workers,      \* threads that may run _connect_worker
          Resets,       \* calls of _confirmed_reset, with the threads they wait for
          MaxAttempts,  \* range(1, 4) in _connect_worker: 3 attempts
          NatPort,      \* the iLO2 is reached through another port than 443
          FaultKinds,   \* what may go wrong around the program
          MaxFaults,    \* bound: faults in a behaviour
          MaxClicks,    \* bound: start_console and confirm_reset messages
          MaxStops,     \* bound: shutdowns of the process
          MaxTimers     \* bound: pending retries that are told apart

ASSUME AttemptsAssumption == MaxAttempts \in Nat \ {0}
ASSUME TimersAssumption == MaxTimers \in Nat \ {0}
ASSUME BudgetAssumption == MaxFaults \in Nat /\ MaxClicks \in Nat /\ MaxStops \in Nat
ASSUME NatPortAssumption == NatPort \in BOOLEAN

VARIABLES
  proc,      \* "down", "running", "stopping" (loop ended), "exiting"
  lock,      \* _connecting is held
  pc,        \* where each connect worker is
  attempt,   \* its loop counter; 0 before the loop
  cookie,    \* session.session_cookie
  con,       \* the receiver thread of each IloConsole
  cur,       \* self.console
  state,     \* console_state["state"]
  fresh,     \* pending retry timers, started less than RECONNECT_DELAY ago
  ripe,      \* retry timers whose delay is over
  reset,     \* what each _confirmed_reset, or a thread it left behind, does
  prompted,  \* some browser was asked whether to reset the iLO2
  abandoned, \* history: a reset failed and no worker has begun since
  faults, clicks, stops

serverVars == <<proc, lock, pc, attempt, cookie, con, cur, state, fresh, ripe,
                reset, prompted, abandoned>>
budgets == <<faults, clicks, stops>>
vars == <<iloVars, serverVars, budgets>>

States == {"idle", "connecting", "connected", "disconnected", "error",
           "session_exhausted"}
Labels == {"off", "begin", "logout", "key", "token", "params", "connect",
           "tail", "fail", "release"}

TypeOK ==
  /\ IloTypeOK
  /\ proc \in {"down", "running", "stopping", "exiting"}
  /\ lock \in BOOLEAN
  /\ pc \in [Workers -> Labels]
  /\ attempt \in [Workers -> 0..MaxAttempts]
  /\ cookie \in Cookies \cup {None}
  /\ con \in [Consoles -> {"idle", "live", "seized"}]
  /\ cur \in Consoles \cup {None}
  /\ state \in States
  /\ fresh \in 0..MaxTimers
  /\ ripe \in 0..MaxTimers
  /\ reset \in [Resets -> {"idle", "send", "wait"}]
  /\ prompted \in BOOLEAN
  /\ abandoned \in BOOLEAN
  /\ faults \in 0..MaxFaults
  /\ clicks \in 0..MaxClicks
  /\ stops \in 0..MaxStops

Active(w) == pc[w] # "off"
Receiving(c) == con[c] \in {"live", "seized"}
Resetting == \E r \in Resets : reset[r] # "idle"
Goto(w, label) == pc' = [pc EXCEPT ![w] = label]

\* A fault of kind k, if this configuration has it and any is left.
Fault(k) ==
  /\ k \in FaultKinds
  /\ faults > 0
  /\ faults' = faults - 1

\* Nothing of the server that a step on the retry timers leaves alone.
exceptTimers == <<proc, lock, pc, attempt, cookie, con, cur, state, reset,
                  prompted, abandoned>>

Init ==
  /\ IloInit
  /\ proc = "down"
  /\ lock = FALSE
  /\ pc = [w \in Workers |-> "off"]
  /\ attempt = [w \in Workers |-> 0]
  /\ cookie = None
  /\ con = [c \in Consoles |-> "idle"]
  /\ cur = None
  /\ state = "idle"
  /\ fresh = 0
  /\ ripe = 0
  /\ reset = [r \in Resets |-> "idle"]
  /\ prompted = FALSE
  /\ abandoned = FALSE
  /\ faults = MaxFaults
  /\ clicks = MaxClicks
  /\ stops = MaxStops

-----------------------------------------------------------------------------
(* start_console_thread and the retry timers.                               *)

SpawnWorker == \E w \in Workers : pc[w] = "off" /\ Goto(w, "begin")

\* Mutant: start_console_thread without the _connecting guard.
UnguardedStart == lock' = TRUE /\ SpawnWorker

\* acquire(blocking=False): a request that finds the lock held is dropped.
StartConsole ==
  \/ lock /\ UNCHANGED <<lock, pc>>
  \/ ~lock /\ lock' = TRUE /\ SpawnWorker

\* Mutant: _schedule_reconnect that never starts its timer.
ForgetReconnect == UNCHANGED <<fresh, ripe>>

\* _schedule_reconnect: one more timer.  Nothing ever cancels one.
ScheduleReconnect ==
  /\ fresh' = IF fresh < MaxTimers THEN fresh + 1 ELSE fresh
  /\ UNCHANGED ripe

\* No thread is between its last blocking call and its end.  The code has no
\* clock in common with them, but waits for tens of seconds where these threads
\* need milliseconds.
NoLastStatements ==
  /\ \A w \in Workers : pc[w] \notin {"tail", "release"}
  /\ \A c \in Consoles : con[c] # "seized"

\* RECONNECT_DELAY is over.  It is 20 s: a thread that was in its last,
\* non-blocking statements when the timer started has left them by then.
DelayElapses ==
  /\ fresh > 0
  /\ NoLastStatements
  /\ fresh' = fresh - 1
  /\ ripe' = IF ripe < MaxTimers THEN ripe + 1 ELSE ripe
  /\ UNCHANGED <<exceptTimers, iloVars, budgets>>

\* Mutant: a timer that fires over and over.
TimerRepeats ==
  /\ proc # "down"
  /\ ripe > 0
  /\ StartConsole
  /\ UNCHANGED <<fresh, ripe, proc, attempt, cookie, con, cur, state, reset,
                 prompted, abandoned, iloVars, budgets>>

TimerFires ==
  /\ proc # "down"
  /\ ripe > 0
  /\ ripe' = ripe - 1
  /\ StartConsole
  /\ UNCHANGED <<fresh, proc, attempt, cookie, con, cur, state, reset, prompted,
                 abandoned, iloVars, budgets>>

-----------------------------------------------------------------------------
(* The connect worker.                                                      *)

\* A request that never reaches a controller able to answer it.
RequestLost ==
  /\ UNCHANGED iloVars
  /\ \/ ~up /\ UNCHANGED faults
     \/ up /\ Fault("lose_request")

WorkerFrame == UNCHANGED <<proc, fresh, ripe, reset, abandoned, clicks, stops>>

\* set_console_state("connecting"), the worker's first statement.
Begin(w) ==
  /\ pc[w] = "begin"
  /\ Goto(w, "logout")
  /\ attempt' = [attempt EXCEPT ![w] = 0]
  /\ state' = "connecting"
  /\ abandoned' = FALSE
  /\ UNCHANGED <<iloVars, budgets, proc, lock, cookie, con, cur, fresh, ripe, reset,
                 prompted>>

\* session.logout(): best effort, forgets the cookie whatever happens.
LogoutRequest ==
  /\ cookie' = None
  /\ \/ cookie = None /\ UNCHANGED <<iloVars, faults>>
     \/ cookie # None /\ up /\ ReleaseSlot(cookie) /\ UNCHANGED faults
     \/ cookie # None /\ RequestLost

\* Mutant: the retry logs in again without logging out first.
LogoutOnlyOnce(w) ==
  /\ pc[w] = "logout"
  /\ Goto(w, "key")
  /\ \/ attempt[w] = 0 /\ LogoutRequest
     \/ attempt[w] > 0 /\ UNCHANGED <<iloVars, cookie, faults>>
  /\ WorkerFrame
  /\ UNCHANGED <<lock, attempt, con, cur, state, prompted>>

\* The logout before the first login and before the login of a retry.
Logout(w) ==
  /\ pc[w] = "logout"
  /\ Goto(w, "key")
  /\ LogoutRequest
  /\ WorkerFrame
  /\ UNCHANGED <<lock, attempt, con, cur, state, prompted>>

\* Mutant: an exhausted pool is retried like any other failure.
AskUserAndRetry(w) ==
  /\ Goto(w, "release")
  /\ state' = "session_exhausted"
  /\ prompted' = TRUE
  /\ ScheduleReconnect

\* The SessionExhaustedError of a worker's first login: no retry, the browsers
\* ask their users.
AskUser(w) ==
  /\ Goto(w, "release")
  /\ state' = "session_exhausted"
  /\ prompted' = TRUE
  /\ UNCHANGED <<fresh, ripe>>

\* login(), first request: the one-time sessionkey.  Only the first login of a
\* worker is inside the try that catches SessionExhaustedError.
LoginKey(w) ==
  /\ pc[w] = "key"
  /\ \/ up /\ PoolFull /\ attempt[w] = 0 /\ AskUser(w) /\ UNCHANGED <<iloVars, faults>>
     \/ /\ \/ up /\ ~PoolFull /\ Goto(w, "token") /\ UNCHANGED <<iloVars, faults>>
           \/ /\ up /\ PoolFull /\ attempt[w] > 0
              /\ Goto(w, "fail")
              /\ UNCHANGED <<iloVars, faults>>
           \/ RequestLost /\ Goto(w, "fail")
        /\ UNCHANGED <<state, prompted, fresh, ripe>>
  /\ UNCHANGED <<proc, lock, attempt, cookie, con, cur, reset, abandoned, clicks, stops>>

FreshCookies == Cookies \ (pool \cup {cookie})

\* login(), second request: the key is traded for a session cookie.
LoginToken(w) ==
  /\ pc[w] = "token"
  /\ \/ \E k \in FreshCookies :
          /\ up
          /\ GrantSlot(k)
          /\ cookie' = k
          /\ attempt' = [attempt EXCEPT ![w] = @ + 1]
          /\ Goto(w, "params")
          /\ UNCHANGED faults
     \/ \E k \in FreshCookies :  \* the slot is taken, the reply is lost
          /\ up
          /\ GrantSlot(k)
          /\ Fault("lose_reply")
          /\ Goto(w, "fail")
          /\ UNCHANGED <<cookie, attempt>>
     \/ /\ up                   \* the last slot went to somebody else
        /\ PoolFull
        /\ Goto(w, "fail")
        /\ UNCHANGED <<iloVars, cookie, attempt, faults>>
     \/ RequestLost /\ Goto(w, "fail") /\ UNCHANGED <<cookie, attempt>>
  /\ WorkerFrame
  /\ UNCHANGED <<lock, con, cur, state, prompted>>

\* Mutant: one attempt too many.
RefusedOnceMore(w) == Goto(w, IF attempt[w] <= MaxAttempts THEN "logout" ELSE "fail")

\* ConnectionRefusedError inside the attempt loop: log in again and retry,
\* until the attempts are used up and the error is raised.
Refused(w) == Goto(w, IF attempt[w] < MaxAttempts THEN "logout" ELSE "fail")

\* An OSError of a request: a refused port is retried, any other is not.
RequestRaises(w) == RequestLost /\ (Refused(w) \/ Goto(w, "fail"))

\* self.console = IloConsole(...).  An identifier without a receiver thread is
\* free: its last object, if it had one, is only remembered as self.console.
NewConsole(c) == ~Receiving(c) /\ cur' = c

\* fetch_console_params() and the new console object.  _get() logs in first
\* if the shutdown has meanwhile dropped the cookie.
FetchParams(w) ==
  /\ pc[w] = "params"
  /\ \/ /\ cookie \in pool
        /\ up
        /\ ArmKvm
        /\ \E c \in Consoles : NewConsole(c)
        /\ Goto(w, "connect")
        /\ UNCHANGED <<cookie, faults>>
     \/ /\ cookie # None        \* a dead session: the page has no INFO0
        /\ cookie \notin pool
        /\ up
        /\ Goto(w, "fail")
        /\ UNCHANGED <<iloVars, cookie, cur, faults>>
     \/ /\ cookie \in pool      \* the port is armed, the reply is lost
        /\ up
        /\ Fault("lose_reply")
        /\ ArmKvm
        /\ Goto(w, "fail")
        /\ UNCHANGED <<cookie, cur>>
     \/ /\ cookie = None
        /\ up
        /\ IF PoolFull THEN /\ Goto(w, "fail")
                            /\ UNCHANGED <<iloVars, cookie>>
                       ELSE \E k \in FreshCookies : /\ GrantSlot(k)
                                                    /\ cookie' = k
                                                    /\ UNCHANGED pc
        /\ UNCHANGED <<cur, faults>>
     \/ RequestRaises(w) /\ UNCHANGED <<cookie, cur>>
  /\ WorkerFrame
  /\ UNCHANGED <<lock, attempt, con, state, prompted>>

\* console.connect(): socket, login ticket, receiver thread.
Connect(w) ==
  /\ pc[w] = "connect"
  /\ \/ /\ AcceptKvm(cur)
        /\ con' = [con EXCEPT ![cur] = "live"]
        /\ Goto(w, "tail")
        /\ UNCHANGED faults
     \/ /\ up
        /\ ~armed
        /\ Refused(w)
        /\ UNCHANGED <<iloVars, con, faults>>
     \/ RequestRaises(w) /\ UNCHANGED con
  /\ WorkerFrame
  /\ UNCHANGED <<lock, attempt, cookie, cur, state, prompted>>

Tail(w) ==
  /\ pc[w] = "tail"
  /\ Goto(w, "release")
  /\ state' = "connected"
  /\ WorkerFrame
  /\ UNCHANGED <<iloVars, lock, attempt, cookie, con, cur, prompted, faults>>

\* except Exception: the error is shown and a retry is scheduled.
Fail(w) ==
  /\ pc[w] = "fail"
  /\ Goto(w, "release")
  /\ state' = "error"
  /\ ScheduleReconnect
  /\ UNCHANGED <<iloVars, budgets, proc, lock, attempt, cookie, con, cur, reset,
                 prompted, abandoned>>

\* Mutant: the early return on an exhausted pool keeps the lock.
ReleaseUnlessExhausted(w) ==
  /\ pc[w] = "release"
  /\ Goto(w, "off")
  /\ lock' = (state = "session_exhausted")
  /\ WorkerFrame
  /\ UNCHANGED <<iloVars, attempt, cookie, con, cur, state, prompted, faults>>

\* finally: _connecting.release().
Release(w) ==
  /\ pc[w] = "release"
  /\ Goto(w, "off")
  /\ lock' = FALSE
  /\ WorkerFrame
  /\ UNCHANGED <<iloVars, attempt, cookie, con, cur, state, prompted, faults>>

WorkerStep(w) ==
  \/ Begin(w) \/ Logout(w) \/ LoginKey(w) \/ LoginToken(w) \/ FetchParams(w)
  \/ Connect(w) \/ Tail(w) \/ Fail(w) \/ Release(w)

-----------------------------------------------------------------------------
(* The receiver thread of a console.                                        *)

ReceiverFrame == UNCHANGED <<proc, lock, pc, attempt, cookie, cur, reset,
                             prompted, abandoned, budgets>>

\* Mutant: a disconnection is ignored while a connect worker runs.
DisconnectUnlessConnecting ==
  IF lock THEN UNCHANGED <<state, fresh, ripe>>
          ELSE state' = "disconnected" /\ ScheduleReconnect

\* Mutant: one disconnection starts two retry timers.
DisconnectTwice ==
  /\ state' = "disconnected"
  /\ fresh' = IF fresh + 1 < MaxTimers THEN fresh + 2 ELSE fresh + 1
  /\ UNCHANGED ripe

\* _on_console_disconnected, whichever console it comes from.
OnConsoleDisconnected == state' = "disconnected" /\ ScheduleReconnect

\* The decoder meets the seize command: report, then disconnect().
SeizeReceived(c) ==
  /\ con[c] = "live"
  /\ c \in seizing
  /\ con' = [con EXCEPT ![c] = "seized"]
  /\ HangUp(c)
  /\ OnConsoleDisconnected
  /\ ReceiverFrame

\* _recv_loop ends at end-of-stream or because disconnect() stopped it; its
\* finally reports the disconnection, after a seizure for the second time.
RecvLoopEnds(c) ==
  /\ \/ con[c] = "live" /\ c \in eof
     \/ con[c] = "seized"
  /\ con' = [con EXCEPT ![c] = "idle"]
  /\ HangUp(c)
  /\ OnConsoleDisconnected
  /\ ReceiverFrame

-----------------------------------------------------------------------------
(* Messages of the browsers and the confirmed reset.                        *)

EventLoopFrame == UNCHANGED <<proc, attempt, cookie, con, cur, fresh, ripe>>

ClickStart ==
  /\ proc = "running"
  /\ clicks > 0
  /\ clicks' = clicks - 1
  /\ StartConsole
  /\ EventLoopFrame
  /\ UNCHANGED <<iloVars, state, reset, prompted, abandoned, faults, stops>>

\* A browser sends confirm_reset once it was prompted; the server does not
\* look at the state it is in by then.
ConfirmReset(r) ==
  /\ proc = "running"
  /\ prompted
  /\ clicks > 0
  /\ clicks' = clicks - 1
  /\ reset[r] = "idle"
  /\ reset' = [reset EXCEPT ![r] = "send"]
  /\ EventLoopFrame
  /\ UNCHANGED <<iloVars, lock, pc, state, prompted, abandoned, faults, stops>>

\* _confirmed_reset's except: the error is shown, nothing is retried.  After a
\* shutdown nobody waits for what the executor's thread returns any more.
ResetFails(r) ==
  /\ reset' = [reset EXCEPT ![r] = "idle"]
  /\ IF proc = "running"
     THEN state' = "error" /\ abandoned' = TRUE
     ELSE UNCHANGED <<state, abandoned>>

\* reset_management_processor().  ribcl_raw takes silence for an answer: a
\* request lost after the connection was made is waited for like any other.
SendReset(r) ==
  /\ reset[r] = "send"
  /\ \/ /\ up
        /\ \/ Reboot /\ UNCHANGED faults
           \/ UNCHANGED iloVars /\ Fault("lose_request")
        /\ reset' = [reset EXCEPT ![r] = IF proc = "running" THEN "wait" ELSE "idle"]
        /\ UNCHANGED <<state, abandoned>>
     \/ up /\ Reboot /\ Fault("lose_reply") /\ ResetFails(r)
     \/ RequestLost /\ ResetFails(r)
  /\ EventLoopFrame
  /\ UNCHANGED <<lock, pc, prompted, clicks, stops>>

\* Mutant: the console is not started after the reset.
ResetDoneOnly(r) ==
  /\ reset[r] = "wait"
  /\ up
  /\ ~NatPort
  /\ reset' = [reset EXCEPT ![r] = "idle"]
  /\ EventLoopFrame
  /\ UNCHANGED <<iloVars, lock, pc, state, prompted, abandoned, budgets>>

\* _wait_for_ilo() polls port 443 and then the console is started, unless the
\* task that would do it has been cancelled.
ResetDone(r) ==
  /\ reset[r] = "wait"
  /\ up
  /\ ~NatPort
  /\ reset' = [reset EXCEPT ![r] = "idle"]
  /\ IF proc = "running" THEN StartConsole ELSE UNCHANGED <<lock, pc>>
  /\ EventLoopFrame
  /\ UNCHANGED <<iloVars, state, prompted, abandoned, budgets>>

\* _wait_for_ilo() gives up after 90 s: the controller takes longer than that,
\* or it is never seen because its port is not 443.
ResetTimesOut(r) ==
  /\ reset[r] = "wait"
  /\ IF NatPort THEN UNCHANGED faults ELSE Fault("slow_boot")
  /\ ResetFails(r)
  /\ EventLoopFrame
  /\ UNCHANGED <<iloVars, lock, pc, prompted, clicks, stops>>

ResetStep(r) == SendReset(r) \/ ResetDone(r) \/ ResetTimesOut(r)

-----------------------------------------------------------------------------
(* The process: run(), and the shutdown of main().                          *)

MainFrame == UNCHANGED <<attempt, prompted, clicks>>

\* Mutant: the server waits for the first click.
BootWithoutConsole ==
  /\ proc = "down"
  /\ proc' = "running"
  /\ MainFrame
  /\ UNCHANGED <<iloVars, lock, pc, cookie, con, cur, state, fresh, ripe, reset,
                 abandoned, faults, stops>>

\* run() starts the console once.
Boot ==
  /\ proc = "down"
  /\ proc' = "running"
  /\ StartConsole
  /\ MainFrame
  /\ UNCHANGED <<iloVars, cookie, con, cur, state, fresh, ripe, reset, abandoned,
                 faults, stops>>

\* SIGINT or SIGTERM: the event loop ends and its tasks are cancelled.  Worker,
\* receiver and timer threads run on, and so does the executor's thread in which
\* a cancelled reset is, if it has been handed to it by then.
Stop ==
  /\ proc = "running"
  /\ stops > 0
  /\ stops' = stops - 1
  /\ proc' = "stopping"
  /\ \E R \in SUBSET Resets :
       reset' = [r \in Resets |-> IF r \in R THEN reset[r] ELSE "idle"]
  /\ MainFrame
  /\ UNCHANGED <<iloVars, lock, pc, cookie, con, cur, state, fresh, ripe, abandoned,
                 faults>>

\* main()'s finally: server.session.logout().  asyncio.run() comes to its end only
\* after it has joined the threads of the executor.
FinalLogout ==
  /\ proc = "stopping"
  /\ ~Resetting
  /\ proc' = "exiting"
  /\ LogoutRequest
  /\ MainFrame
  /\ UNCHANGED <<lock, pc, con, cur, state, fresh, ripe, reset, abandoned, stops>>

\* The process is gone, with its daemon threads and its sockets; the slots it
\* holds in the iLO2 are not.
Vanish ==
  /\ proc' = "down"
  /\ lock' = FALSE
  /\ pc' = [w \in Workers |-> "off"]
  /\ cookie' = None
  /\ con' = [c \in Consoles |-> "idle"]
  /\ cur' = None
  /\ state' = "idle"
  /\ fresh' = 0
  /\ ripe' = 0
  /\ reset' = [r \in Resets |-> "idle"]
  /\ abandoned' = FALSE
  /\ kvm' = None
  /\ eof' = {}
  /\ seizing' = {}
  /\ MainFrame
  /\ UNCHANGED <<up, pool, others, armed, stops>>

Exit == proc = "exiting" /\ Vanish /\ UNCHANGED faults

\* SIGKILL, power loss, an unhandled signal.
Crash == proc # "down" /\ Fault("crash") /\ Vanish

MainStep == Boot \/ FinalLogout \/ Exit

-----------------------------------------------------------------------------
(* The environment: the controller's own moves and the faults.              *)

Environment ==
  /\ \/ OtherUserLogsOut /\ UNCHANGED faults
     \/ ArmingExpires /\ Fault("arming_expires")
     \/ SlotTimesOut /\ Fault("slot_timeout")
     \/ OtherUserLogsIn /\ Fault("other_login")
     \/ KvmCloses /\ Fault("drop")
     \/ KvmVanishes /\ Fault("vanish")
     \/ KvmSeizedByOther /\ Fault("seize")
  /\ UNCHANGED <<serverVars, clicks, stops>>

\* Booting takes 30-60 s, longer than a worker's last statements.
IloBoots ==
  /\ Booted
  /\ NoLastStatements
  /\ UNCHANGED <<serverVars, budgets>>

Receiver(c) == SeizeReceived(c) \/ RecvLoopEnds(c)

Next ==
  \/ \E w \in Workers : WorkerStep(w)
  \/ \E c \in Consoles : Receiver(c)
  \/ DelayElapses
  \/ TimerFires
  \/ ClickStart
  \/ \E r \in Resets : ConfirmReset(r) \/ ResetStep(r)
  \/ MainStep
  \/ Stop
  \/ Crash
  \/ IloBoots
  \/ Environment

Spec == Init /\ [][Next]_vars

\* Threads are scheduled, timers expire, sockets deliver what is on its way,
\* requests return and a rebooted iLO2 comes back.  The steps that are time
\* passing are strongly fair: NoLastStatements delays them, it does not stop the
\* clock.  Nothing is assumed of the users, of signals or of the faults.
Fairness ==
  /\ \A w \in Workers : WF_vars(WorkerStep(w))
  /\ \A c \in Consoles : WF_vars(Receiver(c))
  /\ \A r \in Resets : WF_vars(ResetStep(r))
  /\ SF_vars(DelayElapses)
  /\ WF_vars(TimerFires)
  /\ WF_vars(MainStep)
  /\ SF_vars(IloBoots)

FairSpec == Spec /\ Fairness

-----------------------------------------------------------------------------
(* Properties.                                                              *)

\* The worker has not yet got its console: it is logging in or connecting.
Dialling(w) == pc[w] \in {"begin", "logout", "key", "token", "params", "connect"}

\* The current console streams: its thread reads what the iLO2 sends it.
Serving == cur # None /\ con[cur] = "live" /\ kvm = cur

RetryPending == fresh + ripe > 0

\* _connecting keeps two logins from stomping on each other's sessionkey: at
\* most one connect worker exists, whatever starts it (boot, click, timer,
\* reset), and the lock is held exactly while it does.
OneWorker ==
  /\ \A v, w \in Workers : Active(v) /\ Active(w) => v = w
  /\ lock <=> \E w \in Workers : Active(w)

\* A running process holds no web-session slot but the one it has the cookie
\* of, so it can always give it back.
OneSlot == proc # "down" => pool \subseteq {cookie}

\* The console is never given up silently: a running server without a worker
\* or a receiving console has a retry or a reset pending, or waits for its user
\* because the pool is exhausted or the reset he asked for failed.
Supervised ==
  /\ proc = "running"
  /\ ~lock
  /\ \A c \in Consoles : ~Receiving(c)
  /\ ~RetryPending
  /\ ~Resetting
  => state = "session_exhausted" \/ abandoned

\* "connected" is never a stale claim: the console it is about still has its
\* receiver thread, or the retry that will correct the claim is under way.
ConnectedIsBacked ==
  state = "connected" =>
    \/ cur # None /\ Receiving(cur)
    \/ RetryPending
    \/ \E w \in Workers : pc[w] = "begin"

\* Without clicks and seizures one duty is handed from worker to console to
\* timer and back: two of them at once are what makes reconnects chase each
\* other.
OneDuty ==
  \A c, d \in Consoles :
    /\ Receiving(c) /\ Receiving(d) => c = d
    /\ Receiving(c) => ~RetryPending /\ \A w \in Workers : ~Dialling(w)
    /\ RetryPending => fresh + ripe = 1 /\ \A w \in Workers : ~Dialling(w)

\* A console that streams is not replaced by a new one.
HealthyConsoleKept == [][Serving /\ proc' # "down" => cur' = cur]_vars

\* An exhausted pool is left to the user: nothing retries on its own.
ExhaustedParks == state = "session_exhausted" => ~RetryPending

\* A reset the iLO2 is rebooting for brings the console back, unless something
\* more goes wrong on the way or the server is stopped.
ResetRecovers ==
  \A r \in Resets :
    reset[r] = "wait" /\ ~up /\ faults = 0 ~> Serving \/ proc # "running"

\* Once the faults are over the console comes back and stays, unless the pool
\* is exhausted.
ComesBack == <>[](Serving \/ state = "session_exhausted")

-----------------------------------------------------------------------------
(* The abstract promise.                                                    *)

\* Who is in charge of the console.
CurrentDuty ==
  IF proc # "running" THEN "down"
  ELSE IF lock THEN "dialling"
  ELSE IF \E c \in Consoles : Receiving(c) THEN "streaming"
  ELSE IF RetryPending THEN "waiting"
  ELSE IF Resetting THEN "resetting"
  ELSE "parked"

Duty == INSTANCE ConsoleDuty
          WITH duty <- CurrentDuty,
               asked <- (state = "session_exhausted" \/ abandoned)

\* The server implements the promise of ConsoleDuty: whoever gives the console
\* up hands it over, and it is parked only with the user told.
FulfilsDuty == Duty!DutySpec

\* However requests fail, every attempt ends and leaves the lock free, and every
\* pending retry is made or superseded.
DutyProgress == Duty!DutyFairness

-----------------------------------------------------------------------------
(* What the documentation says and the code does not do.                    *)

\* A shutdown gives the slot back: a stopped process leaves none behind
\* (comment in main()).
NoSlotLeftBehind == proc = "down" => pool = {}
=============================================================================
