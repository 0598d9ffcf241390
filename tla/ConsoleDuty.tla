----------------------------- MODULE ConsoleDuty -----------------------------
(***************************************************************************)
(* What WebServer promises about its console, whatever the iLO2 does: while *)
(* the server runs, somebody is always in charge of the console -- a worker *)
(* dialling it, the console streaming, a retry or a reset that waits -- or   *)
(* it is parked, and then its user was told why and has to act.             *)
(***************************************************************************)
VARIABLES duty,   \* who is in charge
          asked   \* the user was told that it is up to him

dutyVars == <<duty, asked>>

Duties == {"down", "dialling", "streaming", "waiting", "resetting", "parked"}

DutyInit == duty = "down" /\ asked = FALSE

\* Starting the server dials; so does a click, a retry or a finished reset.
Dial ==
  /\ duty # "dialling"
  /\ duty' = "dialling"
  /\ asked' \in BOOLEAN

\* An attempt ends with a console, with a retry to come, or up to the user.
Settle ==
  /\ duty = "dialling"
  /\ duty' \in {"streaming", "waiting", "resetting", "parked"}
  /\ asked' \in BOOLEAN
  /\ duty' = "parked" => asked'

\* A console that stops streaming leaves a retry behind.
LoseConsole ==
  /\ duty = "streaming"
  /\ duty' = "waiting"
  /\ asked' \in BOOLEAN

ConfirmReset ==
  /\ duty = "parked"
  /\ duty' = "resetting"
  /\ asked' \in BOOLEAN

GiveUpReset ==
  /\ duty = "resetting"
  /\ duty' = "parked"
  /\ asked' = TRUE

ShutDown ==
  /\ duty # "down"
  /\ duty' = "down"
  /\ asked' \in BOOLEAN

\* What the user is told may change while the duty does not, except that a
\* parked console stays explained.
Inform ==
  /\ duty' = duty
  /\ asked' \in BOOLEAN
  /\ duty = "parked" => asked'

DutyNext == Dial \/ Settle \/ LoseConsole \/ ConfirmReset \/ GiveUpReset
            \/ ShutDown \/ Inform

DutySpec == DutyInit /\ [][DutyNext]_dutyVars

\* Attempts end and retries are made.
DutyFairness ==
  /\ WF_dutyVars(Settle)
  /\ WF_dutyVars(duty = "waiting" /\ Dial)

DutyFairSpec == DutySpec /\ DutyFairness
=============================================================================
