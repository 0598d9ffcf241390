--------------------------- MODULE IloController ---------------------------
(***************************************************************************)
(* The HP iLO2 management processor, as ILO2Remastered drives it.  The     *)
(* firmware is external: what it answers is modelled from how ilo2/ uses   *)
(* it and from what docs/PROTOCOL.md and docs/DEVELOPMENT.md observed.      *)
(*                                                                         *)
(*   - a tiny pool of web-session slots; a slot is named by the cookie     *)
(*     that holds it;                                                      *)
(*   - a KVM port that accepts one connection after /drc2fram.htm armed it; *)
(*   - at most one active KVM connection.                                  *)
(*                                                                         *)
(* Definitions with primed variables are fragments the composing module    *)
(* conjoins with the program's half of the exchange.                       *)
(***************************************************************************)
EXTENDS Naturals, FiniteSets

CONSTANTS Cookies,     \* session cookies the iLO2 may hand to this program
          Consoles,    \* KVM connections this program may open
          PoolSize,    \* web-session slots of the firmware
          BusyPolicy,  \* what a KVM login does while another is active
          None

ASSUME NoneAssumption == None \notin Cookies /\ None \notin Consoles
ASSUME CookiesAssumption == IsFiniteSet(Cookies)
ASSUME PoolAssumption == PoolSize \in Nat
ASSUME PolicyAssumption == BusyPolicy \subseteq {"seize", "close", "keep"}

VARIABLES up,       \* the controller answers on its ports
          pool,     \* cookies of this program whose slot is taken
          others,   \* slots taken by other users
          armed,    \* the KVM port accepts one connection
          kvm,      \* the active KVM connection, or None
          eof,      \* connections whose end-of-stream is on its way
          seizing   \* connections whose "seize" command is on its way

iloVars == <<up, pool, others, armed, kvm, eof, seizing>>

IloTypeOK ==
  /\ up \in BOOLEAN
  /\ pool \subseteq Cookies
  /\ others \in 0..PoolSize
  /\ armed \in BOOLEAN
  /\ kvm \in Consoles \cup {None}
  /\ eof \subseteq Consoles
  /\ seizing \subseteq Consoles

IloInit ==
  /\ up = TRUE
  /\ pool = {}
  /\ others \in 0..PoolSize
  /\ armed = FALSE
  /\ kvm = None
  /\ eof = {}
  /\ seizing = {}

\* GET / answers sessionkey="NONEAVAILABLE".
PoolFull == Cardinality(pool) + others >= PoolSize

\* GET /index.htm with a login token: a free slot and a cookie for it.
GrantSlot(k) ==
  /\ ~PoolFull
  /\ pool' = pool \cup {k}
  /\ UNCHANGED <<up, others, armed, kvm, eof, seizing>>

\* GET /logout.htm with the cookie of a slot.
ReleaseSlot(k) ==
  /\ pool' = pool \ {k}
  /\ UNCHANGED <<up, others, armed, kvm, eof, seizing>>

\* GET /drc2fram.htm?restart=1 within a live session opens the KVM port.
ArmKvm ==
  /\ armed' = TRUE
  /\ UNCHANGED <<up, pool, others, kvm, eof, seizing>>

\* The armed port accepts connection c and closes again.  While another
\* connection is active the newcomer either takes the console over -- the old
\* one is told ("seize") or merely closed -- or is turned away ("keep").
AcceptKvm(c) ==
  /\ up
  /\ armed
  /\ armed' = FALSE
  /\ UNCHANGED <<up, pool, others>>
  /\ \/ kvm = None /\ kvm' = c /\ UNCHANGED <<eof, seizing>>
     \/ /\ kvm # None
        /\ \/ /\ "seize" \in BusyPolicy
              /\ kvm' = c /\ seizing' = seizing \cup {kvm} /\ UNCHANGED eof
           \/ /\ "close" \in BusyPolicy
              /\ kvm' = c /\ eof' = eof \cup {kvm} /\ UNCHANGED seizing
           \/ /\ "keep" \in BusyPolicy
              /\ eof' = eof \cup {c} /\ UNCHANGED <<kvm, seizing>>

\* RESET_RIB: every web session and the KVM connection are gone, and the
\* controller is unreachable until it has booted.
Reboot ==
  /\ up' = FALSE
  /\ pool' = {}
  /\ others' = 0
  /\ armed' = FALSE
  /\ kvm' = None
  /\ eof' = eof \cup ({kvm} \ {None})
  /\ UNCHANGED seizing

Booted ==
  /\ ~up
  /\ up' = TRUE
  /\ UNCHANGED <<pool, others, armed, kvm, eof, seizing>>

-----------------------------------------------------------------------------
(* What happens to the controller without this program asking for it.       *)

ArmingExpires ==
  /\ armed
  /\ armed' = FALSE
  /\ UNCHANGED <<up, pool, others, kvm, eof, seizing>>

SlotTimesOut ==
  /\ \E k \in pool : pool' = pool \ {k}
  /\ UNCHANGED <<up, others, armed, kvm, eof, seizing>>

OtherUserLogsIn ==
  /\ up
  /\ ~PoolFull
  /\ others' = others + 1
  /\ UNCHANGED <<up, pool, armed, kvm, eof, seizing>>

OtherUserLogsOut ==
  /\ others > 0
  /\ others' = others - 1
  /\ UNCHANGED <<up, pool, armed, kvm, eof, seizing>>

\* The active connection is closed and its socket will read end-of-stream.
KvmCloses ==
  /\ kvm # None
  /\ kvm' = None
  /\ eof' = eof \cup {kvm}
  /\ UNCHANGED <<up, pool, others, armed, seizing>>

\* The active connection is gone and nothing will ever reach its socket
\* (power loss, a NAT entry or a cable that vanished).
KvmVanishes ==
  /\ kvm # None
  /\ kvm' = None
  /\ UNCHANGED <<up, pool, others, armed, eof, seizing>>

\* Another client takes the console over (its own stay is not tracked).
KvmSeizedByOther ==
  /\ kvm # None
  /\ kvm' = None
  /\ seizing' = seizing \cup {kvm}
  /\ UNCHANGED <<up, pool, others, armed, eof>>

\* The program's end of connection c is closed.
HangUp(c) ==
  /\ kvm' = IF kvm = c THEN None ELSE kvm
  /\ eof' = eof \ {c}
  /\ seizing' = seizing \ {c}
  /\ UNCHANGED <<up, pool, others, armed>>
=============================================================================
