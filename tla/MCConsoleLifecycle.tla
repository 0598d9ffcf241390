------------------------- MODULE MCConsoleLifecycle -------------------------
(* Instances of ConsoleLifecycle for TLC.                                   *)
EXTENDS ConsoleLifecycle, TLC

Symmetry == Permutations(Workers) \cup Permutations(Cookies)
            \cup Permutations(Consoles)

\* The iLO2 hands the console over to the newcomer, with or without telling
\* the old client, or turns the newcomer away.
AnyPolicy == {"seize", "close", "keep"}

\* Faults that lose no request: the network is slow but reliable.
ReliableFaults == {"arming_expires", "slot_timeout", "other_login", "drop", "seize"}

AllFaults == ReliableFaults \cup {"lose_request", "lose_reply", "slow_boot", "vanish",
                                  "crash"}

\* What happens to a server nobody touches: no seizure, and every lost
\* connection is noticed.
UnattendedFaults == (AllFaults \ {"seize", "vanish", "slow_boot"})
=============================================================================
