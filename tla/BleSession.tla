------------------------------ MODULE BleSession ------------------------------
(***************************************************************************)
(* What the connection of connection.py promises to the device classes     *)
(* about its one session: writes arm the idle timer, a hold keeps it       *)
(* disarmed and is backed by a timer of its own, and a hold on a session   *)
(* that stays open ends by arming the idle timer.  BleConnection           *)
(* implements it; HT25Device is written against it.                        *)
(***************************************************************************)
VARIABLES
  open,     \* the session is up and nobody is closing it
  held,     \* is_held
  expiry,   \* the backstop of the hold is pending
  idle      \* the idle timer is pending

timer    == <<held, expiry, idle>>
session  == <<open, timer>>

SessionInit ==
  open = FALSE /\ held = FALSE /\ expiry = FALSE /\ idle = FALSE

Opens == open' = TRUE /\ UNCHANGED timer
Drops == open' = FALSE /\ UNCHANGED timer

(* A frame has been written and its answer drained. *)
Writes == idle' = (idle \/ ~held) /\ UNCHANGED <<open, held, expiry>>

Holds == held' = TRUE /\ expiry' = TRUE /\ idle' = FALSE /\ UNCHANGED open

Releases ==
  /\ held' = FALSE /\ expiry' = FALSE
  /\ idle' = (idle \/ held)
  /\ UNCHANGED open

Closes == open' = FALSE /\ held' = FALSE /\ expiry' = FALSE /\ idle' = FALSE

IdleFires == idle /\ idle' = FALSE /\ UNCHANGED <<open, held, expiry>>

SessionNext ==
  Opens \/ Drops \/ Writes \/ Holds \/ Releases \/ Closes \/ IdleFires

SessionSpec == SessionInit /\ [][SessionNext]_session
===============================================================================
