-------------------------- MODULE MCProtobufDevice --------------------------
EXTENDS ProtobufDevice

Environment(losses, others, notices, durations, delays) ==
  [losses |-> losses, others |-> others, notices |-> notices,
   durations |-> durations, delays |-> delays]

(* A link that loses anything and another commander; a link that loses     *)
(* nothing, with volunteered notifications and timers told apart.          *)
Links == {Environment(TRUE, TRUE, FALSE, {1}, {1}),
          Environment(FALSE, FALSE, TRUE, {1, 3}, {1, 2})}

LossyLink == {Environment(TRUE, FALSE, FALSE, {2}, {1})}
QuietLink == {Environment(FALSE, FALSE, FALSE, {2}, {1})}
=============================================================================
