------------------------------ MODULE Delivery ------------------------------
(***************************************************************************)
(* What a reader of an encrypted session relies on: the messages it gets   *)
(* are messages the device sent in that session, in the order they were    *)
(* sent and each of them once.  Any of them may be missing.  The messages  *)
(* of a session are numbered as they are sent.                             *)
(***************************************************************************)
EXTENDS Integers, Sequences

VARIABLES
  sent,    \* messages sent in this session
  got      \* the messages got, by number

Rising(s) == \A i, j \in DOMAIN s : i < j => s[i] < s[j]

Init == sent = 0 /\ got = <<>>

Sends == sent' > sent /\ got' = got

Gets ==
  /\ sent' = sent
  /\ Len(got') > Len(got) /\ SubSeq(got', 1, Len(got)) = got
  /\ Rising(got') /\ \A i \in DOMAIN got' : got'[i] \in 1 .. sent

NewSession == sent' = 0 /\ got' = <<>>

Next == Sends \/ Gets \/ NewSession

Spec == Init /\ [][Next]_<<sent, got>>
=============================================================================
