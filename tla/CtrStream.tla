----------------------------- MODULE CtrStream -----------------------------
(***************************************************************************)
(* The counter mode stream of a session, connection.py 195-284 and         *)
(* 376-494, with the inner messages of devices/status.py: notifications    *)
(* that are lost or come again, the filter of repeated frames, the receive *)
(* counter that every frame advances, the self-heal, and the two readers   *)
(* of what is decrypted, the observer of single frames and send_stream     *)
(* with split_inner_messages.                                              *)
(*                                                                         *)
(* text is what the device says in a session, before encryption, in cells  *)
(* of four bytes: a message is a run of cells that starts with its header, *)
(* and the device cuts the text into frames as it likes.  What has been    *)
(* decrypted is a sequence of places in text, 0 for a cell decrypted with  *)
(* a wrong block of the key stream, which is taken to be neither a header  *)
(* nor part of a message whose CRC holds.  Counters are counted from the   *)
(* handshake.  How a session is opened is in BleConnection: here it is up  *)
(* or not.  Only the classes with a reply header are meant.                *)
(***************************************************************************)
EXTENDS Integers, Sequences, FiniteSetsExt

CONSTANTS
  BlockLen,    \* cells of a cipher block
  Lengths,     \* lengths of messages, in cells
  MaxText,     \* bound: cells the device says in a session
  MaxFaults    \* bound: faults of the link in a session

ASSUME ConstantsAssumption ==
  /\ BlockLen \in Nat \ {0} /\ Lengths \subseteq Nat \ {0, 1}
  /\ MaxText \in Nat /\ MaxFaults \in Nat \ {0}

VARIABLES
  up,          \* is_connected and _handshaken
  text,        \* what the device has said in this session
  frames,      \* the frames it has sent
  at,          \* how many of them the link has delivered or lost
  rx,          \* _rx_ctr
  last,        \* _last_rx_frame, its place in frames or 0
  buffered,    \* Len(_notif_buf), up to 2
  pt,          \* _notif_pt, joined
  heal,        \* a disconnect is scheduled
  op,          \* the call whose answer is drained
  since,       \* messages said before its request
  heard,       \* history: what the observer has applied
  streamed,    \* history: what send_stream has returned
  faults,      \* history: faults of the link in this session
  torn         \* history: the buffer was cleared amid a message

device  == <<text, frames>>
reader  == <<rx, last, buffered, pt, heal>>
call    == <<op, since>>
history == <<heard, streamed, faults, torn>>
vars    == <<up, device, at, reader, call, history>>

Cells  == [msg : Nat \ {0}, part : Nat \ {0}, of : Nat \ {0, 1}]
Frames == [ctr : Nat, from : Nat \ {0}, to : Nat \ {0}]

(* The variables take values of these sets; streamed is in IsDelivery.     *)
TypeOK ==
  /\ up \in BOOLEAN /\ heal \in BOOLEAN /\ torn \in BOOLEAN
  /\ text \in Seq(Cells) /\ frames \in Seq(Frames)
  /\ at \in 0 .. Len(frames) /\ last \in 0 .. at
  /\ rx \in Nat /\ buffered \in 0 .. 2
  /\ pt \in Seq(0 .. Len(text))
  /\ op \in {"none", "send", "stream"} /\ since \in Nat
  /\ heard \in Seq(Nat)
  /\ faults \in 0 .. MaxFaults

Init ==
  /\ up = FALSE /\ text = <<>> /\ frames = <<>> /\ at = 0
  /\ rx = 0 /\ last = 0 /\ buffered = 0 /\ pt = <<>> /\ heal = FALSE
  /\ op = "none" /\ since = 0
  /\ heard = <<>> /\ streamed = <<>> /\ faults = 0 /\ torn = FALSE

-----------------------------------------------------------------------------
(* The text, its frames and what is read of them. *)

Messages  == IF text = <<>> THEN 0 ELSE text[Len(text)].msg
SentTo(n) == IF n = 0 THEN 0 ELSE frames[n].to
Blocks(f) == (f.to - f.from + BlockLen) \div BlockLen

DeviceCtr ==
  IF frames = <<>> THEN 0
  ELSE frames[Len(frames)].ctr + Blocks(frames[Len(frames)])

(* The link is amid a message: what comes next does not start with a       *)
(* header.                                                                 *)
UnderWay ==
  SentTo(at) > 0 /\ text[SentTo(at)].part # text[SentTo(at)].of

IsHeader(p) == p # 0 /\ text[p].part = 1

(* The places that f decrypts to at counter c.                             *)
decrypt(f, c) ==
  [j \in 1 .. f.to - f.from + 1 |-> IF f.ctr = c THEN f.from + j - 1 ELSE 0]

(* The message of s at i, if it is all there and has its CRC.              *)
decode_inner(s, i) ==
  IF /\ IsHeader(s[i])
     /\ i + text[s[i]].of - 1 <= Len(s)
     /\ \A j \in 1 .. text[s[i]].of - 1 : s[i + j] = s[i] + j
  THEN <<text[s[i]].msg>> ELSE <<>>

(* What the scan of s from place i on may find, where from[j] is what it   *)
(* may find from place j on.  The length of a message is in its second     *)
(* cell; when that is not the one that belongs to the header, the scan may *)
(* skip to any place after it, or stop.                                    *)
Scan(s, from, i) ==
  LET heads == {h \in i .. Len(s) - 1 : IsHeader(s[h])}
      h == Min(heads)
      n == text[s[h]].of
  IN IF heads = {} THEN {<<>>}
     ELSE IF s[h + 1] # s[h] + 1
     THEN {<<>>} \cup UNION {from[j] : j \in h + 2 .. Len(s) + 1}
     ELSE IF h + n > Len(s) + 1 THEN {<<>>}
     ELSE {decode_inner(s, h) \o r : r \in from[h + n]}

split_inner_messages(s) ==
  LET from[i \in 1 .. Len(s) + 1] == Scan(s, from, i) IN from[1]

-----------------------------------------------------------------------------
(* The connection. *)

(* A new session, first with the filter left as it was (a mutant).  A      *)
(* disconnect scheduled in the session before may still hit it, and counts *)
(* as a fault of the link.                                                 *)
HandshakeKeepsLast ==
  /\ up' = TRUE
  /\ text' = <<>> /\ frames' = <<>> /\ at' = 0
  /\ rx' = 0 /\ UNCHANGED last
  /\ heard' = <<>> /\ streamed' = <<>>
  /\ faults' = IF heal THEN 1 ELSE 0
  /\ torn' = FALSE

_handshake ==
  /\ up' = TRUE
  /\ text' = <<>> /\ frames' = <<>> /\ at' = 0
  /\ rx' = 0 /\ last' = 0
  /\ heard' = <<>> /\ streamed' = <<>>
  /\ faults' = IF heal THEN 1 ELSE 0
  /\ torn' = FALSE

(* send and send_stream, up to the drain: a session is opened if there is  *)
(* none, what an earlier call left is cleared, the request is written.     *)
Send(o) ==
  /\ op = "none"
  /\ op' = o
  /\ buffered' = 0 /\ pt' = <<>>
  /\ \/ /\ up
        /\ since' = Messages
        /\ torn' = (torn \/ UnderWay)
        /\ UNCHANGED <<up, device, at, rx, last, heard, streamed, faults>>
     \/ /\ ~up
        /\ _handshake
        /\ since' = 0
  /\ UNCHANGED heal

(* A frame is decrypted at counter c, and the observer sees it.            *)
Takes(i, c) ==
  /\ last' = i
  /\ buffered' = IF buffered = 2 THEN 2 ELSE buffered + 1
  /\ rx' = c + Blocks(frames[i])
  /\ heard' = heard \o decode_inner(decrypt(frames[i], c), 1)

BadHeader(i) == ~IsHeader(decrypt(frames[i], rx)[1])

(* Mutants: no filter of repeated frames; a repeated frame decrypted once  *)
(* more, where it was; continuation frames left out of the stream; a       *)
(* self-heal for any frame without a header.                               *)
NotifyUnfiltered(i) ==
  /\ Takes(i, rx)
  /\ pt' = pt \o decrypt(frames[i], rx)
  /\ heal' = (heal \/ (BadHeader(i) /\ buffered = 0))

NotifyTwice(i) ==
  LET c == IF i = last THEN rx - Blocks(frames[i]) ELSE rx
  IN Takes(i, c) /\ pt' = pt \o decrypt(frames[i], c) /\ heal' = heal

NotifyHeadersOnly(i) ==
  IF i = last THEN UNCHANGED <<reader, heard>>
  ELSE
    /\ Takes(i, rx)
    /\ pt' = IF BadHeader(i) THEN pt ELSE pt \o decrypt(frames[i], rx)
    /\ heal' = (heal \/ (BadHeader(i) /\ buffered = 0))

NotifyHealsAlways(i) ==
  IF i = last THEN UNCHANGED <<reader, heard>>
  ELSE
    /\ Takes(i, rx)
    /\ pt' = pt \o decrypt(frames[i], rx)
    /\ heal' = (heal \/ BadHeader(i))

(* Frame number i arrives.                                                 *)
_on_notify(i) ==
  IF i = last THEN UNCHANGED <<reader, heard>>
  ELSE
    /\ Takes(i, rx)
    /\ pt' = pt \o decrypt(frames[i], rx)
    /\ heal' = (heal \/ (BadHeader(i) /\ buffered = 0))

(* The drain of a call ends, at a pause or at its limit.                   *)
DrainEnds ==
  /\ op # "none"
  /\ op' = "none"
  /\ buffered' = 0
  /\ torn' = (torn \/ UnderWay)
  /\ \/ /\ op = "send"
        /\ UNCHANGED <<pt, streamed>>
     \/ /\ op = "stream"
        /\ pt' = <<>>
        /\ \E r \in split_inner_messages(pt) : streamed' = streamed \o r
  /\ UNCHANGED <<up, device, at, rx, last, heal, since, heard, faults>>

(* What disconnect does; who calls it differs.                             *)
Disconnect ==
  /\ up' = FALSE
  /\ last' = 0 /\ pt' = <<>>
  /\ UNCHANGED <<device, at, rx, buffered, call, history>>

disconnect == up /\ op = "none" /\ Disconnect /\ UNCHANGED heal
Heal       == heal /\ heal' = FALSE /\ Disconnect

-----------------------------------------------------------------------------
(* The device and the link. *)

(* A message, asked for or not.                                            *)
Says(n) ==
  /\ up
  /\ Len(text) + n <= MaxText
  /\ text' = text \o [j \in 1 .. n |-> [msg |-> Messages + 1, part |-> j, of |-> n]]
  /\ UNCHANGED <<up, frames, at, reader, call, history>>

(* A frame of n cells, of one message or of several.                       *)
SendsFrame(n) ==
  /\ up
  /\ SentTo(Len(frames)) + n <= Len(text)
  /\ frames' = Append(frames, [ctr  |-> DeviceCtr,
                               from |-> SentTo(Len(frames)) + 1,
                               to   |-> SentTo(Len(frames)) + n])
  /\ UNCHANGED <<up, text, at, reader, call, history>>

Delivers ==
  /\ up
  /\ at < Len(frames)
  /\ at' = at + 1
  /\ _on_notify(at + 1)
  /\ UNCHANGED <<up, device, call, streamed, faults, torn>>

Loses ==
  /\ up
  /\ at < Len(frames)
  /\ at' = at + 1
  /\ faults < MaxFaults /\ faults' = faults + 1
  /\ UNCHANGED <<up, device, reader, call, heard, streamed, torn>>

(* A frame comes again, or one that was lost comes late.  It is a fault    *)
(* but for the one that came last.                                         *)
Repeats(i) ==
  /\ up
  /\ \/ i = last /\ UNCHANGED faults
     \/ i # last /\ faults < MaxFaults /\ faults' = faults + 1
  /\ _on_notify(i)
  /\ UNCHANGED <<up, device, at, call, streamed, torn>>

LinkDrops ==
  /\ up
  /\ up' = FALSE
  /\ UNCHANGED <<device, at, reader, call, history>>

Next ==
  \/ \E o \in {"send", "stream"} : Send(o)
  \/ DrainEnds
  \/ disconnect
  \/ Heal
  \/ \E n \in Lengths : Says(n)
  \/ \E n \in 1 .. MaxText : SendsFrame(n)
  \/ Delivers
  \/ Loses
  \/ \E i \in 1 .. at : Repeats(i)
  \/ LinkDrops

Spec == Init /\ [][Next]_vars

-----------------------------------------------------------------------------
(* Properties. *)

(* What the observer applies to the state, and what send_stream hands to   *)
(* the program reader, are messages of this session, each of them once and *)
(* in their order, whatever the link loses, repeats or delays.             *)
Heard    == INSTANCE Delivery WITH sent <- Messages, got <- heard
Streamed == INSTANCE Delivery WITH sent <- Messages, got <- streamed

IsDelivery == Heard!Spec /\ Streamed!Spec

(* While the link has lost nothing and repeated at most the frame that     *)
(* came last, send_stream returns every message that the device said since *)
(* the request and that the link delivered whole, however it was cut into  *)
(* frames and whatever of an earlier message came first.                   *)
WholeReply ==
  [][op = "stream" /\ op' = "none" /\ up /\ faults = 0
     => \A i \in 1 .. SentTo(at) :
          text[i].part = text[i].of /\ text[i].msg > since
          => \E k \in DOMAIN streamed' : streamed'[k] = text[i].msg]_vars

(* A session is torn down for a bad header only if the link has erred in   *)
(* it, or if the buffer was cleared while a message was on its way.        *)
HealIsMeant == heal /\ up /\ faults = 0 => torn

(* The receive counter is the one that the next frame is encrypted with,   *)
(* as long as the link has not erred.                                      *)
InStep ==
  up /\ faults = 0 =>
    rx = IF at < Len(frames) THEN frames[at + 1].ctr ELSE DeviceCtr

=============================================================================
