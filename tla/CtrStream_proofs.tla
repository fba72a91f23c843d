-------------------------- MODULE CtrStream_proofs --------------------------
(***************************************************************************)
(* Proofs about CtrStream for every block length, every set of message     *)
(* lengths and every bound.                                                *)
(***************************************************************************)
EXTENDS CtrStream, SequenceTheorems, WellFoundedInduction, TLAPS

(* Messages are numbered as they are said, and only their first cell is a  *)
(* header.                                                                 *)
TextInv ==
  /\ \A i \in DOMAIN text : text[i].msg <= Messages
  /\ \A i, j \in DOMAIN text :
       i < j /\ text[j].part = 1 => text[i].msg < text[j].msg
  /\ \A i \in DOMAIN text :
       i = 1 \/ text[i - 1].part = text[i - 1].of => text[i].part = 1

(* The frames follow each other in the text and in the key stream.         *)
FrameInv ==
  /\ \A i \in DOMAIN frames :
       /\ frames[i].from <= frames[i].to /\ frames[i].to <= Len(text)
       /\ frames[i].from = SentTo(i - 1) + 1
       /\ i + 1 \in DOMAIN frames =>
            frames[i + 1].ctr = frames[i].ctr + Blocks(frames[i])
  /\ \A i, j \in DOMAIN frames :
       i < j => frames[i].ctr < frames[j].ctr /\ frames[i].to < frames[j].from

(* What was heard was in a frame below the receive counter.                *)
HeardInv ==
  /\ Heard!Rising(heard)
  /\ \A h \in DOMAIN heard : \E i \in DOMAIN frames :
       frames[i].ctr < rx /\ heard[h] = text[frames[i].from].msg

(* A cleared buffer means that a header comes next.                        *)
ClearInv == up /\ faults = 0 /\ buffered = 0 => torn \/ ~UnderWay

IInv == TypeOK /\ TextInv /\ FrameInv /\ HeardInv /\ InStep /\ ClearInv /\ HealIsMeant

-----------------------------------------------------------------------------
(* Operators. *)

(* A frame takes at least one block of the key stream.                     *)
LEMMA BlocksPositive ==
  ASSUME NEW f \in Frames, f.from <= f.to
  PROVE  Blocks(f) \in Nat \ {0}
<1> DEFINE n == f.to - f.from
<1>1. n \in Nat BY DEF Frames
<1>2. BlockLen \in Nat \ {0} BY ConstantsAssumption
<1>3. (n + BlockLen) \div BlockLen \in Nat \ {0}
  <2> HIDE DEF n
  <2> QED BY <1>1, <1>2, SMTT(30)
<1> QED BY <1>3 DEF Blocks, n

(* The types of the operators on the text and its frames.                  *)
LEMMA OperatorsTyped ==
  ASSUME TypeOK, FrameInv
  PROVE  /\ Messages \in Nat /\ DeviceCtr \in Nat
         /\ \A n \in 0 .. Len(frames) : SentTo(n) \in 0 .. Len(text)
         /\ \A i \in DOMAIN frames : Blocks(frames[i]) \in Nat \ {0}
<1>1. ASSUME NEW i \in DOMAIN frames
      PROVE  Blocks(frames[i]) \in Nat \ {0}
  <2>1. frames[i] \in Frames BY DEF TypeOK
  <2>2. frames[i].from <= frames[i].to BY DEF FrameInv
  <2> QED BY <2>1, <2>2, BlocksPositive
<1>2. Messages \in Nat
  <2>1. CASE text = <<>> BY <2>1 DEF Messages
  <2>2. CASE text # <<>>
    <3>1. text[Len(text)] \in Cells BY <2>2 DEF TypeOK
    <3> QED BY <3>1, <2>2 DEF Messages, Cells
  <2> QED BY <2>1, <2>2
<1>3. DeviceCtr \in Nat
  <2>1. CASE frames = <<>> BY <2>1 DEF DeviceCtr
  <2>2. CASE frames # <<>>
    <3>1. Len(frames) \in DOMAIN frames BY <2>2 DEF TypeOK
    <3>2. frames[Len(frames)] \in Frames BY <3>1 DEF TypeOK
    <3>3. frames[Len(frames)].ctr \in Nat BY <3>2 DEF Frames
    <3> QED BY <1>1, <3>1, <3>3, <2>2 DEF DeviceCtr
  <2> QED BY <2>1, <2>2
<1>4. ASSUME NEW n \in 0 .. Len(frames)
      PROVE  SentTo(n) \in 0 .. Len(text)
  <2>1. CASE n = 0 BY <2>1 DEF SentTo, TypeOK
  <2>2. CASE n # 0
    <3>1. n \in DOMAIN frames BY <2>2 DEF TypeOK
    <3>2. frames[n] \in Frames BY <3>1 DEF TypeOK
    <3>3. frames[n].to <= Len(text) BY <3>1 DEF FrameInv
    <3>4. frames[n].to \in Nat BY <3>2 DEF Frames
    <3>5. SentTo(n) = frames[n].to BY <2>2 DEF SentTo
    <3> QED BY <3>3, <3>4, <3>5
  <2> QED BY <2>1, <2>2
<1> QED BY <1>1, <1>2, <1>3, <1>4

(* A frame decrypts to as many places as it has cells, in step to its own. *)
LEMMA DecryptTyped ==
  ASSUME TypeOK, FrameInv, NEW i \in DOMAIN frames, NEW c \in Nat
  PROVE  LET p == decrypt(frames[i], c)
         IN /\ p \in Seq(0 .. Len(text)) /\ Len(p) >= 1
            /\ p[1] = IF frames[i].ctr = c THEN frames[i].from ELSE 0
<1> DEFINE f == frames[i]
           n == f.to - f.from + 1
           p == decrypt(f, c)
<1>1. f \in Frames /\ f.from <= f.to /\ f.to <= Len(text) /\ Len(text) \in Nat
  BY DEF TypeOK, FrameInv
<1>2. n \in Nat /\ n >= 1
  BY <1>1 DEF Frames
<1>3. p = [j \in 1 .. n |-> IF f.ctr = c THEN f.from + j - 1 ELSE 0]
  BY DEF decrypt
<1>4. \A j \in 1 .. n : (IF f.ctr = c THEN f.from + j - 1 ELSE 0) \in 0 .. Len(text)
  BY <1>1, <1>2 DEF Frames
<1>5. p \in Seq(0 .. Len(text)) /\ Len(p) = n
  <2> HIDE DEF n, p
  <2>1. p \in [1 .. n -> 0 .. Len(text)] BY <1>3, <1>4
  <2> QED BY <2>1, <1>2
<1>6. p[1] = IF f.ctr = c THEN f.from ELSE 0
  <2> HIDE DEF n
  <2>1. p[1] = IF f.ctr = c THEN f.from + 1 - 1 ELSE 0 BY <1>2, <1>3
  <2> QED BY <2>1, <1>1 DEF Frames
<1> QED BY <1>2, <1>5, <1>6

(* The observer gets at most the message that the first cell starts.       *)
LEMMA DecodeTyped ==
  ASSUME TypeOK, NEW s \in Seq(0 .. Len(text)), Len(s) >= 1
  PROVE  \/ decode_inner(s, 1) = <<>>
         \/ /\ IsHeader(s[1])
            /\ text[s[1]].msg \in Nat
            /\ decode_inner(s, 1) = <<text[s[1]].msg>>
<1>1. CASE ~IsHeader(s[1]) BY <1>1 DEF decode_inner
<1>2. CASE IsHeader(s[1])
  <2>1. s[1] \in DOMAIN text BY <1>2 DEF IsHeader, TypeOK
  <2>2. text[s[1]] \in Cells BY <2>1 DEF TypeOK
  <2>3. text[s[1]].msg \in Nat BY <2>2 DEF Cells
  <2> QED BY <1>2, <2>3 DEF decode_inner
<1> QED BY <1>1, <1>2

-----------------------------------------------------------------------------
(* Steps of the device. *)

LEMMA SaysKeeps ==
  ASSUME IInv, NEW n \in Lengths, Says(n)
  PROVE  IInv' /\ Messages' = Messages + 1 /\ Messages \in Nat
<1> DEFINE m == [j \in 1 .. n |-> [msg |-> Messages + 1, part |-> j, of |-> n]]
           L == Len(text)
<1>1. n \in Nat /\ n >= 2 /\ Messages \in Nat /\ L \in Nat
  BY ConstantsAssumption, OperatorsTyped DEF IInv, TypeOK
<1>2. m \in Seq(Cells) /\ Len(m) = n
  <2>1. \A j \in 1 .. n : [msg |-> Messages + 1, part |-> j, of |-> n] \in Cells
    BY <1>1 DEF Cells
  <2>2. m \in [1 .. n -> Cells] BY <2>1
  <2> HIDE DEF m
  <2> QED BY <1>1, <2>2
<1>3. text' = text \o m /\ text \in Seq(Cells)
  BY DEF Says, IInv, TypeOK
<1>4. /\ text' \in Seq(Cells) /\ Len(text') = L + n
      /\ \A i \in 1 .. L : text'[i] = text[i]
      /\ \A i \in L + 1 .. L + n : text'[i] = m[i - L]
  <2> HIDE DEF m
  <2>1. /\ text \o m \in Seq(Cells) /\ Len(text \o m) = Len(text) + Len(m)
        /\ \A i \in 1 .. Len(text) + Len(m) : (text \o m)[i] =
                       IF i <= Len(text) THEN text[i] ELSE m[i - Len(text)]
    BY <1>2, <1>3, ConcatProperties
  <2> QED BY <1>1, <1>2, <1>3, <2>1
<1>5. \A i \in L + 1 .. L + n :
        text'[i].msg = Messages + 1 /\ text'[i].part = i - L /\ text'[i].of = n
  <2> TAKE i \in L + 1 .. L + n
  <2>1. i - L \in 1 .. n BY <1>1
  <2>2. m[i - L] = [msg |-> Messages + 1, part |-> i - L, of |-> n] BY <2>1
  <2> QED BY <2>2, <1>4
<1> HIDE DEF m
<1>6. Messages' = Messages + 1
  <2>1. text' # <<>> /\ L + n \in L + 1 .. L + n BY <1>1, <1>4
  <2>2. text'[Len(text')].msg = Messages + 1 BY <2>1, <1>4, <1>5
  <2> QED BY <2>1, <2>2 DEF Messages
<1>7. DOMAIN text = 1 .. L /\ DOMAIN text' = 1 .. L + n
  BY <1>3, <1>4
<1>8. UNCHANGED <<up, frames, at, reader, call, history>>
  BY DEF Says
<1>9. TypeOK'
  <2>1. pt \in Seq(0 .. L) /\ 0 .. L \subseteq 0 .. Len(text')
    BY <1>1, <1>4 DEF IInv, TypeOK
  <2>2. pt' \in Seq(0 .. Len(text'))
    BY <2>1, <1>8, SeqMonotonic DEF reader
  <2>3. /\ frames' \in Seq(Frames) /\ at' \in 0 .. Len(frames') /\ last' \in 0 .. at'
        /\ rx' \in Nat /\ buffered' \in 0 .. 2 /\ up' \in BOOLEAN
        /\ heal' \in BOOLEAN
    BY <1>8 DEF IInv, TypeOK, reader
  <2>4. /\ op' \in {"none", "send", "stream"} /\ since' \in Nat
        /\ heard' \in Seq(Nat) /\ faults' \in 0 .. MaxFaults /\ torn' \in BOOLEAN
    BY <1>8 DEF IInv, TypeOK, call, history
  <2> QED BY <1>4, <2>2, <2>3, <2>4 DEF TypeOK
<1>10. TextInv'
  <2>1. \A i \in DOMAIN text : text[i].msg <= Messages /\ text[i].msg \in Nat
    <3> TAKE i \in DOMAIN text
    <3>1. text[i] \in Cells BY <1>3
    <3> QED BY <3>1 DEF IInv, TextInv, Cells
  <2>2. \A i \in DOMAIN text' : text'[i].msg <= Messages'
    BY <1>1, <1>4, <1>5, <1>6, <1>7, <2>1
  <2>3. ASSUME NEW i \in DOMAIN text', NEW j \in DOMAIN text',
               i < j, text'[j].part = 1
        PROVE  text'[i].msg < text'[j].msg
    <3>1. CASE j \in 1 .. L
      BY <3>1, <2>3, <1>1, <1>4, <1>7 DEF IInv, TextInv
    <3>2. CASE j \in L + 1 .. L + n
      <4>1. j = L + 1 BY <3>2, <2>3, <1>1, <1>5
      <4>2. i \in 1 .. L BY <4>1, <2>3, <1>1, <1>7
      <4> QED BY <3>2, <4>2, <2>1, <1>1, <1>4, <1>5, <1>7
    <3> QED BY <3>1, <3>2, <1>1, <1>7
  <2>4. ASSUME NEW i \in DOMAIN text',
               i = 1 \/ text'[i - 1].part = text'[i - 1].of
        PROVE  text'[i].part = 1
    <3>1. CASE i \in 1 .. L
      <4>1. i = 1 \/ i - 1 \in 1 .. L BY <3>1, <1>1
      <4> QED BY <3>1, <4>1, <2>4, <1>4, <1>7 DEF IInv, TextInv
    <3>2. CASE i = L + 1
      BY <3>2, <1>1, <1>5
    <3>3. CASE i \in L + 2 .. L + n
      <4>1. i - 1 \in L + 1 .. L + n /\ i # 1 /\ i - 1 - L < n BY <3>3, <1>1
      <4> QED BY <4>1, <2>4, <1>1, <1>5
    <3> QED BY <3>1, <3>2, <3>3, <1>1, <1>7
  <2> QED BY <2>2, <2>3, <2>4 DEF TextInv
<1>11. FrameInv'
  <2>1. \A i \in DOMAIN frames : frames[i].to <= Len(text')
    <3> TAKE i \in DOMAIN frames
    <3>1. frames[i] \in Frames BY DEF IInv, TypeOK
    <3> QED BY <3>1, <1>1, <1>4 DEF IInv, FrameInv, Frames
  <2> QED BY <2>1, <1>8 DEF IInv, FrameInv, SentTo, Blocks
<1>12. HeardInv'
  <2>1. ASSUME NEW i \in DOMAIN frames
        PROVE  text'[frames[i].from] = text[frames[i].from]
    <3>1. frames[i] \in Frames BY DEF IInv, TypeOK
    <3>2. frames[i].from \in 1 .. L
      BY <3>1, <1>1 DEF IInv, FrameInv, Frames
    <3> QED BY <3>2, <1>4
  <2> QED BY <2>1, <1>8 DEF IInv, HeardInv, Heard!Rising, reader, history
<1>13. ClearInv' /\ InStep' /\ HealIsMeant'
  <2>1. UnderWay' <=> UnderWay
    <3>1. SentTo(at) \in 0 .. L /\ (SentTo(at))' = SentTo(at)
      BY <1>8, OperatorsTyped DEF IInv, TypeOK, SentTo
    <3> QED BY <3>1, <1>1, <1>4 DEF UnderWay
  <2> QED BY <2>1, <1>8 DEF IInv, ClearInv, InStep, HealIsMeant, DeviceCtr, Blocks,
                            reader, history
<1> QED BY <1>1, <1>6, <1>9, <1>10, <1>11, <1>12, <1>13 DEF IInv

LEMMA SendsFrameKeeps ==
  ASSUME IInv, NEW n \in 1 .. MaxText, SendsFrame(n)
  PROVE  IInv'
<1> DEFINE K == Len(frames)
           f == [ctr |-> DeviceCtr, from |-> SentTo(K) + 1, to |-> SentTo(K) + n]
<1>1. /\ n \in Nat /\ n >= 1 /\ K \in Nat /\ frames \in Seq(Frames)
      /\ DeviceCtr \in Nat /\ SentTo(K) \in Nat /\ SentTo(K) + n <= Len(text)
  <2>1. K \in Nat /\ frames \in Seq(Frames) BY DEF IInv, TypeOK
  <2>2. MaxText \in Nat BY ConstantsAssumption
  <2>3. DeviceCtr \in Nat /\ SentTo(K) \in 0 .. Len(text) /\ Len(text) \in Nat
    BY <2>1, OperatorsTyped DEF IInv, TypeOK
  <2> QED BY <2>1, <2>2, <2>3 DEF SendsFrame
<1>2. f \in Frames /\ f.from <= f.to /\ f.to <= Len(text)
  BY <1>1 DEF Frames
<1>3. frames' = Append(frames, f) /\ UNCHANGED <<up, text, at, reader, call, history>>
  BY DEF SendsFrame
<1>4. /\ frames' \in Seq(Frames) /\ Len(frames') = K + 1
      /\ \A i \in 1 .. K : frames'[i] = frames[i]
      /\ frames'[K + 1] = f
  <2> HIDE DEF f
  <2> QED BY <1>1, <1>2, <1>3
<1>5. DOMAIN frames = 1 .. K /\ DOMAIN frames' = 1 .. K + 1
  BY <1>1, <1>4
<1>6. \A i \in 0 .. K : (SentTo(i))' = SentTo(i) /\ SentTo(i) \in Nat
  <2>1. \A i \in 0 .. K : SentTo(i) \in 0 .. Len(text)
    BY OperatorsTyped DEF IInv, TypeOK
  <2> QED BY <1>4, <2>1 DEF SentTo
<1>7. \A i \in 1 .. K : Blocks(frames[i]) \in Nat \ {0} /\ frames[i].ctr \in Nat
  <2> TAKE i \in 1 .. K
  <2>1. Blocks(frames[i]) \in Nat \ {0} BY <1>5, OperatorsTyped DEF IInv
  <2>2. frames[i] \in Frames BY <1>1
  <2> QED BY <2>1, <2>2 DEF Frames
<1>8. /\ f.from = SentTo(K) + 1 /\ f.to = SentTo(K) + n
      /\ f.ctr = IF K = 0 THEN 0 ELSE frames[K].ctr + Blocks(frames[K])
  <2>1. K = 0 <=> frames = <<>> BY <1>1
  <2> QED BY <2>1 DEF DeviceCtr
<1>9. Blocks(f) \in Nat \ {0} BY <1>2, BlocksPositive
<1>10. DeviceCtr' = f.ctr + Blocks(f)
  <2>1. frames' # <<>> BY <1>1, <1>4
  <2> QED BY <2>1, <1>4 DEF DeviceCtr, Blocks
<1> HIDE DEF f
<1>11. TypeOK'
  <2>1. /\ at' \in 0 .. Len(frames') /\ text' \in Seq(Cells) /\ last' \in 0 .. at'
        /\ rx' \in Nat /\ buffered' \in 0 .. 2 /\ up' \in BOOLEAN
        /\ heal' \in BOOLEAN /\ pt' \in Seq(0 .. Len(text'))
    BY <1>1, <1>3, <1>4 DEF IInv, TypeOK, reader
  <2>2. /\ op' \in {"none", "send", "stream"} /\ since' \in Nat
        /\ heard' \in Seq(Nat) /\ faults' \in 0 .. MaxFaults /\ torn' \in BOOLEAN
    BY <1>3 DEF IInv, TypeOK, call, history
  <2> QED BY <1>4, <2>1, <2>2 DEF TypeOK
<1>12. TextInv'
  BY <1>3 DEF IInv, TextInv, Messages
<1>13. FrameInv'
  <2>1. ASSUME NEW i \in DOMAIN frames'
        PROVE  /\ frames'[i].from <= frames'[i].to /\ frames'[i].to <= Len(text')
               /\ frames'[i].from = (SentTo(i - 1))' + 1
    <3>1. CASE i \in 1 .. K
      <4>1. i - 1 \in 0 .. K BY <3>1, <1>1
      <4> QED BY <4>1, <3>1, <1>3, <1>4, <1>5, <1>6 DEF IInv, FrameInv
    <3>2. CASE i = K + 1
      <4>1. i - 1 = K /\ K \in 0 .. K BY <3>2, <1>1
      <4>2. frames'[i] = f /\ text' = text BY <3>2, <1>3, <1>4
      <4>3. (SentTo(i - 1))' = SentTo(K) BY <4>1, <1>6
      <4> QED BY <4>2, <4>3, <1>2, <1>8
    <3> QED BY <3>1, <3>2, <1>1, <1>5
  <2>3. ASSUME NEW i \in DOMAIN frames', i + 1 \in DOMAIN frames'
        PROVE  frames'[i + 1].ctr = frames'[i].ctr + (Blocks(frames[i]))'
    <3>1. i \in 1 .. K /\ frames'[i] = frames[i] BY <2>3, <1>1, <1>4, <1>5
    <3>2. (Blocks(frames[i]))' = Blocks(frames[i]) BY <3>1 DEF Blocks
    <3>3. CASE i + 1 \in 1 .. K
      BY <3>1, <3>2, <3>3, <1>4, <1>5 DEF IInv, FrameInv
    <3>4. CASE i = K
      <4>1. frames'[i + 1] = f /\ f.ctr = frames[i].ctr + Blocks(frames[i])
        BY <3>1, <3>4, <1>4, <1>8
      <4> QED BY <4>1, <3>1, <3>2
    <3> QED BY <3>1, <3>3, <3>4, <1>1
  <2>2. ASSUME NEW i \in DOMAIN frames', NEW j \in DOMAIN frames', i < j
        PROVE  frames'[i].ctr < frames'[j].ctr /\ frames'[i].to < frames'[j].from
    <3>1. CASE j \in 1 .. K
      <4>1. i \in 1 .. K BY <3>1, <2>2, <1>1, <1>5
      <4> QED BY <4>1, <3>1, <2>2, <1>4, <1>5 DEF IInv, FrameInv
    <3>2. CASE j = K + 1
      <4>1. i \in 1 .. K /\ K \in 1 .. K /\ K # 0 BY <3>2, <2>2, <1>1, <1>5
      <4>2. frames[K].ctr < f.ctr /\ frames[K].to < f.from
        <5>1. SentTo(K) = frames[K].to BY <4>1 DEF SentTo
        <5> QED BY <5>1, <4>1, <1>1, <1>7, <1>8
      <4>3. CASE i = K BY <4>1, <4>2, <4>3, <3>2, <1>4
      <4>4. CASE i < K
        <5>1. frames[i].ctr < frames[K].ctr /\ frames[i].to < frames[K].from
          BY <4>1, <4>4, <1>5 DEF IInv, FrameInv
        <5>2. frames[K].from <= frames[K].to
          BY <4>1, <1>5 DEF IInv, FrameInv
        <5>3. frames[i] \in Frames /\ frames[K] \in Frames BY <4>1, <1>1
        <5>4. /\ frames[i].ctr \in Nat /\ frames[K].ctr \in Nat /\ frames[i].to \in Nat
              /\ frames[K].from \in Nat /\ frames[K].to \in Nat
              /\ f.ctr \in Nat /\ f.from \in Nat
          BY <5>3, <1>2 DEF Frames
        <5>5. frames[i].ctr < f.ctr /\ frames[i].to < f.from
          <6>1. \A a, b, c \in Nat : a < b /\ b < c => a < c OBVIOUS
          <6>2. \A a, b, c \in Nat : a < b /\ b <= c => a < c OBVIOUS
          <6>3. frames[i].ctr < f.ctr BY <5>1, <5>4, <4>2, <6>1, Zenon
          <6>4. frames[i].to < frames[K].to BY <5>1, <5>2, <5>4, <6>2, Zenon
          <6> QED BY <6>3, <6>4, <5>4, <4>2, <6>1, Zenon
        <5> QED BY <5>5, <4>1, <3>2, <1>4
      <4> QED BY <4>1, <4>3, <4>4, <1>1
    <3> QED BY <3>1, <3>2, <1>1, <1>5
  <2> QED BY <2>1, <2>2, <2>3 DEF FrameInv
<1>14. HeardInv'
  <2>1. \A i \in DOMAIN frames : i \in DOMAIN frames' /\ frames'[i] = frames[i]
    BY <1>1, <1>4, <1>5
  <2> QED BY <2>1, <1>3 DEF IInv, HeardInv, Heard!Rising, reader, history
<1>15. InStep'
  <2>1. at \in 0 .. K BY DEF IInv, TypeOK
  <2>2. CASE at = K
    <3>1. up /\ faults = 0 => rx = DeviceCtr
      BY <2>2, <1>1 DEF IInv, InStep
    <3>2. at' < Len(frames') /\ frames'[at' + 1].ctr = DeviceCtr
      BY <2>2, <1>1, <1>3, <1>4 DEF f
    <3> QED BY <3>1, <3>2, <1>3 DEF InStep, reader, history
  <2>3. CASE at < K
    <3>1. at' < Len(frames') /\ frames'[at' + 1] = frames[at + 1]
      BY <2>1, <2>3, <1>1, <1>3, <1>4
    <3> QED BY <3>1, <2>3, <1>3 DEF IInv, InStep, reader, history
  <2> QED BY <2>1, <2>2, <2>3, <1>1
<1>16. ClearInv' /\ HealIsMeant'
  <2>1. at \in 0 .. K BY DEF IInv, TypeOK
  <2>2. UnderWay' <=> UnderWay
    BY <2>1, <1>3, <1>6 DEF UnderWay
  <2> QED BY <2>2, <1>3 DEF IInv, ClearInv, HealIsMeant, reader, history
<1> QED BY <1>11, <1>12, <1>13, <1>14, <1>15, <1>16 DEF IInv

(* Steps that leave the device alone.                                      *)
LEMMA DeviceKept ==
  ASSUME IInv, UNCHANGED device
  PROVE  TextInv' /\ FrameInv' /\ UNCHANGED <<Messages, DeviceCtr>>
  BY DEF IInv, TextInv, FrameInv, device, Messages, DeviceCtr, SentTo, Blocks

LEMMA AmidKept ==
  ASSUME UNCHANGED <<device, at>>
  PROVE  UNCHANGED UnderWay
  BY DEF device, UnderWay, SentTo

-----------------------------------------------------------------------------
(* The notification callback. *)

LEMMA NotifyTyped ==
  ASSUME IInv, NEW i \in DOMAIN frames, _on_notify(i)
  PROVE  /\ last' \in {last, i} /\ buffered' \in 0 .. 2 /\ rx' \in Nat
         /\ pt' \in Seq(0 .. Len(text)) /\ heal' \in BOOLEAN
         /\ heard' \in Seq(Nat)
<1>1. TypeOK /\ FrameInv BY DEF IInv
<1>2. CASE i = last BY <1>1, <1>2 DEF _on_notify, reader, TypeOK
<1>3. CASE i # last
  <2> DEFINE p == decrypt(frames[i], rx)
  <2>1. rx \in Nat BY <1>1 DEF TypeOK
  <2>2. p \in Seq(0 .. Len(text)) /\ Len(p) >= 1 BY <1>1, <2>1, DecryptTyped
  <2>3. Blocks(frames[i]) \in Nat BY <1>1, OperatorsTyped
  <2>4. /\ Takes(i, rx) /\ pt' = pt \o p
        /\ heal' = (heal \/ (BadHeader(i) /\ buffered = 0))
    BY <1>3 DEF _on_notify
  <2> HIDE DEF p
  <2>5. pt' \in Seq(0 .. Len(text))
    BY <1>1, <2>2, <2>4 DEF TypeOK
  <2>6. heard' = heard \o decode_inner(p, 1) BY <2>4 DEF Takes, p
  <2>7. heard' \in Seq(Nat)
    <3>1. heard \in Seq(Nat) BY <1>1 DEF TypeOK
    <3>2. CASE decode_inner(p, 1) = <<>>
      <4>1. heard \o <<>> = heard BY <3>1, ConcatEmptySeq
      <4> QED BY <4>1, <2>6, <3>1, <3>2
    <3>3. CASE /\ text[p[1]].msg \in Nat
               /\ decode_inner(p, 1) = <<text[p[1]].msg>>
      <4>1. PICK m \in Nat : decode_inner(p, 1) = <<m>> BY <3>3
      <4>2. <<m>> \in Seq(Nat) OBVIOUS
      <4>3. heard \o <<m>> \in Seq(Nat) BY <3>1, <4>2, ConcatProperties
      <4> QED BY <2>6, <4>1, <4>3, Zenon
    <3>4. \/ decode_inner(p, 1) = <<>>
          \/ /\ text[p[1]].msg \in Nat
             /\ decode_inner(p, 1) = <<text[p[1]].msg>>
      <4>1. Len(p) >= 1 BY <2>2
      <4> QED BY <1>1, <2>2, <4>1, DecodeTyped, Zenon
    <3> QED BY <3>2, <3>3, <3>4, Zenon
  <2>8. heal' \in BOOLEAN
    BY <1>1, <2>4 DEF TypeOK, BadHeader, IsHeader
  <2>9. last' = i /\ buffered' \in 0 .. 2
    BY <1>1, <2>4 DEF TypeOK, Takes
  <2>10. rx' \in Nat BY <2>1, <2>3, <2>4 DEF Takes
  <2> QED BY <2>5, <2>7, <2>8, <2>9, <2>10
<1> QED BY <1>2, <1>3

(* What the observer gets is a later message than all it got before.       *)
LEMMA NotifyHeard ==
  ASSUME IInv, NEW i \in DOMAIN frames, _on_notify(i), UNCHANGED <<text, frames>>
  PROVE  /\ HeardInv'
         /\ heard' = heard \/ Heard!Gets
<1>1. TypeOK /\ FrameInv /\ TextInv /\ HeardInv BY DEF IInv
<1>2. CASE i = last
  BY <1>1, <1>2 DEF _on_notify, reader, HeardInv, Heard!Rising
<1>3. CASE i # last
  <2> DEFINE p == decrypt(frames[i], rx)
  <2>1. rx \in Nat /\ heard \in Seq(Nat) BY <1>1 DEF TypeOK
  <2>2. /\ p \in Seq(0 .. Len(text)) /\ Len(p) >= 1
        /\ p[1] = IF frames[i].ctr = rx THEN frames[i].from ELSE 0
    BY <1>1, <2>1, DecryptTyped
  <2>3. Blocks(frames[i]) \in Nat \ {0} BY <1>1, OperatorsTyped
  <2>4. rx' = rx + Blocks(frames[i]) /\ heard' = heard \o decode_inner(p, 1)
    BY <1>3 DEF _on_notify, Takes
  <2>5. \A j \in DOMAIN frames : frames[j].ctr \in Nat /\ frames[j].from \in Nat
    <3> TAKE j \in DOMAIN frames
    <3>1. frames[j] \in Frames BY <1>1 DEF TypeOK
    <3> QED BY <3>1 DEF Frames
  <2> HIDE DEF p
  <2>6. \A j \in DOMAIN frames : frames[j].ctr < rx => frames[j].ctr < rx'
    BY <2>1, <2>3, <2>4, <2>5
  <2>7. CASE decode_inner(p, 1) = <<>>
    <3>1. heard' = heard BY <2>1, <2>4, <2>7
    <3> QED BY <3>1, <2>6, <1>1 DEF HeardInv, Heard!Rising
  <2>8. CASE /\ IsHeader(p[1])
             /\ text[p[1]].msg \in Nat
             /\ decode_inner(p, 1) = <<text[p[1]].msg>>
    <3> DEFINE k == text[frames[i].from].msg
    <3>1. frames[i].ctr = rx /\ p[1] = frames[i].from /\ text[frames[i].from].part = 1
      BY <2>2, <2>8 DEF IsHeader
    <3>2. k \in Nat /\ heard' = heard \o <<k>>
      BY <2>4, <2>8, <3>1
    <3>3. frames[i].ctr < rx'
      BY <2>1, <2>3, <2>4, <3>1
    <3>4. \A j \in DOMAIN frames : frames[j].from \in DOMAIN text
      <4> TAKE j \in DOMAIN frames
      <4>1. frames[j] \in Frames BY <1>1 DEF TypeOK
      <4>2. frames[j].from \in Nat \ {0} /\ frames[j].to \in Nat BY <4>1 DEF Frames
      <4>3. Len(text) \in Nat /\ DOMAIN text = 1 .. Len(text) BY <1>1 DEF TypeOK
      <4>4. frames[j].from <= frames[j].to /\ frames[j].to <= Len(text)
        BY <1>1 DEF FrameInv
      <4> QED BY <4>2, <4>3, <4>4
    <3>5. \A h \in DOMAIN heard : heard[h] < k /\ heard[h] \in Nat
      <4> TAKE h \in DOMAIN heard
      <4>1. PICK j \in DOMAIN frames :
              frames[j].ctr < rx /\ heard[h] = text[frames[j].from].msg
        BY <1>1 DEF HeardInv
      <4>2. j < i
        <5>1. i \in Nat /\ j \in Nat BY <1>1 DEF TypeOK
        <5>2. ~(i < j)
          BY <4>1, <3>1, <2>1, <2>5, <1>1 DEF FrameInv
        <5>3. i # j BY <4>1, <3>1, <2>1
        <5> QED BY <5>1, <5>2, <5>3
      <4>3. frames[j].from < frames[i].from
        <5>1. frames[j].from <= frames[j].to /\ frames[j].to < frames[i].from
          BY <4>2, <1>1 DEF FrameInv
        <5>2. frames[j] \in Frames /\ frames[i] \in Frames BY <1>1 DEF TypeOK
        <5> QED BY <5>1, <5>2 DEF Frames
      <4> QED BY <4>1, <4>3, <3>1, <3>4, <2>1, <1>1 DEF TextInv
    <3>6. k <= Messages BY <3>4, <1>1 DEF TextInv
    <3>7. k >= 1
      <4>1. text[frames[i].from] \in Cells BY <3>4, <1>1 DEF TypeOK
      <4> QED BY <4>1 DEF Cells
    <3> HIDE DEF k
    <3>8. /\ heard' \in Seq(Nat) /\ Len(heard') = Len(heard) + 1
          /\ \A h \in 1 .. Len(heard) : heard'[h] = heard[h]
          /\ heard'[Len(heard) + 1] = k
          /\ Len(heard) \in Nat
          /\ DOMAIN heard = 1 .. Len(heard) /\ DOMAIN heard' = 1 .. Len(heard) + 1
      BY <2>1, <3>2
    <3>9. Heard!Rising(heard')
      <4> SUFFICES ASSUME NEW a \in DOMAIN heard', NEW b \in DOMAIN heard', a < b
                   PROVE  heard'[a] < heard'[b]
        BY DEF Heard!Rising
      <4>1. CASE b \in 1 .. Len(heard)
        <5>1. a \in 1 .. Len(heard) BY <4>1, <3>8
        <5> QED BY <5>1, <4>1, <3>8, <1>1 DEF HeardInv, Heard!Rising
      <4>2. CASE b = Len(heard) + 1
        <5>1. a \in 1 .. Len(heard) BY <4>2, <3>8
        <5> QED BY <5>1, <4>2, <3>5, <3>8
      <4> QED BY <4>1, <4>2, <3>8
    <3>10. ASSUME NEW h \in DOMAIN heard'
           PROVE  \E j \in DOMAIN frames :
                    frames[j].ctr < rx' /\ heard'[h] = text[frames[j].from].msg
      <4>1. CASE h \in 1 .. Len(heard)
        BY <4>1, <3>8, <2>6, <1>1 DEF HeardInv
      <4>2. CASE h = Len(heard) + 1
        BY <4>2, <3>3, <3>8 DEF k
      <4> QED BY <4>1, <4>2, <3>8
    <3>11. HeardInv'
      BY <3>9, <3>10 DEF HeardInv, Heard!Rising
    <3>12. Heard!Gets
      <4>1. SubSeq(heard', 1, Len(heard)) = heard
        BY <3>8, <2>1
      <4>2. \A h \in DOMAIN heard' : heard'[h] \in 1 .. Messages
        <5>1. Messages \in Nat BY <1>1, OperatorsTyped
        <5>2. \A h \in DOMAIN heard : heard[h] \in 1 .. Messages
          <6> TAKE h \in DOMAIN heard
          <6>1. PICK j \in DOMAIN frames : heard[h] = text[frames[j].from].msg
            BY <1>1 DEF HeardInv
          <6>2. text[frames[j].from] \in Cells BY <3>4, <1>1 DEF TypeOK
          <6>3. text[frames[j].from].msg <= Messages BY <3>4, <1>1 DEF TextInv
          <6> QED BY <6>1, <6>2, <6>3, <5>1 DEF Cells
        <5> QED BY <5>1, <5>2, <3>2, <3>6, <3>7, <3>8
      <4>3. Messages' = Messages BY DEF Messages
      <4> QED BY <4>1, <4>2, <4>3, <3>8, <3>9 DEF Heard!Gets, Heard!Rising
    <3> QED BY <3>11, <3>12
  <2> QED BY <1>1, <2>2, <2>7, <2>8, DecodeTyped
<1> QED BY <1>2, <1>3

(* A step with a notification keeps the types if last stays below at.      *)
LEMMA NotifyKeepsTypes ==
  ASSUME IInv, NEW i \in DOMAIN frames, _on_notify(i),
         UNCHANGED <<up, device, call, torn>>,
         at' \in 0 .. Len(frames), last' \in 0 .. at', faults' \in 0 .. MaxFaults
  PROVE  TypeOK'
<1>1. /\ buffered' \in 0 .. 2 /\ rx' \in Nat /\ pt' \in Seq(0 .. Len(text))
      /\ heal' \in BOOLEAN /\ heard' \in Seq(Nat)
  BY NotifyTyped
<1>2. /\ up' \in BOOLEAN /\ torn' \in BOOLEAN /\ text' \in Seq(Cells)
      /\ frames' \in Seq(Frames) /\ frames' = frames /\ text' = text
      /\ op' \in {"none", "send", "stream"} /\ since' \in Nat
  BY DEF IInv, TypeOK, device, call
<1> QED BY <1>1, <1>2 DEF TypeOK

(* In step, and after a cleared buffer that cut no message, a frame starts *)
(* with a header.                                                          *)
LEMMA HeaderNext ==
  ASSUME IInv, up, faults = 0, ~torn, buffered = 0, at < Len(frames)
  PROVE  ~BadHeader(at + 1)
<1> DEFINE f == frames[at + 1]
<1>1. TypeOK /\ FrameInv /\ TextInv BY DEF IInv
<1>2. at \in Nat /\ at + 1 \in DOMAIN frames BY <1>1 DEF TypeOK
<1>3. rx \in Nat /\ f.ctr = rx BY <1>1 DEF IInv, InStep, TypeOK
<1>4. decrypt(f, rx)[1] = f.from BY <1>1, <1>2, <1>3, DecryptTyped
<1>5. f \in Frames /\ f.from <= f.to /\ f.to <= Len(text) BY <1>1, <1>2 DEF TypeOK, FrameInv
<1>6. f.from \in DOMAIN text /\ f.from # 0
  <2>1. f.from \in Nat \ {0} /\ f.to \in Nat BY <1>5 DEF Frames
  <2>2. DOMAIN text = 1 .. Len(text) /\ Len(text) \in Nat BY <1>1 DEF TypeOK
  <2> QED BY <2>1, <2>2, <1>5
<1>7. f.from = SentTo(at) + 1 /\ SentTo(at) \in Nat
  <2>1. f.from = SentTo(at + 1 - 1) + 1 BY <1>1, <1>2 DEF FrameInv
  <2>2. at + 1 - 1 = at BY <1>2
  <2>3. SentTo(at) \in 0 .. Len(text) BY <1>1, OperatorsTyped DEF TypeOK
  <2> QED BY <2>1, <2>2, <2>3
<1>8. ~UnderWay BY DEF IInv, ClearInv
<1>9. text[f.from].part = 1
  <2>1. CASE SentTo(at) = 0 BY <2>1, <1>6, <1>7, <1>1 DEF TextInv
  <2>2. CASE SentTo(at) > 0
    <3>1. text[f.from - 1].part = text[f.from - 1].of BY <2>2, <1>7, <1>8 DEF UnderWay
    <3> QED BY <3>1, <1>1, <1>6 DEF TextInv
  <2> QED BY <2>1, <2>2, <1>7
<1> QED BY <1>4, <1>6, <1>9 DEF BadHeader, IsHeader

LEMMA DeliversKeeps ==
  ASSUME IInv, Delivers
  PROVE  IInv' /\ (heard' = heard \/ Heard!Gets)
<1> DEFINE i == at + 1
<1>1. TypeOK /\ FrameInv BY DEF IInv
<1>2. /\ at \in Nat /\ last \in 0 .. at /\ i \in DOMAIN frames /\ i # last
      /\ Len(frames) \in Nat
  BY <1>1 DEF Delivers, TypeOK
<1>3. _on_notify(i) /\ at' = i /\ UNCHANGED <<up, device, call, streamed, faults, torn>>
  BY DEF Delivers
<1>4. HeardInv' /\ (heard' = heard \/ Heard!Gets)
  BY <1>2, <1>3, NotifyHeard DEF device
<1>5. TypeOK'
  <2>1. last' \in {last, i} BY <1>2, <1>3, NotifyTyped
  <2>2. at' \in 0 .. Len(frames) /\ last' \in 0 .. at'
    BY <2>1, <1>1, <1>2, <1>3 DEF TypeOK, Delivers
  <2>3. faults' \in 0 .. MaxFaults BY <1>1, <1>3 DEF TypeOK
  <2> QED BY <2>2, <2>3, <1>2, <1>3, NotifyKeepsTypes
<1>6. TextInv' /\ FrameInv' /\ DeviceCtr' = DeviceCtr
  BY <1>3, DeviceKept
<1>7. /\ rx' = rx + Blocks(frames[i]) /\ rx \in Nat
      /\ buffered' # 0
      /\ heal' = (heal \/ (BadHeader(i) /\ buffered = 0))
  BY <1>1, <1>2, <1>3 DEF _on_notify, Takes, TypeOK
<1>8. InStep'
  <2> SUFFICES ASSUME up, faults = 0
               PROVE  rx' = IF i < Len(frames) THEN frames[i + 1].ctr ELSE DeviceCtr
    BY <1>3, <1>6 DEF InStep, device
  <2>1. rx = frames[i].ctr
    BY <1>2 DEF IInv, InStep, Delivers
  <2>2. CASE i < Len(frames)
    <3>1. i + 1 \in DOMAIN frames /\ i + 1 # 1 /\ i + 1 - 1 = i BY <2>2, <1>2
    <3>2. frames[i + 1].ctr = frames[i].ctr + Blocks(frames[i])
      BY <3>1, <1>1, <1>2 DEF FrameInv
    <3> QED BY <3>2, <2>1, <2>2, <1>7
  <2>3. CASE ~(i < Len(frames))
    <3>1. i = Len(frames) /\ frames # <<>> BY <2>3, <1>1, <1>2 DEF TypeOK
    <3> QED BY <3>1, <2>1, <2>3, <1>7 DEF DeviceCtr
  <2> QED BY <2>2, <2>3
<1>9. ClearInv' BY <1>7 DEF ClearInv
<1>10. HealIsMeant'
  <2>1. up /\ faults = 0 /\ ~torn /\ buffered = 0 => ~BadHeader(i)
    BY HeaderNext DEF Delivers
  <2> QED BY <2>1, <1>3, <1>7 DEF IInv, HealIsMeant
<1> QED BY <1>4, <1>5, <1>6, <1>8, <1>9, <1>10 DEF IInv

LEMMA RepeatsKeeps ==
  ASSUME IInv, NEW i \in 1 .. at, Repeats(i)
  PROVE  IInv' /\ (heard' = heard \/ Heard!Gets)
<1>1. TypeOK BY DEF IInv
<1>2. i \in DOMAIN frames /\ at \in Nat /\ faults \in Nat /\ MaxFaults \in Nat
  BY <1>1, ConstantsAssumption DEF TypeOK
<1>3. _on_notify(i) /\ UNCHANGED <<up, device, at, call, streamed, torn>>
  BY DEF Repeats
<1>4. HeardInv' /\ (heard' = heard \/ Heard!Gets)
  BY <1>2, <1>3, NotifyHeard DEF device
<1>5. TypeOK'
  <2>1. last' \in {last, i} BY <1>2, <1>3, NotifyTyped
  <2>2. at' \in 0 .. Len(frames) /\ last' \in 0 .. at'
    BY <2>1, <1>1, <1>3 DEF TypeOK
  <2>3. faults' \in 0 .. MaxFaults BY <1>1, <1>2 DEF TypeOK, Repeats
  <2> QED BY <2>2, <2>3, <1>2, <1>3, NotifyKeepsTypes
<1>6. TextInv' /\ FrameInv' /\ DeviceCtr' = DeviceCtr /\ UnderWay' = UnderWay
  BY <1>3, DeviceKept, AmidKept
<1>7. InStep' /\ ClearInv' /\ HealIsMeant'
  <2>1. CASE i = last
    <3>1. UNCHANGED <<reader, faults>> BY <2>1, <1>3 DEF _on_notify, Repeats
    <3> QED BY <3>1, <1>3, <1>6 DEF IInv, InStep, ClearInv, HealIsMeant, reader, device
  <2>2. CASE i # last
    <3>1. faults' # 0 BY <2>2, <1>2 DEF Repeats
    <3> QED BY <3>1 DEF InStep, ClearInv, HealIsMeant
  <2> QED BY <2>1, <2>2
<1> QED BY <1>4, <1>5, <1>6, <1>7 DEF IInv

LEMMA LosesKeeps ==
  ASSUME IInv, Loses
  PROVE  IInv'
<1>1. TypeOK BY DEF IInv
<1>2. /\ UNCHANGED <<up, device, reader, call, heard, streamed, torn>>
      /\ at' = at + 1 /\ at' <= Len(frames) /\ faults' = faults + 1 /\ faults < MaxFaults
  BY <1>1 DEF Loses, TypeOK
<1>3. TextInv' /\ FrameInv' BY <1>2, DeviceKept
<1>4. faults' # 0 BY <1>1, <1>2 DEF TypeOK
<1>5. InStep' /\ ClearInv' /\ HealIsMeant' BY <1>4 DEF InStep, ClearInv, HealIsMeant
<1>6. HeardInv' BY <1>2 DEF IInv, HeardInv, Heard!Rising, device, reader
<1>7. TypeOK'
  <2>1. MaxFaults \in Nat BY ConstantsAssumption
  <2> QED BY <2>1, <1>1, <1>2 DEF TypeOK, device, reader, call
<1> QED BY <1>3, <1>5, <1>6, <1>7 DEF IInv

-----------------------------------------------------------------------------
(* The calls and the session. *)

LEMMA SendKeeps ==
  ASSUME IInv, NEW o \in {"send", "stream"}, Send(o)
  PROVE  IInv' /\ (UNCHANGED <<Messages, heard>> \/ Heard!NewSession)
<1>1. TypeOK BY DEF IInv
<1>2. op' = o /\ up' = TRUE /\ buffered' = 0 /\ pt' = <<>> /\ heal' = heal
  BY DEF Send, _handshake
<1>3. CASE /\ up /\ since' = Messages /\ torn' = (torn \/ UnderWay)
           /\ UNCHANGED <<up, device, at, rx, last, heard, streamed, faults>>
  <2>1. TextInv' /\ FrameInv' /\ UNCHANGED <<Messages, DeviceCtr>> /\ UnderWay' = UnderWay
    BY <1>3, DeviceKept, AmidKept
  <2>2. HeardInv' BY <1>3 DEF IInv, HeardInv, Heard!Rising, device
  <2>3. InStep' /\ ClearInv' /\ HealIsMeant'
    BY <1>2, <1>3, <2>1 DEF IInv, InStep, ClearInv, HealIsMeant, device
  <2>4. UnderWay \in BOOLEAN BY DEF UnderWay
  <2>5. Messages \in Nat BY <1>1, OperatorsTyped DEF IInv
  <2>6. TypeOK'
    <3>1. pt' \in Seq(0 .. Len(text')) BY <1>2
    <3>2. torn' \in BOOLEAN BY <1>1, <1>3, <2>4 DEF TypeOK
    <3> QED BY <1>1, <1>2, <1>3, <2>5, <3>1, <3>2 DEF TypeOK, device
  <2> QED BY <1>3, <2>1, <2>2, <2>3, <2>6 DEF IInv
<1>4. CASE ~up /\ _handshake /\ since' = 0
  <2>1. /\ text' = <<>> /\ frames' = <<>> /\ at' = 0 /\ rx' = 0 /\ last' = 0
        /\ heard' = <<>> /\ torn' = FALSE /\ faults' = IF heal THEN 1 ELSE 0
    BY <1>4 DEF _handshake
  <2>2. TypeOK'
    <3>1. MaxFaults \in Nat \ {0} BY ConstantsAssumption
    <3>2. /\ text' \in Seq(Cells) /\ frames' \in Seq(Frames) /\ heard' \in Seq(Nat)
          /\ pt' \in Seq(0 .. Len(text'))
      BY <1>2, <2>1
    <3>3. at' \in 0 .. Len(frames') /\ last' \in 0 .. at'
      <4>1. Len(frames') \in Nat BY <3>2
      <4> QED BY <4>1, <2>1
    <3>4. faults' \in 0 .. MaxFaults BY <2>1, <3>1
    <3>5. op' \in {"none", "send", "stream"} /\ since' \in Nat /\ rx' \in Nat
      BY <1>2, <1>4, <2>1
    <3>6. buffered' \in 0 .. 2 BY <1>2
    <3>7. up' \in BOOLEAN /\ torn' \in BOOLEAN /\ heal' \in BOOLEAN
      BY <1>1, <1>2, <2>1, Zenon DEF TypeOK
    <3> QED BY <3>2, <3>3, <3>4, <3>5, <3>6, <3>7 DEF TypeOK
  <2>3. TextInv' /\ FrameInv' /\ HeardInv'
    BY <2>1 DEF TextInv, FrameInv, HeardInv, Heard!Rising
  <2>4. InStep' BY <2>1 DEF InStep, DeviceCtr
  <2>5. ClearInv' BY <2>1 DEF ClearInv, UnderWay, SentTo
  <2>6. HealIsMeant' BY <1>2, <2>1 DEF HealIsMeant
  <2>7. Heard!NewSession BY <2>1 DEF Heard!NewSession, Messages
  <2> QED BY <2>2, <2>3, <2>4, <2>5, <2>6, <2>7 DEF IInv
<1> QED BY <1>3, <1>4 DEF Send

LEMMA DrainEndsKeeps ==
  ASSUME IInv, DrainEnds
  PROVE  IInv'
<1>1. TypeOK BY DEF IInv
<1>2. /\ op' = "none" /\ buffered' = 0 /\ torn' = (torn \/ UnderWay)
      /\ pt' = pt \/ pt' = <<>>
      /\ UNCHANGED <<up, device, at, rx, last, heal, since, heard, faults>>
  BY DEF DrainEnds
<1>3. TextInv' /\ FrameInv' /\ DeviceCtr' = DeviceCtr /\ UnderWay' = UnderWay
  BY <1>2, DeviceKept, AmidKept
<1>4. HeardInv' BY <1>2 DEF IInv, HeardInv, Heard!Rising, device
<1>5. InStep' /\ ClearInv' /\ HealIsMeant'
  BY <1>2, <1>3 DEF IInv, InStep, ClearInv, HealIsMeant, device
<1>6. TypeOK'
  <2>1. UnderWay \in BOOLEAN BY DEF UnderWay
  <2>2. pt' \in Seq(0 .. Len(text'))
    <3>1. text' = text BY <1>2 DEF device
    <3>2. pt \in Seq(0 .. Len(text)) /\ <<>> \in Seq(0 .. Len(text)) BY <1>1 DEF TypeOK
    <3> QED BY <3>1, <3>2, <1>2
  <2>3. torn' \in BOOLEAN BY <1>1, <1>2, <2>1 DEF TypeOK
  <2> QED BY <1>1, <1>2, <2>2, <2>3 DEF TypeOK, device
<1> QED BY <1>3, <1>4, <1>5, <1>6 DEF IInv

LEMMA DisconnectKeeps ==
  ASSUME IInv, Disconnect, heal' \in BOOLEAN
  PROVE  IInv' /\ UNCHANGED <<Messages, heard>>
<1>1. /\ up' = FALSE /\ last' = 0 /\ pt' = <<>>
      /\ UNCHANGED <<device, at, rx, buffered, call, history>>
  BY DEF Disconnect
<1>2. TextInv' /\ FrameInv' /\ Messages' = Messages BY <1>1, DeviceKept
<1>3. HeardInv' /\ heard' = heard
  BY <1>1 DEF IInv, HeardInv, Heard!Rising, device, history
<1>4. InStep' /\ ClearInv' /\ HealIsMeant' BY <1>1 DEF InStep, ClearInv, HealIsMeant
<1>5. TypeOK'
  <2>1. TypeOK BY DEF IInv
  <2>2. pt' \in Seq(0 .. Len(text')) BY <1>1
  <2>3. last' \in 0 .. at' BY <1>1, <2>1 DEF TypeOK
  <2> QED BY <1>1, <2>1, <2>2, <2>3 DEF TypeOK, device, call, history
<1> QED BY <1>2, <1>3, <1>4, <1>5 DEF IInv

LEMMA LinkDropsKeeps ==
  ASSUME IInv, LinkDrops
  PROVE  IInv' /\ UNCHANGED <<Messages, heard>>
<1>1. up' = FALSE /\ UNCHANGED <<device, at, reader, call, history>>
  BY DEF LinkDrops
<1>2. TextInv' /\ FrameInv' /\ Messages' = Messages BY <1>1, DeviceKept
<1>3. HeardInv' /\ heard' = heard
  BY <1>1 DEF IInv, HeardInv, Heard!Rising, device, history, reader
<1>4. InStep' /\ ClearInv' /\ HealIsMeant' BY <1>1 DEF InStep, ClearInv, HealIsMeant
<1>5. TypeOK' BY <1>1 DEF IInv, TypeOK, device, call, history, reader
<1> QED BY <1>2, <1>3, <1>4, <1>5 DEF IInv

-----------------------------------------------------------------------------
(* The theorems. *)

LEMMA InitHolds == Init => IInv /\ Heard!Init
<1> SUFFICES ASSUME Init PROVE IInv /\ Heard!Init
  OBVIOUS
<1>1. TypeOK
  <2>1. MaxFaults \in Nat BY ConstantsAssumption
  <2>2. /\ text \in Seq(Cells) /\ frames \in Seq(Frames) /\ heard \in Seq(Nat)
        /\ pt \in Seq(0 .. Len(text))
    BY DEF Init
  <2>3. Len(frames) \in Nat BY <2>2
  <2>4. at = 0 /\ last = 0 BY DEF Init
  <2>5. at \in 0 .. Len(frames) /\ last \in 0 .. at BY <2>3, <2>4
  <2>6. up \in BOOLEAN /\ heal \in BOOLEAN /\ torn \in BOOLEAN BY Zenon DEF Init
  <2>7. rx = 0 /\ buffered = 0 /\ op = "none" /\ since = 0 /\ faults = 0 BY DEF Init
  <2> QED BY <2>1, <2>2, <2>5, <2>6, <2>7 DEF TypeOK
<1>2. TextInv /\ FrameInv /\ HeardInv
  BY DEF Init, TextInv, FrameInv, HeardInv, Heard!Rising
<1>3. InStep /\ ClearInv /\ HealIsMeant
  BY DEF Init, InStep, ClearInv, HealIsMeant
<1>4. Heard!Init BY DEF Init, Heard!Init, Messages
<1> QED BY <1>1, <1>2, <1>3, <1>4 DEF IInv

LEMMA StepHolds ==
  IInv /\ [Next]_vars => IInv' /\ [Heard!Next]_<<Messages, heard>>
<1> SUFFICES ASSUME IInv, [Next]_vars
             PROVE  IInv' /\ [Heard!Next]_<<Messages, heard>>
  OBVIOUS
<1> USE DEF Heard!Next
<1>1. CASE \E o \in {"send", "stream"} : Send(o) BY <1>1, SendKeeps
<1>2. CASE DrainEnds
  BY <1>2, DrainEndsKeeps, DeviceKept DEF DrainEnds
<1>3. CASE disconnect
  <2>1. heal' \in BOOLEAN /\ Disconnect BY <1>3 DEF disconnect, IInv, TypeOK
  <2> QED BY <2>1, DisconnectKeeps
<1>4. CASE Heal BY <1>4, DisconnectKeeps DEF Heal
<1>5. CASE \E n \in Lengths : Says(n)
  <2>1. PICK n \in Lengths : Says(n) BY <1>5
  <2>2. Messages' > Messages BY <2>1, SaysKeeps
  <2>3. heard' = heard BY <2>1 DEF Says, history
  <2> QED BY <2>1, <2>2, <2>3, SaysKeeps DEF Heard!Sends
<1>6. CASE \E n \in 1 .. MaxText : SendsFrame(n)
  <2>1. UNCHANGED <<text, heard>> BY <1>6 DEF SendsFrame, history
  <2>2. UNCHANGED <<Messages, heard>> BY <2>1 DEF Messages
  <2> QED BY <1>6, <2>2, SendsFrameKeeps
<1>7. CASE Delivers
  <2>1. Messages' = Messages BY <1>7 DEF Delivers, device, Messages
  <2> QED BY <1>7, <2>1, DeliversKeeps
<1>8. CASE Loses
  <2>1. UNCHANGED <<Messages, heard>> BY <1>8 DEF Loses, device, Messages
  <2> QED BY <1>8, <2>1, LosesKeeps
<1>9. CASE \E i \in 1 .. at : Repeats(i)
  <2>1. PICK i \in 1 .. at : Repeats(i) BY <1>9
  <2>2. Messages' = Messages BY <2>1 DEF Repeats, device, Messages
  <2> QED BY <2>1, <2>2, RepeatsKeeps
<1>10. CASE LinkDrops BY <1>10, LinkDropsKeeps
<1>11. CASE UNCHANGED vars
  <2>1. UNCHANGED <<up, device, at, reader, call, history>> BY <1>11 DEF vars
  <2>2. TextInv' /\ FrameInv' /\ UNCHANGED <<Messages, DeviceCtr>> /\ UnderWay' = UnderWay
    BY <2>1, DeviceKept, AmidKept
  <2>3. HeardInv' /\ heard' = heard
    BY <2>1 DEF IInv, HeardInv, Heard!Rising, device, history, reader
  <2>4. InStep' /\ ClearInv' /\ HealIsMeant'
    BY <2>1, <2>2 DEF IInv, InStep, ClearInv, HealIsMeant, device, reader, history
  <2>5. TypeOK' BY <2>1 DEF IInv, TypeOK, device, call, history, reader
  <2> QED BY <2>2, <2>3, <2>4, <2>5 DEF IInv
<1> QED BY <1>1, <1>2, <1>3, <1>4, <1>5, <1>6, <1>7, <1>8, <1>9, <1>10, <1>11 DEF Next

(* The variables keep their types.                                         *)
THEOREM TypeCorrect == Spec => []TypeOK
<1>1. IInv => TypeOK BY DEF IInv
<1> QED BY <1>1, InitHolds, StepHolds, PTL DEF Spec

(* What the observer applies are messages of the session, in their order   *)
(* and once each, whatever the link does (_on_notify, decode_inner).       *)
THEOREM ObserverIsDelivery == Spec => Heard!Spec
BY InitHolds, StepHolds, PTL DEF Spec, Heard!Spec

(* The receive counter is that of the next frame until the link errs.      *)
THEOREM CountersInStep == Spec => []InStep
<1>1. IInv => InStep BY DEF IInv
<1> QED BY <1>1, InitHolds, StepHolds, PTL DEF Spec

(* A self-heal without a fault of the link means that a buffer was cleared *)
(* amid a message.                                                         *)
THEOREM HealsAreMeant == Spec => []HealIsMeant
<1>1. IInv => HealIsMeant BY DEF IInv
<1> QED BY <1>1, InitHolds, StepHolds, PTL DEF Spec

-----------------------------------------------------------------------------
(* The least element of a set of numbers, and induction from above.       *)

(* A set of naturals has a least element.                                  *)
LEMMA LeastNatural ==
  ASSUME NEW T, T \subseteq Nat, T # {}
  PROVE  \E x \in T : \A y \in T : x <= y
<1> DEFINE R == OpToRel(<, Nat)
<1>1. IsWellFoundedOn(R, Nat)
  BY NatLessThanWellFounded
<1>2. \A x, y \in Nat : y < x => <<y, x>> \in R
  BY DEF OpToRel
<1> HIDE DEF R
<1>3. PICK x \in T : \A y \in T : ~ (<<y, x>> \in R)
  BY <1>1, WFMin
<1>4. \A y \in T : ~ (y < x)
  BY <1>2, <1>3
<1>5. \A y \in T : x <= y
  BY <1>4
<1> QED BY <1>5

LEMMA MinOf ==
  ASSUME NEW T, T \subseteq Nat, T # {}
  PROVE  Min(T) \in T /\ \A y \in T : Min(T) <= y
<1>1. \E x \in T : \A y \in T : x <= y
  BY LeastNatural
<1> QED BY <1>1 DEF Min

(* What follows for a number from all that are above it holds from N down. *)
LEMMA DownFrom ==
  ASSUME NEW N \in Nat, NEW T,
         \A i \in 1 .. N : (\A j \in i + 1 .. N : j \in T) => i \in T
  PROVE  1 .. N \subseteq T
<1> SUFFICES ASSUME NEW m \in 1 .. N, m \notin T PROVE FALSE
  OBVIOUS
<1> DEFINE U == {u \in 0 .. N - 1 : N - u \notin T}
<1>1. N - m \in U
  OBVIOUS
<1>2. PICK x \in U : \A y \in U : x <= y
  <2>1. U \subseteq Nat /\ U # {}
    <3>1. 0 .. N - 1 \subseteq Nat OBVIOUS
    <3>2. U \subseteq 0 .. N - 1 OBVIOUS
    <3> HIDE DEF U
    <3> QED BY <1>1, <3>1, <3>2
  <2> HIDE DEF U
  <2> QED BY <2>1, LeastNatural
<1>3. ASSUME NEW j \in N - x + 1 .. N PROVE j \in T
  <2>1. N - j \in 0 .. N - 1 /\ N - j < x /\ N - (N - j) = j
    BY <1>2, <1>3
  <2>2. N - j \notin U BY <1>2, <2>1
  <2> QED BY <2>1, <2>2
<1>4. N - x \in 1 .. N /\ N - x \notin T BY <1>2
<1> QED BY <1>3, <1>4

-----------------------------------------------------------------------------
(* The scan. *)

(* From place i the scan finds no header.                                  *)
NoHeader(s, f, i) ==
  /\ \A h \in i .. Len(s) - 1 : ~IsHeader(s[h])
  /\ Scan(s, f, i) = {<<>>}

(* Its first header is at h: one that it cannot follow, one of a message   *)
(* that is not complete, or one of a message.                              *)
FirstHeader(s, f, i, h) ==
  /\ IsHeader(s[h]) /\ s[h] \in DOMAIN text /\ text[s[h]].of \in Nat \ {0, 1}
  /\ \A g \in i .. Len(s) - 1 : IsHeader(s[g]) => h <= g
  /\ \/ /\ s[h + 1] # s[h] + 1
        /\ Scan(s, f, i) = {<<>>} \cup UNION {f[j] : j \in h + 2 .. Len(s) + 1}
     \/ /\ s[h + 1] = s[h] + 1 /\ h + text[s[h]].of > Len(s) + 1
        /\ Scan(s, f, i) = {<<>>}
     \/ /\ s[h + 1] = s[h] + 1 /\ h + text[s[h]].of <= Len(s) + 1
        /\ Scan(s, f, i) = {decode_inner(s, h) \o r : r \in f[h + text[s[h]].of]}

LEMMA ScanCases ==
  ASSUME NEW s \in Seq(0 .. Len(text)), TypeOK, NEW f, NEW i \in 1 .. Len(s) + 1
  PROVE  \/ NoHeader(s, f, i)
         \/ \E h \in i .. Len(s) - 1 : FirstHeader(s, f, i, h)
<1> DEFINE heads == {h \in i .. Len(s) - 1 : IsHeader(s[h])}
           h == Min(heads)
<1>1. CASE heads = {}
  <2>1. Scan(s, f, i) = {<<>>} BY <1>1 DEF Scan
  <2>2. \A k \in i .. Len(s) - 1 : ~IsHeader(s[k]) BY <1>1
  <2> QED BY <2>1, <2>2 DEF NoHeader
<1>2. CASE heads # {}
  <2>1. h \in heads /\ \A y \in heads : h <= y
    <3>1. Len(s) \in Nat OBVIOUS
    <3>2. heads \subseteq Nat BY <3>1
    <3> HIDE DEF heads
    <3> QED BY <3>2, <1>2, MinOf
  <2>2. h \in i .. Len(s) - 1 /\ IsHeader(s[h]) BY <2>1
  <2>3. s[h] \in DOMAIN text
    <3>1. h \in 1 .. Len(s) BY <2>2
    <3>2. s[h] \in 0 .. Len(text) BY <3>1
    <3>3. s[h] # 0 BY <2>2 DEF IsHeader
    <3>4. Len(text) \in Nat /\ DOMAIN text = 1 .. Len(text) BY DEF TypeOK
    <3> HIDE DEF h
    <3> QED BY <3>2, <3>3, <3>4
  <2>4. text[s[h]] \in Cells BY <2>3 DEF TypeOK
  <2>5. text[s[h]].of \in Nat \ {0, 1} BY <2>4 DEF Cells
  <2>6. Scan(s, f, i) =
          IF s[h + 1] # s[h] + 1
          THEN {<<>>} \cup UNION {f[j] : j \in h + 2 .. Len(s) + 1}
          ELSE IF h + text[s[h]].of > Len(s) + 1 THEN {<<>>}
          ELSE {decode_inner(s, h) \o r : r \in f[h + text[s[h]].of]}
    BY <1>2 DEF Scan
  <2>7. \A g \in i .. Len(s) - 1 : IsHeader(s[g]) => h <= g BY <2>1
  <2>8. h \in Nat /\ Len(s) \in Nat BY <2>2
  <2> HIDE DEF h, heads
  <2>9. \/ s[h + 1] # s[h] + 1
        \/ s[h + 1] = s[h] + 1 /\ h + text[s[h]].of > Len(s) + 1
        \/ s[h + 1] = s[h] + 1 /\ ~(h + text[s[h]].of > Len(s) + 1)
                               /\ h + text[s[h]].of <= Len(s) + 1
    <3>1. PICK n \in Nat : n = text[s[h]].of BY <2>5
    <3>2. h + n > Len(s) + 1 \/ h + n <= Len(s) + 1 BY <2>8
    <3>3. h + n <= Len(s) + 1 => ~(h + n > Len(s) + 1) BY <2>8
    <3> QED BY <3>1, <3>2, <3>3, Zenon
  <2>10. CASE s[h + 1] # s[h] + 1
    <3>1. Scan(s, f, i) = {<<>>} \cup UNION {f[j] : j \in h + 2 .. Len(s) + 1}
      BY <2>6, <2>10, Zenon
    <3> QED BY <3>1, <2>2, <2>3, <2>5, <2>7, <2>10, Zenon DEF FirstHeader
  <2>11. CASE s[h + 1] = s[h] + 1 /\ h + text[s[h]].of > Len(s) + 1
    <3>1. Scan(s, f, i) = {<<>>}
      BY <2>6, <2>11, Zenon
    <3> QED BY <3>1, <2>2, <2>3, <2>5, <2>7, <2>11, Zenon DEF FirstHeader
  <2>12. CASE s[h + 1] = s[h] + 1 /\ ~(h + text[s[h]].of > Len(s) + 1)
                               /\ h + text[s[h]].of <= Len(s) + 1
    <3>1. Scan(s, f, i) = {decode_inner(s, h) \o r : r \in f[h + text[s[h]].of]}
      BY <2>6, <2>12, Zenon
    <3> QED BY <3>1, <2>2, <2>3, <2>5, <2>7, <2>12, Zenon DEF FirstHeader
  <2> QED BY <2>9, <2>10, <2>11, <2>12
<1> QED BY <1>1, <1>2

(* The scan from a place uses what it finds from later places only.        *)
LEMMA ScanLocal ==
  ASSUME NEW s \in Seq(0 .. Len(text)), TypeOK, NEW f, NEW g, NEW i \in 1 .. Len(s) + 1,
         \A j \in i + 1 .. Len(s) + 1 : f[j] = g[j]
  PROVE  Scan(s, f, i) = Scan(s, g, i)
<1> DEFINE heads == {h \in i .. Len(s) - 1 : IsHeader(s[h])}
           h == Min(heads)
           n == text[s[h]].of
<1>1. CASE heads = {} BY <1>1 DEF Scan
<1>2. CASE heads # {}
  <2>1. h \in heads
    <3>1. Len(s) \in Nat OBVIOUS
    <3>2. heads \subseteq Nat BY <3>1
    <3> HIDE DEF heads
    <3> QED BY <3>2, <1>2, MinOf
  <2>2. h \in i .. Len(s) - 1 /\ IsHeader(s[h]) BY <2>1
  <2>3. s[h] \in DOMAIN text
    <3>1. h \in 1 .. Len(s) BY <2>2
    <3>2. s[h] \in 0 .. Len(text) BY <3>1
    <3>3. s[h] # 0 BY <2>2 DEF IsHeader
    <3>4. Len(text) \in Nat /\ DOMAIN text = 1 .. Len(text) BY DEF TypeOK
    <3> HIDE DEF h
    <3> QED BY <3>2, <3>3, <3>4
  <2>4. text[s[h]] \in Cells BY <2>3 DEF TypeOK
  <2>5. n \in Nat \ {0, 1} BY <2>4 DEF Cells
  <2>6. \A e : Scan(s, e, i) =
          IF s[h + 1] # s[h] + 1
          THEN {<<>>} \cup UNION {e[j] : j \in h + 2 .. Len(s) + 1}
          ELSE IF h + n > Len(s) + 1 THEN {<<>>}
          ELSE {decode_inner(s, h) \o r : r \in e[h + n]}
    BY <1>2 DEF Scan
  <2>7. h \in i .. Len(s) - 1 /\ Len(s) \in Nat BY <2>2
  <2> HIDE DEF h, heads, n
  <2>8. UNION {f[j] : j \in h + 2 .. Len(s) + 1} = UNION {g[j] : j \in h + 2 .. Len(s) + 1}
    <3>1. \A j \in h + 2 .. Len(s) + 1 : f[j] = g[j] BY <2>7
    <3> QED BY <3>1
  <2>9. ~(h + n > Len(s) + 1) => f[h + n] = g[h + n]
    BY <2>5, <2>7
  <2>10. CASE h + n > Len(s) + 1
    <3>1. /\ Scan(s, f, i) = IF s[h + 1] # s[h] + 1
              THEN {<<>>} \cup UNION {f[j] : j \in h + 2 .. Len(s) + 1} ELSE {<<>>}
          /\ Scan(s, g, i) = IF s[h + 1] # s[h] + 1
              THEN {<<>>} \cup UNION {g[j] : j \in h + 2 .. Len(s) + 1} ELSE {<<>>}
      BY <2>6, <2>10, Zenon
    <3> QED BY <3>1, <2>8, Zenon
  <2>11. CASE ~(h + n > Len(s) + 1)
    <3>1. f[h + n] = g[h + n] BY <2>9, <2>11
    <3> QED BY <2>6, <2>8, <2>11, <3>1, Zenon
  <2> QED BY <2>10, <2>11
<1> QED BY <1>1, <1>2

(* So there is a function of places that the scan is, and the split is the *)
(* scan from the first place on.                                           *)
LEMMA SplitIsScan ==
  ASSUME NEW s \in Seq(0 .. Len(text)), TypeOK
  PROVE  \E f : /\ split_inner_messages(s) = f[1]
                /\ \A i \in 1 .. Len(s) + 1 : f[i] = Scan(s, f, i)
<1> DEFINE N == Len(s) + 1
           T == {i \in 1 .. N + 1 :
                   \E f : /\ f = [j \in i .. N |-> f[j]]
                          /\ \A j \in i .. N : f[j] = Scan(s, f, j)}
<1>1. N \in Nat OBVIOUS
<1>2. ASSUME NEW i \in 1 .. N + 1, \A j \in i + 1 .. N + 1 : j \in T
      PROVE  i \in T
  <2>1. CASE i = N + 1
    <3>1. i .. N = {} BY <2>1, <1>1
    <3> DEFINE f == [j \in i .. N |-> j]
    <3>2. f = [j \in i .. N |-> f[j]] OBVIOUS
    <3> QED BY <3>1, <3>2
  <2>2. CASE i # N + 1
    <3>1. i \in 1 .. N /\ i + 1 \in T
      <4> HIDE DEF N, T
      <4>1. i \in 1 .. N /\ i + 1 \in i + 1 .. N + 1 BY <1>1, <2>2
      <4> QED BY <4>1, <1>2
    <3>2. PICK f : \A j \in i + 1 .. N : f[j] = Scan(s, f, j) BY <3>1
    <3> DEFINE g == [j \in i .. N |-> IF j = i THEN Scan(s, f, i) ELSE f[j]]
    <3>3. \A j \in i + 1 .. N : g[j] = f[j] BY <3>1, <1>1
    <3>4. g[i] = Scan(s, f, i) BY <3>1, <1>1
    <3>5. g = [j \in i .. N |-> g[j]] OBVIOUS
    <3> HIDE DEF g
    <3>6. ASSUME NEW j \in i .. N PROVE g[j] = Scan(s, g, j)
      <4>1. j \in 1 .. Len(s) + 1 BY <3>1, <1>1
      <4>2. \A k \in j + 1 .. Len(s) + 1 : f[k] = g[k] BY <3>1, <3>3, <1>1
      <4>3. Scan(s, f, j) = Scan(s, g, j) BY <4>1, <4>2, ScanLocal
      <4>4. g[j] = Scan(s, f, j)
        <5>1. CASE j = i BY <5>1, <3>4
        <5>2. CASE j # i
          <6>1. j \in i + 1 .. N BY <5>2, <3>1, <1>1
          <6> QED BY <6>1, <3>2, <3>3
        <5> QED BY <5>1, <5>2
      <4> QED BY <4>3, <4>4
    <3> QED BY <3>5, <3>6
  <2> QED BY <2>1, <2>2
<1>3. 1 \in T
  <2> HIDE DEF T
  <2>1. N + 1 \in Nat /\ 1 \in 1 .. N + 1 BY <1>1
  <2> HIDE DEF N
  <2>2. 1 .. N + 1 \subseteq T BY <1>2, <2>1, DownFrom
  <2> QED BY <2>1, <2>2
<1>4. PICK f : /\ f = [j \in 1 .. N |-> f[j]]
               /\ \A j \in 1 .. N : f[j] = Scan(s, f, j)
  BY <1>3
<1>5. f = [i \in 1 .. Len(s) + 1 |-> Scan(s, f, i)]
  BY <1>4
<1> DEFINE from == CHOOSE e : e = [i \in 1 .. Len(s) + 1 |-> Scan(s, e, i)]
<1>6. from = [i \in 1 .. Len(s) + 1 |-> Scan(s, from, i)]
  BY <1>5
<1>7. split_inner_messages(s) = from[1]
  BY DEF split_inner_messages
<1> HIDE DEF from
<1>8. \A i \in 1 .. Len(s) + 1 : from[i] = Scan(s, from, i) BY <1>6
<1> QED BY <1>7, <1>8

(* A sequence with one number put in front.                                *)
LEMMA InFront ==
  ASSUME NEW m \in Nat, NEW r \in Seq(Nat)
  PROVE  /\ <<m>> \o r \in Seq(Nat) /\ Len(<<m>> \o r) = Len(r) + 1
         /\ (<<m>> \o r)[1] = m
         /\ \A k \in 2 .. Len(r) + 1 : k - 1 \in 1 .. Len(r) /\ (<<m>> \o r)[k] = r[k - 1]
<1>1. <<m>> \in Seq(Nat) /\ Len(<<m>>) = 1 /\ <<m>>[1] = m OBVIOUS
<1>2. /\ <<m>> \o r \in Seq(Nat) /\ Len(<<m>> \o r) = Len(<<m>>) + Len(r)
      /\ \A k \in 1 .. Len(<<m>>) + Len(r) : (<<m>> \o r)[k] =
                     IF k <= Len(<<m>>) THEN <<m>>[k] ELSE r[k - Len(<<m>>)]
  BY <1>1, ConcatProperties
<1> DEFINE q == <<m>> \o r
           o == <<m>>
<1>3. /\ q \in Seq(Nat) /\ Len(q) = 1 + Len(r) /\ o[1] = m
      /\ \A k \in 1 .. 1 + Len(r) : q[k] = IF k <= 1 THEN o[k] ELSE r[k - 1]
  BY <1>1, <1>2, Zenon
<1> HIDE DEF q, o
<1>4. Len(r) \in Nat OBVIOUS
<1>5. q[1] = m BY <1>3, <1>4
<1>6. \A k \in 2 .. Len(r) + 1 : k - 1 \in 1 .. Len(r) /\ q[k] = r[k - 1]
  BY <1>3, <1>4
<1> QED BY <1>3, <1>4, <1>5, <1>6 DEF q

(* What a message decodes to, when its header is where one is.             *)
LEMMA DecodeInner ==
  ASSUME TypeOK, NEW s, NEW h, s[h] \in DOMAIN text
  PROVE  /\ text[s[h]].msg \in Nat
         /\ decode_inner(s, h) = <<>> \/ decode_inner(s, h) = <<text[s[h]].msg>>
<1>1. text[s[h]] \in Cells BY DEF TypeOK
<1> QED BY <1>1 DEF Cells, decode_inner

(* The numbers in r are of messages with headers in s from place i on,     *)
(* each of them once and in their order.                                   *)
Found(s, i, r) ==
  /\ r \in Seq(Nat)
  /\ Heard!Rising(r)
  /\ \A k \in DOMAIN r : \E h \in i .. Len(s) : IsHeader(s[h]) /\ r[k] = text[s[h]].msg

Ordered(s) == \A j, k \in DOMAIN s : j < k /\ s[j] # 0 /\ s[k] # 0 => s[j] < s[k]

(* Nothing is found but messages that were said, if the places of s follow *)
(* each other in the text.                                                 *)
LEMMA SplitIsSound ==
  ASSUME TypeOK, TextInv, NEW s \in Seq(0 .. Len(text)), Ordered(s),
         NEW q \in split_inner_messages(s)
  PROVE  Found(s, 1, q)
<1>1. PICK f : /\ split_inner_messages(s) = f[1]
               /\ \A i \in 1 .. Len(s) + 1 : f[i] = Scan(s, f, i)
  BY SplitIsScan
<1> DEFINE N == Len(s) + 1
           T == {i \in 1 .. N : \A r \in f[i] : Found(s, i, r)}
<1>2. N \in Nat /\ 1 \in 1 .. N /\ Len(s) \in Nat OBVIOUS
<1>8. /\ DOMAIN s = 1 .. Len(s)
      /\ \A g \in 1 .. Len(s) : s[g] \in 0 .. Len(text)
  OBVIOUS
<1>3. \A i : Found(s, i, <<>>)
  BY DEF Found, Heard!Rising
<1>4. ASSUME NEW i \in 1 .. N, NEW j \in i .. N, NEW r, Found(s, j, r)
      PROVE  Found(s, i, r)
  <2>1. j .. Len(s) \subseteq i .. Len(s) BY <1>2
  <2> QED BY <2>1, <1>4 DEF Found
<1>5. ASSUME NEW i \in 1 .. N, \A j \in i + 1 .. N : j \in T
      PROVE  i \in T
  <2> SUFFICES ASSUME NEW r \in Scan(s, f, i) PROVE Found(s, i, r)
    BY <1>1
  <2>1. CASE Scan(s, f, i) = {<<>>} BY <2>1, <1>3
  <2>2. ASSUME NEW h \in i .. Len(s) - 1,
               Scan(s, f, i) = {<<>>} \cup UNION {f[j] : j \in h + 2 .. Len(s) + 1}
        PROVE  Found(s, i, r)
    <3>1. CASE r = <<>> BY <3>1, <1>3
    <3>2. CASE r \in UNION {f[j] : j \in h + 2 .. Len(s) + 1}
      <4>1. PICK j \in h + 2 .. Len(s) + 1 : r \in f[j] BY <3>2
      <4>2. j \in i + 1 .. N /\ j \in i .. N BY <1>2
      <4>3. Found(s, j, r) BY <4>1, <4>2, <1>5
      <4> QED BY <4>2, <4>3, <1>4
    <3> QED BY <2>2, <3>1, <3>2
  <2>3. ASSUME NEW h \in i .. Len(s) - 1, IsHeader(s[h]), s[h] \in DOMAIN text,
               text[s[h]].of \in Nat \ {0, 1}, h + text[s[h]].of <= Len(s) + 1,
               Scan(s, f, i) = {decode_inner(s, h) \o e : e \in f[h + text[s[h]].of]}
        PROVE  Found(s, i, r)
    <3> DEFINE j == h + text[s[h]].of
               m == text[s[h]].msg
    <3>1. PICK e \in f[j] : r = decode_inner(s, h) \o e BY <2>3
    <3>2. j \in i + 1 .. N /\ j \in i .. N /\ h < j /\ h \in i .. Len(s) /\ h \in 1 .. Len(s)
      <4>1. PICK o \in Nat \ {0, 1} : o = text[s[h]].of BY <2>3
      <4>2. h + o <= N BY <2>3, <4>1
      <4>3. h \in Nat /\ h \in i .. Len(s) /\ h \in 1 .. Len(s) BY <1>2
      <4>4. i \in Nat /\ i <= h BY <4>3
      <4>5. h + o \in i + 1 .. N /\ h + o \in i .. N /\ h < h + o
        <5> HIDE DEF N
        <5> QED BY <1>2, <4>2, <4>3, <4>4
      <4> QED BY <4>1, <4>3, <4>5
    <3>3. Found(s, j, e) BY <3>1, <3>2, <1>5
    <3>4. m \in Nat /\ (decode_inner(s, h) = <<>> \/ decode_inner(s, h) = <<m>>)
      BY <2>3, DecodeInner
    <3>5. CASE decode_inner(s, h) = <<>>
      <4>1. <<>> \o e = e BY <3>3, ConcatEmptySeq DEF Found
      <4>2. r = e BY <4>1, <3>1, <3>5
      <4> QED BY <4>2, <3>2, <3>3, <1>4
    <3>6. CASE decode_inner(s, h) = <<m>>
      <4>1. e \in Seq(Nat) /\ Len(e) \in Nat /\ DOMAIN e = 1 .. Len(e)
        BY <3>3 DEF Found
      <4> HIDE DEF m
      <4>2. r = <<m>> \o e BY <3>1, <3>6
      <4>3. /\ r \in Seq(Nat) /\ Len(r) = Len(e) + 1 /\ r[1] = m
            /\ \A k \in 2 .. Len(e) + 1 : k - 1 \in 1 .. Len(e) /\ r[k] = e[k - 1]
        BY <3>4, <4>1, <4>2, InFront
      <4>4. DOMAIN r = 1 .. Len(e) + 1 BY <4>3
      <4>5. \A k \in 1 .. Len(e) : m < e[k]
        <5> TAKE k \in 1 .. Len(e)
        <5>1. PICK g \in j .. Len(s) : IsHeader(s[g]) /\ e[k] = text[s[g]].msg
          BY <3>3, <4>1 DEF Found
        <5>2. g \in 1 .. Len(s) /\ h < g
          <6> HIDE DEF j, N
          <6>1. j \in Nat /\ h \in Nat /\ 1 <= h /\ h < j BY <3>2, <1>2
          <6>2. g \in Nat /\ j <= g /\ g <= Len(s) BY <6>1, <1>2
          <6> QED BY <6>1, <6>2, <1>2
        <5>3. s[g] \in 0 .. Len(text) /\ s[g] # 0 /\ text[s[g]].part = 1 /\ s[h] # 0
          <6>1. s[g] \in 0 .. Len(text) BY <5>2, <1>8, Zenon
          <6>2. s[g] # 0 /\ text[s[g]].part = 1 BY <5>1 DEF IsHeader
          <6>3. s[h] # 0 BY <2>3 DEF IsHeader
          <6> QED BY <6>1, <6>2, <6>3
        <5>4. s[h] < s[g]
          <6>1. h \in DOMAIN s /\ g \in DOMAIN s BY <5>2, <3>2, <1>8, Zenon
          <6> QED BY <6>1, <5>2, <5>3, Zenon DEF Ordered
        <5>5. s[g] \in DOMAIN text
          <6>1. Len(text) \in Nat /\ DOMAIN text = 1 .. Len(text) BY DEF TypeOK
          <6>2. \A a \in 0 .. Len(text) : a # 0 => a \in DOMAIN text BY <6>1
          <6> QED BY <5>3, <6>2, Zenon
        <5> QED BY <5>1, <5>3, <5>4, <5>5, <2>3 DEF TextInv, m
      <4>6. Heard!Rising(r)
        <5> SUFFICES ASSUME NEW a \in 1 .. Len(e) + 1, NEW b \in 1 .. Len(e) + 1, a < b
                     PROVE  r[a] < r[b]
          BY <4>4 DEF Heard!Rising
        <5>1. b \in 2 .. Len(e) + 1 BY <4>1
        <5>2. b - 1 \in 1 .. Len(e) /\ r[b] = e[b - 1] BY <5>1, <4>3
        <5>3. CASE a = 1 BY <5>2, <5>3, <4>3, <4>5
        <5>4. CASE a # 1
          <6>1. a \in 2 .. Len(e) + 1 BY <5>4, <4>1
          <6>2. a - 1 \in 1 .. Len(e) /\ r[a] = e[a - 1] BY <6>1, <4>3
          <6>3. a - 1 < b - 1 BY <4>1
          <6> QED BY <5>2, <6>2, <6>3, <4>1, <3>3 DEF Found, Heard!Rising
        <5> QED BY <5>3, <5>4
      <4>7. \A k \in DOMAIN r : \E g \in i .. Len(s) : IsHeader(s[g]) /\ r[k] = text[s[g]].msg
        <5> TAKE k \in DOMAIN r
        <5>1. CASE k = 1 BY <5>1, <3>2, <2>3, <4>3 DEF m
        <5>2. CASE k # 1
          <6>1. k \in 2 .. Len(e) + 1 BY <5>2, <4>1, <4>4
          <6>2. k - 1 \in DOMAIN e /\ r[k] = e[k - 1] BY <6>1, <4>1, <4>3
          <6>3. PICK g \in j .. Len(s) : IsHeader(s[g]) /\ r[k] = text[s[g]].msg
            BY <6>2, <3>3 DEF Found
          <6>4. g \in i .. Len(s)
            <7> HIDE DEF j
            <7> QED BY <3>2, <1>2
          <6> QED BY <6>3, <6>4
        <5> QED BY <5>1, <5>2
      <4> QED BY <4>3, <4>6, <4>7 DEF Found
    <3> QED BY <3>4, <3>5, <3>6
  <2> HIDE DEF T
  <2>4. CASE NoHeader(s, f, i) BY <2>1, <2>4 DEF NoHeader
  <2>5. ASSUME NEW h \in i .. Len(s) - 1, FirstHeader(s, f, i, h)
        PROVE  Found(s, i, r)
    <3> HIDE DEF N
    <3> QED BY <2>1, <2>2, <2>3, <2>5, Zenon DEF FirstHeader
  <2>6. i \in 1 .. Len(s) + 1 OBVIOUS
  <2> HIDE DEF N
  <2> QED BY <2>4, <2>5, <2>6, ScanCases
<1> HIDE DEF T
<1>6. 1 .. N \subseteq T
  <2> HIDE DEF N
  <2> QED BY <1>2, <1>5, DownFrom
<1> QED BY <1>1, <1>2, <1>6 DEF T

(* Every cell is of a message that was said whole.                         *)
WholeInv ==
  \A i \in DOMAIN text : \E h \in 1 .. i :
    /\ h + text[i].of - 1 <= Len(text)
    /\ i = h + text[i].part - 1
    /\ text[i].part <= text[i].of
    /\ \A d \in 1 .. text[i].of :
         text[h + d - 1] = [msg |-> text[i].msg, part |-> d, of |-> text[i].of]

(* r has the number of every message that is whole in s from place i on.   *)
HasAll(s, i, r) ==
  /\ r \in Seq(Nat)
  /\ \A h \in i .. Len(s) :
       IsHeader(s[h]) /\ h + text[s[h]].of <= Len(s) + 1
       => \E k \in DOMAIN r : r[k] = text[s[h]].msg

(* No header is inside of a message.                                       *)
LEMMA NoneInside ==
  ASSUME TypeOK, WholeInv, NEW p \in DOMAIN text, text[p].part = 1,
         NEW q \in DOMAIN text, text[q].part = 1, p < q
  PROVE  p + text[p].of <= q
<1>1. PICK h \in 1 .. p : /\ h + text[p].of - 1 <= Len(text) /\ p = h + 1 - 1
                          /\ \A d \in 1 .. text[p].of :
                               text[h + d - 1] = [msg |-> text[p].msg, part |-> d, of |-> text[p].of]
  BY DEF WholeInv
<1>2. p \in Nat /\ q \in Nat /\ h = p
  <2>1. Len(text) \in Nat /\ DOMAIN text = 1 .. Len(text) BY DEF TypeOK
  <2> QED BY <2>1, <1>1
<1>3. text[p] \in Cells BY DEF TypeOK
<1>4. text[p].of \in Nat BY <1>3 DEF Cells
<1>5. ASSUME q < p + text[p].of PROVE FALSE
  <2>1. q - p + 1 \in 1 .. text[p].of /\ p + (q - p + 1) - 1 = q BY <1>2, <1>4, <1>5
  <2> DEFINE d == q - p + 1
  <2>2. d # 1 BY <1>2, <1>5
  <2> HIDE DEF d
  <2>3. text[h + d - 1] = [msg |-> text[p].msg, part |-> d, of |-> text[p].of]
    BY <1>1, <2>1 DEF d
  <2>4. text[h + d - 1].part = d BY <2>3
  <2>5. h + d - 1 = q BY <1>2, <2>1 DEF d
  <2> QED BY <2>2, <2>4, <2>5
<1> QED BY <1>2, <1>4, <1>5

(* A stretch of the text without a gap is split into all the messages that *)
(* are whole in it.                                                        *)
LEMMA SplitIsComplete ==
  ASSUME TypeOK, WholeInv, NEW s \in Seq(0 .. Len(text)), NEW B \in Nat,
         \A j \in 1 .. Len(s) : s[j] = B + j,
         NEW q \in split_inner_messages(s)
  PROVE  HasAll(s, 1, q)
<1>1. PICK f : /\ split_inner_messages(s) = f[1]
               /\ \A i \in 1 .. Len(s) + 1 : f[i] = Scan(s, f, i)
  BY SplitIsScan
<1> DEFINE N == Len(s) + 1
           T == {i \in 1 .. N : \A r \in f[i] : HasAll(s, i, r)}
<1>2. N \in Nat /\ 1 \in 1 .. N /\ Len(s) \in Nat OBVIOUS
<1>3. \A h \in 1 .. Len(s) : s[h] = B + h /\ s[h] \in 0 .. Len(text)
  OBVIOUS
<1>4. \A h \in 1 .. Len(s) : IsHeader(s[h]) =>
        s[h] \in DOMAIN text /\ text[s[h]].part = 1 /\ text[s[h]].of \in Nat \ {0, 1}
  <2> SUFFICES ASSUME NEW h \in 1 .. Len(s), IsHeader(s[h])
               PROVE  s[h] \in DOMAIN text /\ text[s[h]].part = 1 /\ text[s[h]].of \in Nat \ {0, 1}
    OBVIOUS
  <2>1. s[h] \in DOMAIN text /\ text[s[h]].part = 1
    BY <1>3 DEF IsHeader, TypeOK
  <2>2. text[s[h]] \in Cells BY <2>1 DEF TypeOK
  <2> QED BY <2>1, <2>2 DEF Cells
<1>5. ASSUME NEW i \in 1 .. N, \A j \in i + 1 .. N : j \in T
      PROVE  i \in T
  <2> SUFFICES ASSUME NEW r \in Scan(s, f, i) PROVE HasAll(s, i, r)
    BY <1>1
  <2>1. ASSUME \A h \in i .. Len(s) - 1 : ~IsHeader(s[h]), Scan(s, f, i) = {<<>>}
        PROVE  HasAll(s, i, r)
    <3> SUFFICES ASSUME NEW h \in i .. Len(s), IsHeader(s[h]),
                        h + text[s[h]].of <= Len(s) + 1
                 PROVE  FALSE
      BY <2>1 DEF HasAll
    <3>1. h \in 1 .. Len(s) BY <1>2
    <3>2. PICK n \in Nat \ {0, 1} : n = text[s[h]].of BY <3>1, <1>4
    <3>3. h + n <= Len(s) + 1 BY <3>2
    <3>4. h \in i .. Len(s) - 1 BY <3>1, <3>3, <1>2
    <3> QED BY <3>4, <2>1
  <2>2. ASSUME NEW h \in i .. Len(s) - 1, s[h + 1] # s[h] + 1
        PROVE  HasAll(s, i, r)
    <3>1. h \in 1 .. Len(s) /\ h + 1 \in 1 .. Len(s) BY <1>2
    <3>2. s[h] = B + h /\ s[h + 1] = B + (h + 1) BY <1>3, <3>1
    <3> QED BY <3>1, <3>2, <2>2
  <2>3. ASSUME NEW h \in i .. Len(s) - 1, IsHeader(s[h]),
               \A g \in i .. Len(s) - 1 : IsHeader(s[g]) => h <= g,
               h + text[s[h]].of > Len(s) + 1, Scan(s, f, i) = {<<>>}
        PROVE  HasAll(s, i, r)
    <3> SUFFICES ASSUME NEW g \in i .. Len(s), IsHeader(s[g]),
                        g + text[s[g]].of <= Len(s) + 1
                 PROVE  FALSE
      BY <2>3 DEF HasAll
    <3>1. g \in 1 .. Len(s) /\ h \in 1 .. Len(s) BY <1>2
    <3>2. PICK n \in Nat \ {0, 1} : n = text[s[g]].of BY <3>1, <1>4
    <3>3. PICK m \in Nat : m = text[s[h]].of BY <3>1, <1>4, <2>3
    <3>4. g + n <= Len(s) + 1 /\ h + m > Len(s) + 1 BY <2>3, <3>2, <3>3
    <3>5. g \in i .. Len(s) - 1 BY <3>1, <3>4, <1>2
    <3>6. h <= g BY <3>5, <2>3
    <3>7. h # g
      <4>1. h = g => m = n BY <3>2, <3>3, Zenon
      <4> QED BY <4>1, <3>1, <3>4
    <3>8. s[h] = B + h /\ s[g] = B + g BY <1>3, <3>1
    <3>9. s[h] < s[g] BY <3>1, <3>6, <3>7, <3>8
    <3>10. s[h] + m <= s[g] BY <3>1, <3>3, <3>9, <1>4, <2>3, NoneInside
    <3>11. h + m <= g BY <3>1, <3>8, <3>10
    <3> QED BY <3>1, <3>4, <3>11, <1>2
  <2>4. ASSUME NEW h \in i .. Len(s) - 1, IsHeader(s[h]), s[h] \in DOMAIN text,
               \A g \in i .. Len(s) - 1 : IsHeader(s[g]) => h <= g,
               text[s[h]].of \in Nat \ {0, 1}, h + text[s[h]].of <= Len(s) + 1,
               Scan(s, f, i) = {decode_inner(s, h) \o e : e \in f[h + text[s[h]].of]}
        PROVE  HasAll(s, i, r)
    <3> DEFINE n == text[s[h]].of
               m == text[s[h]].msg
    <3>1. PICK e \in f[h + n] : r = decode_inner(s, h) \o e BY <2>4
    <3>2. h + n \in i + 1 .. N /\ h \in i .. Len(s) /\ h \in 1 .. Len(s)
      <4>1. n \in Nat \ {0, 1} /\ h + n <= N BY <2>4
      <4>2. h \in Nat /\ h \in i .. Len(s) /\ h \in 1 .. Len(s) BY <1>2
      <4>3. i \in Nat /\ i <= h BY <4>2
      <4>4. h + n \in i + 1 .. N
        <5> HIDE DEF N, n
        <5> QED BY <1>2, <4>1, <4>2, <4>3
      <4> QED BY <4>2, <4>4
    <3>3. HasAll(s, h + n, e) BY <3>1, <3>2, <1>5
    <3>4. e \in Seq(Nat) /\ Len(e) \in Nat /\ DOMAIN e = 1 .. Len(e)
      BY <3>3 DEF HasAll
    <3>5. m \in Nat BY <2>4, DecodeInner
    <3>6. decode_inner(s, h) = <<m>>
      <4>1. h + n - 1 <= Len(s)
        <5>1. n \in Nat /\ h + n <= Len(s) + 1 BY <2>4
        <5> HIDE DEF n
        <5> QED BY <5>1, <3>2, <1>2
      <4>2. ASSUME NEW j \in 1 .. n - 1 PROVE s[h + j] = s[h] + j
        <5>1. h + j \in 1 .. Len(s)
          <6>1. n \in Nat BY <2>4
          <6> HIDE DEF n
          <6> QED BY <3>2, <4>1, <6>1, <1>2
        <5>2. s[h] = B + h /\ s[h + j] = B + (h + j) BY <1>3, <3>2, <5>1
        <5> QED BY <5>2, <3>2, <2>4
      <4> QED BY <2>4, <4>1, <4>2 DEF decode_inner
    <3> HIDE DEF m, n
    <3>7. /\ r \in Seq(Nat) /\ Len(r) = Len(e) + 1 /\ r[1] = m
          /\ \A k \in 2 .. Len(e) + 1 : k - 1 \in 1 .. Len(e) /\ r[k] = e[k - 1]
      <4>1. r = <<m>> \o e BY <3>1, <3>6
      <4> QED BY <4>1, <3>4, <3>5, InFront
    <3>8. DOMAIN r = 1 .. Len(e) + 1 BY <3>7
    <3>9. ASSUME NEW g \in i .. Len(s), IsHeader(s[g]), g + text[s[g]].of <= Len(s) + 1
          PROVE  \E k \in DOMAIN r : r[k] = text[s[g]].msg
      <4>1. g \in 1 .. Len(s) BY <1>2
      <4>2. text[s[g]].of \in Nat \ {0, 1} BY <4>1, <1>4, <3>9
      <4>3. h <= g
        <5>1. g \in i .. Len(s) - 1
          <6>1. PICK o \in Nat \ {0, 1} : o = text[s[g]].of BY <4>2
          <6>2. g + o <= Len(s) + 1 BY <3>9, <6>1
          <6> QED BY <4>1, <6>2, <1>2
        <5> QED BY <5>1, <2>4, <3>9
      <4>4. CASE g = h
        <5>1. 1 \in DOMAIN r BY <3>8, <3>4
        <5> QED BY <5>1, <4>4, <3>7 DEF m
      <4>5. CASE g # h
        <5>1. s[h] = B + h /\ s[g] = B + g BY <1>3, <3>2, <4>1
        <5>2. s[h] < s[g] BY <5>1, <4>1, <4>3, <4>5, <3>2
        <5>3. s[h] + n <= s[g] BY <3>2, <3>9, <4>1, <5>2, <1>4, <2>4, NoneInside DEF n
        <5>4. n \in Nat BY <2>4 DEF n
        <5>5. g \in h + n .. Len(s) BY <5>1, <5>3, <5>4, <4>1, <3>2, <1>2
        <5>6. PICK k \in DOMAIN e : e[k] = text[s[g]].msg
          BY <5>5, <3>3, <3>9 DEF HasAll
        <5>7. k + 1 \in 2 .. Len(e) + 1 /\ (k + 1) - 1 = k
          <6>1. PICK a \in Nat : a = Len(e) BY <3>4
          <6>2. k \in 1 .. a BY <6>1, <3>4, Zenon
          <6>3. k + 1 \in 2 .. a + 1 /\ (k + 1) - 1 = k BY <6>1, <6>2
          <6> QED BY <6>1, <6>3, Zenon
        <5>8. r[k + 1] = e[k] /\ k + 1 \in DOMAIN r
          <6>1. r[k + 1] = e[k] BY <5>7, <3>7, Zenon
          <6>2. PICK a \in Nat : a = Len(e) BY <3>4
          <6>3. k + 1 \in 1 .. a + 1 BY <6>2, <5>7
          <6> QED BY <6>1, <6>2, <6>3, <3>8, Zenon
        <5> QED BY <5>6, <5>8
      <4> QED BY <4>4, <4>5
    <3> QED BY <3>7, <3>9 DEF HasAll
  <2> HIDE DEF T
  <2>5. CASE NoHeader(s, f, i) BY <2>1, <2>5 DEF NoHeader
  <2>6. ASSUME NEW h \in i .. Len(s) - 1, FirstHeader(s, f, i, h)
        PROVE  HasAll(s, i, r)
    <3> HIDE DEF N
    <3> QED BY <2>2, <2>3, <2>4, <2>6, Zenon DEF FirstHeader
  <2>7. i \in 1 .. Len(s) + 1 OBVIOUS
  <2> HIDE DEF N
  <2> QED BY <2>5, <2>6, <2>7, ScanCases
<1> HIDE DEF T
<1>6. 1 .. N \subseteq T
  <2> HIDE DEF N
  <2> QED BY <1>2, <1>5, DownFrom
<1> QED BY <1>1, <1>2, <1>6 DEF T

-----------------------------------------------------------------------------
(* What has been read, what send_stream returns, and what is drained.      *)

(* Place p of the text is in a frame below the receive counter.            *)
Read(p) ==
  \E i \in DOMAIN frames : frames[i].ctr < rx /\ p \in frames[i].from .. frames[i].to

(* The drained places were read, and follow each other in the text.        *)
PlacesInv == Ordered(pt) /\ \A j \in DOMAIN pt : pt[j] # 0 => Read(pt[j])

(* What was returned was read, in order, and before what is drained now.   *)
StreamedInv ==
  /\ streamed \in Seq(Nat)
  /\ Streamed!Rising(streamed)
  /\ \A k \in DOMAIN streamed :
       \E p \in DOMAIN text : Read(p) /\ text[p].part = 1 /\ text[p].msg = streamed[k]
  /\ \A k \in DOMAIN streamed, j \in DOMAIN pt :
       IsHeader(pt[j]) => streamed[k] < text[pt[j]].msg

(* On a link without a fault the drained places are the text up to where   *)
(* the link is, but for messages that were said before the request.        *)
ReplyInv ==
  up /\ faults = 0 /\ op = "stream" =>
    /\ Len(pt) <= SentTo(at)
    /\ \A j \in 1 .. Len(pt) : pt[j] = SentTo(at) - Len(pt) + j
    /\ \A p \in 1 .. SentTo(at) - Len(pt) : text[p].msg <= since

RInv == WholeInv /\ PlacesInv /\ StreamedInv /\ ReplyInv

(* Where a frame is.                                                       *)
LEMMA FramePlaces ==
  ASSUME IInv, NEW i \in DOMAIN frames
  PROVE  /\ frames[i].from \in 1 .. Len(text) /\ frames[i].to \in 1 .. Len(text)
         /\ frames[i].from <= frames[i].to
         /\ frames[i].ctr \in Nat /\ Blocks(frames[i]) \in Nat \ {0}
<1>1. frames[i] \in Frames BY DEF IInv, TypeOK
<1>2. frames[i].from <= frames[i].to /\ frames[i].to <= Len(text)
  BY DEF IInv, FrameInv
<1>3. Blocks(frames[i]) \in Nat \ {0} BY OperatorsTyped DEF IInv
<1>4. Len(text) \in Nat BY DEF IInv, TypeOK
<1>5. frames[i].from \in Nat \ {0} /\ frames[i].to \in Nat \ {0} /\ frames[i].ctr \in Nat
  BY <1>1 DEF Frames
<1> QED BY <1>2, <1>3, <1>4, <1>5

(* A frame at the receive counter, or above, comes after all that was read. *)
LEMMA ReadBelow ==
  ASSUME IInv, NEW p, Read(p), NEW i \in DOMAIN frames, ~(frames[i].ctr < rx)
  PROVE  p \in DOMAIN text /\ p < frames[i].from
<1>1. PICK j \in DOMAIN frames : frames[j].ctr < rx /\ p \in frames[j].from .. frames[j].to
  BY DEF Read
<1>2. /\ i \in Nat /\ j \in Nat /\ rx \in Nat /\ Len(text) \in Nat
      /\ DOMAIN text = 1 .. Len(text)
  BY DEF IInv, TypeOK
<1>3. /\ frames[i].ctr \in Nat /\ frames[j].ctr \in Nat /\ frames[i].from \in Nat
      /\ frames[j].from \in 1 .. Len(text) /\ frames[j].to \in 1 .. Len(text)
  BY FramePlaces
<1>4. ~(i < j) /\ i # j
  <2>1. i < j => frames[i].ctr < frames[j].ctr BY DEF IInv, FrameInv
  <2> QED BY <1>1, <1>2, <1>3, <2>1
<1>5. j < i BY <1>2, <1>4
<1>6. frames[j].to < frames[i].from BY <1>5 DEF IInv, FrameInv
<1> QED BY <1>1, <1>2, <1>3, <1>6

(* The cells of a decrypted frame.                                         *)
LEMMA DecryptPlaces ==
  ASSUME IInv, NEW i \in DOMAIN frames, NEW c \in Nat
  PROVE  /\ decrypt(frames[i], c) \in Seq(0 .. Len(text))
         /\ Len(decrypt(frames[i], c)) = frames[i].to - frames[i].from + 1
         /\ \A j \in 1 .. frames[i].to - frames[i].from + 1 : decrypt(frames[i], c)[j] =
              IF frames[i].ctr = c THEN frames[i].from + j - 1 ELSE 0
<1> DEFINE n == frames[i].to - frames[i].from + 1
           p == decrypt(frames[i], c)
<1>1. n \in Nat BY FramePlaces
<1>2. p \in Seq(0 .. Len(text)) BY DecryptTyped DEF IInv
<1>3. p = [j \in 1 .. n |-> IF frames[i].ctr = c THEN frames[i].from + j - 1 ELSE 0]
  BY DEF decrypt
<1> HIDE DEF p, n
<1>4. DOMAIN p = 1 .. n BY <1>3
<1>5. Len(p) = n BY <1>1, <1>2, <1>4
<1>6. \A j \in 1 .. n : p[j] = IF frames[i].ctr = c THEN frames[i].from + j - 1 ELSE 0
  BY <1>3
<1> QED BY <1>2, <1>5, <1>6 DEF p, n

(* Two sequences of places joined.                                         *)
LEMMA PlacesJoined ==
  ASSUME NEW S, NEW q \in Seq(S), NEW p \in Seq(S)
  PROVE  /\ q \o p \in Seq(S) /\ Len(q \o p) = Len(q) + Len(p)
         /\ \A j \in 1 .. Len(q) : (q \o p)[j] = q[j]
         /\ \A j \in Len(q) + 1 .. Len(q) + Len(p) :
              j - Len(q) \in 1 .. Len(p) /\ (q \o p)[j] = p[j - Len(q)]
<1>1. /\ q \o p \in Seq(S) /\ Len(q \o p) = Len(q) + Len(p)
      /\ \A j \in 1 .. Len(q) + Len(p) : (q \o p)[j] =
                     IF j <= Len(q) THEN q[j] ELSE p[j - Len(q)]
  BY ConcatProperties
<1>2. Len(q) \in Nat /\ Len(p) \in Nat OBVIOUS
<1> QED BY <1>1, <1>2

(* A frame that is taken adds places after all that were read.             *)
LEMMA NotifyReads ==
  ASSUME IInv, RInv, NEW i \in DOMAIN frames, _on_notify(i),
         UNCHANGED <<text, frames, streamed>>
  PROVE  PlacesInv' /\ StreamedInv'
<1>1. TypeOK /\ TextInv /\ PlacesInv /\ StreamedInv BY DEF IInv, RInv
<1>2. CASE i = last
  <2>1. UNCHANGED <<rx, pt, text, frames, streamed>> BY <1>2 DEF _on_notify, reader
  <2>2. \A p : Read(p)' <=> Read(p) BY <2>1 DEF Read
  <2>3. \A j \in DOMAIN pt : IsHeader(pt[j])' <=> IsHeader(pt[j]) BY <2>1 DEF IsHeader
  <2> QED BY <1>1, <2>1, <2>2, <2>3 DEF PlacesInv, StreamedInv, Ordered, Streamed!Rising
<1>3. CASE i # last
  <2> DEFINE p == decrypt(frames[i], rx)
             n == frames[i].to - frames[i].from + 1
             ReadNext(x) == \E k \in DOMAIN frames :
                              frames[k].ctr < rx' /\ x \in frames[k].from .. frames[k].to
  <2>1. rx' = rx + Blocks(frames[i]) /\ pt' = pt \o p
    BY <1>3 DEF _on_notify, Takes
  <2>2. rx \in Nat /\ pt \in Seq(0 .. Len(text)) /\ Len(pt) \in Nat BY <1>1 DEF TypeOK
  <2>3. /\ p \in Seq(0 .. Len(text)) /\ Len(p) = n
        /\ \A j \in 1 .. n : p[j] = IF frames[i].ctr = rx THEN frames[i].from + j - 1 ELSE 0
    BY <2>2, DecryptPlaces
  <2>4. /\ frames[i].from \in Nat /\ frames[i].to \in Nat /\ n \in Nat
        /\ frames[i].from \in 1 .. Len(text) /\ frames[i].to \in 1 .. Len(text)
        /\ Blocks(frames[i]) \in Nat \ {0}
    BY FramePlaces
  <2>5. \A x : Read(x) => ReadNext(x)
    <3>1. \A j \in DOMAIN frames : frames[j].ctr < rx => frames[j].ctr < rx'
      BY <2>1, <2>2, <2>4, FramePlaces
    <3> QED BY <3>1 DEF Read
  <2>6. \A j \in 1 .. n : p[j] # 0 =>
          /\ frames[i].ctr = rx /\ p[j] = frames[i].from + j - 1
          /\ p[j] \in frames[i].from .. frames[i].to /\ ReadNext(p[j])
    <3> TAKE j \in 1 .. n
    <3> HAVE p[j] # 0
    <3>1. frames[i].ctr = rx /\ p[j] = frames[i].from + j - 1 BY <2>3
    <3>2. p[j] \in frames[i].from .. frames[i].to BY <3>1, <2>4
    <3>3. frames[i].ctr < rx' BY <3>1, <2>1, <2>2, <2>4
    <3>4. ReadNext(p[j]) BY <3>2, <3>3
    <3> QED BY <3>1, <3>2, <3>4
  <2>7. /\ pt' \in Seq(0 .. Len(text)) /\ Len(pt') = Len(pt) + n
        /\ \A j \in 1 .. Len(pt) : pt'[j] = pt[j]
        /\ \A j \in Len(pt) + 1 .. Len(pt) + n :
             j - Len(pt) \in 1 .. n /\ pt'[j] = p[j - Len(pt)]
    <3> HIDE DEF p, n
    <3>1. pt' = pt \o p /\ pt \in Seq(0 .. Len(text)) /\ p \in Seq(0 .. Len(text))
      BY <2>1, <2>2, <2>3
    <3>2. Len(p) = n BY <2>3
    <3> QED BY <3>1, <3>2, PlacesJoined, Zenon
  <2> HIDE DEF p, n, ReadNext
  <2>8. DOMAIN pt' = 1 .. Len(pt) + n /\ DOMAIN pt = 1 .. Len(pt) BY <2>2, <2>7
  <2>9. ASSUME NEW j \in DOMAIN pt', pt'[j] # 0 PROVE ReadNext(pt'[j])
    <3>1. CASE j \in 1 .. Len(pt)
      <4>1. Read(pt[j]) BY <1>1, <2>7, <2>8, <2>9, <3>1 DEF PlacesInv
      <4> QED BY <4>1, <2>5, <2>7, <3>1
    <3>2. CASE j \in Len(pt) + 1 .. Len(pt) + n
      BY <3>2, <2>6, <2>7, <2>9
    <3> QED BY <3>1, <3>2, <2>2, <2>4, <2>8
  <2>10. Ordered(pt')
    <3> SUFFICES ASSUME NEW j \in 1 .. Len(pt) + n, NEW k \in 1 .. Len(pt) + n,
                        j < k, pt'[j] # 0, pt'[k] # 0
                 PROVE  pt'[j] < pt'[k]
      BY <2>8 DEF Ordered
    <3>1. CASE k \in 1 .. Len(pt)
      <4>1. j \in 1 .. Len(pt) BY <3>1, <2>2
      <4> QED BY <4>1, <3>1, <1>1, <2>7, <2>8 DEF PlacesInv, Ordered
    <3>2. CASE j \in 1 .. Len(pt) /\ k \in Len(pt) + 1 .. Len(pt) + n
      <4>1. Read(pt[j]) /\ pt'[j] = pt[j] BY <3>2, <1>1, <2>7, <2>8 DEF PlacesInv
      <4>2. pt'[k] \in frames[i].from .. frames[i].to /\ frames[i].ctr = rx
        BY <3>2, <2>6, <2>7
      <4>3. pt[j] \in DOMAIN text /\ pt[j] < frames[i].from
        BY <4>1, <4>2, <2>2, ReadBelow
      <4>4. pt[j] \in Nat BY <4>3, <1>1 DEF TypeOK
      <4> QED BY <4>1, <4>2, <4>3, <4>4, <2>4
    <3>3. CASE j \in Len(pt) + 1 .. Len(pt) + n /\ k \in Len(pt) + 1 .. Len(pt) + n
      <4>1. /\ pt'[j] = frames[i].from + (j - Len(pt)) - 1
            /\ pt'[k] = frames[i].from + (k - Len(pt)) - 1
        BY <3>3, <2>6, <2>7
      <4> QED BY <4>1, <2>2, <2>4
    <3> QED BY <3>1, <3>2, <3>3, <2>2, <2>4
  <2>11. PlacesInv' BY <2>9, <2>10 DEF PlacesInv, Ordered, Read, ReadNext
  <2>12. ASSUME NEW k \in DOMAIN streamed, NEW j \in DOMAIN pt', IsHeader(pt'[j])
         PROVE  streamed[k] < text[pt'[j]].msg
    <3>1. CASE j \in 1 .. Len(pt)
      BY <3>1, <1>1, <2>7, <2>8, <2>12 DEF StreamedInv
    <3>2. CASE j \in Len(pt) + 1 .. Len(pt) + n
      <4>1. /\ pt'[j] \in frames[i].from .. frames[i].to /\ frames[i].ctr = rx
            /\ text[pt'[j]].part = 1
        BY <3>2, <2>6, <2>7, <2>12 DEF IsHeader
      <4>2. PICK h \in DOMAIN text :
              Read(h) /\ text[h].part = 1 /\ text[h].msg = streamed[k]
        BY <1>1 DEF StreamedInv
      <4>3. h < frames[i].from BY <4>1, <4>2, <2>2, ReadBelow
      <4>4. Len(text) \in Nat /\ DOMAIN text = 1 .. Len(text) BY <1>1 DEF TypeOK
      <4>5. pt'[j] \in DOMAIN text /\ h < pt'[j] BY <4>1, <4>3, <4>4, <2>4
      <4> QED BY <4>1, <4>2, <4>5, <1>1 DEF TextInv
    <3> QED BY <3>1, <3>2, <2>2, <2>4, <2>8
  <2>13. StreamedInv'
    BY <1>1, <2>5, <2>12 DEF StreamedInv, IsHeader, Streamed!Rising, Read, ReadNext
  <2> QED BY <2>11, <2>13
<1> QED BY <1>2, <1>3

(* Steps that read nothing and say nothing.                                *)
LEMMA RepliesKept ==
  ASSUME RInv, UNCHANGED <<text, frames, rx, streamed>>, pt' = pt \/ pt' = <<>>
  PROVE  WholeInv' /\ PlacesInv' /\ StreamedInv'
<1>1. \A p : Read(p)' <=> Read(p) BY DEF Read
<1>2. WholeInv' BY DEF RInv, WholeInv
<1>3. CASE pt' = pt
  <2>1. PlacesInv' BY <1>1, <1>3 DEF RInv, PlacesInv, Ordered
  <2>2. StreamedInv' BY <1>1, <1>3 DEF RInv, StreamedInv, Streamed!Rising, IsHeader
  <2> QED BY <1>2, <2>1, <2>2
<1>4. CASE pt' = <<>>
  <2>1. DOMAIN pt' = {} BY <1>4
  <2>2. PlacesInv' BY <2>1 DEF PlacesInv, Ordered
  <2>3. StreamedInv' BY <1>1, <2>1 DEF RInv, StreamedInv, Streamed!Rising
  <2> QED BY <1>2, <2>2, <2>3
<1> QED BY <1>3, <1>4

LEMMA ReplyKept ==
  ASSUME RInv, UNCHANGED <<text, frames, at, pt, since>>,
         up' => up, faults' = 0 => faults = 0, op' = "stream" => op = "stream"
  PROVE  ReplyInv'
<1>1. SentTo(at)' = SentTo(at) BY DEF SentTo
<1> QED BY <1>1 DEF RInv, ReplyInv

LEMMA SaysReplies ==
  ASSUME IInv, RInv, NEW n \in Lengths, Says(n)
  PROVE  RInv' /\ UNCHANGED streamed
<1> DEFINE L == Len(text)
           m == [j \in 1 .. n |-> [msg |-> Messages + 1, part |-> j, of |-> n]]
<1>1. n \in Nat /\ n >= 2 /\ Messages \in Nat /\ L \in Nat /\ text \in Seq(Cells)
  BY ConstantsAssumption, OperatorsTyped DEF IInv, TypeOK
<1>2. m \in Seq(Cells) /\ Len(m) = n
  <2>1. \A j \in 1 .. n : [msg |-> Messages + 1, part |-> j, of |-> n] \in Cells
    BY <1>1 DEF Cells
  <2>2. m \in [1 .. n -> Cells] BY <2>1
  <2> HIDE DEF m
  <2> QED BY <1>1, <2>2
<1>3. text' = text \o m /\ UNCHANGED <<up, frames, at, reader, call, history>>
  BY DEF Says
<1>4. /\ text' \in Seq(Cells) /\ Len(text') = L + n
      /\ \A i \in 1 .. L : text'[i] = text[i]
      /\ \A i \in L + 1 .. L + n : i - L \in 1 .. n /\ text'[i] = m[i - L]
  <2> HIDE DEF m
  <2> QED BY <1>1, <1>2, <1>3, PlacesJoined
<1>5. \A d \in 1 .. n : text'[L + d] = [msg |-> Messages + 1, part |-> d, of |-> n]
  <2> TAKE d \in 1 .. n
  <2>1. L + d \in L + 1 .. L + n /\ (L + d) - L = d BY <1>1
  <2>2. m[d] = [msg |-> Messages + 1, part |-> d, of |-> n] OBVIOUS
  <2> HIDE DEF m
  <2> QED BY <1>4, <2>1, <2>2
<1> HIDE DEF m
<1>6. DOMAIN text = 1 .. L /\ DOMAIN text' = 1 .. L + n BY <1>1, <1>4
<1>7. /\ UNCHANGED <<frames, rx, pt, streamed, up, at, op, since, faults>>
      /\ \A p : Read(p)' <=> Read(p)
  BY <1>3 DEF reader, call, history, Read
<1>8. WholeInv'
  <2>1. ASSUME NEW i \in 1 .. L
        PROVE  \E h \in 1 .. i :
          /\ h + text'[i].of - 1 <= Len(text') /\ i = h + text'[i].part - 1
          /\ text'[i].part <= text'[i].of
          /\ \A d \in 1 .. text'[i].of :
               text'[h + d - 1] = [msg |-> text'[i].msg, part |-> d, of |-> text'[i].of]
    <3>1. PICK h \in 1 .. i :
          /\ h + text[i].of - 1 <= Len(text) /\ i = h + text[i].part - 1
          /\ text[i].part <= text[i].of
          /\ \A d \in 1 .. text[i].of :
               text[h + d - 1] = [msg |-> text[i].msg, part |-> d, of |-> text[i].of]
      BY <1>6 DEF RInv, WholeInv
    <3>2. text'[i] = text[i] /\ text[i] \in Cells BY <1>1, <1>4, <1>6
    <3>3. PICK o \in Nat : o = text[i].of BY <3>2 DEF Cells
    <3>4. h + o - 1 <= L BY <3>1, <3>3
    <3>5. ASSUME NEW d \in 1 .. o PROVE text'[h + d - 1] = text[h + d - 1]
      <4>1. h + d - 1 \in 1 .. L BY <3>4, <1>1
      <4> QED BY <4>1, <1>4
    <3>6. h + o - 1 <= Len(text') BY <3>4, <1>1, <1>4
    <3> QED BY <3>1, <3>2, <3>3, <3>5, <3>6
  <2>2. ASSUME NEW i \in L + 1 .. L + n
        PROVE  \E h \in 1 .. i :
          /\ h + text'[i].of - 1 <= Len(text') /\ i = h + text'[i].part - 1
          /\ text'[i].part <= text'[i].of
          /\ \A d \in 1 .. text'[i].of :
               text'[h + d - 1] = [msg |-> text'[i].msg, part |-> d, of |-> text'[i].of]
    <3> DEFINE h == L + 1
    <3>1. i - L \in 1 .. n /\ L + (i - L) = i /\ h \in 1 .. i BY <1>1
    <3>2. text'[L + (i - L)] = [msg |-> Messages + 1, part |-> i - L, of |-> n]
      BY <3>1, <1>5
    <3>3. text'[i].msg = Messages + 1 /\ text'[i].part = i - L /\ text'[i].of = n
      BY <3>1, <3>2
    <3>4. h + n - 1 <= Len(text') /\ i = h + (i - L) - 1 /\ i - L <= n BY <3>1, <1>1, <1>4
    <3>5. ASSUME NEW d \in 1 .. n
          PROVE  text'[h + d - 1] = [msg |-> Messages + 1, part |-> d, of |-> n]
      <4>1. h + d - 1 = L + d BY <1>1
      <4> QED BY <4>1, <1>5
    <3> HIDE DEF h
    <3> QED BY <3>1, <3>3, <3>4, <3>5
  <2>3. \A i \in DOMAIN text' : i \in 1 .. L \/ i \in L + 1 .. L + n BY <1>1, <1>6
  <2> QED BY <2>1, <2>2, <2>3, Zenon DEF WholeInv
<1>9. PlacesInv' BY <1>7 DEF RInv, PlacesInv, Ordered
<1>10. StreamedInv'
  <2>1. \A j \in DOMAIN pt : pt[j] \in 0 .. L BY DEF IInv, TypeOK
  <2>2. \A j \in DOMAIN pt : pt[j] # 0 => text'[pt[j]] = text[pt[j]]
    BY <2>1, <1>1, <1>4
  <2>3. \A k \in DOMAIN streamed, j \in DOMAIN pt :
          pt[j] # 0 /\ text'[pt[j]].part = 1 => streamed[k] < text'[pt[j]].msg
    BY <2>2 DEF RInv, StreamedInv, IsHeader
  <2>4. \A k \in DOMAIN streamed : \E p \in DOMAIN text' :
          Read(p) /\ text'[p].part = 1 /\ text'[p].msg = streamed[k]
    <3> TAKE k \in DOMAIN streamed
    <3>1. PICK p \in DOMAIN text : Read(p) /\ text[p].part = 1 /\ text[p].msg = streamed[k]
      BY DEF RInv, StreamedInv
    <3>2. p \in DOMAIN text' /\ text'[p] = text[p] BY <1>1, <1>4, <1>6
    <3> QED BY <3>1, <3>2
  <2> QED BY <2>3, <2>4, <1>7 DEF RInv, StreamedInv, Streamed!Rising, IsHeader
<1>11. ReplyInv'
  <2>1. SentTo(at) \in 0 .. L /\ SentTo(at)' = SentTo(at)
    BY <1>7, OperatorsTyped DEF IInv, TypeOK, SentTo
  <2>2. Len(pt) \in Nat BY DEF IInv, TypeOK
  <2>3. \A p \in 1 .. SentTo(at) - Len(pt) : text'[p] = text[p]
    <3> TAKE p \in 1 .. SentTo(at) - Len(pt)
    <3>1. p \in 1 .. L BY <2>1, <2>2, <1>1
    <3> QED BY <3>1, <1>4
  <2> QED BY <2>1, <2>3, <1>7 DEF RInv, ReplyInv
<1> QED BY <1>7, <1>8, <1>9, <1>10, <1>11 DEF RInv

LEMMA SendsFrameReplies ==
  ASSUME IInv, RInv, NEW n \in 1 .. MaxText, SendsFrame(n)
  PROVE  RInv' /\ UNCHANGED streamed
<1> DEFINE f == [ctr |-> DeviceCtr, from |-> SentTo(Len(frames)) + 1,
                 to |-> SentTo(Len(frames)) + n]
<1>1. UNCHANGED <<up, text, at, rx, pt, op, since, streamed, faults>>
  BY DEF SendsFrame, reader, call, history
<1>2. frames' = Append(frames, f) /\ frames \in Seq(Frames) /\ at \in 0 .. Len(frames)
  BY DEF SendsFrame, IInv, TypeOK
<1> HIDE DEF f
<1>3. \A i \in DOMAIN frames : i \in DOMAIN frames' /\ frames'[i] = frames[i]
  BY <1>2
<1>4. \A p : Read(p) => Read(p)'
  BY <1>1, <1>3 DEF Read
<1>5. SentTo(at)' = SentTo(at)
  <2>1. at # 0 => at \in DOMAIN frames BY <1>2
  <2> QED BY <2>1, <1>1, <1>3 DEF SentTo
<1>6. WholeInv' BY <1>1 DEF RInv, WholeInv
<1>7. PlacesInv' BY <1>1, <1>4 DEF RInv, PlacesInv, Ordered
<1>8. StreamedInv' BY <1>1, <1>4 DEF RInv, StreamedInv, Streamed!Rising, IsHeader
<1>9. ReplyInv' BY <1>1, <1>5 DEF RInv, ReplyInv
<1> QED BY <1>1, <1>6, <1>7, <1>8, <1>9 DEF RInv

(* In step, a frame that is delivered adds the cells that come next.       *)
LEMMA DeliversReplies ==
  ASSUME IInv, RInv, Delivers
  PROVE  RInv' /\ UNCHANGED streamed
<1> DEFINE i == at + 1
<1>1. /\ at \in Nat /\ i \in DOMAIN frames /\ i # last /\ rx \in Nat
      /\ pt \in Seq(0 .. Len(text)) /\ Len(pt) \in Nat /\ Len(text) \in Nat
  BY DEF IInv, TypeOK, Delivers
<1>2. /\ _on_notify(i) /\ at' = i
      /\ UNCHANGED <<up, text, frames, op, since, streamed, faults>>
  BY DEF Delivers, device, call
<1>3. PlacesInv' /\ StreamedInv' BY <1>1, <1>2, NotifyReads
<1>4. WholeInv' BY <1>2 DEF RInv, WholeInv
<1>5. ASSUME up, faults = 0, op = "stream"
      PROVE  /\ Len(pt') <= SentTo(i)
             /\ \A j \in 1 .. Len(pt') : pt'[j] = SentTo(i) - Len(pt') + j
             /\ \A p \in 1 .. SentTo(i) - Len(pt') : text[p].msg <= since
  <2> DEFINE p == decrypt(frames[i], rx)
             n == frames[i].to - frames[i].from + 1
  <2>1. frames[i].ctr = rx BY <1>1, <1>5 DEF IInv, InStep, Delivers
  <2>2. /\ p \in Seq(0 .. Len(text)) /\ Len(p) = n
        /\ \A j \in 1 .. n : p[j] = frames[i].from + j - 1
    BY <1>1, <2>1, DecryptPlaces
  <2>3. /\ frames[i].from \in Nat /\ frames[i].to \in Nat /\ n \in Nat
    BY <1>1, FramePlaces
  <2>4. SentTo(at) \in Nat /\ frames[i].from = SentTo(at) + 1
        /\ SentTo(i) = frames[i].to
    <3>1. frames[i].from = SentTo(i - 1) + 1 BY <1>1 DEF IInv, FrameInv
    <3>2. i - 1 = at /\ i # 0 BY <1>1
    <3>3. SentTo(at) \in 0 .. Len(text) BY OperatorsTyped DEF IInv, TypeOK
    <3>4. SentTo(at) \in Nat BY <3>3, <1>1
    <3>5. SentTo(i) = frames[i].to BY <3>2 DEF SentTo
    <3> QED BY <3>1, <3>2, <3>4, <3>5
  <2>5. pt' = pt \o p BY <1>1, <1>2 DEF _on_notify
  <2>6. SentTo(i) = SentTo(at) + n BY <2>3, <2>4
  <2>7. /\ Len(pt') = Len(pt) + n
        /\ \A j \in 1 .. Len(pt) : pt'[j] = pt[j]
        /\ \A j \in Len(pt) + 1 .. Len(pt) + n :
             j - Len(pt) \in 1 .. n /\ pt'[j] = p[j - Len(pt)]
    <3> HIDE DEF p, n
    <3>1. pt \in Seq(0 .. Len(text)) BY <1>1
    <3> QED BY <2>2, <2>5, <3>1, PlacesJoined, Zenon
  <2> HIDE DEF p, n
  <2>8. /\ Len(pt) <= SentTo(at)
        /\ \A j \in 1 .. Len(pt) : pt[j] = SentTo(at) - Len(pt) + j
        /\ \A q \in 1 .. SentTo(at) - Len(pt) : text[q].msg <= since
    BY <1>5 DEF RInv, ReplyInv
  <2>9. SentTo(i) - Len(pt') = SentTo(at) - Len(pt) /\ Len(pt') <= SentTo(i)
    BY <1>1, <2>3, <2>4, <2>6, <2>7, <2>8
  <2>10. ASSUME NEW j \in 1 .. Len(pt')
         PROVE  pt'[j] = SentTo(i) - Len(pt') + j
    <3>1. CASE j \in 1 .. Len(pt) BY <3>1, <2>7, <2>8, <2>9
    <3>2. CASE j \in Len(pt) + 1 .. Len(pt) + n
      <4>1. pt'[j] = frames[i].from + (j - Len(pt)) - 1 BY <3>2, <2>2, <2>7
      <4> QED BY <4>1, <3>2, <2>3, <2>4, <2>9, <1>1
    <3> QED BY <3>1, <3>2, <1>1, <2>3, <2>7
  <2> QED BY <2>8, <2>9, <2>10
<1>6. ReplyInv'
  <2>1. \A k : SentTo(k)' = SentTo(k) BY <1>2 DEF SentTo
  <2>2. SentTo(at)' = SentTo(i)
    <3>1. i # 0 BY <1>1
    <3> QED BY <3>1, <1>2 DEF SentTo
  <2> QED BY <2>2, <1>2, <1>5 DEF ReplyInv
<1> QED BY <1>2, <1>3, <1>4, <1>6 DEF RInv

LEMMA RepeatsReplies ==
  ASSUME IInv, RInv, NEW i \in 1 .. at, Repeats(i)
  PROVE  RInv' /\ UNCHANGED streamed
<1>1. i \in DOMAIN frames /\ faults \in Nat /\ MaxFaults \in Nat
  BY ConstantsAssumption DEF IInv, TypeOK
<1>2. _on_notify(i) /\ UNCHANGED <<up, text, frames, at, op, since, streamed>>
  BY DEF Repeats, device, call
<1>3. PlacesInv' /\ StreamedInv' BY <1>1, <1>2, NotifyReads
<1>4. WholeInv' BY <1>2 DEF RInv, WholeInv
<1>5. ReplyInv'
  <2>1. CASE i = last
    <3>1. UNCHANGED <<pt, faults>> BY <2>1 DEF Repeats, _on_notify, reader
    <3> QED BY <3>1, <1>2, ReplyKept
  <2>2. CASE i # last
    <3>1. faults' # 0 BY <2>2, <1>1 DEF Repeats
    <3> QED BY <3>1 DEF ReplyInv
  <2> QED BY <2>1, <2>2
<1> QED BY <1>2, <1>3, <1>4, <1>5 DEF RInv

LEMMA SendReplies ==
  ASSUME IInv, RInv, NEW o \in {"send", "stream"}, Send(o)
  PROVE  RInv' /\ (UNCHANGED streamed \/ Streamed!NewSession)
<1>1. op' = o /\ pt' = <<>> BY DEF Send
<1>2. CASE up /\ since' = Messages /\ UNCHANGED <<up, device, at, rx, streamed>>
  <2>1. UNCHANGED <<text, frames, rx, streamed, at>> BY <1>2 DEF device
  <2>2. WholeInv' /\ PlacesInv' /\ StreamedInv' BY <1>1, <2>1, RepliesKept
  <2>3. SentTo(at)' = SentTo(at) /\ SentTo(at) \in 0 .. Len(text)
    BY <2>1, OperatorsTyped DEF IInv, TypeOK, SentTo
  <2>4. \A p \in DOMAIN text : text[p].msg <= Messages BY DEF IInv, TextInv
  <2>5. Len(text) \in Nat /\ DOMAIN text = 1 .. Len(text) BY DEF IInv, TypeOK
  <2>6. \A p \in 1 .. SentTo(at) - 0 : text'[p].msg <= since'
    BY <1>2, <2>1, <2>3, <2>4, <2>5
  <2>7. Len(pt') = 0 /\ 1 .. Len(pt') = {} BY <1>1
  <2>8. ReplyInv' BY <2>3, <2>5, <2>6, <2>7 DEF ReplyInv
  <2> QED BY <1>2, <2>2, <2>8 DEF RInv
<1>3. CASE _handshake
  <2>1. text' = <<>> /\ frames' = <<>> /\ at' = 0 /\ streamed' = <<>>
    BY <1>3 DEF _handshake
  <2>2. DOMAIN text' = {} /\ DOMAIN streamed' = {} /\ DOMAIN pt' = {} /\ Len(pt') = 0
    BY <1>1, <2>1
  <2>3. WholeInv' /\ PlacesInv' BY <2>2 DEF WholeInv, PlacesInv, Ordered
  <2>4. StreamedInv' BY <2>1, <2>2 DEF StreamedInv, Streamed!Rising
  <2>5. ReplyInv' BY <2>1, <2>2 DEF ReplyInv, SentTo
  <2>6. Streamed!NewSession BY <2>1 DEF Streamed!NewSession, Messages
  <2> QED BY <2>3, <2>4, <2>5, <2>6 DEF RInv
<1> QED BY <1>2, <1>3 DEF Send

(* The end of a drain: what the split finds is put after what was returned *)
(* before.                                                                 *)
LEMMA DrainEndsReplies ==
  ASSUME IInv, RInv, DrainEnds
  PROVE  /\ RInv'
         /\ UNCHANGED streamed \/ Streamed!Gets
         /\ op = "stream" /\ up /\ faults = 0 =>
              \A i \in 1 .. SentTo(at) :
                text[i].part = text[i].of /\ text[i].msg > since
                => \E k \in DOMAIN streamed' : streamed'[k] = text[i].msg
<1>1. /\ op' = "none" /\ UNCHANGED <<text, frames, rx>>
      /\ pt' = pt \/ pt' = <<>>
      /\ \/ op = "send" /\ UNCHANGED streamed
         \/ /\ op = "stream" /\ pt' = <<>>
            /\ \E r \in split_inner_messages(pt) : streamed' = streamed \o r
  BY DEF DrainEnds, device
<1>2. ReplyInv' BY <1>1 DEF ReplyInv
<1>3. /\ pt \in Seq(0 .. Len(text)) /\ streamed \in Seq(Nat) /\ Len(text) \in Nat
      /\ DOMAIN text = 1 .. Len(text) /\ TypeOK /\ TextInv /\ WholeInv
      /\ Messages \in Nat
  BY OperatorsTyped DEF IInv, RInv, TypeOK, StreamedInv
<1>4. CASE op = "send" /\ UNCHANGED streamed
  <2>1. WholeInv' /\ PlacesInv' /\ StreamedInv' BY <1>1, <1>4, RepliesKept
  <2> QED BY <1>2, <1>4, <2>1 DEF RInv
<1>5. CASE /\ op = "stream" /\ pt' = <<>>
           /\ \E r \in split_inner_messages(pt) : streamed' = streamed \o r
  <2>1. PICK r \in split_inner_messages(pt) : streamed' = streamed \o r BY <1>5
  <2>2. Found(pt, 1, r) BY <1>3, <2>1, SplitIsSound DEF RInv, PlacesInv
  <2>3. r \in Seq(Nat) /\ Len(r) \in Nat /\ Len(streamed) \in Nat
    BY <1>3, <2>2 DEF Found
  <2>4. /\ streamed' \in Seq(Nat) /\ Len(streamed') = Len(streamed) + Len(r)
        /\ \A k \in 1 .. Len(streamed) : streamed'[k] = streamed[k]
        /\ \A k \in Len(streamed) + 1 .. Len(streamed) + Len(r) :
             k - Len(streamed) \in 1 .. Len(r) /\ streamed'[k] = r[k - Len(streamed)]
    BY <1>3, <2>1, <2>3, PlacesJoined
  <2>5. /\ DOMAIN streamed = 1 .. Len(streamed) /\ DOMAIN r = 1 .. Len(r)
        /\ DOMAIN streamed' = 1 .. Len(streamed) + Len(r)
    BY <1>3, <2>3, <2>4
  <2>6. ASSUME NEW k \in 1 .. Len(r)
        PROVE  /\ \E p \in DOMAIN text : Read(p) /\ text[p].part = 1 /\ text[p].msg = r[k]
               /\ \A j \in DOMAIN streamed : streamed[j] < r[k]
               /\ r[k] \in 1 .. Messages
    <3>1. PICK h \in 1 .. Len(pt) : IsHeader(pt[h]) /\ r[k] = text[pt[h]].msg
      BY <2>2, <2>5 DEF Found
    <3>2. pt[h] # 0 /\ text[pt[h]].part = 1 BY <3>1 DEF IsHeader
    <3>3. pt[h] \in DOMAIN text BY <1>3, <3>1, <3>2
    <3>4. h \in DOMAIN pt BY <1>3
    <3>5. Read(pt[h]) BY <3>2, <3>4 DEF RInv, PlacesInv
    <3>6. \A j \in DOMAIN streamed : streamed[j] < r[k]
      BY <3>1, <3>4 DEF RInv, StreamedInv
    <3>7. text[pt[h]] \in Cells BY <1>3, <3>3 DEF TypeOK
    <3>8. r[k] \in Nat \ {0} BY <3>1, <3>7 DEF Cells
    <3>9. r[k] <= Messages BY <3>1, <3>3, <1>3 DEF TextInv
    <3>10. r[k] \in 1 .. Messages BY <3>8, <3>9, <1>3
    <3> QED BY <3>1, <3>2, <3>3, <3>5, <3>6, <3>10
  <2>7. ASSUME NEW k \in 1 .. Len(streamed)
        PROVE  /\ \E p \in DOMAIN text : Read(p) /\ text[p].part = 1 /\ text[p].msg = streamed[k]
               /\ streamed[k] \in 1 .. Messages
    <3>1. PICK p \in DOMAIN text : Read(p) /\ text[p].part = 1 /\ text[p].msg = streamed[k]
      BY <2>5 DEF RInv, StreamedInv
    <3>2. text[p] \in Cells BY <1>3 DEF TypeOK
    <3>3. streamed[k] \in Nat \ {0} BY <3>1, <3>2 DEF Cells
    <3>4. streamed[k] <= Messages BY <3>1, <1>3 DEF TextInv
    <3>5. streamed[k] \in 1 .. Messages BY <3>3, <3>4, <1>3
    <3> QED BY <3>1, <3>5
  <2>8. Streamed!Rising(streamed')
    <3> SUFFICES ASSUME NEW a \in DOMAIN streamed', NEW b \in DOMAIN streamed', a < b
                 PROVE  streamed'[a] < streamed'[b]
      BY DEF Streamed!Rising
    <3>1. CASE b \in 1 .. Len(streamed)
      <4>1. a \in 1 .. Len(streamed) BY <3>1, <2>3, <2>5
      <4> QED BY <3>1, <4>1, <2>4, <2>5 DEF RInv, StreamedInv, Streamed!Rising
    <3>2. CASE a \in 1 .. Len(streamed) /\ b \in Len(streamed) + 1 .. Len(streamed) + Len(r)
      BY <3>2, <2>4, <2>5, <2>6
    <3>3. CASE /\ a \in Len(streamed) + 1 .. Len(streamed) + Len(r)
               /\ b \in Len(streamed) + 1 .. Len(streamed) + Len(r)
      <4>1. /\ a - Len(streamed) \in DOMAIN r /\ b - Len(streamed) \in DOMAIN r
            /\ streamed'[a] = r[a - Len(streamed)] /\ streamed'[b] = r[b - Len(streamed)]
        BY <3>3, <2>4, <2>5
      <4>2. a - Len(streamed) < b - Len(streamed) BY <3>3, <2>3
      <4> QED BY <4>1, <4>2, <2>2 DEF Found, Heard!Rising
    <3> QED BY <3>1, <3>2, <3>3, <2>3, <2>5
  <2>9. \A k \in DOMAIN streamed' :
          /\ \E p \in DOMAIN text : Read(p) /\ text[p].part = 1 /\ text[p].msg = streamed'[k]
          /\ streamed'[k] \in 1 .. Messages
    <3> TAKE k \in DOMAIN streamed'
    <3>1. CASE k \in 1 .. Len(streamed) BY <3>1, <2>4, <2>7
    <3>2. CASE k \in Len(streamed) + 1 .. Len(streamed) + Len(r) BY <3>2, <2>4, <2>6
    <3> QED BY <3>1, <3>2, <2>3, <2>5
  <2>10. DOMAIN pt' = {} /\ (\A p : Read(p)' <=> Read(p)) BY <1>1, <1>5 DEF Read
  <2>11. StreamedInv' BY <1>1, <2>4, <2>8, <2>9, <2>10 DEF StreamedInv, Streamed!Rising
  <2>12. WholeInv' /\ PlacesInv'
    BY <1>1, <1>3, <2>10 DEF WholeInv, PlacesInv, Ordered
  <2>13. UNCHANGED streamed \/ Streamed!Gets
    <3>1. CASE Len(r) = 0
      <4>1. r = <<>> BY <3>1, <2>3, EmptySeq
      <4> QED BY <4>1, <1>3, <2>1, ConcatEmptySeq
    <3>2. CASE Len(r) # 0
      <4>1. Len(streamed') > Len(streamed) BY <3>2, <2>3, <2>4
      <4>2. SubSeq(streamed', 1, Len(streamed)) = streamed BY <1>3, <2>3, <2>4
      <4>3. Messages' = Messages BY <1>1 DEF Messages
      <4> QED BY <4>1, <4>2, <4>3, <2>8, <2>9 DEF Streamed!Gets, Streamed!Rising
    <3> QED BY <3>1, <3>2
  <2>14. ASSUME up, faults = 0, NEW i \in 1 .. SentTo(at),
                text[i].part = text[i].of, text[i].msg > since
         PROVE  \E k \in DOMAIN streamed' : streamed'[k] = text[i].msg
    <3> DEFINE B == SentTo(at) - Len(pt)
    <3>1. SentTo(at) \in 0 .. Len(text) /\ Len(pt) \in Nat /\ since \in Nat
      BY <1>3, OperatorsTyped DEF IInv, TypeOK
    <3>2. /\ Len(pt) <= SentTo(at)
          /\ \A j \in 1 .. Len(pt) : pt[j] = B + j
          /\ \A p \in 1 .. B : text[p].msg <= since
      BY <1>5, <2>14 DEF RInv, ReplyInv
    <3>3. B \in Nat /\ B + Len(pt) = SentTo(at) BY <3>1, <3>2, <1>3
    <3> HIDE DEF B
    <3>4. HasAll(pt, 1, r) BY <1>3, <2>1, <3>2, <3>3, SplitIsComplete
    <3>5. i \in DOMAIN text BY <3>1, <1>3
    <3>6. text[i] \in Cells BY <3>5, <1>3 DEF TypeOK
    <3>7. PICK o \in Nat \ {0, 1} : o = text[i].of BY <3>6 DEF Cells
    <3>8. PICK m \in Nat : m = text[i].msg BY <3>6 DEF Cells
    <3>9. PICK h \in 1 .. i :
            /\ i = h + text[i].part - 1
            /\ \A d \in 1 .. o : text[h + d - 1] = [msg |-> m, part |-> d, of |-> o]
      BY <3>5, <3>7, <3>8, <1>3 DEF WholeInv
    <3>10. i = h + o - 1 BY <2>14, <3>7, <3>9
    <3>11. text[h].msg = m /\ text[h].part = 1 /\ text[h].of = o
      <4>1. 1 \in 1 .. o /\ h + 1 - 1 = h BY <3>7
      <4>2. text[h + 1 - 1] = [msg |-> m, part |-> 1, of |-> o] BY <4>1, <3>9
      <4>3. text[h] = [msg |-> m, part |-> 1, of |-> o] BY <4>1, <4>2
      <4> QED BY <4>3
    <3>12. h - B \in 1 .. Len(pt) /\ pt[h - B] = h
      <4>1. ~(h \in 1 .. B)
        <5>1. m > since BY <2>14, <3>8
        <5> QED BY <5>1, <3>1, <3>2, <3>8, <3>11
      <4>2. h - B \in 1 .. Len(pt) BY <4>1, <3>1, <3>3
      <4>3. pt[h - B] = B + (h - B) BY <4>2, <3>2
      <4> QED BY <4>2, <4>3, <3>3
    <3>13. IsHeader(pt[h - B]) /\ text[pt[h - B]].of = o /\ text[pt[h - B]].msg = m
      BY <3>11, <3>12 DEF IsHeader
    <3>14. (h - B) + o <= Len(pt) + 1
      <4>1. i \in Nat /\ h \in Nat /\ o \in Nat /\ i <= SentTo(at) BY <3>1, <1>3
      <4>2. h + o = i + 1 BY <4>1, <3>10
      <4>3. h + o <= B + Len(pt) + 1 BY <4>1, <4>2, <3>1, <3>3
      <4> QED BY <4>1, <4>3, <3>1, <3>3
    <3>15. PICK k \in DOMAIN r : r[k] = m
      BY <3>4, <3>12, <3>13, <3>14 DEF HasAll
    <3>16. k \in 1 .. Len(r) BY <2>5
    <3>17. /\ Len(streamed) + k \in Len(streamed) + 1 .. Len(streamed) + Len(r)
           /\ (Len(streamed) + k) - Len(streamed) = k
           /\ Len(streamed) + k \in 1 .. Len(streamed) + Len(r)
      BY <2>3, <3>16
    <3>18. streamed'[Len(streamed) + k] = m BY <2>4, <3>15, <3>17
    <3> QED BY <2>5, <3>8, <3>17, <3>18
  <2> QED BY <1>2, <2>11, <2>12, <2>13, <2>14 DEF RInv
<1> QED BY <1>1, <1>4, <1>5

-----------------------------------------------------------------------------
LEMMA InitReplies == Init => RInv /\ Streamed!Init
<1> SUFFICES ASSUME Init PROVE RInv /\ Streamed!Init
  OBVIOUS
<1>1. text = <<>> /\ frames = <<>> /\ pt = <<>> /\ streamed = <<>> /\ op = "none"
  BY DEF Init
<1>2. DOMAIN text = {} /\ DOMAIN pt = {} /\ DOMAIN streamed = {} BY <1>1
<1>3. WholeInv /\ PlacesInv BY <1>2 DEF WholeInv, PlacesInv, Ordered
<1>4. StreamedInv BY <1>1, <1>2 DEF StreamedInv, Streamed!Rising
<1>5. ReplyInv BY <1>1 DEF ReplyInv
<1> QED BY <1>1, <1>3, <1>4, <1>5 DEF RInv, Streamed!Init, Messages

LEMMA StepReplies ==
  IInv /\ RInv /\ [Next]_vars => RInv' /\ [Streamed!Next]_<<Messages, streamed>>
<1> SUFFICES ASSUME IInv, RInv, [Next]_vars
             PROVE  RInv' /\ [Streamed!Next]_<<Messages, streamed>>
  OBVIOUS
<1> USE DEF Streamed!Next
<1>1. ASSUME UNCHANGED <<text, frames, rx, streamed>>, pt' = pt \/ pt' = <<>>, ReplyInv'
      PROVE  RInv' /\ UNCHANGED <<Messages, streamed>>
  BY <1>1, RepliesKept DEF RInv, Messages
<1>2. CASE \E o \in {"send", "stream"} : Send(o)
  <2>1. PICK o \in {"send", "stream"} : Send(o) BY <1>2
  <2>2. CASE up /\ UNCHANGED <<device, streamed>>
    BY <2>1, <2>2, SendReplies DEF device, Messages
  <2>3. CASE Streamed!NewSession BY <2>1, <2>3, SendReplies
  <2>4. (UNCHANGED <<device, streamed>> /\ up) \/ _handshake BY <2>1 DEF Send
  <2>5. _handshake => Streamed!NewSession
    BY DEF _handshake, Streamed!NewSession, Messages
  <2> QED BY <2>2, <2>3, <2>4, <2>5
<1>3. CASE DrainEnds
  <2>1. UNCHANGED Messages BY <1>3 DEF DrainEnds, device, Messages
  <2> QED BY <1>3, <2>1, DrainEndsReplies
<1>4. CASE disconnect \/ Heal
  <2>1. /\ up' = FALSE /\ pt' = <<>> /\ UNCHANGED <<text, frames, rx, streamed>>
    BY <1>4 DEF disconnect, Heal, Disconnect, device, history
  <2>2. ReplyInv' BY <2>1 DEF ReplyInv
  <2> QED BY <2>1, <2>2, <1>1
<1>5. CASE \E n \in Lengths : Says(n)
  <2>1. PICK n \in Lengths : Says(n) BY <1>5
  <2>2. Messages' > Messages BY <2>1, SaysKeeps
  <2> QED BY <2>1, <2>2, SaysReplies DEF Streamed!Sends
<1>6. CASE \E n \in 1 .. MaxText : SendsFrame(n)
  <2>1. PICK n \in 1 .. MaxText : SendsFrame(n) BY <1>6
  <2>2. UNCHANGED Messages BY <2>1 DEF SendsFrame, Messages
  <2> QED BY <2>1, <2>2, SendsFrameReplies
<1>7. CASE Delivers
  <2>1. UNCHANGED Messages BY <1>7 DEF Delivers, device, Messages
  <2> QED BY <1>7, <2>1, DeliversReplies
<1>8. CASE Loses
  <2>1. UNCHANGED <<text, frames, rx, pt, streamed>> BY <1>8 DEF Loses, device, reader
  <2>2. faults' # 0 BY <1>8 DEF Loses, IInv, TypeOK
  <2>3. ReplyInv' BY <2>2 DEF ReplyInv
  <2> QED BY <2>1, <2>3, <1>1
<1>9. CASE \E i \in 1 .. at : Repeats(i)
  <2>1. PICK i \in 1 .. at : Repeats(i) BY <1>9
  <2>2. UNCHANGED Messages BY <2>1 DEF Repeats, device, Messages
  <2> QED BY <2>1, <2>2, RepeatsReplies
<1>10. CASE LinkDrops
  <2>1. up' = FALSE /\ UNCHANGED <<text, frames, rx, pt, streamed>>
    BY <1>10 DEF LinkDrops, device, reader, history
  <2>2. ReplyInv' BY <2>1 DEF ReplyInv
  <2> QED BY <2>1, <2>2, <1>1
<1>11. CASE UNCHANGED vars
  <2>1. UNCHANGED <<up, text, frames, at, rx, pt, op, since, streamed, faults>>
    BY <1>11 DEF vars, device, reader, call, history
  <2>2. ReplyInv' BY <2>1, ReplyKept
  <2> QED BY <2>1, <2>2, <1>1
<1> QED BY <1>2, <1>3, <1>4, <1>5, <1>6, <1>7, <1>8, <1>9, <1>10, <1>11 DEF Next

(* Only the end of a drain leaves send_stream.                             *)
LEMMA StreamEnds ==
  ASSUME [Next]_vars, op = "stream", op' = "none"
  PROVE  DrainEnds
<1>1. ASSUME UNCHANGED op PROVE FALSE BY <1>1
<1>2. ~ \E o \in {"send", "stream"} : Send(o) BY DEF Send
<1>3. ~(disconnect \/ Heal)
  BY <1>1 DEF disconnect, Heal, Disconnect, call
<1>4. ~ \E n \in Lengths : Says(n) BY <1>1 DEF Says, call
<1>5. ~ \E n \in 1 .. MaxText : SendsFrame(n) BY <1>1 DEF SendsFrame, call
<1>6. ~(Delivers \/ Loses \/ LinkDrops) BY <1>1 DEF Delivers, Loses, LinkDrops, call
<1>7. ~ \E i \in 1 .. at : Repeats(i) BY <1>1 DEF Repeats, call
<1>8. ~ UNCHANGED vars BY <1>1 DEF vars, call
<1> QED BY <1>2, <1>3, <1>4, <1>5, <1>6, <1>7, <1>8 DEF Next

(* What send_stream hands to the program reader are messages of the        *)
(* session, in their order and once each, whatever the link does           *)
(* (send_stream, split_inner_messages).                                    *)
THEOREM StreamIsDelivery == Spec => Streamed!Spec
BY InitHolds, StepHolds, InitReplies, StepReplies, PTL DEF Spec, Streamed!Spec

(* Both readers of a session get a delivery of its messages.               *)
THEOREM ReadersAreDeliveries == Spec => IsDelivery
BY ObserverIsDelivery, StreamIsDelivery, PTL DEF IsDelivery

(* On a link that loses and delays nothing send_stream returns every       *)
(* message that was said since the request and delivered whole.            *)
THEOREM RepliesAreWhole == Spec => WholeReply
<1> DEFINE Complete ==
      op = "stream" /\ op' = "none" /\ up /\ faults = 0
      => \A i \in 1 .. SentTo(at) :
           text[i].part = text[i].of /\ text[i].msg > since
           => \E k \in DOMAIN streamed' : streamed'[k] = text[i].msg
<1>1. IInv /\ RInv /\ [Next]_vars => [Complete]_vars
  BY StreamEnds, DrainEndsReplies
<1> QED BY <1>1, InitHolds, StepHolds, InitReplies, StepReplies, PTL DEF Spec, WholeReply
=============================================================================
