----------------------------- MODULE MCWireCodec -----------------------------
(***************************************************************************)
(* The functions of WireCodec on numbers and messages of a few bytes:      *)
(* small cases of what WireCodec_proofs states of all, and what the CRC is *)
(* for, which is not proved.                                               *)
(***************************************************************************)
EXTENDS WireCodec

(* Numbers of one to five bytes, and what may follow them.                 *)
SomeNumbers == 0 .. 400 \cup {16383, 16384, 65535, 2147483647}
UpToTwo == {<<>>} \cup {<<a>> : a \in {0, 127, 128, 255}}
          \cup {<<a, b>> : a, b \in {0, 127, 128, 255}}

(* The builder and the parser agree on varints, at and around the numbers  *)
(* that need one byte more, and whatever follows.                          *)
ASSUME VarintsAgree ==
  \A val \in SomeNumbers, data \in UpToTwo :
    _read_varint[_pb_varint[val] \o data] = {Read(val, data)}

(* A message of two fields is parsed as those; cut anywhere but between    *)
(* them, it is malformed.                                                  *)
SlotField == _pb_field_varint(1, 300)
ZoneField == _pb_field_bytes(9, <<8, 1, 16, 200, 1>>)

ASSUME CutsAreMalformed ==
  LET data == Encoded(SlotField) \o Encoded(ZoneField) IN
  \A n \in 0 .. Len(data) :
    pb_parse[SubSeq(data, 1, n)] =
      CASE n = 0 -> {<<>>}
        [] n = Len(Encoded(SlotField)) -> {<<SlotField>>}
        [] n = Len(data) -> {<<SlotField, ZoneField>>}
        [] OTHER -> {}

(* The parser refuses groups and the types that are not in use.            *)
ASSUME UnknownWireTypes ==
  \A wire \in {3, 4, 6, 7} : pb_parse[<<8 + wire, 0, 0, 0, 0, 0, 0, 0, 0>>] = {}

(* Start times come packed in one field, or one a field; of a run that is  *)
(* cut those are kept that are whole.                                      *)
ASSUME StartTimes ==
  \A a \in {0, 127, 128, 1439}, b \in {128, 300} :
    LET run == Packed[<<a, b>>] IN
    /\ Times(_pb_field_varint(8, a)) = <<a>>
    /\ Times(_pb_field_bytes(8, run)) = <<a, b>>
    /\ Times(_pb_field_bytes(8, SubSeq(run, 1, Len(run) - 1))) = <<a>>
    /\ Times(_pb_field_bytes(7, run)) = <<>>

(* The CRC is the one that docs/protocol.md names, CRC-16/XMODEM: of the   *)
(* digits 1 to 9 it is 0x31C3.                                             *)
ASSUME CrcIsXmodem == CrcBytes([i \in 1 .. 9 |-> 48 + i]) = <<195, 49>>

(* No message with one byte wrong is decoded.                              *)
ASSUME OneWrongByte ==
  \A pb \in {<<>>, <<5>>, <<5, 6, 7>>} : \A msg \in _build_message(pb) :
    /\ decode_inner(msg) = {pb}
    /\ \A i \in 1 .. Len(msg), b \in Byte :
         b # msg[i] => decode_inner([msg EXCEPT ![i] = b]) = {}

(* The example of an inner frame in services.yaml (206) is not one: its    *)
(* length leaves the CRC out, which is that of neither length.             *)
ASSUME ExampleIsNoMessage ==
  \A length \in {2, 4} :
    decode_inner(<<170, 119, 90, 15, length, 0, 122, 0, 18, 205>>) = {}

(* Two messages with noise before them, the second cut or not.             *)
ASSUME StreamsAreSplit ==
  \A noise \in {<<>>, <<170>>, <<170, 119, 90>>} :
    \A a \in _build_message(<<5>>), b \in _build_message(<<6, 7>>) :
      \A n \in 0 .. Len(b) :
        split_inner_messages[noise \o a \o SubSeq(b, 1, n)] =
          IF n = Len(b) THEN <<<<5>>, <<6, 7>>>> ELSE <<<<5>>>>
=============================================================================
