------------------------------ MODULE WireCodec ------------------------------
(***************************************************************************)
(* The wire format of the Gen2 / XD messages: the builders of protobuf.py  *)
(* and the parser of status.py, on sequences of bytes.                     *)
(*                                                                         *)
(* The parser's loops run an index through data; here a function takes the *)
(* bytes that are left and yields what was read and the rest.  Where the   *)
(* code returns None or raises the result is the empty set, otherwise a    *)
(* set of one.                                                             *)
(***************************************************************************)
EXTENDS Integers, Sequences

Byte == 0 .. 255
Bytes == Seq(Byte)

Rest(data, n) == SubSeq(data, n + 1, Len(data))

-----------------------------------------------------------------------------
(* Varints: seven bits a byte, the lowest first. *)

(* A number that was read, and what follows it.                            *)
Read(val, rest) == [val |-> val, rest |-> rest]

_pb_varint[val \in Nat] ==
  IF val > 127 THEN <<128 + (val % 128)>> \o _pb_varint[val \div 128]
  ELSE <<val>>

(* The loop adds each byte's seven bits above those read so far, which is  *)
(* to say below those read later.                                          *)
_read_varint[data \in Bytes] ==
  IF data = <<>> THEN {}
  ELSE IF data[1] < 128 THEN {Read(data[1], Tail(data))}
  ELSE {Read(data[1] - 128 + 128 * r.val, r.rest) :
          r \in _read_varint[Tail(data)]}

(* Numbers packed in one run, which only the device does; in a run that is *)
(* cut the list ends before the number that is cut.                        *)
Packed[vals \in Seq(Nat)] ==
  IF vals = <<>> THEN <<>> ELSE _pb_varint[vals[1]] \o Packed[Tail(vals)]

_decode_packed_varints[data \in Bytes] ==
  LET read == _read_varint[data] IN
  IF read = {} THEN <<>>
  ELSE LET r == CHOOSE r \in read : TRUE
       IN <<r.val>> \o _decode_packed_varints[r.rest]

-----------------------------------------------------------------------------
(* Fields: a tag, then a number (wire 0), so many bytes (wire 2), or four  *)
(* or eight bytes.                                                         *)

Fields == [num : Nat, wire : {0}, val : Nat]
          \cup [num : Nat, wire : {1, 2, 5}, val : Bytes]

Field(num, wire, val) == [num |-> num, wire |-> wire, val |-> val]

_pb_field_varint(f, v) == Field(f, 0, v)
_pb_field_bytes(f, d) == Field(f, 2, d)

(* The fields that the builders make, and one as its bytes.                *)
Built == {x \in Fields : x.wire \in {0, 2}}

Encoded(x) ==
  _pb_varint[8 * x.num + x.wire]
    \o (IF x.wire = 0 THEN _pb_varint[x.val] ELSE _pb_varint[Len(x.val)] \o x.val)

(* A message: the builders append field to field.                          *)
Message[fields \in Seq(Built)] ==
  IF fields = <<>> THEN <<>> ELSE Encoded(fields[1]) \o Message[Tail(fields)]

(* A field that was read, and what follows it.                             *)
Parsed(field, rest) == [field |-> field, rest |-> rest]

(* n bytes of data, unless it has fewer.                                   *)
Slice(num, wire, data, n) ==
  IF n > Len(data) THEN {}
  ELSE {Parsed(Field(num, wire, SubSeq(data, 1, n)), Rest(data, n))}

(* How many bytes the value has, and what follows that number; groups and  *)
(* unknown types are malformed.                                            *)
Size(wire, data) ==
  CASE wire = 2 -> _read_varint[data]
    [] wire = 5 -> {Read(4, data)}
    [] wire = 1 -> {Read(8, data)}
    [] OTHER    -> {}

(* The value that follows a tag.                                           *)
Value(num, wire, data) ==
  IF wire = 0
  THEN {Parsed(_pb_field_varint(num, v.val), v.rest) : v \in _read_varint[data]}
  ELSE UNION {Slice(num, wire, n.rest, n.val) : n \in Size(wire, data)}

FirstField(data) ==
  UNION {Value(tag.val \div 8, tag.val % 8, tag.rest) : tag \in _read_varint[data]}

pb_parse[data \in Bytes] ==
  IF data = <<>> THEN {<<>>}
  ELSE UNION {{<<x.field>> \o fields : fields \in pb_parse[x.rest]} :
                x \in FirstField(data)}

(* parse_program_body: the start times of a program, whether they come     *)
(* one a field, as _build_program_pb writes them, or packed in one.        *)
Times(x) ==
  CASE x.num = 8 /\ x.wire = 0 -> <<x.val>>
    [] x.num = 8 /\ x.wire # 0 -> _decode_packed_varints[x.val]
    [] OTHER -> <<>>

start_mins[fields \in Seq(Fields)] ==
  IF fields = <<>> THEN <<>> ELSE Times(fields[1]) \o start_mins[Tail(fields)]

-----------------------------------------------------------------------------
(* Inner messages: the header, the length, the protobuf and a CRC.         *)

(* A register of 16 bits is the set of those that are 1.                   *)
Xor(r, s) == {i \in 0 .. 15 : (i \in r) # (i \in s)}
Shift(r) == Xor({i + 1 : i \in r \ {15}}, IF 15 \in r THEN {0, 5, 12} ELSE {})
Fed(r, b) ==
  Shift(Shift(Shift(Shift(Shift(Shift(Shift(Shift(
    Xor(r, {i \in 8 .. 15 : (b \div 2 ^ (i - 8)) % 2 = 1})))))))))

_crc16_ccitt(data) ==
  LET crc[n \in 0 .. Len(data)] == IF n = 0 THEN {} ELSE Fed(crc[n - 1], data[n])
  IN crc[Len(data)]

(* The CRC as it is sent, the low byte first.                              *)
CrcBytes(data) ==
  LET crc == _crc16_ccitt(data)
      bit(i, weight) == IF i \in crc THEN weight ELSE 0
      byte(i) == bit(i, 1) + bit(i + 1, 2) + bit(i + 2, 4) + bit(i + 3, 8)
                 + bit(i + 4, 16) + bit(i + 5, 32) + bit(i + 6, 64) + bit(i + 7, 128)
  IN <<byte(0), byte(8)>>

MSG_HEADER == <<170, 119, 90, 15>>

(* The length has one byte: bytes() raises for a longer protobuf.          *)
_build_message(protobuf) ==
  LET msg == MSG_HEADER \o <<Len(protobuf) + 2, 0>> \o protobuf
  IN IF Len(protobuf) + 2 \in Byte THEN {msg \o CrcBytes(msg)} ELSE {}

decode_inner(pt) ==
  LET pb_end == 4 + pt[5] IN
  IF /\ Len(pt) >= 6 /\ SubSeq(pt, 1, 4) = MSG_HEADER
     /\ pt[5] >= 2 /\ pb_end + 2 <= Len(pt)
     /\ SubSeq(pt, pb_end + 1, pb_end + 2) = CrcBytes(SubSeq(pt, 1, pb_end))
  THEN {SubSeq(pt, 7, pb_end)}
  ELSE {}

(* The messages that follow one another in a stream: past whatever comes   *)
(* before the first header, the bytes of one that is whole, and the rest.  *)
Headers(stream) ==
  {i \in 1 .. Len(stream) - 5 : SubSeq(stream, i, i + 3) = MSG_HEADER}

FromHeader(stream) ==
  {Rest(stream, i - 1) : i \in {i \in Headers(stream) : \A j \in Headers(stream) : i <= j}}

FirstMessage(stream) ==
  {Read(SubSeq(m, 1, m[5] + 6), Rest(m, m[5] + 6)) :
     m \in {m \in FromHeader(stream) : m[5] >= 2 /\ m[5] + 6 <= Len(m)}}

(* A message whose CRC is wrong is passed over.                            *)
Valid(decoded) == IF decoded = {} THEN <<>> ELSE <<CHOOSE pb \in decoded : TRUE>>

split_inner_messages[stream \in Bytes] ==
  LET first == FirstMessage(stream) IN
  IF first = {} THEN <<>>
  ELSE LET m == CHOOSE m \in first : TRUE
       IN Valid(decode_inner(m.val)) \o split_inner_messages[m.rest]
=============================================================================
