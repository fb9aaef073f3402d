-------------------------------- MODULE Wire --------------------------------
(***************************************************************************)
(* The MySQL wire format as the proxy reads and writes it: how a packet is *)
(* cut into frames and put together again (mysql/conn.go), length-encoded  *)
(* integers (misc/encoding.go), the types of columns and parameters        *)
(* (constant/type.go), and the conversions a parameter and a value of a    *)
(* binary row go through on their way (packet/mysql.go, mysql/rows.go,     *)
(* driver/statement.go).                                                   *)
(*                                                                         *)
(* An integer is its number, a string its length; a date and time tells    *)
(* apart zero, 0001-01-01 and other dates, midnight and other times, and   *)
(* its microseconds; a time its sign, whether it is 00:00:00, and its      *)
(* microseconds.                                                           *)
(***************************************************************************)
EXTENDS Integers, SequencesExt

CONSTANTS
  MaxPacketSize,  \* the length of a full frame, 2^24 - 1 in the code
  SeqSize,        \* sequence numbers count modulo this, 256 in the code
  Bits            \* width of an integer type, 8, 16, 32 and 64 in the code

IntTypes == {"Tiny", "Short", "Long", "LongLong"}

ASSUME WireAssumption ==
  /\ MaxPacketSize \in Nat \ {0}
  /\ SeqSize \in Nat /\ SeqSize > 1
  /\ Bits \in [IntTypes -> Nat \ {0}]

(***************************************************************************)
(* Frames.                                                                 *)
(***************************************************************************)

(* The frames of a packet, numbered from seq; a packet that ends in a full
   frame is followed by an empty one. *)
WritePacket(data, len, seq) ==
  LET chunks[rest \in 0..len] ==
        CASE rest < MaxPacketSize -> <<rest>>
          [] rest = MaxPacketSize -> <<rest, 0>>
          [] OTHER -> <<MaxPacketSize>> \o chunks[rest - MaxPacketSize]
  IN  [i \in DOMAIN chunks[len] |-> [seq |-> (seq + i - 1) % SeqSize, len |-> chunks[len][i], data |-> data, first |-> i = 1]]

SumLen(frames) == FoldLeft(LAMBDA n, f : n + f.len, 0, frames)

(* The packet at the head of a stream: frames are joined until one is not
   full.  "wait" when the stream ends before that, "bad" when a frame has not
   the number that is expected, in which case only its header is consumed. *)
ReadPacket(stream, seq) ==
  LET short == {i \in DOMAIN stream : stream[i].len < MaxPacketSize}
      last == IF short = {} THEN Len(stream) ELSE Min(short)
      wrong == {i \in 1..last : stream[i].seq # (seq + i - 1) % SeqSize}
  IN  CASE wrong # {} -> [status |-> "bad"]
        [] wrong = {} /\ short = {} -> [status |-> "wait"]
        [] OTHER -> [status |-> "ok", data |-> stream[1].data, len |-> SumLen(SubSeq(stream, 1, last)),
                     rest |-> SubSeq(stream, last + 1, Len(stream)), seq |-> (seq + last) % SeqSize]

(***************************************************************************)
(* Length-encoded integers.                                                *)
(***************************************************************************)
LenEncIntSize(i) == IF i < 251 THEN 1 ELSE IF i < 65536 THEN 3 ELSE IF i < 16777216 THEN 4 ELSE 9

LittleEndian(i, n) == [k \in 1..n |-> IF k > 4 THEN 0 ELSE (i \div 256^(k - 1)) % 256]

WriteLenEncInt(i) ==
  IF i < 251 THEN <<i>> ELSE IF i < 65536 THEN <<252>> \o LittleEndian(i, 2)
  ELSE IF i < 16777216 THEN <<253>> \o LittleEndian(i, 3) ELSE <<254>> \o LittleEndian(i, 8)

(* The writer of parameters has its own encoder. *)
AppendLengthEncodedInteger(i) ==
  IF i <= 250 THEN <<i>> ELSE IF i <= 65535 THEN <<252>> \o LittleEndian(i, 2)
  ELSE IF i <= 16777215 THEN <<253>> \o LittleEndian(i, 3) ELSE <<254>> \o LittleEndian(i, 8)

FromLittleEndian(b) == LET sum[k \in 0..Len(b)] == IF k = 0 THEN 0 ELSE IF k > 4 THEN sum[k - 1]
                                                  ELSE sum[k - 1] + b[k] * 256^(k - 1)
                       IN  sum[Len(b)]

Malformed == [ok |-> FALSE]

(* Strict about the length, and 251 is a number to it. *)
ReadLenEncInt(b) ==
  LET width == IF b[1] = 252 THEN 2 ELSE IF b[1] = 253 THEN 3 ELSE IF b[1] = 254 THEN 8 ELSE 0
  IN  IF Len(b) = 0 \/ Len(b) < 1 + width THEN Malformed
      ELSE [ok |-> TRUE, n |-> IF width = 0 THEN b[1] ELSE FromLittleEndian(SubSeq(b, 2, 1 + width))]

(* 251, and nothing at all, are NULL to it. *)
ReadLengthEncodedInteger(b) ==
  LET width == IF b[1] = 252 THEN 2 ELSE IF b[1] = 253 THEN 3 ELSE IF b[1] = 254 THEN 8 ELSE 0
  IN  IF Len(b) = 0 \/ b[1] = 251 THEN [null |-> TRUE]
      ELSE [null |-> FALSE, n |-> IF width = 0 THEN b[1] ELSE FromLittleEndian(SubSeq(b, 2, 1 + width))]

(***************************************************************************)
(* Types.  On the wire a type is a code and flags; the proxy has a type of *)
(* its own for each unsigned integer.                                      *)
(***************************************************************************)
UintOf == [Tiny |-> "Uint8", Short |-> "Uint16", Long |-> "Uint32", LongLong |-> "Uint64"]
Uints == {UintOf[t] : t \in IntTypes}
Base(t) == IF t \in Uints THEN CHOOSE i \in IntTypes : UintOf[i] = t ELSE t

(* The flags of a column: "unsigned" is bit 5 and "binary" is bit 7. *)
modifyType(typ, flags) == IF typ \in IntTypes /\ "unsigned" \in flags THEN UintOf[typ] ELSE typ
MySQLToType(typ, flags) == modifyType(typ, flags)
TypeToMySQL(typ) == [typ |-> Base(typ), flags |-> IF typ \in Uints THEN {"unsigned"} ELSE {}]

(* In COM_STMT_EXECUTE an unsigned parameter is marked by bit 7. *)
ParamFlags(unsigned) == IF unsigned THEN {"binary"} ELSE {}

Signed(n, w) == IF n >= 2^(w - 1) THEN n - 2^w ELSE n
ByteSize == [Tiny |-> 1, Short |-> 2, Long |-> 4, LongLong |-> 8]

(***************************************************************************)
(* Values as a client or a server means them: [typ, unsigned, v].          *)
(***************************************************************************)
Zero == [date |-> 0, clock |-> 0, micro |-> 0]        \* 0000-00-00 00:00:00
GoZero == [date |-> 1, clock |-> 0, micro |-> 0]      \* time.Time{}: 0001-01-01
NULL == [typ |-> "NULL", unsigned |-> FALSE]

(* The binary form, as a server or a client outside the proxy writes it. *)
Encode(v) ==
  CASE v.typ \in IntTypes -> [size |-> ByteSize[v.typ], n |-> v.v % 2^Bits[v.typ]]
    [] v.typ = "DateTime" -> [size |-> IF v.v = Zero THEN 0 ELSE IF v.v.micro # 0 THEN 11 ELSE IF v.v.clock # 0 THEN 7 ELSE 4,
                              v |-> v.v]
    [] v.typ = "Time" -> [size |-> IF v.v.micro # 0 THEN 12 ELSE IF v.v.clock # 0 THEN 8 ELSE 0, v |-> v.v]
    [] v.typ = "String" -> [size |-> LenEncIntSize(v.v) + v.v, head |-> WriteLenEncInt(v.v)]
    [] OTHER -> [size |-> 0]

(* ... and reads it. *)
Decode(typ, unsigned, w) ==
  CASE typ \in IntTypes -> [typ |-> typ, unsigned |-> unsigned,
                            v |-> IF unsigned THEN w.n ELSE Signed(w.n, Bits[typ])]
    [] typ = "DateTime" -> [typ |-> typ, unsigned |-> unsigned, v |-> IF w.size = 0 THEN Zero ELSE w.v]
    [] typ = "Time" -> [typ |-> typ, unsigned |-> unsigned, v |-> w.v]
    [] typ = "String" -> LET r == ReadLengthEncodedInteger(w.head)
                         IN  IF r.null THEN NULL ELSE [typ |-> typ, unsigned |-> unsigned, v |-> r.n]
    [] OTHER -> NULL

(***************************************************************************)
(* A parameter: parsed by the listener, converted by database/sql's rules, *)
(* written by the connection to the backend.                               *)
(***************************************************************************)
Go(t, v) == [go |-> t, v |-> v]

\* Mutant: a short integer is read without its sign.
ParseStmtIntUnsigned(typ, w) == Go("int64", w.n)

(* A short one is read as signed whatever its type says. *)
ParseStmtInt(typ, w) ==
  CASE Base(typ) \in {"Tiny", "Short"} -> Go("int64", Signed(w.n, Bits[Base(typ)]))
    [] typ = "Uint32" -> Go("int64", w.n)
    [] typ = "Uint64" -> Go("uint64", w.n)
    [] OTHER -> Go("int64", Signed(w.n, Bits[typ]))

(* Dates and times become text, the zero date a blank. *)
ParseStmtDate(w) ==
  CASE w.size = 0 -> Go("text", " ")
    [] w.size = 4 -> Go("text", [w.v EXCEPT !.clock = 0, !.micro = 0])
    [] w.size = 7 -> Go("text", [w.v EXCEPT !.micro = 0])
    [] w.size = 11 -> Go("text", w.v)
    [] OTHER -> Malformed
ParseStmtTime(w) ==
  CASE w.size = 0 -> Go("text", [neg |-> FALSE, clock |-> 0, micro |-> 0])
    [] w.size = 8 -> Go("text", [w.v EXCEPT !.micro = 0])
    [] w.size = 12 -> Go("text", w.v)
    [] OTHER -> Malformed

ParseStmtArgs(typ, w) ==
  CASE typ = "NULL" -> Go("nil", 0)
    [] Base(typ) \in IntTypes -> ParseStmtInt(typ, w)
    [] typ = "DateTime" -> ParseStmtDate(w)
    [] typ = "Time" -> ParseStmtTime(w)
    [] typ = "String" -> LET r == ReadLenEncInt(w.head) IN IF r.ok THEN Go("bytes", r.n) ELSE Malformed

(* driver.DefaultParameterConverter. *)
ConvertValue(g) ==
  IF g.go = "uint64" THEN IF g.v >= 2^(Bits["LongLong"] - 1) THEN Malformed ELSE Go("int64", g.v) ELSE g

NumberArg(g) ==
  [typ |-> "LongLong", flags |-> IF g.go = "uint64" THEN {"binary"} ELSE {}, w |-> [size |-> 8, n |-> g.v % 2^Bits["LongLong"]]]

(* A long string goes ahead in packets of its own, whose first four bytes are
   the space left for a header that WritePacket adds by itself: the server
   reads a command of type zero. *)
writeCommandLongData == [typ |-> "LongData", flags |-> {}, w |-> [size |-> 0]]
StringArg(g, longDataSize) ==
  IF g.v >= longDataSize THEN writeCommandLongData
  ELSE [typ |-> "String", flags |-> {}, w |-> [size |-> LenEncIntSize(g.v) + g.v, head |-> AppendLengthEncodedInteger(g.v)]]

writeExecutePacket(g, longDataSize) ==
  CASE g.go = "nil" -> [typ |-> "NULL", flags |-> {}, w |-> [size |-> 0]]
    [] g.go \in {"int64", "uint64"} -> NumberArg(g)
    [] g.go = "text" -> [typ |-> "Text", flags |-> {}, w |-> g.v]
    [] g.go = "bytes" -> StringArg(g, longDataSize)

(***************************************************************************)
(* A value of a binary row: decoded when it comes from the backend, and    *)
(* encoded again for the client.                                           *)
(***************************************************************************)
BinaryDecodeInt(typ, w) ==
  CASE typ \in IntTypes -> [typ |-> typ, go |-> "int64", v |-> Signed(w.n, Bits[typ])]
    [] typ \in Uints \ {"Uint64"} -> [typ |-> typ, go |-> "int64", v |-> w.n]
    [] OTHER -> [typ |-> typ, go |-> IF w.n >= 2^(Bits["LongLong"] - 1) THEN "digits" ELSE "int64", v |-> w.n]

ParseBinaryDateTime(w) == IF w.size = 0 THEN GoZero ELSE w.v

(* A value that makes the handler panic. *)
Panics == [typ |-> "panic"]

(* What is kept of a time is its first byte, the sign.  It is sliced off the
   packet even when the value has no bytes: after a value in the last column
   there are none. *)
BinaryDecodeTemporal(typ, w, last) ==
  CASE last /\ w.size = 0 -> Panics
    [] typ = "Time" /\ ~(last /\ w.size = 0) ->
         [typ |-> typ, go |-> "bytes", len |-> w.size, raw |-> IF w.size = 0 THEN FALSE ELSE w.v.neg]
    [] OTHER -> [typ |-> typ, go |-> "time", v |-> ParseBinaryDateTime(w)]

(* last: the value is in the last column of its row. *)
BinaryDecode(typ, w, last) ==
  CASE Base(typ) \in IntTypes -> BinaryDecodeInt(typ, w)
    [] typ \in {"DateTime", "Time"} -> BinaryDecodeTemporal(typ, w, last)
    [] typ = "String" -> LET r == ReadLengthEncodedInteger(w.head)
                         IN  IF r.null THEN [typ |-> "NULL"] ELSE [typ |-> typ, go |-> "bytes", v |-> r.n]
    [] OTHER -> [typ |-> "NULL"]

BinaryVal2MySQLLen(x) ==
  CASE x.typ = "NULL" -> 0
    [] Base(x.typ) \in IntTypes -> ByteSize[Base(x.typ)]
    [] x.typ = "DateTime" -> IF x.v.clock = 0 /\ x.v.micro = 0 THEN 5 ELSE IF x.v.clock = 0 THEN 8 ELSE 12
    [] x.typ = "Time" -> x.len + 1
    [] x.typ = "String" -> LenEncIntSize(x.v) + x.v

(* The microseconds are divided as if they were nanoseconds of which one
   wants milliseconds; of a time only the sign is left. *)
BinaryVal2MySQL(x) ==
  CASE x.typ = "NULL" -> [size |-> 0]
    [] Base(x.typ) \in IntTypes -> [size |-> ByteSize[Base(x.typ)], n |-> x.v % 2^Bits[Base(x.typ)]]
    [] x.typ = "DateTime" ->
         LET micro == x.v.micro \div 1000
             size == IF micro # 0 THEN 11 ELSE IF x.v.clock # 0 THEN 7 ELSE 4
         IN  [size |-> size, v |-> [x.v EXCEPT !.micro = micro]]
    [] x.typ = "Time" -> [size |-> x.len, v |-> [neg |-> x.raw, clock |-> 0, micro |-> 0]]
    [] x.typ = "String" -> [size |-> LenEncIntSize(x.v) + x.v, head |-> WriteLenEncInt(x.v)]

(* A text row is written from the bytes it was read from. *)
TextDecode(head) == ReadLengthEncodedInteger(head)
writeTextRow(x) == IF x.null THEN <<251>> ELSE WriteLenEncInt(x.n)
TextOf(v) == CASE v.typ = "NULL" -> <<251>>
               [] v.typ = "String" -> WriteLenEncInt(v.v)
               [] OTHER -> WriteLenEncInt(1)

(* The bytes BinaryVal2MySQL produces: a date and a time have a size byte. *)
Written(x) == BinaryVal2MySQL(x).size + IF x.typ \in {"DateTime", "Time"} THEN 1 ELSE 0
=============================================================================
