---------------------------- MODULE RequestCodec ----------------------------
(***************************************************************************)
(* A request on its way from RedisSerializer::serialize (client.h), which  *)
(* writes it field by field into a buffer of a size computed beforehand,   *)
(* over the length check of try_request (server.tpp) to parse_req; and the *)
(* frames of other programs, whose body may be any of Bodies.              *)
(***************************************************************************)
EXTENDS RequestParser

CONSTANTS
  Width,                \* the number of values of a uint32_t
  FieldBytes,           \* the bytes of a uint32_t: the inverse of FieldValue
  MAX_MSG_FIELD_SIZE,
  Messages              \* the commands a client may send

LengthOfAll(m) == FoldFunction(+, 0, [i \in DOMAIN m |-> Len(m[i])])

\* No caller of serialize comes near 2^32 bytes: process_args passes on argv,
\* and the longest request of the benchmarks has 2 MiB.
ASSUME CodecAssumption ==
  /\ Width \in Nat \ {0} /\ MAX_MSG_FIELD_SIZE \in Nat /\ 0 \in Byte
  /\ FieldBytes \in [0..Width - 1 -> [1..LEN_FIELD_SIZE -> Byte]]
  /\ \A n \in 0..Width - 1 : FieldValue[FieldBytes[n]] = n
  /\ Messages \subseteq Seq(Seq(Byte))
  /\ \A m \in Messages :
       LEN_FIELD_SIZE * (2 + Len(m)) + LengthOfAll(m) < Width

VARIABLES
  message,    \* the argument of serialize
  wbuf,       \* its result
  p,          \* how many bytes of it are written
  put         \* the piece that is written next, and the string it belongs to;
              \* "foreign" when the frame does not come from serialize

codecVars == <<message, wbuf, p, put>>
allVars == <<codecVars, parserVars>>

\* Mutant: the field of nstr is forgotten.
SizeWithoutNstr(m) ==
  LEN_FIELD_SIZE + LEN_FIELD_SIZE * Len(m) + LengthOfAll(m)

\* total_len as the vector is allocated.
total_len(m) ==
  2 * LEN_FIELD_SIZE + LEN_FIELD_SIZE * Len(m) + LengthOfAll(m)

\* Mutant: nbytes counts its own field.
NbytesOfAll(m) == total_len(m)

nbytes(m) == total_len(m) - LEN_FIELD_SIZE

\* memcpy to p.  What lies beyond wbuf is not the serializer's memory.
Copy(bytes) ==
  /\ wbuf' = [k \in DOMAIN wbuf |->
                IF k \in p + 1 .. p + Len(bytes) THEN bytes[k - p] ELSE wbuf[k]]
  /\ p' = p + Len(bytes)
  /\ UNCHANGED <<message, parserVars>>

NextString(i) == <<IF i <= Len(message) THEN "len" ELSE "sent", i>>

Allocate ==
  /\ put = <<"size", 0>>
  /\ wbuf' = [k \in 1..total_len(message) |-> 0]
  /\ put' = <<"nbytes", 0>>
  /\ UNCHANGED <<message, p, parserVars>>

PutNbytes ==
  /\ put = <<"nbytes", 0>> /\ Copy(FieldBytes[nbytes(message)]) /\ put' = <<"nstr", 0>>

PutNstr ==
  /\ put = <<"nstr", 0>> /\ Copy(FieldBytes[Len(message)]) /\ put' = NextString(1)

PutLength ==
  \E i \in DOMAIN message :
    /\ put = <<"len", i>>
    /\ Copy(FieldBytes[Len(message[i])])
    /\ put' = <<"str", i>>

PutString ==
  \E i \in DOMAIN message :
    put = <<"str", i>> /\ Copy(message[i]) /\ put' = NextString(i + 1)

\* The server has received all of wbuf, and nothing else.
DataLen == FieldValue[SubSeq(wbuf, 1, LEN_FIELD_SIZE)]

\* try_request passes the bytes after data_len on to parse_req.
TryRequest ==
  /\ put[1] = "sent"
  /\ Len(wbuf) >= LEN_FIELD_SIZE /\ DataLen <= MAX_MSG_FIELD_SIZE
  /\ LEN_FIELD_SIZE + DataLen <= Len(wbuf)
  /\ body' = SubSeq(wbuf, LEN_FIELD_SIZE + 1, LEN_FIELD_SIZE + DataLen)
  /\ stage' = "nstr"
  /\ put' = <<"received", 0>>
  /\ UNCHANGED <<message, wbuf, p, data, nstr, cmd_len, cmds>>

CodecInit ==
  /\ wbuf = << >> /\ p = 0
  /\ \/ message \in Messages /\ put = <<"size", 0>> /\ Call(<< >>)
     \/ message = << >> /\ put = <<"foreign", 0>> /\ \E b \in Bodies : Call(b)

CodecNext ==
  \/ Allocate \/ PutNbytes \/ PutNstr \/ PutLength \/ PutString \/ TryRequest
  \/ put[1] \in {"received", "foreign"} /\ Parse /\ UNCHANGED codecVars

CodecSpec == CodecInit /\ [][CodecNext]_allVars /\ WF_allVars(CodecNext)

-----------------------------------------------------------------------------
(* Properties *)

\* serialize never writes behind the vector it has allocated, and leaves no
\* byte of it unwritten: the two computations of the layout agree.
WritesFit ==
  put[1] \notin {"size", "foreign"} =>
    /\ p <= Len(wbuf)
    /\ put[1] \in {"sent", "received"} => p = Len(wbuf)

\* parse_req hands a command over as the client's user typed it.
Faithful == put[1] = "received" /\ stage = "true" => cmds = message

\* A command within the limits of the server is executed, and one that is
\* beyond them is not: the client checks neither limit.
Executed ==
  put[1] # "foreign" =>
    IF nbytes(message) <= MAX_MSG_FIELD_SIZE /\ Len(message) <= MAX_CMD_ARGS
    THEN <>(put[1] = "received" /\ stage = "true")
    ELSE [](put[1] = "received" => stage # "true")
=============================================================================
