--------------------------- MODULE RequestParser ---------------------------
(***************************************************************************)
(* parse_req, read_cmd_length and read_cmd_data of server.tpp: one run of  *)
(* the parser over the bytes of a frame that follow its length, whatever   *)
(* they are.  The pointer `data' is the number of bytes before it, `end'   *)
(* the length of the body.                                                 *)
(***************************************************************************)
EXTENDS Naturals, Sequences, SequencesExt

CONSTANTS
  Byte,             \* the values of a byte
  LEN_FIELD_SIZE,
  FieldValue,       \* the uint32_t that LEN_FIELD_SIZE bytes are copied into
  MAX_CMD_ARGS,
  Bodies            \* the bodies the parser may be called with

ASSUME FieldAssumption ==
  /\ LEN_FIELD_SIZE \in Nat \ {0} /\ MAX_CMD_ARGS \in Nat
  /\ FieldValue \in [[1..LEN_FIELD_SIZE -> Byte] -> Nat]

ASSUME BodiesAssumption == Bodies \subseteq Seq(Byte)

VARIABLES
  body,       \* the bytes, from the argument data to end
  data,       \* how many of them the parser has consumed
  nstr,       \* how many strings the body declares
  cmd_len,    \* the declared length of the one being read
  cmds,       \* parsed_cmds
  stage       \* where the parser is, or what it returned

parserVars == <<body, data, nstr, cmd_len, cmds, stage>>

Reading == {"nstr", "len", "cmd"}
Stages == Reading \cup {"true", "false"}

Field(at) == FieldValue[SubSeq(body, at + 1, at + LEN_FIELD_SIZE)]

\* Mutant: the last byte of the body is out of reach.
FitsStrictly(n) == data + n < Len(body)

\* The check of read_cmd_length and read_cmd_data: n more bytes before end.
Fits(n) == data + n <= Len(body)

\* Both helpers return false and leave data and out alone.
Refuse ==
  /\ stage' = "false"
  /\ UNCHANGED <<body, data, nstr, cmd_len, cmds>>

ReadNstr ==
  /\ stage = "nstr" /\ Fits(LEN_FIELD_SIZE)
  /\ nstr' = Field(data)
  /\ data' = data + LEN_FIELD_SIZE
  /\ stage' = IF nstr' > MAX_CMD_ARGS THEN "false" ELSE "len"
  /\ UNCHANGED <<body, cmd_len, cmds>>

\* The head of an iteration; parsed_cmds grows before its string is read.
ReadLength ==
  /\ stage = "len" /\ Len(cmds) < nstr /\ Fits(LEN_FIELD_SIZE)
  /\ cmd_len' = Field(data)
  /\ data' = data + LEN_FIELD_SIZE
  /\ cmds' = Append(cmds, << >>)
  /\ stage' = "cmd"
  /\ UNCHANGED <<body, nstr>>

\* Mutant: data also moves past a terminator, which the strings do not have.
AfterTerminator(n) == data + n + 1

\* data after read_cmd_data copied n bytes.
AfterCopy(n) == data + n

ReadString ==
  /\ stage = "cmd" /\ Fits(cmd_len)
  /\ cmds' = [cmds EXCEPT ![Len(cmds)] = SubSeq(body, data + 1, data + cmd_len)]
  /\ data' = AfterCopy(cmd_len)
  /\ stage' = "len"
  /\ UNCHANGED <<body, nstr, cmd_len>>

CannotRead ==
  /\ \/ stage = "nstr" /\ ~Fits(LEN_FIELD_SIZE)
     \/ stage = "len" /\ Len(cmds) < nstr /\ ~Fits(LEN_FIELD_SIZE)
     \/ stage = "cmd" /\ ~Fits(cmd_len)
  /\ Refuse

Accept ==
  /\ stage = "len" /\ Len(cmds) = nstr
  /\ stage' = "true"
  /\ UNCHANGED <<body, data, nstr, cmd_len, cmds>>

\* A call of parse_req with the bytes b.
Call(b) ==
  /\ body = b /\ data = 0 /\ nstr = 0 /\ cmd_len = 0 /\ cmds = << >>
  /\ stage = "nstr"

Init == \E b \in Bodies : Call(b)

Parse == ReadNstr \/ ReadLength \/ ReadString \/ CannotRead \/ Accept

Spec == Init /\ [][Parse]_parserVars

-----------------------------------------------------------------------------
(* What a body means, without a parser *)

\* The strings of a body begin after p[0], p[1], ..., each where the one before
\* it ends, and the n-th of them ends at p[n], inside the body.
Chain(p, n) ==
  /\ p \in [0..n -> 0..Len(body)]
  /\ p[0] = LEN_FIELD_SIZE
  /\ \A i \in 1..n : /\ p[i - 1] + LEN_FIELD_SIZE <= Len(body)
                     /\ p[i] = p[i - 1] + LEN_FIELD_SIZE + Field(p[i - 1])

WellFormed ==
  /\ LEN_FIELD_SIZE <= Len(body) /\ Field(0) <= MAX_CMD_ARGS
  /\ \E p \in [0..Field(0) -> 0..Len(body)] : Chain(p, Field(0))

Strings(p, n) ==
  [i \in 1..n |-> SubSeq(body, p[i - 1] + LEN_FIELD_SIZE + 1, p[i])]

-----------------------------------------------------------------------------
(* Properties *)

TypeOK ==
  /\ body \in Seq(Byte)
  /\ data \in Nat /\ nstr \in Nat /\ cmd_len \in Nat
  /\ cmds \in Seq(Seq(Byte))
  /\ stage \in Stages

\* The pointer of parse_req never passes the end of the frame: no length in
\* it, however large, makes the parser read the frame behind it or beyond the
\* buffer.
InBounds == data <= Len(body)

\* parse_req accepts exactly the well-formed bodies, and hands over their
\* strings: nothing depends on the bytes behind the last string, and a body
\* that is cut off anywhere is refused.
DecidesFormat ==
  /\ stage = "true" =>
       /\ WellFormed
       /\ \E p \in [0..nstr -> 0..Len(body)] :
            Chain(p, nstr) /\ cmds = Strings(p, nstr)
  /\ stage = "false" => ~WellFormed
=============================================================================
