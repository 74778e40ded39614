------------------------- MODULE RequestCodecProofs -------------------------
(***************************************************************************)
(* parse_req decides the request format, for bodies, fields and limits of  *)
(* every size.  The format is defined by chains of positions; the          *)
(* invariant says that the parser walks the only chain there is.           *)
(* serialize writes a frame along the layout that its first loop has added *)
(* up, and what the parser's chain cuts out of that frame is the message.  *)
(***************************************************************************)
EXTENDS RequestCodec, StreamProofs, FiniteSetTheorems

\* The parser has consumed the first n strings of the body and stands at `at':
\* they end there, and so do the first n strings of every other reading of it.
Parsed(n, at) ==
  /\ \E q \in [0..n -> 0..Len(body)] :
       /\ Chain(q, n) /\ q[n] = at
       /\ \A i \in 1..n :
            cmds[i] = SubSeq(body, q[i - 1] + LEN_FIELD_SIZE + 1, q[i])
  /\ \A m \in Nat : \A q : m >= n /\ Chain(q, m) => q[n] = at

\* At the second field of an iteration.
AtString ==
  \E at \in Nat :
    /\ Len(cmds) >= 1 /\ Parsed(Len(cmds) - 1, at)
    /\ at + LEN_FIELD_SIZE = data /\ cmd_len = Field(at)

ParserInv ==
  /\ TypeOK /\ InBounds /\ DecidesFormat
  /\ stage = "nstr" => data = 0 /\ cmds = << >>
  /\ stage \in {"len", "cmd"} =>
       /\ LEN_FIELD_SIZE <= Len(body) /\ nstr = Field(0)
       /\ nstr <= MAX_CMD_ARGS /\ Len(cmds) <= nstr
  /\ stage = "true" => nstr = Field(0)
  /\ stage = "len" => Parsed(Len(cmds), data)
  /\ stage = "cmd" => AtString

\* Bytes that lie inside the body are bytes.
LEMMA SliceType ==
  ASSUME NEW b \in Seq(Byte), NEW from \in Nat, NEW n \in Nat, from + n <= Len(b)
  PROVE  /\ SubSeq(b, from + 1, from + n) \in Seq(Byte)
         /\ Len(SubSeq(b, from + 1, from + n)) = n
<1>1. Len(b) \in Nat /\ \A i \in from + 1 .. from + n : b[i] \in Byte
  BY ElementOfSeq
<1>2. from + 1 \in Int /\ from + n \in Int
  OBVIOUS
<1> QED
  BY <1>1, <1>2, SubSeqProperties

LEMMA FieldType ==
  ASSUME body \in Seq(Byte), NEW at \in Nat, at + LEN_FIELD_SIZE <= Len(body)
  PROVE  Field(at) \in Nat
<1>1. LEN_FIELD_SIZE \in Nat
  BY FieldAssumption
<1> DEFINE s == SubSeq(body, at + 1, at + LEN_FIELD_SIZE)
<1>2. s \in Seq(Byte) /\ Len(s) = LEN_FIELD_SIZE
  BY <1>1, SliceType
<1>3. s \in [1..LEN_FIELD_SIZE -> Byte]
  BY <1>2, LenProperties
<1> QED
  BY <1>3, FieldAssumption DEF Field

LEMMA CallParserInv == body \in Seq(Byte) /\ Call(body) => ParserInv
<1> SUFFICES ASSUME body \in Seq(Byte), Call(body) PROVE ParserInv
  OBVIOUS
<1>1. Len(body) \in Nat
  OBVIOUS
<1> QED
  BY <1>1 DEF Call, ParserInv, TypeOK, InBounds, DecidesFormat, Stages, Reading

LEMMA CallParserInvPrime == (body \in Seq(Byte) /\ Call(body) => ParserInv)'
BY CallParserInv, PTL

LEMMA InitParserInv == Init => ParserInv
<1> SUFFICES ASSUME Init PROVE ParserInv
  OBVIOUS
<1>1. body \in Seq(Byte) /\ Call(body)
  BY BodiesAssumption DEF Init, Call
<1> QED
  BY <1>1, CallParserInv

LEMMA NextParserInv == ParserInv /\ [Parse]_parserVars => ParserInv'
<1> SUFFICES ASSUME ParserInv, [Parse]_parserVars PROVE ParserInv'
  OBVIOUS
<1>0. /\ LEN_FIELD_SIZE \in Nat \ {0} /\ MAX_CMD_ARGS \in Nat
      /\ body \in Seq(Byte) /\ Len(body) \in Nat /\ data \in Nat /\ nstr \in Nat
      /\ cmd_len \in Nat /\ cmds \in Seq(Seq(Byte)) /\ Len(cmds) \in Nat
      /\ data <= Len(body)
  BY FieldAssumption DEF ParserInv, TypeOK, InBounds
<1>1. CASE ReadNstr
  <2>1. /\ data = 0 /\ cmds = << >> /\ LEN_FIELD_SIZE <= Len(body)
        /\ UNCHANGED <<body, cmd_len, cmds>>
        /\ data' = LEN_FIELD_SIZE /\ nstr' = Field(0)
        /\ stage' = IF Field(0) > MAX_CMD_ARGS THEN "false" ELSE "len"
    BY <1>0, <1>1 DEF ReadNstr, Fits, ParserInv
  <2>2. Field(0) \in Nat /\ Field(0)' = Field(0)
    <3>1. 0 \in Nat /\ 0 + LEN_FIELD_SIZE <= Len(body)
      BY <1>0, <2>1
    <3>2. Field(0) \in Nat
      BY <1>0, <3>1, FieldType
    <3> QED
      BY <2>1, <3>2 DEF Field
  <2>3. TypeOK' /\ InBounds'
    BY <1>0, <2>1, <2>2 DEF TypeOK, InBounds, Stages, Reading
  <2>4. CASE Field(0) > MAX_CMD_ARGS
    BY <1>0, <2>1, <2>2, <2>3, <2>4 DEF ParserInv, DecidesFormat, WellFormed
  <2>5. CASE ~(Field(0) > MAX_CMD_ARGS)
    <3>1. Parsed(Len(cmds), data)'
      <4> DEFINE q == [i \in 0..0 |-> LEN_FIELD_SIZE]
      <4>1. Len(cmds') = 0 /\ 1..0 = {}
        BY <2>1
      <4>2. q \in [0..0 -> 0..Len(body')] /\ q[0] = data'
        BY <1>0, <2>1
      <4>3. Chain(q, 0)'
        BY <1>0, <2>1, <4>1, <4>2 DEF Chain
      <4>4. \A m \in Nat : \A r : Chain(r, m)' => r[0] = data'
        BY <2>1 DEF Chain
      <4> QED
        BY <4>1, <4>2, <4>3, <4>4 DEF Parsed
    <3> QED
      BY <1>0, <2>1, <2>2, <2>3, <2>5, <3>1 DEF ParserInv, DecidesFormat
  <2> QED
    BY <2>4, <2>5
<1>2. CASE ReadLength
  <2>1. /\ stage = "len" /\ Len(cmds) < nstr /\ data + LEN_FIELD_SIZE <= Len(body)
        /\ cmd_len' = Field(data) /\ data' = data + LEN_FIELD_SIZE
        /\ cmds' = Append(cmds, << >>) /\ stage' = "cmd"
        /\ UNCHANGED <<body, nstr>>
    BY <1>2 DEF ReadLength, Fits
  <2>2. Field(data) \in Nat /\ Field(data)' = Field(data') /\ Field(0)' = Field(0)
    BY <1>0, <2>1, FieldType DEF Field
  <2>3. << >> \in Seq(Byte)
    OBVIOUS
  <2>4. /\ cmds' \in Seq(Seq(Byte)) /\ Len(cmds') = Len(cmds) + 1
        /\ \A i \in 1..Len(cmds) : cmds'[i] = cmds[i]
    BY <1>0, <2>1, <2>3
  <2>5. TypeOK' /\ InBounds'
    BY <1>0, <2>1, <2>2, <2>4 DEF TypeOK, InBounds, Stages, Reading
  <2>6. Parsed(Len(cmds), data)
    BY <2>1 DEF ParserInv
  <2>7. AtString'
    <3>0. PICK n \in Nat : n = Len(cmds)
      BY <1>0
    <3>1. PICK q \in [0..n -> 0..Len(body)] :
            /\ Chain(q, n) /\ q[n] = data
            /\ \A i \in 1..n :
                 cmds[i] = SubSeq(body, q[i - 1] + LEN_FIELD_SIZE + 1, q[i])
      BY <2>6, <3>0 DEF Parsed
    <3>2. \A m, r : Chain(r, m)' <=> Chain(r, m)
      BY <2>1 DEF Chain, Field
    <3>3. \A m \in Nat : \A r : m >= n /\ Chain(r, m)' => r[n] = data
      BY <2>6, <3>0, <3>2 DEF Parsed
    <3>4. /\ q \in [0..n -> 0..Len(body')] /\ Chain(q, n)' /\ q[n] = data
          /\ \A i \in 1..n :
               cmds'[i] = SubSeq(body', q[i - 1] + LEN_FIELD_SIZE + 1, q[i])
      BY <2>1, <2>4, <3>0, <3>1, <3>2
    <3>5. PICK at \in Nat : at = data
      BY <1>0
    <3>6. Parsed(n, at)'
      BY <3>3, <3>4, <3>5 DEF Parsed
    <3>7. Len(cmds') - 1 = n /\ Len(cmds') >= 1 /\ at + LEN_FIELD_SIZE = data'
      BY <1>0, <2>1, <2>4, <3>0, <3>5
    <3>8. cmd_len' = Field(at)'
      BY <2>1, <3>5 DEF Field
    <3> QED
      BY <3>6, <3>7, <3>8 DEF AtString
  <2> QED
    BY <1>0, <2>1, <2>2, <2>4, <2>5, <2>7 DEF ParserInv, DecidesFormat
<1>3. CASE ReadString
  <2>1. /\ stage = "cmd" /\ data + cmd_len <= Len(body)
        /\ cmds' = [cmds EXCEPT ![Len(cmds)] = SubSeq(body, data + 1, data + cmd_len)]
        /\ data' = data + cmd_len /\ stage' = "len"
        /\ UNCHANGED <<body, nstr, cmd_len>>
    BY <1>3 DEF ReadString, Fits, AfterCopy
  <2>2. PICK at \in Nat :
          /\ Len(cmds) >= 1 /\ Parsed(Len(cmds) - 1, at)
          /\ at + LEN_FIELD_SIZE = data /\ cmd_len = Field(at)
    BY <2>1 DEF ParserInv, AtString
  <2>3. PICK n \in Nat : n = Len(cmds) - 1 /\ n + 1 = Len(cmds)
    <3>1. Len(cmds) - 1 \in Nat /\ (Len(cmds) - 1) + 1 = Len(cmds)
      <4>1. Len(cmds) \in Nat /\ Len(cmds) >= 1
        BY <1>0, <2>2
      <4> QED
        BY <4>1
    <3> QED
      BY <3>1
  <2>4. SubSeq(body, data + 1, data + cmd_len) \in Seq(Byte)
    BY <1>0, <2>1, SliceType
  <2>5. /\ cmds' \in Seq(Seq(Byte)) /\ Len(cmds') = n + 1
        /\ \A i \in 1..n : cmds'[i] = cmds[i]
        /\ cmds'[n + 1] = SubSeq(body, data + 1, data + cmd_len)
    <3> DEFINE new == SubSeq(body, data + 1, data + cmd_len)
    <3> HIDE DEF new
    <3>1. cmds' = [cmds EXCEPT ![n + 1] = new] /\ new \in Seq(Byte)
      BY <2>1, <2>3, <2>4 DEF new
    <3>2. n + 1 \in 1..Len(cmds) /\ cmds \in [1..Len(cmds) -> Seq(Byte)]
      BY <1>0, <2>3
    <3>3. cmds' \in [1..n + 1 -> Seq(Byte)] /\ cmds'[n + 1] = new
      BY <2>3, <3>1, <3>2
    <3>4. cmds' \in Seq(Seq(Byte)) /\ Len(cmds') = n + 1
      BY <2>3, <3>3
    <3>5. \A i \in 1..n : cmds'[i] = cmds[i]
      BY <2>3, <3>1, <3>2
    <3> QED
      BY <3>3, <3>4, <3>5 DEF new
  <2>6. TypeOK' /\ InBounds'
    BY <1>0, <2>1, <2>5 DEF TypeOK, InBounds, Stages, Reading
  <2>7. PICK q \in [0..n -> 0..Len(body)] :
          /\ Chain(q, n) /\ q[n] = at
          /\ \A i \in 1..n :
               cmds[i] = SubSeq(body, q[i - 1] + LEN_FIELD_SIZE + 1, q[i])
    BY <2>2, <2>3 DEF Parsed
  <2>8. \A m \in Nat : \A r : m >= n /\ Chain(r, m) => r[n] = at
    BY <2>2, <2>3 DEF Parsed
  <2>9. \A m, r : Chain(r, m)' <=> Chain(r, m)
    BY <2>1 DEF Chain, Field
  <2>10. Parsed(n + 1, data)'
    <3>1. PICK r \in [0 .. n + 1 -> 0..Len(body)] :
            r[n + 1] = data' /\ \A i \in 0..n : r[i] = q[i]
      <4>1. [i \in 0 .. n + 1 |-> IF i <= n THEN q[i] ELSE data']
              \in [0 .. n + 1 -> 0..Len(body)]
        BY <1>0, <2>1, <2>3, <2>7
      <4> QED
        BY <4>1
    <3>2. r[0] = LEN_FIELD_SIZE
      BY <2>3, <2>7, <3>1 DEF Chain
    <3>3. ASSUME NEW i \in 1 .. n + 1
          PROVE  /\ r[i - 1] + LEN_FIELD_SIZE <= Len(body)
                 /\ r[i] = r[i - 1] + LEN_FIELD_SIZE + Field(r[i - 1])
                 /\ cmds'[i] = SubSeq(body, r[i - 1] + LEN_FIELD_SIZE + 1, r[i])
      <4>1. CASE i \in 1..n
        <5>1. i - 1 \in 0..n /\ i \in 0..n
          BY <2>3, <4>1
        <5> QED
          BY <2>5, <2>7, <3>1, <4>1, <5>1 DEF Chain
      <4>2. CASE i = n + 1
        <5>1. i - 1 = n /\ n \in 0..n
          BY <2>3, <4>2
        <5>2. r[i - 1] = at /\ r[i] = data + cmd_len
          BY <2>1, <2>7, <3>1, <4>2, <5>1
        <5>3. cmds'[i] = SubSeq(body, data + 1, data + cmd_len)
          BY <2>5, <4>2
        <5>4. at + LEN_FIELD_SIZE <= Len(body) /\ at + LEN_FIELD_SIZE + 1 = data + 1
          BY <1>0, <2>2
        <5> QED
          BY <2>2, <5>2, <5>3, <5>4
      <4> QED
        BY <2>3, <4>1, <4>2
    <3>4. Chain(r, n + 1)
      BY <3>1, <3>2, <3>3 DEF Chain
    <3>5. ASSUME NEW m \in Nat, NEW u, m >= n + 1, Chain(u, m)
          PROVE  u[n + 1] = data'
      <4>1. m >= n /\ n + 1 \in 1..m /\ (n + 1) - 1 = n
        BY <2>3, <3>5
      <4>2. u[n] = at
        BY <2>8, <3>5, <4>1
      <4>3. u[n + 1] = at + LEN_FIELD_SIZE + Field(at)
        BY <3>5, <4>1, <4>2 DEF Chain
      <4> QED
        BY <2>1, <2>2, <4>3
    <3>6. r \in [0 .. n + 1 -> 0..Len(body')] /\ Chain(r, n + 1)'
      BY <2>1, <2>9, <3>1, <3>4
    <3>7. \A i \in 1 .. n + 1 :
            cmds'[i] = SubSeq(body', r[i - 1] + LEN_FIELD_SIZE + 1, r[i])
      BY <2>1, <3>3
    <3>8. \A m \in Nat : \A u : m >= n + 1 /\ Chain(u, m)' => u[n + 1] = data'
      BY <2>9, <3>5
    <3> QED
      BY <3>1, <3>6, <3>7, <3>8 DEF Parsed
  <2>11. Parsed(Len(cmds), data)'
    BY <2>5, <2>10
  <2>12. Field(0)' = Field(0) /\ Len(cmds') = Len(cmds)
    BY <2>1, <2>3, <2>5 DEF Field
  <2> QED
    BY <1>0, <2>1, <2>6, <2>11, <2>12 DEF ParserInv, DecidesFormat
<1>4. CASE CannotRead
  <2>1. /\ stage' = "false" /\ UNCHANGED <<body, data, nstr, cmd_len, cmds>>
    BY <1>4 DEF CannotRead, Refuse
  <2>2. TypeOK' /\ InBounds'
    BY <1>0, <2>1 DEF TypeOK, InBounds, Stages, Reading
  <2>3. ~WellFormed
    <3> SUFFICES ASSUME WellFormed PROVE FALSE
      OBVIOUS
    <3>1. PICK q \in [0..Field(0) -> 0..Len(body)] : Chain(q, Field(0))
      BY DEF WellFormed
    <3>2. LEN_FIELD_SIZE <= Len(body) /\ Field(0) \in Nat
      BY <1>0, FieldType DEF WellFormed
    <3>3. CASE stage = "nstr" /\ ~Fits(LEN_FIELD_SIZE)
      BY <1>0, <3>2, <3>3 DEF ParserInv, Fits
    <3>4. CASE stage = "len" /\ Len(cmds) < nstr /\ ~Fits(LEN_FIELD_SIZE)
      <4>1. nstr = Field(0) /\ Parsed(Len(cmds), data)
        BY <3>4 DEF ParserInv
      <4>2. q[Len(cmds)] = data
        BY <1>0, <3>1, <3>4, <4>1 DEF Parsed
      <4>3. Len(cmds) + 1 \in 1..Field(0) /\ (Len(cmds) + 1) - 1 = Len(cmds)
        BY <1>0, <3>4, <4>1
      <4>4. q[Len(cmds)] + LEN_FIELD_SIZE <= Len(body)
        BY <3>1, <4>3 DEF Chain
      <4> QED
        BY <3>4, <4>2, <4>4 DEF Fits
    <3>5. CASE stage = "cmd" /\ ~Fits(cmd_len)
      <4>1. PICK at \in Nat :
              /\ Len(cmds) >= 1 /\ Parsed(Len(cmds) - 1, at)
              /\ at + LEN_FIELD_SIZE = data /\ cmd_len = Field(at)
        BY <3>5 DEF ParserInv, AtString
      <4>2. nstr = Field(0) /\ Len(cmds) <= nstr
        BY <3>5 DEF ParserInv
      <4>3. Len(cmds) - 1 \in Nat /\ Field(0) >= Len(cmds) - 1
        BY <1>0, <4>1, <4>2
      <4>4. q[Len(cmds) - 1] = at
        BY <3>1, <3>2, <4>1, <4>3 DEF Parsed
      <4>5. Len(cmds) \in 1..Field(0) /\ Len(cmds) \in 0..Field(0)
        BY <1>0, <4>1, <4>2
      <4>6. q[Len(cmds)] = at + LEN_FIELD_SIZE + Field(at)
        BY <3>1, <4>4, <4>5 DEF Chain
      <4>7. q[Len(cmds)] <= Len(body)
        BY <1>0, <3>1, <4>5
      <4> QED
        BY <1>0, <3>5, <4>1, <4>6, <4>7 DEF Fits
    <3> QED
      BY <1>4, <3>3, <3>4, <3>5 DEF CannotRead
  <2>4. ~WellFormed'
    BY <2>1, <2>3 DEF WellFormed, Chain, Field
  <2> QED
    BY <2>1, <2>2, <2>4 DEF ParserInv, DecidesFormat
<1>5. CASE Accept
  <2>1. /\ stage = "len" /\ Len(cmds) = nstr /\ stage' = "true"
        /\ UNCHANGED <<body, data, nstr, cmd_len, cmds>>
    BY <1>5 DEF Accept
  <2>2. TypeOK' /\ InBounds'
    BY <1>0, <2>1 DEF TypeOK, InBounds, Stages
  <2>3. /\ LEN_FIELD_SIZE <= Len(body) /\ nstr = Field(0) /\ nstr <= MAX_CMD_ARGS
        /\ Parsed(Len(cmds), data)
    BY <2>1 DEF ParserInv
  <2>4. PICK q \in [0..nstr -> 0..Len(body)] :
          /\ Chain(q, nstr)
          /\ \A i \in 1..nstr :
               cmds[i] = SubSeq(body, q[i - 1] + LEN_FIELD_SIZE + 1, q[i])
    BY <2>1, <2>3 DEF Parsed
  <2>5. cmds = Strings(q, nstr)
    <3>1. cmds = [i \in 1..Len(cmds) |-> cmds[i]]
      BY <1>0
    <3> QED
      BY <2>1, <2>4, <3>1 DEF Strings
  <2>6. WellFormed
    BY <2>3, <2>4 DEF WellFormed
  <2>7. WellFormed' /\ Chain(q, nstr)' /\ cmds' = Strings(q, nstr)'
        /\ q \in [0..nstr' -> 0..Len(body')]
    BY <2>1, <2>4, <2>5, <2>6 DEF WellFormed, Chain, Strings, Field
  <2> QED
    BY <2>1, <2>2, <2>7 DEF ParserInv, DecidesFormat
<1>6. CASE UNCHANGED parserVars
  <2>1. UNCHANGED <<body, data, nstr, cmd_len, cmds, stage>>
    BY <1>6 DEF parserVars
  <2>2. TypeOK' /\ InBounds'
    BY <1>0, <2>1 DEF ParserInv, TypeOK, InBounds
  <2>3. DecidesFormat' <=> DecidesFormat
    BY <2>1 DEF DecidesFormat, WellFormed, Chain, Strings, Field
  <2>4. AtString' <=> AtString
    BY <2>1 DEF AtString, Parsed, Chain, Field
  <2>5. Parsed(Len(cmds), data)' <=> Parsed(Len(cmds), data)
    BY <2>1 DEF Parsed, Chain, Field
  <2>6. Field(0)' = Field(0)
    BY <2>1 DEF Field
  <2> QED
    BY <2>1, <2>2, <2>3, <2>4, <2>5, <2>6 DEF ParserInv
<1> QED
  BY <1>1, <1>2, <1>3, <1>4, <1>5, <1>6 DEF Parse

\* The invariant that says, at every call of parse_req, which strings have been
\* read so far and that the chain of lengths read is the one the body declares.
THEOREM ParserInductive == Spec => []ParserInv
BY InitParserInv, NextParserInv, PTL DEF Spec

\* No declared length makes read_cmd_length or read_cmd_data pass the end of
\* the frame.
THEOREM ParserInBounds == Spec => []InBounds
<1>1. ParserInv => InBounds
  BY DEF ParserInv
<1> QED
  BY <1>1, ParserInductive, PTL

\* parse_req returns true for exactly the well-formed bodies, with their
\* strings in parsed_cmds.
THEOREM ParserCorrect == Spec => []DecidesFormat
<1>1. ParserInv => DecidesFormat
  BY DEF ParserInv
<1> QED
  BY <1>1, ParserInductive, PTL
-----------------------------------------------------------------------------
(* The fold that adds up a function *)

Some(s) == CHOOSE x \in s : TRUE

\* g maps each of the sets D to the sum of f over it, as MapThenFoldSet does.
Adds(g, f, D) ==
  g = [s \in D |-> IF s = {} THEN 0 ELSE f[Some(s)] + g[s \ {Some(s)}]]

SumOver(f) == CHOOSE g : Adds(g, f, SUBSET DOMAIN f)

LEMMA FoldIsSum ==
  ASSUME NEW f
  PROVE  FoldFunction(+, 0, f) = SumOver(f)[DOMAIN f]
BY DEF FoldFunction, FoldFunctionOnSet, MapThenFoldSet, SumOver, Adds, Some

\* The subsets of S with at most k elements.
UpTo(S, k) == {s \in SUBSET S : Cardinality(s) <= k}

Without(S, s, x) ==
  s \ {x} \in SUBSET S /\ Cardinality(s \ {x}) = Cardinality(s) - 1

LEMMA OneLess ==
  ASSUME NEW S, IsFiniteSet(S)
  PROVE  \A s \in SUBSET S :
           /\ Cardinality(s) \in Nat
           /\ Cardinality(s) = 0 <=> s = {}
           /\ \A x \in s : Without(S, s, x)
<1> TAKE s \in SUBSET S
<1>1. IsFiniteSet(s)
  BY FS_Subset
<1>2. /\ Cardinality(s) \in Nat
      /\ \A x \in s : Cardinality(s \ {x}) = Cardinality(s) - 1
      /\ Cardinality(s) = 0 <=> s = {}
  BY <1>1, FS_CardinalityType, FS_RemoveElement, FS_EmptySet
<1> QED
  BY <1>1, <1>2 DEF Without

LEMMA AddsExists ==
  ASSUME NEW f, NEW S, IsFiniteSet(S)
  PROVE  \E g : Adds(g, f, SUBSET S)
<1> DEFINE P == {k \in Nat : \E g : Adds(g, f, UpTo(S, k))}
<1>1. 0 \in P
  <2>1. ASSUME NEW s \in UpTo(S, 0) PROVE s = {}
    <3>1. s \in SUBSET S /\ Cardinality(s) <= 0
      BY DEF UpTo
    <3>2. Cardinality(s) \in Nat /\ (Cardinality(s) = 0 <=> s = {})
      BY <3>1, OneLess, Zenon
    <3> QED
      BY <3>1, <3>2
  <2>2. Adds([s \in UpTo(S, 0) |-> 0], f, UpTo(S, 0))
    BY <2>1 DEF Adds
  <2> QED
    BY <2>2
<1>2. ASSUME NEW k \in Nat, k \in P PROVE k + 1 \in P
  <2>1. PICK g : Adds(g, f, UpTo(S, k))
    BY <1>2
  <2> DEFINE h == [s \in UpTo(S, k + 1) |->
                     IF s = {} THEN 0 ELSE f[Some(s)] + g[s \ {Some(s)}]]
  <2>2. ASSUME NEW s \in UpTo(S, k + 1), s # {}
        PROVE  /\ s \ {Some(s)} \in UpTo(S, k)
               /\ s \ {Some(s)} \in UpTo(S, k + 1)
    <3>1. Some(s) \in s /\ s \in SUBSET S /\ Cardinality(s) <= k + 1
      BY <2>2 DEF Some, UpTo
    <3>2. Cardinality(s) \in Nat /\ Without(S, s, Some(s))
      BY <3>1, OneLess, Zenon
    <3> QED
      BY <3>1, <3>2 DEF UpTo, Without
  <2>3. ASSUME NEW s \in UpTo(S, k) PROVE s \in UpTo(S, k + 1) /\ h[s] = g[s]
    <3>1. s \in UpTo(S, k + 1)
      <4>1. Cardinality(s) \in Nat
        BY OneLess, Zenon DEF UpTo
      <4> QED
        BY <4>1 DEF UpTo
    <3>2. g[s] = IF s = {} THEN 0 ELSE f[Some(s)] + g[s \ {Some(s)}]
      BY <2>1, Zenon DEF Adds
    <3> QED
      BY <3>1, <3>2
  <2>4. ASSUME NEW s \in UpTo(S, k + 1)
        PROVE  h[s] = IF s = {} THEN 0 ELSE f[Some(s)] + h[s \ {Some(s)}]
    BY <2>2, <2>3
  <2>5. Adds(h, f, UpTo(S, k + 1))
    BY <2>4, Zenon DEF Adds
  <2> QED
    BY <2>5
<1>3. Cardinality(S) \in P
  <2>1. Nat \subseteq P
    <3> HIDE DEF P
    <3> QED
      BY <1>1, <1>2, SetInduction
  <2> QED
    BY <2>1, FS_CardinalityType
<1>4. UpTo(S, Cardinality(S)) = SUBSET S
  BY FS_Subset DEF UpTo
<1> QED
  BY <1>3, <1>4

\* The sum does not depend on the order in which CHOOSE takes the elements.
AddsUp(g, f, t) == g[t] \in Nat /\ \A x \in t : g[t] = f[x] + g[t \ {x}]

LEMMA AnyOrder ==
  ASSUME NEW S, IsFiniteSet(S), NEW f \in [S -> Nat], NEW g,
         Adds(g, f, SUBSET S)
  PROVE  \A s \in SUBSET S : AddsUp(g, f, s)
<1> TAKE s \in SUBSET S
<1> DEFINE Good(t) == AddsUp(g, f, t)
           P == {k \in Nat : \A t \in SUBSET S : Cardinality(t) <= k => Good(t)}
<1>0. \A t \in SUBSET S :
        g[t] = IF t = {} THEN 0 ELSE f[Some(t)] + g[t \ {Some(t)}]
  BY Zenon DEF Adds
<1>1. 0 \in P
  <2>1. ASSUME NEW t \in SUBSET S, Cardinality(t) <= 0 PROVE t = {}
    <3>1. Cardinality(t) \in Nat /\ (Cardinality(t) = 0 <=> t = {})
      BY OneLess, Zenon
    <3> QED
      BY <2>1, <3>1
  <2>2. {} \in SUBSET S
    OBVIOUS
  <2>3. g[{}] = 0
    BY <1>0, <2>2
  <2>4. Good({})
    BY <2>3 DEF AddsUp
  <2> QED
    BY <2>1, <2>4
<1>2. ASSUME NEW k \in Nat, k \in P PROVE k + 1 \in P
  <2>0. ASSUME NEW t \in SUBSET S PROVE Cardinality(t) \in Nat
    BY OneLess, Zenon
  <2> SUFFICES ASSUME NEW t \in SUBSET S, Cardinality(t) = k + 1 PROVE Good(t)
    <3> QED
      BY <1>2, <2>0
  <2>1. t # {}
    BY OneLess
  <2>2. PICK c \in t : c = Some(t)
    BY <2>1 DEF Some
  <2>3. \A x \in t : t \ {x} \in SUBSET S /\ Good(t \ {x})
    <3>1. ASSUME NEW x \in t
          PROVE  t \ {x} \in SUBSET S /\ Cardinality(t \ {x}) <= k
      <4>1. Without(S, t, x)
        BY OneLess, Zenon
      <4> QED
        BY <2>0, <4>1 DEF Without
    <3> QED
      BY <1>2, <3>1
  <2>4. g[t] = f[c] + g[t \ {c}] /\ \A x \in t : f[x] \in Nat
    BY <1>0, <2>1, <2>2
  <2>5. g[t] \in Nat
    BY <2>3, <2>4 DEF AddsUp
  <2>6. ASSUME NEW x \in t, x # c PROVE g[t] = f[x] + g[t \ {x}]
    <3> DEFINE rest == (t \ {c}) \ {x}
    <3>1. x \in t \ {c} /\ c \in t \ {x} /\ rest = (t \ {x}) \ {c}
      BY <2>6
    <3>2. g[t \ {c}] = f[x] + g[rest] /\ g[t \ {x}] = f[c] + g[rest]
      BY <2>3, <3>1 DEF AddsUp
    <3>3. g[rest] \in Nat
      <4>1. Without(S, t, c)
        BY OneLess, Zenon
      <4>2. Without(S, t \ {c}, x)
        <5>1. t \ {c} \in SUBSET S
          OBVIOUS
        <5> QED
          BY <3>1, <5>1, OneLess, Zenon
      <4>3. rest \in SUBSET S /\ Cardinality(rest) <= k
        BY <4>1, <4>2 DEF Without
      <4> QED
        BY <1>2, <4>3 DEF AddsUp
    <3> QED
      BY <2>4, <3>2, <3>3
  <2> QED
    BY <2>4, <2>5, <2>6 DEF AddsUp
<1>3. Nat \subseteq P
  <2> HIDE DEF P
  <2> QED
    BY <1>1, <1>2, SetInduction
<1>4. Cardinality(s) \in Nat
  BY OneLess, Zenon
<1>5. Good(s)
  <2>1. Cardinality(s) \in P /\ Cardinality(s) <= Cardinality(s)
    BY <1>3, <1>4
  <2> QED
    BY <2>1
<1> QED
  BY <1>5

\* The partial sums of a sequence of numbers, the last of which is the fold.
LEMMA PartialSums ==
  ASSUME NEW n \in Nat, NEW f \in [1..n -> Nat]
  PROVE  \E t \in [0..n -> Nat] :
           /\ t[0] = 0 /\ \A i \in 1..n : t[i] = t[i - 1] + f[i]
           /\ FoldFunction(+, 0, f) = t[n]
<1>1. IsFiniteSet(1..n) /\ DOMAIN f = 1..n
  BY FS_Interval
<1>2. PICK g : g = SumOver(f) /\ Adds(g, f, SUBSET (1..n))
  BY <1>1, AddsExists, Zenon DEF SumOver
<1> DEFINE t == [i \in 0..n |-> g[1..i]]
<1>3. ASSUME NEW i \in 0..n PROVE AddsUp(g, f, 1..i)
  <2> DEFINE D == 1..n
  <2>1. f \in [D -> Nat] /\ IsFiniteSet(D) /\ Adds(g, f, SUBSET D)
    BY <1>1, <1>2
  <2>2. 1..i \in SUBSET D
    OBVIOUS
  <2> HIDE DEF D
  <2> QED
    BY <2>1, <2>2, AnyOrder, Zenon
<1>4. g[{}] = 0 /\ 1..0 = {}
  <2>1. {} \in SUBSET (1..n)
    OBVIOUS
  <2>2. g[{}] = IF {} = {} THEN 0 ELSE f[Some({})] + g[{} \ {Some({})}]
    BY <1>2, <2>1, Zenon DEF Adds
  <2> QED
    BY <2>2
<1>5. ASSUME NEW i \in 1..n PROVE g[1..i] = g[1 .. i - 1] + f[i]
  <2>1. i \in 1..i /\ (1..i) \ {i} = 1 .. i - 1 /\ i \in 0..n /\ i - 1 \in 0..n
    OBVIOUS
  <2>2. g[1..i] = f[i] + g[(1..i) \ {i}]
    BY <1>3, <2>1, Zenon DEF AddsUp
  <2>3. f[i] \in Nat /\ g[1 .. i - 1] \in Nat
    BY <1>3, <2>1 DEF AddsUp
  <2>4. g[1..i] = f[i] + g[1 .. i - 1]
    BY <2>1, <2>2, Zenon
  <2> QED
    BY <2>3, <2>4
<1>6. t \in [0..n -> Nat] /\ t[0] = 0 /\ \A i \in 1..n : t[i] = t[i - 1] + f[i]
  BY <1>3, <1>4, <1>5 DEF AddsUp
<1>7. FoldFunction(+, 0, f) = t[n]
  <2>1. FoldFunction(+, 0, f) = g[1..n]
    BY <1>1, <1>2, FoldIsSum, Zenon
  <2>2. t[n] = g[1..n]
    OBVIOUS
  <2> QED
    BY <2>1, <2>2, Zenon
<1> QED
  BY <1>6, <1>7, Zenon

-----------------------------------------------------------------------------
(* The frame that serialize writes *)

\* The bytes b are written in the buffer w, behind the first at bytes of it.
Piece(w, at, b) ==
  /\ at \in Nat /\ at + Len(b) <= Len(w)
  /\ \A k \in 1..Len(b) : w[at + k] = b[k]

\* The record of the i-th string of the message ends after the first o[i] bytes
\* of the frame.
Layout(m, o) ==
  /\ o[0] = 2 * LEN_FIELD_SIZE
  /\ \A i \in DOMAIN m : o[i] = o[i - 1] + LEN_FIELD_SIZE + Len(m[i])
  /\ o[Len(m)] = total_len(m)

\* The first i strings of the message are written, each behind its length.
Written(w, m, o, i) ==
  \A j \in 1..i : /\ Piece(w, o[j - 1], FieldBytes[Len(m[j])])
                  /\ Piece(w, o[j - 1] + LEN_FIELD_SIZE, m[j])

Header(w, m) ==
  /\ Piece(w, 0, FieldBytes[nbytes(m)])
  /\ Piece(w, LEN_FIELD_SIZE, FieldBytes[Len(m)])

\* What serialize has written when it comes to the piece `put', with o as the
\* layout, and what the server has taken out of it.
Progress(o) ==
  \/ put = <<"nbytes", 0>> /\ p = 0
  \/ /\ put = <<"nstr", 0>> /\ p = LEN_FIELD_SIZE
     /\ Piece(wbuf, 0, FieldBytes[nbytes(message)])
  \/ \E i \in DOMAIN message :
       /\ Header(wbuf, message) /\ Written(wbuf, message, o, i - 1)
       /\ \/ put = <<"len", i>> /\ p = o[i - 1]
          \/ /\ put = <<"str", i>> /\ p = o[i - 1] + LEN_FIELD_SIZE
             /\ Piece(wbuf, o[i - 1], FieldBytes[Len(message[i])])
  \/ /\ put = <<"sent", Len(message) + 1>> \/ put = <<"received", 0>>
     /\ p = o[Len(message)]
     /\ Header(wbuf, message) /\ Written(wbuf, message, o, Len(message))

Received ==
  put = <<"received", 0>> =>
    /\ nbytes(message) <= MAX_MSG_FIELD_SIZE
    /\ body = SubSeq(wbuf, LEN_FIELD_SIZE + 1, total_len(message))

SerializerInv ==
  \/ put = <<"foreign", 0>>
  \/ /\ put # <<"received", 0>> => Call(<< >>)
     /\ message \in Messages
     /\ \/ put = <<"size", 0>> /\ p = 0
        \/ /\ wbuf \in Seq(Byte) /\ Len(wbuf) = total_len(message)
           /\ Received
           /\ \E o \in [0..Len(message) -> Nat] :
                Layout(message, o) /\ Progress(o)


LEMMA LimitTypes ==
  /\ LEN_FIELD_SIZE \in Nat /\ LEN_FIELD_SIZE >= 1 /\ Width \in Nat
  /\ MAX_MSG_FIELD_SIZE \in Nat
BY FieldAssumption, CodecAssumption

LEMMA MessageType ==
  \A m \in Messages :
    m \in Seq(Seq(Byte)) /\ Len(m) \in Nat /\ \A i \in DOMAIN m : Len(m[i]) \in Nat
<1> TAKE m \in Messages
<1>1. m \in Seq(Seq(Byte))
  BY CodecAssumption
<1>2. ASSUME NEW i \in DOMAIN m PROVE Len(m[i]) \in Nat
  <2>1. m[i] \in Seq(Byte)
    BY <1>1, ElementOfSeq
  <2> QED
    BY <2>1
<1> QED
  BY <1>1, <1>2

\* The two loops of serialize agree: the second one, which moves p past one
\* string after the other, ends where the first one has put the end.
LEMMA LayoutExists ==
  \A m \in Messages : \E o \in [0..Len(m) -> Nat] : Layout(m, o)
<1> TAKE m \in Messages
<1>0. LEN_FIELD_SIZE \in Nat /\ Len(m) \in Nat /\ DOMAIN m = 1..Len(m)
  BY LimitTypes, MessageType
<1> DEFINE f == [i \in DOMAIN m |-> Len(m[i])]
<1>1. f \in [1..Len(m) -> Nat]
  BY <1>0, MessageType
<1>2. PICK t \in [0..Len(m) -> Nat] :
        /\ t[0] = 0 /\ \A i \in 1..Len(m) : t[i] = t[i - 1] + f[i]
        /\ FoldFunction(+, 0, f) = t[Len(m)]
  <2> HIDE DEF f
  <2> QED
    BY <1>0, <1>1, PartialSums, Zenon
<1>3. LengthOfAll(m) = t[Len(m)]
  BY <1>2, Zenon DEF LengthOfAll
<1>9. /\ t \in [0..Len(m) -> Nat] /\ t[0] = 0
      /\ \A i \in 1..Len(m) : t[i] = t[i - 1] + f[i]
  BY <1>2, Zenon
<1> DEFINE o == [i \in 0..Len(m) |-> 2 * LEN_FIELD_SIZE + LEN_FIELD_SIZE * i + t[i]]
<1>4. o \in [0..Len(m) -> Nat]
  <2>1. ASSUME NEW i \in 0..Len(m)
        PROVE  2 * LEN_FIELD_SIZE + LEN_FIELD_SIZE * i + t[i] \in Nat
    <3>1. i \in Nat /\ t[i] \in Nat
      BY <1>0, <1>9
    <3>2. LEN_FIELD_SIZE * i \in Nat
      BY <1>0, <3>1
    <3> QED
      BY <1>0, <3>1, <3>2
  <2> QED
    BY <2>1
<1>5. o[0] = 2 * LEN_FIELD_SIZE
  BY <1>0, <1>9
<1>6. ASSUME NEW i \in DOMAIN m
      PROVE  o[i] = o[i - 1] + LEN_FIELD_SIZE + Len(m[i])
  <2>1. i \in 0..Len(m) /\ i - 1 \in 0..Len(m) /\ i \in 1..Len(m)
    BY <1>0
  <2>2. t[i] = t[i - 1] + Len(m[i]) /\ t[i - 1] \in Nat /\ Len(m[i]) \in Nat
    BY <1>0, <1>9, <2>1, MessageType
  <2>3. PICK k \in Int : /\ k = LEN_FIELD_SIZE * (i - 1)
                         /\ LEN_FIELD_SIZE * i = k + LEN_FIELD_SIZE
    <3>1. /\ LEN_FIELD_SIZE * i = LEN_FIELD_SIZE * (i - 1) + LEN_FIELD_SIZE
          /\ LEN_FIELD_SIZE * (i - 1) \in Int
      BY <1>0, <2>1
    <3> QED
      BY <3>1, Zenon
  <2>4. /\ o[i] = 2 * LEN_FIELD_SIZE + LEN_FIELD_SIZE * i + t[i]
        /\ o[i - 1] = 2 * LEN_FIELD_SIZE + LEN_FIELD_SIZE * (i - 1) + t[i - 1]
    BY <2>1
  <2> HIDE DEF o
  <2>5. /\ o[i] = 2 * LEN_FIELD_SIZE + k + LEN_FIELD_SIZE + t[i]
        /\ o[i - 1] = 2 * LEN_FIELD_SIZE + k + t[i - 1]
    BY <1>0, <2>2, <2>3, <2>4
  <2> QED
    BY <1>0, <2>2, <2>5
<1>7. o[Len(m)] = total_len(m)
  BY <1>0, <1>3 DEF total_len
<1> HIDE DEF o
<1>8. Layout(m, o)
  BY <1>5, <1>6, <1>7 DEF Layout
<1> QED
  BY <1>4, <1>8, Zenon

\* Later records end later.
LEMMA LayoutGrows ==
  ASSUME NEW m \in Messages, NEW o \in [0..Len(m) -> Nat], Layout(m, o)
  PROVE  \A i \in 0..Len(m) : \A j \in 0..i : o[j] <= o[i] /\ 2 * LEN_FIELD_SIZE <= o[i]
<1>0. LEN_FIELD_SIZE \in Nat /\ Len(m) \in Nat /\ DOMAIN m = 1..Len(m)
  BY LimitTypes, MessageType
<1> DEFINE Good(i) == i <= Len(m) =>
             \A j \in 0..i : o[j] <= o[i] /\ 2 * LEN_FIELD_SIZE <= o[i]
           P == {i \in Nat : Good(i)}
<1>1. 0 \in P
  BY <1>0 DEF Layout
<1>2. ASSUME NEW i \in Nat, i \in P PROVE i + 1 \in P
  <2> SUFFICES ASSUME i + 1 <= Len(m), NEW j \in 0 .. i + 1
               PROVE  o[j] <= o[i + 1] /\ 2 * LEN_FIELD_SIZE <= o[i + 1]
    OBVIOUS
  <2>1. i + 1 \in DOMAIN m /\ (i + 1) - 1 = i /\ i \in 0..Len(m) /\ i + 1 \in 0..Len(m)
    BY <1>0
  <2>2. o[i + 1] = o[i] + LEN_FIELD_SIZE + Len(m[i + 1])
    BY <2>1 DEF Layout
  <2>3. Len(m[i + 1]) \in Nat
    BY <2>1, MessageType, Zenon
  <2>4. o[i] \in Nat /\ o[i + 1] \in Nat /\ o[i] <= o[i + 1]
    BY <1>0, <2>1, <2>2, <2>3
  <2>5. 2 * LEN_FIELD_SIZE <= o[i] /\ \A k \in 0..i : o[k] <= o[i]
    BY <1>0, <1>2, <2>1
  <2>6. CASE j = i + 1
    BY <1>0, <2>4, <2>5, <2>6
  <2>7. CASE j \in 0..i
    <3>1. o[j] \in Nat /\ o[j] <= o[i]
      BY <1>0, <2>1, <2>5, <2>7
    <3> QED
      BY <1>0, <2>4, <2>5, <3>1
  <2> QED
    BY <2>6, <2>7
<1>3. Nat \subseteq P
  <2> HIDE DEF P
  <2> QED
    BY <1>1, <1>2, SetInduction
<1> QED
  BY <1>0, <1>3

\* What a length field holds, of the length of this size.
LEMMA FieldOf ==
  \A n \in 0 .. Width - 1 :
    /\ FieldBytes[n] \in Seq(Byte) /\ Len(FieldBytes[n]) = LEN_FIELD_SIZE
    /\ FieldValue[FieldBytes[n]] = n
<1> TAKE n \in 0 .. Width - 1
<1>1. FieldBytes[n] \in [1..LEN_FIELD_SIZE -> Byte] /\ FieldValue[FieldBytes[n]] = n
  BY CodecAssumption
<1> QED
  BY <1>1, LimitTypes

\* No length in a frame is too large for its field.
LEMMA LengthsFit ==
  \A m \in Messages :
    /\ total_len(m) \in Nat /\ nbytes(m) \in 0 .. Width - 1
    /\ total_len(m) = LEN_FIELD_SIZE + nbytes(m)
    /\ Len(m) \in 0 .. Width - 1
    /\ \A i \in DOMAIN m : Len(m[i]) \in 0 .. Width - 1
<1> TAKE m \in Messages
<1>0. /\ LEN_FIELD_SIZE \in Nat /\ LEN_FIELD_SIZE >= 1 /\ Width \in Nat
      /\ Len(m) \in Nat /\ DOMAIN m = 1..Len(m)
  BY LimitTypes, MessageType
<1>1. PICK o \in [0..Len(m) -> Nat] : Layout(m, o)
  BY LayoutExists
<1>2. /\ 2 * LEN_FIELD_SIZE <= o[Len(m)] /\ o[Len(m)] \in Nat
      /\ o[Len(m)] = total_len(m)
  <2>1. Len(m) \in 0..Len(m)
    BY <1>0
  <2>2. 2 * LEN_FIELD_SIZE <= o[Len(m)]
    BY <1>1, <2>1, LayoutGrows, Zenon
  <2>3. o[Len(m)] = total_len(m)
    BY <1>1, Zenon DEF Layout
  <2> QED
    BY <2>1, <2>2, <2>3
<1>3. PICK sum \in Nat : sum = LengthOfAll(m)
  <2>1. PICK k \in Nat : k = LEN_FIELD_SIZE * Len(m)
    BY <1>0
  <2> DEFINE f == [i \in DOMAIN m |-> Len(m[i])]
  <2>2. f \in [1..Len(m) -> Nat]
    BY <1>0, MessageType
  <2>3. PICK t \in [0..Len(m) -> Nat] : FoldFunction(+, 0, f) = t[Len(m)]
    <3> HIDE DEF f
    <3> QED
      BY <1>0, <2>2, PartialSums, Zenon
  <2>4. t[Len(m)] \in Nat
    BY <1>0
  <2> QED
    BY <2>3, <2>4, Zenon DEF LengthOfAll
<1>4. LEN_FIELD_SIZE * (2 + Len(m)) + sum < Width
  BY <1>3, CodecAssumption
<1>5. PICK k \in Nat : k = LEN_FIELD_SIZE * Len(m) /\ Len(m) <= k
  <2>1. LEN_FIELD_SIZE - 1 \in Nat
    BY <1>0
  <2>2. (LEN_FIELD_SIZE - 1) * Len(m) \in Nat
    BY <1>0, <2>1
  <2>3. LEN_FIELD_SIZE * Len(m) = (LEN_FIELD_SIZE - 1) * Len(m) + Len(m)
    BY <1>0
  <2> QED
    BY <1>0, <2>2, <2>3
<1>6. LEN_FIELD_SIZE * (2 + Len(m)) = 2 * LEN_FIELD_SIZE + k
  BY <1>0, <1>5
<1>7. total_len(m) = 2 * LEN_FIELD_SIZE + k + sum
  BY <1>3, <1>5 DEF total_len
<1>8. total_len(m) < Width
  BY <1>0, <1>4, <1>6, <1>7
<1>9. ASSUME NEW i \in DOMAIN m PROVE Len(m[i]) \in 0 .. Width - 1
  <2>1. i \in 0..Len(m) /\ i - 1 \in 0..Len(m) /\ Len(m) \in 0..Len(m) /\ Len(m[i]) \in Nat
    BY <1>0, MessageType
  <2>2. o[i] = o[i - 1] + LEN_FIELD_SIZE + Len(m[i])
    BY <1>1 DEF Layout
  <2>3. o[i] <= o[Len(m)]
    BY <1>0, <1>1, <2>1, LayoutGrows
  <2>4. o[i] \in Nat /\ o[i - 1] \in Nat
    BY <2>1
  <2> QED
    BY <1>0, <1>2, <1>8, <2>1, <2>2, <2>3, <2>4
<1> QED
  BY <1>0, <1>2, <1>5, <1>7, <1>8, <1>9 DEF nbytes

\* What is written in w before the first at bytes end is written in v, too.
Kept(w, v, at) ==
  \A a, b : Piece(w, a, b) /\ Len(b) \in Nat /\ a + Len(b) <= at => Piece(v, a, b)

\* memcpy writes its piece and leaves the pieces before p alone.
LEMMA CopyWrites ==
  ASSUME wbuf \in Seq(Byte), p \in Nat, NEW b \in Seq(Byte),
         p + Len(b) <= Len(wbuf), Copy(b)
  PROVE  /\ wbuf' \in Seq(Byte) /\ Len(wbuf') = Len(wbuf) /\ p' = p + Len(b)
         /\ Piece(wbuf', p, b) /\ Kept(wbuf, wbuf', p)
<1>0. /\ Len(wbuf) \in Nat /\ DOMAIN wbuf = 1..Len(wbuf) /\ Len(b) \in Nat
      /\ \A k \in 1..Len(b) : b[k] \in Byte
      /\ \A k \in 1..Len(wbuf) : wbuf[k] \in Byte
  OBVIOUS
<1>1. /\ wbuf' = [k \in 1..Len(wbuf) |->
                    IF k \in p + 1 .. p + Len(b) THEN b[k - p] ELSE wbuf[k]]
      /\ p' = p + Len(b)
  BY <1>0 DEF Copy
<1>2. wbuf' \in [1..Len(wbuf) -> Byte]
  <2>1. ASSUME NEW k \in 1..Len(wbuf)
        PROVE  (IF k \in p + 1 .. p + Len(b) THEN b[k - p] ELSE wbuf[k]) \in Byte
    <3>1. k \in p + 1 .. p + Len(b) => k - p \in 1..Len(b)
      BY <1>0
    <3> QED
      BY <1>0, <3>1
  <2> QED
    BY <1>1, <2>1
<1>3. wbuf' \in Seq(Byte) /\ Len(wbuf') = Len(wbuf)
  BY <1>0, <1>2
<1>4. Piece(wbuf', p, b)
  <2>1. ASSUME NEW k \in 1..Len(b) PROVE wbuf'[p + k] = b[k]
    <3>1. /\ p + k \in 1..Len(wbuf) /\ p + k \in p + 1 .. p + Len(b)
          /\ (p + k) - p = k
      BY <1>0
    <3> QED
      BY <1>1, <3>1
  <2> QED
    BY <1>3, <2>1 DEF Piece
<1>5. ASSUME NEW a, NEW c, Piece(wbuf, a, c), Len(c) \in Nat, a + Len(c) <= p
      PROVE  Piece(wbuf', a, c)
  <2>1. ASSUME NEW k \in 1..Len(c) PROVE wbuf'[a + k] = c[k]
    <3>1. a \in Nat /\ a + Len(c) <= Len(wbuf) /\ wbuf[a + k] = c[k]
      BY <1>5 DEF Piece
    <3>2. a + k \in 1..Len(wbuf) /\ a + k \notin p + 1 .. p + Len(b)
      BY <1>0, <1>5, <3>1
    <3> QED
      BY <1>1, <3>1, <3>2
  <2> QED
    BY <1>3, <1>5, <2>1 DEF Piece
<1> QED
  BY <1>1, <1>3, <1>4, <1>5 DEF Kept

\* The bytes of a piece, cut out again.
LEMMA PieceIsSlice ==
  ASSUME NEW w \in Seq(Byte), NEW at, NEW b \in Seq(Byte), Piece(w, at, b)
  PROVE  SubSeq(w, at + 1, at + Len(b)) = b
<1>0. at \in Nat /\ Len(b) \in Nat /\ at + Len(b) <= Len(w) /\ Len(w) \in Nat
  BY DEF Piece
<1> DEFINE s == SubSeq(w, at + 1, at + Len(b))
<1>1. s \in Seq(Byte) /\ Len(s) = Len(b)
  BY <1>0, SliceType
<1>2. ASSUME NEW k \in 1..Len(b) PROVE s[k] = b[k]
  <2>1. \A i \in at + 1 .. at + Len(b) : w[i] \in Byte
    BY <1>0, ElementOfSeq
  <2>2. s[k] = w[(at + 1) + k - 1]
    BY <1>0, <2>1, SubSeqProperties
  <2>3. (at + 1) + k - 1 = at + k
    BY <1>0
  <2> QED
    BY <2>2, <2>3 DEF Piece
<1> HIDE DEF s
<1>3. \A i \in 1..Len(s) : s[i] = b[i]
  BY <1>1, <1>2
<1>4. s = b
  BY <1>1, <1>3, SeqEqual, Zenon
<1> QED
  BY <1>4 DEF s

\* A piece behind the first LEN_FIELD_SIZE bytes is a piece of what follows them.
LEMMA PieceOfRest ==
  ASSUME NEW w \in Seq(Byte), LEN_FIELD_SIZE <= Len(w), NEW at, NEW b \in Seq(Byte),
         Piece(w, at + LEN_FIELD_SIZE, b), at \in Nat
  PROVE  Piece(SubSeq(w, LEN_FIELD_SIZE + 1, Len(w)), at, b)
<1>0. /\ LEN_FIELD_SIZE \in Nat /\ Len(b) \in Nat /\ Len(w) \in Nat
      /\ at + LEN_FIELD_SIZE + Len(b) <= Len(w)
  BY LimitTypes DEF Piece
<1>1. PICK n \in Nat : n = Len(w) - LEN_FIELD_SIZE /\ LEN_FIELD_SIZE + n = Len(w)
  <2>1. Len(w) - LEN_FIELD_SIZE \in Nat
        /\ LEN_FIELD_SIZE + (Len(w) - LEN_FIELD_SIZE) = Len(w)
    BY <1>0
  <2> QED
    BY <2>1
<1> DEFINE s == SubSeq(w, LEN_FIELD_SIZE + 1, LEN_FIELD_SIZE + n)
<1>2. s \in Seq(Byte) /\ Len(s) = n
  BY <1>0, <1>1, SliceType
<1>3. ASSUME NEW k \in 1..Len(b) PROVE s[at + k] = b[k]
  <2>1. \A i \in LEN_FIELD_SIZE + 1 .. LEN_FIELD_SIZE + n : w[i] \in Byte
    BY <1>0, <1>1, ElementOfSeq
  <2>2. at + k \in 1..n
    BY <1>0, <1>1
  <2>3. s[at + k] = w[(LEN_FIELD_SIZE + 1) + (at + k) - 1]
    BY <1>0, <1>1, <2>1, <2>2, SubSeqProperties
  <2>4. (LEN_FIELD_SIZE + 1) + (at + k) - 1 = (at + LEN_FIELD_SIZE) + k
    BY <1>0
  <2> QED
    BY <2>3, <2>4 DEF Piece
<1>4. at + Len(b) <= n
  BY <1>0, <1>1
<1> QED
  BY <1>1, <1>2, <1>3, <1>4 DEF Piece

LEMMA WrittenKept ==
  ASSUME NEW m \in Messages, NEW o \in [0..Len(m) -> Nat], Layout(m, o),
         NEW w, NEW v, NEW at \in Nat, Kept(w, v, at),
         NEW i \in 0..Len(m), o[i] <= at, Written(w, m, o, i)
  PROVE  Written(v, m, o, i)
<1>0. LEN_FIELD_SIZE \in Nat /\ Len(m) \in Nat /\ DOMAIN m = 1..Len(m)
  BY LimitTypes, MessageType
<1> SUFFICES ASSUME NEW j \in 1..i
             PROVE  /\ Piece(v, o[j - 1], FieldBytes[Len(m[j])])
                    /\ Piece(v, o[j - 1] + LEN_FIELD_SIZE, m[j])
  BY DEF Written
<1>1. j \in DOMAIN m /\ j \in 0..i /\ j - 1 \in 0..Len(m) /\ j \in 0..Len(m)
  BY <1>0
<1>2. o[j] = o[j - 1] + LEN_FIELD_SIZE + Len(m[j]) /\ Len(m[j]) \in Nat
  BY <1>1, MessageType DEF Layout
<1>3. o[j] <= o[i]
  BY <1>1, LayoutGrows
<1>4. Len(m[j]) \in 0 .. Width - 1
  BY <1>1, LengthsFit
<1>5. Len(FieldBytes[Len(m[j])]) = LEN_FIELD_SIZE
  BY <1>4, FieldOf
<1>6. o[j - 1] \in Nat /\ o[j] \in Nat /\ o[i] \in Nat
  BY <1>1
<1>7. /\ o[j - 1] + LEN_FIELD_SIZE <= at
      /\ (o[j - 1] + LEN_FIELD_SIZE) + Len(m[j]) <= at
  BY <1>0, <1>2, <1>3, <1>6
<1>8. /\ Piece(w, o[j - 1], FieldBytes[Len(m[j])])
      /\ Piece(w, o[j - 1] + LEN_FIELD_SIZE, m[j])
  BY DEF Written
<1>9. Piece(v, o[j - 1], FieldBytes[Len(m[j])])
  BY <1>0, <1>5, <1>7, <1>8 DEF Kept
<1>10. Piece(v, o[j - 1] + LEN_FIELD_SIZE, m[j])
  BY <1>2, <1>7, <1>8 DEF Kept
<1> QED
  BY <1>9, <1>10

LEMMA HeaderKept ==
  ASSUME NEW m \in Messages, NEW w, NEW v, NEW at \in Nat, Kept(w, v, at),
         2 * LEN_FIELD_SIZE <= at, Header(w, m)
  PROVE  Header(v, m)
<1>0. LEN_FIELD_SIZE \in Nat
  BY LimitTypes
<1>1. /\ Len(FieldBytes[nbytes(m)]) = LEN_FIELD_SIZE
      /\ Len(FieldBytes[Len(m)]) = LEN_FIELD_SIZE
  BY LengthsFit, FieldOf
<1>2. Piece(v, 0, FieldBytes[nbytes(m)])
  <2>1. 0 + LEN_FIELD_SIZE <= at /\ Piece(w, 0, FieldBytes[nbytes(m)])
    BY <1>0 DEF Header
  <2> QED
    BY <1>0, <1>1, <2>1 DEF Kept
<1>3. Piece(v, LEN_FIELD_SIZE, FieldBytes[Len(m)])
  <2>1. LEN_FIELD_SIZE + LEN_FIELD_SIZE <= at
        /\ Piece(w, LEN_FIELD_SIZE, FieldBytes[Len(m)])
    BY <1>0 DEF Header
  <2> QED
    BY <1>0, <1>1, <2>1 DEF Kept
<1> QED
  BY <1>2, <1>3 DEF Header

\* The state of serialize after one of its pieces.
LEMMA AfterPiece ==
  ASSUME message \in Messages, Call(<< >>), UNCHANGED <<message, parserVars>>,
         wbuf' \in Seq(Byte), Len(wbuf') = total_len(message),
         put' # <<"received", 0>>,
         NEW o \in [0..Len(message) -> Nat], Layout(message, o), Progress(o)'
  PROVE  SerializerInv'
<1>1. message' = message /\ Call(<< >>)'
  BY DEF parserVars, Call
<1>4. total_len(message)' = total_len(message)
  BY <1>1
<1>2. Layout(message, o)' /\ o \in [0..Len(message') -> Nat]
  BY <1>1, <1>4 DEF Layout
<1>3. Received'
  BY DEF Received
<1> QED
  BY <1>1, <1>2, <1>3, <1>4 DEF SerializerInv

LEMMA Writing ==
  ASSUME SerializerInv, put[1] \notin {"size", "foreign"}
  PROVE  /\ put # <<"received", 0>> => Call(<< >>)
         /\ message \in Messages
         /\ wbuf \in Seq(Byte) /\ Len(wbuf) = total_len(message)
         /\ Received
         /\ \E o \in [0..Len(message) -> Nat] : Layout(message, o) /\ Progress(o)
<1>1. put # <<"foreign", 0>> /\ put # <<"size", 0>>
  OBVIOUS
<1> QED
  BY <1>1, Zenon DEF SerializerInv

LEMMA AllocateKeeps == SerializerInv /\ Allocate => SerializerInv'
<1> SUFFICES ASSUME SerializerInv, Allocate PROVE SerializerInv'
  OBVIOUS
<1>1. /\ put = <<"size", 0>> /\ put' = <<"nbytes", 0>>
      /\ wbuf' = [k \in 1..total_len(message) |-> 0]
      /\ UNCHANGED <<message, p, parserVars>>
  BY DEF Allocate
<1>2. put # <<"foreign", 0>> /\ put # <<"received", 0>>
  BY <1>1
<1>3. message \in Messages /\ Call(<< >>)
  BY <1>2, Zenon DEF SerializerInv
<1>4. p = 0
  <2>1. \A o : ~ Progress(o)
    BY <1>1 DEF Progress
  <2> QED
    BY <1>2, <2>1, Zenon DEF SerializerInv
<1>5. PICK n \in Nat : n = total_len(message)
  BY <1>3, LengthsFit, Zenon
<1>6. wbuf' \in Seq(Byte) /\ Len(wbuf') = n
  <2>1. wbuf' = [k \in 1..n |-> 0] /\ 0 \in Byte
    BY <1>1, <1>5, CodecAssumption, Zenon
  <2> QED
    BY <2>1
<1>7. PICK o \in [0..Len(message) -> Nat] : Layout(message, o)
  BY <1>3, LayoutExists, Zenon
<1>8. Progress(o)'
  BY <1>1, <1>4 DEF Progress
<1>9. put' # <<"received", 0>>
  BY <1>1
<1> QED
  BY <1>1, <1>3, <1>5, <1>6, <1>7, <1>8, <1>9, AfterPiece, Zenon

LEMMA PutNbytesKeeps == SerializerInv /\ PutNbytes => SerializerInv'
<1> SUFFICES ASSUME SerializerInv, PutNbytes PROVE SerializerInv'
  OBVIOUS
<1>1. put = <<"nbytes", 0>> /\ put' = <<"nstr", 0>> /\ Copy(FieldBytes[nbytes(message)])
  BY DEF PutNbytes
<1>2. /\ put # <<"received", 0>> /\ put[1] \notin {"size", "foreign"}
      /\ put' # <<"received", 0>>
  BY <1>1
<1>3. /\ Call(<< >>) /\ message \in Messages /\ wbuf \in Seq(Byte)
      /\ Len(wbuf) = total_len(message)
  BY <1>2, Writing, Zenon
<1>4. PICK o \in [0..Len(message) -> Nat] : Layout(message, o) /\ Progress(o)
  BY <1>2, Writing, Zenon
<1>5. p = 0
  BY <1>1, <1>4 DEF Progress
<1>6. PICK b \in Seq(Byte) : b = FieldBytes[nbytes(message)] /\ Len(b) = LEN_FIELD_SIZE
  BY <1>3, LengthsFit, FieldOf, Zenon
<1>7. LEN_FIELD_SIZE \in Nat /\ nbytes(message) \in Nat
      /\ total_len(message) = LEN_FIELD_SIZE + nbytes(message)
  BY <1>3, LimitTypes, LengthsFit
<1>8. p \in Nat /\ p + Len(b) <= Len(wbuf)
  BY <1>3, <1>5, <1>6, <1>7
<1>9. /\ wbuf' \in Seq(Byte) /\ Len(wbuf') = Len(wbuf) /\ p' = p + Len(b)
      /\ Piece(wbuf', p, b)
  BY <1>1, <1>3, <1>6, <1>8, CopyWrites
<1>10. UNCHANGED <<message, parserVars>>
  BY <1>1 DEF Copy
<1>11. Progress(o)'
  <2>1. FieldBytes[nbytes(message)]' = b
    BY <1>6, <1>10
  <2>2. Piece(wbuf, 0, FieldBytes[nbytes(message)])'
    BY <1>5, <1>9, <2>1
  <2>3. p' = LEN_FIELD_SIZE
    BY <1>5, <1>6, <1>7, <1>9
  <2> QED
    BY <1>1, <2>2, <2>3 DEF Progress
<1> QED
  BY <1>2, <1>3, <1>4, <1>9, <1>10, <1>11, AfterPiece, Zenon

LEMMA PutNstrKeeps == SerializerInv /\ PutNstr => SerializerInv'
<1> SUFFICES ASSUME SerializerInv, PutNstr PROVE SerializerInv'
  OBVIOUS
<1>1. put = <<"nstr", 0>> /\ put' = NextString(1) /\ Copy(FieldBytes[Len(message)])
  BY DEF PutNstr
<1>2. /\ put # <<"received", 0>> /\ put[1] \notin {"size", "foreign"}
      /\ put' # <<"received", 0>>
  BY <1>1 DEF NextString
<1>3. /\ Call(<< >>) /\ message \in Messages /\ wbuf \in Seq(Byte)
      /\ Len(wbuf) = total_len(message)
  BY <1>2, Writing, Zenon
<1>4. PICK o \in [0..Len(message) -> Nat] : Layout(message, o) /\ Progress(o)
  BY <1>2, Writing, Zenon
<1>5. p = LEN_FIELD_SIZE /\ Piece(wbuf, 0, FieldBytes[nbytes(message)])
  BY <1>1, <1>4 DEF Progress
<1>6. PICK b \in Seq(Byte) : b = FieldBytes[Len(message)] /\ Len(b) = LEN_FIELD_SIZE
  BY <1>3, LengthsFit, FieldOf, Zenon
<1>7. /\ LEN_FIELD_SIZE \in Nat /\ Len(message) \in Nat
      /\ DOMAIN message = 1..Len(message)
  BY <1>3, LimitTypes, MessageType
<1>8. p \in Nat /\ p + Len(b) <= Len(wbuf)
  <2>1. 0 \in 0..Len(message) /\ Len(message) \in 0..Len(message)
    BY <1>7
  <2>2. 2 * LEN_FIELD_SIZE <= o[Len(message)]
    BY <1>3, <1>4, <2>1, LayoutGrows
  <2>3. o[Len(message)] = total_len(message)
    BY <1>4 DEF Layout
  <2> QED
    BY <1>3, <1>5, <1>6, <1>7, <2>2, <2>3
<1>9. /\ wbuf' \in Seq(Byte) /\ Len(wbuf') = Len(wbuf) /\ p' = p + Len(b)
      /\ Piece(wbuf', p, b) /\ Kept(wbuf, wbuf', p)
  BY <1>1, <1>3, <1>6, <1>8, CopyWrites
<1>10. UNCHANGED <<message, parserVars>>
  BY <1>1 DEF Copy
<1>11. Header(wbuf, message)'
  <2>1. /\ FieldBytes[Len(message)]' = b
        /\ FieldBytes[nbytes(message)]' = FieldBytes[nbytes(message)]
    BY <1>6, <1>10
  <2>2. /\ Len(FieldBytes[nbytes(message)]) = LEN_FIELD_SIZE
    BY <1>3, LengthsFit, FieldOf
  <2>3. Piece(wbuf', 0, FieldBytes[nbytes(message)])
    <3>1. 0 + LEN_FIELD_SIZE <= p
      BY <1>5, <1>7
    <3> QED
      BY <1>5, <1>7, <1>9, <2>2, <3>1 DEF Kept
  <2> QED
    BY <1>5, <1>9, <2>1, <2>3 DEF Header
<1>12. p' = o[0]
  BY <1>4, <1>5, <1>6, <1>7, <1>9 DEF Layout
<1>13. Progress(o)'
  <2>1. Written(wbuf, message, o, 0)'
    BY DEF Written
  <2>2. CASE 1 <= Len(message)
    <3>1. 1 \in DOMAIN message' /\ 1 - 1 = 0 /\ put' = <<"len", 1>>
      BY <1>1, <1>7, <1>10, <2>2 DEF NextString
    <3> QED
      BY <1>11, <1>12, <2>1, <3>1 DEF Progress
  <2>3. CASE ~ (1 <= Len(message))
    <3>1. Len(message') = 0 /\ put' = <<"sent", Len(message') + 1>>
      BY <1>1, <1>7, <1>10, <2>3 DEF NextString
    <3> QED
      BY <1>11, <1>12, <2>1, <3>1 DEF Progress
  <2> QED
    BY <2>2, <2>3
<1> QED
  BY <1>2, <1>3, <1>4, <1>9, <1>10, <1>13, AfterPiece, Zenon

LEMMA PutLengthKeeps == SerializerInv /\ PutLength => SerializerInv'
<1> SUFFICES ASSUME SerializerInv, PutLength PROVE SerializerInv'
  OBVIOUS
<1>1. PICK i \in DOMAIN message :
        put = <<"len", i>> /\ put' = <<"str", i>> /\ Copy(FieldBytes[Len(message[i])])
  BY DEF PutLength
<1>2. /\ put # <<"received", 0>> /\ put[1] \notin {"size", "foreign"}
      /\ put' # <<"received", 0>>
  BY <1>1
<1>3. /\ Call(<< >>) /\ message \in Messages /\ wbuf \in Seq(Byte)
      /\ Len(wbuf) = total_len(message)
  BY <1>2, Writing, Zenon
<1>4. PICK o \in [0..Len(message) -> Nat] : Layout(message, o) /\ Progress(o)
  BY <1>2, Writing, Zenon
<1>5. /\ p = o[i - 1] /\ Header(wbuf, message) /\ Written(wbuf, message, o, i - 1)
  BY <1>1, <1>4 DEF Progress
<1>6. PICK b \in Seq(Byte) : b = FieldBytes[Len(message[i])] /\ Len(b) = LEN_FIELD_SIZE
  BY <1>3, LengthsFit, FieldOf, Zenon
<1>7. /\ LEN_FIELD_SIZE \in Nat /\ Len(message) \in Nat
      /\ DOMAIN message = 1..Len(message) /\ Len(message[i]) \in Nat
  BY <1>3, LimitTypes, MessageType
<1>8. /\ i - 1 \in 0..Len(message) /\ i \in 0..Len(message)
      /\ Len(message) \in 0..Len(message)
  BY <1>7
<1>9. p \in Nat /\ p + Len(b) <= Len(wbuf) /\ 2 * LEN_FIELD_SIZE <= p
  <2>1. o[i] = o[i - 1] + LEN_FIELD_SIZE + Len(message[i])
        /\ o[Len(message)] = total_len(message)
    BY <1>4 DEF Layout
  <2>2. o[i] <= o[Len(message)] /\ 2 * LEN_FIELD_SIZE <= o[i - 1]
    <3>1. i \in 0..Len(message) /\ i - 1 \in 0 .. i - 1
      BY <1>7
    <3> QED
      BY <1>3, <1>4, <1>8, <3>1, LayoutGrows
  <2>3. o[i - 1] \in Nat /\ o[i] \in Nat /\ o[Len(message)] \in Nat
    BY <1>8
  <2> QED
    BY <1>3, <1>5, <1>6, <1>7, <2>1, <2>2, <2>3
<1>10. /\ wbuf' \in Seq(Byte) /\ Len(wbuf') = Len(wbuf) /\ p' = p + Len(b)
       /\ Piece(wbuf', p, b) /\ Kept(wbuf, wbuf', p)
  BY <1>1, <1>3, <1>6, <1>9, CopyWrites
<1>11. UNCHANGED <<message, parserVars>>
  BY <1>1 DEF Copy
<1>12. Header(wbuf', message) /\ Written(wbuf', message, o, i - 1)
  <2>1. o[i - 1] <= p
    BY <1>5, <1>9
  <2>2. Written(wbuf', message, o, i - 1)
    BY <1>3, <1>4, <1>5, <1>8, <1>9, <1>10, <2>1, WrittenKept, Zenon
  <2>3. Header(wbuf', message)
    BY <1>3, <1>5, <1>9, <1>10, HeaderKept, Zenon
  <2> QED
    BY <2>2, <2>3
<1>13. Progress(o)'
  <2>1. /\ Header(wbuf, message)' /\ Written(wbuf, message, o, i - 1)'
        /\ Piece(wbuf, o[i - 1], FieldBytes[Len(message[i])])'
        /\ i \in DOMAIN message'
    BY <1>1, <1>5, <1>6, <1>10, <1>11, <1>12
  <2>2. p' = o[i - 1] + LEN_FIELD_SIZE
    BY <1>5, <1>6, <1>10
  <2> QED
    BY <1>1, <2>1, <2>2 DEF Progress
<1> QED
  BY <1>2, <1>3, <1>4, <1>10, <1>11, <1>13, AfterPiece, Zenon

LEMMA PutStringKeeps == SerializerInv /\ PutString => SerializerInv'
<1> SUFFICES ASSUME SerializerInv, PutString PROVE SerializerInv'
  OBVIOUS
<1>1. PICK i \in DOMAIN message :
        put = <<"str", i>> /\ put' = NextString(i + 1) /\ Copy(message[i])
  BY DEF PutString
<1>2. /\ put # <<"received", 0>> /\ put[1] \notin {"size", "foreign"}
      /\ put' # <<"received", 0>>
  BY <1>1 DEF NextString
<1>3. /\ Call(<< >>) /\ message \in Messages /\ wbuf \in Seq(Byte)
      /\ Len(wbuf) = total_len(message)
  BY <1>2, Writing, Zenon
<1>4. PICK o \in [0..Len(message) -> Nat] : Layout(message, o) /\ Progress(o)
  BY <1>2, Writing, Zenon
<1>5. /\ p = o[i - 1] + LEN_FIELD_SIZE
      /\ Header(wbuf, message) /\ Written(wbuf, message, o, i - 1)
      /\ Piece(wbuf, o[i - 1], FieldBytes[Len(message[i])])
  BY <1>1, <1>4 DEF Progress
<1>6. PICK b \in Seq(Byte) : b = message[i]
  <2>1. message \in Seq(Seq(Byte)) /\ i \in 1..Len(message)
    BY <1>3, MessageType
  <2> QED
    BY <2>1, ElementOfSeq
<1>7. /\ LEN_FIELD_SIZE \in Nat /\ Len(message) \in Nat
      /\ DOMAIN message = 1..Len(message) /\ Len(message[i]) \in Nat
  BY <1>3, LimitTypes, MessageType
<1>8. /\ i - 1 \in 0..Len(message) /\ i \in 0..Len(message)
      /\ Len(message) \in 0..Len(message)
  BY <1>7
<1>9. /\ p \in Nat /\ p + Len(b) <= Len(wbuf) /\ 2 * LEN_FIELD_SIZE <= p
      /\ o[i - 1] \in Nat /\ o[i] = p + Len(b)
  <2>1. o[i] = o[i - 1] + LEN_FIELD_SIZE + Len(message[i])
        /\ o[Len(message)] = total_len(message)
    BY <1>4 DEF Layout
  <2>2. o[i] <= o[Len(message)] /\ 2 * LEN_FIELD_SIZE <= o[i - 1]
    <3>1. i \in 0..Len(message) /\ i - 1 \in 0 .. i - 1
      BY <1>7
    <3> QED
      BY <1>3, <1>4, <1>8, <3>1, LayoutGrows
  <2>3. o[i - 1] \in Nat /\ o[i] \in Nat /\ o[Len(message)] \in Nat
    BY <1>8
  <2>4. PICK at \in Nat, n \in Nat, end \in Nat, next \in Nat :
          at = o[i - 1] /\ n = Len(b) /\ end = Len(wbuf) /\ next = o[i]
    BY <1>3, <2>3
  <2>5. /\ next = at + LEN_FIELD_SIZE + n /\ p = at + LEN_FIELD_SIZE
        /\ next <= end /\ 2 * LEN_FIELD_SIZE <= at
    BY <1>3, <1>5, <1>6, <2>1, <2>2, <2>4, Zenon
  <2>6. /\ p \in Nat /\ p + n <= end /\ 2 * LEN_FIELD_SIZE <= p
        /\ next = p + n
    BY <2>5, LimitTypes
  <2> QED
    BY <2>4, <2>6, Zenon
<1>10. /\ wbuf' \in Seq(Byte) /\ Len(wbuf') = Len(wbuf) /\ p' = p + Len(b)
       /\ Piece(wbuf', p, b) /\ Kept(wbuf, wbuf', p)
  BY <1>1, <1>3, <1>6, <1>9, CopyWrites
<1>11. UNCHANGED <<message, parserVars>>
  BY <1>1 DEF Copy
<1>12. Header(wbuf', message) /\ Written(wbuf', message, o, i)
  <2>1. o[i - 1] <= p
    <3>1. p = o[i - 1] + LEN_FIELD_SIZE /\ o[i - 1] \in Nat
      BY <1>5, <1>9
    <3> QED
      BY <3>1, LimitTypes
  <2>2. Written(wbuf', message, o, i - 1)
    BY <1>3, <1>4, <1>5, <1>8, <1>9, <1>10, <2>1, WrittenKept, Zenon
  <2>3. Header(wbuf', message)
    BY <1>3, <1>5, <1>9, <1>10, HeaderKept, Zenon
  <2>4. Piece(wbuf', o[i - 1], FieldBytes[Len(message[i])])
    <3>1. Len(FieldBytes[Len(message[i])]) = LEN_FIELD_SIZE
      BY <1>3, LengthsFit, FieldOf, Zenon
    <3>2. o[i - 1] + LEN_FIELD_SIZE <= p
      <4>1. p = o[i - 1] + LEN_FIELD_SIZE /\ p \in Nat
        BY <1>5, <1>9
      <4> QED
        BY <4>1
    <3>3. Kept(wbuf, wbuf', p) /\ Piece(wbuf, o[i - 1], FieldBytes[Len(message[i])])
      BY <1>5, <1>10
    <3>4. LEN_FIELD_SIZE \in Nat
      BY <1>7
    <3> QED
      BY <3>1, <3>2, <3>3, <3>4, Zenon DEF Kept
  <2>5. Piece(wbuf', o[i - 1] + LEN_FIELD_SIZE, message[i])
    BY <1>5, <1>6, <1>10
  <2>6. \A j \in 1..i : j = i \/ j \in 1 .. i - 1
    BY <1>7
  <2>7. Written(wbuf', message, o, i)
    BY <2>2, <2>4, <2>5, <2>6 DEF Written
  <2> QED
    BY <2>3, <2>7
<1>13. Progress(o)'
  <2>1. /\ Header(wbuf, message)' /\ Written(wbuf, message, o, i)' /\ p' = o[i]
    BY <1>9, <1>10, <1>11, <1>12
  <2>2. CASE i + 1 <= Len(message)
    <3>1. PICK k \in DOMAIN message : k = i + 1 /\ k - 1 = i
      BY <1>7, <2>2
    <3>2. put' = <<"len", k>>
      BY <1>1, <2>2, <3>1 DEF NextString
    <3>3. k \in DOMAIN message'
      BY <1>11
    <3> QED
      BY <2>1, <3>1, <3>2, <3>3 DEF Progress
  <2>3. CASE ~ (i + 1 <= Len(message))
    <3>1. Len(message') = i /\ put' = <<"sent", Len(message') + 1>>
      BY <1>1, <1>7, <1>11, <2>3 DEF NextString
    <3> QED
      BY <2>1, <3>1 DEF Progress
  <2> QED
    BY <2>2, <2>3
<1> QED
  BY <1>2, <1>3, <1>4, <1>10, <1>11, <1>13, AfterPiece, Zenon

\* What try_request passes on is the frame without the length that precedes it.
LEMMA TryRequestKeeps ==
  SerializerInv /\ TryRequest => SerializerInv' /\ ParserInv'
<1> SUFFICES ASSUME SerializerInv, TryRequest PROVE SerializerInv' /\ ParserInv'
  OBVIOUS
<1>1. /\ put[1] = "sent" /\ put' = <<"received", 0>>
      /\ DataLen <= MAX_MSG_FIELD_SIZE
      /\ body' = SubSeq(wbuf, LEN_FIELD_SIZE + 1, LEN_FIELD_SIZE + DataLen)
      /\ stage' = "nstr"
      /\ UNCHANGED <<message, wbuf, p, data, nstr, cmd_len, cmds>>
  BY DEF TryRequest
<1>2. put # <<"received", 0>> /\ put[1] \notin {"size", "foreign"}
  BY <1>1
<1>3. /\ Call(<< >>) /\ message \in Messages /\ wbuf \in Seq(Byte)
      /\ Len(wbuf) = total_len(message)
  BY <1>2, Writing, Zenon
<1>4. PICK o \in [0..Len(message) -> Nat] : Layout(message, o) /\ Progress(o)
  BY <1>2, Writing, Zenon
<1>5. /\ p = o[Len(message)]
      /\ Header(wbuf, message) /\ Written(wbuf, message, o, Len(message))
  BY <1>1, <1>4 DEF Progress
<1>6. PICK b \in Seq(Byte) :
        /\ b = FieldBytes[nbytes(message)] /\ Len(b) = LEN_FIELD_SIZE
        /\ FieldValue[b] = nbytes(message)
  BY <1>3, LengthsFit, FieldOf, Zenon
<1>7. /\ LEN_FIELD_SIZE \in Nat /\ nbytes(message) \in Nat
      /\ total_len(message) = LEN_FIELD_SIZE + nbytes(message)
  BY <1>3, LimitTypes, LengthsFit
<1>8. DataLen = nbytes(message)
  <2>1. Piece(wbuf, 0, b)
    BY <1>5, <1>6 DEF Header
  <2>2. SubSeq(wbuf, 0 + 1, 0 + Len(b)) = b
    BY <1>3, <2>1, PieceIsSlice, Zenon
  <2>3. 0 + 1 = 1 /\ 0 + Len(b) = LEN_FIELD_SIZE
    BY <1>6, <1>7
  <2> QED
    BY <1>6, <2>2, <2>3, Zenon DEF DataLen
<1>9. body' = SubSeq(wbuf, LEN_FIELD_SIZE + 1, total_len(message))
  BY <1>1, <1>7, <1>8
<1>10. total_len(message)' = total_len(message)
  BY <1>1
<1>11. SerializerInv'
  <2>1. message' = message /\ wbuf' = wbuf /\ p' = p
    BY <1>1
  <2>2. Progress(o)'
    <3>1. /\ Header(wbuf, message)' /\ Written(wbuf, message, o, Len(message))'
          /\ p' = o[Len(message')]
      BY <1>5, <2>1
    <3> QED
      BY <1>1, <3>1 DEF Progress
  <2>3. Layout(message, o)' /\ o \in [0..Len(message') -> Nat]
    BY <1>4, <2>1
  <2>4. Received'
    BY <1>1, <1>8, <1>9, <1>10, <2>1 DEF Received
  <2>5. message' \in Messages /\ wbuf' \in Seq(Byte) /\ Len(wbuf') = total_len(message)'
    BY <1>3, <1>10, <2>1
  <2> QED
    BY <1>1, <2>2, <2>3, <2>4, <2>5, Zenon DEF SerializerInv
<1>12. ParserInv'
  <2>1. body' \in Seq(Byte)
    <3>1. LEN_FIELD_SIZE + nbytes(message) <= Len(wbuf)
      BY <1>3, <1>7
    <3>2. SubSeq(wbuf, LEN_FIELD_SIZE + 1, LEN_FIELD_SIZE + nbytes(message)) \in Seq(Byte)
      BY <1>3, <1>7, <3>1, SliceType
    <3> QED
      BY <1>1, <1>8, <3>2
  <2>2. Call(body)'
    BY <1>1, <1>3 DEF Call
  <2> QED
    BY <2>1, <2>2, CallParserInvPrime
<1> QED
  BY <1>11, <1>12

LEMMA ParseKeepsBody == Parse => UNCHANGED body
BY DEF Parse, ReadNstr, ReadLength, ReadString, CannotRead, Refuse, Accept

LEMMA InitCodec == CodecInit => SerializerInv /\ ParserInv
<1> SUFFICES ASSUME CodecInit PROVE SerializerInv /\ ParserInv
  OBVIOUS
<1>1. CASE message \in Messages /\ put = <<"size", 0>> /\ Call(<< >>)
  <2>1. SerializerInv
    BY <1>1 DEF SerializerInv, CodecInit
  <2>2. body \in Seq(Byte) /\ Call(body)
    BY <1>1 DEF Call
  <2> QED
    BY <2>1, <2>2, CallParserInv
<1>2. CASE put = <<"foreign", 0>> /\ \E b \in Bodies : Call(b)
  <2>1. SerializerInv
    BY <1>2 DEF SerializerInv
  <2>2. body \in Seq(Byte) /\ Call(body)
    BY <1>2, BodiesAssumption DEF Call
  <2> QED
    BY <2>1, <2>2, CallParserInv
<1> QED
  BY <1>1, <1>2 DEF CodecInit

LEMMA NextCodec ==
  SerializerInv /\ ParserInv /\ [CodecNext]_allVars => SerializerInv' /\ ParserInv'
<1> SUFFICES ASSUME SerializerInv, ParserInv, [CodecNext]_allVars
             PROVE  SerializerInv' /\ ParserInv'
  OBVIOUS
<1>1. CASE Allocate \/ PutNbytes \/ PutNstr \/ PutLength \/ PutString
  <2>1. SerializerInv'
    BY <1>1, AllocateKeeps, PutNbytesKeeps, PutNstrKeeps, PutLengthKeeps,
       PutStringKeeps, Zenon
  <2>2. UNCHANGED parserVars
    BY <1>1 DEF Allocate, PutNbytes, PutNstr, PutLength, PutString, Copy
  <2> QED
    BY <2>1, <2>2, NextParserInv
<1>2. CASE TryRequest
  BY <1>2, TryRequestKeeps
<1>3. CASE put[1] \in {"received", "foreign"} /\ Parse /\ UNCHANGED codecVars
  <2>1. UNCHANGED <<message, wbuf, p, put, body>>
    BY <1>3, ParseKeepsBody DEF codecVars
  <2>2. SerializerInv'
    <3>1. CASE put = <<"foreign", 0>>
      BY <2>1, <3>1 DEF SerializerInv
    <3>2. CASE put # <<"foreign", 0>>
      <4>1. put # <<"size", 0>>
        BY <1>3
      <4>2. /\ message \in Messages /\ wbuf \in Seq(Byte)
            /\ Len(wbuf) = total_len(message) /\ Received
        BY <3>2, <4>1, Zenon DEF SerializerInv
      <4>3. PICK o \in [0..Len(message) -> Nat] : Layout(message, o) /\ Progress(o)
        BY <3>2, <4>1, Zenon DEF SerializerInv
      <4>4. put = <<"received", 0>>
        BY <1>3, <4>3 DEF Progress
      <4>5. total_len(message)' = total_len(message)
        BY <2>1
      <4>6. Received' /\ Progress(o)' /\ Layout(message, o)'
        <5>1. Received'
          BY <2>1, <4>2, <4>5 DEF Received
        <5>2. Progress(o)'
          BY <2>1, <4>3 DEF Progress
        <5>3. Layout(message, o)'
          BY <2>1, <4>3
        <5> QED
          BY <5>1, <5>2, <5>3
      <4>7. /\ message' \in Messages /\ wbuf' \in Seq(Byte)
            /\ Len(wbuf') = total_len(message)' /\ put' = <<"received", 0>>
            /\ o \in [0..Len(message') -> Nat]
        BY <2>1, <4>2, <4>4, <4>5
      <4> QED
        BY <4>6, <4>7, Zenon DEF SerializerInv
    <3> QED
      BY <3>1, <3>2
  <2> QED
    BY <1>3, <2>2, NextParserInv
<1>4. CASE UNCHANGED allVars
  <2>1. UNCHANGED <<message, wbuf, p, put, parserVars>>
    BY <1>4 DEF allVars, codecVars
  <2>2. UNCHANGED <<body, data, nstr, cmd_len, cmds, stage>>
    BY <2>1 DEF parserVars
  <2>3. SerializerInv'
    <3>1. total_len(message)' = total_len(message)
      BY <2>1
    <3>2. \A o : Layout(message, o)' <=> Layout(message, o)
      BY <2>1
    <3>3. \A o : Progress(o)' <=> Progress(o)
      BY <2>1 DEF Progress
    <3>4. (Received' <=> Received) /\ (Call(<< >>)' <=> Call(<< >>))
      BY <2>1, <2>2, <3>1 DEF Received, Call
    <3>5. /\ message' = message /\ wbuf' = wbuf /\ p' = p /\ put' = put
      BY <2>1
    <3> QED
      BY <3>1, <3>2, <3>3, <3>4, <3>5, Zenon DEF SerializerInv
  <2> QED
    BY <2>1, <2>3, NextParserInv
<1> QED
  BY <1>1, <1>2, <1>3, <1>4 DEF CodecNext

\* At every piece of serialize, p is where the layout that the first loop has
\* added up puts that piece, and the pieces before it are in the buffer; the
\* parser keeps its own invariant from the moment try_request calls it.
THEOREM CodecInductive == CodecSpec => [](SerializerInv /\ ParserInv)
BY InitCodec, NextCodec, PTL DEF CodecSpec

\* serialize writes every byte of the vector it has allocated, and none behind.
THEOREM SerializeFits == CodecSpec => []WritesFit
<1>1. SerializerInv => WritesFit
  <2> SUFFICES ASSUME SerializerInv, put[1] \notin {"size", "foreign"}
               PROVE  /\ p <= Len(wbuf)
                      /\ put[1] \in {"sent", "received"} => p = Len(wbuf)
    BY DEF WritesFit
  <2>1. message \in Messages /\ Len(wbuf) = total_len(message)
    BY Writing, Zenon
  <2>2. PICK o \in [0..Len(message) -> Nat] : Layout(message, o) /\ Progress(o)
    BY Writing, Zenon
  <2>3. /\ LEN_FIELD_SIZE \in Nat /\ Len(message) \in Nat
        /\ DOMAIN message = 1..Len(message)
    BY <2>1, LimitTypes, MessageType
  <2>4. o[Len(message)] = Len(wbuf) /\ o[Len(message)] \in Nat
    BY <2>1, <2>2, <2>3 DEF Layout
  <2>5. 2 * LEN_FIELD_SIZE <= o[Len(message)]
    <3>1. Len(message) \in 0..Len(message)
      BY <2>3
    <3> QED
      BY <2>1, <2>2, <2>3, <3>1, LayoutGrows
  <2>6. CASE put = <<"nbytes", 0>> /\ p = 0
    BY <2>4, <2>6
  <2>7. CASE put = <<"nstr", 0>> /\ p = LEN_FIELD_SIZE
    BY <2>3, <2>4, <2>5, <2>7
  <2>8. ASSUME NEW i \in DOMAIN message,
               \/ put = <<"len", i>> /\ p = o[i - 1]
               \/ put = <<"str", i>> /\ p = o[i - 1] + LEN_FIELD_SIZE
        PROVE  p <= Len(wbuf) /\ put[1] \notin {"sent", "received"}
    <3>1. /\ i - 1 \in 0..Len(message) /\ i \in 0..Len(message)
          /\ Len(message) \in 0..Len(message)
      BY <2>3
    <3>2. o[i] = o[i - 1] + LEN_FIELD_SIZE + Len(message[i])
          /\ Len(message[i]) \in Nat
      BY <2>1, <2>2, MessageType DEF Layout
    <3>3. o[i] <= o[Len(message)]
      BY <2>1, <2>2, <3>1, LayoutGrows
    <3>4. o[i] \in Nat /\ o[i - 1] \in Nat
      BY <3>1
    <3>5. p <= Len(wbuf)
      BY <2>3, <2>4, <2>8, <3>2, <3>3, <3>4
    <3> QED
      BY <2>8, <3>5
  <2>9. CASE p = o[Len(message)]
    BY <2>4, <2>9
  <2> QED
    BY <2>2, <2>6, <2>7, <2>8, <2>9 DEF Progress
<1> QED
  BY <1>1, CodecInductive, PTL

\* No frame makes the parser leave its body, and it accepts the well-formed
\* bodies and no other: of serialize, or of any other program.
THEOREM FramesParsed == CodecSpec => [](InBounds /\ DecidesFormat)
<1>1. ParserInv => InBounds /\ DecidesFormat
  BY DEF ParserInv
<1> QED
  BY <1>1, CodecInductive, PTL

\* What parse_req finds in the frame of the message, at the positions that the
\* layout o has in the vector: they are LEN_FIELD_SIZE less in the body.
Readable(o) ==
  /\ LEN_FIELD_SIZE <= Len(body) /\ Field(0) = Len(message)
  /\ o[Len(message)] = Len(body) + LEN_FIELD_SIZE
  /\ \A i \in DOMAIN message :
       /\ o[i] = o[i - 1] + LEN_FIELD_SIZE + Len(message[i])
       /\ \A at \in Nat : at + LEN_FIELD_SIZE = o[i - 1] =>
            Field(at) = Len(message[i])
       /\ SubSeq(body, o[i - 1] + 1, o[i - 1] + Len(message[i])) = message[i]

LEMMA FrameReadable ==
  ASSUME SerializerInv, ParserInv, put[1] = "received"
  PROVE  /\ message \in Messages /\ nbytes(message) <= MAX_MSG_FIELD_SIZE
         /\ \E o \in [0..Len(message) -> Nat] : Layout(message, o) /\ Readable(o)
<1>1. put[1] \notin {"size", "foreign"}
  OBVIOUS
<1>2. /\ message \in Messages /\ wbuf \in Seq(Byte)
      /\ Len(wbuf) = total_len(message) /\ Received
  BY <1>1, Writing, Zenon
<1>3. PICK o \in [0..Len(message) -> Nat] : Layout(message, o) /\ Progress(o)
  BY <1>1, Writing, Zenon
<1>4. /\ put = <<"received", 0>> /\ Header(wbuf, message)
      /\ Written(wbuf, message, o, Len(message))
  BY <1>3 DEF Progress
<1>5. /\ LEN_FIELD_SIZE \in Nat /\ Len(message) \in Nat
      /\ DOMAIN message = 1..Len(message) /\ message \in Seq(Seq(Byte))
  BY <1>2, LimitTypes, MessageType
<1>6. /\ body = SubSeq(wbuf, LEN_FIELD_SIZE + 1, Len(wbuf)) /\ body \in Seq(Byte)
      /\ LEN_FIELD_SIZE <= Len(wbuf)
  <2>1. body \in Seq(Byte)
    BY DEF ParserInv, TypeOK
  <2>2. /\ total_len(message) = LEN_FIELD_SIZE + nbytes(message)
        /\ nbytes(message) \in Nat
    BY <1>2, LengthsFit
  <2> QED
    BY <1>2, <1>4, <1>5, <2>1, <2>2 DEF Received
<1>7. ASSUME NEW at \in Nat, NEW n \in 0 .. Width - 1,
             Piece(wbuf, at + LEN_FIELD_SIZE, FieldBytes[n])
      PROVE  Field(at) = n /\ at + LEN_FIELD_SIZE <= Len(body)
  <2>1. PICK b \in Seq(Byte) : /\ b = FieldBytes[n] /\ Len(b) = LEN_FIELD_SIZE
                               /\ FieldValue[b] = n
    BY FieldOf, Zenon
  <2>2. Piece(body, at, b)
    BY <1>2, <1>6, <1>7, <2>1, PieceOfRest
  <2>3. SubSeq(body, at + 1, at + Len(b)) = b
    BY <1>6, <2>2, PieceIsSlice, Zenon
  <2>4. Field(at) = n
    BY <2>1, <2>3, Zenon DEF Field
  <2> QED
    BY <2>1, <2>2, <2>4 DEF Piece
<1>8. Field(0) = Len(message) /\ LEN_FIELD_SIZE <= Len(body)
  <2>1. Len(message) \in 0 .. Width - 1
    BY <1>2, LengthsFit
  <2>2. Piece(wbuf, 0 + LEN_FIELD_SIZE, FieldBytes[Len(message)])
    BY <1>4, <1>5 DEF Header
  <2>3. Field(0) = Len(message) /\ 0 + LEN_FIELD_SIZE <= Len(body)
    BY <1>7, <2>1, <2>2
  <2> QED
    BY <1>5, <2>3
<1>9. o[Len(message)] = Len(body) + LEN_FIELD_SIZE
  <2>1. PICK n \in Nat : n = Len(wbuf) - LEN_FIELD_SIZE /\ LEN_FIELD_SIZE + n = Len(wbuf)
    <3>1. Len(wbuf) \in Nat
      BY <1>2
    <3>2. Len(wbuf) - LEN_FIELD_SIZE \in Nat
          /\ LEN_FIELD_SIZE + (Len(wbuf) - LEN_FIELD_SIZE) = Len(wbuf)
      BY <1>5, <1>6, <3>1
    <3> QED
      BY <3>2, Zenon
  <2>2. Len(SubSeq(wbuf, LEN_FIELD_SIZE + 1, LEN_FIELD_SIZE + n)) = n
    <3>1. LEN_FIELD_SIZE + n <= Len(wbuf)
      BY <1>2, <2>1
    <3> QED
      BY <1>2, <1>5, <3>1, SliceType
  <2>3. Len(body) = n /\ o[Len(message)] = LEN_FIELD_SIZE + n
    BY <1>2, <1>3, <1>6, <2>1, <2>2, Zenon DEF Layout
  <2> QED
    BY <1>5, <2>3
<1>10. ASSUME NEW i \in DOMAIN message
       PROVE  /\ o[i] = o[i - 1] + LEN_FIELD_SIZE + Len(message[i])
              /\ \A at \in Nat : at + LEN_FIELD_SIZE = o[i - 1] =>
                   Field(at) = Len(message[i])
              /\ SubSeq(body, o[i - 1] + 1, o[i - 1] + Len(message[i])) = message[i]
  <2>1. o[i] = o[i - 1] + LEN_FIELD_SIZE + Len(message[i])
    BY <1>3 DEF Layout
  <2>2. PICK n \in 0 .. Width - 1 : n = Len(message[i])
    BY <1>2, LengthsFit
  <2>3. PICK b \in Seq(Byte) : b = message[i]
    BY <1>5, ElementOfSeq
  <2>4. /\ Piece(wbuf, o[i - 1], FieldBytes[n])
        /\ Piece(wbuf, o[i - 1] + LEN_FIELD_SIZE, b)
    BY <1>4, <1>5, <2>2, <2>3 DEF Written
  <2>5. ASSUME NEW at \in Nat, at + LEN_FIELD_SIZE = o[i - 1] PROVE Field(at) = n
    BY <1>7, <2>4, <2>5
  <2>6. o[i - 1] \in Nat
    BY <1>5
  <2>7. Piece(body, o[i - 1], b)
    BY <1>2, <1>6, <2>4, <2>6, PieceOfRest
  <2>8. SubSeq(body, o[i - 1] + 1, o[i - 1] + Len(b)) = b
    BY <1>6, <2>7, PieceIsSlice, Zenon
  <2> QED
    BY <2>1, <2>2, <2>3, <2>5, <2>8, Zenon
<1>11. Readable(o)
  BY <1>8, <1>9, <1>10, Zenon DEF Readable
<1>12. nbytes(message) <= MAX_MSG_FIELD_SIZE
  BY <1>2, <1>4 DEF Received
<1> QED
  BY <1>2, <1>3, <1>11, <1>12, Zenon

\* The command that the interpreter is given is the one the user has typed.
THEOREM ParseInvertsSerialize == CodecSpec => []Faithful
<1>1. SerializerInv /\ ParserInv => Faithful
  <2> SUFFICES ASSUME SerializerInv, ParserInv, put[1] = "received", stage = "true"
               PROVE  cmds = message
    BY DEF Faithful
  <2>1. message \in Messages
    BY FrameReadable, Zenon
  <2>2. PICK o \in [0..Len(message) -> Nat] : Layout(message, o) /\ Readable(o)
    BY FrameReadable, Zenon
  <2>3. /\ LEN_FIELD_SIZE \in Nat /\ Len(message) \in Nat
        /\ DOMAIN message = 1..Len(message) /\ message \in Seq(Seq(Byte))
    BY <2>1, LimitTypes, MessageType
  <2>4. nstr = Len(message)
    BY <2>2 DEF Readable, ParserInv
  <2>5. PICK q \in [0..Len(message) -> 0..Len(body)] :
          Chain(q, Len(message)) /\ cmds = Strings(q, Len(message))
    BY <2>4 DEF ParserInv, DecidesFormat
  <2>6. Len(body) \in Nat
    BY DEF ParserInv, TypeOK
  <2>7. \A i \in 0..Len(message) : q[i] + LEN_FIELD_SIZE = o[i]
    <3> DEFINE P == {i \in Nat : i <= Len(message) => q[i] + LEN_FIELD_SIZE = o[i]}
    <3>1. 0 \in P
      BY <2>2, <2>3, <2>5 DEF Chain, Layout
    <3>2. ASSUME NEW i \in Nat, i \in P PROVE i + 1 \in P
      <4> SUFFICES ASSUME i + 1 <= Len(message)
                   PROVE  q[i + 1] + LEN_FIELD_SIZE = o[i + 1]
        OBVIOUS
      <4>1. /\ i + 1 \in DOMAIN message /\ i + 1 \in 1..Len(message)
            /\ (i + 1) - 1 = i /\ i \in 0..Len(message) /\ i <= Len(message)
        BY <2>3
      <4>2. q[i] + LEN_FIELD_SIZE = o[i] /\ q[i] \in Nat
        BY <2>5, <2>6, <3>2, <4>1
      <4>3. PICK n \in Nat : n = Len(message[i + 1])
        BY <2>1, <4>1, MessageType
      <4>4. Field(q[i]) = n /\ o[i + 1] = o[i] + LEN_FIELD_SIZE + n
        BY <2>2, <4>1, <4>2, <4>3 DEF Readable
      <4>5. q[i + 1] = q[i] + LEN_FIELD_SIZE + n
        BY <2>5, <4>1, <4>4 DEF Chain
      <4> QED
        BY <2>3, <4>2, <4>4, <4>5
    <3>3. Nat \subseteq P
      <4> HIDE DEF P
      <4> QED
        BY <3>1, <3>2, SetInduction
    <3> QED
      BY <2>3, <3>3
  <2>8. ASSUME NEW i \in 1..Len(message)
        PROVE  SubSeq(body, q[i - 1] + LEN_FIELD_SIZE + 1, q[i]) = message[i]
    <3>1. i \in DOMAIN message /\ i - 1 \in 0..Len(message) /\ i \in 0..Len(message)
      BY <2>3
    <3>2. PICK n \in Nat, end \in Nat : n = Len(message[i]) /\ end = q[i]
      BY <2>1, <2>5, <2>6, <3>1, MessageType
    <3>3. PICK at \in Nat : at = o[i - 1]
      BY <3>1
    <3>4. /\ SubSeq(body, at + 1, at + n) = message[i]
          /\ o[i] = at + LEN_FIELD_SIZE + n
      BY <2>2, <3>1, <3>2, <3>3, Zenon DEF Readable
    <3>5. at = q[i - 1] + LEN_FIELD_SIZE /\ end + LEN_FIELD_SIZE = o[i]
      BY <2>7, <3>1, <3>2, <3>3
    <3>6. end + LEN_FIELD_SIZE = at + LEN_FIELD_SIZE + n
      BY <3>4, <3>5, Zenon
    <3>7. at + n = end
      BY <3>6, LimitTypes
    <3> QED
      BY <3>2, <3>4, <3>5, <3>7, Zenon
  <2>9. message = [i \in 1..Len(message) |-> message[i]]
    BY <2>3
  <2> QED
    BY <2>5, <2>8, <2>9 DEF Strings
<1> QED
  BY <1>1, CodecInductive, PTL

\* The two limits decide what becomes of a message: behind the length check it
\* has no more than MAX_MSG_FIELD_SIZE bytes, it is accepted only if it has no
\* more than MAX_CMD_ARGS strings, and refused only if it has.
LimitsDecide ==
  put[1] = "received" =>
    /\ nbytes(message) <= MAX_MSG_FIELD_SIZE
    /\ stage = "true" => Len(message) <= MAX_CMD_ARGS
    /\ stage = "false" => Len(message) > MAX_CMD_ARGS

THEOREM LimitsRefuse == CodecSpec => []LimitsDecide
<1>1. SerializerInv /\ ParserInv => LimitsDecide
  <2> SUFFICES ASSUME SerializerInv, ParserInv, put[1] = "received"
               PROVE  /\ nbytes(message) <= MAX_MSG_FIELD_SIZE
                      /\ stage = "true" => Len(message) <= MAX_CMD_ARGS
                      /\ stage = "false" => Len(message) > MAX_CMD_ARGS
    BY DEF LimitsDecide
  <2>1. message \in Messages /\ nbytes(message) <= MAX_MSG_FIELD_SIZE
    BY FrameReadable, Zenon
  <2>2. PICK o \in [0..Len(message) -> Nat] : Layout(message, o) /\ Readable(o)
    BY FrameReadable, Zenon
  <2>3. /\ LEN_FIELD_SIZE \in Nat /\ MAX_CMD_ARGS \in Nat /\ Len(message) \in Nat
        /\ DOMAIN message = 1..Len(message) /\ Len(body) \in Nat
    BY <2>1, LimitTypes, MessageType, FieldAssumption DEF ParserInv, TypeOK
  <2>4. /\ LEN_FIELD_SIZE <= Len(body) /\ Field(0) = Len(message)
        /\ o[Len(message)] = Len(body) + LEN_FIELD_SIZE
    BY <2>2, Zenon DEF Readable
  <2>5. stage = "true" => Len(message) <= MAX_CMD_ARGS
    BY <2>4 DEF ParserInv, DecidesFormat, WellFormed
  <2>6. ASSUME Len(message) <= MAX_CMD_ARGS PROVE WellFormed
    <3> DEFINE q == [i \in 0..Len(message) |-> o[i] - LEN_FIELD_SIZE]
    <3>1. ASSUME NEW i \in 0..Len(message)
          PROVE  q[i] \in 0..Len(body) /\ q[i] + LEN_FIELD_SIZE = o[i]
      <4>1. Len(message) \in 0..Len(message) /\ i \in 0..Len(message) /\ i \in 0..i
        BY <2>3
      <4>2. o[i] <= o[Len(message)] /\ 2 * LEN_FIELD_SIZE <= o[i]
        BY <2>1, <2>2, <4>1, LayoutGrows, Zenon
      <4>3. PICK end \in Nat : end = o[i]
        OBVIOUS
      <4>4. end <= Len(body) + LEN_FIELD_SIZE /\ 2 * LEN_FIELD_SIZE <= end
        BY <2>4, <4>2, <4>3, Zenon
      <4>5. q[i] = end - LEN_FIELD_SIZE
        BY <4>3
      <4> QED
        BY <2>3, <4>3, <4>4, <4>5
    <3>2. q \in [0..Len(message) -> 0..Len(body)]
      BY <3>1
    <3> HIDE DEF q
    <3>3. q[0] = LEN_FIELD_SIZE
      <4>1. q[0] + LEN_FIELD_SIZE = 2 * LEN_FIELD_SIZE /\ q[0] \in 0..Len(body)
        BY <2>2, <2>3, <3>1 DEF Layout
      <4> QED
        BY <2>3, <4>1
    <3>4. ASSUME NEW i \in 1..Len(message)
          PROVE  /\ q[i - 1] + LEN_FIELD_SIZE <= Len(body)
                 /\ q[i] = q[i - 1] + LEN_FIELD_SIZE + Field(q[i - 1])
      <4>1. i \in DOMAIN message /\ i - 1 \in 0..Len(message) /\ i \in 0..Len(message)
        BY <2>3
      <4>2. PICK n \in Nat : n = Len(message[i])
        BY <2>1, <4>1, MessageType
      <4>3. PICK at \in Nat, end \in Nat :
              /\ at = q[i - 1] /\ end = q[i] /\ end <= Len(body)
              /\ at + LEN_FIELD_SIZE = o[i - 1] /\ end + LEN_FIELD_SIZE = o[i]
        <5>1. /\ q[i - 1] \in 0..Len(body) /\ q[i] \in 0..Len(body)
              /\ q[i - 1] + LEN_FIELD_SIZE = o[i - 1]
              /\ q[i] + LEN_FIELD_SIZE = o[i]
          BY <3>1, <4>1, Zenon
        <5>2. q[i - 1] \in Nat /\ q[i] \in Nat /\ q[i] <= Len(body)
          BY <2>3, <5>1
        <5> QED
          BY <5>1, <5>2, Zenon
      <4>4. Field(at) = n /\ o[i] = o[i - 1] + LEN_FIELD_SIZE + n
        BY <2>2, <4>1, <4>2, <4>3, Zenon DEF Readable
      <4>5. end = at + LEN_FIELD_SIZE + n
        <5>1. end + LEN_FIELD_SIZE = (at + LEN_FIELD_SIZE) + LEN_FIELD_SIZE + n
          BY <4>3, <4>4, Zenon
        <5> QED
          BY <2>3, <5>1
      <4>6. at + LEN_FIELD_SIZE <= Len(body)
        <5>1. end <= Len(body) /\ Len(body) \in Nat
          BY <2>3, <4>3
        <5> QED
          BY <4>5, <5>1, LimitTypes
      <4> QED
        BY <4>3, <4>4, <4>5, <4>6
    <3>5. Chain(q, Len(message))
      BY <3>2, <3>3, <3>4 DEF Chain
    <3> QED
      BY <2>4, <2>6, <3>2, <3>5 DEF WellFormed
  <2>7. stage = "false" => ~ WellFormed
    BY DEF ParserInv, DecidesFormat
  <2> QED
    BY <2>1, <2>3, <2>5, <2>6, <2>7
<1> QED
  BY <1>1, CodecInductive, PTL
=============================================================================
