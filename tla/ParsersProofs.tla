---------------------------- MODULE ParsersProofs ----------------------------
(***************************************************************************)
(* The parsers of both programs, for every stream of their codecs: what is *)
(* saved of a frame between two calls fits into the bytes there are for    *)
(* it, and the frames that are returned adjoin in the stream.              *)
(***************************************************************************)
EXTENDS MCParsers, QueueLemmas

(* What was read of a start code when the next byte is the n-th: the states*)
(* but the first say how far back it starts, up to one byte.               *)
StartCode(c, n) ==
  /\ c.tmp_code_start \in Nat
  /\ \/ c.state = "0x1" /\ n - c.tmp_code_start = 1
     \/ c.state = "0x2" /\ n - c.tmp_code_start = 2
     \/ c.state = "0x3" /\ n - c.tmp_code_start = 3 /\ codec = "h264"
     \/ c.state = "1x1" /\ n - c.tmp_code_start \in 3 .. 4
     \/ c.state = "slice" /\ n - c.tmp_code_start \in 4 .. 5 /\ codec = "h264"

InCode(c, n) == c.state = "no_code" \/ StartCode(c, n)

(* The counters say what the parser looks for: a first tag, the picture of *)
(* a frame that began with a header, or, from zero, the tag that ends it.  *)
Counting(c) ==
  /\ ~c.got_end
  /\ ~c.got_start \/ c.seek_end => Counts(c, 0, 0)
  /\ c.seek_end => c.got_start
  /\ c.got_start /\ ~c.seek_end => c.headers_count > 0 /\ c.main_count = 0

(* The byte of the stream that the frame in the making begins with; before *)
(* the first one of the call when it was saved from the last call.         *)
Begin == offs + ctx.code_start

(* What was saved is what the stream has there.                            *)
SavedHere ==
  ctx.code_start < 0 => /\ ctx.got_start /\ Begin >= 0
                        /\ ctx.bytes = SubSeq(stream, Begin + 1, offs)

(* The end of a frame is the beginning of the start code that was just     *)
(* read: it lies in this call, at most five bytes back.                    *)
EndMarked ==
  /\ ctx.got_start /\ ctx.state = "no_code" /\ ctx.code_end \in Nat
  /\ consumed - ctx.code_end \in 0 .. 5

Parsing ==
  /\ SavedHere
  /\ ctx.got_end => pc = "return" /\ EndMarked
  /\ ~ctx.got_end => Counting(ctx) /\ (InCode(ctx, consumed) \/ ~More)
  /\ pc = "return" /\ ~ctx.got_end => ctx.state = "no_code" \/ ~More

ParserInv == TypeOK /\ (pc \in {"scan", "return"} => Parsing)

(* The new parser of the direct program holds nothing, and it is not used  *)
(* for H.263.                                                              *)
MCInv ==
  /\ program # "ivf" => ParserInv
  /\ program = "direct" => codec # "h263" /\ (~linked => pc = "return" /\ ~ctx.got_end)

-----------------------------------------------------------------------------
(* Streams                                                                 *)

(* The sequences that FlattenSeq joins one after the other, the first n of *)
(* them                                                                    *)
JoinsOf(q, f, n) ==
  f = [i \in 1 .. n |-> IF i = 1 THEN q[i] ELSE f[i - 1] \o q[i]]

(* There are such sequences.                                               *)
LEMMA JoinsExist ==
  ASSUME NEW q, NEW m \in Nat
  PROVE  \E f : JoinsOf(q, f, m)
<1> DEFINE Bad == {n \in Nat : ~\E f : JoinsOf(q, f, n)}
<1> SUFFICES ASSUME Bad # {} PROVE FALSE
  OBVIOUS
<1>1. PICK p \in Bad : \A r \in Bad : p <= r
  <2>1. Bad \in SUBSET Nat
    OBVIOUS
  <2> HIDE DEF Bad
  <2>2. QED
    BY <2>1, Least
<1>2. p \in Nat /\ ~\E f : JoinsOf(q, f, p)
  OBVIOUS
<1>3. p # 0
  <2> DEFINE f == [i \in 1 .. 0 |-> 0]
  <2>1. 1 .. 0 = {}
    OBVIOUS
  <2>2. JoinsOf(q, f, 0)
    BY <2>1 DEF JoinsOf
  <2>3. QED
    BY <1>2, <2>2
<1>4. p - 1 \in Nat /\ p - 1 \notin Bad
  BY <1>1, <1>2, <1>3
<1>5. PICK f : JoinsOf(q, f, p - 1)
  BY <1>4
<1> DEFINE g == [i \in 1 .. p |-> IF i = 1 THEN q[i] ELSE f[i - 1] \o q[i]]
<1>6. \A i \in 1 .. p - 1 : g[i] = f[i]
  <2>1. \A i \in 1 .. p - 1 : f[i] = IF i = 1 THEN q[i] ELSE f[i - 1] \o q[i]
    BY <1>5 DEF JoinsOf
  <2>2. \A i \in 1 .. p - 1 : i \in 1 .. p
    BY <1>2
  <2>3. \A i \in 1 .. p : g[i] = IF i = 1 THEN q[i] ELSE f[i - 1] \o q[i]
    OBVIOUS
  <2> HIDE DEF g
  <2>4. QED
    BY <2>1, <2>2, <2>3
<1>7. \A i \in 1 .. p : i # 1 => i - 1 \in 1 .. p - 1
  BY <1>2
<1>8. JoinsOf(q, g, p)
  <2>1. \A i \in 1 .. p : g[i] = IF i = 1 THEN q[i] ELSE g[i - 1] \o q[i]
    BY <1>6, <1>7
  <2>2. g = [i \in 1 .. p |-> g[i]]
    OBVIOUS
  <2> HIDE DEF g
  <2>3. QED
    BY <2>1, <2>2 DEF JoinsOf
<1>9. QED
  BY <1>2, <1>8

(* Sequences over S joined are a sequence over S.                          *)
LEMMA FlattenType ==
  ASSUME NEW S, NEW q \in Seq(Seq(S))
  PROVE  FlattenSeq(q) \in Seq(S)
<1>1. Len(q) \in Nat /\ \A i \in 1 .. Len(q) : q[i] \in Seq(S)
  OBVIOUS
<1>2. CASE Len(q) = 0
  <2>1. q = <<>>
    BY <1>2
  <2>2. <<>> \in Seq(S)
    OBVIOUS
  <2>3. QED
    BY <1>2, <2>1, <2>2 DEF FlattenSeq
<1>3. CASE Len(q) # 0
  <2> DEFINE g == CHOOSE f : JoinsOf(q, f, Len(q))
  <2>1. FlattenSeq(q) = g[Len(q)]
    BY <1>3 DEF FlattenSeq, JoinsOf
  <2>2. JoinsOf(q, g, Len(q))
    BY <1>1, JoinsExist
  <2> HIDE DEF g
  <2>3. \A i \in 1 .. Len(q) : g[i] = IF i = 1 THEN q[i] ELSE g[i - 1] \o q[i]
    BY <2>2 DEF JoinsOf
  <2> DEFINE Bad == {i \in 1 .. Len(q) : g[i] \notin Seq(S)}
  <2>4. Bad = {}
    <3> SUFFICES ASSUME Bad # {} PROVE FALSE
      OBVIOUS
    <3>1. PICK p \in Bad : \A r \in Bad : p <= r
      <4>1. Bad \in SUBSET Nat
        OBVIOUS
      <4> HIDE DEF Bad
      <4>2. QED
        BY <4>1, Least
    <3>2. p \in 1 .. Len(q) /\ g[p] \notin Seq(S)
      OBVIOUS
    <3>3. p # 1
      BY <1>1, <2>3, <3>2
    <3>4. p - 1 \in 1 .. Len(q) /\ p - 1 \notin Bad
      BY <1>1, <3>1, <3>2, <3>3
    <3>5. g[p - 1] \in Seq(S) /\ q[p] \in Seq(S) /\ g[p] = g[p - 1] \o q[p]
      BY <1>1, <2>3, <3>2, <3>3, <3>4
    <3>6. QED
      BY <3>2, <3>5
  <2>5. Len(q) \in 1 .. Len(q)
    BY <1>1, <1>3
  <2>6. QED
    BY <2>1, <2>4, <2>5
<1>4. QED
  BY <1>2, <1>3

(* The units of a stream are bytes.                                        *)
LEMMA StreamBytes ==
  ASSUME codec \in Codecs, NEW u \in Seq(Units[codec])
  PROVE  Bytes(u) \in Seq(0 .. 255)
<1> DEFINE q == [i \in DOMAIN u |-> u[i].bytes]
<1>1. \A i \in DOMAIN u : u[i] \in Units[codec]
  OBVIOUS
<1>2. \A i \in DOMAIN u : u[i].bytes \in Seq(0 .. 255)
  BY <1>1, UnitsAssumption
<1>3. q \in Seq(Seq(0 .. 255))
  <2>1. q = [i \in 1 .. Len(u) |-> u[i].bytes] /\ Len(u) \in Nat
    OBVIOUS
  <2>2. \A i \in 1 .. Len(u) : u[i].bytes \in Seq(0 .. 255)
    BY <1>2
  <2> HIDE DEF q
  <2>3. QED
    BY <2>1, <2>2
<1>4. QED
  BY <1>3, FlattenType DEF Bytes

(* The types of what the parser reads                                      *)
LEMMA ParserBytes == TypeOK => stream \in Seq(0 .. 255) /\ offs \in Nat /\ consumed \in Nat
<1> SUFFICES ASSUME TypeOK PROVE stream \in Seq(0 .. 255) /\ offs \in Nat /\ consumed \in Nat
  OBVIOUS
<1>1. stream \in Seq(0 .. 255)
  BY StreamBytes DEF TypeOK
<1>2. QED
  BY <1>1 DEF TypeOK

(* A returned frame makes the sequence of frames another one.              *)
LEMMA Longer == TypeOK => \A e : Append(frames, e) # frames
<1> SUFFICES ASSUME TypeOK, NEW e PROVE Append(frames, e) # frames
  OBVIOUS
<1>1. frames \in Seq(Seq(0 .. 255))
  BY DEF TypeOK
<1>2. Len(frames) \in Nat /\ Len(Append(frames, e)) = Len(frames) + 1
  BY <1>1
<1>3. QED
  BY <1>2

-----------------------------------------------------------------------------
(* What the automata make of a byte                                        *)

SameFrame(c, t) ==
  /\ t.bytes = c.bytes /\ t.code_start = c.code_start /\ t.code_end = c.code_end
  /\ t.got_start = c.got_start /\ t.got_end = c.got_end /\ t.seek_end = c.seek_end

(* A header or a picture was found: its start code is two to five bytes    *)
(* long.                                                                   *)
TagFound(c, t) ==
  /\ t.state = "no_code" /\ t.tmp_code_start \in Nat /\ consumed - t.tmp_code_start \in 2 .. 5
  /\ \/ Counts(t, c.headers_count + 1, c.main_count)
     \/ Counts(t, c.headers_count, c.main_count + 1)

NoTag(c, t) == Counts(t, c.headers_count, c.main_count) /\ InCode(t, consumed + 1)

ByteRead(c, t) == t \in Contexts /\ SameFrame(c, t) /\ (NoTag(c, t) \/ TagFound(c, t))

(* What the steps of the automata are made of, field by field              *)
LEMMA GotoKeeps ==
  ASSUME NEW c \in Contexts, NEW s \in States
  PROVE  /\ Goto(c, s) \in Contexts /\ SameFrame(c, Goto(c, s))
         /\ Counts(Goto(c, s), c.headers_count, c.main_count)
         /\ Goto(c, s).state = s /\ Goto(c, s).tmp_code_start = c.tmp_code_start
  BY DEF Goto, SameFrame, Counts, Contexts

(* A zero may begin a start code: 0x1 is the state after it.               *)
LEMMA CodeStarts ==
  ASSUME NEW c \in Contexts, consumed \in Nat
  PROVE  /\ CodeMayStart(c) \in Contexts /\ SameFrame(c, CodeMayStart(c))
         /\ Counts(CodeMayStart(c), c.headers_count, c.main_count)
         /\ CodeMayStart(c).state = "0x1" /\ CodeMayStart(c).tmp_code_start = consumed
<1>1. "0x1" \in States /\ consumed \in Int
  BY DEF States
<1>2. QED
  BY <1>1 DEF CodeMayStart, SameFrame, Counts, Contexts

(* One more zero than a start code has moves its beginning on.             *)
LEMMA ZeroKeeps ==
  ASSUME NEW c \in Contexts
  PROVE  /\ OneMoreZero(c) \in Contexts /\ SameFrame(c, OneMoreZero(c))
         /\ Counts(OneMoreZero(c), c.headers_count, c.main_count)
         /\ OneMoreZero(c).state = c.state /\ OneMoreZero(c).tmp_code_start = c.tmp_code_start + 1
<1>1. c.tmp_code_start + 1 \in Int
  BY DEF Contexts
<1>2. QED
  BY <1>1 DEF OneMoreZero, SameFrame, Counts, Contexts

(* A header counts as one.                                                 *)
LEMMA HeaderFound ==
  ASSUME NEW c \in Contexts
  PROVE  /\ Header(c) \in Contexts /\ SameFrame(c, Header(c))
         /\ Counts(Header(c), c.headers_count + 1, c.main_count)
         /\ Header(c).state = "no_code" /\ Header(c).tmp_code_start = c.tmp_code_start
<1>1. c.headers_count + 1 \in Nat /\ "no_code" \in States
  BY DEF Contexts, States
<1>2. QED
  BY <1>1 DEF Header, SameFrame, Counts, Contexts

(* So does a picture.                                                      *)
LEMMA PictureTag ==
  ASSUME NEW c \in Contexts
  PROVE  /\ Picture(c) \in Contexts /\ SameFrame(c, Picture(c))
         /\ Counts(Picture(c), c.headers_count, c.main_count + 1)
         /\ Picture(c).state = "no_code" /\ Picture(c).tmp_code_start = c.tmp_code_start
<1>1. c.main_count + 1 \in Nat /\ "no_code" \in States
  BY DEF Contexts, States
<1>2. QED
  BY <1>1 DEF Picture, SameFrame, Counts, Contexts

(* Where the automata go                                                   *)
LEMMA GoneOn ==
  ASSUME NEW c \in Contexts, NEW s \in States, consumed \in Nat,
         InCode(c, consumed), c.state # "no_code",
         \/ s = "no_code"
         \/ c.state = "0x1" /\ s = "0x2"
         \/ c.state = "0x2" /\ s \in {"0x3", "1x1"} /\ (s = "0x3" => codec = "h264")
         \/ c.state = "0x3" /\ s = "1x1"
         \/ c.state = "1x1" /\ s = "slice" /\ codec = "h264"
  PROVE  ByteRead(c, Goto(c, s))
<1> DEFINE t == Goto(c, s)
<1>1. /\ t \in Contexts /\ SameFrame(c, t) /\ Counts(t, c.headers_count, c.main_count)
      /\ t.state = s /\ t.tmp_code_start = c.tmp_code_start
  BY GotoKeeps
<1>2. StartCode(c, consumed)
  BY DEF InCode
<1> HIDE DEF t
<1>3. s = "no_code" \/ StartCode(t, consumed + 1)
  BY <1>1, <1>2 DEF StartCode
<1>4. NoTag(c, t)
  BY <1>1, <1>3 DEF NoTag, InCode
<1>5. QED
  BY <1>1, <1>4 DEF ByteRead, t

(* A tag is found behind a whole start code.                               *)
LEMMA TagRead ==
  ASSUME NEW c \in Contexts, consumed \in Nat, InCode(c, consumed),
         c.state \in {"1x1", "slice"} \/ (c.state = "0x2" /\ codec # "h264")
  PROVE  ByteRead(c, Header(c)) /\ ByteRead(c, Picture(c))
<1>1. c.tmp_code_start \in Nat /\ consumed - c.tmp_code_start \in 2 .. 5
  BY DEF InCode, StartCode
<1>2. TagFound(c, Header(c)) /\ TagFound(c, Picture(c))
  BY <1>1, HeaderFound, PictureTag DEF TagFound
<1>3. QED
  BY <1>2, HeaderFound, PictureTag DEF ByteRead

(* Where zeros are skipped the distance stays the same.                    *)
LEMMA ZerosRead ==
  ASSUME NEW c \in Contexts, consumed \in Nat, InCode(c, consumed),
         \/ c.state = "0x2" /\ codec # "h264"
         \/ c.state = "0x3"
  PROVE  ByteRead(c, OneMoreZero(c))
<1> DEFINE t == OneMoreZero(c)
<1>1. /\ t \in Contexts /\ SameFrame(c, t) /\ Counts(t, c.headers_count, c.main_count)
      /\ t.state = c.state /\ t.tmp_code_start = c.tmp_code_start + 1
  BY ZeroKeeps
<1>2. StartCode(c, consumed)
  BY DEF InCode
<1> HIDE DEF t
<1>3. StartCode(t, consumed + 1)
  BY <1>1, <1>2 DEF StartCode
<1>4. QED
  BY <1>1, <1>3 DEF ByteRead, NoTag, InCode, t

(* Outside a start code only a zero changes the state.                     *)
LEMMA OutsideCode ==
  ASSUME NEW c \in Contexts, NEW b, consumed \in Nat, c.state = "no_code"
  PROVE  ByteRead(c, IF b = 0 THEN CodeMayStart(c) ELSE c)
<1>1. ByteRead(c, c)
  BY DEF ByteRead, SameFrame, NoTag, Counts, InCode
<1>2. StartCode(CodeMayStart(c), consumed + 1)
  BY CodeStarts DEF StartCode
<1>3. ByteRead(c, CodeMayStart(c))
  BY <1>2, CodeStarts DEF ByteRead, NoTag, InCode
<1>4. QED
  BY <1>1, <1>3

(* Each automaton keeps the distance to the start code, and finds a tag    *)
(* only in one.                                                            *)
LEMMA H264ByteRead ==
  ASSUME codec = "h264", NEW c \in Contexts, NEW b \in 0 .. 255, consumed \in Nat, InCode(c, consumed)
  PROVE  ByteRead(c, H264Byte(c, b))
<1>0. c.state \in States /\ States = {"no_code", "0x1", "0x2", "0x3", "1x1", "slice"}
  BY DEF Contexts, States
<1>1. CASE c.state = "no_code"
  BY <1>1, OutsideCode DEF H264Byte
<1>2. CASE c.state = "0x1"
  <2>1. ByteRead(c, Goto(c, IF b = 0 THEN "0x2" ELSE "no_code"))
    BY <1>0, <1>2, GoneOn
  <2>2. QED
    BY <1>2, <2>1 DEF H264Byte
<1>3. CASE c.state = "0x2"
  <2>1. ByteRead(c, Goto(c, IF b = 1 THEN "1x1" ELSE IF b = 0 THEN "0x3" ELSE "no_code"))
    BY <1>0, <1>3, GoneOn
  <2>2. QED
    BY <1>3, <2>1 DEF H264Byte
<1>4. CASE c.state = "0x3"
  <2>1. ByteRead(c, OneMoreZero(c))
    BY <1>4, ZerosRead
  <2>2. ByteRead(c, Goto(c, IF b = 1 THEN "1x1" ELSE "no_code"))
    BY <1>0, <1>4, GoneOn
  <2>3. QED
    BY <1>4, <2>1, <2>2 DEF H264Byte
<1>5. CASE c.state = "1x1"
  <2>1. ByteRead(c, Header(c))
    BY <1>5, TagRead
  <2>2. ByteRead(c, Goto(c, IF b % 32 \in {1, 5} THEN "slice" ELSE "no_code"))
    BY <1>0, <1>5, GoneOn
  <2>3. QED
    BY <1>5, <2>1, <2>2 DEF H264Byte
<1>6. CASE c.state = "slice"
  <2>1. ByteRead(c, Picture(c))
    BY <1>6, TagRead
  <2>2. ByteRead(c, Goto(c, "no_code"))
    BY <1>0, <1>6, GoneOn
  <2>3. QED
    BY <1>6, <2>1, <2>2 DEF H264Byte
<1>7. QED
  BY <1>0, <1>1, <1>2, <1>3, <1>4, <1>5, <1>6

(* The automaton of parse_mpeg2_stream does the same.                      *)
LEMMA Mpeg2ByteRead ==
  ASSUME codec = "mpeg2", NEW c \in Contexts, NEW b \in 0 .. 255, consumed \in Nat, InCode(c, consumed)
  PROVE  ByteRead(c, Mpeg2Byte(c, b))
<1>0. /\ c.state \in {"no_code", "0x1", "0x2", "1x1"}
      /\ States = {"no_code", "0x1", "0x2", "0x3", "1x1", "slice"}
  BY DEF InCode, StartCode, States
<1>1. CASE c.state = "no_code"
  BY <1>1, OutsideCode DEF Mpeg2Byte
<1>2. CASE c.state = "0x1"
  <2>1. ByteRead(c, Goto(c, IF b = 0 THEN "0x2" ELSE "no_code"))
    BY <1>0, <1>2, GoneOn
  <2>2. QED
    BY <1>2, <2>1 DEF Mpeg2Byte
<1>3. CASE c.state = "0x2"
  <2>1. ByteRead(c, OneMoreZero(c))
    BY <1>3, ZerosRead
  <2>2. ByteRead(c, Goto(c, IF b = 1 THEN "1x1" ELSE "no_code"))
    BY <1>0, <1>3, GoneOn
  <2>3. QED
    BY <1>3, <2>1, <2>2 DEF Mpeg2Byte
<1>4. CASE c.state = "1x1"
  <2>1. ByteRead(c, Header(c)) /\ ByteRead(c, Picture(c))
    BY <1>4, TagRead
  <2>2. ByteRead(c, Goto(c, "no_code"))
    BY <1>0, <1>4, GoneOn
  <2>3. QED
    BY <1>4, <2>1, <2>2 DEF Mpeg2Byte
<1>5. QED
  BY <1>0, <1>1, <1>2, <1>3, <1>4

(* The automaton of parse_mpeg4_stream does the same, a short header       *)
(* included.                                                               *)
LEMMA Mpeg4ByteRead ==
  ASSUME codec \in {"mpeg4", "h263"},
         NEW c \in Contexts, NEW b \in 0 .. 255, consumed \in Nat, InCode(c, consumed)
  PROVE  ByteRead(c, Mpeg4Byte(c, b))
<1>0. /\ c.state \in {"no_code", "0x1", "0x2", "1x1"}
      /\ States = {"no_code", "0x1", "0x2", "0x3", "1x1", "slice"}
  BY DEF InCode, StartCode, States
<1>1. CASE c.state = "no_code"
  BY <1>1, OutsideCode DEF Mpeg4Byte
<1>2. CASE c.state = "0x1"
  <2>1. ByteRead(c, Goto(c, IF b = 0 THEN "0x2" ELSE "no_code"))
    BY <1>0, <1>2, GoneOn
  <2>2. QED
    BY <1>2, <2>1 DEF Mpeg4Byte
<1>3. CASE c.state = "0x2"
  <2>1. ByteRead(c, ShortHeader(c))
    <3>1. ByteRead(c, Header(c)) /\ ByteRead(c, Picture(c))
      BY <1>3, TagRead
    <3>2. \A t : ByteRead(c, t) => ByteRead(c, [t EXCEPT !.short_header = TRUE])
      <4> TAKE t
      <4> HAVE ByteRead(c, t)
      <4> DEFINE h == [t EXCEPT !.short_header = TRUE]
      <4>1. t \in Contexts
        BY DEF ByteRead
      <4>2. /\ h \in Contexts /\ SameFrame(t, h) /\ h.state = t.state
            /\ h.tmp_code_start = t.tmp_code_start
            /\ h.headers_count = t.headers_count /\ h.main_count = t.main_count
        BY <4>1 DEF Contexts, SameFrame
      <4> HIDE DEF h
      <4>3. ByteRead(c, h)
        BY <4>2 DEF ByteRead, SameFrame, NoTag, TagFound, Counts, InCode, StartCode
      <4>4. QED
        BY <4>3 DEF h
    <3>3. ByteRead(c, Goto(c, "no_code"))
      BY <1>0, <1>3, GoneOn
    <3>4. QED
      BY <3>1, <3>2, <3>3 DEF ShortHeader
  <2>2. ByteRead(c, OneMoreZero(c))
    BY <1>3, ZerosRead
  <2>3. ByteRead(c, Goto(c, IF b = 1 THEN "1x1" ELSE "no_code"))
    BY <1>0, <1>3, GoneOn
  <2>4. QED
    BY <1>3, <2>1, <2>2, <2>3 DEF Mpeg4Byte
<1>4. CASE c.state = "1x1"
  <2>1. ByteRead(c, Header(c)) /\ ByteRead(c, Picture(c))
    BY <1>4, TagRead
  <2>2. ByteRead(c, Goto(c, "no_code"))
    BY <1>0, <1>4, GoneOn
  <2>3. QED
    BY <1>4, <2>1, <2>2 DEF Mpeg4Byte
<1>5. QED
  BY <1>0, <1>1, <1>2, <1>3, <1>4

(* Whichever codec it is                                                   *)
LEMMA ParserByteRead ==
  ASSUME codec \in {"h264", "mpeg2", "mpeg4", "h263"},
         NEW c \in Contexts, NEW b \in 0 .. 255, consumed \in Nat, InCode(c, consumed)
  PROVE  ByteRead(c, ParserByte(c, b))
<1>1. CASE codec = "h264"
  BY <1>1, H264ByteRead DEF ParserByte
<1>2. CASE codec = "mpeg2"
  BY <1>2, Mpeg2ByteRead DEF ParserByte
<1>3. CASE codec \in {"mpeg4", "h263"}
  BY <1>3, Mpeg4ByteRead DEF ParserByte
<1>4. QED
  BY <1>1, <1>2, <1>3

-----------------------------------------------------------------------------
(* What a byte makes of the frame                                          *)

(* What the context of a frame takes over from a byte that was read        *)
Carried(c, s, f) ==
  /\ f \in Contexts /\ f.state = s.state /\ f.tmp_code_start = s.tmp_code_start
  /\ f.bytes = c.bytes /\ f.code_end = c.code_end
  /\ c.got_start => f.got_start
  /\ IF c.got_start THEN f.code_start = c.code_start
     ELSE f.code_start \in {c.code_start, s.tmp_code_start}

(* Looking for the end of a frame: the counters start from zero.           *)
LEMMA SeekEndKeeps ==
  ASSUME NEW s \in Contexts
  PROVE  /\ SeekEnd(s) \in Contexts /\ Counts(SeekEnd(s), 0, 0) /\ SeekEnd(s).seek_end
         /\ SeekEnd(s).got_start = s.got_start /\ SeekEnd(s).got_end = s.got_end
         /\ SeekEnd(s).state = s.state /\ SeekEnd(s).tmp_code_start = s.tmp_code_start
         /\ SeekEnd(s).bytes = s.bytes /\ SeekEnd(s).code_end = s.code_end
         /\ SeekEnd(s).code_start = s.code_start
  BY DEF SeekEnd, Contexts, Counts

(* Without a tag the frame is as before.                                   *)
LEMMA NothingFound ==
  ASSUME NEW c \in Contexts, NEW s \in Contexts, Counting(c), SameFrame(c, s), NoTag(c, s)
  PROVE  /\ PictureFound(FrameStarts(s)) = s /\ ~HeaderEnds(s) /\ ~FrameEnds(s)
         /\ Counting(s) /\ Carried(c, s, s)
<1>1. /\ s.headers_count = c.headers_count /\ s.main_count = c.main_count
      /\ s.headers_count \in Nat /\ s.main_count \in Nat
      /\ s.got_start = c.got_start /\ s.got_end = c.got_end /\ s.seek_end = c.seek_end
  BY DEF SameFrame, NoTag, Counts, Contexts
<1>2. s.main_count = 0 /\ (s.got_start \/ s.headers_count = 0) /\ (s.seek_end => s.headers_count = 0)
  BY <1>1 DEF Counting, Counts
<1>3. FrameStarts(s) = s
  BY <1>2 DEF FrameStarts, Counts
<1>4. PictureFound(s) = s
  BY <1>2 DEF PictureFound
<1>5. ~HeaderEnds(s) /\ ~FrameEnds(s)
  BY <1>2 DEF HeaderEnds, FrameEnds
<1>6. Counting(s)
  BY <1>1 DEF Counting, Counts
<1>7. Carried(c, s, s)
  BY DEF SameFrame, Carried
<1>8. QED
  BY <1>3, <1>4, <1>5, <1>6, <1>7

(* A tag begins a frame, is its picture, or ends it; only a frame that has *)
(* begun can end.                                                          *)
LEMMA TagMarked ==
  ASSUME NEW c \in Contexts, NEW s \in Contexts, Counting(c), SameFrame(c, s), TagFound(c, s),
         NEW f, f = PictureFound(FrameStarts(s))
  PROVE  /\ Carried(c, s, f)
         /\ HeaderEnds(s) => s.got_start /\ c.got_start
         /\ FrameEnds(f) => f.got_start /\ c.got_start
         /\ ~FrameEnds(f) => Counting(f)
<1>1. /\ s.headers_count \in Nat /\ s.main_count \in Nat
      /\ c.headers_count \in Nat /\ c.main_count \in Nat
      /\ s.got_start = c.got_start /\ s.got_end = FALSE /\ s.seek_end = c.seek_end
      /\ s.bytes = c.bytes /\ s.code_start = c.code_start /\ s.code_end = c.code_end
      /\ \/ s.headers_count = c.headers_count + 1 /\ s.main_count = c.main_count
         \/ s.headers_count = c.headers_count /\ s.main_count = c.main_count + 1
      /\ s.seek_end \in BOOLEAN /\ s.got_start \in BOOLEAN
  BY DEF SameFrame, TagFound, Counts, Counting, Contexts
<1>2. HeaderEnds(s) => c.got_start
  BY <1>1 DEF HeaderEnds, Counting, Counts
<1>3. CASE ~c.got_start
  <2> DEFINE g == [s EXCEPT !.got_start = TRUE, !.code_start = s.tmp_code_start]
  <2>1. /\ g \in Contexts /\ g.got_start /\ g.code_start = s.tmp_code_start
        /\ g.got_end = s.got_end /\ g.seek_end = s.seek_end /\ g.state = s.state
        /\ g.tmp_code_start = s.tmp_code_start /\ g.bytes = s.bytes /\ g.code_end = s.code_end
        /\ g.headers_count = s.headers_count /\ g.main_count = s.main_count
    BY DEF Contexts
  <2>2. /\ ~s.got_start /\ ~s.seek_end
        /\ \/ s.headers_count = 1 /\ s.main_count = 0
           \/ s.headers_count = 0 /\ s.main_count = 1
    BY <1>1, <1>3 DEF Counting, Counts
  <2>3. FrameStarts(s) = IF Counts(s, 0, 1) THEN SeekEnd(g) ELSE g
    BY <2>2 DEF FrameStarts, Counts
  <2> HIDE DEF g
  <2>4. f = IF Counts(s, 0, 1) THEN SeekEnd(g) ELSE g
    <3>1. PictureFound(SeekEnd(g)) = SeekEnd(g)
      BY <2>1, SeekEndKeeps DEF PictureFound
    <3>2. ~Counts(s, 0, 1) => PictureFound(g) = g
      BY <2>1, <2>2 DEF PictureFound, Counts
    <3>3. QED
      BY <2>3, <3>1, <3>2
  <2>5. CASE Counts(s, 0, 1)
    <3>1. f = SeekEnd(g) /\ Counts(f, 0, 0) /\ f.seek_end /\ f.got_start /\ ~f.got_end
      BY <1>1, <2>1, <2>4, <2>5, SeekEndKeeps
    <3>2. ~FrameEnds(f) /\ Counting(f)
      BY <3>1 DEF FrameEnds, Counting, Counts
    <3>3. Carried(c, s, f)
      BY <1>1, <1>3, <2>1, <3>1, SeekEndKeeps DEF Carried
    <3>4. QED
      BY <1>2, <1>3, <3>2, <3>3
  <2>6. CASE ~Counts(s, 0, 1)
    <3>1. f = g /\ f.headers_count = 1 /\ f.main_count = 0 /\ ~f.seek_end /\ f.got_start /\ ~f.got_end
      BY <1>1, <2>1, <2>2, <2>4, <2>6 DEF Counts
    <3>2. ~FrameEnds(f) /\ Counting(f)
      BY <3>1 DEF FrameEnds, Counting, Counts
    <3>3. Carried(c, s, f)
      BY <1>1, <1>3, <2>1, <3>1 DEF Carried
    <3>4. QED
      BY <1>2, <1>3, <3>2, <3>3
  <2>7. QED
    BY <2>5, <2>6
<1>4. CASE c.got_start /\ c.seek_end
  <2>1. FrameStarts(s) = s /\ PictureFound(s) = s
    BY <1>1, <1>4 DEF FrameStarts, PictureFound
  <2>2. FrameEnds(s)
    BY <1>1, <1>4 DEF FrameEnds
  <2>3. Carried(c, s, s)
    BY <1>1, <1>4 DEF Carried
  <2>4. QED
    BY <1>1, <1>4, <2>1, <2>2, <2>3
<1>5. CASE c.got_start /\ ~c.seek_end
  <2>1. FrameStarts(s) = s /\ ~s.seek_end /\ s.headers_count > 0 /\ s.main_count \in {0, 1}
    BY <1>1, <1>5 DEF FrameStarts, Counting
  <2>2. CASE s.main_count = 1
    <3>1. f = SeekEnd(s)
      BY <2>1, <2>2 DEF PictureFound
    <3>2. Counts(f, 0, 0) /\ f.seek_end /\ f.got_start /\ ~f.got_end
      BY <1>1, <1>5, <3>1, SeekEndKeeps
    <3>3. ~FrameEnds(f) /\ Counting(f)
      BY <3>2 DEF FrameEnds, Counting, Counts
    <3>4. Carried(c, s, f)
      BY <1>1, <1>5, <3>1, SeekEndKeeps DEF Carried
    <3>5. QED
      BY <1>1, <1>5, <3>3, <3>4
  <2>3. CASE s.main_count = 0
    <3>1. f = s
      BY <2>1, <2>3 DEF PictureFound
    <3>2. ~FrameEnds(s) /\ Counting(s)
      BY <1>1, <1>5, <2>1, <2>3 DEF FrameEnds, Counting
    <3>3. Carried(c, s, s)
      BY <1>1, <1>5 DEF Carried
    <3>4. QED
      BY <1>1, <1>5, <3>1, <3>2, <3>3
  <2>4. QED
    BY <2>1, <2>2, <2>3
<1>6. QED
  BY <1>3, <1>4, <1>5

-----------------------------------------------------------------------------
(* The scan of a call                                                      *)

(* The frame in the making begins where it began until it is returned.     *)
BeginKept == frames' = frames /\ (ctx.got_start => Begin' = Begin)

(* What is known of the context after the next byte                        *)
LEMMA ByteScanned ==
  ASSUME ParserInv, pc = "scan", More, codec \in {"h264", "mpeg2", "mpeg4", "h263"}
  PROVE  /\ ctx \in Contexts /\ Counting(ctx) /\ consumed \in Nat /\ SavedHere
         /\ Scanned \in Contexts /\ SameFrame(ctx, Scanned)
         /\ NoTag(ctx, Scanned) \/ TagFound(ctx, Scanned)
<1>1. ctx \in Contexts /\ consumed \in Nat /\ offs \in Nat /\ stream \in Seq(0 .. 255) /\ Parsing
  BY ParserBytes DEF ParserInv, TypeOK
<1>2. Counting(ctx) /\ InCode(ctx, consumed) /\ SavedHere
  BY <1>1 DEF Parsing
<1>3. offs + consumed + 1 \in DOMAIN stream
  BY <1>1 DEF More
<1>4. stream[offs + consumed + 1] \in 0 .. 255
  <2>1. \A S, i : \A q \in Seq(S) : i \in DOMAIN q => q[i] \in S
    OBVIOUS
  <2>2. QED
    BY <1>1, <1>3, <2>1
<1>5. ByteRead(ctx, Scanned)
  BY <1>1, <1>2, <1>4, ParserByteRead DEF Scanned
<1>6. QED
  BY <1>1, <1>2, <1>5 DEF ByteRead

(* A byte that does not end a frame keeps the invariant.                   *)
LEMMA NextByteKeeps ==
  ASSUME ParserInv, codec \in {"h264", "mpeg2", "mpeg4", "h263"}, NextByte
  PROVE  ParserInv' /\ BeginKept
<1> DEFINE f == ctx'
<1>1. /\ pc = "scan" /\ More /\ ~FrameEnds(InFrame) /\ f = InFrame /\ consumed' = consumed + 1
      /\ UNCHANGED <<codec, units, stream, offs, get_head, pc, frames>>
  BY DEF NextByte
<1>2. /\ ctx \in Contexts /\ Counting(ctx) /\ consumed \in Nat /\ SavedHere
      /\ Scanned \in Contexts /\ SameFrame(ctx, Scanned)
      /\ NoTag(ctx, Scanned) \/ TagFound(ctx, Scanned)
  BY <1>1, ByteScanned
<1>3. /\ f \in Contexts /\ Counting(f) /\ InCode(f, consumed + 1) /\ f.bytes = ctx.bytes
      /\ f.code_start = ctx.code_start \/ (f.code_start \in Nat /\ ~ctx.got_start)
      /\ ctx.got_start => f.got_start
  <2>1. CASE NoTag(ctx, Scanned)
    <3>1. f = Scanned /\ Counting(f) /\ Carried(ctx, Scanned, f)
      BY <1>1, <1>2, <2>1, NothingFound DEF InFrame
    <3>2. QED
      BY <1>2, <2>1, <3>1 DEF NoTag, SameFrame
  <2>2. CASE TagFound(ctx, Scanned)
    <3>1. Carried(ctx, Scanned, f) /\ Counting(f)
      BY <1>1, <1>2, <2>2, TagMarked DEF InFrame
    <3>2. Scanned.state = "no_code" /\ Scanned.tmp_code_start \in Nat
      BY <2>2 DEF TagFound
    <3>3. QED
      BY <3>1, <3>2 DEF Carried, InCode
  <2>3. QED
    BY <1>2, <2>1, <2>2
<1> HIDE DEF f
<1>4. f.code_start \in Int /\ ctx.code_start \in Int /\ f.bytes \in Seq(0 .. 255) /\ Len(f.bytes) \in Nat
  BY <1>2, <1>3 DEF Contexts
<1>5. TypeOK'
  <2>1. offs \in Nat /\ consumed + 1 \in 0 .. Len(stream) - offs /\ Len(stream) \in Nat
    BY <1>1, ParserBytes DEF ParserInv, TypeOK, More
  <2>2. -f.code_start <= Len(f.bytes)
    BY <1>3, <1>4 DEF ParserInv, TypeOK
  <2>3. QED
    BY <1>1, <1>3, <2>1, <2>2 DEF ParserInv, TypeOK, f
<1>6. SavedHere'
  BY <1>1, <1>2, <1>3, <1>4 DEF SavedHere, Begin, f
<1>7. Parsing'
  <2>1. ~f.got_end
    BY <1>3 DEF Counting
  <2>2. Counting(ctx)' /\ InCode(ctx, consumed)'
    BY <1>1, <1>3 DEF Counting, Counts, InCode, StartCode, f
  <2>3. QED
    BY <1>1, <1>6, <2>1, <2>2 DEF Parsing, f
<1>8. BeginKept
  BY <1>1, <1>3 DEF BeginKept, Begin, f
<1>9. QED
  BY <1>5, <1>7, <1>8 DEF ParserInv

(* The end of a frame, found with its tag at the byte that is read         *)
LEMMA EndKeeps ==
  ASSUME ParserInv, pc = "scan", More, pc' = "return",
         UNCHANGED <<codec, units, stream, offs, consumed, get_head, frames>>,
         ctx' \in Contexts, ctx'.got_start, ctx'.got_end, ctx'.state = "no_code",
         ctx'.code_end \in Nat, consumed - ctx'.code_end \in 2 .. 5,
         ctx'.bytes = ctx.bytes, ctx'.code_start = ctx.code_start
  PROVE  ParserInv' /\ BeginKept
<1>1. consumed \in Nat /\ SavedHere
  BY ParserBytes DEF ParserInv, TypeOK, Parsing
<1>2. TypeOK'
  BY <1>1 DEF ParserInv, TypeOK
<1>3. EndMarked'
  BY <1>1 DEF EndMarked
<1>4. SavedHere'
  BY <1>1 DEF SavedHere, Begin
<1>5. Parsing'
  BY <1>3, <1>4 DEF Parsing
<1>6. BeginKept
  BY DEF BeginKept, Begin
<1>7. QED
  BY <1>2, <1>5, <1>6 DEF ParserInv

(* Where a frame ends is written into its context.                         *)
EndsThere(s, t) ==
  /\ t \in Contexts /\ t.got_start = s.got_start /\ t.got_end /\ t.state = s.state
  /\ t.code_end = s.tmp_code_start /\ t.bytes = s.bytes /\ t.code_start = s.code_start

(* Both ways of ending a frame do it.                                      *)
LEMMA EndWritten ==
  ASSUME NEW s \in Contexts, NEW h \in BOOLEAN
  PROVE  EndsThere(s, EndAt(s)) /\ EndsThere(s, [EndAt(s) EXCEPT !.seek_end = h])
<1>1. EndsThere(s, EndAt(s))
  BY DEF EndsThere, EndAt, Contexts
<1> DEFINE t == EndAt(s)
<1>2. t \in Contexts
  BY <1>1 DEF EndsThere
<1> HIDE DEF t
<1>3. EndsThere(s, t) => EndsThere(s, [t EXCEPT !.seek_end = h])
  BY <1>2 DEF EndsThere, Contexts
<1>4. QED
  BY <1>1, <1>3 DEF t

(* The header ends at the first picture.                                   *)
LEMMA HeaderEndKeeps ==
  ASSUME ParserInv, codec \in {"h264", "mpeg2", "mpeg4", "h263"}, HeaderEnd
  PROVE  ParserInv' /\ BeginKept
<1> DEFINE s == Scanned
<1>1. /\ pc = "scan" /\ More /\ HeaderEnds(s) /\ ctx' = EndAt(s) /\ pc' = "return"
      /\ UNCHANGED <<codec, units, stream, offs, consumed, get_head, frames>>
  BY DEF HeaderEnd
<1>2. /\ ctx \in Contexts /\ Counting(ctx) /\ consumed \in Nat
      /\ s \in Contexts /\ SameFrame(ctx, s)
      /\ NoTag(ctx, s) \/ TagFound(ctx, s)
  BY <1>1, ByteScanned
<1> HIDE DEF s
<1>3. TagFound(ctx, s)
  BY <1>1, <1>2, NothingFound
<1>4. s.got_start
  BY <1>1, <1>2, <1>3, TagMarked
<1>5. s.state = "no_code" /\ s.tmp_code_start \in Nat /\ consumed - s.tmp_code_start \in 2 .. 5
  BY <1>3 DEF TagFound
<1>6. /\ ctx' \in Contexts /\ ctx'.got_start = s.got_start /\ ctx'.got_end /\ ctx'.state = s.state
      /\ ctx'.code_end = s.tmp_code_start /\ ctx'.bytes = s.bytes /\ ctx'.code_start = s.code_start
  BY <1>1, <1>2, EndWritten DEF EndsThere
<1>7. s.bytes = ctx.bytes /\ s.code_start = ctx.code_start
  BY <1>2 DEF SameFrame
<1>8. QED
  BY <1>1, <1>4, <1>5, <1>6, <1>7, EndKeeps

(* A frame ends at the next tag after its picture.                         *)
LEMMA FrameEndKeeps ==
  ASSUME ParserInv, codec \in {"h264", "mpeg2", "mpeg4", "h263"}, FrameEnd
  PROVE  ParserInv' /\ BeginKept
<1> DEFINE s == Scanned
           f == InFrame
<1>1. /\ pc = "scan" /\ More /\ FrameEnds(f) /\ pc' = "return"
      /\ ctx' = [EndAt(f) EXCEPT !.seek_end = (f.headers_count = 0)]
      /\ UNCHANGED <<codec, units, stream, offs, consumed, get_head, frames>>
  BY DEF FrameEnd
<1>2. /\ ctx \in Contexts /\ Counting(ctx) /\ consumed \in Nat
      /\ s \in Contexts /\ SameFrame(ctx, s)
      /\ NoTag(ctx, s) \/ TagFound(ctx, s)
  BY <1>1, ByteScanned
<1>3. f = PictureFound(FrameStarts(s))
  BY DEF InFrame
<1> HIDE DEF s, f
<1>4. TagFound(ctx, s)
  BY <1>1, <1>2, <1>3, NothingFound
<1>5. Carried(ctx, s, f) /\ f.got_start /\ ctx.got_start
  BY <1>1, <1>2, <1>3, <1>4, TagMarked
<1>6. s.state = "no_code" /\ s.tmp_code_start \in Nat /\ consumed - s.tmp_code_start \in 2 .. 5
  BY <1>4 DEF TagFound
<1>7. /\ f \in Contexts /\ f.state = s.state /\ f.tmp_code_start = s.tmp_code_start
      /\ f.bytes = ctx.bytes /\ f.code_start = ctx.code_start
  BY <1>5 DEF Carried
<1>8. /\ ctx' \in Contexts /\ ctx'.got_start = f.got_start /\ ctx'.got_end /\ ctx'.state = f.state
      /\ ctx'.code_end = f.tmp_code_start /\ ctx'.bytes = f.bytes /\ ctx'.code_start = f.code_start
  <2>1. (f.headers_count = 0) \in BOOLEAN
    OBVIOUS
  <2>2. EndsThere(f, ctx')
    BY <1>1, <1>7, <2>1, EndWritten
  <2>3. QED
    BY <2>2 DEF EndsThere
<1>9. QED
  BY <1>1, <1>5, <1>6, <1>7, <1>8, EndKeeps

(* The scan ends with the input.                                           *)
LEMMA InputEndKeeps == ParserInv /\ InputEnd => ParserInv' /\ BeginKept
<1> SUFFICES ASSUME ParserInv, InputEnd PROVE ParserInv' /\ BeginKept
  OBVIOUS
<1>1. /\ pc = "scan" /\ ~More /\ pc' = "return" /\ Parsing
      /\ UNCHANGED <<codec, units, stream, offs, consumed, get_head, ctx, frames>>
  BY DEF ParserInv, InputEnd
<1>2. ~ctx.got_end /\ SavedHere /\ Counting(ctx)
  BY <1>1 DEF Parsing
<1>3. TypeOK'
  BY <1>1, <1>2 DEF ParserInv, TypeOK
<1>4. Parsing'
  BY <1>1, <1>2 DEF Parsing, SavedHere, Begin, Counting, Counts, More
<1>5. QED
  BY <1>1, <1>3, <1>4 DEF ParserInv, BeginKept, Begin

(* So that a scan keeps the invariant, and the frame where it begins.      *)
LEMMA ScanKeeps ==
  ParserInv /\ (parse_h264_stream \/ parse_mpeg2_stream \/ parse_mpeg4_stream) => ParserInv' /\ BeginKept
  BY NextByteKeeps, HeaderEndKeeps, FrameEndKeeps, InputEndKeeps
     DEF parse_h264_stream, parse_mpeg2_stream, parse_mpeg4_stream, Scan

-----------------------------------------------------------------------------
(* The return from a call                                                  *)

(* Where the frame ends that a call returns                                *)
End == offs + (IF ctx.got_end THEN ctx.code_end ELSE consumed)

(* What is known when a call returns                                       *)
LEMMA ReturnTypes ==
  ASSUME ParserInv, pc = "return"
  PROVE  /\ stream \in Seq(0 .. 255) /\ Len(stream) \in Nat
         /\ offs \in Nat /\ consumed \in Nat /\ offs + consumed <= Len(stream)
         /\ ctx \in Contexts /\ ctx.code_start \in Int /\ Parsing
         /\ ctx.got_end => ctx.got_start /\ ctx.code_end \in Nat /\ ctx.code_end <= consumed
         /\ End \in Nat /\ offs <= End /\ End <= offs + consumed
<1>1. /\ stream \in Seq(0 .. 255) /\ offs \in Nat /\ consumed \in Nat /\ Parsing
  BY ParserBytes DEF ParserInv
<1>2. Len(stream) \in Nat /\ ctx \in Contexts /\ offs + consumed <= Len(stream)
  BY <1>1 DEF ParserInv, TypeOK
<1>3. ctx.code_start \in Int /\ ctx.got_end \in BOOLEAN
  BY <1>2 DEF Contexts
<1>4. ctx.got_end => ctx.got_start /\ ctx.code_end \in Nat /\ ctx.code_end <= consumed
  BY <1>1 DEF Parsing, EndMarked
<1>5. QED
  BY <1>1, <1>2, <1>3, <1>4 DEF End

(* The frame is the part of the stream from its beginning to its end, what *)
(* was saved of it included.                                               *)
LEMMA ExtractedFrame ==
  ASSUME ParserInv, pc = "return"
  PROVE  /\ Extracted \in Seq(0 .. 255)
         /\ ctx.got_start => Extracted = SubSeq(stream, Begin + 1, End)
<1> DEFINE B == 0 .. 255
<1>1. /\ stream \in Seq(B) /\ Len(stream) \in Nat
      /\ offs \in Nat /\ consumed \in Nat /\ offs + consumed <= Len(stream)
      /\ ctx.code_start \in Int /\ SavedHere
      /\ End \in Nat /\ offs <= End /\ End <= offs + consumed
  BY ReturnTypes DEF Parsing
<1> HIDE DEF B
<1>2. /\ ctx.got_start /\ ctx.code_start >= 0 =>
           FromThisCall = SubSeq(stream, Begin + 1, End) /\ Begin \in Nat
      /\ ctx.got_start /\ ctx.code_start < 0 => FromThisCall = SubSeq(stream, offs + 1, End)
      /\ ~ctx.got_start => FromThisCall = <<>>
  <2> DEFINE e == IF ctx.got_end THEN ctx.code_end ELSE consumed
  <2>1. End = offs + e
    BY DEF End
  <2>2. FromThisCall =
          IF ctx.got_start THEN In(IF ctx.code_start >= 0 THEN ctx.code_start ELSE 0, e) ELSE <<>>
    BY DEF FromThisCall
  <2> HIDE DEF e
  <2>3. CASE ctx.code_start >= 0
    <3>1. offs + ctx.code_start + 1 = Begin + 1 /\ Begin \in Nat
      BY <1>1, <2>3 DEF Begin
    <3>2. ctx.got_start => FromThisCall = In(ctx.code_start, e)
      BY <2>2, <2>3
    <3>3. In(ctx.code_start, e) = SubSeq(stream, Begin + 1, End)
      BY <2>1, <3>1 DEF In
    <3>4. ~(ctx.code_start < 0)
      BY <1>1, <2>3
    <3>5. QED
      BY <2>2, <3>1, <3>2, <3>3, <3>4
  <2>4. CASE ctx.code_start < 0
    <3>1. offs + 0 + 1 = offs + 1 /\ ~(ctx.code_start >= 0)
      BY <1>1, <2>4
    <3>2. QED
      BY <2>1, <2>2, <3>1 DEF In
  <2>5. QED
    BY <1>1, <2>3, <2>4
<1>3. \A m \in Nat : SubSeq(stream, m + 1, End) \in Seq(B)
  <2> TAKE m \in Nat
  <2>1. \A i \in m + 1 .. End : stream[i] \in B
    <3> TAKE i \in m + 1 .. End
    <3>1. i \in 1 .. Len(stream)
      BY <1>1
    <3>2. \A S : \A q \in Seq(S) : \A j \in 1 .. Len(q) : q[j] \in S
      OBVIOUS
    <3>3. QED
      BY <1>1, <3>1, <3>2
  <2>2. m + 1 \in Int /\ End \in Int
    BY <1>1
  <2>3. QED
    BY <2>1, <2>2, SubSeqProperties
<1>4. CASE ctx.code_start >= 0
  <2>1. Saved = <<>>
    BY <1>1, <1>4 DEF Saved
  <2>2. FromThisCall \in Seq(B)
    <3>1. CASE ctx.got_start
      <4>1. Begin \in Nat /\ FromThisCall = SubSeq(stream, Begin + 1, End)
        BY <1>2, <1>4, <3>1
      <4>2. QED
        BY <1>3, <4>1
    <3>2. CASE ~ctx.got_start
      <4>1. <<>> \in Seq(B)
        OBVIOUS
      <4>2. QED
        BY <1>2, <3>2, <4>1
    <3>3. QED
      BY <3>1, <3>2
  <2>3. Extracted = FromThisCall
    BY <2>1, <2>2 DEF Extracted
  <2>4. QED
    BY <1>2, <1>4, <2>2, <2>3 DEF B
<1>5. CASE ctx.code_start < 0
  <2> DEFINE m == Begin + 1
             b == ctx.bytes
  <2>1. ctx.got_start /\ Begin >= 0 /\ b = SubSeq(stream, m, offs)
    BY <1>5, <1>1 DEF SavedHere
  <2>2. /\ m \in 1 .. Len(stream) + 1 /\ offs \in m - 1 .. Len(stream) /\ End \in offs .. Len(stream)
        /\ m \in Int /\ offs \in Int /\ m <= offs /\ offs - m + 1 = -ctx.code_start
    BY <1>1, <1>5, <2>1, SMTT(30) DEF Begin
  <2> HIDE DEF m
  <2>3. SubSeq(stream, m, offs) \o SubSeq(stream, offs + 1, End) = SubSeq(stream, m, End)
    BY <1>1, <2>2, ConcatAdjacentSubSeq
  <2>4. b \in Seq(B) /\ Len(b) = -ctx.code_start
    <3>1. \A i \in m .. offs : stream[i] \in B
      <4> TAKE i \in m .. offs
      <4>1. i \in 1 .. Len(stream)
        BY <1>1, <2>2
      <4>2. \A S : \A q \in Seq(S) : \A j \in 1 .. Len(q) : q[j] \in S
        OBVIOUS
      <4>3. QED
        BY <1>1, <4>1, <4>2
    <3>2. SubSeq(stream, m, offs) \in Seq(B) /\ Len(SubSeq(stream, m, offs)) = offs - m + 1
      BY <2>2, <3>1, SubSeqProperties
    <3>3. QED
      BY <2>1, <2>2, <3>2
  <2> HIDE DEF b
  <2>5. Saved = b
    <3>1. Saved = SubSeq(b, 1, Len(b))
      BY <1>5, <2>4 DEF Saved, b
    <3>2. QED
      BY <2>4, <3>1, SubSeqFull
  <2>6. Extracted = SubSeq(stream, m, End)
    BY <1>2, <1>5, <2>1, <2>3, <2>5 DEF Extracted
  <2>7. SubSeq(stream, m, End) \in Seq(B)
    BY <1>3, <2>1 , <1>1, <1>5 DEF m, Begin
  <2>8. QED
    BY <2>6, <2>7 DEF m, B
<1>6. QED
  BY <1>1, <1>4, <1>5

(* How a context is got ready for the next call                            *)
Apart(s, n) ==
  /\ n \in Contexts /\ n.got_end = s.got_end /\ n.bytes = s.bytes /\ n.main_count = s.main_count
  /\ n.got_start = s.got_start /\ n.state = s.state /\ n.tmp_code_start = s.tmp_code_start

BeginsWithPicture(s)   == [s EXCEPT !.seek_end = TRUE, !.headers_count = 0]
BeginsWithHeader(s, h) == [s EXCEPT !.seek_end = FALSE, !.headers_count = 1, !.short_header = h]
GoesOn(s)              == [s EXCEPT !.code_start = 0]

(* The next frame begins with the picture that ended this one, ...         *)
LEMMA PictureNext ==
  ASSUME NEW s \in Contexts
  PROVE  /\ Apart(s, BeginsWithPicture(s)) /\ BeginsWithPicture(s).seek_end
         /\ BeginsWithPicture(s).headers_count = 0 /\ BeginsWithPicture(s).code_start = s.code_start
  BY DEF Apart, BeginsWithPicture, Contexts

(* ... or with a header, ...                                               *)
LEMMA HeaderNext ==
  ASSUME NEW s \in Contexts, NEW h \in BOOLEAN
  PROVE  /\ Apart(s, BeginsWithHeader(s, h)) /\ ~BeginsWithHeader(s, h).seek_end
         /\ BeginsWithHeader(s, h).headers_count = 1
         /\ BeginsWithHeader(s, h).code_start = s.code_start
  BY DEF Apart, BeginsWithHeader, Contexts

(* ... or this one goes on.                                                *)
LEMMA SameNext ==
  ASSUME NEW s \in Contexts
  PROVE  /\ Apart(s, GoesOn(s)) /\ GoesOn(s).seek_end = s.seek_end
         /\ GoesOn(s).headers_count = s.headers_count /\ GoesOn(s).code_start = 0
  BY DEF Apart, GoesOn, Contexts

(* What the context is for the next call                                   *)
LEMMA AfterCallKeeps ==
  ASSUME ParserInv, pc = "return", pc' \in {"scan", "failed"},
         ctx' = AfterCall, offs' = offs + consumed, consumed' = 0,
         UNCHANGED <<codec, units, stream>>,
         get_head' \in BOOLEAN, frames' \in Seq(Seq(0 .. 255))
  PROVE  ParserInv' /\ (ctx.got_start => Begin' = End)
<1> DEFINE c == ctx
           t == ctx'
<1>1. /\ stream \in Seq(0 .. 255) /\ Len(stream) \in Nat
      /\ offs \in Nat /\ consumed \in Nat /\ offs + consumed <= Len(stream)
      /\ c \in Contexts /\ c.code_start \in Int /\ Parsing
      /\ c.got_end => c.got_start /\ c.code_end \in Nat /\ c.code_end <= consumed
      /\ c.tmp_code_start - consumed \in Int
  BY ReturnTypes DEF Contexts
<1>2. CASE c.got_end
  <2> DEFINE n == NextFrame(ctx)
             saved == In(c.code_end, consumed)
             last == c.last_tag = "main"
  <2>1. t = [n EXCEPT !.tmp_code_start = @ - consumed]
    BY <1>1, <1>2 DEF AfterCall, FrameFinished
  <2>2. saved = SubSeq(stream, offs + c.code_end + 1, offs + consumed)
    BY DEF In
  <2>3. saved \in Seq(0 .. 255) /\ Len(saved) = consumed - c.code_end
    <3> DEFINE B == 0 .. 255
               m == offs + c.code_end + 1
               k == offs + consumed
    <3>1. m \in Int /\ k \in Int /\ 1 <= m /\ k <= Len(stream) /\ stream \in Seq(B)
          /\ (IF m <= k THEN k - m + 1 ELSE 0) = consumed - c.code_end
      BY <1>1, <1>2
    <3> HIDE DEF B, m, k
    <3>2. \A i \in m .. k : stream[i] \in B
      <4> TAKE i \in m .. k
      <4>1. i \in 1 .. Len(stream)
        BY <1>1, <3>1
      <4>2. \A S : \A q \in Seq(S) : \A j \in 1 .. Len(q) : q[j] \in S
        OBVIOUS
      <4>3. QED
        BY <3>1, <4>1, <4>2
    <3>3. SubSeq(stream, m, k) \in Seq(B) /\ Len(SubSeq(stream, m, k)) = IF m <= k THEN k - m + 1 ELSE 0
      BY <3>1, <3>2, SubSeqProperties
    <3>4. QED
      BY <2>2, <3>1, <3>3 DEF B, m, k
  <2> HIDE DEF saved
  <2>4. /\ n \in Contexts /\ n.code_start = c.code_end - consumed /\ ~n.got_end /\ n.bytes = saved
        /\ n.main_count = 0
        /\ IF last THEN n.seek_end /\ n.headers_count = 0 ELSE ~n.seek_end /\ n.headers_count = 1
        /\ n.got_start = c.got_start /\ n.state = c.state /\ n.tmp_code_start = c.tmp_code_start
    <3> DEFINE s == [c EXCEPT !.code_start = c.code_end - consumed, !.got_end = FALSE,
                              !.bytes = saved, !.main_count = 0]
    <3>1. /\ s \in Contexts /\ s.code_start = c.code_end - consumed /\ ~s.got_end /\ s.bytes = saved
          /\ s.main_count = 0 /\ s.got_start = c.got_start /\ s.state = c.state
          /\ s.tmp_code_start = c.tmp_code_start
      <4>1. c.code_end - consumed \in Int
        BY <1>1, <1>2
      <4>2. QED
        BY <1>1, <2>3, <4>1 DEF Contexts
    <3>2. n = IF last THEN [s EXCEPT !.seek_end = TRUE, !.headers_count = 0]
              ELSE [s EXCEPT !.seek_end = FALSE, !.headers_count = 1,
                             !.short_header = s.short_header /\ codec \notin {"mpeg4", "h263"}]
      BY DEF NextFrame, saved
    <3> DEFINE h == s.short_header /\ codec \notin {"mpeg4", "h263"}
               a == BeginsWithPicture(s)
               b == BeginsWithHeader(s, h)
    <3>3. n = IF last THEN a ELSE b
      BY <3>2 DEF BeginsWithPicture, BeginsWithHeader
    <3>4. h \in BOOLEAN
      OBVIOUS
    <3>5. /\ Apart(s, a) /\ a.seek_end /\ a.headers_count = 0 /\ a.code_start = s.code_start
          /\ Apart(s, b) /\ ~b.seek_end /\ b.headers_count = 1 /\ b.code_start = s.code_start
      BY <3>1, <3>4, PictureNext, HeaderNext
    <3> HIDE DEF s, last, a, b
    <3>6. /\ Apart(s, n) /\ n.code_start = s.code_start
          /\ IF last THEN n.seek_end /\ n.headers_count = 0 ELSE ~n.seek_end /\ n.headers_count = 1
      BY <3>3, <3>5
    <3>7. QED
      BY <3>1, <3>6 DEF Apart
  <2> HIDE DEF n, last
  <2>5. /\ t \in Contexts /\ t.code_start = c.code_end - consumed /\ ~t.got_end /\ t.bytes = saved
        /\ t.main_count = 0
        /\ IF last THEN t.seek_end /\ t.headers_count = 0 ELSE ~t.seek_end /\ t.headers_count = 1
        /\ t.got_start = c.got_start /\ t.state = c.state
    <3>1. n.tmp_code_start - consumed \in Int
      BY <1>1, <2>4
    <3>2. QED
      BY <2>1, <2>4, <3>1, SMTT(30) DEF Contexts
  <2>6. c.got_start /\ c.state = "no_code"
    BY <1>1, <1>2 DEF Parsing, EndMarked
  <2> HIDE DEF t, c
  <2>7. TypeOK'
    <3>1. -t.code_start <= Len(t.bytes) /\ offs' \in 0 .. Len(stream) /\ 0 \in 0 .. Len(stream) - offs'
      BY <1>1, <1>2, <2>3, <2>5
    <3>2. QED
      BY <2>5, <3>1 DEF ParserInv, TypeOK, t
  <2>8. Begin' = End
    BY <1>1, <1>2, <2>5 DEF Begin, End, t, c
  <2>9. Counting(ctx)' /\ InCode(ctx, consumed)'
    BY <2>5, <2>6 DEF Counting, Counts, InCode, t
  <2>10. SavedHere'
    <3>1. End = offs + c.code_end /\ End >= 0
      BY <1>1, <1>2 DEF End, c
    <3>2. t.bytes = SubSeq(stream, Begin' + 1, offs')
      BY <2>2, <2>5, <2>8, <3>1
    <3>3. QED
      BY <2>5, <2>6, <2>8, <3>1, <3>2 DEF SavedHere, t
  <2>11. QED
    BY <2>5, <2>7, <2>8, <2>9, <2>10 DEF ParserInv, Parsing, t
<1>3. CASE ~c.got_end
  <2>1. t = [(IF c.got_start THEN [c EXCEPT !.code_start = 0] ELSE c) EXCEPT !.tmp_code_start = @ - consumed]
    BY <1>3 DEF AfterCall, FrameFinished
  <2>2. /\ t \in Contexts /\ t.code_start = (IF c.got_start THEN 0 ELSE c.code_start)
        /\ t.got_end = c.got_end /\ t.bytes = c.bytes /\ t.main_count = c.main_count
        /\ t.headers_count = c.headers_count /\ t.seek_end = c.seek_end /\ t.got_start = c.got_start
        /\ t.state = c.state
    <3> DEFINE u == IF c.got_start THEN [c EXCEPT !.code_start = 0] ELSE c
    <3>1. /\ u \in Contexts /\ u.code_start = (IF c.got_start THEN 0 ELSE c.code_start)
          /\ u.got_end = c.got_end /\ u.bytes = c.bytes /\ u.main_count = c.main_count
          /\ u.headers_count = c.headers_count /\ u.seek_end = c.seek_end /\ u.got_start = c.got_start
          /\ u.state = c.state /\ u.tmp_code_start = c.tmp_code_start
      <4>1. CASE c.got_start
        <5> DEFINE d == GoesOn(c)
        <5>1. /\ Apart(c, d) /\ d.seek_end = c.seek_end /\ d.headers_count = c.headers_count
              /\ d.code_start = 0
          BY <1>1, SameNext
        <5>2. u = d
          BY <4>1 DEF GoesOn
        <5> HIDE DEF u, d
        <5>3. QED
          BY <4>1, <5>1, <5>2 DEF Apart
      <4>2. CASE ~c.got_start
        BY <1>1, <4>2
      <4>3. QED
        BY <4>1, <4>2
    <3>2. t = [u EXCEPT !.tmp_code_start = @ - consumed]
      BY <2>1
    <3> HIDE DEF u
    <3>3. u.tmp_code_start - consumed \in Int
      BY <1>1, <3>1
    <3>4. QED
      BY <3>1, <3>2, <3>3 DEF Contexts
  <2>3. Counting(c) /\ (c.state = "no_code" \/ ~More) /\ SavedHere /\ Len(c.bytes) \in Nat
    BY <1>1, <1>3 DEF Parsing, Contexts
  <2>4. c.got_start \/ c.code_start >= 0
    BY <1>1, <2>3 DEF SavedHere
  <2>5. offs' \in 0 .. Len(stream) /\ 0 \in 0 .. Len(stream) - offs'
    BY <1>1
  <2> HIDE DEF t, c
  <2>6. t.code_start >= 0 /\ t.code_start \in Int
    BY <1>1, <2>2, <2>4
  <2>7. TypeOK'
    BY <2>2, <2>3, <2>5, <2>6, <1>3 DEF ParserInv, TypeOK, t
  <2>8. Counting(ctx)'
    BY <2>2, <2>3 DEF Counting, Counts, t
  <2>9. InCode(ctx, consumed)' \/ ~More'
    BY <1>1, <2>2, <2>3 DEF InCode, More, t
  <2>10. SavedHere'
    BY <2>6 DEF SavedHere, t
  <2>11. c.got_start => Begin' = End
    BY <1>1, <1>3, <2>2 DEF Begin, End, t, c
  <2>12. QED
    BY <1>3, <2>2, <2>7, <2>8, <2>9, <2>10, <2>11 DEF ParserInv, Parsing, t, c
<1>4. QED
  BY <1>2, <1>3

(* A frame is appended that is the part of the stream between the          *)
(* beginnings of two frames.                                               *)
FrameAppended ==
  ctx.got_start => frames' = Append(frames, SubSeq(stream, Begin + 1, Begin'))

(* A call that returns a frame keeps the invariant.                        *)
LEMMA FrameReturned ==
  ASSUME ParserInv, pc = "return", pc' = "scan",
         ctx' = AfterCall, offs' = offs + consumed, consumed' = 0,
         UNCHANGED <<codec, units, stream>>,
         get_head' \in BOOLEAN, frames' = Append(frames, Extracted)
  PROVE  ParserInv' /\ FrameAppended
<1>1. Extracted \in Seq(0 .. 255) /\ (ctx.got_start => Extracted = SubSeq(stream, Begin + 1, End))
  BY ExtractedFrame
<1>2. frames' \in Seq(Seq(0 .. 255))
  BY <1>1 DEF ParserInv, TypeOK
<1>3. ParserInv' /\ (ctx.got_start => Begin' = End)
  BY <1>2, AfterCallKeeps
<1>4. QED
  BY <1>1, <1>3 DEF FrameAppended

(* What every step does to the frame in the making                         *)
Adjoins == ctx.got_start => IF frames' = frames THEN Begin' = Begin ELSE FrameAppended

(* The context of parse_stream_init                                        *)
LEMMA NewContext ==
  /\ parse_stream_init \in Contexts /\ Counting(parse_stream_init)
  /\ parse_stream_init.state = "no_code" /\ parse_stream_init.code_start = 0
  /\ ~parse_stream_init.got_end /\ parse_stream_init.bytes = <<>>
<1>1. <<>> \in Seq(0 .. 255)
  OBVIOUS
<1>2. QED
  BY <1>1 DEF parse_stream_init, Contexts, States, Counting, Counts

(* A parser that starts with the stream                                    *)
LEMMA Started ==
  ASSUME codec \in Codecs, units \in Seq(Units[codec]), stream = Bytes(units),
         offs = 0, consumed = 0, get_head \in BOOLEAN, pc \in {"scan", "return"},
         frames \in Seq(Seq(0 .. 255)), ctx \in Contexts, Counting(ctx), ctx.state = "no_code",
         ctx.code_start >= 0
  PROVE  ParserInv
<1>1. stream \in Seq(0 .. 255)
  BY StreamBytes
<1>2. Len(stream) \in Nat /\ Len(ctx.bytes) \in Nat /\ ctx.code_start \in Int /\ ~ctx.got_end
  BY <1>1 DEF Contexts, Counting
<1>3. TypeOK
  BY <1>1, <1>2 DEF TypeOK
<1>4. Parsing
  BY <1>2 DEF Parsing, SavedHere, InCode
<1>5. QED
  BY <1>3, <1>4 DEF ParserInv

-----------------------------------------------------------------------------
(* parser.c and its callers                                                *)

(* A step that changes nothing                                             *)
LEMMA NothingChanges == ParserInv /\ UNCHANGED vars => ParserInv' /\ Adjoins
  BY DEF ParserInv, TypeOK, Parsing, SavedHere, EndMarked, Counting, Counts, InCode, StartCode, More,
         Begin, Adjoins, vars

(* A step in which the caller gives up or has seen the end                 *)
LEMMA CallerLeaves ==
  ASSUME ParserInv, pc' \in {"done", "failed"},
         UNCHANGED <<codec, units, stream, offs, consumed, get_head, ctx, frames>>
  PROVE  ParserInv' /\ Adjoins
  BY DEF ParserInv, TypeOK, Begin, Adjoins

(* A step of the example, the return of the header of H.263 excepted, which*)
(* starts the stream again                                                 *)
LEMMA ExampleStep == ParserInv /\ Next => ParserInv' /\ ((codec = "h263" /\ get_head) \/ Adjoins)
<1> SUFFICES ASSUME ParserInv, Next PROVE ParserInv' /\ ((codec = "h263" /\ get_head) \/ Adjoins)
  OBVIOUS
<1>1. CASE parse_h264_stream \/ parse_mpeg2_stream \/ parse_mpeg4_stream
  BY <1>1, ScanKeeps DEF BeginKept, Adjoins
<1>2. CASE ReturnHeader
  <2>1. CASE codec = "h263"
    <3>1. /\ ctx' = parse_stream_init /\ pc = "return" /\ offs' = offs /\ consumed' = 0
          /\ get_head /\ get_head' = FALSE /\ pc' = "scan" /\ frames' = Append(frames, Extracted)
          /\ UNCHANGED <<codec, units, stream>>
      BY <1>2, <2>1 DEF ReturnHeader
    <3>2. frames' \in Seq(Seq(0 .. 255))
      <4>1. Extracted \in Seq(0 .. 255)
        BY <3>1, ExtractedFrame
      <4>2. QED
        BY <3>1, <4>1 DEF ParserInv, TypeOK
    <3>3. TypeOK'
      <4>1. offs' \in 0 .. Len(stream') /\ consumed' \in 0 .. Len(stream') - offs'
        <5>1. offs \in 0 .. Len(stream) /\ 0 \in 0 .. Len(stream) - offs
          BY ParserBytes DEF ParserInv, TypeOK
        <5>2. QED
          BY <3>1, <5>1
      <4>2. ctx' \in Contexts /\ -ctx'.code_start <= Len(ctx'.bytes) /\ ~ctx'.got_end
        <5>1. -0 <= Len(<<>>)
          OBVIOUS
        <5>2. QED
          BY <3>1, <5>1, NewContext
      <4>3. /\ codec' \in Codecs /\ units' \in Seq(Units[codec']) /\ stream' = Bytes(units')
            /\ get_head' \in BOOLEAN /\ pc' \in {"scan", "return", "done", "failed"}
        BY <3>1 DEF ParserInv, TypeOK
      <4>4. QED
        BY <3>2, <4>1, <4>2, <4>3 DEF TypeOK
    <3>4. Parsing'
      BY <3>1, NewContext DEF Parsing, SavedHere, InCode, Counting, Counts
    <3>5. QED
      BY <2>1, <3>1, <3>3, <3>4 DEF ParserInv
  <2>2. CASE codec # "h263"
    <3>1. ParserInv' /\ FrameAppended
      <4>1. /\ pc = "return" /\ pc' = "scan" /\ ctx' = AfterCall /\ offs' = offs + consumed /\ consumed' = 0
            /\ UNCHANGED <<codec, units, stream>> /\ get_head' \in BOOLEAN
            /\ frames' = Append(frames, Extracted)
        BY <1>2, <2>2 DEF ReturnHeader, NextOffs
      <4>2. QED
        BY <4>1, FrameReturned
    <3>2. QED
      BY <1>2, <3>1, Longer DEF ReturnHeader, Adjoins, ParserInv
  <2>3. QED
    BY <2>1, <2>2
<1>3. CASE NoHeader
  BY <1>3, CallerLeaves DEF NoHeader
<1>4. CASE ReturnFrame
  <2>1. ParserInv' /\ FrameAppended
    <3>1. /\ pc = "return" /\ pc' = "scan" /\ ctx' = AfterCall /\ offs' = offs + consumed /\ consumed' = 0
          /\ UNCHANGED <<codec, units, stream>> /\ get_head' \in BOOLEAN
          /\ frames' = Append(frames, Extracted)
      BY <1>4 DEF ReturnFrame, NextOffs, ParserInv, TypeOK
    <3>2. QED
      BY <3>1, FrameReturned
  <2>2. QED
    BY <1>4, <2>1, Longer DEF ReturnFrame, Adjoins, ParserInv
<1>5. CASE Finish
  BY <1>5, CallerLeaves DEF Finish
<1>6. CASE Left
  BY <1>6, NothingChanges DEF Left
<1>7. QED
  BY <1>1, <1>2, <1>3, <1>4, <1>5, <1>6 DEF Next

-----------------------------------------------------------------------------
(* parser.cpp and its callers                                              *)

(* A step of MFCDecoder; when a call reports an error the parser moves     *)
(* on without a frame.                                                     *)
LEMMA DirectStep ==
  ASSUME ParserInv, codec # "h263", ~linked => pc = "return" /\ ~ctx.got_end, DirectNext
  PROVE  /\ ParserInv' /\ (pc' = "failed" \/ Adjoins) /\ codec' = codec
         /\ ~linked' => pc' = "return" /\ ~ctx'.got_end
<1>1. CASE Link
  <2>1. /\ ~linked /\ ctx' = ctx /\ offs' = offs /\ linked' /\ pc' = "scan" /\ pc = "return" /\ ~ctx.got_end
        /\ UNCHANGED <<codec, units, stream, consumed, get_head, frames>>
    BY <1>1 DEF Link, Reset, Rewound
  <2>2. TypeOK' /\ Adjoins
    BY <2>1 DEF ParserInv, TypeOK, Adjoins, Begin
  <2>3. Parsing'
    BY <2>1 DEF ParserInv, Parsing, SavedHere, Begin, Counting, Counts, InCode, More
  <2>4. QED
    BY <2>1, <2>2, <2>3 DEF ParserInv
<1>2. CASE H264Parser_parse \/ MPEG2Parser_parse \/ MPEG4Parser_parse
  <2>1. /\ parse_h264_stream \/ parse_mpeg2_stream \/ parse_mpeg4_stream
        /\ linked /\ linked' = linked
    BY <1>2 DEF H264Parser_parse, MPEG2Parser_parse, MPEG4Parser_parse
  <2>2. codec' = codec
    BY <2>1 DEF parse_h264_stream, parse_mpeg2_stream, parse_mpeg4_stream, Scan, NextByte, HeaderEnd,
                FrameEnd, InputEnd
  <2>3. QED
    BY <2>1, <2>2, ScanKeeps DEF BeginKept, Adjoins
<1>3. CASE SetSource \/ RunParses
  <2>1. /\ pc = "return" /\ pc' = "scan" /\ ctx' = AfterCall /\ offs' = offs + consumed /\ consumed' = 0
        /\ UNCHANGED <<codec, units, stream>> /\ get_head' \in BOOLEAN
        /\ frames' = Append(frames, Extracted) /\ linked /\ linked' = linked
    BY <1>3 DEF SetSource, RunParses, Advanced, ParserInv, TypeOK
  <2>2. ParserInv' /\ FrameAppended
    BY <2>1, FrameReturned
  <2>3. QED
    BY <2>1, <2>2, Longer DEF Adjoins, ParserInv
<1>4. CASE ParseFails
  <2>1. /\ pc = "return" /\ pc' = "failed" /\ ctx' = AfterCall /\ offs' = offs + consumed /\ consumed' = 0
        /\ UNCHANGED <<codec, units, stream>> /\ get_head' \in BOOLEAN /\ frames' \in Seq(Seq(0 .. 255))
        /\ linked /\ linked' = linked
    BY <1>4 DEF ParseFails, Advanced, ParserInv, TypeOK
  <2>2. QED
    BY <2>1, AfterCallKeeps
<1>5. CASE Stopped
  <2>1. UNCHANGED vars /\ linked' = linked
    BY <1>5 DEF Stopped, directVars
  <2>2. ctx' = ctx /\ pc' = pc /\ codec' = codec
    BY <2>1 DEF vars
  <2>3. QED
    BY <2>1, <2>2, NothingChanges
<1>6. QED
  BY <1>1, <1>2, <1>3, <1>4, <1>5 DEF DirectNext

-----------------------------------------------------------------------------
(* Both programs                                                           *)

(* What the constructor of a parser leaves in it; in memory that was never *)
(* used everything is zero.                                                *)
LeftoversClean ==
  \A c \in Leftovers : c.state = "no_code" /\ Counts(c, 0, 0) /\ c.code_start >= 0

(* A stream is a sequence of units.                                        *)
LEMMA UnitsOfStream ==
  ASSUME NEW S, NEW u \in SeqOf(S, MaxUnits)
  PROVE  u \in Seq(S)
<1>1. PICK n \in 0 .. MaxUnits : u \in [1 .. n -> S]
  BY DEF SeqOf
<1>2. n \in Nat
  OBVIOUS
<1>3. QED
  BY <1>1, <1>2

(* Both programs start with the invariant.                                 *)
LEMMA InitMCInv == LeftoversClean /\ MCInit => MCInv
<1> SUFFICES ASSUME LeftoversClean, MCInit PROVE MCInv
  OBVIOUS
<1>0. <<>> \in Seq(Seq(0 .. 255))
  OBVIOUS
<1>1. CASE program = "example" /\ Init
  <2>1. /\ codec \in Codecs /\ units \in Seq(Units[codec]) /\ stream = Bytes(units) /\ offs = 0
        /\ consumed = 0 /\ get_head \in BOOLEAN /\ pc = "scan" /\ frames = <<>> /\ ctx = parse_stream_init
    BY <1>1, UnitsOfStream DEF Init
  <2>2. ParserInv
    BY <1>0, <2>1, Started, NewContext
  <2>3. QED
    BY <1>1, <2>2 DEF MCInv
<1>2. CASE program = "direct" /\ DirectInit /\ codec # "h263"
  <2>1. /\ codec \in Codecs /\ units \in Seq(Units[codec]) /\ stream = Bytes(units) /\ offs = 0
        /\ consumed = 0 /\ get_head \in BOOLEAN /\ pc = "return" /\ frames = <<>> /\ ctx \in Leftovers
    BY <1>2, UnitsOfStream DEF DirectInit
  <2>2. /\ ctx \in Contexts /\ ~ctx.got_start /\ ~ctx.got_end /\ ~ctx.seek_end
        /\ ctx.state = "no_code" /\ Counts(ctx, 0, 0) /\ ctx.code_start >= 0
    BY <2>1, LeftoversAssumption DEF LeftoversClean
  <2>3. Counting(ctx)
    BY <2>2 DEF Counting
  <2>4. ParserInv
    BY <1>0, <2>1, <2>2, <2>3, Started
  <2>5. QED
    BY <1>2, <2>1, <2>2, <2>4 DEF MCInv
<1>3. CASE program = "ivf"
  BY <1>3 DEF MCInv
<1>4. QED
  BY <1>1, <1>2, <1>3 DEF MCInit

mcVars == <<directVars, program, file, dkif>>

AdjoinStep ==
  program # "ivf" /\ pc' # "failed" /\ ctx.got_start /\ (codec = "h263" => ~get_head)
    => IF frames' = frames THEN Begin' = Begin
       ELSE frames' = Append(frames, SubSeq(stream, Begin + 1, Begin'))

(* Every step of both programs keeps it.                                   *)
LEMMA StepMCInv == MCInv /\ [MCNext]_mcVars => MCInv' /\ AdjoinStep
<1> SUFFICES ASSUME MCInv, [MCNext]_mcVars PROVE MCInv' /\ AdjoinStep
  OBVIOUS
<1>1. CASE program = "ivf"
  <2>1. program' = program
    BY DEF MCNext, mcVars
  <2>2. QED
    BY <1>1, <2>1 DEF MCInv, AdjoinStep
<1>2. CASE program = "example" /\ Next /\ program' = program
  BY <1>2, ExampleStep DEF MCInv, AdjoinStep, Adjoins, FrameAppended
<1>3. CASE program = "direct" /\ DirectNext /\ program' = program
  <2>1. ParserInv /\ codec # "h263" /\ (~linked => pc = "return" /\ ~ctx.got_end)
    BY <1>3 DEF MCInv
  <2>2. /\ ParserInv' /\ (pc' = "failed" \/ Adjoins) /\ codec' = codec
        /\ ~linked' => pc' = "return" /\ ~ctx'.got_end
    BY <1>3, <2>1, DirectStep
  <2>3. QED
    BY <1>3, <2>1, <2>2 DEF MCInv, AdjoinStep, Adjoins, FrameAppended
<1>4. CASE UNCHANGED mcVars
  <2>1. UNCHANGED vars /\ program' = program /\ linked' = linked
    BY <1>4 DEF mcVars, directVars
  <2>2. ctx' = ctx /\ pc' = pc /\ codec' = codec
    BY <2>1 DEF vars
  <2>3. QED
    BY <2>1, <2>2, NothingChanges DEF MCInv, AdjoinStep, Adjoins, FrameAppended
<1>5. QED
  BY <1>1, <1>2, <1>3, <1>4 DEF MCNext

(* In both programs, for every stream, the parser is where the invariant   *)
(* says: between two start codes or so many bytes behind the beginning of  *)
(* one.                                                                    *)
THEOREM ParsersInvariant ==
  ASSUME LeftoversClean
  PROVE  MCSpec => []MCInv
<1>1. MCInit => MCInv
  BY InitMCInv
<1>2. MCInv /\ [MCNext]_mcVars => MCInv'
  BY StepMCInv
<1>3. QED
  BY <1>1, <1>2, PTL DEF MCSpec, mcVars

(* What parser.c and parser.cpp save of the next frame fits into the six   *)
(* bytes they have for it, whatever the stream.                            *)
THEOREM SavedFits ==
  ASSUME LeftoversClean
  PROVE  MCSpec => []SavedBytesFit
<1>1. MCInv => SavedBytesFit
  BY DEF MCInv, ParserInv, SavedBytesFit
<1>2. QED
  BY <1>1, ParsersInvariant, PTL

(* The frames adjoin: a frame that is returned is the bytes of the stream  *)
(* from where the one before it ended to where the next one begins, and    *)
(* while it is looked for its beginning does not move.  Nothing is lost or *)
(* returned twice between two calls although the start code of the next    *)
(* frame is consumed with a frame.  (An error ends this, and the header of *)
(* H.263, after which the stream is parsed again from its beginning.)      *)
FramesAdjoin == [][AdjoinStep]_mcVars

(* The frames that the parsers return adjoin in every stream, from the     *)
(* first tag on.                                                           *)
THEOREM NothingLost ==
  ASSUME LeftoversClean
  PROVE  MCSpec => FramesAdjoin
<1>1. MCInv /\ [MCNext]_mcVars => [AdjoinStep]_mcVars
  BY StepMCInv
<1>2. QED
  BY <1>1, ParsersInvariant, PTL DEF MCSpec, mcVars, FramesAdjoin
=============================================================================
