------------------------ MODULE DeviceAnswers_proofs ------------------------
(***************************************************************************)
(* Proofs about DeviceRequests: what a user gets is what the sensor has.   *)
(*                                                                         *)
(* First what the sensor answers to each command, and that the reply is    *)
(* taken apart into what was put into it.  Then the request: its command   *)
(* names a variable of the sensor, and the settings reach the sensor as    *)
(* the user wrote them.  Then what the parsers make of the variables: the  *)
(* settings that are written are the configuration that is read, each      *)
(* field and each monitoring case of the sensor is one object, and a       *)
(* telegram is that of its channel.  The loops over fields and monitoring  *)
(* cases add one object in each pass.                                      *)
(***************************************************************************)
EXTENDS DeviceRequests_proofs

-----------------------------------------------------------------------------
(* Members set over those of an object. *)

IsFunction(f) == f = [m \in DOMAIN f |-> f[m]]

LEMMA SetOverNothing ==
  ASSUME NEW f, IsFunction(f)
  PROVE  f ++ New = f
<1>1. f ++ New = [m \in DOMAIN f |-> f[m]]
  BY DEF ++, New
<1> QED
  BY <1>1 DEF IsFunction

LEMMA SetOver ==
  ASSUME NEW f, NEW g
  PROVE  /\ DOMAIN (f ++ g) = DOMAIN f \cup DOMAIN g
         /\ \A m \in DOMAIN f : (f ++ g)[m] = f[m]
         /\ \A m \in DOMAIN g : m \notin DOMAIN f => (f ++ g)[m] = g[m]
         /\ IsFunction(f ++ g)
BY DEF ++, IsFunction

-----------------------------------------------------------------------------
(* What is in a telegram. *)

\* The ID of the session.
LEMMA TelegramSession ==
  ASSUME NEW c, NEW n \in Nat, IsBuffer(c.data, n), NEW sid \in Uint32, NEW rid
  PROVE  readUint32BigEndian(ConstructTelegram(c, sid, rid), 10) = sid
<1> DEFINE v == <<((10 + n) \div 16777216) % 256, ((10 + n) \div 65536) % 256,
                  ((10 + n) \div 256) % 256, (10 + n) % 256>>
           u == <<(sid \div 16777216) % 256, (sid \div 65536) % 256,
                  (sid \div 256) % 256, sid % 256>>
           w == <<(rid \div 256) % 256, rid % 256>>
           a == Overwritten(PrepareHeader, 0, <<2, 2, 2, 2>>)
           b == Overwritten(a, 4, v)
           d == Overwritten(b, 8, <<0>>)
           e == Overwritten(d, 9, <<0>>)
           f == Overwritten(e, 10, u)
           g == Overwritten(f, 14, w)
           p == Overwritten(g, 16, <<c.command_type>>)
           h == Overwritten(p, 17, <<c.command_mode>>)
           t == h \o c.data
<1>1. Len(c.data) = n
  BY BufferIsSequence
<1>2. ConstructTelegram(c, sid, rid) = t
  BY <1>1 DEF ConstructTelegram, WriteDataToDataPtr, WriteFrame, writeUint8, writeUint16BigEndian,
              writeUint32BigEndian
<1>3. /\ DOMAIN u = 1 .. 4 /\ DOMAIN w = 1 .. 2
      /\ u[1] = (sid \div 16777216) % 256 /\ u[2] = (sid \div 65536) % 256
      /\ u[3] = (sid \div 256) % 256 /\ u[4] = sid % 256
      /\ DOMAIN <<c.command_type>> = 1 .. 1 /\ DOMAIN <<c.command_mode>> = 1 .. 1
  OBVIOUS
<1> HIDE DEF v, u, w
<1>4. IsBuffer(e, 18)
  <2>1. IsBuffer(PrepareHeader, 18)
    BY ZerosBuffer DEF PrepareHeader
  <2>2. IsBuffer(a, 18)
    BY <2>1, OverwrittenBuffer
  <2> HIDE DEF a
  <2>3. IsBuffer(b, 18)
    BY <2>2, OverwrittenBuffer
  <2> HIDE DEF b
  <2>4. IsBuffer(d, 18)
    BY <2>3, OverwrittenBuffer
  <2> HIDE DEF d
  <2> QED
    BY <2>4, OverwrittenBuffer
<1> HIDE DEF e
<1>5. IsBuffer(f, 18) /\ \A i \in 1 .. 18 : f[i] = IF i - 10 \in DOMAIN u THEN u[i - 10] ELSE e[i]
  BY <1>4, OverwrittenBuffer
<1> HIDE DEF f
<1>6. IsBuffer(g, 18) /\ \A i \in 1 .. 18 : g[i] = IF i - 14 \in DOMAIN w THEN w[i - 14] ELSE f[i]
  BY <1>5, OverwrittenBuffer
<1> HIDE DEF g
<1>7. /\ IsBuffer(p, 18)
      /\ \A i \in 1 .. 18 : p[i] = IF i - 16 \in DOMAIN <<c.command_type>>
                                   THEN <<c.command_type>>[i - 16] ELSE g[i]
  BY <1>6, OverwrittenBuffer
<1> HIDE DEF p
<1>8. /\ IsBuffer(h, 18)
      /\ \A i \in 1 .. 18 : h[i] = IF i - 17 \in DOMAIN <<c.command_mode>>
                                   THEN <<c.command_mode>>[i - 17] ELSE p[i]
  BY <1>7, OverwrittenBuffer
<1> HIDE DEF h
<1>9. \A i \in 1 .. 18 : t[i] = h[i]
  <2>1. Joins(t, h, 18, c.data, n)
    BY <1>8, JoinedBuffers
  <2> HIDE DEF t
  <2> QED
    BY <2>1 DEF Joins
<1> HIDE DEF t
<1>10. ASSUME NEW i \in 11 .. 14
       PROVE  t[i] = u[i - 10]
  <2>1. t[i] = h[i] /\ h[i] = p[i] /\ p[i] = g[i]
    BY <1>3, <1>7, <1>8, <1>9
  <2>2. g[i] = f[i] /\ f[i] = u[i - 10]
    BY <1>3, <1>5, <1>6
  <2> QED
    BY <2>1, <2>2
<1>11. t[11] = u[1] /\ t[12] = u[2] /\ t[13] = u[3] /\ t[14] = u[4]
  BY <1>10
<1>12. readUint32BigEndian(t, 10) = 16777216 * t[11] + 65536 * t[12] + 256 * t[13] + t[14]
  BY DEF readUint32BigEndian
<1>13. sid = 16777216 * ((sid \div 16777216) % 256) + 65536 * ((sid \div 65536) % 256)
             + 256 * ((sid \div 256) % 256) + (sid % 256)
  BY Uint32Bytes
<1> QED
  BY <1>2, <1>3, <1>11, <1>12, <1>13

\* What is behind the number of a telegram.
Behind(t) == SubSeq(t, 21, Len(t))

LEMMA RestBehind ==
  ASSUME NEW n \in Nat, NEW t, IsBuffer(t, 20 + n), NEW b, IsBuffer(b, n),
         \A i \in 1 .. n : t[20 + i] = b[i]
  PROVE  Behind(t) = b
<1>1. PICK k \in Nat : k = 20
  OBVIOUS
<1>2. IsBuffer(t, k + n) /\ Len(t) = k + n
  BY <1>1, BufferIsSequence
<1>3. PICK V : t \in Seq(V)
  BY BufferIsSequence
<1>4. b = [i \in 1 .. n |-> b[i]]
  BY DEF IsBuffer
<1>5. Behind(t) = [i \in 1 .. n |-> t[i + (k + 1) - 1]]
  <2>1. k + 1 = 21
    BY <1>1
  <2>2. Behind(t) = SubSeq(t, k + 1, k + n)
    BY <1>2, <2>1 DEF Behind
  <2> QED
    BY <1>2, <1>3, <2>2, SubSeqProperties
<1>6. \A i \in 1 .. n : i + (k + 1) - 1 = 20 + i
  BY <1>1
<1> QED
  BY <1>4, <1>5, <1>6

TelegramSizes == 0 .. 2100

LEMMA SmallTelegram ==
  ASSUME NEW c, NEW m \in TelegramSizes, IsBuffer(c.data, m), NEW sid, NEW rid
  PROVE  LET t == ConstructTelegram(c, sid, rid)
         IN /\ IsBuffer(t, 18 + m)
            /\ readUint8(t, 16) = c.command_type /\ readUint8(t, 17) = c.command_mode
            /\ \A i \in 1 .. m : t[18 + i] = c.data[i]
<1>1. m + 10 \in Uint32 /\ m \in Nat
  BY DEF Uint32, Uint16, Uint8, Byte, TelegramSizes
<1> QED
  BY <1>1, TelegramBytes

\* A number and what follows it, at the end of a buffer.
LEMMA EndOfBuffer ==
  ASSUME NEW t, NEW m, NEW n \in DataSizes, m = 2 + n, IsBuffer(t, 18 + m),
         NEW data, \A i \in 1 .. m : t[18 + i] = data[i],
         NEW number, NEW rest, IsBuffer(rest, n), Joins(data, number, 2, rest, n)
  PROVE  /\ IsBuffer(t, 20 + n) /\ Len(t) = 20 + n
         /\ t[19] = number[1] /\ t[20] = number[2]
         /\ Behind(t) = rest
<1>9. n \in Nat
  BY DEF DataSizes
<1>1. 18 + m = 20 + n
  BY <1>9
<1>2. IsBuffer(t, 20 + n) /\ Len(t) = 20 + n
  BY <1>1, BufferIsSequence
<1>3. t[19] = number[1] /\ t[20] = number[2]
  <2>1. 1 \in 1 .. m /\ 2 \in 1 .. m
    BY <1>9
  <2>2. t[18 + 1] = data[1] /\ t[18 + 2] = data[2]
    BY <2>1
  <2>3. data[1] = number[1] /\ data[2] = number[2]
    BY DEF Joins
  <2> QED
    BY <2>2, <2>3
<1>4. ASSUME NEW i \in 1 .. n PROVE t[20 + i] = rest[i]
  <2>1. 2 + i \in 1 .. m /\ 18 + (2 + i) = 20 + i
    BY <1>9
  <2>2. data[2 + i] = rest[i]
    BY DEF Joins
  <2>3. t[18 + (2 + i)] = data[2 + i]
    BY <2>1
  <2> QED
    BY <2>1, <2>2, <2>3
<1>5. \A i \in 1 .. n : t[20 + i] = rest[i]
  BY <1>4
<1>6. Behind(t) = rest
  BY <1>2, <1>5, <1>9, RestBehind
<1> QED
  BY <1>2, <1>3, <1>6

\* A telegram with the number of a variable or method, and what follows it.
Holds(t, type, mode, number, rest) ==
  /\ Len(t) >= 20 /\ \E l : IsBuffer(t, l)
  /\ readUint8(t, 16) = type /\ readUint8(t, 17) = mode
  /\ t[19] = number[1] /\ t[20] = number[2]
  /\ Behind(t) = rest

LEMMA TelegramArguments ==
  ASSUME NEW c, NEW number, NEW n \in DataSizes, NEW rest, IsBuffer(rest, n),
         Joins(c.data, number, 2, rest, n), NEW sid, NEW rid
  PROVE  Holds(ConstructTelegram(c, sid, rid), c.command_type, c.command_mode, number, rest)
<1> DEFINE t == ConstructTelegram(c, sid, rid)
<1>1. PICK m \in TelegramSizes : m = 2 + n
  BY DEF TelegramSizes, DataSizes
<1>2. IsBuffer(c.data, m)
  BY <1>1 DEF Joins
<1>3. /\ IsBuffer(t, 18 + m)
      /\ readUint8(t, 16) = c.command_type /\ readUint8(t, 17) = c.command_mode
      /\ \A i \in 1 .. m : t[18 + i] = c.data[i]
  BY <1>2, SmallTelegram
<1> HIDE DEF t
<1>4. /\ IsBuffer(t, 20 + n) /\ Len(t) = 20 + n
      /\ t[19] = number[1] /\ t[20] = number[2]
      /\ Behind(t) = rest
  BY <1>1, <1>3, EndOfBuffer
<1>5. Len(t) >= 20 /\ \E l : IsBuffer(t, l)
  BY <1>4 DEF DataSizes
<1> QED
  BY <1>3, <1>4, <1>5 DEF t, Holds

\* What a reply that holds a variable is parsed to.
LEMMA ReplyParsed ==
  ASSUME NEW t, NEW type, NEW mode, NEW number, IsBuffer(number, 2),
         NEW n \in DataSizes, NEW rest, IsBuffer(rest, n)
  PROVE  LET p == ParseTCPSequence(Reply(t, type, mode, number \o rest))
         IN p.command_type = type /\ p.command_mode = mode /\ p.m_data_vector = rest
<1> DEFINE c == [command_type |-> type, command_mode |-> mode, data |-> number \o rest]
           r == ConstructTelegram(c, SessionID, readUint16BigEndian(t, 14))
           v == SetCommandValuesFromPacket(r)
           d == [m_data_vector |-> ReadData(r)]
<1>1. Reply(t, type, mode, number \o rest) = r
  BY DEF Reply
<1>2. Joins(c.data, number, 2, rest, n) /\ c.command_type = type /\ c.command_mode = mode
  BY JoinedBuffers
<1> HIDE DEF c
<1>3. Holds(r, c.command_type, c.command_mode, number, rest)
  BY <1>2, TelegramArguments
<1> HIDE DEF r
<1>4. ReadData(r) = rest
  BY <1>3 DEF ReadData, Behind, Holds
<1>5. /\ v.command_type = type /\ v.command_mode = mode
      /\ DOMAIN v = {"session_id", "request_id", "command_type", "command_mode"}
  BY <1>2, <1>3 DEF SetCommandValuesFromPacket, Holds
<1>6. d.m_data_vector = rest /\ DOMAIN d = {"m_data_vector"}
  BY <1>4
<1> HIDE DEF v, d
<1> DEFINE o == v ++ d
<1>9. /\ \A x \in DOMAIN v : o[x] = v[x]
      /\ \A x \in DOMAIN d : x \notin DOMAIN v => o[x] = d[x]
  BY DEF ++
<1> HIDE DEF o
<1>7. o.command_type = type /\ o.command_mode = mode /\ o.m_data_vector = rest
  BY <1>5, <1>6, <1>9
<1>8. ParseTCPSequence(r) = o
  BY DEF ParseTCPSequence, o, v, d
<1> QED
  BY <1>1, <1>7, <1>8

\* The session that a reply tells of.
LEMMA ReplySession ==
  ASSUME NEW t, NEW type, NEW mode, NEW n \in Nat, NEW data, IsBuffer(data, n)
  PROVE  ParseTCPSequence(Reply(t, type, mode, data)).session_id = SessionID
<1> DEFINE c == [command_type |-> type, command_mode |-> mode, data |-> data]
           r == ConstructTelegram(c, SessionID, readUint16BigEndian(t, 14))
           v == SetCommandValuesFromPacket(r)
           d == [m_data_vector |-> ReadData(r)]
<1>1. Reply(t, type, mode, data) = r
  BY DEF Reply
<1>2. c.data = data
  OBVIOUS
<1> HIDE DEF c
<1>3. readUint32BigEndian(r, 10) = SessionID
  BY <1>2, SessionIDAssumption, TelegramSession
<1> HIDE DEF r
<1>4. v.session_id = SessionID /\ "session_id" \in DOMAIN v
  BY <1>3 DEF SetCommandValuesFromPacket
<1> HIDE DEF v, d
<1> DEFINE o == v ++ d
<1>7. \A x \in DOMAIN v : o[x] = v[x]
  BY SetOver
<1> HIDE DEF o
<1>5. o.session_id = SessionID
  BY <1>4, <1>7
<1>6. ParseTCPSequence(r) = o
  BY DEF ParseTCPSequence, o, v, d
<1> QED
  BY <1>1, <1>5, <1>6


-----------------------------------------------------------------------------
(* What the sensor answers, and how the settings that it has change. *)

\* The session, type, mode and data that a reply is parsed to.
Says(r, type, mode, data) ==
  LET p == ParseTCPSequence(r)
  IN /\ p.session_id = SessionID
     /\ p.command_type = type /\ p.command_mode = mode
     /\ p.m_data_vector = data

LEMMA ReplySays ==
  ASSUME NEW t, NEW type, NEW mode, NEW number, IsBuffer(number, 2),
         NEW n \in DataSizes, NEW rest, IsBuffer(rest, n)
  PROVE  Says(Reply(t, type, mode, number \o rest), type, mode, rest)
<1>1. 2 + n \in Nat /\ IsBuffer(number \o rest, 2 + n)
  BY JoinedBuffers DEF Joins, IsBuffer
<1>2. PICK l \in Nat : IsBuffer(number \o rest, l)
  BY <1>1
<1>3. ParseTCPSequence(Reply(t, type, mode, number \o rest)).session_id = SessionID
  BY <1>2, ReplySession
<1> QED
  BY <1>3, ReplyParsed DEF Says

LEMMA EmptyBuffer == IsBuffer(<<>>, 0) /\ 0 \in DataSizes
<1>1. <<>> \in [1 .. 0 -> {}]
  OBVIOUS
<1> QED
  BY <1>1 DEF IsBuffer, DataSizes

\* The telegram of a variable command.
LEMMA VariableTelegram ==
  ASSUME NEW k \in Known, NEW parser, NEW sid, NEW rid
  PROVE  LET t == ConstructTelegram(VariableCommand(k, parser), sid, rid)
         IN /\ Holds(t, Char.R, Char.I, Index(k), <<>>)
            /\ sid \in Uint32 => readUint32BigEndian(t, 10) = sid
<1> DEFINE c == VariableCommand(k, parser)
           t == ConstructTelegram(c, sid, rid)
<1>1. c.command_type = Char.R /\ c.command_mode = Char.I /\ c.data = Index(k)
  BY DEF VariableCommand
<1> HIDE DEF c
<1>2. IsBuffer(Index(k), 2) /\ 2 \in Nat
  BY IndexBytes
<1>3. Joins(Index(k), Index(k), 2, <<>>, 0)
  BY <1>2 DEF Joins
<1>4. Joins(c.data, Index(k), 2, <<>>, 0)
  BY <1>1, <1>3
<1>5. Holds(t, c.command_type, c.command_mode, Index(k), <<>>)
  BY <1>4, EmptyBuffer, TelegramArguments
<1>6. sid \in Uint32 => readUint32BigEndian(t, 10) = sid
  BY <1>1, <1>2, TelegramSession
<1> QED
  BY <1>1, <1>5, <1>6 DEF c

\* The sensor answers it with the variable.
LEMMA VariableAnswered ==
  ASSUME NEW s, NEW k \in Known, NEW parser, NEW rid
  PROVE  LET t == ConstructTelegram(VariableCommand(k, parser), SessionID, rid)
         IN /\ Says(Answer(s, t), Char.R, Char.A, CurrentBytes(s, k))
            /\ After(s, t) = s
<1> DEFINE t == ConstructTelegram(VariableCommand(k, parser), SessionID, rid)
<1>1. Holds(t, Char.R, Char.I, Index(k), <<>>) /\ readUint32BigEndian(t, 10) = SessionID
  BY VariableTelegram, SessionIDAssumption
<1> HIDE DEF t
<1> DEFINE part == SubSeq(t, 19, 20)
           bytes == CurrentBytes(s, k)
<1>2. IsBuffer(part, 2)
  <2>1. PICK l : IsBuffer(t, l) /\ Len(t) >= 20
    BY <1>1 DEF Holds
  <2>2. l >= 20
    BY <2>1, BufferIsSequence
  <2> QED
    BY <2>1, <2>2, PartOfBuffer
<1>3. readUint16LittleEndian(t, 18) = k
  <2>1. t[19] = Index(k)[1] /\ t[20] = Index(k)[2]
    BY <1>1 DEF Holds
  <2> QED
    BY <2>1, IndexBytes DEF readUint16LittleEndian
<1>4. readUint8(t, 16) = Char.R /\ readUint8(t, 17) = Char.I
  BY <1>1 DEF Holds
<1>5. Answer(s, t) = Reply(t, Char.R, Char.A, part \o bytes)
  BY <1>1, <1>3, <1>4 DEF Answer, Char
<1>6. PICK n \in DataSizes : IsBuffer(bytes, n)
  BY ShortCurrent DEF Short, DataSizes
<1> HIDE DEF part, bytes
<1>7. Says(Answer(s, t), Char.R, Char.A, bytes)
  BY <1>2, <1>5, <1>6, ReplySays
<1>8. After(s, t) = s
  BY <1>4 DEF After, Char
<1> QED
  BY <1>7, <1>8 DEF bytes, t

LEMMA VariableLeavesSettings ==
  \A s, rid, parser : \A k \in Known :
    After(s, ConstructTelegram(VariableCommand(k, parser), SessionID, rid)) = s
BY VariableAnswered

LEMMA ShortTelegrams ==
  ASSUME NEW b, Short(b)
  PROVE  \E n \in TelegramSizes : IsBuffer(b, n)
<1>1. PICK n \in 0 .. 1000 : IsBuffer(b, n)
  BY DEF Short
<1>2. n \in TelegramSizes
  BY DEF TelegramSizes
<1> QED
  BY <1>1, <1>2, Zenon

\* The replies to CreateSession and CloseSession.
LEMMA SessionAnswered ==
  ASSUME NEW s, NEW sid, NEW rid
  PROVE  /\ LET t == ConstructTelegram(CreateSession, sid, rid)
            IN ParseTCPSequence(Answer(s, t)).session_id = SessionID /\ After(s, t) = s
         /\ After(s, ConstructTelegram(CloseSession, sid, rid)) = s
<1>1. PICK n \in TelegramSizes : IsBuffer(CreateSession.data, n)
  BY ValidSessions, ShortTelegrams DEF Valid
<1>2. PICK m \in TelegramSizes : IsBuffer(CloseSession.data, m)
  BY ValidSessions, ShortTelegrams DEF Valid
<1> DEFINE t == ConstructTelegram(CreateSession, sid, rid)
           u == ConstructTelegram(CloseSession, sid, rid)
<1>3. readUint8(t, 16) = CreateSession.command_type /\ readUint8(t, 17) = CreateSession.command_mode
  BY <1>1, SmallTelegram
<1>4. readUint8(u, 16) = CloseSession.command_type /\ readUint8(u, 17) = CloseSession.command_mode
  BY <1>2, SmallTelegram
<1> HIDE DEF t, u
<1>5. readUint8(t, 16) = Char.O /\ readUint8(t, 17) = Char.X
  BY <1>3 DEF CreateSession
<1>6. readUint8(u, 16) = Char.C
  BY <1>4 DEF CloseSession
<1>7. After(s, t) = s /\ After(s, u) = s
  BY <1>5, <1>6 DEF After, Char
<1>8. Answer(s, t) = Reply(t, Char.O, Char.A, <<0, 0>>)
  BY <1>5 DEF Answer, Char
<1>9. IsBuffer(<<0, 0>>, 2)
  <2>1. <<0, 0>> \in [1 .. 2 -> {0}]
    OBVIOUS
  <2> QED
    BY <2>1 DEF IsBuffer
<1>10. ParseTCPSequence(Answer(s, t)).session_id = SessionID
  BY <1>8, <1>9, ReplySession
<1> QED
  BY <1>7, <1>10 DEF t, u

LEMMA MethodNumber ==
  ASSUME NEW m \in {14, 176}
  PROVE  IsBuffer(Index(m), 2) /\ Index(m)[1] = m /\ Index(m)[2] = 0
<1> DEFINE v == <<m % 256, (m \div 256) % 256>>
<1>1. IsBuffer(Zeros(2), 2)
  BY ZerosBuffer
<1>2. Index(m) = Overwritten(Zeros(2), 0, v)
  BY DEF Index, writeUint16LittleEndian
<1>3. DOMAIN v = 1 .. 2 /\ v[1] = m /\ v[2] = 0
  OBVIOUS
<1> HIDE DEF v
<1>4. /\ IsBuffer(Index(m), 2)
      /\ \A i \in 1 .. 2 : Index(m)[i] = IF i - 0 \in DOMAIN v THEN v[i - 0] ELSE Zeros(2)[i]
  BY <1>1, <1>2, OverwrittenBuffer
<1> QED
  BY <1>3, <1>4

LEMMA ArgumentsHeld ==
  \A c, number, rest, sid, rid :
    (\E n \in DataSizes : IsBuffer(rest, n) /\ Joins(c.data, number, 2, rest, n))
    => Holds(ConstructTelegram(c, sid, rid), c.command_type, c.command_mode, number, rest)
BY TelegramArguments, Zenon

LEMMA MethodTelegram ==
  ASSUME NEW m \in Nat, IsBuffer(Index(m), 2), Index(m)[1] = m, Index(m)[2] = 0,
         NEW n \in DataSizes, NEW arguments, IsBuffer(arguments, n),
         NEW sid, NEW rid
  PROVE  LET t == ConstructTelegram(MethodCommand(m, arguments), sid, rid)
         IN /\ readUint8(t, 16) = Char.M /\ readUint8(t, 17) = Char.I
            /\ readUint16LittleEndian(t, 18) = m
            /\ Behind(t) = arguments
            /\ sid \in Uint32 => readUint32BigEndian(t, 10) = sid
<1> DEFINE c == MethodCommand(m, arguments)
           t == ConstructTelegram(c, sid, rid)
<1>1. c.command_type = Char.M /\ c.command_mode = Char.I /\ c.data = Index(m) \o arguments
  BY DEF MethodCommand
<1> HIDE DEF c
<1>2. Joins(Index(m) \o arguments, Index(m), 2, arguments, n)
  BY JoinedBuffers
<1>3. Joins(c.data, Index(m), 2, arguments, n)
  BY <1>1, <1>2
<1>4. Holds(t, c.command_type, c.command_mode, Index(m), arguments)
  BY <1>3, ArgumentsHeld
<1>5. sid \in Uint32 => readUint32BigEndian(t, 10) = sid
  <2>1. PICK l \in Nat : IsBuffer(c.data, l)
    BY <1>3 DEF Joins, IsBuffer
  <2> QED
    BY <2>1, TelegramSession
<1> HIDE DEF t
<1>6. t[19] = m /\ t[20] = 0
  BY <1>4 DEF Holds
<1>7. readUint16LittleEndian(t, 18) = m
  BY <1>6 DEF readUint16LittleEndian
<1> QED
  BY <1>1, <1>4, <1>5, <1>7 DEF c, t, Holds

LEMMA SettingsBuffer ==
  ASSUME NEW x
  PROVE  IsBuffer(WriteSettings(x), 28)
BY ZerosBuffer, OverwrittenBuffer
   DEF WriteSettings, writeUint8, writeUint16LittleEndian, writeUint32LittleEndian,
       writeInt32LittleEndian

\* ChangeCommSettings sets the settings of the sensor to those that it carries.
LEMMA SettingsChanged ==
  ASSUME NEW s, NEW x, NEW rid
  PROVE  After(s, ConstructTelegram(ChangeCommSettingsCommand(x), SessionID, rid))
           = [s EXCEPT !.settings = WriteSettings(x)]
<1> DEFINE t == ConstructTelegram(MethodCommand(176, WriteSettings(x)), SessionID, rid)
<1>1. IsBuffer(Index(176), 2) /\ Index(176)[1] = 176 /\ Index(176)[2] = 0 /\ 28 \in DataSizes
  BY MethodNumber DEF DataSizes
<1>2. /\ readUint8(t, 16) = Char.M /\ readUint8(t, 17) = Char.I
      /\ readUint16LittleEndian(t, 18) = 176
      /\ Behind(t) = WriteSettings(x)
      /\ readUint32BigEndian(t, 10) = SessionID
  BY <1>1, MethodTelegram, SettingsBuffer, SessionIDAssumption
<1> HIDE DEF t
<1>3. After(s, t) = [s EXCEPT !.settings = WriteSettings(x)]
  BY <1>2 DEF After, Behind
<1> QED
  BY <1>3 DEF t, ChangeCommSettingsCommand

\* FindMe does not.
LEMMA FindMeAnswered ==
  ASSUME NEW s, NEW blink_time, NEW sid, NEW rid
  PROVE  After(s, ConstructTelegram(FindMeCommand(blink_time), sid, rid)) = s
<1> DEFINE a == writeUint16LittleEndian(Zeros(2), 0, blink_time)
           t == ConstructTelegram(MethodCommand(14, a), sid, rid)
<1>1. IsBuffer(Index(14), 2) /\ Index(14)[1] = 14 /\ Index(14)[2] = 0 /\ 2 \in DataSizes
  BY MethodNumber DEF DataSizes
<1>2. IsBuffer(a, 2)
  BY ZerosBuffer, OverwrittenBuffer DEF writeUint16LittleEndian
<1> HIDE DEF a
<1>3. readUint16LittleEndian(t, 18) = 14
  BY <1>1, <1>2, MethodTelegram
<1> HIDE DEF t
<1>4. After(s, t) = s
  BY <1>3 DEF After
<1> QED
  BY <1>4 DEF t, a, FindMeCommand

-----------------------------------------------------------------------------
(* The exchange with the sensor: which command the sensor is asked, in     *)
(* which session, and what it has said.                                    *)

IsSensor(s) ==
  /\ DOMAIN s = {"contour", "fields", "cases", "settings", "flipped"}
  /\ s.contour \in BOOLEAN /\ s.fields \in Nat /\ s.cases \in Nat
  /\ s.fields < MaxFields

\* The command that has been sent last.
Sent ==
  CASE phase = "open"    -> CreateSession
    [] phase = "execute" -> command
    [] phase = "close"   -> CloseSession

\* The telegram on its way is that of the command, in the session that is open.
SessionInv ==
  /\ IsSensor(sensor)
  /\ uplink # <<>> => uplink = ConstructTelegram(Sent, m_session_id, RequestID)
  /\ pc = "receive" /\ phase # "open" => m_session_id = SessionID

\* The reply to CreateSession has the ID of the session, that to a variable
\* command the variable as it is in the sensor now.
SaidInv ==
  pc = "receive" /\ uplink = <<>> =>
    /\ phase = "open" => ParseTCPSequence(reply).session_id = SessionID
    /\ phase = "execute" /\ accepted =>
         \A k \in Known : \A parser :
           command = VariableCommand(k, parser) =>
             Says(reply, Char.R, Char.A, CurrentBytes(sensor, k))

ExchangeInv == SessionInv /\ SaidInv

LEMMA ExchangeInit == ASSUME Init PROVE ExchangeInv
<1>1. sensor \in Sensor
  BY DEF Init
<1>2. /\ sensor \in [contour : BOOLEAN, fields : Nat, cases : Nat,
                    settings : {<<>>}, flipped : {{}}]
      /\ sensor.fields < MaxFields
  BY <1>1, SensorAssumption
<1>3. IsSensor(sensor)
  BY <1>2 DEF IsSensor
<1> QED
  BY <1>3 DEF Init, ExchangeInv, SessionInv, SaidInv

\* A command is begun.
LEMMA BeginExchange ==
  ASSUME ReplyInv, ExchangeInv, NEW c, CreateAndExecute(c), sensor' = sensor
  PROVE  ExchangeInv'
<1>1. uplink' # <<>> /\ phase' = "open"
  BY ValidSessions, SendStep DEF CreateAndExecute
<1>2. uplink' = ConstructTelegram(CreateSession, m_session_id', RequestID)
  BY DEF CreateAndExecute, SendCommand
<1>3. Sent' = CreateSession
  BY <1>1 DEF Sent
<1> QED
  BY <1>1, <1>2, <1>3 DEF ExchangeInv, SessionInv, SaidInv

LEMMA AnswerExchange ==
  ASSUME ReplyInv, ExchangeInv, SensorAnswers
  PROVE  /\ ExchangeInv'
         /\ \E rid : sensor' = After(sensor, ConstructTelegram(Sent, m_session_id, rid))
<1>1. /\ uplink # <<>> /\ uplink' = <<>>
      /\ reply' = Answer(sensor, uplink) /\ sensor' = After(sensor, uplink)
      /\ pc' = pc /\ phase' = phase /\ command' = command /\ m_session_id' = m_session_id
      /\ accepted' = accepted
  BY DEF SensorAnswers, requestVars
<1>2. pc = "receive" /\ phase \in {"open", "execute", "close"}
  BY <1>1 DEF ReplyInv, Asked, CommandInv
<1>3. uplink = ConstructTelegram(Sent, m_session_id, RequestID)
  BY <1>1 DEF ExchangeInv, SessionInv
<1>4. IsSensor(sensor')
  <2>1. \/ After(sensor, uplink) = sensor
        \/ \E x : After(sensor, uplink) = [sensor EXCEPT !.settings = x]
    BY DEF After
  <2> QED
    BY <1>1, <2>1 DEF ExchangeInv, SessionInv, IsSensor
<1>5. SessionInv'
  BY <1>1, <1>4 DEF ExchangeInv, SessionInv
<1>6. ASSUME phase = "open" PROVE ParseTCPSequence(reply').session_id = SessionID
  <2>1. Sent = CreateSession
    BY <1>6 DEF Sent
  <2> QED
    BY <1>1, <1>3, <2>1, SessionAnswered
<1>7. ASSUME phase = "execute", NEW k \in Known, NEW parser, command = VariableCommand(k, parser)
      PROVE  Says(reply', Char.R, Char.A, CurrentBytes(sensor', k))
  <2>1. Sent = VariableCommand(k, parser) /\ m_session_id = SessionID
    BY <1>2, <1>7 DEF Sent, ExchangeInv, SessionInv
  <2>2. uplink = ConstructTelegram(VariableCommand(k, parser), SessionID, RequestID)
    BY <1>3, <2>1
  <2>3. /\ Says(Answer(sensor, uplink), Char.R, Char.A, CurrentBytes(sensor, k))
        /\ After(sensor, uplink) = sensor
    BY <2>2, VariableAnswered
  <2> QED
    BY <1>1, <2>3
<1>8. SaidInv'
  BY <1>1, <1>6, <1>7 DEF SaidInv
<1> QED
  BY <1>1, <1>3, <1>5, <1>8 DEF ExchangeInv

LEMMA CreatedExchange ==
  ASSUME ReplyInv, ExchangeInv, SessionIsCreated
  PROVE  ExchangeInv'
<1>1. /\ m_is_complete /\ phase = "open" /\ phase' = "execute" /\ SendCommand(command)
      /\ m_session_id' = ParseTCPSequence(m_deployed_packet_buffer).session_id
      /\ command' = command /\ sensor' = sensor
  BY DEF SessionIsCreated
<1>2. pc = "receive" /\ uplink = <<>> /\ downlink = <<>>
  BY <1>1, CompleteMeansReceived
<1>3. m_deployed_packet_buffer = reply
  BY <1>2 DEF ReplyInv, Answered
<1>4. m_session_id' = SessionID
  BY <1>1, <1>2, <1>3 DEF ExchangeInv, SaidInv
<1>5. uplink' # <<>>
  BY <1>1, SendStep DEF ReplyInv, CommandInv
<1>6. uplink' = ConstructTelegram(command, m_session_id', RequestID)
  BY <1>1 DEF SendCommand
<1>7. Sent' = command
  BY <1>1 DEF Sent
<1> QED
  BY <1>1, <1>4, <1>5, <1>6, <1>7 DEF ExchangeInv, SessionInv, SaidInv

LEMMA ProcessedExchange ==
  ASSUME ReplyInv, ExchangeInv, CommandIsProcessed
  PROVE  ExchangeInv'
<1>1. /\ m_is_complete /\ phase = "execute" /\ phase' = "close" /\ SendCommand(CloseSession)
      /\ m_session_id' = m_session_id /\ sensor' = sensor
  BY DEF CommandIsProcessed
<1>2. pc = "receive"
  BY <1>1, CompleteMeansReceived
<1>3. m_session_id' = SessionID
  BY <1>1, <1>2 DEF ExchangeInv, SessionInv
<1>4. uplink' = ConstructTelegram(CloseSession, m_session_id', RequestID)
  BY <1>1 DEF SendCommand
<1>5. Sent' = CloseSession
  BY <1>1 DEF Sent
<1> QED
  BY <1>1, <1>3, <1>4, <1>5 DEF ExchangeInv, SessionInv, SaidInv

LEMMA ClosedExchange ==
  ASSUME ReplyInv, ExchangeInv, SessionIsClosed
  PROVE  ExchangeInv'
<1>1. Goes /\ sensor' = sensor /\ uplink = <<>>
  BY ClosedLeadsOn, CompleteMeansReceived DEF SessionIsClosed
<1>2. CASE Return
  BY <1>1, <1>2 DEF Return, ExchangeInv, SessionInv, SaidInv
<1>3. CASE \E c : CreateAndExecute(c)
  BY <1>1, <1>3, BeginExchange
<1> QED
  BY <1>1, <1>2, <1>3 DEF Goes

\* Nothing of the exchange changes.
LEMMA OtherExchange ==
  ASSUME ExchangeInv,
         UNCHANGED <<sensor, pc, phase, m_session_id, command, uplink, reply, accepted>>
  PROVE  ExchangeInv'
BY DEF ExchangeInv, SessionInv, SaidInv, Sent

\* A bit changes only between requests.
LEMMA BitExchange ==
  ASSUME ExchangeInv, BitChanges
  PROVE  ExchangeInv'
<1>1. /\ pc = "idle" /\ pc' = pc /\ uplink' = uplink /\ m_session_id' = m_session_id
      /\ phase' = phase /\ command' = command
      /\ \E x : sensor' = [sensor EXCEPT !.flipped = x]
  BY DEF BitChanges
<1>2. IsSensor(sensor')
  BY <1>1 DEF ExchangeInv, SessionInv, IsSensor
<1> QED
  BY <1>1, <1>2 DEF ExchangeInv, SessionInv, SaidInv, Sent

LEMMA ExchangeNext == ASSUME ReplyInv, ExchangeInv, [Next]_vars PROVE ExchangeInv'
<1>1. CASE UNCHANGED vars
  BY <1>1, OtherExchange DEF vars, requestVars
<1>2. CASE Next
  <2>1. ASSUME NEW r \in Request, Call(r) PROVE ExchangeInv'
    BY <2>1, BeginExchange DEF Call
  <2>2. CASE SensorRefuses
    BY <2>2 DEF SensorRefuses, ExchangeInv, SessionInv, SaidInv
  <2>3. CASE CommandRaises
    BY <2>3 DEF CommandRaises, ExchangeInv, SessionInv, SaidInv
  <2>4. CASE ReceiveSegment
    BY <2>4, OtherExchange DEF ReceiveSegment, requestVars
  <2>5. CASE Done
    BY <2>5, OtherExchange DEF Done, vars, requestVars
  <2> QED
    BY <1>2, <2>1, <2>2, <2>3, <2>4, <2>5, AnswerExchange, CreatedExchange, ProcessedExchange,
       ClosedExchange, BitExchange DEF Next
<1> QED
  BY <1>1, <1>2

-----------------------------------------------------------------------------
(* The request: its command, the settings in force and the flipped bit. *)

\* The command of a request that is being executed is one of the request.
CommandShape ==
  pc = "receive" =>
    CASE request.kind = "read"     -> request.name \in DOMAIN Reads /\ command = Reads[request.name]
      [] request.kind = "telegram" ->
           /\ request.channel \in Channels
           /\ command = LatestTelegramVariableCommand(ChannelOf(request.channel))
      [] request.kind = "find"     -> \E t : command = FindMeCommand(t)
      [] request.kind = "settings" ->
           settings # <<>> => command = ChangeCommSettingsCommand(settings)
      [] request.kind = "fields"   ->
           command \in {FieldHeaderVariableCommand(index), FieldGeometryVariableCommand(index)}
      [] request.kind = "cases"    -> command = MonitoringCaseVariableCommand(index)

Kinds == {"read", "telegram", "find", "settings", "fields", "cases"}

\* The settings in force are settings that a user wants, with the port of the
\* socket; the sensor has them once it has been sent the command.
SettingsInv ==
  settings # <<>> =>
    /\ \E s \in Settings, port \in LocalPort : settings = WithPort(s, port)
    /\ sensor.settings = WriteSettings(settings)
       \/ /\ request.kind = "settings" /\ pc = "receive"
          /\ phase = "open" \/ (phase = "execute" /\ uplink # <<>>)

\* A bit only differs while the first variable that was read is read again.
FlippedInv ==
  /\ calls \in Nat
  /\ settings # <<>> => calls >= 1 /\ (request.kind # "settings" => calls >= 2)
  /\ before = <<>> => sensor.flipped = {}
  /\ before # <<>> => request.kind = "read" /\ settings = <<>>

RequestInv == request.kind \in Kinds /\ CommandShape /\ SettingsInv /\ FlippedInv

LEMMA RequestInit == ASSUME Init PROVE RequestInv
<1>1. sensor \in Sensor
  BY DEF Init
<1>2. sensor.flipped = {}
  BY <1>1, SensorAssumption
<1> QED
  BY <1>2 DEF Init, RequestInv, Kinds, CommandShape, SettingsInv, FlippedInv

\* The numbers of the variables that are read.
LEMMA ReadsAreNumbered ==
  ASSUME NEW n \in DOMAIN Reads
  PROVE  /\ VariableNumber[n] \in Known
         /\ Reads[n] = VariableCommand(VariableNumber[n], Reads[n].parser)
<1>1. /\ 3 \in Known /\ 4 \in Known /\ 13 \in Known /\ 14 \in Known /\ 15 \in Known /\ 16 \in Known
      /\ 17 \in Known /\ 18 \in Known /\ 23 \in Known /\ 28 \in Known
      /\ 33 \in Known /\ 35 \in Known
      /\ 177 \in Known /\ 178 \in Known /\ 1003 \in Known /\ 2100 \in Known
  BY KnownNumbers DEF FixedNumbers
<1>2. /\ 2101 \in Known /\ 10001 \in Known /\ 10257 \in Known
  BY KnownNumbers
<1>3. DOMAIN VariableNumber = DOMAIN Reads /\ VariableNumber[n] \in Known
  BY <1>1, <1>2 DEF VariableNumber, Reads
<1>4. \A k, p : VariableCommand(k, p).parser = p
  BY DEF VariableCommand
<1>5. 2101 + 0 = 2101 /\ 10000 + 1 = 10001 /\ 10256 + 1 = 10257
  OBVIOUS
<1>6. \E p : Reads[n] = VariableCommand(VariableNumber[n], p)
  BY <1>5
     DEF VariableNumber, Reads, SerialNumberVariableCommand, FirmwareVersionVariableCommand,
         TypeCodeVariableCommand, OrderNumberVariableCommand,
         DeviceStatusVariableCommand, RequiredUserActionVariableCommand,
         DeviceNameVariableCommand, ProjectNameVariableCommand, StatusOverviewVariableCommand,
         ConfigMetadataVariableCommand, ApplicationNameVariableCommand, UserNameVariableCommand,
         MeasurementPersistentConfigVariableCommand, MeasurementCurrentConfigVariableCommand,
         FieldSetsVariableCommand, MonitoringCaseTableHeaderVariableCommand,
         MonitoringCaseVariableCommand, FieldHeaderVariableCommand, FieldGeometryVariableCommand
<1> QED
  BY <1>3, <1>4, <1>6

LEMMA ChannelsAreKnown ==
  ASSUME NEW c \in Channels
  PROVE  ChannelOf(c) \in 0 .. 3 /\ 179 + ChannelOf(c) \in Known
<1>1. ChannelOf(c) \in 0 .. 3
  BY DEF Channels, ChannelOf
<1>2. \A i \in 0 .. 3 : 179 + i \in Known
  BY DEF Known, FixedNumbers
<1> QED
  BY <1>1, <1>2

LEMMA IndexesAreKnown ==
  ASSUME ReplyInv
  PROVE  /\ request.kind = "fields" =>
              index \in 0 .. 127 /\ 10000 + index \in Known /\ 10256 + index \in Known
         /\ request.kind = "cases" => index \in 0 .. 253 /\ 2101 + index \in Known
<1>1. MaxFields \in 1 .. 128 /\ MaxCases \in 1 .. 254 /\ index \in 0 .. MaxFields + MaxCases
  BY DeviceRequestsAssumption DEF ReplyInv, CommandInv
<1>2. request.kind = "fields" => index \in 0 .. 127
  BY <1>1 DEF ReplyInv, CommandInv
<1>3. request.kind = "cases" => index \in 0 .. 253
  BY <1>1 DEF ReplyInv, CommandInv
<1> QED
  BY <1>2, <1>3, KnownNumbers

LEMMA CommandKinds ==
  ASSUME ReplyInv, RequestInv, pc = "receive", request.kind # "settings"
  PROVE  \/ \E t : command = FindMeCommand(t)
         \/ \E k \in Known : \E parser : command = VariableCommand(k, parser)
<1>1. CASE request.kind = "read"
  BY <1>1, ReadsAreNumbered DEF RequestInv, CommandShape
<1>2. CASE request.kind = "telegram"
  <2>1. /\ request.channel \in Channels
        /\ command = LatestTelegramVariableCommand(ChannelOf(request.channel))
    BY <1>2 DEF RequestInv, CommandShape
  <2>2. 179 + ChannelOf(request.channel) \in Known
    BY <2>1, ChannelsAreKnown
  <2> QED
    BY <2>1, <2>2 DEF LatestTelegramVariableCommand
<1>3. CASE request.kind = "find"
  BY <1>3 DEF RequestInv, CommandShape
<1>4. CASE request.kind = "fields"
  <2>1. command \in {FieldHeaderVariableCommand(index), FieldGeometryVariableCommand(index)}
    BY <1>4 DEF RequestInv, CommandShape
  <2>2. 10000 + index \in Known /\ 10256 + index \in Known
    BY <1>4, IndexesAreKnown
  <2> QED
    BY <2>1, <2>2 DEF FieldHeaderVariableCommand, FieldGeometryVariableCommand
<1>5. CASE request.kind = "cases"
  <2>1. command = MonitoringCaseVariableCommand(index)
    BY <1>5 DEF RequestInv, CommandShape
  <2>2. 2101 + index \in Known
    BY <1>5, IndexesAreKnown
  <2> QED
    BY <2>1, <2>2 DEF MonitoringCaseVariableCommand
<1> QED
  BY <1>1, <1>2, <1>3, <1>4, <1>5 DEF RequestInv, Kinds

LEMMA CallRequest ==
  ASSUME RequestInv, NEW r \in Request, Call(r)
  PROVE  RequestInv'
<1>1. PICK port : /\ port \in IF r.kind = "settings" THEN LocalPort ELSE {0}
                  /\ CreateAndExecute(FirstCommand(r, port))
                  /\ settings' = IF r.kind = "settings" THEN WithPort(r.settings, port)
                                 ELSE settings
  BY DEF Call
<1>2. /\ pc # "receive" /\ (before # <<>> => r = request)
      /\ calls' = calls + 1 /\ request' = r /\ index' = 0
      /\ sensor' = sensor /\ before' = before
  BY DEF Call
<1>3. /\ command' = FirstCommand(r, port) /\ phase' = "open"
  BY <1>1 DEF CreateAndExecute
<1>4. pc' = "receive"
  BY <1>1 DEF CreateAndExecute, SendCommand
<1>5. r.kind \in Kinds
  BY DEF Request, Kinds
<1>6. CommandShape'
  <2>1. CASE r.kind = "read"
    BY <1>2, <1>3, <2>1 DEF CommandShape, FirstCommand, Request
  <2>2. CASE r.kind = "telegram"
    BY <1>2, <1>3, <2>2 DEF CommandShape, FirstCommand, Request
  <2>3. CASE r.kind = "find"
    BY <1>2, <1>3, <2>3 DEF CommandShape, FirstCommand
  <2>4. CASE r.kind = "settings"
    BY <1>1, <1>2, <1>3, <2>4 DEF CommandShape, FirstCommand
  <2>5. CASE r.kind = "fields"
    BY <1>2, <1>3, <2>5 DEF CommandShape, FirstCommand
  <2>6. CASE r.kind = "cases"
    BY <1>2, <1>3, <2>6 DEF CommandShape, FirstCommand
  <2> QED
    BY <1>5, <2>1, <2>2, <2>3, <2>4, <2>5, <2>6 DEF Kinds
<1>7. SettingsInv'
  <2>1. CASE r.kind = "settings"
    <3>1. r.settings \in Settings
      BY <2>1 DEF Request
    <3> QED
      BY <1>1, <1>2, <1>3, <1>4, <2>1, <3>1 DEF SettingsInv
  <2>2. CASE r.kind # "settings"
    <3>1. settings' = settings
      BY <1>1, <2>2
    <3> QED
      BY <1>2, <3>1 DEF RequestInv, SettingsInv
  <2> QED
    BY <2>1, <2>2
<1>8. FlippedInv'
  <2>1. calls \in Nat /\ calls' = calls + 1
    BY <1>2 DEF RequestInv, FlippedInv
  <2>2. before # <<>> => r.kind = "read" /\ settings = <<>>
    BY <1>2 DEF RequestInv, FlippedInv
  <2>3. settings' # <<>> => calls' >= 1 /\ (r.kind # "settings" => calls' >= 2)
    BY <1>1, <2>1 DEF RequestInv, FlippedInv
  <2>4. before # <<>> => settings' = <<>>
    BY <1>1, <2>2
  <2> QED
    BY <1>2, <2>1, <2>2, <2>3, <2>4 DEF RequestInv, FlippedInv
<1> QED
  BY <1>2, <1>5, <1>6, <1>7, <1>8 DEF RequestInv

\* Only an answer to ChangeCommSettings changes the sensor.
LEMMA AnswerLeaves ==
  ASSUME ReplyInv, ExchangeInv, RequestInv, SensorAnswers,
         request.kind = "settings" => phase = "close"
  PROVE  sensor' = sensor
<1>1. pc = "receive" /\ phase \in {"open", "execute", "close"}
  BY DEF SensorAnswers, ReplyInv, Asked, CommandInv
<1>2. PICK rid : sensor' = After(sensor, ConstructTelegram(Sent, m_session_id, rid))
  BY AnswerExchange
<1>3. CASE phase = "open"
  <2>1. Sent = CreateSession
    BY <1>3 DEF Sent
  <2> QED
    BY <1>2, <2>1, SessionAnswered
<1>4. CASE phase = "close"
  <2>1. Sent = CloseSession
    BY <1>4 DEF Sent
  <2> QED
    BY <1>2, <2>1, SessionAnswered
<1>5. CASE phase = "execute"
  <2>1. Sent = command /\ m_session_id = SessionID
    BY <1>1, <1>5 DEF Sent, ExchangeInv, SessionInv
  <2>2. \/ \E t : command = FindMeCommand(t)
        \/ \E k \in Known : \E parser : command = VariableCommand(k, parser)
    BY <1>1, <1>5, CommandKinds
  <2>3. ASSUME NEW t, command = FindMeCommand(t) PROVE sensor' = sensor
    <3>1. sensor' = After(sensor, ConstructTelegram(FindMeCommand(t), SessionID, rid))
      BY <1>2, <2>1, <2>3
    <3> QED
      BY <3>1, FindMeAnswered, Zenon
  <2>4. ASSUME NEW k \in Known, NEW parser, command = VariableCommand(k, parser)
        PROVE  sensor' = sensor
    <3>1. After(sensor, ConstructTelegram(VariableCommand(k, parser), SessionID, rid)) = sensor
      BY VariableLeavesSettings, Zenon
    <3> QED
      BY <1>2, <2>1, <2>4, <3>1
  <2> QED
    BY <2>2, <2>3, <2>4, Zenon
<1> QED
  BY <1>1, <1>3, <1>4, <1>5

\* What an answer changes is the settings of the sensor.
LEMMA AnswerRequest ==
  ASSUME ReplyInv, ExchangeInv, RequestInv, SensorAnswers
  PROVE  /\ RequestInv'
         /\ \A m \in {"contour", "fields", "cases", "flipped"} : sensor'[m] = sensor[m]
<1>1. /\ uplink # <<>> /\ uplink' = <<>>
      /\ pc' = pc /\ phase' = phase /\ command' = command
      /\ request' = request /\ index' = index /\ settings' = settings /\ calls' = calls
      /\ before' = before
  BY DEF SensorAnswers, requestVars
<1>2. pc = "receive" /\ phase \in {"open", "execute", "close"}
  BY <1>1 DEF ReplyInv, Asked, CommandInv
<1>3. PICK rid : sensor' = After(sensor, ConstructTelegram(Sent, m_session_id, rid))
  BY AnswerExchange
<1>4. /\ \A m \in {"contour", "fields", "cases", "flipped"} : sensor'[m] = sensor[m]
  <2>1. PICK t : sensor' = After(sensor, t)
    BY <1>3
  <2>2. \/ After(sensor, t) = sensor
        \/ \E x : After(sensor, t) = [sensor EXCEPT !.settings = x]
    BY DEF After
  <2> QED
    BY <2>1, <2>2 DEF ExchangeInv, SessionInv, IsSensor
<1>5. SettingsInv'
  <2> SUFFICES ASSUME settings # <<>>
               PROVE  \/ sensor'.settings = WriteSettings(settings)
                      \/ request.kind = "settings" /\ phase = "open"
    BY <1>1, <1>2 DEF RequestInv, SettingsInv
  <2>1. ASSUME request.kind = "settings", phase = "execute"
        PROVE  sensor'.settings = WriteSettings(settings)
    <3>1. Sent = ChangeCommSettingsCommand(settings) /\ m_session_id = SessionID
      BY <1>2, <2>1 DEF RequestInv, CommandShape, Sent, ExchangeInv, SessionInv
    <3>2. sensor' = [sensor EXCEPT !.settings = WriteSettings(settings)]
      BY <1>3, <3>1, SettingsChanged
    <3> QED
      BY <3>2 DEF ExchangeInv, SessionInv, IsSensor
  <2>2. ASSUME request.kind = "settings" => phase = "close"
        PROVE  sensor' = sensor
    BY <2>2, AnswerLeaves
  <2>3. CASE sensor.settings = WriteSettings(settings)
    BY <1>2, <2>1, <2>2, <2>3
  <2>4. CASE sensor.settings # WriteSettings(settings)
    BY <1>2, <2>1, <2>4 DEF RequestInv, SettingsInv
  <2> QED
    BY <2>3, <2>4
<1>6. CommandShape'
  BY <1>1 DEF RequestInv, CommandShape
<1>7. FlippedInv'
  BY <1>1, <1>4 DEF RequestInv, FlippedInv
<1> QED
  BY <1>1, <1>4, <1>5, <1>6, <1>7 DEF RequestInv

LEMMA RaiseRequest ==
  ASSUME RequestInv, CommandRaises
  PROVE  RequestInv'
<1>1. /\ pc = "receive" /\ pc' = "raised" /\ request' = request /\ sensor' = sensor
      /\ settings' = IF request.kind = "settings" THEN <<>> ELSE settings
      /\ calls' = calls /\ before' = before
  BY DEF CommandRaises, requestVars
<1> QED
  BY <1>1 DEF RequestInv, CommandShape, SettingsInv, FlippedInv

LEMMA RefusalRequest ==
  ASSUME RequestInv, SensorRefuses
  PROVE  RequestInv'
<1>1. /\ pc' = pc /\ request' = request /\ sensor' = sensor /\ index' = index
      /\ command' = command /\ phase' = phase
      /\ settings' = IF request.kind = "settings" THEN <<>> ELSE settings
      /\ calls' = calls /\ before' = before
  BY DEF SensorRefuses
<1>2. CommandShape'
  BY <1>1 DEF RequestInv, CommandShape
<1> QED
  BY <1>1, <1>2 DEF RequestInv, SettingsInv, FlippedInv

LEMMA BitRequest ==
  ASSUME RequestInv, ExchangeInv, BitChanges
  PROVE  RequestInv'
<1>1. /\ pc = "idle" /\ pc' = pc /\ request' = request /\ settings' = settings /\ calls' = calls
      /\ request.kind = "read" /\ calls = 1 /\ before' = <<object>>
      /\ \E x : sensor' = [sensor EXCEPT !.flipped = x]
  BY DEF BitChanges, requestVars
<1>2. settings = <<>>
  BY <1>1 DEF RequestInv, FlippedInv
<1>3. before' # <<>>
  BY <1>1
<1> QED
  BY <1>1, <1>2, <1>3 DEF RequestInv, CommandShape, SettingsInv, FlippedInv

\* A part of a command is done: the command of a request stays.
LEMMA PartRequest ==
  ASSUME RequestInv, pc = "receive", pc' = "receive", uplink = <<>>,
         phase' \in {"execute", "close"},
         phase = "open" => phase' = "execute" /\ uplink' # <<>>,
         UNCHANGED <<request, index, sensor, command, calls, settings, before>>
  PROVE  RequestInv'
<1>1. CommandShape'
  BY DEF RequestInv, CommandShape
<1>2. SettingsInv'
  <2>1. CASE settings # <<>> /\ sensor.settings = WriteSettings(settings)
    BY <2>1 DEF RequestInv, SettingsInv
  <2>2. CASE settings # <<>> /\ sensor.settings # WriteSettings(settings)
    <3>1. request.kind = "settings" /\ phase = "open"
      BY <2>2 DEF RequestInv, SettingsInv
    <3>2. pc' = "receive"
      OBVIOUS
    <3> QED
      BY <2>2, <3>1, <3>2 DEF RequestInv, SettingsInv
  <2>3. CASE settings = <<>>
    BY <2>3 DEF SettingsInv
  <2> QED
    BY <2>1, <2>2, <2>3
<1> QED
  BY <1>1, <1>2 DEF RequestInv, FlippedInv

\* What a reply to CloseSession leads to, with the command of the next index.
GoesOn ==
  \/ Return
  \/ /\ request.kind = "fields"
     /\ CreateAndExecute(FieldHeaderVariableCommand(index'))
        \/ CreateAndExecute(FieldGeometryVariableCommand(index'))
  \/ /\ request.kind = "cases"
     /\ CreateAndExecute(MonitoringCaseVariableCommand(index'))

LEMMA ClosedGoesOn ==
  ASSUME SessionIsClosed
  PROVE  GoesOn
<1>1. CASE request.kind = "cases"
  <2>1. MonitoringCaseIsRead
    BY <1>1 DEF SessionIsClosed
  <2> QED
    BY <1>1, <2>1 DEF MonitoringCaseIsRead, NextIndex, GoesOn
<1>2. CASE request.kind = "fields" /\ command.parser = "FieldHeader"
  <2>1. FieldHeaderIsRead
    BY <1>2 DEF SessionIsClosed
  <2> QED
    BY <1>2, <2>1 DEF FieldHeaderIsRead, NextIndex, GoesOn
<1>3. CASE request.kind = "fields" /\ command.parser = "FieldGeometry"
  <2>1. FieldGeometryIsRead
    BY <1>3 DEF SessionIsClosed
  <2> QED
    BY <1>3, <2>1 DEF FieldGeometryIsRead, NextIndex, GoesOn
<1>4. CASE /\ request.kind # "cases"
           /\ ~ (request.kind = "fields" /\ command.parser = "FieldHeader")
           /\ ~ (request.kind = "fields" /\ command.parser = "FieldGeometry")
  BY <1>4 DEF SessionIsClosed, GoesOn
<1> QED
  BY <1>1, <1>2, <1>3, <1>4

LEMMA ClosedRequest ==
  ASSUME ReplyInv, RequestInv, SessionIsClosed
  PROVE  RequestInv'
<1>1. /\ pc = "receive" /\ phase = "close" /\ GoesOn
      /\ request' = request /\ sensor' = sensor /\ calls' = calls /\ settings' = settings
      /\ before' = before
  BY ClosedGoesOn DEF SessionIsClosed
<1>2. CommandShape'
  <2>1. CASE Return
    BY <2>1 DEF Return, CommandShape
  <2>2. CASE ~ Return
    BY <1>1, <2>2 DEF GoesOn, CreateAndExecute, CommandShape
  <2> QED
    BY <2>1, <2>2
<1>3. SettingsInv'
  BY <1>1 DEF RequestInv, SettingsInv
<1> QED
  BY <1>1, <1>2, <1>3 DEF RequestInv, FlippedInv

LEMMA OtherRequest ==
  ASSUME RequestInv,
         UNCHANGED <<request, index, sensor, pc, phase, command, uplink, calls, settings, before>>
  PROVE  RequestInv'
BY DEF RequestInv, CommandShape, SettingsInv, FlippedInv

LEMMA RequestNext == ASSUME ReplyInv, ExchangeInv, RequestInv, [Next]_vars PROVE RequestInv'
<1>1. CASE UNCHANGED vars
  BY <1>1, OtherRequest DEF vars, requestVars
<1>2. CASE Next
  <2>1. ASSUME NEW r \in Request, Call(r) PROVE RequestInv'
    BY <2>1, CallRequest
  <2>2. CASE ReceiveSegment
    BY <2>2, OtherRequest DEF ReceiveSegment, requestVars
  <2>3. CASE SessionIsCreated
    <3>1. pc = "receive" /\ uplink = <<>>
      BY <2>3, CompleteMeansReceived DEF SessionIsCreated
    <3>2. uplink' # <<>>
      BY <2>3, SendStep DEF SessionIsCreated, ReplyInv, CommandInv
    <3> QED
      BY <2>3, <3>1, <3>2, PartRequest DEF SessionIsCreated, SendCommand, requestVars
  <2>4. CASE CommandIsProcessed
    <3>1. pc = "receive" /\ uplink = <<>>
      BY <2>4, CompleteMeansReceived DEF CommandIsProcessed
    <3> QED
      BY <2>4, <3>1, PartRequest DEF CommandIsProcessed, SendCommand
  <2>5. CASE Done
    BY <2>5, OtherRequest DEF Done, vars, requestVars
  <2> QED
    BY <1>2, <2>1, <2>2, <2>3, <2>4, <2>5, AnswerRequest, RefusalRequest, RaiseRequest, BitRequest,
       ClosedRequest DEF Next
<1> QED
  BY <1>1, <1>2

-----------------------------------------------------------------------------
(* The object that a command fills. *)

\* A command has been processed, and its session is being closed or has been.
Finished == pc = "idle" \/ (pc = "receive" /\ phase = "close")

\* A command fills a new object; but the geometry of a field is added to what
\* its header has filled.
FreshInv ==
  /\ pc = "receive" /\ phase # "close"
  /\ ~ (request.kind = "fields" /\ command = FieldGeometryVariableCommand(index))
  => object = New

\* The variable that a request for one names, and the telegram of its channel,
\* have been read as the sensor has them now.
SingleInv ==
  accepted /\ Finished /\ ~ (before # <<>> /\ calls = 1) =>
    /\ request.kind = "read" =>
         object = Parsed(Reads[request.name].parser,
                         CurrentBytes(sensor, VariableNumber[request.name]))
    /\ request.kind = "telegram" =>
         object = Parsed("Data", CurrentBytes(sensor, 179 + ChannelOf(request.channel))) ++ New

\* The object gets what the parser makes of the variable.
LEMMA ProcessedObject ==
  ASSUME ReplyInv, ExchangeInv, CommandIsProcessed, accepted,
         NEW k \in Known, NEW parser, command = VariableCommand(k, parser)
  PROVE  object' = Parsed(parser, CurrentBytes(sensor, k)) ++ object
<1>1. /\ m_is_complete /\ phase = "execute"
      /\ object' = ProcessReply(command, m_deployed_packet_buffer, object)
  BY DEF CommandIsProcessed
<1>2. pc = "receive" /\ uplink = <<>> /\ downlink = <<>>
  BY <1>1, CompleteMeansReceived
<1>3. m_deployed_packet_buffer = reply
  BY <1>2 DEF ReplyInv, Answered
<1>4. Says(reply, Char.R, Char.A, CurrentBytes(sensor, k))
  BY <1>1, <1>2 DEF ExchangeInv, SaidInv
<1>5. command.accepted = <<Char.R, Char.A>> /\ command.parser = parser
  BY DEF VariableCommand
<1> DEFINE p == ParseTCPSequence(reply)
<1>6. /\ p.command_type = Char.R /\ p.command_mode = Char.A
      /\ p.m_data_vector = CurrentBytes(sensor, k)
  BY <1>4 DEF Says
<1>7. object' = IF IsAccepted(command, p) THEN Parsed(command.parser, p.m_data_vector) ++ object
                ELSE object
  BY <1>1, <1>3 DEF ProcessReply
<1> HIDE DEF p
<1>8. IsAccepted(command, p)
  BY <1>5, <1>6 DEF IsAccepted
<1> QED
  BY <1>5, <1>6, <1>7, <1>8

LEMMA FreshInit == ASSUME Init PROVE FreshInv
BY DEF Init, FreshInv

LEMMA FreshNext == ASSUME ReplyInv, RequestInv, FreshInv, [Next]_vars PROVE FreshInv'
<1>1. ASSUME UNCHANGED <<pc, phase, request, index, command, object>> PROVE FreshInv'
  BY <1>1 DEF FreshInv
<1>2. ASSUME NEW r \in Request, Call(r) PROVE FreshInv'
  BY <1>2 DEF Call, FreshInv
<1>3. CASE SensorAnswers
  BY <1>1, <1>3 DEF SensorAnswers, requestVars
<1>4. CASE SensorRefuses
  BY <1>1, <1>4 DEF SensorRefuses
<1>5. CASE CommandRaises
  BY <1>5 DEF CommandRaises, FreshInv
<1>6. CASE BitChanges
  BY <1>1, <1>6 DEF BitChanges, requestVars
<1>7. CASE ReceiveSegment
  BY <1>1, <1>7 DEF ReceiveSegment, requestVars
<1>8. CASE SessionIsCreated
  <2>1. pc = "receive"
    BY <1>8, CompleteMeansReceived DEF SessionIsCreated
  <2> QED
    BY <1>8, <2>1 DEF SessionIsCreated, requestVars, FreshInv
<1>9. CASE CommandIsProcessed
  BY <1>9 DEF CommandIsProcessed, FreshInv
<1>10. CASE SessionIsClosed
  <2>1. request' = request
    BY <1>10 DEF SessionIsClosed
  <2>2. CASE request.kind = "cases"
    <3>1. MonitoringCaseIsRead
      BY <1>10, <2>2 DEF SessionIsClosed
    <3> QED
      BY <3>1 DEF MonitoringCaseIsRead, NextIndex, Return, FreshInv
  <2>3. CASE request.kind = "fields" /\ command.parser = "FieldHeader"
    <3>1. FieldHeaderIsRead
      BY <1>10, <2>3 DEF SessionIsClosed
    <3>2. CASE object' = New
      BY <3>2 DEF FreshInv
    <3>3. CASE pc' = "idle"
      BY <3>3 DEF FreshInv
    <3>4. CASE CreateAndExecute(FieldGeometryVariableCommand(index)) /\ index' = index
      BY <2>1, <2>3, <3>4 DEF CreateAndExecute, FreshInv
    <3> QED
      BY <3>1, <3>2, <3>3, <3>4 DEF FieldHeaderIsRead, NextIndex, Return
  <2>4. CASE request.kind = "fields" /\ command.parser = "FieldGeometry"
    <3>1. FieldGeometryIsRead
      BY <1>10, <2>4 DEF SessionIsClosed
    <3> QED
      BY <3>1 DEF FieldGeometryIsRead, NextIndex, FreshInv
  <2>5. CASE /\ request.kind # "cases"
             /\ ~ (request.kind = "fields" /\ command.parser = "FieldHeader")
             /\ ~ (request.kind = "fields" /\ command.parser = "FieldGeometry")
    BY <1>10, <2>5 DEF SessionIsClosed, Return, FreshInv
  <2> QED
    BY <2>2, <2>3, <2>4, <2>5
<1>11. CASE UNCHANGED vars
  BY <1>1, <1>11 DEF vars, requestVars
<1> QED
  BY <1>2, <1>3, <1>4, <1>5, <1>6, <1>7, <1>8, <1>9, <1>10, <1>11 DEF Next, Done

Parsers ==
  {"SerialNumber", "FirmwareVersion", "TypeCode", "OrderNumber", "DeviceStatus",
   "RequiredUserAction", "DeviceName", "ProjectName", "StatusOverview", "ConfigMetadata",
   "ApplicationName", "UserName", "PersistentConfig", "CurrentConfig", "FieldSets",
   "none", "MonitoringCase", "FieldHeader", "FieldGeometry"}

LEMMA ParsersOfReads ==
  ASSUME NEW n \in DOMAIN Reads
  PROVE  Reads[n].parser \in Parsers
BY DEF Parsers, Reads, SerialNumberVariableCommand, FirmwareVersionVariableCommand,
       TypeCodeVariableCommand, OrderNumberVariableCommand,
       DeviceStatusVariableCommand, RequiredUserActionVariableCommand,
       DeviceNameVariableCommand, ProjectNameVariableCommand, StatusOverviewVariableCommand,
       ConfigMetadataVariableCommand, ApplicationNameVariableCommand, UserNameVariableCommand,
       MeasurementPersistentConfigVariableCommand, MeasurementCurrentConfigVariableCommand,
       FieldSetsVariableCommand, MonitoringCaseTableHeaderVariableCommand,
       MonitoringCaseVariableCommand, FieldHeaderVariableCommand, FieldGeometryVariableCommand,
       VariableCommand

\* Every parser sets members of an object.
LEMMA ParsedIsFunction ==
  ASSUME NEW p \in Parsers, NEW b
  PROVE  IsFunction(Parsed(p, b))
<1>1. CASE p \in {"SerialNumber", "FirmwareVersion", "OrderNumber", "DeviceName", "ProjectName"}
  <2>1. /\ IsFunction(ParseSerialNumber(b)) /\ IsFunction(ParseFirmwareVersion(b))
        /\ IsFunction(ParseOrderNumber(b)) /\ IsFunction(ParseDeviceName(b))
        /\ IsFunction(ParseProjectName(b))
    BY DEF IsFunction, ParseSerialNumber, ParseFirmwareVersion, ParseOrderNumber, ParseDeviceName,
           ParseProjectName
  <2> QED
    BY <1>1, <2>1 DEF Parsed
<1>2. CASE p \in {"TypeCode", "DeviceStatus", "RequiredUserAction", "none"}
  <2>1. /\ IsFunction(ParseTypeCode(b)) /\ IsFunction(ParseDeviceStatus(b))
        /\ IsFunction(ParseRequiredUserAction(b)) /\ IsFunction([m \in {} |-> 0])
    BY DEF IsFunction, ParseTypeCode, ParseDeviceStatus, ParseRequiredUserAction
  <2> QED
    BY <1>2, <2>1 DEF Parsed
<1>3. CASE p \in {"StatusOverview", "ConfigMetadata", "ApplicationName", "UserName",
                  "PersistentConfig", "CurrentConfig", "FieldSets"}
  <2>1. /\ IsFunction(ParseStatusOverview(b)) /\ IsFunction(ParseConfigMetadata(b))
        /\ IsFunction(ParseApplicationName(b)) /\ IsFunction(ParseUserName(b))
        /\ IsFunction(ParseMeasurementPersistentConfig(b))
        /\ IsFunction(ParseMeasurementCurrentConfig(b)) /\ IsFunction(ParseFieldSets(b))
    BY SetOver, Zenon
       DEF ParseStatusOverview, ParseConfigMetadata, ParseApplicationName, ParseUserName,
           ParseMeasurementPersistentConfig, ParseMeasurementCurrentConfig, ParseFieldSets
  <2> QED
    BY <1>3, <2>1 DEF Parsed
<1>4. CASE p \in {"MonitoringCase", "FieldHeader", "FieldGeometry"}
  <2>1. IsFunction([is_valid |-> FALSE]) /\ IsFunction(ParseMonitoringCase(b))
    BY DEF IsFunction, ParseMonitoringCase
  <2>2. IsFunction(ParseFieldGeometry(b))
    BY DEF IsFunction, ParseFieldGeometry
  <2>3. IsFunction(ParseFieldHeader(b))
    BY <2>1, SetOver, Zenon DEF ParseFieldHeader
  <2> QED
    BY <1>4, <2>1, <2>2, <2>3 DEF Parsed
<1> QED
  BY <1>1, <1>2, <1>3, <1>4 DEF Parsers

LEMMA SingleInit == ASSUME Init PROVE SingleInv
BY DEF Init, SingleInv

\* The command of a request for one variable has been processed.
LEMMA SingleProcessed ==
  ASSUME ReplyInv, ExchangeInv, RequestInv, FreshInv, CommandIsProcessed
  PROVE  SingleInv'
<1>1. /\ m_is_complete /\ phase = "execute"
      /\ request' = request /\ sensor' = sensor /\ accepted' = accepted
  BY DEF CommandIsProcessed
<1>2. pc = "receive"
  BY <1>1, CompleteMeansReceived
<1>3. ASSUME accepted, request.kind = "read"
      PROVE  object' = Parsed(Reads[request.name].parser,
                              CurrentBytes(sensor, VariableNumber[request.name]))
  <2>1. request.name \in DOMAIN Reads /\ command = Reads[request.name]
    BY <1>2, <1>3 DEF RequestInv, CommandShape
  <2>2. PICK n \in DOMAIN Reads : n = request.name
    BY <2>1
  <2>3. VariableNumber[n] \in Known /\ command = VariableCommand(VariableNumber[n], Reads[n].parser)
    BY <2>1, <2>2, ReadsAreNumbered
  <2> DEFINE parsed == Parsed(Reads[n].parser, CurrentBytes(sensor, VariableNumber[n]))
  <2>4. object' = parsed ++ object
    BY <1>3, <2>3, ProcessedObject
  <2>5. IsFunction(parsed)
    BY ParsersOfReads, ParsedIsFunction
  <2>6. object = New
    BY <1>1, <1>2, <1>3 DEF FreshInv
  <2> HIDE DEF parsed
  <2>7. object' = parsed
    BY <2>4, <2>5, <2>6, SetOverNothing
  <2> QED
    BY <2>2, <2>7 DEF parsed
<1>4. ASSUME accepted, request.kind = "telegram"
      PROVE  object' = Parsed("Data", CurrentBytes(sensor, 179 + ChannelOf(request.channel))) ++ New
  <2>1. /\ request.channel \in Channels
        /\ command = LatestTelegramVariableCommand(ChannelOf(request.channel))
    BY <1>2, <1>4 DEF RequestInv, CommandShape
  <2>2. PICK k \in Known : k = 179 + ChannelOf(request.channel)
    BY <2>1, ChannelsAreKnown
  <2>3. command = VariableCommand(k, "Data")
    BY <2>1, <2>2 DEF LatestTelegramVariableCommand
  <2>4. object' = Parsed("Data", CurrentBytes(sensor, k)) ++ object
    BY <1>4, <2>3, ProcessedObject
  <2>5. object = New
    BY <1>1, <1>2, <1>4 DEF FreshInv
  <2> QED
    BY <2>2, <2>4, <2>5
<1> QED
  BY <1>1, <1>3, <1>4 DEF SingleInv

LEMMA SingleNext ==
  ASSUME ReplyInv, ExchangeInv, RequestInv, FreshInv, SingleInv, [Next]_vars
  PROVE  SingleInv'
<1>1. ASSUME UNCHANGED <<pc, phase, request, accepted, before, calls, object>>,
             request.kind \in {"read", "telegram"} => sensor' = sensor
      PROVE  SingleInv'
  BY <1>1 DEF SingleInv, Finished
<1>2. ASSUME NEW r \in Request, Call(r) PROVE SingleInv'
  BY <1>2 DEF Call, CreateAndExecute, SendCommand, SingleInv, Finished
<1>3. CASE SensorAnswers
  BY <1>1, <1>3, AnswerLeaves DEF SensorAnswers, requestVars
<1>4. CASE SensorRefuses
  BY <1>4 DEF SensorRefuses, SingleInv
<1>5. CASE CommandRaises
  BY <1>5 DEF CommandRaises, SingleInv, Finished
<1>6. CASE BitChanges
  <2>1. before' = <<object>> /\ calls' = 1
    BY <1>6 DEF BitChanges
  <2> QED
    BY <2>1 DEF SingleInv
<1>7. CASE ReceiveSegment
  BY <1>1, <1>7 DEF ReceiveSegment, requestVars
<1>8. CASE SessionIsCreated
  BY <1>8 DEF SessionIsCreated, SendCommand, SingleInv, Finished
<1>9. CASE CommandIsProcessed
  BY <1>9, SingleProcessed
<1>10. CASE SessionIsClosed
  <2>1. /\ pc = "receive" /\ phase = "close"
        /\ request' = request /\ accepted' = accepted /\ sensor' = sensor
        /\ before' = before /\ calls' = calls
    BY <1>10 DEF SessionIsClosed
  <2>2. request.kind \in {"read", "telegram"} => object' = object
    BY <1>10 DEF SessionIsClosed
  <2> QED
    BY <2>1, <2>2 DEF SingleInv, Finished
<1>11. CASE UNCHANGED vars
  BY <1>1, <1>11 DEF vars, requestVars
<1> QED
  BY <1>2, <1>3, <1>4, <1>5, <1>6, <1>7, <1>8, <1>9, <1>10, <1>11 DEF Next, Done

-----------------------------------------------------------------------------
(* Reading the settings back. *)

\* The variables of a sensor.
LEMMA ConfigVariable ==
  ASSUME NEW s
  PROVE  VariableBytes(s, 178) = CurrentConfigBytes(s.settings)
BY ShortFixedVariables, NumbersDiffer DEF VariableBytes

LEMMA FixedVariable ==
  ASSUME NEW s, NEW k \in FixedNumbers
  PROVE  VariableBytes(s, k) = FixedVariables[k]
BY ShortFixedVariables, NumbersDiffer DEF VariableBytes

LEMMA GeometryVariable ==
  ASSUME NEW s, NEW k \in 10256 .. 10383
  PROVE  VariableBytes(s, k) = FieldGeometryBytes(k - 10256)
BY ShortFixedVariables, NumbersDiffer DEF VariableBytes

LEMMA HeaderVariable ==
  ASSUME NEW s, NEW k \in 10000 .. 10127
  PROVE  VariableBytes(s, k) = FieldHeaderBytes(FieldExists(s, k - 10000), k - 10000)
BY ShortFixedVariables, NumbersDiffer DEF VariableBytes

LEMMA CaseVariableBytes ==
  ASSUME NEW s, NEW k \in 2101 .. 2354
  PROVE  VariableBytes(s, k) = MonitoringCaseBytes(k - 2101 < s.cases, k - 2101)
<1>1. DOMAIN FixedVariables = FixedNumbers
  BY ShortFixedVariables
<1>2. k # 178 /\ k \notin FixedNumbers
  BY NumbersDiffer
<1>3. k \notin 10000 .. 10127
  OBVIOUS
<1>4. k \notin 10256 .. 10383
  OBVIOUS
<1> QED
  BY <1>1, <1>2, <1>3, <1>4 DEF VariableBytes, MonitoringCaseBytes

\* Unless a bit has changed they are what is read.
LEMMA NothingFlipped ==
  ASSUME NEW s, s.flipped = {}, NEW k
  PROVE  CurrentBytes(s, k) = VariableBytes(s, k)
BY DEF CurrentBytes

\* The members of the settings, but the channel, as they are read from bytes.
SettingsIn(b, s) ==
  /\ readUint8(b, 4) = (IF s.enabled THEN 1 ELSE 0)
  /\ readUint8(b, 5) = s.e_interface_type
  /\ readUint32LittleEndian(b, 8) = s.host_ip
  /\ readUint16LittleEndian(b, 12) = s.host_udp_port
  /\ readUint16LittleEndian(b, 14) = s.publishing_frequency
  /\ readInt32LittleEndian(b, 16) = s.start_angle
  /\ readInt32LittleEndian(b, 20) = s.end_angle
  /\ readUint16LittleEndian(b, 24) = s.features

\* Settings that fit into the telegram.
Fitting(s) ==
  /\ s.channel \in Uint8 /\ s.enabled \in BOOLEAN /\ s.e_interface_type \in Uint8
  /\ s.host_ip \in Uint32 /\ s.host_udp_port \in Uint16 /\ s.publishing_frequency \in Uint16
  /\ s.start_angle \in Int32 /\ s.end_angle \in Int32 /\ s.features \in Uint16

\* They only depend on these bytes.
LEMMA SettingsInPart ==
  ASSUME NEW b, NEW c, NEW s, SettingsIn(b, s), \A i \in 5 .. 26 : c[i] = b[i]
  PROVE  SettingsIn(c, s)
<1>1. /\ c[5] = b[5] /\ c[6] = b[6]
      /\ c[9] = b[9] /\ c[10] = b[10] /\ c[11] = b[11] /\ c[12] = b[12] /\ c[13] = b[13]
      /\ c[14] = b[14] /\ c[15] = b[15] /\ c[16] = b[16] /\ c[17] = b[17] /\ c[18] = b[18]
      /\ c[19] = b[19] /\ c[20] = b[20] /\ c[21] = b[21] /\ c[22] = b[22] /\ c[23] = b[23]
      /\ c[24] = b[24] /\ c[25] = b[25] /\ c[26] = b[26]
  OBVIOUS
<1>2. /\ readUint8(c, 4) = readUint8(b, 4) /\ readUint8(c, 5) = readUint8(b, 5)
      /\ readUint32LittleEndian(c, 8) = readUint32LittleEndian(b, 8)
      /\ readUint16LittleEndian(c, 12) = readUint16LittleEndian(b, 12)
      /\ readUint16LittleEndian(c, 14) = readUint16LittleEndian(b, 14)
      /\ readInt32LittleEndian(c, 16) = readInt32LittleEndian(b, 16)
      /\ readInt32LittleEndian(c, 20) = readInt32LittleEndian(b, 20)
      /\ readUint16LittleEndian(c, 24) = readUint16LittleEndian(b, 24)
  BY <1>1 DEF readUint8, readUint16LittleEndian, readUint32LittleEndian, readInt32LittleEndian
<1> QED
  BY <1>2 DEF SettingsIn

\* The telegram of ChangeCommSettings has each member at the offset at which
\* the configuration of the sensor has it.
LEMMA SettingsWritten ==
  ASSUME NEW s, Fitting(s)
  PROVE  SettingsIn(WriteSettings(s), s)
<1> DEFINE z == Zeros(28)
           a == writeUint8(z, 0, s.channel)
           b == writeUint8(a, 4, IF s.enabled THEN 1 ELSE 0)
           c == writeUint8(b, 5, s.e_interface_type)
           d == writeUint32LittleEndian(c, 8, s.host_ip)
           e == writeUint16LittleEndian(d, 12, s.host_udp_port)
           f == writeUint16LittleEndian(e, 14, s.publishing_frequency)
           g == writeInt32LittleEndian(f, 16, s.start_angle)
           h == writeInt32LittleEndian(g, 20, s.end_angle)
           w == writeUint16LittleEndian(h, 24, s.features)
<1>1. WriteSettings(s) = w
  BY DEF WriteSettings
<1>2. z \in Buffers(28)
  BY DEF Zeros, Buffers, Byte
<1> HIDE DEF z
<1>3. OthersAreKept(28, z, a, 0, 1)
  BY <1>2, ByteReadsBack DEF Fitting
<1> HIDE DEF a
<1>4. readUint8(b, 4) = (IF s.enabled THEN 1 ELSE 0) /\ OthersAreKept(28, a, b, 4, 1)
  <2>1. PICK v \in Uint8 : v = IF s.enabled THEN 1 ELSE 0
    BY DEF Uint8, Byte
  <2>2. a \in Buffers(28)
    BY <1>3 DEF OthersAreKept
  <2> QED
    BY <2>1, <2>2, ByteReadsBack
<1> HIDE DEF b
<1>5. readUint8(c, 5) = s.e_interface_type /\ OthersAreKept(28, b, c, 5, 1)
  <2>1. b \in Buffers(28) /\ s.e_interface_type \in Uint8
    BY <1>4 DEF Fitting, OthersAreKept
  <2> QED
    BY <2>1, ByteReadsBack
<1> HIDE DEF c
<1>6. readUint32LittleEndian(d, 8) = s.host_ip /\ OthersAreKept(28, c, d, 8, 4)
  BY <1>5, Uint32LittleEndianReadsBack DEF Fitting, OthersAreKept
<1> HIDE DEF d
<1>7. readUint16LittleEndian(e, 12) = s.host_udp_port /\ OthersAreKept(28, d, e, 12, 2)
  BY <1>6, Uint16LittleEndianReadsBack DEF Fitting, OthersAreKept
<1> HIDE DEF e
<1>8. readUint16LittleEndian(f, 14) = s.publishing_frequency /\ OthersAreKept(28, e, f, 14, 2)
  BY <1>7, Uint16LittleEndianReadsBack DEF Fitting, OthersAreKept
<1> HIDE DEF f
<1>9. readInt32LittleEndian(g, 16) = s.start_angle /\ OthersAreKept(28, f, g, 16, 4)
  BY <1>8, Int32LittleEndianReadsBack DEF Fitting, OthersAreKept
<1> HIDE DEF g
<1>10. readInt32LittleEndian(h, 20) = s.end_angle /\ OthersAreKept(28, g, h, 20, 4)
  BY <1>9, Int32LittleEndianReadsBack DEF Fitting, OthersAreKept
<1> HIDE DEF h
<1>11. readUint16LittleEndian(w, 24) = s.features /\ OthersAreKept(28, h, w, 24, 2)
  BY <1>10, Uint16LittleEndianReadsBack DEF Fitting, OthersAreKept
<1> HIDE DEF w
<1>12. /\ \A i \in 1 .. 28 : i \notin 25 .. 26 => w[i] = h[i]
       /\ \A i \in 1 .. 28 : i \notin 21 .. 24 => h[i] = g[i]
       /\ \A i \in 1 .. 28 : i \notin 17 .. 20 => g[i] = f[i]
       /\ \A i \in 1 .. 28 : i \notin 15 .. 16 => f[i] = e[i]
       /\ \A i \in 1 .. 28 : i \notin 13 .. 14 => e[i] = d[i]
       /\ \A i \in 1 .. 28 : i \notin 9 .. 12 => d[i] = c[i]
       /\ \A i \in 1 .. 28 : i \notin 6 .. 6 => c[i] = b[i]
  BY <1>5, <1>6, <1>7, <1>8, <1>9, <1>10, <1>11 DEF OthersAreKept
<1>13. /\ w[5] = b[5] /\ w[6] = c[6] /\ w[9] = d[9] /\ w[10] = d[10] /\ w[11] = d[11]
       /\ w[12] = d[12] /\ w[13] = e[13] /\ w[14] = e[14] /\ w[15] = f[15] /\ w[16] = f[16]
       /\ w[17] = g[17] /\ w[18] = g[18] /\ w[19] = g[19] /\ w[20] = g[20] /\ w[21] = h[21]
       /\ w[22] = h[22] /\ w[23] = h[23] /\ w[24] = h[24]
  BY <1>12
<1>14. /\ readUint8(w, 4) = readUint8(b, 4) /\ readUint8(w, 5) = readUint8(c, 5)
       /\ readUint32LittleEndian(w, 8) = readUint32LittleEndian(d, 8)
       /\ readUint16LittleEndian(w, 12) = readUint16LittleEndian(e, 12)
       /\ readUint16LittleEndian(w, 14) = readUint16LittleEndian(f, 14)
       /\ readInt32LittleEndian(w, 16) = readInt32LittleEndian(g, 16)
       /\ readInt32LittleEndian(w, 20) = readInt32LittleEndian(h, 20)
  BY <1>13 DEF readUint8, readUint16LittleEndian, readUint32LittleEndian, readInt32LittleEndian
<1> QED
  BY <1>1, <1>4, <1>5, <1>6, <1>7, <1>8, <1>9, <1>10, <1>11, <1>14 DEF SettingsIn

\* The settings that users want fit.
LEMMA WantedSettings ==
  ASSUME NEW x \in Settings, NEW port \in LocalPort
  PROVE  LET s == WithPort(x, port)
         IN /\ Fitting(s)
            /\ Float(s.start_angle) = s.start_angle /\ Float(s.end_angle) = s.end_angle
<1> DEFINE s == WithPort(x, port)
<1>1. /\ IsA(x, CommSettings) /\ DOMAIN x = DOMAIN CommSettings /\ port \in Uint16
      /\ \A angle \in {x.start_angle, x.end_angle} : angle \in Int32 /\ Float(angle) = angle
  BY SettingsAssumption
<1>2. DOMAIN CommSettings =
        {"host_ip", "host_udp_port", "channel", "enabled", "e_interface_type",
         "publishing_frequency", "start_angle", "end_angle", "features"}
  BY DEF CommSettings, CommunicationMembers
<1>3. /\ x.channel \in Uint8 /\ x.enabled \in BOOLEAN /\ x.e_interface_type \in Uint8
      /\ x.host_ip \in Uint32 /\ x.publishing_frequency \in Uint16 /\ x.features \in Uint16
  BY <1>1, <1>2 DEF IsA, CommSettings, CommunicationMembers
<1>4. /\ s.channel = x.channel /\ s.enabled = x.enabled /\ s.e_interface_type = x.e_interface_type
      /\ s.host_ip = x.host_ip /\ s.publishing_frequency = x.publishing_frequency
      /\ s.features = x.features /\ s.start_angle = x.start_angle /\ s.end_angle = x.end_angle
      /\ s.host_udp_port = port
  BY <1>1, <1>2 DEF WithPort
<1> HIDE DEF s
<1>5. Fitting(s)
  BY <1>1, <1>3, <1>4 DEF Fitting
<1>6. Float(s.start_angle) = s.start_angle /\ Float(s.end_angle) = s.end_angle
  BY <1>1, <1>4
<1> QED
  BY <1>5, <1>6 DEF s

\* The members of the configuration that the user sets.
LEMMA SettingsParsed ==
  ASSUME NEW s, Fitting(s),
         Float(s.start_angle) = s.start_angle, Float(s.end_angle) = s.end_angle,
         NEW b, SettingsIn(b, s), NEW m \in DOMAIN CommSettings \ {"channel"}
  PROVE  ParseMeasurementCurrentConfig(b)[m] = s[m]
<1> DEFINE v == ReadVersion(b)
           r == ReadCommunicationSettings(b)
           d == ReadDerivedSettings(b)
<1>1. m \in {"host_ip", "host_udp_port", "enabled", "e_interface_type",
             "publishing_frequency", "start_angle", "end_angle", "features"}
  BY DEF CommSettings, CommunicationMembers
<1>2. /\ DOMAIN r = {"host_ip", "host_udp_port", "enabled", "e_interface_type",
                     "publishing_frequency", "start_angle", "end_angle", "features"}
      /\ DOMAIN v = {"version_c_version", "version_major_version_number",
                     "version_minor_version_number", "version_release_number"}
  BY DEF ReadVersion, ReadCommunicationSettings
<1>3. m \in DOMAIN r /\ m \notin DOMAIN v
  BY <1>1, <1>2
<1>4. /\ r.host_ip = s.host_ip /\ r.host_udp_port = s.host_udp_port
      /\ r.e_interface_type = s.e_interface_type
      /\ r.publishing_frequency = s.publishing_frequency
      /\ r.start_angle = s.start_angle /\ r.end_angle = s.end_angle /\ r.features = s.features
  BY DEF ReadCommunicationSettings, SettingsIn
<1>5. r.enabled = s.enabled
  <2>1. r.enabled = (readUint8(b, 4) # 0)
    BY DEF ReadCommunicationSettings
  <2>2. readUint8(b, 4) = (IF s.enabled THEN 1 ELSE 0)
    BY DEF SettingsIn
  <2> HIDE DEF r
  <2>3. CASE s.enabled = TRUE
    <3>1. readUint8(b, 4) # 0
      BY <2>2, <2>3
    <3> QED
      BY <2>1, <2>3, <3>1
  <2>4. CASE s.enabled = FALSE
    <3>1. readUint8(b, 4) = 0
      BY <2>2, <2>4
    <3> QED
      BY <2>1, <2>4, <3>1
  <2> QED
    BY <2>3, <2>4 DEF Fitting
<1> HIDE DEF v, r, d
<1>6. r[m] = s[m]
  BY <1>1, <1>4, <1>5
<1> DEFINE c == v ++ r
<1>7. m \in DOMAIN c /\ c[m] = r[m]
  <2>1. /\ DOMAIN (v ++ r) = DOMAIN v \cup DOMAIN r
        /\ \A x \in DOMAIN r : x \notin DOMAIN v => (v ++ r)[x] = r[x]
    BY SetOver, Zenon
  <2> QED
    BY <1>3, <2>1
<1> HIDE DEF c
<1>8. (c ++ d)[m] = c[m]
  <2>1. \A x \in DOMAIN c : (c ++ d)[x] = c[x]
    BY SetOver, Zenon
  <2> QED
    BY <1>7, <2>1
<1> QED
  BY <1>6, <1>7, <1>8 DEF ParseMeasurementCurrentConfig, c, v, r, d

\* The configuration of a sensor with these settings.
LEMMA SettingsInConfig ==
  ASSUME NEW s, Fitting(s)
  PROVE  SettingsIn(CurrentConfigBytes(WriteSettings(s)), s)
<1> DEFINE w == WriteSettings(s)
           part == SubSeq(w, 5, 26)
           old == Filler(48, 29)
           c == Overwritten(old, 4, part)
<1>1. IsBuffer(w, 28) /\ SettingsIn(w, s)
  BY SettingsBuffer, SettingsWritten
<1> HIDE DEF w
<1>2. Len(w) = 28
  BY <1>1, BufferIsSequence
<1>3. CurrentConfigBytes(w) = c
  <2>1. w # <<>>
    BY <1>2
  <2> QED
    BY <2>1 DEF CurrentConfigBytes
<1>4. DOMAIN part = 1 .. 22 /\ \A i \in 1 .. 22 : part[i] = w[i + 4]
  <2>1. PICK V : w \in Seq(V)
    BY <1>1, BufferIsSequence
  <2> QED
    BY <1>2, <2>1
<1>5. IsBuffer(old, 48)
  BY FillerBuffer
<1> HIDE DEF part, old
<1>6. \A i \in 1 .. 48 : c[i] = IF i - 4 \in DOMAIN part THEN part[i - 4] ELSE old[i]
  BY <1>5, OverwrittenBuffer
<1> HIDE DEF c
<1>7. \A i \in 5 .. 26 : c[i] = w[i]
  BY <1>4, <1>6
<1> QED
  BY <1>1, <1>3, <1>7, SettingsInPart DEF w

\* What has been read last is what the user has set.
LEMMA SettingsAreRead ==
  ASSUME RequestInv, SingleInv
  PROVE  SettingsReadBack
<1> SUFFICES ASSUME accepted, pc = "idle", settings # <<>>,
                    request = [kind |-> "read", name |-> "CurrentConfig"],
                    NEW m \in DOMAIN CommSettings \ {"channel"}
             PROVE  object[m] = settings[m]
  BY DEF SettingsReadBack
<1>1. PICK x \in Settings, port \in LocalPort : settings = WithPort(x, port)
  BY DEF RequestInv, SettingsInv
<1>2. /\ Fitting(settings) /\ Float(settings.start_angle) = settings.start_angle
      /\ Float(settings.end_angle) = settings.end_angle
  BY <1>1, WantedSettings
<1>3. request.kind = "read" /\ request.name = "CurrentConfig"
  OBVIOUS
<1>4. sensor.settings = WriteSettings(settings)
  BY DEF RequestInv, SettingsInv
<1>5. before = <<>> /\ sensor.flipped = {}
  BY DEF RequestInv, FlippedInv
<1>6. Reads["CurrentConfig"].parser = "CurrentConfig" /\ VariableNumber["CurrentConfig"] = 178
  BY DEF Reads, VariableNumber, MeasurementCurrentConfigVariableCommand, VariableCommand
<1>7. object = Parsed("CurrentConfig", CurrentBytes(sensor, 178))
  BY <1>3, <1>5, <1>6 DEF SingleInv, Finished
<1>8. CurrentBytes(sensor, 178) = CurrentConfigBytes(WriteSettings(settings))
  <2>1. CurrentBytes(sensor, 178) = VariableBytes(sensor, 178)
    BY <1>5, NothingFlipped
  <2>2. VariableBytes(sensor, 178) = CurrentConfigBytes(sensor.settings)
    BY ConfigVariable
  <2> QED
    BY <1>4, <2>1, <2>2
<1>9. object = ParseMeasurementCurrentConfig(CurrentConfigBytes(WriteSettings(settings)))
  BY <1>7, <1>8 DEF Parsed
<1> QED
  BY <1>2, <1>9, SettingsInConfig, SettingsParsed

-----------------------------------------------------------------------------
(* The latest telegram of a channel. *)

LEMMA ChannelInHeader ==
  ASSUME NEW b
  PROVE  CheckedHeader(b).channel_number = readUint8(b, 12)
<1> DEFINE x == [is_empty |-> FALSE, block |-> SetDataBlocksInDataHeader(b)]
           v == SetVersionInDataHeader(b)
           h == SetScanHeaderInDataHeader(b)
           c == x ++ v
           d == c ++ h
<1>1. DOMAIN x = {"is_empty", "block"}
  OBVIOUS
<1>2. "channel_number" \notin DOMAIN v
  BY DEF SetVersionInDataHeader
<1>3. "channel_number" \in DOMAIN h /\ h["channel_number"] = readUint8(b, 12)
  BY DEF SetScanHeaderInDataHeader
<1> HIDE DEF x, v, h
<1>4. DOMAIN c = DOMAIN x \cup DOMAIN v
  BY SetOver, Zenon
<1>5. "channel_number" \notin DOMAIN c
  BY <1>1, <1>2, <1>4
<1> HIDE DEF c
<1>6. "channel_number" \in DOMAIN d /\ d["channel_number"] = h["channel_number"] /\ IsFunction(d)
  <2>1. /\ DOMAIN (c ++ h) = DOMAIN c \cup DOMAIN h
        /\ \A m \in DOMAIN h : m \notin DOMAIN c => (c ++ h)[m] = h[m]
        /\ IsFunction(c ++ h)
    BY SetOver, Zenon
  <2> QED
    BY <1>3, <1>5, <2>1
<1>7. ParseDataHeader(b) = d
  BY DEF ParseDataHeader, d, c, x, v, h
<1> HIDE DEF d
<1>8. CheckedHeader(b) = d \/ CheckedHeader(b) = [d EXCEPT !.block = NothingPublished]
  BY <1>7 DEF CheckedHeader
<1>9. [d EXCEPT !.block = NothingPublished].channel_number = d["channel_number"]
  BY <1>6
<1> QED
  BY <1>3, <1>6, <1>8, <1>9

LEMMA ChannelOfTelegram ==
  ASSUME NEW channel
  PROVE  readUint8(TelegramOf(channel), 12) = channel
<1> DEFINE b == WholeBytes(TwoBlocks)
           v == <<channel>>
<1>1. TelegramOf(channel) = Overwritten(b, 12, v)
  BY DEF TelegramOf, TwoBlocks, writeUint8
<1>2. IsBuffer(b, 84)
  BY TwoBlocksLength
<1>3. DOMAIN v = 1 .. 1 /\ v[1] = channel
  OBVIOUS
<1> HIDE DEF b, v
<1>4. \A i \in 1 .. 84 : Overwritten(b, 12, v)[i] = IF i - 12 \in DOMAIN v THEN v[i - 12] ELSE b[i]
  BY <1>2, OverwrittenBuffer
<1>5. Overwritten(b, 12, v)[13] = channel
  BY <1>3, <1>4
<1> QED
  BY <1>1, <1>5 DEF readUint8

\* The user gets the telegram of the channel that has been asked for.
LEMMA TelegramIsOfChannel ==
  ASSUME RequestInv, SingleInv, accepted, pc = "idle", request.kind = "telegram",
         request.channel \in Channels
  PROVE  object.header.channel_number = ChannelOf(request.channel)
<1> DEFINE b == CurrentBytes(sensor, 179 + ChannelOf(request.channel))
           o == SetDataBlocksInData(b, 0, 0, 0).data
<1>1. before = <<>> /\ sensor.flipped = {}
  BY DEF RequestInv, FlippedInv
<1>2. object = Parsed("Data", b) ++ New
  BY <1>1 DEF SingleInv, Finished
<1>3. object = o ++ New
  BY <1>2 DEF Parsed
<1>4. b = TelegramOf(ChannelOf(request.channel))
  <2>1. PICK c \in 0 .. 3 : c = ChannelOf(request.channel)
    BY ChannelsAreKnown
  <2>2. 179 + c \in FixedNumbers /\ FixedVariables[179 + c] = TelegramOf(c)
    <3>1. 179 + c \in 179 .. 182 /\ (179 + c) - 179 = c
      OBVIOUS
    <3>2. \A x \in 179 .. 182 : FixedVariables[x] = TelegramOf(x - 179)
      BY DEF FixedVariables
    <3> QED
      BY <3>1, <3>2 DEF FixedNumbers
  <2>3. VariableBytes(sensor, 179 + c) = FixedVariables[179 + c]
    BY <2>2, FixedVariable
  <2>4. CurrentBytes(sensor, 179 + c) = VariableBytes(sensor, 179 + c)
    BY <1>1, NothingFlipped
  <2> QED
    BY <2>1, <2>2, <2>3, <2>4
<1> HIDE DEF b
<1>5. "header" \in DOMAIN o /\ o["header"] = CheckedHeader(b)
  BY DEF SetDataBlocksInData
<1> HIDE DEF o
<1>6. (o ++ New)["header"] = o["header"]
  <2>1. \A m \in DOMAIN o : (o ++ New)[m] = o[m]
    BY SetOver, Zenon
  <2> QED
    BY <1>5, <2>1
<1> QED
  BY <1>3, <1>4, <1>5, <1>6, ChannelInHeader, ChannelOfTelegram

-----------------------------------------------------------------------------
(* The fields and monitoring cases of a sensor, one after the other. *)

\* The header of a field that exists, and the field.
ExistingHeader(i) == ParseFieldHeader(FieldHeaderBytes(TRUE, i))
FieldOf(i) == ParseFieldGeometry(FieldGeometryBytes(i)) ++ ExistingHeader(i)

\* The contour, if there is one, and the other fields below n.
Contour(s, n) == IF s.contour /\ n > 0 THEN <<FieldOf(0)>> ELSE <<>>
Others(n) == [i \in 1 .. (n - 1) |-> FieldOf(i)]
FieldsBelow(s, n) == Contour(s, n) \o Others(n)

AllFields == {FieldOf(i) : i \in Nat}

LEMMA FieldSequences ==
  ASSUME NEW s, NEW n \in Nat
  PROVE  /\ Contour(s, n) \in Seq(AllFields) /\ Others(n) \in Seq(AllFields)
         /\ n > 0 => Len(Others(n)) = n - 1
         /\ n = 0 => Others(n) = <<>>
<1>1. \A i \in Nat : FieldOf(i) \in AllFields
  BY DEF AllFields
<1>2. <<FieldOf(0)>> \in Seq(AllFields) /\ <<>> \in Seq(AllFields)
  BY <1>1
<1>3. Contour(s, n) \in Seq(AllFields)
  BY <1>2 DEF Contour
<1>4. CASE n > 0
  <2>1. n - 1 \in Nat /\ \A i \in 1 .. (n - 1) : i \in Nat
    BY <1>4
  <2>2. Others(n) \in [1 .. (n - 1) -> AllFields]
    BY <1>1, <2>1 DEF Others
  <2>3. Others(n) \in Seq(AllFields) /\ Len(Others(n)) = n - 1
    BY <2>1, <2>2
  <2> QED
    BY <1>3, <1>4, <2>3
<1>5. CASE n = 0
  <2>1. 1 .. (n - 1) = {}
    BY <1>5
  <2>2. Others(n) = <<>>
    BY <2>1 DEF Others
  <2>3. Others(n) \in Seq(AllFields)
    BY <1>2, <2>2
  <2>4. ~ n > 0
    BY <1>5
  <2> QED
    BY <1>3, <2>2, <2>3, <2>4
<1> QED
  BY <1>4, <1>5

LEMMA NoFields ==
  ASSUME NEW s
  PROVE  /\ FieldsBelow(s, 0) = <<>>
         /\ ~ s.contour => FieldsBelow(s, 1) = <<>>
<1>1. Others(0) = <<>> /\ Others(1) = <<>>
  BY DEF Others
<1>2. Contour(s, 0) = <<>> /\ (~ s.contour => Contour(s, 1) = <<>>)
  BY DEF Contour
<1>3. <<>> \o <<>> = <<>>
  OBVIOUS
<1> QED
  BY <1>1, <1>2, <1>3 DEF FieldsBelow

LEMMA OneFieldMore ==
  ASSUME NEW s, NEW n \in Nat, FieldExists(s, n)
  PROVE  Append(FieldsBelow(s, n), FieldOf(n)) = FieldsBelow(s, n + 1)
<1>1. CASE n = 0
  <2>1. s.contour
    BY <1>1 DEF FieldExists
  <2>2. FieldsBelow(s, n) = <<>> /\ n + 1 = 1
    BY <1>1, NoFields
  <2>3. Contour(s, 1) = <<FieldOf(0)>>
    BY <2>1 DEF Contour
  <2>4. Others(1) = <<>>
    BY DEF Others
  <2>5. Append(<<>>, FieldOf(0)) = <<FieldOf(0)>> /\ <<FieldOf(0)>> \o <<>> = <<FieldOf(0)>>
    OBVIOUS
  <2> QED
    BY <1>1, <2>2, <2>3, <2>4, <2>5 DEF FieldsBelow
<1>2. CASE n > 0
  <2>1. Contour(s, n) \in Seq(AllFields) /\ Others(n) \in Seq(AllFields)
    BY FieldSequences
  <2>2. Contour(s, n + 1) = Contour(s, n)
    BY <1>2 DEF Contour
  <2>3. FieldOf(n) \in AllFields
    BY DEF AllFields
  <2>4. Append(Others(n), FieldOf(n)) = Others(n + 1)
    <3>1. /\ \A i \in 1 .. (n - 1) : Others(n)[i] = FieldOf(i)
          /\ \A i \in 1 .. n : Others(n + 1)[i] = FieldOf(i)
      BY <1>2 DEF Others
    <3>2. /\ Len(Others(n)) = n - 1 /\ Len(Others(n + 1)) = n
          /\ Others(n + 1) \in Seq(AllFields)
      <4>1. n + 1 \in Nat /\ n + 1 > 0 /\ (n + 1) - 1 = n
        BY <1>2
      <4> QED
        BY <1>2, <4>1, FieldSequences
    <3> DEFINE longer == Append(Others(n), FieldOf(n))
               all == Others(n + 1)
    <3>3. /\ longer \in Seq(AllFields) /\ Len(longer) = n /\ longer[n] = FieldOf(n)
          /\ \A i \in 1 .. (n - 1) : longer[i] = Others(n)[i]
      BY <1>2, <2>1, <2>3, <3>2, AppendProperties
    <3> HIDE DEF longer, all
    <3>4. \A i \in 1 .. Len(longer) : longer[i] = all[i]
      BY <1>2, <3>1, <3>3 DEF all
    <3>5. longer = all
      BY <3>2, <3>3, <3>4, SeqEqual DEF all
    <3> QED
      BY <3>5 DEF longer, all
  <2>5. Contour(s, n) \o Append(Others(n), FieldOf(n))
        = Append(Contour(s, n) \o Others(n), FieldOf(n))
    <3>1. \A p, q \in Seq(AllFields) : \A x \in AllFields : p \o Append(q, x) = Append(p \o q, x)
      BY ConcatAppend
    <3> QED
      BY <2>1, <2>3, <3>1
  <2> QED
    BY <2>2, <2>4, <2>5 DEF FieldsBelow
<1> QED
  BY <1>1, <1>2

LEMMA AllFieldsBelow ==
  ASSUME NEW s, s.fields \in Nat
  PROVE  FieldsOf(s) = FieldsBelow(s, s.fields + 1)
<1>1. s.fields + 1 > 0 /\ (s.fields + 1) - 1 = s.fields
  OBVIOUS
<1> QED
  BY <1>1 DEF FieldsOf, FieldsBelow, Contour, Others, FieldOf, ExistingHeader

\* A sequence is a prefix of another one that has its elements.
LEMMA PrefixOfLonger ==
  ASSUME NEW S, NEW a \in Seq(S), NEW b \in Seq(S), Len(a) <= Len(b),
         \A i \in 1 .. Len(a) : a[i] = b[i]
  PROVE  IsPrefix(a, b)
<1>1. SubSeq(a, 1, Len(a)) = SubSeq(b, 1, Len(a))
  OBVIOUS
<1> QED
  BY <1>1 DEF IsPrefix

\* What is put before a prefix and before the longer sequence does not matter.
LEMMA PrefixBehind ==
  ASSUME NEW S, NEW a \in Seq(S), NEW p \in Seq(S), NEW q \in Seq(S), Len(p) <= Len(q),
         \A i \in 1 .. Len(p) : p[i] = q[i]
  PROVE  IsPrefix(a \o p, a \o q)
<1>1. /\ a \o p \in Seq(S) /\ a \o q \in Seq(S)
      /\ Len(a \o p) = Len(a) + Len(p) /\ Len(a \o q) = Len(a) + Len(q)
      /\ Len(a) \in Nat /\ Len(p) \in Nat /\ Len(q) \in Nat
  OBVIOUS
<1>2. ASSUME NEW i \in 1 .. Len(a \o p) PROVE (a \o p)[i] = (a \o q)[i]
  <2>1. CASE i <= Len(a)
    BY <1>1, <2>1
  <2>2. CASE i > Len(a)
    <3>1. (a \o p)[i] = p[i - Len(a)] /\ (a \o q)[i] = q[i - Len(a)]
      BY <1>1, <2>2
    <3>2. i - Len(a) \in 1 .. Len(p)
      BY <1>1, <2>2
    <3> QED
      BY <3>1, <3>2
  <2> QED
    BY <2>1, <2>2, <1>1
<1>3. Len(a \o p) <= Len(a \o q)
  BY <1>1
<1> QED
  BY <1>1, <1>2, <1>3, PrefixOfLonger, Zenon

LEMMA FirstFields ==
  ASSUME NEW s, s.fields \in Nat, NEW n \in Nat, n <= s.fields + 1
  PROVE  IsPrefix(FieldsBelow(s, n), FieldsOf(s))
<1>1. PICK m \in Nat : m = s.fields + 1 /\ m > 0 /\ n <= m
  OBVIOUS
<1>2. /\ Contour(s, n) \in Seq(AllFields) /\ Others(n) \in Seq(AllFields)
      /\ Contour(s, m) \in Seq(AllFields) /\ Others(m) \in Seq(AllFields)
  BY FieldSequences
<1>3. FieldsOf(s) = Contour(s, m) \o Others(m)
  BY <1>1, AllFieldsBelow DEF FieldsBelow
<1>4. CASE n = 0
  <2>1. FieldsBelow(s, n) = <<>>
    BY <1>4, NoFields
  <2> DEFINE all == Contour(s, m) \o Others(m)
             few == <<>>
  <2>2. all \in Seq(AllFields) /\ few \in Seq(AllFields)
    BY <1>2
  <2>3. Len(few) <= Len(all) /\ \A i \in 1 .. Len(few) : few[i] = all[i]
    BY <2>2
  <2> HIDE DEF few, all
  <2>4. IsPrefix(few, all)
    BY <2>2, <2>3, PrefixOfLonger
  <2> QED
    BY <1>3, <2>1, <2>4 DEF few, all
<1>5. CASE n > 0
  <2>1. Contour(s, m) = Contour(s, n)
    BY <1>1, <1>5 DEF Contour
  <2>2. Len(Others(n)) = n - 1
    BY <1>5, FieldSequences
  <2>3. Len(Others(m)) = m - 1
    BY <1>1, FieldSequences
  <2>4. \A i \in 1 .. Len(Others(n)) : Others(n)[i] = Others(m)[i]
    BY <1>1, <1>5, <2>2 DEF Others
  <2>5. Len(Others(n)) <= Len(Others(m))
    BY <1>1, <2>2, <2>3
  <2>6. IsPrefix(Contour(s, n) \o Others(n), Contour(s, n) \o Others(m))
    BY <1>2, <2>4, <2>5, PrefixBehind, Zenon
  <2> QED
    BY <1>3, <2>1, <2>6 DEF FieldsBelow
<1> QED
  BY <1>4, <1>5

\* The monitoring cases, of which the first n are looked at.
CaseOf(i) == ParseMonitoringCase(MonitoringCaseBytes(TRUE, i))
CasesBelow(n) == [i \in 1 .. n |-> CaseOf(i - 1)]

AllCases == {CaseOf(i - 1) : i \in Nat}

LEMMA CaseSequences ==
  ASSUME NEW n \in Nat
  PROVE  /\ CasesBelow(n) \in Seq(AllCases) /\ Len(CasesBelow(n)) = n
         /\ \A i \in 1 .. n : CasesBelow(n)[i] = CaseOf(i - 1)
<1>1. CasesBelow(n) \in [1 .. n -> AllCases] /\ \A i \in 1 .. n : CasesBelow(n)[i] = CaseOf(i - 1)
  BY DEF CasesBelow, AllCases
<1> QED
  BY <1>1

LEMMA OneCaseMore ==
  ASSUME NEW n \in Nat
  PROVE  Append(CasesBelow(n), CaseOf(n)) = CasesBelow(n + 1)
<1> DEFINE longer == Append(CasesBelow(n), CaseOf(n))
           all == CasesBelow(n + 1)
<1>1. n + 1 \in Nat /\ (n + 1) - 1 = n
  OBVIOUS
<1>2. CaseOf(n) \in AllCases
  BY <1>1 DEF AllCases
<1>3. /\ all \in Seq(AllCases) /\ Len(all) = n + 1
      /\ \A i \in 1 .. (n + 1) : all[i] = CaseOf(i - 1)
  BY <1>1, CaseSequences
<1>4. /\ CasesBelow(n) \in Seq(AllCases) /\ Len(CasesBelow(n)) = n
      /\ \A i \in 1 .. n : CasesBelow(n)[i] = CaseOf(i - 1)
  BY CaseSequences
<1>5. /\ longer \in Seq(AllCases) /\ Len(longer) = n + 1 /\ longer[n + 1] = CaseOf(n)
      /\ \A i \in 1 .. n : longer[i] = CasesBelow(n)[i]
  BY <1>2, <1>4, AppendProperties
<1> HIDE DEF longer, all
<1>6. \A i \in 1 .. Len(longer) : longer[i] = all[i]
  BY <1>1, <1>3, <1>4, <1>5
<1>7. longer = all
  BY <1>3, <1>5, <1>6, SeqEqual
<1> QED
  BY <1>7 DEF longer, all

LEMMA FirstCases ==
  ASSUME NEW m \in Nat, NEW n \in Nat, n <= m
  PROVE  IsPrefix(CasesBelow(n), CasesBelow(m))
<1>1. /\ CasesBelow(n) \in Seq(AllCases) /\ Len(CasesBelow(n)) = n
      /\ CasesBelow(m) \in Seq(AllCases) /\ Len(CasesBelow(m)) = m
  BY CaseSequences
<1>2. \A i \in 1 .. n : CasesBelow(n)[i] = CaseOf(i - 1)
  BY CaseSequences
<1>3. \A i \in 1 .. m : CasesBelow(m)[i] = CaseOf(i - 1)
  BY CaseSequences
<1>4. \A i \in 1 .. Len(CasesBelow(n)) : CasesBelow(n)[i] = CasesBelow(m)[i]
  BY <1>1, <1>2, <1>3
<1>5. Len(CasesBelow(n)) <= Len(CasesBelow(m))
  BY <1>1
<1> QED
  BY <1>1, <1>4, <1>5, PrefixOfLonger, Zenon

-----------------------------------------------------------------------------
(* What is read of fields and monitoring cases. *)

NotThere == [is_valid |-> FALSE]

\* The first byte tells whether there is a field or monitoring case.
LEMMA FirstByte ==
  ASSUME NEW b, NEW n \in Nat, n > 0, IsBuffer(b, n), NEW v
  PROVE  readUint8(writeUint8(b, 0, v), 0) = v
<1>1. DOMAIN <<v>> = 1 .. 1 /\ <<v>>[1] = v
  OBVIOUS
<1>2. \A i \in 1 .. n :
        Overwritten(b, 0, <<v>>)[i] = IF i - 0 \in DOMAIN <<v>> THEN <<v>>[i - 0] ELSE b[i]
  BY OverwrittenBuffer
<1>3. 1 \in 1 .. n /\ 1 - 0 = 1 /\ 0 + 1 = 1
  OBVIOUS
<1>4. Overwritten(b, 0, <<v>>)[1] = v
  BY <1>1, <1>2, <1>3
<1> QED
  BY <1>3, <1>4 DEF readUint8, writeUint8

\* The bytes of a header, but for its first.
HeaderRest(i) == writeUint32LittleEndian(Filler(88 + 3, i), 84, 3)

LEMMA HeaderFirstByte ==
  ASSUME NEW i, NEW v
  PROVE  readUint8(writeUint8(HeaderRest(i), 0, v), 0) = v
<1>1. PICK n \in Nat : n = 88 + 3 /\ n > 0
  OBVIOUS
<1>2. IsBuffer(Filler(88 + 3, i), n)
  BY <1>1, FillerBuffer
<1>3. IsBuffer(HeaderRest(i), n)
  BY <1>2, OverwrittenBuffer DEF HeaderRest, writeUint32LittleEndian
<1> QED
  BY <1>1, <1>3, FirstByte

LEMMA HeaderBytesOf ==
  ASSUME NEW i, NEW e \in BOOLEAN
  PROVE  /\ e = TRUE => FieldHeaderBytes(e, i) = writeUint8(HeaderRest(i), 0, Char.R)
         /\ e = FALSE => FieldHeaderBytes(e, i) = writeUint8(HeaderRest(i), 0, 0)
BY DEF FieldHeaderBytes, HeaderRest

LEMMA HeaderParsed ==
  ASSUME NEW i
  PROVE  /\ "is_valid" \in DOMAIN ExistingHeader(i) /\ ExistingHeader(i)["is_valid"] = TRUE
         /\ IsFunction(ExistingHeader(i))
         /\ ParseFieldHeader(writeUint8(HeaderRest(i), 0, Char.R)) = ExistingHeader(i)
         /\ ParseFieldHeader(writeUint8(HeaderRest(i), 0, 0)) = NotThere
<1> DEFINE b == writeUint8(HeaderRest(i), 0, Char.R)
           d == writeUint8(HeaderRest(i), 0, 0)
<1>1. readUint8(b, 0) = Char.R /\ readUint8(d, 0) = 0
  BY HeaderFirstByte
<1>2. FieldHeaderBytes(TRUE, i) = b
  BY HeaderBytesOf
<1> HIDE DEF b, d
<1>3. IsValid(b) /\ ~ IsValid(d)
  BY <1>1 DEF IsValid, Char
<1>4. ParseFieldHeader(d) = NotThere
  BY <1>3 DEF ParseFieldHeader, NotThere
<1>5. ExistingHeader(i) = ParseFieldHeader(b)
  BY <1>2, Zenon DEF ExistingHeader
<1> DEFINE x == [is_valid |-> TRUE]
           y == x ++ SetFieldType(b)
           z == y ++ ReadVersion(b)
           h == z ++ ReadFieldHeader(b)
<1>6. "is_valid" \in DOMAIN x /\ x["is_valid"] = TRUE
  OBVIOUS
<1>7. ParseFieldHeader(b) = h
  BY <1>3 DEF ParseFieldHeader
<1> HIDE DEF x
<1>8. "is_valid" \in DOMAIN y /\ y["is_valid"] = x["is_valid"]
  <2>1. /\ DOMAIN y = DOMAIN x \cup DOMAIN SetFieldType(b)
        /\ \A m \in DOMAIN x : y[m] = x[m]
    BY SetOver, Zenon
  <2> QED
    BY <1>6, <2>1
<1> HIDE DEF y
<1>9. "is_valid" \in DOMAIN z /\ z["is_valid"] = y["is_valid"]
  <2>1. /\ DOMAIN z = DOMAIN y \cup DOMAIN ReadVersion(b)
        /\ \A m \in DOMAIN y : z[m] = y[m]
    BY SetOver, Zenon
  <2> QED
    BY <1>8, <2>1
<1> HIDE DEF z
<1>10. "is_valid" \in DOMAIN h /\ h["is_valid"] = z["is_valid"] /\ IsFunction(h)
  <2>1. /\ DOMAIN h = DOMAIN z \cup DOMAIN ReadFieldHeader(b)
        /\ \A m \in DOMAIN z : h[m] = z[m]
        /\ IsFunction(h)
    BY SetOver, Zenon
  <2> QED
    BY <1>9, <2>1
<1> HIDE DEF h
<1> QED
  BY <1>4, <1>5, <1>6, <1>7, <1>8, <1>9, <1>10 DEF b, d

LEMMA ThereIsHeader ==
  \A i : ParseFieldHeader(writeUint8(HeaderRest(i), 0, Char.R)) = ExistingHeader(i)
BY HeaderParsed, Zenon

LEMMA ThereIsNoHeader == \A i : ParseFieldHeader(writeUint8(HeaderRest(i), 0, 0)) = NotThere
BY HeaderParsed, Zenon

\* The header and the geometry that a sensor sends of a field.
LEMMA FieldRead ==
  ASSUME NEW s, s.flipped = {}, NEW i \in 0 .. 127
  PROVE  /\ FieldExists(s, i) => ParseFieldHeader(CurrentBytes(s, 10000 + i)) = ExistingHeader(i)
         /\ ~ FieldExists(s, i) => ParseFieldHeader(CurrentBytes(s, 10000 + i)) = NotThere
         /\ ParseFieldGeometry(CurrentBytes(s, 10256 + i))
            = ParseFieldGeometry(FieldGeometryBytes(i))
<1>1. PICK k \in 10000 .. 10127 : k = 10000 + i /\ k - 10000 = i
  OBVIOUS
<1>2. PICK l \in 10256 .. 10383 : l = 10256 + i /\ l - 10256 = i
  OBVIOUS
<1>3. CurrentBytes(s, k) = VariableBytes(s, k) /\ CurrentBytes(s, l) = VariableBytes(s, l)
  BY NothingFlipped
<1>4. VariableBytes(s, l) = FieldGeometryBytes(i)
  BY <1>2, GeometryVariable
<1>5. VariableBytes(s, k) = writeUint8(HeaderRest(i), 0, IF FieldExists(s, i) THEN Char.R ELSE 0)
  <2>1. VariableBytes(s, k) = FieldHeaderBytes(FieldExists(s, k - 10000), k - 10000)
    BY HeaderVariable
  <2> QED
    BY <1>1, <2>1 DEF FieldHeaderBytes, HeaderRest
<1>6. ASSUME FieldExists(s, i)
      PROVE  ParseFieldHeader(CurrentBytes(s, 10000 + i)) = ExistingHeader(i)
  <2>1. CurrentBytes(s, 10000 + i) = writeUint8(HeaderRest(i), 0, Char.R)
    BY <1>1, <1>3, <1>5, <1>6
  <2>2. ParseFieldHeader(writeUint8(HeaderRest(i), 0, Char.R)) = ExistingHeader(i)
    BY ThereIsHeader
  <2> QED
    BY <2>1, <2>2
<1>7. ASSUME ~ FieldExists(s, i)
      PROVE  ParseFieldHeader(CurrentBytes(s, 10000 + i)) = NotThere
  <2>1. CurrentBytes(s, 10000 + i) = writeUint8(HeaderRest(i), 0, 0)
    BY <1>1, <1>3, <1>5, <1>7
  <2>2. ParseFieldHeader(writeUint8(HeaderRest(i), 0, 0)) = NotThere
    BY ThereIsNoHeader
  <2> QED
    BY <2>1, <2>2
<1> QED
  BY <1>2, <1>3, <1>4, <1>6, <1>7

LEMMA CaseParsed ==
  ASSUME NEW i
  PROVE  /\ "is_valid" \in DOMAIN CaseOf(i) /\ CaseOf(i)["is_valid"] = TRUE
         /\ IsFunction(CaseOf(i))
         /\ ParseMonitoringCase(writeUint8(Filler(188, i), 0, Char.Y)) = CaseOf(i)
         /\ ParseMonitoringCase(writeUint8(Filler(188, i), 0, 0)) = NotThere
<1> DEFINE b == writeUint8(Filler(188, i), 0, Char.Y)
           d == writeUint8(Filler(188, i), 0, 0)
<1>1. readUint8(b, 0) = Char.Y /\ readUint8(d, 0) = 0
  <2>1. PICK n \in Nat : n = 188 /\ n > 0
    OBVIOUS
  <2>2. IsBuffer(Filler(188, i), n)
    BY <2>1, FillerBuffer
  <2> QED
    BY <2>1, <2>2, FirstByte
<1>2. MonitoringCaseBytes(TRUE, i) = b
  BY DEF MonitoringCaseBytes
<1> HIDE DEF b, d
<1>3. IsValid(b) /\ ~ IsValid(d)
  BY <1>1 DEF IsValid, Char
<1>4. ParseMonitoringCase(d) = NotThere
  BY <1>3 DEF ParseMonitoringCase, NotThere
<1>5. CaseOf(i) = ParseMonitoringCase(b)
  BY <1>2, Zenon DEF CaseOf
<1>6. LET c == ParseMonitoringCase(b)
      IN "is_valid" \in DOMAIN c /\ c["is_valid"] = TRUE /\ IsFunction(c)
  BY <1>3 DEF ParseMonitoringCase, IsFunction
<1> QED
  BY <1>4, <1>5, <1>6 DEF b, d

LEMMA ThereIsCase ==
  \A i : ParseMonitoringCase(writeUint8(Filler(188, i), 0, Char.Y)) = CaseOf(i)
BY CaseParsed, Zenon

LEMMA ThereIsNoCase ==
  \A i : ParseMonitoringCase(writeUint8(Filler(188, i), 0, 0)) = NotThere
BY CaseParsed, Zenon

LEMMA CaseRead ==
  ASSUME NEW s, s.flipped = {}, NEW i \in 0 .. 253
  PROVE  /\ i < s.cases => ParseMonitoringCase(CurrentBytes(s, 2101 + i)) = CaseOf(i)
         /\ ~ i < s.cases => ParseMonitoringCase(CurrentBytes(s, 2101 + i)) = NotThere
<1>1. PICK k \in 2101 .. 2354 : k = 2101 + i /\ k - 2101 = i
  OBVIOUS
<1>2. CurrentBytes(s, k) = VariableBytes(s, k)
  BY NothingFlipped
<1>3. VariableBytes(s, k) = writeUint8(Filler(188, i), 0, IF i < s.cases THEN Char.Y ELSE 0)
  <2>1. VariableBytes(s, k) = MonitoringCaseBytes(k - 2101 < s.cases, k - 2101)
    BY CaseVariableBytes
  <2> QED
    BY <1>1, <2>1 DEF MonitoringCaseBytes
<1>4. ASSUME i < s.cases PROVE ParseMonitoringCase(CurrentBytes(s, 2101 + i)) = CaseOf(i)
  <2>1. CurrentBytes(s, 2101 + i) = writeUint8(Filler(188, i), 0, Char.Y)
    BY <1>1, <1>2, <1>3, <1>4
  <2>2. ParseMonitoringCase(writeUint8(Filler(188, i), 0, Char.Y)) = CaseOf(i)
    BY ThereIsCase
  <2> QED
    BY <2>1, <2>2
<1>5. ASSUME ~ i < s.cases PROVE ParseMonitoringCase(CurrentBytes(s, 2101 + i)) = NotThere
  <2>1. CurrentBytes(s, 2101 + i) = writeUint8(Filler(188, i), 0, 0)
    BY <1>1, <1>2, <1>3, <1>5
  <2>2. ParseMonitoringCase(writeUint8(Filler(188, i), 0, 0)) = NotThere
    BY ThereIsNoCase
  <2> QED
    BY <2>1, <2>2
<1> QED
  BY <1>4, <1>5

-----------------------------------------------------------------------------
(* The request for the fields. *)

\* The fields below index have been read.  The header of a field is followed
\* by its geometry if the field exists.
FieldsInv ==
  request.kind = "fields" /\ accepted =>
    /\ pc = "idle" => objects = FieldsOf(sensor)
    /\ pc # "idle" => index <= sensor.fields + 1 /\ objects = FieldsBelow(sensor, index)
    /\ pc = "receive" /\ phase = "close" /\ command = FieldHeaderVariableCommand(index) =>
         object = IF FieldExists(sensor, index) THEN ExistingHeader(index) ELSE NotThere
    /\ pc = "receive" /\ command = FieldGeometryVariableCommand(index) =>
         /\ FieldExists(sensor, index)
         /\ object = IF phase = "close" THEN FieldOf(index) ELSE ExistingHeader(index)

LEMMA FieldsInit == ASSUME Init PROVE FieldsInv
BY DEF Init, FieldsInv

LEMMA FieldCommands ==
  ASSUME NEW i, NEW j
  PROVE  /\ FieldHeaderVariableCommand(i).parser = "FieldHeader"
         /\ FieldGeometryVariableCommand(i).parser = "FieldGeometry"
         /\ FieldHeaderVariableCommand(i) # FieldGeometryVariableCommand(j)
BY DEF FieldHeaderVariableCommand, FieldGeometryVariableCommand, VariableCommand

\* getIsValid tells whether the field or the monitoring case exists.
LEMMA ValidityIsRead ==
  ASSUME NEW valid, IsValidAtLast(valid)
  PROVE  /\ \A i : object = ExistingHeader(i) => valid = TRUE
         /\ \A i : object = CaseOf(i) => valid = TRUE
         /\ object = NotThere => valid = FALSE
<1>1. ASSUME NEW i, object = ExistingHeader(i) PROVE valid = TRUE
  <2>1. "is_valid" \in DOMAIN object /\ object["is_valid"] = TRUE
    BY <1>1, HeaderParsed, Zenon
  <2> QED
    BY <2>1 DEF IsValidAtLast
<1>2. ASSUME NEW i, object = CaseOf(i) PROVE valid = TRUE
  <2>1. "is_valid" \in DOMAIN object /\ object["is_valid"] = TRUE
    BY <1>2, CaseParsed, Zenon
  <2> QED
    BY <2>1 DEF IsValidAtLast
<1>3. ASSUME object = NotThere PROVE valid = FALSE
  BY <1>3 DEF IsValidAtLast, NotThere
<1> QED
  BY <1>1, <1>2, <1>3

LEMMA FieldsProcessed ==
  ASSUME ReplyInv, ExchangeInv, RequestInv, FreshInv, FieldsInv, CommandIsProcessed
  PROVE  FieldsInv'
<1>1. /\ m_is_complete /\ phase = "execute" /\ phase' = "close" /\ pc' = "receive"
      /\ request' = request /\ sensor' = sensor /\ accepted' = accepted
      /\ index' = index /\ objects' = objects /\ command' = command
  BY DEF CommandIsProcessed, SendCommand
<1>2. pc = "receive"
  BY <1>1, CompleteMeansReceived
<1> SUFFICES ASSUME request.kind = "fields", accepted
             PROVE  /\ command = FieldHeaderVariableCommand(index) =>
                         object' = IF FieldExists(sensor, index) THEN ExistingHeader(index)
                                    ELSE NotThere
                    /\ command = FieldGeometryVariableCommand(index) =>
                         object' = FieldOf(index)
  BY <1>1, <1>2 DEF FieldsInv
<1>3. index \in 0 .. 127 /\ 10000 + index \in Known /\ 10256 + index \in Known
  BY IndexesAreKnown
<1>4. sensor.flipped = {}
  BY DEF RequestInv, FlippedInv
<1>5. /\ FieldExists(sensor, index) =>
           ParseFieldHeader(CurrentBytes(sensor, 10000 + index)) = ExistingHeader(index)
      /\ ~ FieldExists(sensor, index) =>
           ParseFieldHeader(CurrentBytes(sensor, 10000 + index)) = NotThere
      /\ ParseFieldGeometry(CurrentBytes(sensor, 10256 + index))
           = ParseFieldGeometry(FieldGeometryBytes(index))
  BY <1>3, <1>4, FieldRead
<1>6. ASSUME command = FieldHeaderVariableCommand(index)
      PROVE  object' = IF FieldExists(sensor, index) THEN ExistingHeader(index) ELSE NotThere
  <2>1. PICK k \in Known : k = 10000 + index
    BY <1>3
  <2>2. command = VariableCommand(k, "FieldHeader")
    BY <1>6, <2>1 DEF FieldHeaderVariableCommand
  <2>3. object' = Parsed("FieldHeader", CurrentBytes(sensor, k)) ++ object
    BY <2>2, ProcessedObject
  <2>4. object = New
    BY <1>1, <1>2, <1>6, FieldCommands DEF FreshInv
  <2>5. object' = Parsed("FieldHeader", CurrentBytes(sensor, k))
    BY <2>3, <2>4, ParsedIsFunction, SetOverNothing, Zenon DEF Parsers
  <2>6. object' = ParseFieldHeader(CurrentBytes(sensor, k))
    BY <2>5 DEF Parsed
  <2> QED
    BY <1>5, <2>1, <2>6
<1>7. ASSUME command = FieldGeometryVariableCommand(index)
      PROVE  object' = FieldOf(index)
  <2>1. PICK k \in Known : k = 10256 + index
    BY <1>3
  <2>2. command = VariableCommand(k, "FieldGeometry")
    BY <1>7, <2>1 DEF FieldGeometryVariableCommand
  <2>3. object' = Parsed("FieldGeometry", CurrentBytes(sensor, k)) ++ object
    BY <2>2, ProcessedObject
  <2>4. object = ExistingHeader(index)
    BY <1>1, <1>2, <1>7 DEF FieldsInv
  <2>5. Parsed("FieldGeometry", CurrentBytes(sensor, k))
            = ParseFieldGeometry(FieldGeometryBytes(index))
    BY <1>5, <2>1 DEF Parsed
  <2> QED
    BY <2>3, <2>4, <2>5 DEF FieldOf
<1> QED
  BY <1>6, <1>7

\* A header has been read: its geometry is asked for, or the next header, or
\* all fields have been read.
LEMMA FieldsAfterHeader ==
  ASSUME ReplyInv, ExchangeInv, RequestInv, FieldsInv,
         request.kind = "fields", accepted, pc = "receive", phase = "close",
         command = FieldHeaderVariableCommand(index), FieldHeaderIsRead,
         UNCHANGED <<request, accepted, sensor>>
  PROVE  FieldsInv'
<1>1. PICK valid \in BOOLEAN :
        /\ IsValidAtLast(valid)
        /\ UNCHANGED objects
        /\ \/ /\ valid
              /\ CreateAndExecute(FieldGeometryVariableCommand(index))
              /\ UNCHANGED <<index, object>>
           \/ ~ valid /\ index > 0 /\ Return /\ UNCHANGED <<index, object>>
           \/ ~ valid /\ index = 0 /\ NextIndex(MaxFields, FieldHeaderVariableCommand(index + 1))
  BY DEF FieldHeaderIsRead
<1>2. /\ index \in Nat /\ index <= sensor.fields + 1 /\ objects = FieldsBelow(sensor, index)
      /\ object = IF FieldExists(sensor, index) THEN ExistingHeader(index) ELSE NotThere
      /\ sensor.fields \in Nat /\ sensor.fields < MaxFields /\ MaxFields \in Nat
  BY DeviceRequestsAssumption, IndexesAreKnown
     DEF FieldsInv, ReplyInv, CommandInv, ExchangeInv, SessionInv, IsSensor
<1>3. FieldExists(sensor, index) => valid = TRUE
  BY <1>1, <1>2, ValidityIsRead
<1>4. ~ FieldExists(sensor, index) => valid = FALSE
  BY <1>1, <1>2, ValidityIsRead
<1>5. CASE FieldExists(sensor, index)
  <2>1. /\ command' = FieldGeometryVariableCommand(index) /\ phase' = "open" /\ pc' = "receive"
        /\ index' = index /\ object' = object /\ objects' = objects
    BY <1>1, <1>3, <1>5 DEF CreateAndExecute, SendCommand
  <2> QED
    BY <1>2, <1>5, <2>1, FieldCommands DEF FieldsInv
<1>6. CASE ~ FieldExists(sensor, index) /\ index > 0
  <2>1. pc' = "idle" /\ objects' = objects
    BY <1>1, <1>4, <1>6 DEF Return
  <2>2. index = sensor.fields + 1
    BY <1>2, <1>6 DEF FieldExists
  <2>3. objects = FieldsOf(sensor)
    BY <1>2, <2>2, AllFieldsBelow
  <2> QED
    BY <2>1, <2>3 DEF FieldsInv
<1>7. CASE ~ FieldExists(sensor, index) /\ index = 0
  <2>1. NextIndex(MaxFields, FieldHeaderVariableCommand(index + 1)) /\ objects' = objects
    BY <1>1, <1>4, <1>7
  <2>2. objects = FieldsBelow(sensor, 1)
    BY <1>2, <1>7, NoFields DEF FieldExists
  <2>3. CASE index + 1 < MaxFields
    <3>1. /\ index' = 1 /\ command' = FieldHeaderVariableCommand(index + 1)
          /\ phase' = "open" /\ pc' = "receive"
      BY <1>7, <2>1, <2>3 DEF NextIndex, CreateAndExecute, SendCommand
    <3>2. 1 <= sensor.fields + 1
      BY <1>2
    <3> QED
      BY <2>1, <2>2, <3>1, <3>2, FieldCommands DEF FieldsInv
  <2>4. CASE ~ index + 1 < MaxFields
    <3>1. pc' = "idle"
      BY <2>1, <2>4 DEF NextIndex, Return
    <3>2. sensor.fields = 0
      BY <1>2, <1>7, <2>4
    <3>3. objects = FieldsOf(sensor)
      BY <2>2, <3>2, AllFieldsBelow
    <3> QED
      BY <2>1, <3>1, <3>3 DEF FieldsInv
  <2> QED
    BY <2>3, <2>4
<1> QED
  BY <1>2, <1>5, <1>6, <1>7

\* A geometry has been read: the field is complete.
LEMMA FieldsAfterGeometry ==
  ASSUME ReplyInv, ExchangeInv, RequestInv, FieldsInv,
         request.kind = "fields", accepted, pc = "receive", phase = "close",
         command = FieldGeometryVariableCommand(index), FieldGeometryIsRead,
         UNCHANGED <<request, accepted, sensor>>
  PROVE  FieldsInv'
<1>1. /\ objects' = Append(objects, object)
      /\ NextIndex(MaxFields, FieldHeaderVariableCommand(index + 1))
  BY DEF FieldGeometryIsRead
<1>2. /\ index \in Nat /\ index <= sensor.fields + 1 /\ objects = FieldsBelow(sensor, index)
      /\ object = FieldOf(index) /\ FieldExists(sensor, index)
      /\ sensor.fields \in Nat /\ sensor.fields < MaxFields /\ MaxFields \in Nat
  BY DeviceRequestsAssumption, IndexesAreKnown
     DEF FieldsInv, ReplyInv, CommandInv, ExchangeInv, SessionInv, IsSensor
<1>3. objects' = FieldsBelow(sensor, index + 1)
  BY <1>1, <1>2, OneFieldMore
<1>4. index <= sensor.fields
  BY <1>2 DEF FieldExists
<1>5. CASE index + 1 < MaxFields
  <2>1. /\ index' = index + 1 /\ command' = FieldHeaderVariableCommand(index + 1)
        /\ phase' = "open" /\ pc' = "receive"
    BY <1>1, <1>5 DEF NextIndex, CreateAndExecute, SendCommand
  <2>2. index + 1 <= sensor.fields + 1
    BY <1>2, <1>4
  <2> QED
    BY <1>3, <2>1, <2>2, FieldCommands DEF FieldsInv
<1>6. CASE ~ index + 1 < MaxFields
  <2>1. pc' = "idle"
    BY <1>1, <1>6 DEF NextIndex, Return
  <2>2. index + 1 = sensor.fields + 1
    BY <1>2, <1>4, <1>6
  <2>3. objects' = FieldsOf(sensor)
    BY <1>2, <1>3, <2>2, AllFieldsBelow
  <2> QED
    BY <2>1, <2>3 DEF FieldsInv
<1> QED
  BY <1>5, <1>6

LEMMA FieldsClosed ==
  ASSUME ReplyInv, ExchangeInv, RequestInv, FieldsInv, SessionIsClosed
  PROVE  FieldsInv'
<1>1. pc = "receive" /\ phase = "close" /\ UNCHANGED <<request, accepted, sensor>>
  BY DEF SessionIsClosed
<1>2. CASE ~ (request.kind = "fields" /\ accepted)
  BY <1>1, <1>2 DEF FieldsInv
<1>3. CASE request.kind = "fields" /\ accepted
  <2>1. command = FieldHeaderVariableCommand(index) \/ command = FieldGeometryVariableCommand(index)
    BY <1>1, <1>3 DEF RequestInv, CommandShape
  <2>2. CASE command = FieldHeaderVariableCommand(index)
    <3>1. FieldHeaderIsRead
      BY <1>3, <2>2, FieldCommands DEF SessionIsClosed
    <3> QED
      BY <1>1, <1>3, <2>2, <3>1, FieldsAfterHeader
  <2>3. CASE command = FieldGeometryVariableCommand(index)
    <3>1. FieldGeometryIsRead
      BY <1>3, <2>3, FieldCommands DEF SessionIsClosed
    <3> QED
      BY <1>1, <1>3, <2>3, <3>1, FieldsAfterGeometry
  <2> QED
    BY <2>1, <2>2, <2>3
<1> QED
  BY <1>2, <1>3

LEMMA FieldsNext ==
  ASSUME ReplyInv, ExchangeInv, RequestInv, FreshInv, FieldsInv, [Next]_vars
  PROVE  FieldsInv'
<1>1. ASSUME UNCHANGED <<pc, phase, request, accepted, index, command, object, objects>>,
             request.kind = "fields" => sensor' = sensor
      PROVE  FieldsInv'
  BY <1>1 DEF FieldsInv
<1>2. ASSUME NEW r \in Request, Call(r) PROVE FieldsInv'
  <2>1. PICK port : CreateAndExecute(FirstCommand(r, port))
    BY <1>2 DEF Call
  <2>2. /\ pc' = "receive" /\ phase' = "open" /\ command' = FirstCommand(r, port)
        /\ request' = r /\ index' = 0 /\ objects' = <<>> /\ sensor' = sensor
    BY <1>2, <2>1 DEF Call, CreateAndExecute, SendCommand
  <2>3. r.kind = "fields" => command' = FieldHeaderVariableCommand(0)
    BY <2>2 DEF FirstCommand
  <2>4. sensor.fields \in Nat
    BY DEF ExchangeInv, SessionInv, IsSensor
  <2>5. 0 <= sensor.fields + 1
    BY <2>4
  <2> QED
    BY <2>2, <2>3, <2>5, NoFields, FieldCommands DEF FieldsInv
<1>3. CASE SensorAnswers
  BY <1>1, <1>3, AnswerLeaves DEF SensorAnswers, requestVars
<1>4. CASE SensorRefuses
  BY <1>4 DEF SensorRefuses, FieldsInv
<1>5. CASE CommandRaises
  BY <1>5 DEF CommandRaises, requestVars, FieldsInv
<1>6. CASE BitChanges
  BY <1>6 DEF BitChanges, requestVars, FieldsInv
<1>7. CASE ReceiveSegment
  BY <1>1, <1>7 DEF ReceiveSegment, requestVars
<1>8. CASE SessionIsCreated
  <2>1. pc = "receive"
    BY <1>8, CompleteMeansReceived DEF SessionIsCreated
  <2>2. /\ phase = "open" /\ phase' = "execute" /\ pc' = "receive"
        /\ UNCHANGED <<request, accepted, index, command, object, objects, sensor>>
    BY <1>8 DEF SessionIsCreated, SendCommand, requestVars
  <2> QED
    BY <2>1, <2>2 DEF FieldsInv
<1>9. CASE CommandIsProcessed
  BY <1>9, FieldsProcessed
<1>10. CASE SessionIsClosed
  BY <1>10, FieldsClosed
<1>11. CASE UNCHANGED vars
  BY <1>1, <1>11 DEF vars, requestVars
<1> QED
  BY <1>2, <1>3, <1>4, <1>5, <1>6, <1>7, <1>8, <1>9, <1>10, <1>11 DEF Next, Done

-----------------------------------------------------------------------------
(* The request for the monitoring cases. *)

\* The monitoring cases below index have been read.
CasesInv ==
  request.kind = "cases" /\ accepted =>
    /\ pc = "idle" => objects = CasesOf(sensor)
    /\ pc # "idle" => index <= sensor.cases /\ objects = CasesBelow(index)
    /\ pc = "receive" /\ phase = "close" =>
         object = IF index < sensor.cases THEN CaseOf(index) ELSE NotThere

LEMMA CasesInit == ASSUME Init PROVE CasesInv
BY DEF Init, CasesInv

\* The number of monitoring cases that are looked at.
CasesAsked(s) == IF s.cases < MaxCases THEN s.cases ELSE MaxCases

LEMMA AllCasesBelow == \A s : CasesOf(s) = CasesBelow(CasesAsked(s))
BY Zenon DEF CasesOf, CasesBelow, CasesAsked, CaseOf

LEMMA CasesProcessed ==
  ASSUME ReplyInv, ExchangeInv, RequestInv, FreshInv, CasesInv, CommandIsProcessed
  PROVE  CasesInv'
<1>1. /\ m_is_complete /\ phase = "execute" /\ phase' = "close" /\ pc' = "receive"
      /\ request' = request /\ sensor' = sensor /\ accepted' = accepted
      /\ index' = index /\ objects' = objects
  BY DEF CommandIsProcessed, SendCommand
<1>2. pc = "receive"
  BY <1>1, CompleteMeansReceived
<1> SUFFICES ASSUME request.kind = "cases", accepted
             PROVE  object' = IF index < sensor.cases THEN CaseOf(index) ELSE NotThere
  BY <1>1, <1>2 DEF CasesInv
<1>3. index \in 0 .. 253 /\ 2101 + index \in Known
  BY IndexesAreKnown
<1>4. sensor.flipped = {}
  BY DEF RequestInv, FlippedInv
<1>5. PICK k \in Known : k = 2101 + index
  BY <1>3
<1>6. command = VariableCommand(k, "MonitoringCase")
  BY <1>2, <1>5 DEF RequestInv, CommandShape, MonitoringCaseVariableCommand
<1>7. object' = Parsed("MonitoringCase", CurrentBytes(sensor, k)) ++ object
  BY <1>6, ProcessedObject
<1>8. object = New
  BY <1>1, <1>2 DEF FreshInv
<1>9. object' = Parsed("MonitoringCase", CurrentBytes(sensor, k))
  BY <1>7, <1>8, ParsedIsFunction, SetOverNothing, Zenon DEF Parsers
<1>10. object' = ParseMonitoringCase(CurrentBytes(sensor, 2101 + index))
  BY <1>5, <1>9 DEF Parsed
<1>11. ASSUME index < sensor.cases PROVE object' = CaseOf(index)
  BY <1>3, <1>4, <1>10, <1>11, CaseRead
<1>12. ASSUME ~ index < sensor.cases PROVE object' = NotThere
  BY <1>3, <1>4, <1>10, <1>12, CaseRead
<1> QED
  BY <1>11, <1>12

\* A monitoring case has been read: the next one is asked for, or there is none,
\* or as many have been read as are asked for.
LEMMA CasesAfterCase ==
  ASSUME ReplyInv, ExchangeInv, RequestInv, CasesInv,
         request.kind = "cases", accepted, pc = "receive", phase = "close",
         MonitoringCaseIsRead, UNCHANGED <<request, accepted, sensor>>
  PROVE  CasesInv'
<1>1. PICK valid \in BOOLEAN :
        /\ IsValidAtLast(valid)
        /\ \/ /\ valid
              /\ objects' = Append(objects, object)
              /\ NextIndex(MaxCases, MonitoringCaseVariableCommand(index + 1))
           \/ ~ valid /\ Return /\ UNCHANGED <<index, object, objects>>
  BY DEF MonitoringCaseIsRead
<1>2. /\ index \in Nat /\ index <= sensor.cases /\ index < MaxCases
      /\ objects = CasesBelow(index)
      /\ object = IF index < sensor.cases THEN CaseOf(index) ELSE NotThere
      /\ sensor.cases \in Nat /\ MaxCases \in Nat
  BY DeviceRequestsAssumption, IndexesAreKnown
     DEF CasesInv, ReplyInv, CommandInv, ExchangeInv, SessionInv, IsSensor
<1>3. CASE index < sensor.cases
  <2>1. valid = TRUE
    BY <1>1, <1>2, <1>3, ValidityIsRead
  <2>2. /\ objects' = Append(objects, CaseOf(index))
        /\ NextIndex(MaxCases, MonitoringCaseVariableCommand(index + 1))
    BY <1>1, <1>2, <1>3, <2>1
  <2>3. objects' = CasesBelow(index + 1)
    BY <1>2, <2>2, OneCaseMore
  <2>4. CASE index + 1 < MaxCases
    <3>1. index' = index + 1 /\ phase' = "open" /\ pc' = "receive"
      BY <2>2, <2>4 DEF NextIndex, CreateAndExecute, SendCommand
    <3>2. index + 1 <= sensor.cases
      BY <1>2, <1>3
    <3> QED
      BY <2>3, <3>1, <3>2 DEF CasesInv
  <2>5. CASE ~ index + 1 < MaxCases
    <3>1. pc' = "idle"
      BY <2>2, <2>5 DEF NextIndex, Return
    <3>2. index + 1 = CasesAsked(sensor)
      BY <1>2, <1>3, <2>5 DEF CasesAsked
    <3>3. objects' = CasesOf(sensor)
      BY <2>3, <3>2, AllCasesBelow
    <3> QED
      BY <3>1, <3>3 DEF CasesInv
  <2> QED
    BY <2>4, <2>5
<1>4. CASE ~ index < sensor.cases
  <2>1. valid = FALSE
    BY <1>1, <1>2, <1>4, ValidityIsRead
  <2>2. Return /\ objects' = objects
    BY <1>1, <2>1
  <2>3. index = CasesAsked(sensor)
    BY <1>2, <1>4 DEF CasesAsked
  <2>4. pc' = "idle" /\ objects' = CasesOf(sensor)
    BY <1>2, <2>2, <2>3, AllCasesBelow DEF Return
  <2> QED
    BY <2>4 DEF CasesInv
<1> QED
  BY <1>3, <1>4

LEMMA CasesClosed ==
  ASSUME ReplyInv, ExchangeInv, RequestInv, CasesInv, SessionIsClosed
  PROVE  CasesInv'
<1>1. pc = "receive" /\ phase = "close" /\ UNCHANGED <<request, accepted, sensor>>
  BY DEF SessionIsClosed
<1>2. CASE ~ (request.kind = "cases" /\ accepted)
  BY <1>1, <1>2 DEF CasesInv
<1>3. CASE request.kind = "cases" /\ accepted
  <2>1. MonitoringCaseIsRead
    BY <1>3 DEF SessionIsClosed
  <2> QED
    BY <1>1, <1>3, <2>1, CasesAfterCase
<1> QED
  BY <1>2, <1>3

LEMMA CasesNext ==
  ASSUME ReplyInv, ExchangeInv, RequestInv, FreshInv, CasesInv, [Next]_vars
  PROVE  CasesInv'
<1>1. ASSUME UNCHANGED <<pc, phase, request, accepted, index, object, objects>>,
             request.kind = "cases" => sensor' = sensor
      PROVE  CasesInv'
  BY <1>1 DEF CasesInv
<1>2. ASSUME NEW r \in Request, Call(r) PROVE CasesInv'
  <2>1. /\ pc' = "receive" /\ phase' = "open" /\ index' = 0 /\ objects' = <<>> /\ sensor' = sensor
    BY <1>2 DEF Call, CreateAndExecute, SendCommand
  <2>2. CasesBelow(0) = <<>>
    BY DEF CasesBelow
  <2>3. 0 <= sensor.cases
    BY DEF ExchangeInv, SessionInv, IsSensor
  <2> QED
    BY <2>1, <2>2, <2>3 DEF CasesInv
<1>3. CASE SensorAnswers
  BY <1>1, <1>3, AnswerLeaves DEF SensorAnswers, requestVars
<1>4. CASE SensorRefuses
  BY <1>4 DEF SensorRefuses, CasesInv
<1>5. CASE CommandRaises
  BY <1>5 DEF CommandRaises, requestVars, CasesInv
<1>6. CASE BitChanges
  BY <1>6 DEF BitChanges, requestVars, CasesInv
<1>7. CASE ReceiveSegment
  BY <1>1, <1>7 DEF ReceiveSegment, requestVars
<1>8. CASE SessionIsCreated
  <2>1. pc = "receive"
    BY <1>8, CompleteMeansReceived DEF SessionIsCreated
  <2>2. /\ phase = "open" /\ phase' = "execute" /\ pc' = "receive"
        /\ UNCHANGED <<request, accepted, index, object, objects, sensor>>
    BY <1>8 DEF SessionIsCreated, SendCommand, requestVars
  <2> QED
    BY <2>1, <2>2 DEF CasesInv
<1>9. CASE CommandIsProcessed
  BY <1>9, CasesProcessed
<1>10. CASE SessionIsClosed
  BY <1>10, CasesClosed
<1>11. CASE UNCHANGED vars
  BY <1>1, <1>11 DEF vars, requestVars
<1> QED
  BY <1>2, <1>3, <1>4, <1>5, <1>6, <1>7, <1>8, <1>9, <1>10, <1>11 DEF Next, Done

-----------------------------------------------------------------------------
(* What the user gets. *)

\* The request that is executed is one that users make.
AskedInv == request \in Request

LEMMA AskedInit == ASSUME Init PROVE AskedInv
BY DEF Init, AskedInv, Request

LEMMA AskedNext == ASSUME AskedInv, [Next]_vars PROVE AskedInv'
<1>1. ASSUME NEW r \in Request, Call(r) PROVE AskedInv'
  BY <1>1 DEF Call, AskedInv
<1>2. ASSUME request' = request PROVE AskedInv'
  BY <1>2 DEF AskedInv
<1> QED
  BY <1>1, <1>2
     DEF Next, vars, requestVars, SensorAnswers, SensorRefuses, CommandRaises, BitChanges,
         ReceiveSegment, SessionIsCreated, CommandIsProcessed, SessionIsClosed, Done

\* The inductive invariant: how replies come, what the sensor has been asked and
\* has said, the request, and what has been made of its replies so far.
AnswersInv ==
  /\ ReplyInv /\ ExchangeInv /\ RequestInv /\ AskedInv
  /\ FreshInv /\ SingleInv /\ FieldsInv /\ CasesInv

LEMMA AnswersInit == ASSUME Init PROVE AnswersInv
BY ReplyInit, ExchangeInit, RequestInit, AskedInit, FreshInit, SingleInit, FieldsInit, CasesInit
   DEF AnswersInv

LEMMA AnswersNext == ASSUME AnswersInv, [Next]_vars PROVE AnswersInv'
<1>1. /\ ReplyInv /\ ExchangeInv /\ RequestInv /\ AskedInv
      /\ FreshInv /\ SingleInv /\ FieldsInv /\ CasesInv
  BY DEF AnswersInv
<1>2. ReplyInv' /\ ExchangeInv' /\ RequestInv' /\ AskedInv'
  BY <1>1, ReplyNext, ExchangeNext, RequestNext, AskedNext
<1>3. FreshInv' /\ SingleInv' /\ FieldsInv' /\ CasesInv'
  BY <1>1, FreshNext, SingleNext, FieldsNext, CasesNext
<1> QED
  BY <1>2, <1>3 DEF AnswersInv

\* At every moment all that is known about a request holds.
THEOREM AnswersInvariant == Spec => []AnswersInv
<1>1. Init => AnswersInv
  BY AnswersInit
<1>2. AnswersInv /\ [Next]_vars => AnswersInv'
  BY AnswersNext
<1> QED
  BY <1>1, <1>2, PTL DEF Spec

\* For every sensor, all settings and all ways to cut the replies: the
\* configuration that a user reads after ChangeCommSettings is the one that has
\* been set, member by member, with the port of the socket.
THEOREM SettingsReadBackAlways == Spec => []SettingsReadBack
<1>1. AnswersInv => SettingsReadBack
  BY SettingsAreRead DEF AnswersInv
<1> QED
  BY <1>1, AnswersInvariant, PTL

\* The fields and monitoring cases that have been read are the first of those
\* that the sensor has.
LEMMA ObjectsAreFirst ==
  ASSUME AnswersInv, accepted, request.kind \in {"fields", "cases"}
  PROVE  LET Expected == IF request.kind = "fields" THEN FieldsOf(sensor) ELSE CasesOf(sensor)
         IN /\ IsPrefix(objects, Expected)
            /\ pc = "idle" => objects = Expected
<1>1. /\ sensor.fields \in Nat /\ sensor.cases \in Nat /\ MaxCases \in Nat
  BY DeviceRequestsAssumption DEF AnswersInv, ExchangeInv, SessionInv, IsSensor
<1>2. index \in Nat /\ (request.kind = "cases" => index < MaxCases)
  BY DeviceRequestsAssumption DEF AnswersInv, ReplyInv, CommandInv
<1>3. CASE request.kind = "fields"
  <2>1. CASE pc = "idle"
    <3>1. objects = FieldsOf(sensor)
      BY <1>3, <2>1 DEF AnswersInv, FieldsInv
    <3>2. FieldsOf(sensor) = FieldsBelow(sensor, sensor.fields + 1) /\ sensor.fields + 1 \in Nat
      BY <1>1, AllFieldsBelow
    <3>3. IsPrefix(FieldsBelow(sensor, sensor.fields + 1), FieldsOf(sensor))
      BY <1>1, <3>2, FirstFields
    <3> QED
      BY <1>3, <3>1, <3>2, <3>3
  <2>2. CASE pc # "idle"
    <3>1. index <= sensor.fields + 1 /\ objects = FieldsBelow(sensor, index)
      BY <1>3, <2>2 DEF AnswersInv, FieldsInv
    <3> QED
      BY <1>1, <1>2, <1>3, <2>2, <3>1, FirstFields
  <2> QED
    BY <2>1, <2>2
<1>4. CASE request.kind = "cases"
  <2>1. CasesOf(sensor) = CasesBelow(CasesAsked(sensor)) /\ CasesAsked(sensor) \in Nat
    BY <1>1, AllCasesBelow DEF CasesAsked
  <2>2. CASE pc = "idle"
    <3>1. objects = CasesOf(sensor)
      BY <1>4, <2>2 DEF AnswersInv, CasesInv
    <3>2. IsPrefix(CasesBelow(CasesAsked(sensor)), CasesBelow(CasesAsked(sensor)))
      BY <2>1, FirstCases
    <3> QED
      BY <1>4, <2>1, <3>1, <3>2
  <2>3. CASE pc # "idle"
    <3>1. index <= sensor.cases /\ objects = CasesBelow(index)
      BY <1>4, <2>3 DEF AnswersInv, CasesInv
    <3>2. index <= CasesAsked(sensor)
      BY <1>1, <1>2, <1>4, <3>1 DEF CasesAsked
    <3> QED
      BY <1>2, <1>4, <2>1, <2>3, <3>1, <3>2, FirstCases
  <2> QED
    BY <2>2, <2>3
<1> QED
  BY <1>3, <1>4

LEMMA ObjectIsTheSensors ==
  ASSUME AnswersInv, accepted, pc = "idle", before = <<>> \/ calls = 2
  PROVE  /\ request.kind = "read" =>
              object = Parsed(Reads[request.name].parser,
                              CurrentBytes(sensor, VariableNumber[request.name]))
         /\ request.kind = "telegram" =>
              object.header.channel_number = ChannelOf(request.channel)
<1>1. ~ (before # <<>> /\ calls = 1)
  OBVIOUS
<1>2. ASSUME request.kind = "read"
      PROVE  object = Parsed(Reads[request.name].parser,
                             CurrentBytes(sensor, VariableNumber[request.name]))
  BY <1>1, <1>2 DEF AnswersInv, SingleInv, Finished
<1>3. ASSUME request.kind = "telegram"
      PROVE  object.header.channel_number = ChannelOf(request.channel)
  <2>1. request.channel \in Channels
    BY <1>3 DEF AnswersInv, AskedInv, Request
  <2> QED
    BY <1>3, <2>1, TelegramIsOfChannel DEF AnswersInv
<1> QED
  BY <1>2, <1>3

\* For every sensor, however replies are cut and in whatever order users make
\* requests: while nothing fails, a request gives its user the variable that it
\* names, the telegram of its channel, all fields, all monitoring cases; one
\* that raises has given the first of them.
THEOREM AnswersAreTheSensorsAlways == Spec => []AnswersAreTheSensors
<1>1. AnswersInv => AnswersAreTheSensors
  BY ObjectsAreFirst, ObjectIsTheSensors DEF AnswersAreTheSensors
<1> QED
  BY <1>1, AnswersInvariant, PTL
=============================================================================
