------------------------------ MODULE DataType ------------------------------
(***************************************************************************)
(* What is inside a package: the structures of DataType.h, which the       *)
(* server and the SDK share, written by Serialize, found by their DataType *)
(* at the other end, and read by UnSerialize.                              *)
(*                                                                         *)
(* What is serialized is a sequence of bytes.  A byte is a pair: <<b, 0>>  *)
(* is the byte b of a number or of a text, <<x, i>> the i-th byte of the   *)
(* memory of a thing x whose bytes nobody looks at one by one (a user, the *)
(* fixed part of a group or of a message).  Things and bytes are numbers,  *)
(* a text is a sequence of bytes that are not 0.  Offsets start at 0 as in *)
(* the code.  The structures are packed; a memcpy is a concatenation or a  *)
(* SubSeq.                                                                 *)
(***************************************************************************)
EXTENDS Integers, Sequences, SequencesExt

CONSTANTS
    Things,         \* contents of a structure without lists or texts
    UserLists,      \* sequences of users
    GroupLists,     \* sequences of records [group, users]
    MsgLists        \* sequences of records [fixed, Msg, Extend]

Char == 1..255

ASSUME ContentsAssumption ==
    /\ Things \subseteq Int
    /\ UserLists \subseteq Seq(Int)
    /\ GroupLists \subseteq Seq([group : Int, users : Seq(Int)])
    /\ MsgLists
         \subseteq Seq([fixed : Int, Msg : Seq(Char), Extend : Seq(Char)])

VARIABLES
    value,          \* the object that is sent: its DataType and content
    serialized,     \* what Serialize returned
    result          \* the object after UnSerialize, or Dropped

codecVars == <<value, serialized, result>>

-----------------------------------------------------------------------------
SizeInt == 4
SizeHead == 8           \* DataSize and DataType
SizeUser == 44          \* S2CUser: head, UserId, UserName
SizeC2SLogin == 44      \* head, UserId, Password
SizeS2CLogin == 44      \* head, UserId, UserName
SizeAsk == 16           \* C2SGetDataMsgList: head, LastMsgId, UserId
SizeGroup == 48         \* S2CGroup without UserList
SizeMsg == 29           \* DataMsg without Msg and Extend

EDataType_C2SLogin == 100
EDataType_C2SDataMsg == 101
EDataType_C2SGetDataMsgList == 102
EDataType_S2CLogin == 200
EDataType_S2CUserList == 202
EDataType_S2CGroup == 203
EDataType_S2CGroupList == 204
EDataType_S2CDataMsg == 205
EDataType_S2CDataMsgList == 206

Garbage == -1

Weight == <<1, 256, 65536, 16777216>>
Int4(n) == [i \in 1..SizeInt |-> <<(n \div Weight[i]) % 256, 0>>]
Memory(x, n) == [i \in 1..n |-> <<x, i>>]
\* The memory of things that are n bytes long, one after the other.
Packed(things, n) ==
    [k \in 1..n * Len(things) |->
        <<things[((k - 1) \div n) + 1], ((k - 1) % n) + 1>>]
Chars(text) == [i \in DOMAIN text |-> <<text[i], 0>>]

\* What UnSerialize finds at an offset.  Beyond the end it finds anything.
Within(d, o, n) == o >= 0 /\ o + n <= Len(d)
IntAt(d, o) ==
    LET counts(i) == d[o + i][1] * Weight[i] IN
    IF ~Within(d, o, SizeInt) THEN Garbage
    ELSE counts(1) + counts(2) + counts(3) + counts(4)
ThingAt(d, o, n) ==
    IF Within(d, o, n) /\ SubSeq(d, o + 1, o + n) = Memory(d[o + 1][1], n)
    THEN d[o + 1][1] ELSE Garbage

\* *(data + o) is a char, and a char has a sign.
CharAt(d, o) ==
    IF ~Within(d, o, 1) THEN Garbage
    ELSE IF d[o + 1][1] < 128 THEN d[o + 1][1] ELSE d[o + 1][1] - 256

TextAt(d, o) ==
    LET ends == {i \in o + 1..Len(d) : d[i] = <<0, 0>>} IN
    IF o < 0 \/ ends = {} THEN <<Garbage>>
    ELSE LET end == CHOOSE i \in ends : \A j \in ends : i <= j
         IN  [i \in 1..end - 1 - o |-> d[o + i][1]]

\* Every structure begins with its DataSize, as Serialize has computed it,
\* and its DataType.
Structure(type, size, body) == Int4(size) \o Memory(type, SizeInt) \o body
DataSize(d) == IntAt(d, 0)
DataType(d) == ThingAt(d, SizeInt, SizeInt)

\* GroupVectorSize and MsgVectorSize: what the elements of a list say they have.
SumOfSizes(pieces) ==
    LET sum[k \in 0..Len(pieces)] ==
            IF k = 0 THEN 0 ELSE sum[k - 1] + DataSize(pieces[k])
    IN  sum[Len(pieces)]

\* The elements of a list lie one after the other, each as long as its
\* DataSize says: the offset of element i of the list at o.
ElementOffset(d, o, i) ==
    LET offset[k \in 1..i] ==
            IF k = 1 THEN o + SizeHead + SizeInt
            ELSE LET before == offset[k - 1] IN before + IntAt(d, before)
    IN  offset[i]

-----------------------------------------------------------------------------
(* The structures that are one piece of memory: the login, its answer, and  *)
(* the request for messages                                                 *)

DefaultSize(type) == CASE type = EDataType_C2SLogin -> SizeC2SLogin
                       [] type = EDataType_S2CLogin -> SizeS2CLogin
                       [] type = EDataType_C2SGetDataMsgList -> SizeAsk

DefaultSerialize(type, x) ==
    Structure(type, DefaultSize(type), Memory(x, DefaultSize(type) - SizeHead))

\* memcpy of as many bytes as the structure has.
DefaultUnSerialize(type, d) ==
    ThingAt(d, SizeHead, DefaultSize(type) - SizeHead)

(* S2CUserList *)

SerializeUserList(users) ==
    Structure(EDataType_S2CUserList, SizeHead + SizeInt + SizeUser * Len(users),
        Int4(Len(users)) \o Packed(users, SizeUser))

UnSerializeUserList(d, o) ==
    [i \in 1..CharAt(d, o + SizeHead) |->
        ThingAt(d, o + SizeHead + SizeInt + (i - 1) * SizeUser, SizeUser)]

(* S2CGroup and S2CGroupList *)

SerializeGroup(g) ==
    LET users == SerializeUserList(g.users) IN
    Structure(EDataType_S2CGroup, SizeGroup + DataSize(users),
        Memory(g.group, SizeGroup - SizeHead) \o users)

UnSerializeGroup(d, o) ==
    [group |-> ThingAt(d, o + SizeHead, SizeGroup - SizeHead),
     users |-> UnSerializeUserList(d, o + SizeGroup)]

SerializeGroupList(groups) ==
    LET pieces == [i \in DOMAIN groups |-> SerializeGroup(groups[i])] IN
    Structure(EDataType_S2CGroupList, SizeHead + SizeInt + SumOfSizes(pieces),
        Int4(Len(groups)) \o FlattenSeq(pieces))

UnSerializeGroupList(d, o) ==
    [i \in 1..CharAt(d, o + SizeHead) |->
        UnSerializeGroup(d, ElementOffset(d, o, i))]

(* DataMsg and DataMsgList *)

\* Mutant: DataSize is computed without the terminators of the two texts.
SerializeMsgShort(type, m) ==
    Structure(type,
        SizeMsg + SizeInt + Len(m.Msg) + SizeInt + Len(m.Extend),
        Memory(m.fixed, SizeMsg - SizeHead)
            \o Int4(Len(m.Msg) + 1) \o Chars(Append(m.Msg, 0))
            \o Int4(Len(m.Extend) + 1) \o Chars(Append(m.Extend, 0)))

SerializeMsg(type, m) ==
    Structure(type,
        SizeMsg + SizeInt + Len(m.Msg) + SizeInt + Len(m.Extend) + 2,
        Memory(m.fixed, SizeMsg - SizeHead)
            \o Int4(Len(m.Msg) + 1) \o Chars(Append(m.Msg, 0))
            \o Int4(Len(m.Extend) + 1) \o Chars(Append(m.Extend, 0)))

\* Mutant: the text is looked for without stepping over its size.
UnSerializeMsgEarly(d, o) ==
    [fixed |-> ThingAt(d, o + SizeHead, SizeMsg - SizeHead),
     Msg |-> TextAt(d, o + SizeMsg),
     Extend |-> TextAt(d, o + SizeMsg)]

\* MsgSize is read as a char, and the terminator it counts is skipped twice.
UnSerializeMsg(d, o) ==
    LET msg == o + SizeMsg + SizeInt
        extend == msg + CharAt(d, o + SizeMsg) + 1 + SizeInt
    IN  [fixed |-> ThingAt(d, o + SizeHead, SizeMsg - SizeHead),
         Msg |-> TextAt(d, msg),
         Extend |-> TextAt(d, extend)]

SerializeMsgList(msgs) ==
    LET pieces == [i \in DOMAIN msgs |->
                      SerializeMsg(EDataType_S2CDataMsg, msgs[i])] IN
    Structure(EDataType_S2CDataMsgList, SizeHead + SizeInt + SumOfSizes(pieces),
        Int4(Len(msgs)) \o FlattenSeq(pieces))

UnSerializeMsgList(d, o) ==
    [i \in 1..CharAt(d, o + SizeHead) |->
        UnSerializeMsg(d, ElementOffset(d, o, i))]

-----------------------------------------------------------------------------
(* A sender serializes an object; the receiver of the package looks for the *)
(* handler of its DataType and, if there is one, unserializes it.           *)

Structures ==
    {EDataType_C2SLogin, EDataType_S2CLogin, EDataType_C2SGetDataMsgList}
Messages == {EDataType_C2SDataMsg, EDataType_S2CDataMsg}

\* What the server and what the SDK have a handler for.
ServerDataTypeMap ==
    {EDataType_C2SLogin, EDataType_C2SDataMsg, EDataType_C2SGetDataMsgList}
SdkDataTypeMap ==
    {EDataType_S2CLogin, EDataType_S2CUserList, EDataType_S2CGroupList,
     EDataType_S2CDataMsg, EDataType_S2CDataMsgList}

Object(type, content) == [type |-> type, content |-> content]
Objects ==
    {Object(t, x) : t \in Structures, x \in Things}
        \cup {Object(EDataType_S2CUserList, x) : x \in UserLists}
        \cup {Object(EDataType_S2CGroupList, x) : x \in GroupLists}
        \cup {Object(EDataType_S2CDataMsgList, x) : x \in MsgLists}
        \cup {Object(t, x[1]) :
                  t \in Messages, x \in {l \in MsgLists : Len(l) = 1}}

SerializeAs(type, x) ==
    CASE type \in Structures -> DefaultSerialize(type, x)
      [] type = EDataType_S2CUserList -> SerializeUserList(x)
      [] type = EDataType_S2CGroupList -> SerializeGroupList(x)
      [] type = EDataType_S2CDataMsgList -> SerializeMsgList(x)
      [] type \in Messages -> SerializeMsg(type, x)

\* DataSize is an int: nobody sends two gigabytes at once.
MaxInt == 2147483647
ASSUME FitsAssumption ==
    \A v \in Objects : Len(SerializeAs(v.type, v.content)) <= MaxInt

Dropped == Object(0, <<>>)
Pending == Object(-1, <<>>)

CodecInit == value \in Objects /\ serialized = <<>> /\ result = Pending

Serialize ==
    /\ serialized = <<>>
    /\ serialized' = SerializeAs(value.type, value.content)
    /\ UNCHANGED <<value, result>>

UnSerialize(type, d) ==
    CASE type \in Structures -> DefaultUnSerialize(type, d)
      [] type = EDataType_S2CUserList -> UnSerializeUserList(d, 0)
      [] type = EDataType_S2CGroupList -> UnSerializeGroupList(d, 0)
      [] type = EDataType_S2CDataMsgList -> UnSerializeMsgList(d, 0)
      [] type \in Messages -> UnSerializeMsg(d, 0)

\* What is too short, is not as long as its own DataSize says, or has a
\* DataType without handler is dropped without a word.
Dispatch(m_DataTypeMap) ==
    /\ serialized # <<>> /\ result = Pending
    /\ result' =
          LET type == DataType(serialized) IN
          IF \/ Len(serialized) < SizeHead
             \/ DataSize(serialized) # Len(serialized)
             \/ type \notin m_DataTypeMap
          THEN Dropped
          ELSE Object(type, UnSerialize(type, serialized))
    /\ UNCHANGED <<value, serialized>>

\* The server gets what the SDK sends, and the other way round.
ServerReceives ==
    value.type < EDataType_S2CLogin /\ Dispatch(ServerDataTypeMap)
SdkReceives ==
    value.type >= EDataType_S2CLogin /\ Dispatch(SdkDataTypeMap)

CodecNext == Serialize \/ ServerReceives \/ SdkReceives

CodecSpec == CodecInit /\ [][CodecNext]_codecVars

-----------------------------------------------------------------------------
Done == result # Pending

\* How many elements fit into the count of a list, which is read as a char.
MaxCount == 127

\* What is made of a list, element by element: nothing is made up, and what
\* does not fit into the count is missing at the end.
ListArrives(got, sent, Same(_, _)) ==
    /\ Len(got) <= Len(sent)
    /\ \A i \in 1..Len(got) : Same(got[i], sent[i])
    /\ Len(sent) <= MaxCount => Len(got) = Len(sent)

SameUser(got, sent) == got = sent
SameGroup(got, sent) ==
    got.group = sent.group /\ ListArrives(got.users, sent.users, SameUser)
SameNumbers(got, sent) == got.fixed = sent.fixed

\* Nothing is dropped, because the sums that the six Serialize() make by hand
\* agree with what they copy; and a list arrives as it was sent, message by
\* message, group by group and user by user, if its count is not beyond
\* MaxCount: of a longer one the end is lost, and nothing is made up.
ListsArrive ==
    Done =>
        /\ result.type = value.type
        /\ value.type \in Structures => result = value
        /\ value.type = EDataType_S2CUserList =>
               ListArrives(result.content, value.content, SameUser)
        /\ value.type = EDataType_S2CGroupList =>
               ListArrives(result.content, value.content, SameGroup)
        /\ value.type = EDataType_S2CDataMsgList =>
               ListArrives(result.content, value.content, SameNumbers)

SameText(got, sent) == got.fixed = sent.fixed /\ got.Msg = sent.Msg

\* The text of a message and its numbers arrive, in either direction, however
\* long the texts are and wherever in a list the message is.
TextArrives ==
    Done =>
        /\ value.type \in Messages => SameText(result.content, value.content)
        /\ value.type = EDataType_S2CDataMsgList =>
               ListArrives(result.content, value.content, SameText)

=============================================================================
