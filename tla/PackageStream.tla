---------------------------- MODULE PackageStream ---------------------------
(***************************************************************************)
(* One direction of a connection as bytes: ClientSocket::Write and Send at *)
(* the sending end, the kernel's stream, ClientSocket::Recv with the       *)
(* cutting of packages in Client4ReadCallback at the receiving end.  The   *)
(* two classes are the same in the server and in the client, so this is    *)
(* either direction.  Who calls these functions and when is the matter of  *)
(* SocketControl and ClientSelect; here each call is one step, because it  *)
(* holds m_MutexWrite or m_MutexRead from its first to its last access.    *)
(*                                                                         *)
(* Bytes are numbers, so that the size of a package is really written and  *)
(* read as bytes: a reader that has lost its place reads a wrong size.     *)
(* HeadSize is 4 in the code.                                              *)
(***************************************************************************)
EXTENDS Integers, Sequences, SequencesExt

CONSTANTS
    HeadSize,       \* SocketHead::SocketHeadSize
    WriteMax,       \* CONFIG_CLIENT_WRITEBUF_MAX_SIZE
    ReadMax,        \* CONFIG_CLIENT_READBUF_MAX_SIZE
    Wire,           \* bytes the kernels hold between send() and recv()
    Sizes,          \* sizes of the data given to SendPackage
    MaxPackages     \* bound: calls of SendPackage

\* What a signed int of HeadSize bytes counts.
MaxCounted == 128 * 256^(HeadSize - 1) - 1

\* The size of a package with its head is an int.  All four buffers of the
\* program have one size (Config.h:28-29, SocketMessageSdkConfig.h).
ASSUME SizesAssumption ==
    /\ HeadSize \in 1..4 /\ Sizes \subseteq 0..(MaxCounted - HeadSize)
    /\ WriteMax \in Nat /\ ReadMax \in Nat /\ Wire \in Nat \ {0}
    /\ MaxPackages \in Nat
ASSUME BuffersAssumption == HeadSize < WriteMax /\ HeadSize < ReadMax

VARIABLES
    calls,          \* calls of SendPackage so far
    accepted,       \* the data of the packages Write() took into m_WriteBuf
    m_WriteBuf,     \* up to m_CurWriteBufSize
    wire,           \* sent and not received
    m_ReadBuf,      \* up to m_CurReadBufSize
    delivered,      \* the data given to m_ReadPackageCallback
    closed          \* Recv() returned SOCKET_CLOSE

vars == <<calls, accepted, m_WriteBuf, wire, m_ReadBuf, delivered, closed>>

Init ==
    /\ calls = 0
    /\ accepted = <<>>
    /\ m_WriteBuf = <<>>
    /\ wire = <<>>
    /\ m_ReadBuf = <<>>
    /\ delivered = <<>>
    /\ closed = FALSE

-----------------------------------------------------------------------------
(* Bytes *)

\* An int in memory, least significant byte first, and back.
Bytes(n) == [k \in 1..HeadSize |-> (n \div 256^(k - 1)) % 256]
IntOf(bytes) ==
    FoldLeftDomain(LAMBDA sum, k : sum + bytes[k] * 256^(k - 1), 0, bytes)

\* The n-th call sends size bytes that are told apart by n.
Data(n, size) == [k \in 1..size |-> n % 256]

\* What SendPackage puts before and after one another.
Frame(data) == Bytes(Len(data)) \o data

PackageCount(buf, offset) == IntOf(SubSeq(buf, offset + 1, offset + HeadSize))

\* Mutant: the package has to be followed by another byte.
HasPackageStrict(buf, offset) ==
    /\ Len(buf) > HeadSize + offset
    /\ Len(buf) > offset + HeadSize + PackageCount(buf, offset)

\* The loop of Client4ReadCallback: where it stands after the package at
\* offset, if it goes on from offset.  A package without data is cut out only
\* when one more byte has arrived.
HasPackage(buf, offset) ==
    /\ Len(buf) > HeadSize + offset
    /\ Len(buf) >= offset + HeadSize + PackageCount(buf, offset)

After(buf, offset) == offset + HeadSize + PackageCount(buf, offset)

\* Mutant: an if where the loop is.
ParseOne(buf) ==
    IF HasPackage(buf, 0)
    THEN [eaten |-> After(buf, 0),
          packages |-> <<SubSeq(buf, HeadSize + 1, After(buf, 0))>>]
    ELSE [eaten |-> 0, packages |-> <<>>]

\* What the loop returns (eatCount), and the packages it has given away.
Parse(buf) ==
    LET from[offset \in Nat] ==
            IF HasPackage(buf, offset)
            THEN LET rest == from[After(buf, offset)] IN
                 [eaten |-> rest.eaten,
                  packages |-> <<SubSeq(buf, offset + HeadSize + 1, After(buf, offset))>>
                               \o rest.packages]
            ELSE [eaten |-> offset, packages |-> <<>>]
    IN  from[0]

-----------------------------------------------------------------------------
(* The sending end *)

\* A package is appended whole, or not at all: SendPackage returns false if
\* it sees no room, Write returns 0 if there is none any more.
Write(size) ==
    /\ calls < MaxPackages /\ ~closed
    /\ calls' = calls + 1
    /\ LET data == Data(calls + 1, size) IN
       IF Len(Frame(data)) <= WriteMax - Len(m_WriteBuf)
       THEN /\ m_WriteBuf' = m_WriteBuf \o Frame(data)
            /\ accepted' = Append(accepted, data)
       ELSE UNCHANGED <<m_WriteBuf, accepted>>
    /\ UNCHANGED <<wire, m_ReadBuf, delivered, closed>>

\* Mutant: what was not sent does not move.
SendWithoutMove(count) ==
    /\ count \in 1..Len(m_WriteBuf)
    /\ Len(wire) + count <= Wire
    /\ wire' = wire \o SubSeq(m_WriteBuf, 1, count)
    /\ m_WriteBuf' = SubSeq(m_WriteBuf, 1, Len(m_WriteBuf) - count)
    /\ UNCHANGED <<calls, accepted, m_ReadBuf, delivered, closed>>

\* One turn of the loop of Send(): send() takes the first bytes, the others
\* move to the front.
Send(count) ==
    /\ count \in 1..Len(m_WriteBuf)
    /\ Len(wire) + count <= Wire
    /\ wire' = wire \o SubSeq(m_WriteBuf, 1, count)
    /\ m_WriteBuf' = SubSeq(m_WriteBuf, count + 1, Len(m_WriteBuf))
    /\ UNCHANGED <<calls, accepted, m_ReadBuf, delivered, closed>>

-----------------------------------------------------------------------------
(* The receiving end *)

Room == ReadMax - Len(m_ReadBuf)

\* Mutant: what was eaten stays at the front of the buffer.
RecvWithoutMove(count) ==
    /\ ~closed
    /\ count \in 1..Len(wire) /\ count <= Room
    /\ LET buf == m_ReadBuf \o SubSeq(wire, 1, count) IN
       /\ delivered' = delivered \o Parse(buf).packages
       /\ m_ReadBuf' = SubSeq(buf, 1, Len(buf) - Parse(buf).eaten)
    /\ wire' = SubSeq(wire, count + 1, Len(wire))
    /\ UNCHANGED <<calls, accepted, m_WriteBuf, closed>>

\* One turn of the loop of Recv(): recv() appends, the callback cuts out the
\* packages that are complete, the rest moves to the front.
Recv(count) ==
    /\ ~closed
    /\ count \in 1..Len(wire) /\ count <= Room
    /\ LET buf == m_ReadBuf \o SubSeq(wire, 1, count)
           cut == Parse(buf)
       IN  /\ delivered' = delivered \o cut.packages
           /\ m_ReadBuf' = SubSeq(buf, cut.eaten + 1, Len(buf))
    /\ wire' = SubSeq(wire, count + 1, Len(wire))
    /\ UNCHANGED <<calls, accepted, m_WriteBuf, closed>>

\* With no room left recv() is asked for 0 bytes, returns 0, and Recv() takes
\* that for the end of the connection.
RecvWithoutRoom ==
    /\ ~closed
    /\ Room = 0
    /\ closed' = TRUE
    /\ UNCHANGED <<calls, accepted, m_WriteBuf, wire, m_ReadBuf, delivered>>

-----------------------------------------------------------------------------
Next ==
    \/ \E size \in Sizes : Write(size)
    \/ \E count \in 1..WriteMax : Send(count)
    \/ \E count \in 1..ReadMax : Recv(count)
    \/ RecvWithoutRoom

SafeSpec == Init /\ [][Next]_vars

\* SocketControl's ReadServed and WriteServed: whoever can send or receive is
\* made to.
Spec ==
    /\ SafeSpec
    /\ WF_vars(\E count \in 1..WriteMax : Send(count))
    /\ WF_vars((\E count \in 1..ReadMax : Recv(count)) \/ RecvWithoutRoom)

-----------------------------------------------------------------------------
Byte == 0..255

TypeOK ==
    /\ calls \in 0..MaxPackages
    /\ m_WriteBuf \in Seq(Byte) /\ Len(m_WriteBuf) <= WriteMax
    /\ wire \in Seq(Byte) /\ Len(wire) <= Wire
    /\ m_ReadBuf \in Seq(Byte) /\ Len(m_ReadBuf) <= ReadMax
    /\ closed \in BOOLEAN
    /\ \A data \in Range(accepted) \cup Range(delivered) : data \in Seq(Byte)

Frames(packages) == FlattenSeq([i \in DOMAIN packages |-> Frame(packages[i])])

\* However the bytes are cut by send() and recv(), what was delivered and
\* what is still in the buffers is what was accepted, byte for byte
\* (Write 138-150, Send 171-173, Recv 56-62), and no buffer overflows.
StreamIntact ==
    /\ TypeOK
    /\ Frames(delivered) \o m_ReadBuf \o wire \o m_WriteBuf = Frames(accepted)

\* A reader fills its buffer without finding a whole package, and takes that
\* for the end of the connection, only when a package is larger than the
\* buffer: never, if the writer's buffer is not the larger one (Recv 63-67,
\* 74, Write 141).
NeverCutOff ==
    Room = 0 \/ closed => \E data \in Range(accepted) : Len(Frame(data)) > ReadMax

\* The bytes implement the channel of packages.
Channel == INSTANCE PackageChannel
    WITH Packages <- {Data(n, size) : n \in 1..MaxPackages, size \in Sizes}

ImplementsChannel == Channel!SafeSpec

\* A package that was accepted is delivered, unless the connection is cut off;
\* if it has no data, only when another one follows it.
Arrives ==
    \A n \in 1..MaxPackages :
        (Len(accepted) >= n /\ accepted[n] # <<>>) ~> (Len(delivered) >= n \/ closed)

=============================================================================
