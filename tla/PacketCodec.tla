---------------------------- MODULE PacketCodec ----------------------------
(* The packets of the peers as bytes: packet_serialize, and packet_decode  *)
(* in one go as the client uses it, or header and body apart as the poll   *)
(* loop does.  A byte is a number below ByteBase, 256 in the code.         *)
EXTENDS Integers, Sequences

CONSTANTS
    ByteBase,
    Packets,     \* what a program may hand to packet_serialize
    NoPacket     \* NULL

HeaderLen == 7    \* PKT_HEADER_LEN

Octet == 0 .. ByteBase - 1

\* How many numbers a uint16_t and a uint32_t hold.
Word16 == ByteBase * ByteBase
Word32 == Word16 * Word16

DataPacket(key, value) == [ctrl |-> FALSE, key |-> key, value |-> value]
CtrlPacket(hash, id, ip, port) ==
    [ctrl |-> TRUE, hash_id |-> hash, node_id |-> id, node_ip |-> ip, node_port |-> port]

\* Every field fits into its type; key_len and value_len are the lengths of
\* the key and of the value.
ASSUME CodecAssumption ==
    /\ ByteBase \in Nat /\ ByteBase > 1
    /\ \A p \in Packets :
          /\ p # NoPacket
          /\ IF p.ctrl
             THEN p = CtrlPacket(p.hash_id, p.node_id, p.node_ip, p.node_port)
                    /\ {p.hash_id, p.node_id, p.node_port} \subseteq 0 .. Word16 - 1
                    /\ p.node_ip \in 0 .. Word32 - 1
             ELSE p = DataPacket(p.key, p.value)
                    /\ {p.key, p.value} \subseteq Seq(Octet)
                    /\ Len(p.key) < Word16 /\ Len(p.value) < Word32

VARIABLES
    packet,      \* what has been serialized
    bytes,       \* what has arrived of it
    decoded,     \* what packet_decode has made of that
    overread     \* the decoder has read behind the bytes

codecVars == <<packet, bytes, decoded, overread>>

High(x) == x \div ByteBase    \* x >> 8u
Low(x) == x % ByteBase        \* x & 0xFFu

\* The bytes of a number, the highest first.
TwoBytes(x) == <<Low(High(x)), Low(x)>>
FourBytes(x) == <<Low(High(High(High(x)))), Low(High(High(x))), Low(High(x)), Low(x)>>

\* The number that two or four bytes of b stand for, from the m-th on.
Two(b, m) == b[m] * ByteBase + b[m + 1]
Four(b, m) == Two(b, m) * Word16 + Two(b, m + 2)

\* packet_serialize; the flags' bits are one byte, of which the top one
\* tells the two kinds apart.
Serialize(p) ==
    IF p.ctrl
    THEN <<ByteBase - 1>> \o TwoBytes(p.hash_id) \o TwoBytes(p.node_id)
            \o FourBytes(p.node_ip) \o TwoBytes(p.node_port)
    ELSE <<0>> \o TwoBytes(Len(p.key)) \o FourBytes(Len(p.value)) \o p.key \o p.value

IsCtrl(b) == b[1] = ByteBase - 1

\* packet_decode_hdr: the lengths of a data packet.
KeyLen(b) == Two(b, 2)
ValueLen(b) == Four(b, 4)

\* packet_body_size: the sum of the two lengths is a uint32_t again.
BodySize(b) == IF IsCtrl(b) THEN 4 ELSE (KeyLen(b) + ValueLen(b)) % Word32

\* As many bytes of the body are copied.
Copied(b) == IF IsCtrl(b) THEN 4 ELSE KeyLen(b) + ValueLen(b)

CodecInit ==
    /\ packet \in Packets
    /\ bytes = <<>>
    /\ decoded = NoPacket
    /\ overread = FALSE

\* sendall on one side, recvall on the other, which ends when the sender
\* has closed, with everything or with a part.
Transfer ==
    /\ bytes = <<>>
    /\ \E n \in 1 .. Len(Serialize(packet)) : bytes' = SubSeq(Serialize(packet), 1, n)
    /\ UNCHANGED <<packet, decoded, overread>>

Field(b, m, k) == SubSeq(b, m, k)

\* Mutant: the address is put together from the wrong half first.
BodySwapped(b) ==
    IF IsCtrl(b)
    THEN CtrlPacket(Two(b, 2), Two(b, 4),
                    Two(b, 8) * Word16 + Two(b, 6), Two(b, 10))
    ELSE DataPacket(Field(b, HeaderLen + 1, HeaderLen + KeyLen(b)),
                    Field(b, HeaderLen + KeyLen(b) + 1, HeaderLen + Copied(b)))

\* packet_decode_body, on top of the header.
Body(b) ==
    IF IsCtrl(b)
    THEN CtrlPacket(Two(b, 2), Two(b, 4),
                    Two(b, 6) * Word16 + Two(b, 8), Two(b, 10))
    ELSE DataPacket(Field(b, HeaderLen + 1, HeaderLen + KeyLen(b)),
                    Field(b, HeaderLen + KeyLen(b) + 1, HeaderLen + Copied(b)))

\* The two tests: a header, and as many bytes as the body of a data packet
\* has.  The second is made with the length of header and body together.
Short(b) ==
    Len(b) >= HeaderLen => ~IsCtrl(b) /\ Len(b) < BodySize(b)

\* packet_decode
Decode ==
    /\ bytes # <<>> /\ decoded = NoPacket /\ ~overread
    /\ \/ Short(bytes) /\ UNCHANGED <<decoded, overread>>
       \/ /\ ~Short(bytes) /\ Len(bytes) < HeaderLen + Copied(bytes)
          /\ overread' = TRUE /\ UNCHANGED decoded
       \/ /\ ~Short(bytes) /\ Len(bytes) >= HeaderLen + Copied(bytes)
          /\ decoded' = Body(bytes) /\ UNCHANGED overread
    /\ UNCHANGED <<packet, bytes>>

CodecNext == Transfer \/ Decode

CodecSpec == CodecInit /\ [][CodecNext]_codecVars
-----------------------------------------------------------------------------
\* Whatever arrives whole is decoded to what was sent, with every byte of
\* every field in its place, and nothing else is decoded at all; a packet
\* that has been cut by more than a header's length is refused unread, if
\* its size fits into 32 bits.
DecodesWhatWasSent ==
    /\ decoded # NoPacket => decoded = packet /\ bytes = Serialize(packet)
    /\ overread => \/ Len(bytes) + HeaderLen >= Len(Serialize(packet))
                   \/ Len(Serialize(packet)) >= HeaderLen + Word32

=============================================================================
