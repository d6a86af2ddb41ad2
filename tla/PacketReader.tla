---------------------------- MODULE PacketReader ----------------------------
(***************************************************************************)
(* Reassembly of packets from a TCP stream: tcpusb/packet_reader.go with   *)
(* the wire format of tcpusb/packet.go.  The stream is a sequence of       *)
(* words; a read returns any non-empty part of it that fits.  A header     *)
(* here has the four words that decide how a packet is read: Command,      *)
(* Length, Check and Magic (Arg0 and Arg1 are carried along with Command). *)
(* A step is one turn of the loop of ReadPacket.                           *)
(***************************************************************************)
EXTENDS Naturals, Sequences, SequencesExt

CONSTANTS
    Word,      \* 2^32, the number of values of a word
    Commands,  \* commands of packets
    Payloads,  \* payloads of packets
    MaxWire,   \* packets the client sends
    MaxRead    \* the size of the chunk that appendChunk reads into

ASSUME WordAssumption == Word \in Nat \ {0} /\ Commands \subseteq 0..(Word - 1)
ASSUME PayloadsAssumption == Payloads \subseteq Seq(0..(Word - 1))
ASSUME BoundsAssumption == MaxWire \in Nat /\ MaxRead \in Nat \ {0}

VARIABLES
    wire,      \* the packets the client sends
    rest,      \* the part of the stream that is not read yet
    buffer,    \* PacketReader.buffer
    inBody,    \* PacketReader.inBody
    header,    \* PacketReader.packet, but for its Data
    received,  \* the packets ReadPacket has returned
    failed     \* ReadPacket has returned an error

vars == <<wire, rest, buffer, inBody, header, received, failed>>

-----------------------------------------------------------------------------
(* packet.go: Checksum adds up the payload, Magic complements the command. *)

Checksum(data) == FoldLeft(LAMBDA sum, b : (sum + b) % Word, 0, data)

Magic(command) == (Word - 1) - command

HeaderLen == 4

(* Assemble lays a packet out as a header and its payload.                 *)
Assemble(p) == <<p.command, Len(p.data), p.check, p.magic>> \o p.data

Header(words) ==
    [command |-> words[1], length |-> words[2], check |-> words[3], magic |-> words[4]]

(* Mutant of VerifyChecksum: accepts everything.                           *)
VerifyNothing(h, data) == TRUE

VerifyChecksum(h, data) == h.check = Checksum(data)

VerifyMagic(h) == h.magic = Magic(h.command)

Packet(h, data) ==
    [command |-> h.command, check |-> h.check, magic |-> h.magic, data |-> data]

(* What a client sends: packets as Assemble makes them, and packets whose  *)
(* check or magic was spoilt on the way.                                   *)
WirePacket ==
    {p \in [command : Commands, check : 0..(Word - 1), magic : 0..(Word - 1),
            data : Payloads] :
       p.check = Checksum(p.data) \/ p.magic = Magic(p.command)}

Stream(packets) == FlattenSeq([n \in 1..Len(packets) |-> Assemble(packets[n])])

-----------------------------------------------------------------------------
(* The words the current step of ReadPacket waits for.                     *)
Needed == IF inBody THEN header.length ELSE HeaderLen

(* Mutant of AppendChunk: reads on although the packet is complete.        *)
AppendChunkAlways ==
    /\ ~failed
    /\ \E n \in 1..MaxRead :
         /\ n <= Len(rest)
         /\ buffer' = buffer \o SubSeq(rest, 1, n)
         /\ rest' = SubSeq(rest, n + 1, Len(rest))
    /\ UNCHANGED <<wire, inBody, header, received, failed>>

AppendChunk ==
    /\ ~failed
    /\ Len(buffer) < Needed
    /\ \E n \in 1..MaxRead :
         /\ n <= Len(rest)
         /\ buffer' = buffer \o SubSeq(rest, 1, n)
         /\ rest' = SubSeq(rest, n + 1, Len(rest))
    /\ UNCHANGED <<wire, inBody, header, received, failed>>

(* The stream ends or the connection breaks while ReadPacket reads.        *)
ReadFails ==
    /\ ~failed
    /\ Len(buffer) < Needed
    /\ failed' = TRUE
    /\ UNCHANGED <<wire, rest, buffer, inBody, header, received>>

(* Take the header off the buffer; a packet without payload is complete,   *)
(* and its checksum is not looked at.                                      *)
ReadHeader ==
    LET h == Header(buffer) IN
    /\ ~failed
    /\ ~inBody
    /\ Len(buffer) >= HeaderLen
    /\ header' = h
    /\ buffer' = SubSeq(buffer, HeaderLen + 1, Len(buffer))
    /\ failed' = ~VerifyMagic(h)
    /\ inBody' = (VerifyMagic(h) /\ h.length > 0)
    /\ received' = IF VerifyMagic(h) /\ h.length = 0
                     THEN Append(received, Packet(h, <<>>)) ELSE received
    /\ UNCHANGED <<wire, rest>>

ReadBody ==
    LET data == SubSeq(buffer, 1, header.length) IN
    /\ ~failed
    /\ inBody
    /\ Len(buffer) >= header.length
    /\ buffer' = SubSeq(buffer, header.length + 1, Len(buffer))
    /\ failed' = ~VerifyChecksum(header, data)
    /\ inBody' = failed'
    /\ received' = IF VerifyChecksum(header, data)
                     THEN Append(received, Packet(header, data)) ELSE received
    /\ UNCHANGED <<wire, rest, header>>

Next == AppendChunk \/ ReadFails \/ ReadHeader \/ ReadBody

Init ==
    /\ wire \in UNION {[1..n -> WirePacket] : n \in 0..MaxWire}
    /\ rest = Stream(wire)
    /\ buffer = <<>>
    /\ inBody = FALSE
    /\ header = Header(<<0, 0, 0, 0>>)
    /\ received = <<>>
    /\ failed = FALSE

(* Reader's goroutine runs, and words that were sent arrive.               *)
Spec == Init /\ [][Next]_vars /\ WF_vars(AppendChunk \/ ReadHeader \/ ReadBody)

-----------------------------------------------------------------------------
(* Properties.                                                             *)

(* Every variable stays in its range.                                      *)
TypeOK ==
    /\ \A n \in 1..Len(buffer) : buffer[n] \in 0..(Word - 1)
    /\ inBody \in BOOLEAN /\ failed \in BOOLEAN
    /\ DOMAIN header = {"command", "length", "check", "magic"}
    /\ Len(received) <= Len(wire)

(* Nothing is lost and nothing piles up: while no packet was bad, what was *)
(* delivered, the header in hand, the buffer and what is unread make up,   *)
(* one after the other, what the client sent, and the buffer holds at most *)
(* one incomplete packet and one chunk.  (And every variable keeps its     *)
(* type.)                                                                  *)
BufferIntact ==
    /\ TypeOK
    /\ Len(buffer) < Needed + MaxRead
    /\ ~failed =>
         Stream(received)
           \o (IF inBody THEN <<header.command, header.length, header.check, header.magic>>
               ELSE <<>>)
           \o buffer \o rest = Stream(wire)

(* A packet the reader accepts has a good magic and, if it has a payload,  *)
(* a good checksum.                                                        *)
Accepts(p) ==
    p.magic = Magic(p.command) /\ (p.data = <<>> \/ p.check = Checksum(p.data))

Channel == INSTANCE PacketChannel WITH Valid <- Accepts

(* However the stream is cut into reads, ReadPacket returns the client's   *)
(* packets as PacketChannel says: in order, unchanged, up to the first bad *)
(* one, and each one that has arrived.                                     *)
ImplementsChannel == Channel!Spec

=============================================================================
