--------------------------- MODULE MCPacketReader ---------------------------
(***************************************************************************)
(* Small instances of PacketReader.                                        *)
(***************************************************************************)
EXTENDS PacketReader

SmallPayloads == {<<>>, <<1>>, <<2, 1>>, <<2, 2, 1>>}
=============================================================================
