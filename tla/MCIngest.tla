------------------------------ MODULE MCIngest ------------------------------
(* Instances of Ingest for TLC. *)
EXTENDS Ingest, TLC

\* Packet number and place in the packet; <<0, 0>> is memory never written.
MCJunk == <<0, 0>>

MCBytes == {MCJunk} \cup ((1 .. MaxPackets) \X (1 .. MaxRecv))
=============================================================================
