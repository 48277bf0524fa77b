---------------------------- MODULE MCUdpBridge -----------------------------
(* UdpBridge with bytes of one bit, for TLC. *)
EXTENDS UdpBridge

MCDatagram == {<<>>, <<1>>, <<0, 1>>}
MCBatch == [e \in End |-> 2]

CONSTANTS ServerTakes, ClientTakes
MCMaxTaken == [e \in End |-> IF e = "server" THEN ServerTakes ELSE ClientTakes]

=============================================================================
