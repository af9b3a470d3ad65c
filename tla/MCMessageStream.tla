-------------------------- MODULE MCMessageStream --------------------------
(* Instances of MessageStream for TLC. *)
EXTENDS MessageStream

Request(s, class, size) == [on |-> s, class |-> class, size |-> size]

(* The server and a client exchange messages of every class; a second client
   sends to the server as well.                                              *)
Exchange == {Request("up1", "vim", 2), Request("up2", "vim", 1),
             Request("down1", "vim", 2), Request("down1", "urgent", 2),
             Request("down1", "common", 1)}
=============================================================================
