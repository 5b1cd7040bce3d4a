------------------------------ MODULE MCSources ------------------------------
(* A small instance of Sources: two uploads, and the kinds of their contents. *)
EXTENDS Sources, TLC

CONSTANTS u1, u2

File(content, ext) == [content |-> content, ext |-> ext]
TwoImages == u1 :> File("i1", "png") @@ u2 :> File("i2", "png")
OneImageTwice == u1 :> File("i1", "jpg") @@ u2 :> File("i1", "jpeg")
Operations == [u \in Uploads |-> IF u \in Watched THEN 2 ELSE 1]
Kinds == [content \in Images |-> "IMAGE"]

=============================================================================
