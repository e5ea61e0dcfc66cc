----------------------------- MODULE MCDelivery -----------------------------
(* Instances of Delivery for TLC. *)
EXTENDS Delivery, TLC

CONSTANTS u1, u2, s1, s2, s3, v1, m1

(* A sender and a recipient, who connects twice.                           *)
TwoOwner == (s1 :> u1) @@ (s2 :> u2) @@ (s3 :> u2)
Pair == {{u1, u2}}

(* A sender with two devices, to a member who is never connected.          *)
SenderOwner == (s1 :> u1) @@ (s2 :> u1)

(* A group of the sender alone, to which the other is added. *)
Alone == {{u1}}
=============================================================================
