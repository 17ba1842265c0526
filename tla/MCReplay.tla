------------------------------ MODULE MCReplay ------------------------------
(* Instances of ReplayTransport for TLC. *)
EXTENDS ReplayTransport

TX(data) == [direction |-> "TX", data |-> data]
RX(data) == [direction |-> "RX", data |-> data]

(* No traffic; one exchange; two requests, with a reply in two packets and *)
(* an unsolicited one in front.                                            *)
MCCaptures ==
    {<<>>,
     <<TX(<<91>>), RX(<<1, 2>>)>>,
     <<RX(<<1>>), TX(<<91>>), RX(<<2, 3>>), RX(<<4>>), TX(<<92>>)>>}

MCPayloads == {<<93>>}
=============================================================================
