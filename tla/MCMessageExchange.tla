------------------------- MODULE MCMessageExchange -------------------------
(* Values for TLC: two integers, one of them negative, and two strings. *)
EXTENDS MessageExchange

IntsValue  == {-1, 20}
TextValue  == <<1>>
TextsValue == {<<>>, <<9, 1>>}

=============================================================================
