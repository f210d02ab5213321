-------------------------- MODULE MCOpenAQRequest --------------------------
(* Hint headers: none, near, beyond the cap, and a timestamp soon in the past. *)
EXTENDS OpenAQRequest

MCHeaderValues == {0, 2, 9, 101}
=============================================================================
