--------------------------- MODULE MCHabTransport ----------------------------
(***************************************************************************)
(* HabTransport for the run "transport": the second message of the guest   *)
(* is for the small pool again, which is then empty, or for the large one, *)
(* with the ring full.  For the run "vhost": one message of the host.      *)
(***************************************************************************)
EXTENDS HabTransport

MCGuestSize == <<{512}, {0, 513}>>
MCHostSize == <<0, 5100>>
MCNone == << >>
MCOneHost == <<0>>
=============================================================================
