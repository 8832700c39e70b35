---------------------------- MODULE MCConnection ----------------------------
(***************************************************************************)
(* A small instance of Connection: the read-loop goroutine, which runs hub *)
(* callbacks and also sends (the connected message, pongs), and a          *)
(* goroutine that only sends.                                              *)
(***************************************************************************)
EXTENDS Connection, TLC

CONSTANTS reader, s1

Reader == {reader}
ReaderAndOneSender == {reader, s1}
=============================================================================
