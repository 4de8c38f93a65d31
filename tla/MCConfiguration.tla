--------------------------- MODULE MCConfiguration ---------------------------
(* Two builders lent from one policy or made alone. *)
EXTENDS Configuration

MCTwo == {"default", "other"}
MCTimeouts == {1}
MCSyncClocks == {SystemClock}
MCAsyncClocks == {"tokio"}
=============================================================================
