--------------------------- MODULE MCAsyncClient ---------------------------
(* The control points from which an application of AsyncClient disconnects. *)
EXTENDS AsyncClient

Everywhere == {"loop"} \cup Upcalls

\* Everywhere but in a reply handler, which doProcessMessage() does not survive.
NotInReplies == Everywhere \ {"reply"}
=============================================================================
