--------------------------- MODULE MCBonsaiServer ---------------------------
(* An instance of BonsaiServer for TLC: every request there is. *)
EXTENDS BonsaiServer

MCRequests ==
  [method : {"GET", "POST", "OPTIONS"}, known : BOOLEAN, auth : BOOLEAN, length : BOOLEAN,
   json : BOOLEAN, fields : BOOLEAN, messages : BOOLEAN, stream : BOOLEAN]
=============================================================================
