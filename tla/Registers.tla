----------------------------- MODULE Registers -----------------------------
(***************************************************************************)
(* What the commercial, cabling and maintenance registers share: sessions  *)
(* that serve requests, an empty column, and a field a request leaves      *)
(* alone.  A session serves one request at a time and may lose its process *)
(* between any two of its steps.                                           *)
(***************************************************************************)
CONSTANTS
  Null,
  Keep,       \* a field the request leaves alone (undefined)
  Sessions    \* sessions that serve requests

Idle == [op |-> "idle"]
=============================================================================
