---------------------------- MODULE MCPersistence ----------------------------
(* One artist is shown and one is in reserve.                              *)
EXTENDS Persistence

CONSTANTS a, b, u1, r1, d1, p1
MCVisible == <<a>>
MCReserve == <<b>>
=============================================================================
