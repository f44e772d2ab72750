--------------------------------- MODULE Bytes ---------------------------------
(***************************************************************************)
(* What the parsers of text have in common: the bytes with a meaning, and  *)
(* the limit on the sub-parsers that one write may visit.                  *)
(***************************************************************************)
EXTENDS Chunks, Functions

CONSTANTS
    MaxTTL,
    LineFeed, CarriageReturn, Space, Dash, Equal, Ampersand, Percent, Plus, Colon, Semicolon, Quote

CrLf == <<CarriageReturn, LineFeed>>
DashDash == <<Dash, Dash>>

===============================================================================
