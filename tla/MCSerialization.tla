--------------------------- MODULE MCSerialization ----------------------------
(***************************************************************************)
(* An instance of Serialization.  A line of the client has at most 510     *)
(* characters (RESP_SIZE), so all these sizes can be typed.                *)
(***************************************************************************)
EXTENDS Serialization

\* Short sizes, and those around the bounds of one and of two turns of a byte.
KeySizesTyped  == 2 .. 20 \union 120 .. 135 \union 250 .. 260 \union 380 .. 390 \union {500}
DataSizesTyped == KeySizesTyped \union {0, 1}
=============================================================================
