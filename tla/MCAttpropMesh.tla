--------------------------- MODULE MCAttpropMesh ---------------------------
(* Small instances of AttpropMesh: a node between two others, or three
   nodes that all know each other. *)
EXTENDS AttpropMesh

CONSTANTS a, b, c

Line == {{a, b}, {b, c}}
Clique == {{a, b}, {b, c}, {a, c}}
=============================================================================
