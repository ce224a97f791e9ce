----------------------------- MODULE MCHttpReader -----------------------------
(***************************************************************************)
(* HttpReader for TLC with a limit of five bytes: requests below, at and   *)
(* above the limit, with bodies longer and shorter than they declare, and  *)
(* with lengths no body can have.                                          *)
(***************************************************************************)
EXTENDS HttpReader

M(head, length, body) == [head |-> head, length |-> length, body |-> body]

Messages ==
    {M(2, 0, 0),     \* a GET
     M(2, 2, 2),     \* a POST with its body
     M(2, 3, 3),     \* exactly at the limit
     M(2, 0, 2),     \* a body without Content-Length
     M(2, 2, 4),     \* more bytes than declared, up to beyond the limit
     M(2, 3, 1),     \* fewer bytes than declared
     M(2, -1, 1),    \* no body has this length
     M(1, 6, 4),     \* nor this one
     M(6, 0, 0)}     \* headers beyond the limit
=============================================================================
