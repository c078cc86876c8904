---------------------------- MODULE MCFirstLane ----------------------------
(***************************************************************************)
(* Two processes and a request for the first lane of one Project.          *)
(***************************************************************************)
EXTENDS FirstLane

Request(n) == [mutation |-> <<"m", n>>, operation |-> <<"o", n>>,
               nonce |-> <<"n", n>>, lane |-> <<"l", n>>, prior |-> None]
MCRequests == {Request(1)}
=============================================================================
