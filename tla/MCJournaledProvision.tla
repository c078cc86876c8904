------------------------ MODULE MCJournaledProvision ------------------------
(***************************************************************************)
(* Two controllers, two mutations of one Project: a first lane, and one    *)
(* that names the first lane's topology as its prior.                      *)
(***************************************************************************)
EXTENDS JournaledProvision

First == [mutation |-> "m1", operation |-> "o1", nonce |-> "n1",
          lane |-> "l1", prior |-> None]
Second == [mutation |-> "m2", operation |-> "o2", nonce |-> "n2",
           lane |-> "l2", prior |-> {"l1"}]
MCRequests == {First, Second}
=============================================================================
