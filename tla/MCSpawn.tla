------------------------------ MODULE MCSpawn -------------------------------
(* Instances of Spawn for TLC. *)
EXTENDS Spawn

NoFile == <<"missing">>

(* Programs that read their input to the end before they say more than a    *)
(* pipe holds, or say no more than the pipes and the program hold.          *)
Readers == { <<"drain", "write", "write">>, <<"write", "drain", "write">>,
             <<"copy", "write">>, <<"read", "copy">>, <<"read", "drain">>,
             <<"closeOut", "drain">>, <<"drain", "closeIn", "write">> }

(* Programs that stop reading early, or are not there.                      *)
Others == { NoFile, <<>>, <<"write">>, <<"read", "write">>,
            <<"closeIn", "write">>, <<"closeOut", "read">> }

AnyProgram == Readers \cup Others
UpToThree == 0..3

(* cat, and an input larger than both pipes and what cat holds.             *)
Cat == { <<"copy">> }
Four == {4}
=============================================================================
