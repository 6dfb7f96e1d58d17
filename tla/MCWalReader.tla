---------------------------- MODULE MCWalReader ----------------------------
(* Instances of WalReader for TLC. *)
EXTENDS WalReader

Change(k, p) == [key |-> k, put |-> p]

\* A token is stored, stored and deleted again, or stored behind another key;
\* one batch tells of both keys.
SomeContents ==
    {<<Change("token", TRUE)>>, <<Change("token", TRUE), Change("token", FALSE)>>,
     <<Change(Other, TRUE), Change("token", TRUE)>>,
     <<Change("signedIn", FALSE), Change("token", FALSE)>>}
=============================================================================
