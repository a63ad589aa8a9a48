-------------------------- MODULE MCReliableChannel --------------------------
(* TLC instances of ReliableChannel.                                       *)
EXTENDS ReliableChannel, TLC

(* Peer 0 opens gaps wider than the bit field and sends past the end of   *)
(* the sequence range; peer 1 answers.                                     *)
WrapSends == (0 :> 9) @@ (1 :> 2)

(* The first messages of peer 0, and an answer that acks.                  *)
FewSends == (0 :> 3) @@ (1 :> 1)

(* Liveness: one message after the first, and traffic that acks it.        *)
LiveSends == (0 :> 2) @@ (1 :> 1)
==============================================================================
