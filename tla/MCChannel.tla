------------------------------ MODULE MCChannel ------------------------------
(***************************************************************************)
(* Instances of Channel for TLC.  Threads c1 and c2 belong to process P,   *)
(* thread s to process Q; a program is the set of system calls a thread    *)
(* makes, in any order and any number of times within the bounds.          *)
(***************************************************************************)
EXTENDS Channel, TLC

CONSTANTS c1, c2, s, P, Q

ThreeProcOf == (c1 :> P) @@ (c2 :> P) @@ (s :> Q)
TwoProcOf   == (c1 :> P) @@ (c2 :> P)

\* Each process has one endpoint, or one process still has both, as right
\* after zx_channel_create.
Apart    == (0 :> P) @@ (1 :> Q)
Together == (0 :> P) @@ (1 :> P)

\* Two clients call a server that reads, answers and may close its end; the
\* clients' end goes when their process is killed.
CallProg == (c1 :> {"call"}) @@ (c2 :> {"call"}) @@ (s :> {"read", "write", "close"})

\* A reply to one of these calls is an answer to no other.
ASSUME CallProgram == Prog = CallProg => ClientServer

\* Two threads of one process that call and never answer: calls pile up, time
\* out and wrap the txid counter.
WrapProg == (c1 :> {"call"}) @@ (c2 :> {"call", "read"})

\* One thread uses and waits on an endpoint while another closes it or gives it
\* to s, which writes and receives.
TransferProg ==
  (c1 :> {"call", "read", "wait"}) @@ (c2 :> {"send", "close"}) @@ (s :> {"receive", "write"})

\* A client, a server, and a second client thread that only closes.
LiveProg ==
  (c1 :> {"call"}) @@ (c2 :> {"close"}) @@ (s :> {"read", "write", "close"})
=============================================================================
