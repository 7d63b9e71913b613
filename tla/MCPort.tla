------------------------------- MODULE MCPort -------------------------------
(***************************************************************************)
(* Instances of Port for TLC: three threads and the calls each one makes.  *)
(***************************************************************************)
EXTENDS Port, TLC

CONSTANTS t1, t2, t3

\* Observers and objects are interchangeable.
Symmetry == Permutations(Observers) \cup Permutations(Objects)

Program(p1, p2, p3) ==
  [t \in {t1, t2, t3} |-> CASE t = t1 -> p1 [] t = t2 -> p2 [] OTHER -> p3]

\* Waits are made, fire and are canceled, user packets are queued, two threads
\* read, and the object and the port are closed.
PacketProg == Program({"wait_async", "cancel", "cancel_key", "queue", "dequeue"},
                      {"signal", "close_object"}, {"close_port", "dequeue"})

\* Waits fire, and an interrupt, while a thread reads their packets and then
\* closes the port.
LiveProg == Program({"wait_async"}, {"signal", "close_object"}, {"dequeue", "close_port"})

\* Neither program cancels a key while another thread makes a wait.
ASSUME SerializedPrograms == Serialized
=============================================================================
