------------------------------- MODULE Delivery -------------------------------
(***************************************************************************)
(* What the outbox promises to the agents: every committed assignment is   *)
(* owed until the agent queue, or the dead-letter queue, has accepted it   *)
(* at least once; it may be handed over again, and it is written off only  *)
(* after it was.                                                           *)
(***************************************************************************)
CONSTANTS Messages

Queues == {"agents", "dead"}

VARIABLES state,   \* [Messages -> {"absent", "owed", "closed"}]
          copies   \* the queues that have accepted the message

dvars == <<state, copies>>

Owe(m) ==
  /\ state[m] = "absent" /\ state' = [state EXCEPT ![m] = "owed"]
  /\ UNCHANGED copies

\* Delivery is at least once: a straggler may hand over what is closed already.
Hand(m, q) ==
  /\ state[m] # "absent" /\ copies' = [copies EXCEPT ![m] = @ \cup {q}]
  /\ UNCHANGED state

Close(m) ==
  /\ state[m] = "owed" /\ copies[m] # {} /\ state' = [state EXCEPT ![m] = "closed"]
  /\ UNCHANGED copies

DInit == state = [m \in Messages |-> "absent"] /\ copies = [m \in Messages |-> {}]
DNext == \E m \in Messages : Owe(m) \/ Close(m) \/ \E q \in Queues : Hand(m, q)
DSpec == DInit /\ [][DNext]_dvars

=============================================================================
