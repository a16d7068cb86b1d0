------------------------------ MODULE TrxCtrl ------------------------------
(***************************************************************************)
(* What the TRXC command queue of trxcon promises to the code above it,     *)
(* independently of sockets, timers and retransmissions: commands are       *)
(* answered one at a time and in the order they were queued, a queued       *)
(* command never disappears unless the whole interface goes down, and a     *)
(* non-empty queue keeps moving.                                            *)
(*                                                                          *)
(* TrxIf is shown to implement this specification.                          *)
(***************************************************************************)
EXTENDS Naturals, Sequences

CONSTANT Command            \* the commands that can be queued

VARIABLES up,               \* is there an open interface?
          pending           \* the commands that wait for their answer

vars == <<up, pending>>

Init == up = TRUE /\ pending = <<>>

\* t is s with something queued behind it.
Extends(s, t) == Len(s) <= Len(t) /\ \A i \in 1 .. Len(s) : t[i] = s[i]

\* The code above the interface queues one or several commands.
Accept == /\ up
          /\ pending' \in Seq(Command)
          /\ Extends(pending, pending')
          /\ UNCHANGED up

\* The oldest command is answered.  The consumer of the answer may queue
\* further commands before the answered one is taken off.
Answer == /\ up
          /\ pending # <<>>
          /\ pending' \in Seq(Command)
          /\ Extends(Tail(pending), pending')
          /\ UNCHANGED up

\* The interface goes down and takes every waiting command with it.
Fail == /\ up
        /\ up' = FALSE
        /\ pending' = <<>>

\* A new instance of the interface starts with nothing queued.
Open == /\ ~up
        /\ up' = TRUE
        /\ UNCHANGED pending

Next == Accept \/ Answer \/ Fail \/ Open

Safety == Init /\ [][Next]_vars

\* Whatever waits is answered, or the interface goes down.
Spec == Safety /\ WF_vars(pending # <<>> /\ (Fail \/ Answer))
=============================================================================
