------------------------------ MODULE FifoLock ------------------------------
(***************************************************************************)
(* What the callers of app/services/mtp_helper.py expect of its lock: one  *)
(* of them has it at a time, and they get it in the order in which they    *)
(* asked for it, those that have given up apart.                           *)
(***************************************************************************)
CONSTANT Call   \* the calls of mtp_helper's verbs

VARIABLES inside,  \* the call that has the lock, if any
          before   \* <<c, d>>: c and d wait, and d asked no sooner than c

line == <<inside, before>>

Waiting == {c \in Call : <<c, c>> \in before}

First(c) == c \in Waiting /\ \A d \in Waiting : <<c, d>> \in before

\* The order of those that wait without the calls in S.
Remaining(S) == {p \in before : p[1] \notin S /\ p[2] \notin S}

LineInit == inside = {} /\ before = {}

\* The lock is free and nobody waits.
Enter(c) ==
  /\ inside = {} /\ Waiting = {}
  /\ inside' = {c}
  /\ UNCHANGED before

Join(c) ==
  /\ c \notin inside \cup Waiting
  /\ before' = before \cup ((Waiting \cup {c}) \X {c})
  /\ UNCHANGED inside

Grant(c) ==
  /\ inside = {} /\ First(c)
  /\ inside' = {c}
  /\ before' = Remaining({c})

Leave == inside # {} /\ inside' = {} /\ UNCHANGED before

\* Calls give up waiting.
Withdraw(S) == before' = Remaining(S) /\ UNCHANGED inside

LineNext ==
  \/ \E c \in Call : Enter(c) \/ Join(c) \/ Grant(c)
  \/ Leave
  \/ \E S \in SUBSET Call : Withdraw(S)

LineSpec == LineInit /\ [][LineNext]_line
=============================================================================
