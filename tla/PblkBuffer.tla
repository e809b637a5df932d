------------------------------ MODULE PblkBuffer ------------------------------
(* What a write buffer promises to its users, whatever its pointers and flags   *)
(* do: a bounded queue whose entries are stored in the order they were claimed  *)
(* and leave it only once they are stored.                                      *)
EXTENDS Integers, Sequences

CONSTANT Capacity   \* most entries the buffer holds at a time

VARIABLE log        \* the stage of every entry, the oldest first

Stages == {"claimed", "filled", "sent", "stored"}

Init == log = <<>>

\* Room is made by dropping k stored entries; n new ones join at the end.
Claim(n, k) ==
  /\ \A i \in 1 .. k : log[i] = "stored"
  /\ Len(log) - k + n <= Capacity
  /\ log' = [i \in 1 .. Len(log) - k + n |->
               IF i <= Len(log) - k THEN log[i + k] ELSE "claimed"]

\* The data of an entry is copied in, and nothing else happens to the buffer.
Fill(i) == log[i] = "claimed" /\ log' = [log EXCEPT ![i] = "filled"]

\* A filled entry, and only a filled one, becomes part of a write request.
Send(i) == log[i] = "filled" /\ log' = [log EXCEPT ![i] = "sent"]

\* The first m entries have all been sent and count as stored.
Store(m) ==
  /\ \A i \in 1 .. m : log[i] \in {"sent", "stored"}
  /\ log' = [i \in DOMAIN log |-> IF i <= m THEN "stored" ELSE log[i]]

Next ==
  \/ \E n \in 0 .. Capacity, k \in 0 .. Len(log) : Claim(n, k)
  \/ \E i \in DOMAIN log : Fill(i) \/ Send(i) \/ Store(i)

Spec == Init /\ [][Next]_log
===============================================================================
