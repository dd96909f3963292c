---- MODULE MCOneUseTicket ----
EXTENDS OneUseTicket, TLC
Interchangeable == Permutations(Invocation) \cup Permutations(Ticket)
====
