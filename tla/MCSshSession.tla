---------------------------- MODULE MCSshSession ----------------------------
(* A small instance of SshSession for TLC, in two halves. *)
EXTENDS SshSession

CONSTANTS c1, o1, t1

Files == printed = Chunks /\ faults = MaxFaults
         /\ (\A o \in Opener : opener[o].left = Opens) /\ \A t \in Transfer : transfer[t].pc = "none"
History == printed = 0 /\ faults = 0
           /\ (\A o \in Opener : opener[o].left = 0) /\ \A t \in Transfer : transfer[t].pc = "over"

\* Either files are used and nothing is printed, or output is saved and no file is used.
MCInit == Init /\ (Files \/ History)
MCSpec == MCInit /\ [][Next]_vars /\ Fairness
=============================================================================
