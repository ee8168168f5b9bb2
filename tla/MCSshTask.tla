----------------------------- MODULE MCSshTask -----------------------------
(* A small instance of SshTask for TLC: a command that may fail, an upload and a download. *)
EXTENDS SshTask

CONSTANT c1

S(kind, goOn, overwrite) == [kind |-> kind, goOn |-> goOn, overwrite |-> overwrite]
Mixed == <<S("command", TRUE, FALSE), S("upload", FALSE, TRUE), S("download", FALSE, TRUE)>>

\* One question at a time: there are files to be replaced, or the history is cleared and
\* the task deleted beside its runs, or runs overlap.
Replacing == \E s \in Transfers : file[s].had
Beside == spent.deletes > 0 \/ \E c \in Clearer : sweep[c].pc # "idle"
OneAtATime == ~(Replacing' /\ Beside') /\ ~(Replacing' /\ spent'.overlap) /\ ~(Beside' /\ spent'.overlap)
MCSpec == Init /\ [][Next /\ OneAtATime]_vars
=============================================================================
