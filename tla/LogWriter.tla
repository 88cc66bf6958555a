----------------------------- MODULE LogWriter -----------------------------
(***************************************************************************)
(* The three loggers (logwriter/log_writer.rs): each a thread that writes  *)
(* the lines of a channel and ends when no sender of the channel is left.  *)
(* Of the lines only those after the closing line are told apart.          *)
(***************************************************************************)
VARIABLES
    loggers,    \* the thread of each log: "off", "open" or "ended"
    closing,    \* the logs that were sent their closing line
    late        \* history: logs with a line after the closing line

logVars == <<loggers, closing, late>>
Logs == {"info", "error", "message"}

LogInit == loggers = [l \in Logs |-> "off"] /\ closing = {} /\ late = {}

\* write_in_log, for the logs that a step writes to.
write_in_log(logs) == late' = late \cup (logs \cap closing) /\ UNCHANGED <<loggers, closing>>

set_up_loggers == loggers' = [l \in Logs |-> "open"] /\ UNCHANGED <<closing, late>>

\* shutdown_logger up to its join.
SendClosingLine(l) == closing' = closing \cup {l} /\ UNCHANGED <<loggers, late>>

\* The thread of create_logger, for the number of senders that are left.
LoggerEnds(l, senders) ==
    /\ loggers[l] = "open" /\ senders = 0
    /\ loggers' = [loggers EXCEPT ![l] = "ended"]
    /\ UNCHANGED <<closing, late>>
=============================================================================
