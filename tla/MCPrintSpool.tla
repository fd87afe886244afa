---------------------------- MODULE MCPrintSpool ----------------------------
(* PrintSpool with spool files that differ in every way the code looks at. *)
EXTENDS PrintSpool

File(n, stat) == [size |-> n, stat |-> stat, tty |-> FALSE, extra |-> 0, parses |-> TRUE, parsed |-> n]

\* A file of n bytes for a queue whose name is one character too long.
LongName(n, tty, parsed) == [size |-> n, stat |-> "ok", tty |-> tty,
                             extra |-> 1, parses |-> TRUE, parsed |-> parsed]

\* Sizes 0 (refused by the server) and 2 (a transfer that can be cut short); a name
\* that ends in the digit 1, so that the end of the handshake is taken for the job
\* while the client still has a byte to send, and one that ends in the digit 3, so
\* that the server waits for more than comes.
AllJobs == {File(2, "ok"), File(0, "ok"), File(1, "gid0"), LongName(1, TRUE, 1), LongName(0, FALSE, 3)}
=============================================================================
