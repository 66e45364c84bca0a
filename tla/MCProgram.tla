------------------------------- MODULE MCProgram -------------------------------
(* Program with the texts that TLC uses. *)
EXTENDS Program

MCDefaults == [base |-> "./logs", level |-> "error", port |-> 45575, host |-> "localhost"]

MCValues == [o \in Options |-> CASE o = "conf"      -> {Empty, "site.yaml"}
                                 [] o = "log-path"  -> {"/var/log"}
                                 [] o = "log-level" -> {"debug"}]

MCFile(base, lev, port) == [base |-> base, level |-> lev, port |-> port, host |-> "0.0.0.0"]

\* A whole file, one with nothing in it, and one whose port is no number.
MCContents == {MCFile("/logs", "warn", 6000), [f \in Fields |-> Missing],
               MCFile(Empty, "verbose", 6000), MCFile("/logs", "warn", Bad)}

================================================================================
