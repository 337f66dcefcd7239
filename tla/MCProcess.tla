----------------------------- MODULE MCProcess ------------------------------
(* The environments TLC starts the processes with.                          *)
EXTENDS Process

CONSTANTS p1, p2

Plain == [cmd |-> "", grpc |-> "", metrics |-> "", store |-> "", url |-> "",
          level |-> ""]
WithURL == [Plain EXCEPT !.url = "postgres://db"]

\* One process in any of these, the other always on the database.
AnyEnvironment ==
    {Plain,
     [WithURL EXCEPT !.cmd = "serve", !.store = "memory", !.level = "WARN"],
     [WithURL EXCEPT !.store = "Postgres", !.url = "postgresql://db",
                     !.grpc = "127.0.0.1:8080", !.metrics = "127.0.0.1:9090"],
     [Plain EXCEPT !.store = "redis"], [Plain EXCEPT !.level = "loud"],
     [Plain EXCEPT !.store = "postgres"]}
      \cup {[Plain EXCEPT !.url = u] : u \in {"http://db", "postgres://"} \cup Unparsable}
      \cup {[Plain EXCEPT !.cmd = c] : c \in {"version", "help", "print-config", "other"}}
      \cup {[Plain EXCEPT !.cmd = "print-config", !.level = "loud"]}

MCEnvironments == [p \in {p1, p2} |-> IF p = p1 THEN AnyEnvironment ELSE {WithURL}]

=============================================================================
