------------------------------- MODULE Config -------------------------------
(***************************************************************************)
(* internal/config: the environment as Load resolves it and what Validate   *)
(* accepts.  Values are a few representatives of what an environment may     *)
(* hold; the rate limiter's address decides nothing and is left out.         *)
(***************************************************************************)

\* strings.ToLower on the values that occur.
ToLower(s) == CASE s = "Postgres" -> "postgres"
                [] s = "WARN" -> "warn"
                [] OTHER -> s

\* net/url on the URLs that occur.
Unparsable == {"postgres://[::1"}
Scheme(url) == CASE url \in {"postgres://db", "postgres://"} -> "postgres"
                 [] url = "postgresql://db" -> "postgresql"
                 [] url = "http://db" -> "http"
                 [] OTHER -> ""
HasHost(url) == url \in {"postgres://db", "postgresql://db", "http://db"}

\* Empty is treated like unset.
getEnv(v, fallback) == IF v # "" THEN v ELSE fallback

\* Mutant: the URL does not select the driver.
LoadMemoryByDefault(env) ==
    [grpc |-> getEnv(env.grpc, "0.0.0.0:8080"),
     metrics |-> getEnv(env.metrics, "0.0.0.0:9090"),
     store |-> getEnv(ToLower(env.store), "memory"),
     url |-> env.url,
     level |-> ToLower(getEnv(env.level, "info"))]

Load(env) ==
    [grpc |-> getEnv(env.grpc, "0.0.0.0:8080"),
     metrics |-> getEnv(env.metrics, "0.0.0.0:9090"),
     store |-> getEnv(ToLower(env.store),
                      IF env.url # "" THEN "postgres" ELSE "memory"),
     url |-> getEnv(env.url, ""),
     level |-> ToLower(getEnv(env.level, "info"))]

validatePostgresURL(url) ==
    /\ url \notin Unparsable
    /\ Scheme(url) \in {"postgres", "postgresql"}
    /\ HasHost(url)

Validate(cfg) ==
    /\ cfg.grpc # "" /\ cfg.metrics # ""
    /\ cfg.store \in {"memory", "postgres"}
    /\ cfg.store = "postgres" => cfg.url # "" /\ validatePostgresURL(cfg.url)
    /\ cfg.level \in {"debug", "info", "warn", "error"}

=============================================================================
