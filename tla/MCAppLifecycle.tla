--------------------------- MODULE MCAppLifecycle ---------------------------
EXTENDS AppLifecycle, TLC

CONSTANTS j1, j2, j3, s1, s2, obs

MCJobs == {j1, j2, j3}
\* j1 and j2 are added with AddJob and configured; j3 is a name given with
\* --job that no AddJob registered.
MCRegistered == {j1, j2}
MCConfiguredJobs == {j1, j2}
MCServices == {s1, s2}
\* s1 configures a gRPC and an HTTP endpoint, s2 only HTTP.
MCEndpoints(s) == IF s = s1 THEN {"grpc", "http"} ELSE {"http"}

=============================================================================
