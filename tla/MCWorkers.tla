----------------------------- MODULE MCWorkers -----------------------------
(* Three requests to a Worker, two of them streams and two with one prefix and one id, and *)
(* a smoke test beside its slot; two diffusion jobs, one of them with followers; two calls  *)
(* of a llama.cpp Worker and two cancellations.                                             *)
EXTENDS InferenceWorkers, TLC

CONSTANTS r1, r2, r3, s1, s2, i1, i2, p1, p2

MCRequests == {r1, r2, r3}
MCSmokes == {s1}
MCStreams == {r1, r2}
MCIds == {i1, i2}
MCIdOf == (r1 :> i1) @@ (r2 :> i2) @@ (r3 :> i1)
MCPrefixes == {p1, p2}
MCPrefixOf == (r1 :> p1) @@ (r2 :> p2) @@ (r3 :> p1)
MCJobs == {r1, r2}
MCSubscribers == {s1, s2}
MCFollows == (s1 :> r1) @@ (s2 :> r1)
MCMaxDrafts == (r1 :> 2) @@ (r2 :> 0)
=============================================================================
