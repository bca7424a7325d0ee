--------------------------- MODULE MCRankForward ---------------------------
EXTENDS RankForward

\* A prefill and a decode pass, each of one row and of more.
MCPasses ==
  {<<[phase |-> "prefill", rows |-> a], [phase |-> "decode", rows |-> b]>> :
     a \in {1, 3}, b \in {1, 2}}

\* One of each kind of environment: switches that nothing looks at are off.
MCSettings ==
  {s \in AllSettings :
    /\ s.overlap => s.active /\ s.async
    /\ s.active \/ s.token2 => s.auto
    /\ s.predict => s.server \in {"inproc", "external"}
    /\ s.pauses => s.server = "external"
    /\ s.experts = "cuda" => ~s.prefill /\ ~s.active /\ ~s.token2 /\ ~s.host /\ ~s.auto
    /\ s.experts = "gguf" => ~s.token2 /\ ~s.host /\ ~s.overlap /\ ~s.pauses /\ ~s.predict
    /\ s.policy = "layer_pp" => ~s.token2 /\ ~s.host}
=============================================================================
