------------------------------ MODULE MCAsking -------------------------------
(* Handlers for Asking. *)
EXTENDS Asking

Tool(steps) == Handler("call_tool", FALSE, \E n \in DOMAIN steps : steps[n].does = "ask", steps)
FailingPrompt == {Handler("get_prompt", FALSE, FALSE, <<Need(<<"a">>), Just("fail")>>)}
Transaction == {Handler("call_tool", FALSE, TRUE, <<Need(<<"a">>)>>)}
=============================================================================
