--------------------------- MODULE MCAgentManager ---------------------------
(* Agents of every process_type, and what the host asks for.               *)
EXTENDS AgentManager

CONSTANTS bsp, arm, scripts

OnePython   == {bsp}
OneExternal == {arm}
OneLocal    == {scripts}
ThreeAgents == {bsp, arm, scripts}

\* Each kind of request to each kind of agent in the normal lane, and to those a
\* script or the Watchdog would send them to in the others.
SomeAsks == {"normal"} \X {"activate"} \X {bsp, arm, Unknown}
            \union {"normal"} \X {"cmd"} \X {arm, scripts, NoAgent}
            \union {<<"normal", "release", NoAgent>>, <<"normal", "estop", NoAgent>>,
                    <<"health", "cmd", arm>>, <<"health", "cmd", bsp>>,
                    <<"priority", "estop", arm>>, <<"priority", "estop", scripts>>}
=============================================================================
