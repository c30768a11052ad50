---------------------------- MODULE MCDMSession ----------------------------
(* Instances of DMSession for TLC. *)
EXTENDS DMSession, TLC

CONSTANTS m1, m2

(* One response for each way a turn can go on: prose with thinking, a       *)
(* confidence score and a tool call, the two on one line, a low score with  *)
(* and without prose, an escalation, and tool calls over several lines.     *)
AllResponses == {
    << <<"think", "prose">> >>,
    << <<"cs_ok">>, <<"tool">> >>,
    << <<"cs_ok", "tool">> >>,
    << <<"cs_low">> >>,
    << <<"prose">>, <<"cs_low">> >>,
    << <<"prose">>, <<"esc">> >>,
    << <<"cs_ok">>, <<"tool_split">> >>,
    << <<"other">> >>,
    << <<"prose">>, <<"tool_fenced">> >> }

=============================================================================
