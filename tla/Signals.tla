------------------------------- MODULE Signals -------------------------------
(***************************************************************************)
(* What the orchestrator reads in an agent's response                      *)
(* (internal/orchestrator/parse.go).                                       *)
(*                                                                         *)
(* A response is a sequence of lines and a line a sequence of items: JSON  *)
(* objects of the kinds below, prose, or thinking.  A tool call may also   *)
(* run over several lines: tool_split, and tool_fenced inside a code fence.*)
(* Prose has no braces.                                                    *)
(***************************************************************************)
EXTENDS Naturals, Sequences

Unrecognised == {"other"}
SignalObjects == {"cs_low", "cs_ok", "tool", "esc", "propose"}
Blocks == {"tool_split", "tool_fenced"}
Items == SignalObjects \cup Unrecognised \cup Blocks \cup {"prose", "think"}

Lines(resp) == {resp[i] : i \in DOMAIN resp}

(* Line by line, a line counts only when the whole of it is one object. *)
Unmarshals(line) == Len(line) = 1 /\ line[1] \in SignalObjects \cup Unrecognised
HasObject(resp, kind) == \E l \in Lines(resp) : Unmarshals(l) /\ l[1] = kind

(* parseConfidenceSignal: the first line with a score decides. *)
parseConfidenceSignal(resp) ==
    LET scored == {i \in DOMAIN resp : Unmarshals(resp[i]) /\ resp[i][1] \in {"cs_low", "cs_ok"}}
    IN  IF scored = {} THEN "none"
        ELSE resp[CHOOSE i \in scored : \A j \in scored : i <= j][1]

parseEscalation(resp) == HasObject(resp, "esc")

(* The items of the response in order. *)
Flatten(resp) ==
    LET f[i \in 0..Len(resp)] == IF i = 0 THEN <<>> ELSE f[i - 1] \o resp[i] IN f[Len(resp)]

(* extractJSONObject: the first object of the text, if there is one. *)
extractJSONObject(resp) ==
    LET objects == SelectSeq(Flatten(resp), LAMBDA x : x # "prose")
    IN  IF objects = <<>> THEN "none" ELSE Head(objects)

(* parseToolCallFromBlock: what the first fence holds, or else the first *)
(* object of the text.                                                   *)
parseToolCallFromBlock(resp) ==
    \/ \E l \in Lines(resp) : "tool_fenced" \in {l[i] : i \in DOMAIN l}
    \/ extractJSONObject(resp) \in {"tool", "tool_split"}

parseToolCall(resp) == HasObject(resp, "tool") \/ parseToolCallFromBlock(resp)

(* isSignalLine: one or more objects, every one of them a signal. *)
isSignalLine(line) == line # <<>> /\ \A i \in DOMAIN line : line[i] \in SignalObjects

(* stripToolCallLines: what is left for the Boss. *)
stripToolCallLines(resp) == SelectSeq(resp, LAMBDA l : ~isSignalLine(l))

(* extractThinkBlocks: thinking is no part of the response. *)
extractThinkBlocks(resp) ==
    SelectSeq([i \in DOMAIN resp |-> SelectSeq(resp[i], LAMBDA x : x # "think")],
              LAMBDA l : l # <<>>)

=============================================================================
