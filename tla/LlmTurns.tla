-------------------------------- MODULE LlmTurns --------------------------------
(***************************************************************************)
(* From a captured exchange with a provider to the events of the timeline: *)
(* the normalizers of llm/normalizers and to_events.                       *)
(*                                                                         *)
(* What the model said is a sequence of parts, texts and tool calls.  Each *)
(* family of providers puts them on the wire in a form of its own (Wire).  *)
(***************************************************************************)
EXTENDS Sequences, SequencesExt, Integers

Families == {"anthropic", "gemini", "openai_compat"}

CONSTANT Objects    \* the arguments of a tool that are JSON objects

Text(t) == [kind |-> "text", text |-> t, name |-> "", args |-> ""]
ToolUse(name, args) == [kind |-> "tool", text |-> "", name |-> name, args |-> args]

IsText(part) == part.kind = "text"
IsTool(part) == part.kind = "tool"

(* Content of a message as far as the timeline keeps it: the texts among   *)
(* its parts, whatever stands between them, joined by line ends.           *)
Content(parts) ==
    LET joined[n \in 0..Len(parts)] ==
            IF n = 0 THEN ""
            ELSE IF ~IsText(parts[n]) THEN joined[n - 1]
            ELSE IF \A m \in 1..(n - 1) : ~IsText(parts[m]) THEN parts[n].text
            ELSE joined[n - 1] \o "\n" \o parts[n].text
    IN  joined[Len(parts)]

(* A response as the provider sends it, which may offer several answers or *)
(* none (an error, a blocked prompt, a stream, no JSON).  Anthropic sends  *)
(* the parts of the first in order, Gemini those of each; OpenAI one text  *)
(* and, apart from it, the calls: as a list or, in its older form, a       *)
(* single one.                                                             *)
OpenAIMessage(parts, older) ==
    LET calls == FlattenSeq([n \in DOMAIN parts |->
                                IF IsTool(parts[n]) THEN <<parts[n]>> ELSE <<>>])
    IN  [content |-> Content(parts),
         calls |-> IF older THEN <<>> ELSE calls,
         functionCall |-> IF older THEN calls ELSE <<>>]

Wire(family, answers, older) ==
    CASE family = "anthropic" -> IF answers = <<>> THEN <<>> ELSE answers[1]
      [] family = "gemini" -> answers
      [] OTHER -> [n \in DOMAIN answers |-> OpenAIMessage(answers[n], older)]

-------------------------------------------------------------------------------
(* What the normalizers share.                                             *)

(* Arguments, which are JSON, are wrapped in an object if they are none.   *)
Arguments(args) == IF args \in Objects THEN args ELSE "{value: " \o args \o "}"

(* Mutant of CallsAmong: the list is read up to the first item that is no  *)
(* call.                                                                   *)
CallsUpTo(items) ==
    LET first == SelectInSeq(items, LAMBDA item : ~IsTool(item))
        upto == IF first = 0 THEN items ELSE SubSeq(items, 1, first - 1)
    IN  [n \in DOMAIN upto |->
            [name |-> upto[n].name, args |-> Arguments(upto[n].args), index |-> n - 1]]

(* The calls among the items of a list: those with a name, each with its   *)
(* place in the list.                                                      *)
CallsAmong(items) ==
    FlattenSeq([n \in DOMAIN items |->
        IF IsTool(items[n]) /\ items[n].name # ""
        THEN <<[name |-> items[n].name, args |-> Arguments(items[n].args), index |-> n - 1]>>
        ELSE <<>>])

-------------------------------------------------------------------------------
(* The normalizers: LLMTurn, as far as the timeline depends on it.         *)

AnthropicTurn(asked, raw) ==
    [asked |-> Content(asked), output |-> Content(raw), calls |-> CallsAmong(raw)]

(* The first candidate.                                                    *)
Candidate(raw) == IF raw = <<>> THEN <<>> ELSE raw[1]

GeminiCalls(raw) == CallsAmong(Candidate(raw))

GeminiTurn(asked, raw) ==
    [asked |-> Content(asked), output |-> Content(Candidate(raw)), calls |-> GeminiCalls(raw)]

(* canonicalize_message keeps role, content, name, tool_call_id and        *)
(* tool_calls, so the function_call of the older form is gone before       *)
(* _extract_tool_calls looks for it.                                       *)
CanonicalMessage(raw) == [content |-> raw.content, calls |-> raw.calls, functionCall |-> <<>>]

(* The message of the first choice.                                        *)
ResponseMessage(raw) ==
    IF raw = <<>>
    THEN [content |-> "", calls |-> <<>>, functionCall |-> <<>>]
    ELSE CanonicalMessage(raw[1])

OpenAICalls(raw) ==
    LET message == ResponseMessage(raw)
    IN  CallsAmong(IF message.calls # <<>> THEN message.calls ELSE message.functionCall)

(* Messages of this family are in the canonical form as they come.         *)
OpenAITurn(asked, raw) ==
    [asked |-> Content(asked), output |-> ResponseMessage(raw).content, calls |-> OpenAICalls(raw)]

(* select_normalizer.                                                      *)
Turn(family, asked, raw) ==
    CASE family = "anthropic" -> AnthropicTurn(asked, raw)
      [] family = "gemini" -> GeminiTurn(asked, raw)
      [] OTHER -> OpenAITurn(asked, raw)

-------------------------------------------------------------------------------
(* to_events: the event of the request, that of the response, and one for  *)
(* each tool call, all of the time of the turn.  The id tells the line of  *)
(* the capture file and the event within the turn.                         *)
ToEvents(turn, line, ts) ==
    LET Event(part, type, payload, calls) ==
            [id |-> [of |-> line, part |-> part, file |-> ""], ts |-> ts, type |-> type,
             payload |-> payload, calls |-> calls]
    IN  << Event(1, "model.request", [messages |-> turn.asked], turn.calls),
           Event(2, "model.response",
                 [messages |-> turn.asked, output |-> turn.output], turn.calls) >>
        \o [k \in DOMAIN turn.calls |->
                Event(2 + k, "tool.call", [arguments |-> turn.calls[k].args], <<turn.calls[k]>>)]
===============================================================================
