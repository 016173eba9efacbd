------------------------------ MODULE ClaudeTurns ------------------------------
(***************************************************************************)
(* The events that the three ingestors of flightlog/ingest make of a JSONL *)
(* session log.                                                            *)
(*                                                                         *)
(* A row of the log is [id, type, key]: `id` stands for its content, `key` *)
(* for its session and run, `type` for what _map_event_type makes of its   *)
(* type member.  generic_jsonl and http_capture_jsonl treat each row by    *)
(* itself.  claude_code first groups the rows of a key into turns          *)
(* (llm/turn_builders/claude_code.py): a turn is opened by a request, or   *)
(* by a tool call or a response outside of a turn, and ends with a         *)
(* response, with the next request, or with the log.                       *)
(***************************************************************************)
EXTENDS Naturals, SequencesExt

CONSTANTS RowTypes, RowKeys

ASSUME RowTypesAssumption ==
    RowTypes \subseteq {"model.request", "model.response", "tool.call", "tool.result", "other"}

Formats == {"claude_code", "http_capture_jsonl", "generic_jsonl"}

Unanswered == 0    \* the response line of a turn without a response

Turn(rows, n, results) ==
    [key |-> rows[n].key, req |-> n, resp |-> Unanswered, uses |-> <<>>, results |-> results]

(* The rows of a turn. *)
MembersOf(turn) ==
    {turn.req} \cup ({turn.resp} \ {Unanswered}) \cup ToSet(turn.uses) \cup ToSet(turn.results)

(* The turn that row n of the log belongs to: the active one of its key,   *)
(* or a new one, which takes the tool results that came before it.         *)
TurnFor(acc, rows, n) ==
    IF rows[n].key \in DOMAIN acc.active
      THEN acc.active[rows[n].key]
      ELSE Turn(rows, n, acc.pending[rows[n].key])

Activate(acc, turn) ==
    [acc EXCEPT !.active = [key \in DOMAIN @ \cup {turn.key} |->
                               IF key = turn.key THEN turn ELSE @[key]],
                !.pending[turn.key] = <<>>]

Deactivate(acc, key) ==
    [acc EXCEPT !.active = Restrict(@, DOMAIN @ \ {key}), !.pending[key] = <<>>]

Build(acc, turn) == [acc EXCEPT !.built = Append(@, turn)]

(* Mutant of OnRequest: a turn without a response is dropped. *)
OnRequestDrops(acc, rows, n) == Activate(acc, Turn(rows, n, acc.pending[rows[n].key]))

OnRequest(acc, rows, n) ==
    LET key == rows[n].key
        flushed == IF key \in DOMAIN acc.active THEN Build(acc, acc.active[key]) ELSE acc
    IN  Activate(flushed, Turn(rows, n, acc.pending[key]))

OnToolCall(acc, rows, n) ==
    Activate(acc, [TurnFor(acc, rows, n) EXCEPT !.uses = Append(@, n)])

(* Mutant of OnToolResult: outside of a turn, it goes to the last one. *)
OnToolResultLate(acc, rows, n) ==
    IF rows[n].key \in DOMAIN acc.active
      THEN [acc EXCEPT !.active[rows[n].key].results = Append(@, n)]
      ELSE IF acc.built # <<>>
        THEN [acc EXCEPT !.built[Len(acc.built)].results = Append(@, n)]
        ELSE acc

OnToolResult(acc, rows, n) ==
    LET key == rows[n].key
    IN  IF key \in DOMAIN acc.active
          THEN [acc EXCEPT !.active[key].results = Append(@, n)]
          ELSE [acc EXCEPT !.pending[key] = Append(@, n)]

(* Mutant of OnResponse: the turn stays active. *)
OnResponseKeepsTurn(acc, rows, n) ==
    LET turn == [TurnFor(acc, rows, n) EXCEPT !.resp = n]
    IN  Build(Activate(acc, turn), turn)

OnResponse(acc, rows, n) ==
    Build(Deactivate(acc, rows[n].key), [TurnFor(acc, rows, n) EXCEPT !.resp = n])

TurnStep(acc, rows, n) ==
    CASE rows[n].type = "model.request"  -> OnRequest(acc, rows, n)
      [] rows[n].type = "tool.call"      -> OnToolCall(acc, rows, n)
      [] rows[n].type = "tool.result"    -> OnToolResult(acc, rows, n)
      [] rows[n].type = "model.response" -> OnResponse(acc, rows, n)
      [] OTHER                           -> acc

NoTurns == [active |-> <<>>, pending |-> [key \in RowKeys |-> <<>>], built |-> <<>>]

(* The loop of build_turns, after each number of rows ...                  *)
TurnsAfter(rows) ==
    LET after[n \in 0..Len(rows)] ==
            IF n = 0 THEN NoTurns ELSE TurnStep(after[n - 1], rows, n)
    IN  after

(* ... and the turns still active at the end, by the line of the request.  *)
OpenedBy(acc, n) == {key \in DOMAIN acc.active : acc.active[key].req = n}

StillActive(acc, rows) ==
    FlattenSeq([n \in DOMAIN rows |->
        IF OpenedBy(acc, n) = {} THEN <<>>
        ELSE <<acc.active[CHOOSE key \in OpenedBy(acc, n) : TRUE]>>])

BuildTurns(rows) ==
    LET end == TurnsAfter(rows)[Len(rows)]
    IN  end.built \o StillActive(end, rows)

OpenTurns(rows) == DOMAIN TurnsAfter(rows)[Len(rows)].active

-------------------------------------------------------------------------------
(* Events.  A model event carries the whole turn (to_events), an own event *)
(* its row.                                                                *)

RequestEvent(turn)  == [role |-> "request", line |-> turn.req, turn |-> turn]
ResponseEvent(turn) ==
    [role |-> "response", turn |-> turn,
     line |-> IF turn.resp = Unanswered THEN turn.req ELSE turn.resp]
OwnEvent(rows, n) == [role |-> rows[n].type, line |-> n, row |-> rows[n].id]

ModelEvent(turn, role) == IF role = "request" THEN RequestEvent(turn) ELSE ResponseEvent(turn)

(* The events of a line in the table of request or of response events.     *)
ModelEvents(turns, role, n) ==
    FlattenSeq([i \in DOMAIN turns |->
        LET event == ModelEvent(turns[i], role)
        IN  IF event.line = n THEN <<event>> ELSE <<>>])

ContentOf(rows, turn) ==
    [turn EXCEPT !.req = rows[@].id,
                 !.resp = IF @ = Unanswered THEN @ ELSE rows[@].id,
                 !.uses = [i \in DOMAIN @ |-> rows[@[i]].id],
                 !.results = [i \in DOMAIN @ |-> rows[@[i]].id]]

(* Mutant of EventsOfRow: no event for the row of a response. *)
EventsOfRowSkipModelRows(rows, turns, n) ==
    ModelEvents(turns, "request", n)
      \o (IF rows[n].type \in {"model.request", "model.response"}
            THEN <<>> ELSE <<OwnEvent(rows, n)>> \o ModelEvents(turns, "response", n))

EventsOfRow(rows, turns, n) ==
    ModelEvents(turns, "request", n)
      \o (IF rows[n].type \in {"model.request", "model.response"}
            THEN <<>> ELSE <<OwnEvent(rows, n)>>)
      \o ModelEvents(turns, "response", n)

(* iter_events of claude_code: the events of each line of the log in turn. *)
ClaudeEvents(rows) ==
    LET turns == BuildTurns(rows)
    IN  FlattenSeq([n \in DOMAIN rows |-> EventsOfRow(rows, turns, n)])

(* http_capture_jsonl: a record holds a request and its response, and one  *)
(* whose response calls a tool (of type "tool.call" here) yields that too. *)
CaptureEvents(rows) ==
    LET RolesOf(n) == <<"request", "response">>
                        \o (IF rows[n].type = "tool.call" THEN <<"tool.call">> ELSE <<>>)
        OfRow(n) == [i \in DOMAIN RolesOf(n) |->
                        [role |-> RolesOf(n)[i], line |-> n, row |-> rows[n].id]]
    IN  FlattenSeq([n \in DOMAIN rows |-> OfRow(n)])

GenericEvents(rows) == [n \in DOMAIN rows |-> OwnEvent(rows, n)]

(* The events, told apart by the content of the rows they are made from:   *)
(* lines count anew after a rotation, contents do not repeat.              *)
Events(format, rows) ==
    CASE format = "claude_code" ->
            LET events == ClaudeEvents(rows)
            IN  [i \in DOMAIN events |->
                    IF events[i].role \in {"request", "response"}
                      THEN [events[i] EXCEPT !.turn = ContentOf(rows, @)]
                      ELSE events[i]]
      [] format = "http_capture_jsonl" -> CaptureEvents(rows)
      [] format = "generic_jsonl" -> GenericEvents(rows)

(* The contents of the rows that one of these events is made of.           *)
ContentsOf(event) == IF "row" \in DOMAIN event THEN {event.row} ELSE MembersOf(event.turn)
===============================================================================
