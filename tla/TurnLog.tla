-------------------------------- MODULE TurnLog --------------------------------
(***************************************************************************)
(* A session log that grows, and what the claude_code ingestor makes of it *)
(* at every length.                                                        *)
(***************************************************************************)
EXTENDS ClaudeTurns

CONSTANT MaxLog    \* bound: rows of the log

VARIABLE lines    \* the rows of the log

TurnLogInit == lines = <<>>

AppendLine ==
    /\ Len(lines) < MaxLog
    /\ \E type \in RowTypes, key \in RowKeys :
          lines' = Append(lines, [id |-> Len(lines) + 1, type |-> type, key |-> key])

TurnLogSpec == TurnLogInit /\ [][AppendLine]_lines

-------------------------------------------------------------------------------
(* Properties.                                                             *)

Turns == BuildTurns(lines)

RowsOf(type) == {n \in DOMAIN lines : lines[n].type = type}

(* Every request, response and tool call of the log is in exactly one      *)
(* turn; a tool result is in none only when no later row of its key opens  *)
(* a turn that could take it (build_turns forgets what is still pending).  *)
RowsBelongToTurns ==
    LET turns == Turns
        TurnsWith(n) == {i \in DOMAIN turns : n \in MembersOf(turns[i])}
    IN  /\ \A n \in DOMAIN lines : Cardinality(TurnsWith(n)) <= 1
        /\ \A n \in DOMAIN lines : lines[n].type \notin {"tool.result", "other"} => TurnsWith(n) # {}
        /\ \A n \in RowsOf("tool.result") :
              TurnsWith(n) = {} =>
                \A m \in DOMAIN lines :
                    (m > n /\ lines[m].key = lines[n].key) => lines[m].type \in {"tool.result", "other"}

(* Turns of one key follow one another: no row of a turn comes after the   *)
(* row that opens the next, and its response is the last of its rows.      *)
TurnsDoNotOverlap ==
    LET turns == Turns
    IN  /\ \A i, j \in DOMAIN turns :
              (turns[i].key = turns[j].key /\ turns[i].req < turns[j].req) =>
                  \A n \in MembersOf(turns[i]) : n < turns[j].req
        /\ \A i \in DOMAIN turns :
              turns[i].resp # Unanswered =>
                  \A n \in MembersOf(turns[i]) : n <= turns[i].resp

(* iter_events yields the events in the order of the log's lines, and of   *)
(* each turn one request event and, after it, one response event, although *)
(* the two are looked up by line in separate tables.                       *)
EventsInLogOrder ==
    LET events == ClaudeEvents(lines)
        turns == Turns
        At(role, turn) == {i \in DOMAIN events : events[i].role = role /\ events[i].turn = turn}
    IN  /\ \A i, j \in DOMAIN events : i < j => events[i].line <= events[j].line
        /\ \A k \in DOMAIN turns :
              \E i, j \in DOMAIN events :
                  /\ At("request", turns[k]) = {i} /\ At("response", turns[k]) = {j}
                  /\ i < j

(* The events of a log change after the fact only while a turn is open:    *)
(* with none open, a new row adds its events at the end and leaves the     *)
(* others as they are.                                                     *)
ClosedTurnsAreFinal ==
    [][OpenTurns(lines) = {} => IsPrefix(ClaudeEvents(lines), ClaudeEvents(lines'))]_lines
===============================================================================
