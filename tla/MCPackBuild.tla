------------------------------- MODULE MCPackBuild -------------------------------
(* Up to two rows: texts of either size, a patch, a change, a path that    *)
(* leads out of the pack; exchanges with texts and calls in any order.     *)
EXTENDS PackBuild, TLC

MCFields == <<"path", "patch", "before", "after", "note", "messages", "output", "arguments">>
MCLong == {"long", "long patch", "ok\nlong", "long\nok"}
MCPaths == {"a.py", "/a.py", "../c.py", "/"}
MCNormalPath == [p \in MCPaths |-> CASE p = "/a.py" -> "a.py" [] p = "/" -> NoFile [] OTHER -> p]

MCPayloads ==
    { [note |-> "long", after |-> "long"],
      [note |-> "secret", output |-> "long"],
      [path |-> "/a.py", patch |-> "patch"],
      [path |-> "a.py", patch |-> "long patch"],
      [path |-> "a.py", before |-> "x", after |-> "y"],
      [path |-> "a.py", before |-> "", after |-> "y"],
      [patch |-> "patch", note |-> "long"],
      [path |-> "../c.py", patch |-> "patch"],
      [path |-> "/", before |-> "x", after |-> "y", patch |-> "long patch"] }
MCGeneric == [id : {0, 1}, ts : {1, 2}, payload : MCPayloads]

MCAnswers ==
    { <<>>,
      << <<Text("ok")>> >>,
      << <<Text("ok"), ToolUse("ls", "{}")>>, <<ToolUse("cat", "1")>> >>,
      << <<ToolUse("ls", "{}"), Text("long"), ToolUse("cat", "1")>> >>,
      << <<Text("ok"), Text("long"), ToolUse("", "{}"), ToolUse("cat", "{}")>> >> }
MCCapture ==
    { row \in [ts : {1, 2}, family : Families, older : BOOLEAN, asked : {<<Text("long")>>}, answers : MCAnswers] :
          row.older => row.family = "openai_compat" }

MCFiles == <<"a.py", "b.py">>
Space(given, a, b) ==
    [given |-> given, before |-> [f \in {"a.py", "b.py"} |-> "x"],
     after |-> ("a.py" :> a) @@ ("b.py" :> b)]
MCWorkspaces == {Space(FALSE, "x", "x"), Space(TRUE, "y", "x"), Space(TRUE, "y", "secret")}

(* An order that is none of the time, of the log or of the parts.          *)
MCNames == <<"b.py", "", "a.py", "unknown.txt", "../c.py", "/a.py", "/">>
MCIds == {IdIn(id, file) : id \in Ids, file \in Range(MCNames)}
MCHash == [id \in MCIds |->
    (CHOOSE n \in DOMAIN MCNames : MCNames[n] = id.file) * 1000 - id.part * 50 - id.of]
===============================================================================
