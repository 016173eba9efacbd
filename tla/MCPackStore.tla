------------------------------ MODULE MCPackStore ------------------------------
(* Builds that share some of their contents, one by another release. *)
EXTENDS PackStore, TLC

Build(t, artifacts, version) ==
    [timeline |-> t, artifacts |-> artifacts, report |-> t, version |-> version]

One == Build("t1", ("a" :> "x"), "current")
Two == Build("t1", ("a" :> "y") @@ ("b" :> "x"), "current")
Three == Build("t2", ("a" :> "x"), "same major")

MCArtifactKeys == {"a", "b"}
MCSorted == [keys \in SUBSET MCArtifactKeys |-> SelectSeq(<<"a", "b">>, LAMBDA k : k \in keys)]
MCBuilds == {One, Two, Three}
MCKeys == {"k1", "k2"}
===============================================================================
