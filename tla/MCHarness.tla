------------------------------ MODULE MCHarness ------------------------------
EXTENDS Harness, TLC

Nothing == [f \in Flags |-> None]
Set(fs) == [f \in Flags |-> IF f \in fs THEN "on" ELSE None]
Start(cmd, env, platform, provisions) ==
    [cmd |-> cmd, env |-> env, platform |-> platform, built |-> {"aws", "gcp", "mem"},
     provisions |-> provisions]

Usual == {"script", "namespace", "kv-store", "control-socket"}

\* On ECS, with a table to create, and a stray variable that asks for a probe.
Ecs == Start(Set(Usual \cup {"kv-create"}), Set({"health-probe", "kv-table"}), "aws", TRUE)

\* On Cloud Run, configured by the environment, without a socket.
CloudRun == Start(Set({"script"}), Set({"namespace", "kv-store", "provider-opt"}), "gcp", TRUE)

\* By name, with a flag on the command line and another value in the environment.
InMemory ==
    Start(("provider" :> "mem") @@ Set({"script", "kv-store"}), ("provider" :> "aws") @@ Nothing,
          None, FALSE)

\* Starts that end before main(): a store that cannot be created, a provider that
\* is not built in, options nobody declares, no provider, a removed flag, a bad
\* variable; and the two other modes.
Refused ==
    {[Ecs EXCEPT !.provisions = FALSE],
     [Ecs EXCEPT !.built = {"mem"}],
     [Ecs EXCEPT !.cmd["provider-opt"] = "unknown"],
     [Ecs EXCEPT !.platform = None],
     [Ecs EXCEPT !.cmd["kv-table"] = "on"],
     [Ecs EXCEPT !.env["provider-opt"] = "bad"],
     [Ecs EXCEPT !.cmd["health-probe"] = "on"],
     [CloudRun EXCEPT !.cmd["health-probe"] = "on"],
     [Ecs EXCEPT !.cmd["provider-help"] = "on"]}

AllSetups == {Ecs, CloudRun, InMemory} \cup Refused
=============================================================================
