--------------------------- MODULE MCModelManager ---------------------------
(* Instances of ModelManager for TLC. *)
EXTENDS ModelManager

CONSTANTS m1, m2

MCModels == {m1, m2}

Group(kind, n) == [kind |-> kind, count |-> n, gpus |-> FALSE]
Config(groups) == [platform |-> "demo", instance_group |-> groups]
Good == Config(<<Group("KIND_CPU", 1)>>)
Folder(c, vs) == [parses |-> TRUE, config |-> c, versions |-> vs]

\* Two versions that can be served, the lowest possible one among them; a
\* configuration that ProcessModelConfig refuses, one that it lets pass but
\* that CreateExecuteContexts refuses, one that does not parse; and a
\* directory whose name is a number but no version.
MCFolders ==
    { Folder(Good, {0}), Folder(Good, {0, 2}), Folder(Good, {-3}),
      Folder(Config(<<Group("KIND_CPU", 1), Group("KIND_GPU", 0)>>), {2}),
      Folder(Config(<<Group("KIND_CPU", 1), Group("KIND_MODEL", 1)>>), {2}),
      [parses |-> FALSE, config |-> EmptyConfig, versions |-> {2}] }
=============================================================================
