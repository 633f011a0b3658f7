------------------------- MODULE ModelConfiguration -------------------------
(***************************************************************************)
(* From a parsed config.pbtxt to a backend with its execution contexts:    *)
(* what LoadModel makes of a ModelConfig.  Of the message only the         *)
(* platform and the instance groups matter.  A field that config.pbtxt     *)
(* leaves out reads as "", KIND_AUTO, 0, or an empty list.                 *)
(***************************************************************************)
EXTENDS Integers, Sequences
LOCAL INSTANCE Functions

Kinds == {"KIND_AUTO", "KIND_GPU", "KIND_CPU", "KIND_MODEL"}

\* gpus: whether the group lists any.
InstanceGroup == [kind : Kinds, count : Int, gpus : BOOLEAN]
ModelConfig == [platform : STRING, instance_group : Seq(InstanceGroup)]

\* What an empty config.pbtxt, or one that cannot be read, parses to.
EmptyConfig == [platform |-> "", instance_group |-> <<>>]

Groups(config) ==
    {config.instance_group[i] : i \in DOMAIN config.instance_group}

ConvertStringToPlatformType(platform) ==
    IF platform \in {"pytorch_libtorch", "tensorflow_savedmodel", "treelite", "tensorrt",
                     "openvino", "onnxruntime", "lightgbm", "demo"}
    THEN platform ELSE "unknown"

\* Slip: the kinds are not looked at.
ProcessModelConfig_AnyKind(config) ==
    config.platform # "" /\ config.instance_group # <<>>

\* ModelBackend's constructor throws when this fails.
ProcessModelConfig(config) ==
    /\ config.platform # ""
    /\ config.instance_group # <<>>
    /\ \A g \in Groups(config) :
          /\ g.kind # "KIND_GPU"
          /\ g.kind = "KIND_CPU" => ~g.gpus

\* The loop over count makes a context at each turn, or fails in its first
\* turn for a group that is not KIND_CPU.
CreateExecuteContexts(config) ==
    \A g \in Groups(config) : g.count > 0 => g.kind = "KIND_CPU"

\* How many contexts that makes, and so how many runners the scheduler gets.
GetInstanceNum(config) ==
    FoldFunction(LAMBDA g, n : n + IF g.count > 0 THEN g.count ELSE 0,
                 0, config.instance_group)

\* DemoBackendFactory turns the exceptions of either constructor into a failure.
CreateBackend(config) == ProcessModelConfig(config) /\ CreateExecuteContexts(config)

CreateModelBackend(platform, config) == platform = "demo" /\ CreateBackend(config)

LoadModel(config) ==
    CreateModelBackend(ConvertStringToPlatformType(config.platform), config)
=============================================================================
