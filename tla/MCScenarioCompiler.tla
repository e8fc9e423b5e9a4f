------------------------- MODULE MCScenarioCompiler -------------------------
(***************************************************************************)
(* Small instances of ScenarioCompiler for TLC.  The models h100 and h200  *)
(* with a device plugin contract that share the resource gpu, a second     *)
(* contract of h100 (so h100 alone is ambiguous) that derives another      *)
(* strategy in the first release, a DRA contract; groups and pools are     *)
(* listed in either order.                                                 *)
(***************************************************************************)
EXTENDS ScenarioCompiler, TLC

Label(key, value) == [key |-> key, value |-> value]
Contract(model, resource, mode, derived) ==
    [r \in 1..Releases |-> [model |-> model, resource |-> resource, modes |-> {mode},
                            identity |-> {Label("product", 1)}, derived |-> derived[r]]]
Always(labels) == [r \in 1..Releases |-> labels]
Plugin == {Label("count", Total), Label("strategy", 1)}
Mig == [r \in 1..Releases |-> {Label("count", Total), Label("strategy", IF r = 1 THEN 2 ELSE 1)}]
SomeContracts ==
    "h100-plugin" :> Contract("h100", "gpu", "scheduling", Always(Plugin))
    @@ "h100-mig" :> Contract("h100", "mig", "scheduling", Mig)
    @@ "h200-plugin" :> Contract("h200", "gpu", "scheduling",
                                 Always({Label("count", Total), Label("nvsm", Default)}))
    @@ "h100-dra" :> Contract("h100", "gpu.nvidia.com", "dra-control-plane", Always({}))

Pool(name, model, contract, revision) ==
    [name |-> name, model |-> model, contract |-> contract, revision |-> revision,
     count |-> 1, healthy |-> Default]
Rdma(resource) ==
    [name |-> 1, resource |-> resource, count |-> 1, available |-> 1, with |-> {1}]
Group(name, labels, discovery, pools, auxiliary) ==
    [name |-> name, replicas |-> 1, labels |-> labels, discovery |-> discovery,
     pools |-> pools, auxiliary |-> auxiliary]
Scenario(mode, groups) == [mode |-> mode, groups |-> groups]

PoolLists ==
    UNION {{<<Pool(1, "h100", "h100-plugin", r)>>, <<Pool(1, "h100", Default, r)>>,
            <<Pool(2, "h100", "h100-mig", r), Pool(1, "h100", "h100-plugin", r)>>,
            <<Pool(2, "h200", "h200-plugin", r), Pool(1, "h100", "h100-plugin", r)>>} :
           r \in 1..Releases}
Groups ==
    {Group(1, {}, TRUE, pools, auxiliary) :
        pools \in PoolLists, auxiliary \in {<<>>, <<Rdma("rdma")>>, <<Rdma("gpu")>>}}
    \union {Group(1, labels, discovery, <<Pool(1, "h200", Default, 1)>>, <<>>) :
            labels \in {{}, {"count"}, {"product"}, {"nvsm"}, {"hostname"}},
            discovery \in BOOLEAN}
Second(r) == Group(2, {}, FALSE, <<Pool(1, "h200", Default, r)>>, <<>>)
SomeDocuments ==
    {Scenario("scheduling", <<g>>) : g \in Groups}
    \union {Scenario("scheduling", <<Second(r), g>>) : r \in 1..Releases, g \in Groups}
    \union {Scenario("dra-control-plane",
                     <<Group(1, {}, TRUE, <<Pool(1, "h100", Default, r)>>, <<>>)>>) :
            r \in 1..Releases}
TwoDraPools ==
    {Scenario("dra-control-plane",
              <<Group(1, {}, FALSE, <<Pool(1, "h100", Default, 1), Pool(2, "h100", Default, 1)>>,
                      <<>>)>>)}
=============================================================================
