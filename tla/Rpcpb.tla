------------------------------- MODULE Rpcpb -------------------------------
(***************************************************************************)
(* The requests and the responses of the administration service, laid out  *)
(* as in Metapb.                                                           *)
(***************************************************************************)
EXTENDS WireFields

RpcHeader_MarshalTo == << BytesTo(<<10>>, "Uuid") >>
RpcHeader_Size == << SizeBytes(1, "Uuid") >>
RpcHeader_Unmarshal == { OneBytes(1, "Uuid") }

PutClusterReq_MarshalTo == << MsgTo(<<10>>, "Header", "RpcHeader"),
    MsgTo(<<18>>, "Cluster", "Cluster") >>
PutClusterReq_Size == << SizeMsg(1, "Header", "RpcHeader"),
    SizeMsg(1, "Cluster", "Cluster") >>
PutClusterReq_Unmarshal == { OneMsg(1, "Header", "RpcHeader"),
    OneMsg(2, "Cluster", "Cluster") }

PutClusterRsp_MarshalTo == << MsgTo(<<10>>, "Header", "RpcHeader"),
    VarTo(<<16>>, "ID") >>
PutClusterRsp_Size == << SizeMsg(1, "Header", "RpcHeader"), SizeVar(1, "ID")
    >>
PutClusterRsp_Unmarshal == { OneMsg(1, "Header", "RpcHeader"),
    OneVar(2, "ID", "uint64") }

RemoveClusterReq_MarshalTo == << MsgTo(<<10>>, "Header", "RpcHeader"),
    VarTo(<<16>>, "ID") >>
RemoveClusterReq_Size == << SizeMsg(1, "Header", "RpcHeader"),
    SizeVar(1, "ID") >>
RemoveClusterReq_Unmarshal == { OneMsg(1, "Header", "RpcHeader"),
    OneVar(2, "ID", "uint64") }

RemoveClusterRsp_MarshalTo == << MsgTo(<<10>>, "Header", "RpcHeader") >>
RemoveClusterRsp_Size == << SizeMsg(1, "Header", "RpcHeader") >>
RemoveClusterRsp_Unmarshal == { OneMsg(1, "Header", "RpcHeader") }

GetClusterReq_MarshalTo == << MsgTo(<<10>>, "Header", "RpcHeader"),
    VarTo(<<16>>, "ID") >>
GetClusterReq_Size == << SizeMsg(1, "Header", "RpcHeader"), SizeVar(1, "ID")
    >>
GetClusterReq_Unmarshal == { OneMsg(1, "Header", "RpcHeader"),
    OneVar(2, "ID", "uint64") }

GetClusterRsp_MarshalTo == << MsgTo(<<10>>, "Header", "RpcHeader"),
    MsgTo(<<18>>, "Cluster", "Cluster") >>
GetClusterRsp_Size == << SizeMsg(1, "Header", "RpcHeader"),
    SizeMsg(1, "Cluster", "Cluster") >>
GetClusterRsp_Unmarshal == { OneMsg(1, "Header", "RpcHeader"),
    OptMsg(2, "Cluster", "Cluster") }

GetClusterListReq_MarshalTo == << MsgTo(<<10>>, "Header", "RpcHeader") >>
GetClusterListReq_Size == << SizeMsg(1, "Header", "RpcHeader") >>
GetClusterListReq_Unmarshal == { OneMsg(1, "Header", "RpcHeader") }

PutServerReq_MarshalTo == << MsgTo(<<10>>, "Header", "RpcHeader"),
    MsgTo(<<18>>, "Server", "Server") >>
PutServerReq_Size == << SizeMsg(1, "Header", "RpcHeader"),
    SizeMsg(1, "Server", "Server") >>
PutServerReq_Unmarshal == { OneMsg(1, "Header", "RpcHeader"),
    OneMsg(2, "Server", "Server") }

PutServerRsp_MarshalTo == << MsgTo(<<10>>, "Header", "RpcHeader"),
    VarTo(<<16>>, "ID") >>
PutServerRsp_Size == << SizeMsg(1, "Header", "RpcHeader"), SizeVar(1, "ID") >>
PutServerRsp_Unmarshal == { OneMsg(1, "Header", "RpcHeader"),
    OneVar(2, "ID", "uint64") }

RemoveServerReq_MarshalTo == << MsgTo(<<10>>, "Header", "RpcHeader"),
    VarTo(<<16>>, "ID") >>
RemoveServerReq_Size == << SizeMsg(1, "Header", "RpcHeader"), SizeVar(1, "ID")
    >>
RemoveServerReq_Unmarshal == { OneMsg(1, "Header", "RpcHeader"),
    OneVar(2, "ID", "uint64") }

RemoveServerRsp_MarshalTo == << MsgTo(<<10>>, "Header", "RpcHeader") >>
RemoveServerRsp_Size == << SizeMsg(1, "Header", "RpcHeader") >>
RemoveServerRsp_Unmarshal == { OneMsg(1, "Header", "RpcHeader") }

GetServerReq_MarshalTo == << MsgTo(<<10>>, "Header", "RpcHeader"),
    VarTo(<<16>>, "ID") >>
GetServerReq_Size == << SizeMsg(1, "Header", "RpcHeader"), SizeVar(1, "ID") >>
GetServerReq_Unmarshal == { OneMsg(1, "Header", "RpcHeader"),
    OneVar(2, "ID", "uint64") }

GetServerRsp_MarshalTo == << MsgTo(<<10>>, "Header", "RpcHeader"),
    MsgTo(<<18>>, "Server", "Server") >>
GetServerRsp_Size == << SizeMsg(1, "Header", "RpcHeader"),
    SizeMsg(1, "Server", "Server") >>
GetServerRsp_Unmarshal == { OneMsg(1, "Header", "RpcHeader"),
    OptMsg(2, "Server", "Server") }

GetServerListReq_MarshalTo == << MsgTo(<<10>>, "Header", "RpcHeader") >>
GetServerListReq_Size == << SizeMsg(1, "Header", "RpcHeader") >>
GetServerListReq_Unmarshal == { OneMsg(1, "Header", "RpcHeader") }

PutAPIReq_MarshalTo == << MsgTo(<<10>>, "Header", "RpcHeader"),
    MsgTo(<<18>>, "API", "API") >>
PutAPIReq_Size == << SizeMsg(1, "Header", "RpcHeader"),
    SizeMsg(1, "API", "API") >>
PutAPIReq_Unmarshal == { OneMsg(1, "Header", "RpcHeader"),
    OneMsg(2, "API", "API") }

PutAPIRsp_MarshalTo == << MsgTo(<<10>>, "Header", "RpcHeader"),
    VarTo(<<16>>, "ID") >>
PutAPIRsp_Size == << SizeMsg(1, "Header", "RpcHeader"), SizeVar(1, "ID") >>
PutAPIRsp_Unmarshal == { OneMsg(1, "Header", "RpcHeader"),
    OneVar(2, "ID", "uint64") }

RemoveAPIReq_MarshalTo == << MsgTo(<<10>>, "Header", "RpcHeader"),
    VarTo(<<16>>, "ID") >>
RemoveAPIReq_Size == << SizeMsg(1, "Header", "RpcHeader"), SizeVar(1, "ID") >>
RemoveAPIReq_Unmarshal == { OneMsg(1, "Header", "RpcHeader"),
    OneVar(2, "ID", "uint64") }

RemoveAPIRsp_MarshalTo == << MsgTo(<<10>>, "Header", "RpcHeader") >>
RemoveAPIRsp_Size == << SizeMsg(1, "Header", "RpcHeader") >>
RemoveAPIRsp_Unmarshal == { OneMsg(1, "Header", "RpcHeader") }

GetAPIReq_MarshalTo == << MsgTo(<<10>>, "Header", "RpcHeader"),
    VarTo(<<16>>, "ID") >>
GetAPIReq_Size == << SizeMsg(1, "Header", "RpcHeader"), SizeVar(1, "ID") >>
GetAPIReq_Unmarshal == { OneMsg(1, "Header", "RpcHeader"),
    OneVar(2, "ID", "uint64") }

GetAPIRsp_MarshalTo == << MsgTo(<<10>>, "Header", "RpcHeader"),
    MsgTo(<<18>>, "API", "API") >>
GetAPIRsp_Size == << SizeMsg(1, "Header", "RpcHeader"),
    SizeMsg(1, "API", "API") >>
GetAPIRsp_Unmarshal == { OneMsg(1, "Header", "RpcHeader"),
    OptMsg(2, "API", "API") }

GetAPIListReq_MarshalTo == << MsgTo(<<10>>, "Header", "RpcHeader") >>
GetAPIListReq_Size == << SizeMsg(1, "Header", "RpcHeader") >>
GetAPIListReq_Unmarshal == { OneMsg(1, "Header", "RpcHeader") }

PutRoutingReq_MarshalTo == << MsgTo(<<10>>, "Header", "RpcHeader"),
    MsgTo(<<18>>, "Routing", "Routing") >>
PutRoutingReq_Size == << SizeMsg(1, "Header", "RpcHeader"),
    SizeMsg(1, "Routing", "Routing") >>
PutRoutingReq_Unmarshal == { OneMsg(1, "Header", "RpcHeader"),
    OneMsg(2, "Routing", "Routing") }

PutRoutingRsp_MarshalTo == << MsgTo(<<10>>, "Header", "RpcHeader"),
    VarTo(<<16>>, "ID") >>
PutRoutingRsp_Size == << SizeMsg(1, "Header", "RpcHeader"), SizeVar(1, "ID")
    >>
PutRoutingRsp_Unmarshal == { OneMsg(1, "Header", "RpcHeader"),
    OneVar(2, "ID", "uint64") }

RemoveRoutingReq_MarshalTo == << MsgTo(<<10>>, "Header", "RpcHeader"),
    VarTo(<<16>>, "ID") >>
RemoveRoutingReq_Size == << SizeMsg(1, "Header", "RpcHeader"),
    SizeVar(1, "ID") >>
RemoveRoutingReq_Unmarshal == { OneMsg(1, "Header", "RpcHeader"),
    OneVar(2, "ID", "uint64") }

RemoveRoutingRsp_MarshalTo == << MsgTo(<<10>>, "Header", "RpcHeader") >>
RemoveRoutingRsp_Size == << SizeMsg(1, "Header", "RpcHeader") >>
RemoveRoutingRsp_Unmarshal == { OneMsg(1, "Header", "RpcHeader") }

GetRoutingReq_MarshalTo == << MsgTo(<<10>>, "Header", "RpcHeader"),
    VarTo(<<16>>, "ID") >>
GetRoutingReq_Size == << SizeMsg(1, "Header", "RpcHeader"), SizeVar(1, "ID")
    >>
GetRoutingReq_Unmarshal == { OneMsg(1, "Header", "RpcHeader"),
    OneVar(2, "ID", "uint64") }

GetRoutingRsp_MarshalTo == << MsgTo(<<10>>, "Header", "RpcHeader"),
    MsgTo(<<18>>, "Routing", "Routing") >>
GetRoutingRsp_Size == << SizeMsg(1, "Header", "RpcHeader"),
    SizeMsg(1, "Routing", "Routing") >>
GetRoutingRsp_Unmarshal == { OneMsg(1, "Header", "RpcHeader"),
    OptMsg(2, "Routing", "Routing") }

GetRoutingListReq_MarshalTo == << MsgTo(<<10>>, "Header", "RpcHeader") >>
GetRoutingListReq_Size == << SizeMsg(1, "Header", "RpcHeader") >>
GetRoutingListReq_Unmarshal == { OneMsg(1, "Header", "RpcHeader") }

AddBindReq_MarshalTo == << MsgTo(<<10>>, "Header", "RpcHeader"),
    VarTo(<<16>>, "Cluster"), VarTo(<<24>>, "Server") >>
AddBindReq_Size == << SizeMsg(1, "Header", "RpcHeader"),
    SizeVar(1, "Cluster"), SizeVar(1, "Server") >>
AddBindReq_Unmarshal == { OneMsg(1, "Header", "RpcHeader"),
    OneVar(2, "Cluster", "uint64"), OneVar(3, "Server", "uint64") }

AddBindRsp_MarshalTo == << MsgTo(<<10>>, "Header", "RpcHeader") >>
AddBindRsp_Size == << SizeMsg(1, "Header", "RpcHeader") >>
AddBindRsp_Unmarshal == { OneMsg(1, "Header", "RpcHeader") }

RemoveBindReq_MarshalTo == << MsgTo(<<10>>, "Header", "RpcHeader"),
    VarTo(<<16>>, "Cluster"), VarTo(<<24>>, "Server") >>
RemoveBindReq_Size == << SizeMsg(1, "Header", "RpcHeader"),
    SizeVar(1, "Cluster"), SizeVar(1, "Server") >>
RemoveBindReq_Unmarshal == { OneMsg(1, "Header", "RpcHeader"),
    OneVar(2, "Cluster", "uint64"), OneVar(3, "Server", "uint64") }

RemoveBindRsp_MarshalTo == << MsgTo(<<10>>, "Header", "RpcHeader") >>
RemoveBindRsp_Size == << SizeMsg(1, "Header", "RpcHeader") >>
RemoveBindRsp_Unmarshal == { OneMsg(1, "Header", "RpcHeader") }

RemoveClusterBindReq_MarshalTo == << MsgTo(<<10>>, "Header", "RpcHeader"),
    VarTo(<<16>>, "Cluster") >>
RemoveClusterBindReq_Size == << SizeMsg(1, "Header", "RpcHeader"),
    SizeVar(1, "Cluster") >>
RemoveClusterBindReq_Unmarshal == { OneMsg(1, "Header", "RpcHeader"),
    OneVar(2, "Cluster", "uint64") }

RemoveClusterBindRsp_MarshalTo == << MsgTo(<<10>>, "Header", "RpcHeader") >>
RemoveClusterBindRsp_Size == << SizeMsg(1, "Header", "RpcHeader") >>
RemoveClusterBindRsp_Unmarshal == { OneMsg(1, "Header", "RpcHeader") }

GetBindServersReq_MarshalTo == << MsgTo(<<10>>, "Header", "RpcHeader"),
    VarTo(<<16>>, "Cluster") >>
GetBindServersReq_Size == << SizeMsg(1, "Header", "RpcHeader"),
    SizeVar(1, "Cluster") >>
GetBindServersReq_Unmarshal == { OneMsg(1, "Header", "RpcHeader"),
    OneVar(2, "Cluster", "uint64") }

GetBindServersRsp_MarshalTo == << MsgTo(<<10>>, "Header", "RpcHeader"),
    VarTo(<<16>>, "Servers") >>
GetBindServersRsp_Size == << SizeMsg(1, "Header", "RpcHeader"),
    SizeVar(1, "Servers") >>
GetBindServersRsp_Unmarshal == { OneMsg(1, "Header", "RpcHeader"),
    RepVar(2, "Servers", "uint64") }

PutPluginReq_MarshalTo == << MsgTo(<<10>>, "Header", "RpcHeader"),
    MsgTo(<<18>>, "Plugin", "Plugin") >>
PutPluginReq_Size == << SizeMsg(1, "Header", "RpcHeader"),
    SizeMsg(1, "Plugin", "Plugin") >>
PutPluginReq_Unmarshal == { OneMsg(1, "Header", "RpcHeader"),
    OneMsg(2, "Plugin", "Plugin") }

PutPluginRsp_MarshalTo == << MsgTo(<<10>>, "Header", "RpcHeader"),
    VarTo(<<16>>, "ID") >>
PutPluginRsp_Size == << SizeMsg(1, "Header", "RpcHeader"), SizeVar(1, "ID") >>
PutPluginRsp_Unmarshal == { OneMsg(1, "Header", "RpcHeader"),
    OneVar(2, "ID", "uint64") }

RemovePluginReq_MarshalTo == << MsgTo(<<10>>, "Header", "RpcHeader"),
    VarTo(<<16>>, "ID") >>
RemovePluginReq_Size == << SizeMsg(1, "Header", "RpcHeader"), SizeVar(1, "ID")
    >>
RemovePluginReq_Unmarshal == { OneMsg(1, "Header", "RpcHeader"),
    OneVar(2, "ID", "uint64") }

RemovePluginRsp_MarshalTo == << MsgTo(<<10>>, "Header", "RpcHeader") >>
RemovePluginRsp_Size == << SizeMsg(1, "Header", "RpcHeader") >>
RemovePluginRsp_Unmarshal == { OneMsg(1, "Header", "RpcHeader") }

GetPluginReq_MarshalTo == << MsgTo(<<10>>, "Header", "RpcHeader"),
    VarTo(<<16>>, "ID") >>
GetPluginReq_Size == << SizeMsg(1, "Header", "RpcHeader"), SizeVar(1, "ID") >>
GetPluginReq_Unmarshal == { OneMsg(1, "Header", "RpcHeader"),
    OneVar(2, "ID", "uint64") }

GetPluginRsp_MarshalTo == << MsgTo(<<10>>, "Header", "RpcHeader"),
    MsgTo(<<18>>, "Plugin", "Plugin") >>
GetPluginRsp_Size == << SizeMsg(1, "Header", "RpcHeader"),
    SizeMsg(1, "Plugin", "Plugin") >>
GetPluginRsp_Unmarshal == { OneMsg(1, "Header", "RpcHeader"),
    OptMsg(2, "Plugin", "Plugin") }

GetPluginListReq_MarshalTo == << MsgTo(<<10>>, "Header", "RpcHeader") >>
GetPluginListReq_Size == << SizeMsg(1, "Header", "RpcHeader") >>
GetPluginListReq_Unmarshal == { OneMsg(1, "Header", "RpcHeader") }

ApplyPluginsReq_MarshalTo == << MsgTo(<<10>>, "Header", "RpcHeader"),
    MsgTo(<<18>>, "Applied", "AppliedPlugins") >>
ApplyPluginsReq_Size == << SizeMsg(1, "Header", "RpcHeader"),
    SizeMsg(1, "Applied", "AppliedPlugins") >>
ApplyPluginsReq_Unmarshal == { OneMsg(1, "Header", "RpcHeader"),
    OneMsg(2, "Applied", "AppliedPlugins") }

ApplyPluginsRsp_MarshalTo == << MsgTo(<<10>>, "Header", "RpcHeader") >>
ApplyPluginsRsp_Size == << SizeMsg(1, "Header", "RpcHeader") >>
ApplyPluginsRsp_Unmarshal == { OneMsg(1, "Header", "RpcHeader") }

GetAppliedPluginsReq_MarshalTo == << MsgTo(<<10>>, "Header", "RpcHeader") >>
GetAppliedPluginsReq_Size == << SizeMsg(1, "Header", "RpcHeader") >>
GetAppliedPluginsReq_Unmarshal == { OneMsg(1, "Header", "RpcHeader") }

GetAppliedPluginsRsp_MarshalTo == << MsgTo(<<10>>, "Header", "RpcHeader"),
    MsgTo(<<18>>, "Applied", "AppliedPlugins") >>
GetAppliedPluginsRsp_Size == << SizeMsg(1, "Header", "RpcHeader"),
    SizeMsg(1, "Applied", "AppliedPlugins") >>
GetAppliedPluginsRsp_Unmarshal == { OneMsg(1, "Header", "RpcHeader"),
    OptMsg(2, "Applied", "AppliedPlugins") }

CleanReq_MarshalTo == << MsgTo(<<10>>, "Header", "RpcHeader") >>
CleanReq_Size == << SizeMsg(1, "Header", "RpcHeader") >>
CleanReq_Unmarshal == { OneMsg(1, "Header", "RpcHeader") }

CleanRsp_MarshalTo == << MsgTo(<<10>>, "Header", "RpcHeader") >>
CleanRsp_Size == << SizeMsg(1, "Header", "RpcHeader") >>
CleanRsp_Unmarshal == { OneMsg(1, "Header", "RpcHeader") }

SetIDReq_MarshalTo == << MsgTo(<<10>>, "Header", "RpcHeader"),
    VarTo(<<16>>, "ID") >>
SetIDReq_Size == << SizeMsg(1, "Header", "RpcHeader"), SizeVar(1, "ID") >>
SetIDReq_Unmarshal == { OneMsg(1, "Header", "RpcHeader"),
    OneVar(2, "ID", "uint64") }

SetIDRsp_MarshalTo == << MsgTo(<<10>>, "Header", "RpcHeader") >>
SetIDRsp_Size == << SizeMsg(1, "Header", "RpcHeader") >>
SetIDRsp_Unmarshal == { OneMsg(1, "Header", "RpcHeader") }

BatchReq_MarshalTo == << MsgTo(<<10>>, "Header", "RpcHeader"),
    MsgTo(<<18>>, "PutClusters", "PutClusterReq"),
    MsgTo(<<26>>, "RemoveClusters", "RemoveClusterReq"),
    MsgTo(<<34>>, "PutServers", "PutServerReq"),
    MsgTo(<<42>>, "RemoveServers", "RemoveServerReq"),
    MsgTo(<<50>>, "PutAPIs", "PutAPIReq"),
    MsgTo(<<58>>, "RemoveAPIs", "RemoveAPIReq"),
    MsgTo(<<66>>, "PutRoutings", "PutRoutingReq"),
    MsgTo(<<74>>, "RemoveRoutings", "RemoveRoutingReq"),
    MsgTo(<<82>>, "AddBinds", "AddBindReq"),
    MsgTo(<<90>>, "RemoveBinds", "RemoveBindReq"),
    MsgTo(<<98>>, "PutPlugins", "PutPluginReq"),
    MsgTo(<<106>>, "RemovePlugins", "RemovePluginReq"),
    MsgTo(<<114>>, "ApplyPlugins", "ApplyPluginsReq") >>
BatchReq_Size == << SizeMsg(1, "Header", "RpcHeader"),
    SizeMsg(1, "PutClusters", "PutClusterReq"),
    SizeMsg(1, "RemoveClusters", "RemoveClusterReq"),
    SizeMsg(1, "PutServers", "PutServerReq"),
    SizeMsg(1, "RemoveServers", "RemoveServerReq"),
    SizeMsg(1, "PutAPIs", "PutAPIReq"),
    SizeMsg(1, "RemoveAPIs", "RemoveAPIReq"),
    SizeMsg(1, "PutRoutings", "PutRoutingReq"),
    SizeMsg(1, "RemoveRoutings", "RemoveRoutingReq"),
    SizeMsg(1, "AddBinds", "AddBindReq"),
    SizeMsg(1, "RemoveBinds", "RemoveBindReq"),
    SizeMsg(1, "PutPlugins", "PutPluginReq"),
    SizeMsg(1, "RemovePlugins", "RemovePluginReq"),
    SizeMsg(1, "ApplyPlugins", "ApplyPluginsReq") >>
BatchReq_Unmarshal == { OneMsg(1, "Header", "RpcHeader"),
    RepMsg(2, "PutClusters", "PutClusterReq"),
    RepMsg(3, "RemoveClusters", "RemoveClusterReq"),
    RepMsg(4, "PutServers", "PutServerReq"),
    RepMsg(5, "RemoveServers", "RemoveServerReq"),
    RepMsg(6, "PutAPIs", "PutAPIReq"),
    RepMsg(7, "RemoveAPIs", "RemoveAPIReq"),
    RepMsg(8, "PutRoutings", "PutRoutingReq"),
    RepMsg(9, "RemoveRoutings", "RemoveRoutingReq"),
    RepMsg(10, "AddBinds", "AddBindReq"),
    RepMsg(11, "RemoveBinds", "RemoveBindReq"),
    RepMsg(12, "PutPlugins", "PutPluginReq"),
    RepMsg(13, "RemovePlugins", "RemovePluginReq"),
    OptMsg(14, "ApplyPlugins", "ApplyPluginsReq") }

BatchRsp_MarshalTo == << MsgTo(<<10>>, "Header", "RpcHeader"),
    MsgTo(<<18>>, "PutClusters", "PutClusterRsp"),
    MsgTo(<<26>>, "RemoveClusters", "RemoveClusterRsp"),
    MsgTo(<<34>>, "PutServers", "PutServerRsp"),
    MsgTo(<<42>>, "RemoveServers", "RemoveServerRsp"),
    MsgTo(<<50>>, "PutAPIs", "PutAPIRsp"),
    MsgTo(<<58>>, "RemoveAPIs", "RemoveAPIRsp"),
    MsgTo(<<66>>, "PutRoutings", "PutRoutingRsp"),
    MsgTo(<<74>>, "RemoveRoutings", "RemoveRoutingRsp"),
    MsgTo(<<82>>, "AddBinds", "AddBindRsp"),
    MsgTo(<<90>>, "RemoveBinds", "RemoveBindRsp"),
    MsgTo(<<98>>, "PutPlugins", "PutPluginRsp"),
    MsgTo(<<106>>, "RemovePlugins", "RemovePluginRsp"),
    MsgTo(<<114>>, "ApplyPlugins", "ApplyPluginsRsp") >>
BatchRsp_Size == << SizeMsg(1, "Header", "RpcHeader"),
    SizeMsg(1, "PutClusters", "PutClusterRsp"),
    SizeMsg(1, "RemoveClusters", "RemoveClusterRsp"),
    SizeMsg(1, "PutServers", "PutServerRsp"),
    SizeMsg(1, "RemoveServers", "RemoveServerRsp"),
    SizeMsg(1, "PutAPIs", "PutAPIRsp"),
    SizeMsg(1, "RemoveAPIs", "RemoveAPIRsp"),
    SizeMsg(1, "PutRoutings", "PutRoutingRsp"),
    SizeMsg(1, "RemoveRoutings", "RemoveRoutingRsp"),
    SizeMsg(1, "AddBinds", "AddBindRsp"),
    SizeMsg(1, "RemoveBinds", "RemoveBindRsp"),
    SizeMsg(1, "PutPlugins", "PutPluginRsp"),
    SizeMsg(1, "RemovePlugins", "RemovePluginRsp"),
    SizeMsg(1, "ApplyPlugins", "ApplyPluginsRsp") >>
BatchRsp_Unmarshal == { OneMsg(1, "Header", "RpcHeader"),
    RepMsg(2, "PutClusters", "PutClusterRsp"),
    RepMsg(3, "RemoveClusters", "RemoveClusterRsp"),
    RepMsg(4, "PutServers", "PutServerRsp"),
    RepMsg(5, "RemoveServers", "RemoveServerRsp"),
    RepMsg(6, "PutAPIs", "PutAPIRsp"),
    RepMsg(7, "RemoveAPIs", "RemoveAPIRsp"),
    RepMsg(8, "PutRoutings", "PutRoutingRsp"),
    RepMsg(9, "RemoveRoutings", "RemoveRoutingRsp"),
    RepMsg(10, "AddBinds", "AddBindRsp"),
    RepMsg(11, "RemoveBinds", "RemoveBindRsp"),
    RepMsg(12, "PutPlugins", "PutPluginRsp"),
    RepMsg(13, "RemovePlugins", "RemovePluginRsp"),
    OptMsg(14, "ApplyPlugins", "ApplyPluginsRsp") }

(***************************************************************************)
(* The messages by name, as init registers them.                           *)
(***************************************************************************)
RpcpbTypes ==
    {"RpcHeader", "PutClusterReq", "PutClusterRsp", "RemoveClusterReq",
     "RemoveClusterRsp", "GetClusterReq", "GetClusterRsp",
     "GetClusterListReq", "PutServerReq", "PutServerRsp",
     "RemoveServerReq", "RemoveServerRsp", "GetServerReq", "GetServerRsp",
     "GetServerListReq", "PutAPIReq", "PutAPIRsp", "RemoveAPIReq",
     "RemoveAPIRsp", "GetAPIReq", "GetAPIRsp", "GetAPIListReq",
     "PutRoutingReq", "PutRoutingRsp", "RemoveRoutingReq",
     "RemoveRoutingRsp", "GetRoutingReq", "GetRoutingRsp",
     "GetRoutingListReq", "AddBindReq", "AddBindRsp", "RemoveBindReq",
     "RemoveBindRsp", "RemoveClusterBindReq", "RemoveClusterBindRsp",
     "GetBindServersReq", "GetBindServersRsp", "PutPluginReq",
     "PutPluginRsp", "RemovePluginReq", "RemovePluginRsp", "GetPluginReq",
     "GetPluginRsp", "GetPluginListReq", "ApplyPluginsReq",
     "ApplyPluginsRsp", "GetAppliedPluginsReq", "GetAppliedPluginsRsp",
     "CleanReq", "CleanRsp", "SetIDReq", "SetIDRsp", "BatchReq",
     "BatchRsp"}

RpcpbMarshalTo(t) ==
    CASE t = "RpcHeader" -> RpcHeader_MarshalTo
      [] t = "PutClusterReq" -> PutClusterReq_MarshalTo
      [] t = "PutClusterRsp" -> PutClusterRsp_MarshalTo
      [] t = "RemoveClusterReq" -> RemoveClusterReq_MarshalTo
      [] t = "RemoveClusterRsp" -> RemoveClusterRsp_MarshalTo
      [] t = "GetClusterReq" -> GetClusterReq_MarshalTo
      [] t = "GetClusterRsp" -> GetClusterRsp_MarshalTo
      [] t = "GetClusterListReq" -> GetClusterListReq_MarshalTo
      [] t = "PutServerReq" -> PutServerReq_MarshalTo
      [] t = "PutServerRsp" -> PutServerRsp_MarshalTo
      [] t = "RemoveServerReq" -> RemoveServerReq_MarshalTo
      [] t = "RemoveServerRsp" -> RemoveServerRsp_MarshalTo
      [] t = "GetServerReq" -> GetServerReq_MarshalTo
      [] t = "GetServerRsp" -> GetServerRsp_MarshalTo
      [] t = "GetServerListReq" -> GetServerListReq_MarshalTo
      [] t = "PutAPIReq" -> PutAPIReq_MarshalTo
      [] t = "PutAPIRsp" -> PutAPIRsp_MarshalTo
      [] t = "RemoveAPIReq" -> RemoveAPIReq_MarshalTo
      [] t = "RemoveAPIRsp" -> RemoveAPIRsp_MarshalTo
      [] t = "GetAPIReq" -> GetAPIReq_MarshalTo
      [] t = "GetAPIRsp" -> GetAPIRsp_MarshalTo
      [] t = "GetAPIListReq" -> GetAPIListReq_MarshalTo
      [] t = "PutRoutingReq" -> PutRoutingReq_MarshalTo
      [] t = "PutRoutingRsp" -> PutRoutingRsp_MarshalTo
      [] t = "RemoveRoutingReq" -> RemoveRoutingReq_MarshalTo
      [] t = "RemoveRoutingRsp" -> RemoveRoutingRsp_MarshalTo
      [] t = "GetRoutingReq" -> GetRoutingReq_MarshalTo
      [] t = "GetRoutingRsp" -> GetRoutingRsp_MarshalTo
      [] t = "GetRoutingListReq" -> GetRoutingListReq_MarshalTo
      [] t = "AddBindReq" -> AddBindReq_MarshalTo
      [] t = "AddBindRsp" -> AddBindRsp_MarshalTo
      [] t = "RemoveBindReq" -> RemoveBindReq_MarshalTo
      [] t = "RemoveBindRsp" -> RemoveBindRsp_MarshalTo
      [] t = "RemoveClusterBindReq" -> RemoveClusterBindReq_MarshalTo
      [] t = "RemoveClusterBindRsp" -> RemoveClusterBindRsp_MarshalTo
      [] t = "GetBindServersReq" -> GetBindServersReq_MarshalTo
      [] t = "GetBindServersRsp" -> GetBindServersRsp_MarshalTo
      [] t = "PutPluginReq" -> PutPluginReq_MarshalTo
      [] t = "PutPluginRsp" -> PutPluginRsp_MarshalTo
      [] t = "RemovePluginReq" -> RemovePluginReq_MarshalTo
      [] t = "RemovePluginRsp" -> RemovePluginRsp_MarshalTo
      [] t = "GetPluginReq" -> GetPluginReq_MarshalTo
      [] t = "GetPluginRsp" -> GetPluginRsp_MarshalTo
      [] t = "GetPluginListReq" -> GetPluginListReq_MarshalTo
      [] t = "ApplyPluginsReq" -> ApplyPluginsReq_MarshalTo
      [] t = "ApplyPluginsRsp" -> ApplyPluginsRsp_MarshalTo
      [] t = "GetAppliedPluginsReq" -> GetAppliedPluginsReq_MarshalTo
      [] t = "GetAppliedPluginsRsp" -> GetAppliedPluginsRsp_MarshalTo
      [] t = "CleanReq" -> CleanReq_MarshalTo
      [] t = "CleanRsp" -> CleanRsp_MarshalTo
      [] t = "SetIDReq" -> SetIDReq_MarshalTo
      [] t = "SetIDRsp" -> SetIDRsp_MarshalTo
      [] t = "BatchReq" -> BatchReq_MarshalTo
      [] t = "BatchRsp" -> BatchRsp_MarshalTo

RpcpbSize(t) ==
    CASE t = "RpcHeader" -> RpcHeader_Size
      [] t = "PutClusterReq" -> PutClusterReq_Size
      [] t = "PutClusterRsp" -> PutClusterRsp_Size
      [] t = "RemoveClusterReq" -> RemoveClusterReq_Size
      [] t = "RemoveClusterRsp" -> RemoveClusterRsp_Size
      [] t = "GetClusterReq" -> GetClusterReq_Size
      [] t = "GetClusterRsp" -> GetClusterRsp_Size
      [] t = "GetClusterListReq" -> GetClusterListReq_Size
      [] t = "PutServerReq" -> PutServerReq_Size
      [] t = "PutServerRsp" -> PutServerRsp_Size
      [] t = "RemoveServerReq" -> RemoveServerReq_Size
      [] t = "RemoveServerRsp" -> RemoveServerRsp_Size
      [] t = "GetServerReq" -> GetServerReq_Size
      [] t = "GetServerRsp" -> GetServerRsp_Size
      [] t = "GetServerListReq" -> GetServerListReq_Size
      [] t = "PutAPIReq" -> PutAPIReq_Size
      [] t = "PutAPIRsp" -> PutAPIRsp_Size
      [] t = "RemoveAPIReq" -> RemoveAPIReq_Size
      [] t = "RemoveAPIRsp" -> RemoveAPIRsp_Size
      [] t = "GetAPIReq" -> GetAPIReq_Size
      [] t = "GetAPIRsp" -> GetAPIRsp_Size
      [] t = "GetAPIListReq" -> GetAPIListReq_Size
      [] t = "PutRoutingReq" -> PutRoutingReq_Size
      [] t = "PutRoutingRsp" -> PutRoutingRsp_Size
      [] t = "RemoveRoutingReq" -> RemoveRoutingReq_Size
      [] t = "RemoveRoutingRsp" -> RemoveRoutingRsp_Size
      [] t = "GetRoutingReq" -> GetRoutingReq_Size
      [] t = "GetRoutingRsp" -> GetRoutingRsp_Size
      [] t = "GetRoutingListReq" -> GetRoutingListReq_Size
      [] t = "AddBindReq" -> AddBindReq_Size
      [] t = "AddBindRsp" -> AddBindRsp_Size
      [] t = "RemoveBindReq" -> RemoveBindReq_Size
      [] t = "RemoveBindRsp" -> RemoveBindRsp_Size
      [] t = "RemoveClusterBindReq" -> RemoveClusterBindReq_Size
      [] t = "RemoveClusterBindRsp" -> RemoveClusterBindRsp_Size
      [] t = "GetBindServersReq" -> GetBindServersReq_Size
      [] t = "GetBindServersRsp" -> GetBindServersRsp_Size
      [] t = "PutPluginReq" -> PutPluginReq_Size
      [] t = "PutPluginRsp" -> PutPluginRsp_Size
      [] t = "RemovePluginReq" -> RemovePluginReq_Size
      [] t = "RemovePluginRsp" -> RemovePluginRsp_Size
      [] t = "GetPluginReq" -> GetPluginReq_Size
      [] t = "GetPluginRsp" -> GetPluginRsp_Size
      [] t = "GetPluginListReq" -> GetPluginListReq_Size
      [] t = "ApplyPluginsReq" -> ApplyPluginsReq_Size
      [] t = "ApplyPluginsRsp" -> ApplyPluginsRsp_Size
      [] t = "GetAppliedPluginsReq" -> GetAppliedPluginsReq_Size
      [] t = "GetAppliedPluginsRsp" -> GetAppliedPluginsRsp_Size
      [] t = "CleanReq" -> CleanReq_Size
      [] t = "CleanRsp" -> CleanRsp_Size
      [] t = "SetIDReq" -> SetIDReq_Size
      [] t = "SetIDRsp" -> SetIDRsp_Size
      [] t = "BatchReq" -> BatchReq_Size
      [] t = "BatchRsp" -> BatchRsp_Size

RpcpbUnmarshal(t) ==
    CASE t = "RpcHeader" -> RpcHeader_Unmarshal
      [] t = "PutClusterReq" -> PutClusterReq_Unmarshal
      [] t = "PutClusterRsp" -> PutClusterRsp_Unmarshal
      [] t = "RemoveClusterReq" -> RemoveClusterReq_Unmarshal
      [] t = "RemoveClusterRsp" -> RemoveClusterRsp_Unmarshal
      [] t = "GetClusterReq" -> GetClusterReq_Unmarshal
      [] t = "GetClusterRsp" -> GetClusterRsp_Unmarshal
      [] t = "GetClusterListReq" -> GetClusterListReq_Unmarshal
      [] t = "PutServerReq" -> PutServerReq_Unmarshal
      [] t = "PutServerRsp" -> PutServerRsp_Unmarshal
      [] t = "RemoveServerReq" -> RemoveServerReq_Unmarshal
      [] t = "RemoveServerRsp" -> RemoveServerRsp_Unmarshal
      [] t = "GetServerReq" -> GetServerReq_Unmarshal
      [] t = "GetServerRsp" -> GetServerRsp_Unmarshal
      [] t = "GetServerListReq" -> GetServerListReq_Unmarshal
      [] t = "PutAPIReq" -> PutAPIReq_Unmarshal
      [] t = "PutAPIRsp" -> PutAPIRsp_Unmarshal
      [] t = "RemoveAPIReq" -> RemoveAPIReq_Unmarshal
      [] t = "RemoveAPIRsp" -> RemoveAPIRsp_Unmarshal
      [] t = "GetAPIReq" -> GetAPIReq_Unmarshal
      [] t = "GetAPIRsp" -> GetAPIRsp_Unmarshal
      [] t = "GetAPIListReq" -> GetAPIListReq_Unmarshal
      [] t = "PutRoutingReq" -> PutRoutingReq_Unmarshal
      [] t = "PutRoutingRsp" -> PutRoutingRsp_Unmarshal
      [] t = "RemoveRoutingReq" -> RemoveRoutingReq_Unmarshal
      [] t = "RemoveRoutingRsp" -> RemoveRoutingRsp_Unmarshal
      [] t = "GetRoutingReq" -> GetRoutingReq_Unmarshal
      [] t = "GetRoutingRsp" -> GetRoutingRsp_Unmarshal
      [] t = "GetRoutingListReq" -> GetRoutingListReq_Unmarshal
      [] t = "AddBindReq" -> AddBindReq_Unmarshal
      [] t = "AddBindRsp" -> AddBindRsp_Unmarshal
      [] t = "RemoveBindReq" -> RemoveBindReq_Unmarshal
      [] t = "RemoveBindRsp" -> RemoveBindRsp_Unmarshal
      [] t = "RemoveClusterBindReq" -> RemoveClusterBindReq_Unmarshal
      [] t = "RemoveClusterBindRsp" -> RemoveClusterBindRsp_Unmarshal
      [] t = "GetBindServersReq" -> GetBindServersReq_Unmarshal
      [] t = "GetBindServersRsp" -> GetBindServersRsp_Unmarshal
      [] t = "PutPluginReq" -> PutPluginReq_Unmarshal
      [] t = "PutPluginRsp" -> PutPluginRsp_Unmarshal
      [] t = "RemovePluginReq" -> RemovePluginReq_Unmarshal
      [] t = "RemovePluginRsp" -> RemovePluginRsp_Unmarshal
      [] t = "GetPluginReq" -> GetPluginReq_Unmarshal
      [] t = "GetPluginRsp" -> GetPluginRsp_Unmarshal
      [] t = "GetPluginListReq" -> GetPluginListReq_Unmarshal
      [] t = "ApplyPluginsReq" -> ApplyPluginsReq_Unmarshal
      [] t = "ApplyPluginsRsp" -> ApplyPluginsRsp_Unmarshal
      [] t = "GetAppliedPluginsReq" -> GetAppliedPluginsReq_Unmarshal
      [] t = "GetAppliedPluginsRsp" -> GetAppliedPluginsRsp_Unmarshal
      [] t = "CleanReq" -> CleanReq_Unmarshal
      [] t = "CleanRsp" -> CleanRsp_Unmarshal
      [] t = "SetIDReq" -> SetIDReq_Unmarshal
      [] t = "SetIDRsp" -> SetIDRsp_Unmarshal
      [] t = "BatchReq" -> BatchReq_Unmarshal
      [] t = "BatchRsp" -> BatchRsp_Unmarshal
=============================================================================
