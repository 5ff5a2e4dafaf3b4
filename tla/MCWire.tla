------------------------------- MODULE MCWire -------------------------------
(***************************************************************************)
(* Wire with every request and response of the administration service.     *)
(***************************************************************************)
EXTENDS Wire, Metapb, Rpcpb

MCTypes == MetapbTypes \union RpcpbTypes
MCBlocks == [t \in MCTypes |->
    IF t \in MetapbTypes THEN MetapbMarshalTo(t) ELSE RpcpbMarshalTo(t)]
MCTerms == [t \in MCTypes |->
    IF t \in MetapbTypes THEN MetapbSize(t) ELSE RpcpbSize(t)]
MCCases == [t \in MCTypes |->
    IF t \in MetapbTypes THEN MetapbUnmarshal(t) ELSE RpcpbUnmarshal(t)]

\* What the theorems of EncodingProofs assume of the three functions of a
\* message: Size has a term for every block of MarshalTo, in its order, with
\* the length of its tag, and Unmarshal has a case with the number and the
\* wire type of its tag.
ASSUME TablesAgree ==
    \A t \in MCTypes :
        /\ Len(MCTerms[t]) = Len(MCBlocks[t])
        /\ \A k \in 1..Len(MCBlocks[t]) :
              /\ Counts(MCTerms[t][k], MCBlocks[t][k])
              /\ \E c \in MCCases[t] : Accords(c, MCBlocks[t][k])

\* Requests, and the responses of the service other than those to a Get of a
\* stored object: a Get...List request is answered by a stream of objects.
\* No request returns System yet.
MCRequests ==
    {"PutClusterReq", "RemoveClusterReq", "GetClusterReq", "GetClusterListReq",
     "PutServerReq", "RemoveServerReq", "GetServerReq", "GetServerListReq",
     "PutAPIReq", "RemoveAPIReq", "GetAPIReq", "GetAPIListReq",
     "PutRoutingReq", "RemoveRoutingReq", "GetRoutingReq",
     "GetRoutingListReq", "AddBindReq", "RemoveBindReq",
     "RemoveClusterBindReq", "GetBindServersReq", "PutPluginReq",
     "RemovePluginReq", "GetPluginReq", "GetPluginListReq",
     "ApplyPluginsReq", "GetAppliedPluginsReq", "CleanReq", "SetIDReq",
     "BatchReq"}
MCResponses ==
    (((RpcpbTypes \ MCRequests) \ {"RpcHeader"})
        \ {Reply[t][1] : t \in DOMAIN Reply})
    \union {"Cluster", "Server", "API", "Routing", "Plugin", "System"}

\* Any field but those that the store itself reads.
MCOlder ==
    UNION {{<<t, c.name>> : c \in MCCases[t]} : t \in MCTypes}
        \ Essential
=============================================================================
