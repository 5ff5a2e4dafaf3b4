------------------------------- MODULE Metapb -------------------------------
(***************************************************************************)
(* The messages of metapb: what MarshalTo writes, what Size counts and     *)
(* what Unmarshal accepts, each read off its own Go function.  A message   *)
(* X has three definitions:                                                *)
(*                                                                         *)
(*   X_MarshalTo  the fields in the order in which they are written, with  *)
(*                the bytes of the tag as they stand in the code;          *)
(*   X_Size       the terms that Size adds up;                             *)
(*   X_Unmarshal  the cases of the switch on the field number.             *)
(*                                                                         *)
(* Nothing here makes the three agree: that they do is what is checked.    *)
(***************************************************************************)
EXTENDS WireFields

Proxy_MarshalTo == << BytesTo(<<10>>, "Addr"), BytesTo(<<18>>, "AddrRPC") >>
Proxy_Size == << SizeBytes(1, "Addr"), SizeBytes(1, "AddrRPC") >>
Proxy_Unmarshal == { OneBytes(1, "Addr"), OneBytes(2, "AddrRPC") }

Cluster_MarshalTo == << VarTo(<<8>>, "ID"), BytesTo(<<18>>, "Name"),
    VarTo(<<24>>, "LoadBalance") >>
Cluster_Size == << SizeVar(1, "ID"), SizeBytes(1, "Name"),
    SizeVar(1, "LoadBalance") >>
Cluster_Unmarshal == { OneVar(1, "ID", "uint64"), OneBytes(2, "Name"),
    OneVar(3, "LoadBalance", "int32") }

HeathCheck_MarshalTo == << BytesTo(<<10>>, "Path"), BytesTo(<<18>>, "Body"),
    VarTo(<<24>>, "CheckInterval"), VarTo(<<32>>, "Timeout") >>
HeathCheck_Size == << SizeBytes(1, "Path"), SizeBytes(1, "Body"),
    SizeVar(1, "CheckInterval"), SizeVar(1, "Timeout") >>
HeathCheck_Unmarshal == { OneBytes(1, "Path"), OneBytes(2, "Body"),
    OneVar(3, "CheckInterval", "int64"), OneVar(4, "Timeout", "int64") }

CircuitBreaker_MarshalTo == << VarTo(<<8>>, "CloseTimeout"),
    VarTo(<<16>>, "HalfTrafficRate"), VarTo(<<24>>, "RateCheckPeriod"),
    VarTo(<<32>>, "FailureRateToClose"), VarTo(<<40>>, "SucceedRateToOpen") >>
CircuitBreaker_Size == << SizeVar(1, "CloseTimeout"),
    SizeVar(1, "HalfTrafficRate"), SizeVar(1, "RateCheckPeriod"),
    SizeVar(1, "FailureRateToClose"), SizeVar(1, "SucceedRateToOpen") >>
CircuitBreaker_Unmarshal == { OneVar(1, "CloseTimeout", "int64"),
    OneVar(2, "HalfTrafficRate", "int32"),
    OneVar(3, "RateCheckPeriod", "int64"),
    OneVar(4, "FailureRateToClose", "int32"),
    OneVar(5, "SucceedRateToOpen", "int32") }

Server_MarshalTo == << VarTo(<<8>>, "ID"), BytesTo(<<18>>, "Addr"),
    VarTo(<<24>>, "Protocol"), VarTo(<<32>>, "MaxQPS"),
    MsgTo(<<42>>, "HeathCheck", "HeathCheck"),
    MsgTo(<<50>>, "CircuitBreaker", "CircuitBreaker"),
    VarTo(<<56>>, "Weight"), VarTo(<<64>>, "RateLimitOption") >>
Server_Size == << SizeVar(1, "ID"), SizeBytes(1, "Addr"),
    SizeVar(1, "Protocol"), SizeVar(1, "MaxQPS"),
    SizeMsg(1, "HeathCheck", "HeathCheck"),
    SizeMsg(1, "CircuitBreaker", "CircuitBreaker"), SizeVar(1, "Weight"),
    SizeVar(1, "RateLimitOption") >>
Server_Unmarshal == { OneVar(1, "ID", "uint64"), OneBytes(2, "Addr"),
    OneVar(3, "Protocol", "int32"), OneVar(4, "MaxQPS", "int64"),
    OptMsg(5, "HeathCheck", "HeathCheck"),
    OptMsg(6, "CircuitBreaker", "CircuitBreaker"),
    OneVar(7, "Weight", "int64"), OneVar(8, "RateLimitOption", "int32") }

Bind_MarshalTo == << VarTo(<<8>>, "ClusterID"), VarTo(<<16>>, "ServerID") >>
Bind_Size == << SizeVar(1, "ClusterID"), SizeVar(1, "ServerID") >>
Bind_Unmarshal == { OneVar(1, "ClusterID", "uint64"),
    OneVar(2, "ServerID", "uint64") }

PairValue_MarshalTo == << BytesTo(<<10>>, "Name"), BytesTo(<<18>>, "Value") >>
PairValue_Size == << SizeBytes(1, "Name"), SizeBytes(1, "Value") >>
PairValue_Unmarshal == { OneBytes(1, "Name"), OneBytes(2, "Value") }

IPAccessControl_MarshalTo == << BytesTo(<<10>>, "Whitelist"),
    BytesTo(<<18>>, "Blacklist") >>
IPAccessControl_Size == << SizeBytes(1, "Whitelist"),
    SizeBytes(1, "Blacklist") >>
IPAccessControl_Unmarshal == { RepBytes(1, "Whitelist"),
    RepBytes(2, "Blacklist") }

HTTPResult_MarshalTo == << BytesTo(<<10>>, "Body"),
    MsgTo(<<18>>, "Headers", "PairValue"),
    MsgTo(<<26>>, "Cookies", "PairValue"), VarTo(<<32>>, "Code") >>
HTTPResult_Size == << SizeBytes(1, "Body"),
    SizeMsg(1, "Headers", "PairValue"), SizeMsg(1, "Cookies", "PairValue"),
    SizeVar(1, "Code") >>
HTTPResult_Unmarshal == { OptBytes(1, "Body"),
    RepMsg(2, "Headers", "PairValue"), RepMsg(3, "Cookies", "PairValue"),
    OneVar(4, "Code", "int32") }

Parameter_MarshalTo == << BytesTo(<<10>>, "Name"), VarTo(<<16>>, "Source"),
    VarTo(<<24>>, "Index") >>
Parameter_Size == << SizeBytes(1, "Name"), SizeVar(1, "Source"),
    SizeVar(1, "Index") >>
Parameter_Unmarshal == { OneBytes(1, "Name"), OneVar(2, "Source", "int32"),
    OneVar(3, "Index", "int32") }

ValidationRule_MarshalTo == << VarTo(<<8>>, "RuleType"),
    BytesTo(<<18>>, "Expression") >>
ValidationRule_Size == << SizeVar(1, "RuleType"), SizeBytes(1, "Expression")
    >>
ValidationRule_Unmarshal == { OneVar(1, "RuleType", "int32"),
    OneBytes(2, "Expression") }

Validation_MarshalTo == << MsgTo(<<10>>, "Parameter", "Parameter"),
    BoolTo(<<16>>, "Required"), MsgTo(<<26>>, "Rules", "ValidationRule") >>
Validation_Size == << SizeMsg(1, "Parameter", "Parameter"),
    SizeConst(2, "Required"), SizeMsg(1, "Rules", "ValidationRule") >>
Validation_Unmarshal == { OneMsg(1, "Parameter", "Parameter"),
    OneBool(2, "Required"), RepMsg(3, "Rules", "ValidationRule") }

RetryStrategy_MarshalTo == << VarTo(<<8>>, "Interval"),
    VarTo(<<16>>, "MaxTimes"), VarTo(<<24>>, "Codes") >>
RetryStrategy_Size == << SizeVar(1, "Interval"), SizeVar(1, "MaxTimes"),
    SizeVar(1, "Codes") >>
RetryStrategy_Unmarshal == { OneVar(1, "Interval", "int32"),
    OneVar(2, "MaxTimes", "int32"), RepVar(3, "Codes", "int32") }

DispatchNode_MarshalTo == << VarTo(<<8>>, "ClusterID"),
    BytesTo(<<18>>, "URLRewrite"), BytesTo(<<26>>, "AttrName"),
    MsgTo(<<34>>, "Validations", "Validation"),
    MsgTo(<<42>>, "Cache", "Cache"),
    MsgTo(<<50>>, "DefaultValue", "HTTPResult"), BoolTo(<<56>>, "UseDefault"),
    VarTo(<<64>>, "BatchIndex"),
    MsgTo(<<74>>, "RetryStrategy", "RetryStrategy"),
    VarTo(<<80>>, "WriteTimeout"), VarTo(<<88>>, "ReadTimeout"),
    VarTo(<<96>>, "HostType"), BytesTo(<<106>>, "CustemHost") >>
DispatchNode_Size == << SizeVar(1, "ClusterID"), SizeBytes(1, "URLRewrite"),
    SizeBytes(1, "AttrName"), SizeMsg(1, "Validations", "Validation"),
    SizeMsg(1, "Cache", "Cache"), SizeMsg(1, "DefaultValue", "HTTPResult"),
    SizeConst(2, "UseDefault"), SizeVar(1, "BatchIndex"),
    SizeMsg(1, "RetryStrategy", "RetryStrategy"), SizeVar(1, "WriteTimeout"),
    SizeVar(1, "ReadTimeout"), SizeVar(1, "HostType"),
    SizeBytes(1, "CustemHost") >>
DispatchNode_Unmarshal == { OneVar(1, "ClusterID", "uint64"),
    OneBytes(2, "URLRewrite"), OneBytes(3, "AttrName"),
    RepMsg(4, "Validations", "Validation"), OptMsg(5, "Cache", "Cache"),
    OptMsg(6, "DefaultValue", "HTTPResult"), OneBool(7, "UseDefault"),
    OneVar(8, "BatchIndex", "int32"),
    OptMsg(9, "RetryStrategy", "RetryStrategy"),
    OneVar(10, "WriteTimeout", "int64"), OneVar(11, "ReadTimeout", "int64"),
    OneVar(12, "HostType", "int32"), OneBytes(13, "CustemHost") }

Cache_MarshalTo == << MsgTo(<<10>>, "Keys", "Parameter"),
    VarTo(<<16>>, "Deadline"), MsgTo(<<26>>, "Conditions", "Condition") >>
Cache_Size == << SizeMsg(1, "Keys", "Parameter"), SizeVar(1, "Deadline"),
    SizeMsg(1, "Conditions", "Condition") >>
Cache_Unmarshal == { RepMsg(1, "Keys", "Parameter"),
    OneVar(2, "Deadline", "uint64"), RepMsg(3, "Conditions", "Condition") }

RenderTemplate_MarshalTo == << MsgTo(<<10>>, "Objects", "RenderObject") >>
RenderTemplate_Size == << SizeMsg(1, "Objects", "RenderObject") >>
RenderTemplate_Unmarshal == { RepMsg(1, "Objects", "RenderObject") }

RenderObject_MarshalTo == << BytesTo(<<10>>, "Name"),
    MsgTo(<<18>>, "Attrs", "RenderAttr"), BoolTo(<<24>>, "FlatAttrs") >>
RenderObject_Size == << SizeBytes(1, "Name"),
    SizeMsg(1, "Attrs", "RenderAttr"), SizeConst(2, "FlatAttrs") >>
RenderObject_Unmarshal == { OneBytes(1, "Name"),
    RepMsg(2, "Attrs", "RenderAttr"), OneBool(3, "FlatAttrs") }

RenderAttr_MarshalTo == << BytesTo(<<10>>, "Name"),
    BytesTo(<<18>>, "ExtractExp") >>
RenderAttr_Size == << SizeBytes(1, "Name"), SizeBytes(1, "ExtractExp") >>
RenderAttr_Unmarshal == { OneBytes(1, "Name"), OneBytes(2, "ExtractExp") }

API_MarshalTo == << VarTo(<<8>>, "ID"), BytesTo(<<18>>, "Name"),
    BytesTo(<<26>>, "URLPattern"), BytesTo(<<34>>, "Method"),
    BytesTo(<<42>>, "Domain"), VarTo(<<48>>, "Status"),
    MsgTo(<<58>>, "IPAccessControl", "IPAccessControl"),
    MsgTo(<<66>>, "DefaultValue", "HTTPResult"),
    MsgTo(<<74>>, "Nodes", "DispatchNode"), BytesTo(<<82>>, "Perms"),
    BytesTo(<<90>>, "AuthFilter"),
    MsgTo(<<98>>, "RenderTemplate", "RenderTemplate"),
    BoolTo(<<104>>, "UseDefault"), VarTo(<<112>>, "MatchRule"),
    VarTo(<<120>>, "Position"), MsgTo(<<130, 1>>, "Tags", "PairValue"),
    MsgTo(<<138, 1>>, "WebSocketOptions", "WebSocketOptions"),
    VarTo(<<144, 1>>, "MaxQPS"),
    MsgTo(<<154, 1>>, "CircuitBreaker", "CircuitBreaker"),
    VarTo(<<160, 1>>, "RateLimitOption"), BoolTo(<<168, 1>>, "UseTLS"),
    MsgTo(<<178, 1>>, "TlsEmbedCert", "TLSEmbedCert") >>
API_Size == << SizeVar(1, "ID"), SizeBytes(1, "Name"),
    SizeBytes(1, "URLPattern"), SizeBytes(1, "Method"),
    SizeBytes(1, "Domain"), SizeVar(1, "Status"),
    SizeMsg(1, "IPAccessControl", "IPAccessControl"),
    SizeMsg(1, "DefaultValue", "HTTPResult"),
    SizeMsg(1, "Nodes", "DispatchNode"), SizeBytes(1, "Perms"),
    SizeBytes(1, "AuthFilter"),
    SizeMsg(1, "RenderTemplate", "RenderTemplate"),
    SizeConst(2, "UseDefault"), SizeVar(1, "MatchRule"),
    SizeVar(1, "Position"), SizeMsg(2, "Tags", "PairValue"),
    SizeMsg(2, "WebSocketOptions", "WebSocketOptions"), SizeVar(2, "MaxQPS"),
    SizeMsg(2, "CircuitBreaker", "CircuitBreaker"),
    SizeVar(2, "RateLimitOption"), SizeConst(3, "UseTLS"),
    SizeMsg(2, "TlsEmbedCert", "TLSEmbedCert") >>
API_Unmarshal == { OneVar(1, "ID", "uint64"), OneBytes(2, "Name"),
    OneBytes(3, "URLPattern"), OneBytes(4, "Method"), OneBytes(5, "Domain"),
    OneVar(6, "Status", "int32"),
    OptMsg(7, "IPAccessControl", "IPAccessControl"),
    OptMsg(8, "DefaultValue", "HTTPResult"),
    RepMsg(9, "Nodes", "DispatchNode"), RepBytes(10, "Perms"),
    OneBytes(11, "AuthFilter"),
    OptMsg(12, "RenderTemplate", "RenderTemplate"), OneBool(13, "UseDefault"),
    OneVar(14, "MatchRule", "int32"), OneVar(15, "Position", "uint32"),
    RepMsg(16, "Tags", "PairValue"),
    OptMsg(17, "WebSocketOptions", "WebSocketOptions"),
    OneVar(18, "MaxQPS", "int64"),
    OptMsg(19, "CircuitBreaker", "CircuitBreaker"),
    OneVar(20, "RateLimitOption", "int32"), OneBool(21, "UseTLS"),
    OptMsg(22, "TlsEmbedCert", "TLSEmbedCert") }

TLSEmbedCert_MarshalTo == << BytesTo(<<10>>, "CertData"),
    BytesTo(<<18>>, "KeyData") >>
TLSEmbedCert_Size == << SizeBytes(1, "CertData"), SizeBytes(1, "KeyData") >>
TLSEmbedCert_Unmarshal == { OptBytes(1, "CertData"), OptBytes(2, "KeyData") }

Condition_MarshalTo == << MsgTo(<<10>>, "Parameter", "Parameter"),
    VarTo(<<16>>, "Cmp"), BytesTo(<<26>>, "Expect") >>
Condition_Size == << SizeMsg(1, "Parameter", "Parameter"), SizeVar(1, "Cmp"),
    SizeBytes(1, "Expect") >>
Condition_Unmarshal == { OneMsg(1, "Parameter", "Parameter"),
    OneVar(2, "Cmp", "int32"), OneBytes(3, "Expect") }

Routing_MarshalTo == << VarTo(<<8>>, "ID"), VarTo(<<16>>, "ClusterID"),
    MsgTo(<<26>>, "Conditions", "Condition"), VarTo(<<32>>, "Strategy"),
    VarTo(<<40>>, "TrafficRate"), VarTo(<<48>>, "Status"),
    VarTo(<<56>>, "API"), BytesTo(<<66>>, "Name") >>
Routing_Size == << SizeVar(1, "ID"), SizeVar(1, "ClusterID"),
    SizeMsg(1, "Conditions", "Condition"), SizeVar(1, "Strategy"),
    SizeVar(1, "TrafficRate"), SizeVar(1, "Status"), SizeVar(1, "API"),
    SizeBytes(1, "Name") >>
Routing_Unmarshal == { OneVar(1, "ID", "uint64"),
    OneVar(2, "ClusterID", "uint64"), RepMsg(3, "Conditions", "Condition"),
    OneVar(4, "Strategy", "int32"), OneVar(5, "TrafficRate", "int32"),
    OneVar(6, "Status", "int32"), OneVar(7, "API", "uint64"),
    OneBytes(8, "Name") }

WebSocketOptions_MarshalTo == << BytesTo(<<10>>, "Origin") >>
WebSocketOptions_Size == << SizeBytes(1, "Origin") >>
WebSocketOptions_Unmarshal == { OneBytes(1, "Origin") }

System_MarshalTo == << MsgTo(<<10>>, "Count", "CountMetric") >>
System_Size == << SizeMsg(1, "Count", "CountMetric") >>
System_Unmarshal == { OneMsg(1, "Count", "CountMetric") }

CountMetric_MarshalTo == << VarTo(<<8>>, "Cluster"), VarTo(<<16>>, "Server"),
    VarTo(<<24>>, "API"), VarTo(<<32>>, "Routing"), VarTo(<<40>>, "Plugin"),
    VarTo(<<48>>, "AppliedPlugin") >>
CountMetric_Size == << SizeVar(1, "Cluster"), SizeVar(1, "Server"),
    SizeVar(1, "API"), SizeVar(1, "Routing"), SizeVar(1, "Plugin"),
    SizeVar(1, "AppliedPlugin") >>
CountMetric_Unmarshal == { OneVar(1, "Cluster", "int64"),
    OneVar(2, "Server", "int64"), OneVar(3, "API", "int64"),
    OneVar(4, "Routing", "int64"), OneVar(5, "Plugin", "int64"),
    OneVar(6, "AppliedPlugin", "int64") }

Plugin_MarshalTo == << VarTo(<<8>>, "ID"), BytesTo(<<18>>, "Name"),
    BytesTo(<<26>>, "Author"), BytesTo(<<34>>, "Email"),
    VarTo(<<40>>, "Status"), VarTo(<<48>>, "UpdateAt"),
    VarTo(<<56>>, "Version"), VarTo(<<64>>, "Type"),
    BytesTo(<<74>>, "Content"), BytesTo(<<82>>, "Cfg") >>
Plugin_Size == << SizeVar(1, "ID"), SizeBytes(1, "Name"),
    SizeBytes(1, "Author"), SizeBytes(1, "Email"), SizeVar(1, "Status"),
    SizeVar(1, "UpdateAt"), SizeVar(1, "Version"), SizeVar(1, "Type"),
    SizeBytes(1, "Content"), SizeBytes(1, "Cfg") >>
Plugin_Unmarshal == { OneVar(1, "ID", "uint64"), OneBytes(2, "Name"),
    OneBytes(3, "Author"), OneBytes(4, "Email"), OneVar(5, "Status", "int32"),
    OneVar(6, "UpdateAt", "int64"), OneVar(7, "Version", "int64"),
    OneVar(8, "Type", "int32"), OptBytes(9, "Content"), OptBytes(10, "Cfg") }

AppliedPlugins_MarshalTo == << VarTo(<<8>>, "ID"), VarTo(<<16>>, "AppliedIDs")
    >>
AppliedPlugins_Size == << SizeVar(1, "ID"), SizeVar(1, "AppliedIDs") >>
AppliedPlugins_Unmarshal == { OneVar(1, "ID", "uint64"),
    RepVar(2, "AppliedIDs", "uint64") }

(***************************************************************************)
(* The messages by name, as init registers them.                           *)
(***************************************************************************)
MetapbTypes ==
    {"Proxy", "Cluster", "HeathCheck", "CircuitBreaker", "Server", "Bind",
     "PairValue", "IPAccessControl", "HTTPResult", "Parameter",
     "ValidationRule", "Validation", "RetryStrategy", "DispatchNode",
     "Cache", "RenderTemplate", "RenderObject", "RenderAttr", "API",
     "TLSEmbedCert", "Condition", "Routing", "WebSocketOptions", "System",
     "CountMetric", "Plugin", "AppliedPlugins"}

MetapbMarshalTo(t) ==
    CASE t = "Proxy" -> Proxy_MarshalTo
      [] t = "Cluster" -> Cluster_MarshalTo
      [] t = "HeathCheck" -> HeathCheck_MarshalTo
      [] t = "CircuitBreaker" -> CircuitBreaker_MarshalTo
      [] t = "Server" -> Server_MarshalTo
      [] t = "Bind" -> Bind_MarshalTo
      [] t = "PairValue" -> PairValue_MarshalTo
      [] t = "IPAccessControl" -> IPAccessControl_MarshalTo
      [] t = "HTTPResult" -> HTTPResult_MarshalTo
      [] t = "Parameter" -> Parameter_MarshalTo
      [] t = "ValidationRule" -> ValidationRule_MarshalTo
      [] t = "Validation" -> Validation_MarshalTo
      [] t = "RetryStrategy" -> RetryStrategy_MarshalTo
      [] t = "DispatchNode" -> DispatchNode_MarshalTo
      [] t = "Cache" -> Cache_MarshalTo
      [] t = "RenderTemplate" -> RenderTemplate_MarshalTo
      [] t = "RenderObject" -> RenderObject_MarshalTo
      [] t = "RenderAttr" -> RenderAttr_MarshalTo
      [] t = "API" -> API_MarshalTo
      [] t = "TLSEmbedCert" -> TLSEmbedCert_MarshalTo
      [] t = "Condition" -> Condition_MarshalTo
      [] t = "Routing" -> Routing_MarshalTo
      [] t = "WebSocketOptions" -> WebSocketOptions_MarshalTo
      [] t = "System" -> System_MarshalTo
      [] t = "CountMetric" -> CountMetric_MarshalTo
      [] t = "Plugin" -> Plugin_MarshalTo
      [] t = "AppliedPlugins" -> AppliedPlugins_MarshalTo

MetapbSize(t) ==
    CASE t = "Proxy" -> Proxy_Size
      [] t = "Cluster" -> Cluster_Size
      [] t = "HeathCheck" -> HeathCheck_Size
      [] t = "CircuitBreaker" -> CircuitBreaker_Size
      [] t = "Server" -> Server_Size
      [] t = "Bind" -> Bind_Size
      [] t = "PairValue" -> PairValue_Size
      [] t = "IPAccessControl" -> IPAccessControl_Size
      [] t = "HTTPResult" -> HTTPResult_Size
      [] t = "Parameter" -> Parameter_Size
      [] t = "ValidationRule" -> ValidationRule_Size
      [] t = "Validation" -> Validation_Size
      [] t = "RetryStrategy" -> RetryStrategy_Size
      [] t = "DispatchNode" -> DispatchNode_Size
      [] t = "Cache" -> Cache_Size
      [] t = "RenderTemplate" -> RenderTemplate_Size
      [] t = "RenderObject" -> RenderObject_Size
      [] t = "RenderAttr" -> RenderAttr_Size
      [] t = "API" -> API_Size
      [] t = "TLSEmbedCert" -> TLSEmbedCert_Size
      [] t = "Condition" -> Condition_Size
      [] t = "Routing" -> Routing_Size
      [] t = "WebSocketOptions" -> WebSocketOptions_Size
      [] t = "System" -> System_Size
      [] t = "CountMetric" -> CountMetric_Size
      [] t = "Plugin" -> Plugin_Size
      [] t = "AppliedPlugins" -> AppliedPlugins_Size

MetapbUnmarshal(t) ==
    CASE t = "Proxy" -> Proxy_Unmarshal
      [] t = "Cluster" -> Cluster_Unmarshal
      [] t = "HeathCheck" -> HeathCheck_Unmarshal
      [] t = "CircuitBreaker" -> CircuitBreaker_Unmarshal
      [] t = "Server" -> Server_Unmarshal
      [] t = "Bind" -> Bind_Unmarshal
      [] t = "PairValue" -> PairValue_Unmarshal
      [] t = "IPAccessControl" -> IPAccessControl_Unmarshal
      [] t = "HTTPResult" -> HTTPResult_Unmarshal
      [] t = "Parameter" -> Parameter_Unmarshal
      [] t = "ValidationRule" -> ValidationRule_Unmarshal
      [] t = "Validation" -> Validation_Unmarshal
      [] t = "RetryStrategy" -> RetryStrategy_Unmarshal
      [] t = "DispatchNode" -> DispatchNode_Unmarshal
      [] t = "Cache" -> Cache_Unmarshal
      [] t = "RenderTemplate" -> RenderTemplate_Unmarshal
      [] t = "RenderObject" -> RenderObject_Unmarshal
      [] t = "RenderAttr" -> RenderAttr_Unmarshal
      [] t = "API" -> API_Unmarshal
      [] t = "TLSEmbedCert" -> TLSEmbedCert_Unmarshal
      [] t = "Condition" -> Condition_Unmarshal
      [] t = "Routing" -> Routing_Unmarshal
      [] t = "WebSocketOptions" -> WebSocketOptions_Unmarshal
      [] t = "System" -> System_Unmarshal
      [] t = "CountMetric" -> CountMetric_Unmarshal
      [] t = "Plugin" -> Plugin_Unmarshal
      [] t = "AppliedPlugins" -> AppliedPlugins_Unmarshal
=============================================================================
