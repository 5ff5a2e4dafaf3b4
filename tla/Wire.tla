-------------------------------- MODULE Wire --------------------------------
(***************************************************************************)
(* The way of an object through the system: a client marshals a request,   *)
(* the administration server unmarshals it, the store validates the object *)
(* in it, gives it an id and marshals it again into etcd, and a proxy (its *)
(* watch) or another client (a Get request) reads it.  The parties are     *)
(* separate programs that are upgraded one by one: each has a version of   *)
(* the messages, and an older version lacks a field that a newer one has.  *)
(***************************************************************************)
EXTENDS Codec

CONSTANTS
    Blocks, Terms, Cases,   \* MarshalTo, Size and Unmarshal of every message
    Client, Server, Proxy,  \* the parties
    Requests, Responses,    \* the types of messages clients and servers send
    Older,                  \* the fields <<type, name>> a version may lack
    Bulk                    \* a bound: large messages, whose versions differ
                            \* only in a field of their own

VARIABLES
    code,    \* the version of the messages in each party's program
    phase,   \* where the object is
    type,    \* the type of the message that is sent or stored
    sent,    \* the message that was marshalled first, with the id it was given
    bytes,   \* what is in transit or in etcd
    size,    \* what Size returned when bytes was written
    got      \* what the last reader made of bytes

vars == <<code, phase, type, sent, bytes, size, got>>

Parties == {Client, Server, Proxy}

(***************************************************************************)
(* The store: what a request carries, what makes it valid, and the id.     *)
(***************************************************************************)
Carried ==
    [PutClusterReq |-> "Cluster", PutServerReq |-> "Server",
     PutAPIReq |-> "API", PutRoutingReq |-> "Routing",
     PutPluginReq |-> "Plugin", ApplyPluginsReq |-> "AppliedPlugins",
     AddBindReq |-> "Bind"]

\* The response in which a Get request returns an object, and the field.
Reply ==
    [Cluster |-> <<"GetClusterRsp", "Cluster">>,
     Server |-> <<"GetServerRsp", "Server">>,
     API |-> <<"GetAPIRsp", "API">>,
     Routing |-> <<"GetRoutingRsp", "Routing">>,
     Plugin |-> <<"GetPluginRsp", "Plugin">>,
     AppliedPlugins |-> <<"GetAppliedPluginsRsp", "Applied">>]

Object(m, t, v) ==
    CASE t = "AddBindReq" ->
            [Zero(m, "Bind") EXCEPT !.ClusterID = v.Cluster,
                                    !.ServerID = v.Server]
      [] t = "ApplyPluginsReq" -> v.Applied[1]
      [] OTHER -> v[Carried[t]][1]

\* pb.ValidateCluster, ValidateServer, ValidateAPI, ValidateRouting and
\* ValidatePlugin, up to what the expression parser, the route and the
\* JavaScript engine may refuse (MayRefuse).
Valid(t, o) ==
    CASE t = "Cluster" -> o.Name[1] # <<>>
      [] t = "Server" -> o.Addr[1] # <<>> /\ o.MaxQPS[1] # 0
      [] t = "API" -> o.Name[1] # <<>> /\ o.URLPattern[1] # <<>>
      [] t = "Routing" -> /\ o.API[1] # 0
                          /\ o.ClusterID[1] # 0
                          /\ o.Name[1] # <<>>
                          /\ o.TrafficRate[1] \in 1..100
      [] t = "Plugin" -> /\ o.Name[1] # <<>>
                         /\ o.Version[1] # 0
                         /\ o.Content \notin {<<>>, << <<>> >>}
      [] OTHER -> TRUE
MayRefuse(t) == t \in {"API", "Plugin"}

NewID == 1        \* what allocID returns first
Now == 1000       \* what NowWithMillisecond returns

\* putPB gives an object without an id one; PutPlugin stamps the plugin.
Stamped(t, o) ==
    LET withID == IF t \in {"Bind", "AppliedPlugins"} \/ o.ID[1] # 0 THEN o
                  ELSE [o EXCEPT !.ID = <<NewID>>]
    IN  IF t = "Plugin" THEN [withID EXCEPT !.UpdateAt = <<Now>>] ELSE withID

\* The fields that the store itself reads: every version has them.
Essential ==
    ({"Cluster", "Server", "API", "Routing", "Plugin", "Bind"}
        \X {"ID", "Name", "Addr", "MaxQPS", "URLPattern", "API", "ClusterID",
            "TrafficRate", "Version", "Content", "UpdateAt", "ServerID"})
    \union ((DOMAIN Carried)
        \X {"Cluster", "Server", "API", "Routing", "Plugin", "Applied"})
    \union {Reply[t] : t \in DOMAIN Reply}

ASSUME OlderVersions == Older \cap Essential = {}

(***************************************************************************)
(* The messages that are sent: every field zero, set, or at an edge.       *)
(***************************************************************************)
RECURSIVE Sample(_, _, _)
SampleOf(m, c, how) ==
    LET one ==
            CASE c.kind = "var" ->
                    IF how = "full" THEN 1
                    ELSE IF c.type \in {"uint64", "uint32"} THEN 2147483647
                    ELSE -1
              [] c.kind = "bool" -> TRUE
              [] c.kind = "bytes" ->
                    IF how = "full" THEN <<65>> ELSE [k \in 1..130 |-> 66]
              [] c.kind = "msg" -> Sample(m, c.type, "full")
        none == ZeroOf(m, [c EXCEPT !.card = "one"])
    IN  IF c.card = "rep" THEN <<one>> \o none ELSE <<one>>
Sample(m, t, how) ==
    LET zero == Zero(m, t)
        CaseOf(n) == CHOOSE c \in m.cases[t] : c.name = n
    IN  [n \in DOMAIN zero |->
            IF how = "zero" \/ n = Unknown THEN zero[n]
            ELSE SampleOf(m, CaseOf(n), how)]

\* All fields set and, between equal versions, also one field set and all
\* fields at the edge.
Single(m, t) ==
    {[Zero(m, t) EXCEPT ![n] = Sample(m, t, "full")[n]] :
        n \in DOMAIN Zero(m, t)}
Messages(m, t) ==
    LET Of(u) == {Sample(m, u, "full")}
                 \union (IF \A p \in Parties : code[p] = m
                         THEN {Sample(m, u, "edge")} \union Single(m, u) ELSE {})
    IN  IF t \in DOMAIN Carried \ {"AddBindReq", "ApplyPluginsReq"}
        THEN {[Zero(m, t) EXCEPT ![Carried[t]] = <<o>>] :
                 o \in Of(Carried[t])}
        ELSE Of(t)

(***************************************************************************)
(* The versions of the parties.                                            *)
(***************************************************************************)
\* The types of the messages inside a message, and of those that follow it.
RECURSIVE Within(_)
Within(t) ==
    {t} \union UNION {Within(c.type) : c \in {d \in Cases[t] : d.kind = "msg"}}
Follows(t) ==
    IF t \notin DOMAIN Carried THEN {}
    ELSE IF t = "AddBindReq" THEN {"Bind"}
    ELSE Within(Reply[Carried[t]][1])

\* The program of a party whose version lacks the fields in old.
Version(types, old) ==
    LET Has(t, e) == <<t, e.name>> \notin old
    IN  [blocks |-> [t \in types |->
                        SelectSeq(Blocks[t], LAMBDA b : Has(t, b))],
         terms |-> [t \in types |-> SelectSeq(Terms[t], LAMBDA s : Has(t, s))],
         cases |-> [t \in types |-> {c \in Cases[t] : Has(t, c)}]]

\* The parties that see a message of type t, or the object in it.
Sees(t) ==
    IF t = "Proxy" THEN {Proxy, Server}
    ELSE IF t \in DOMAIN Carried THEN Parties
    ELSE {Client, Server}

(***************************************************************************)
(* The parties.                                                            *)
(***************************************************************************)
Nothing == [by |-> "none", ok |-> TRUE, v |-> <<>>]

Init ==
    /\ type \in Requests \union Responses \union {"Proxy"}
    /\ \E old \in {{}} \union
               {{f} : f \in {g \in Older :
                   g[1] \in (IF type \in Bulk THEN {type} ELSE Within(type))}},
          P \in SUBSET Sees(type) :
           code = [p \in Parties |->
                      Version(Within(type) \union Follows(type),
                              IF p \in P THEN old ELSE {})]
    /\ phase = "idle"
    /\ sent = <<>> /\ bytes = <<>> /\ size = 0
    /\ got = Nothing

\* Marshal by party p: the bytes, and what Size said of them.
Marshal(p, t, v) ==
    /\ type' = t
    /\ bytes' = MarshalTo(code[p], t, v)
    /\ size' = Size(code[p], t, v)

Reads(p, t) ==
    LET r == Unmarshal(code[p], t, bytes)
    IN  [by |-> p, ok |-> r.ok, v |-> r.v]

Sends(p, to) ==
    /\ phase = "idle"
    /\ \E v \in Messages(code[p], type) : sent' = v /\ Marshal(p, type, v)
    /\ phase' = to
    /\ UNCHANGED <<code, got>>

Request == type \in Requests /\ Sends(Client, "request")
Respond == type \in Responses /\ Sends(Server, "response")
RegistryProxy == type = "Proxy" /\ Sends(Proxy, "stored")

\* A request that carries no object, or none that can be read.
Serve ==
    /\ phase = "request"
    /\ got' = Reads(Server, type)
    /\ type \notin DOMAIN Carried \/ ~got'.ok
    /\ phase' = "done"
    /\ UNCHANGED <<code, type, sent, bytes, size>>

\* PutCluster, PutServer, PutAPI, PutRouting, PutPlugin, ApplyPlugins and
\* AddBind of the store.
Put ==
    /\ phase = "request" /\ type \in DOMAIN Carried
    /\ LET r == Reads(Server, type)
           t == Carried[type]
           o == Object(code[Server], type, r.v)
       IN  /\ r.ok
           /\ Valid(t, o)
           /\ Marshal(Server, t, Stamped(t, o))
           /\ sent' = Stamped(t, Object(code[Client], type, sent))
    /\ phase' = "stored"
    /\ UNCHANGED <<code, got>>

Refuse ==
    /\ phase = "request" /\ type \in DOMAIN Carried
    /\ LET r == Reads(Server, type)
           t == Carried[type]
       IN  r.ok /\ (MayRefuse(t) \/ ~Valid(t, Object(code[Server], type, r.v)))
    /\ phase' = "refused"
    /\ UNCHANGED <<code, type, sent, bytes, size, got>>

\* The watch of a proxy, or getValues and GetProxies of a server.
Load(p) ==
    /\ phase = "stored"
    /\ got' = Reads(p, type)
    /\ phase' = "done"
    /\ UNCHANGED <<code, type, sent, bytes, size>>

\* getPB, and the response to the client that asked for the object.
Get ==
    /\ phase = "stored" /\ type \in DOMAIN Reply
    /\ LET r == Reads(Server, type)
           t == Reply[type][1]
           In(m, o) ==
               [Zero(m, t) EXCEPT ![Reply[type][2]] = <<o>>]
       IN  /\ r.ok
           /\ Marshal(Server, t, In(code[Server], r.v))
           /\ sent' = In(code[Client], sent)
    /\ phase' = "response"
    /\ UNCHANGED <<code, got>>

Receive ==
    /\ phase = "response"
    /\ got' = Reads(Client, type)
    /\ phase' = "done"
    /\ UNCHANGED <<code, type, sent, bytes, size>>

Next == \/ Request \/ Respond \/ RegistryProxy
        \/ Serve \/ Put \/ Refuse \/ Get \/ Receive
        \/ \E p \in {Proxy, Server} : Load(p)

Spec == Init /\ [][Next]_vars

(***************************************************************************)
(* Properties.                                                             *)
(***************************************************************************)
\* A message as version m sees it: without the bytes that it does not
\* recognise, with the zero value for a field the message has not.
RECURSIVE View(_, _, _)
View(m, t, v) ==
    LET Values(c) ==
            IF c.name \in DOMAIN v THEN v[c.name] ELSE ZeroOf(m, c)
        Part(c) ==
            IF c.kind # "msg" THEN Values(c)
            ELSE [k \in 1..Len(Values(c)) |->
                     View(m, c.type, Values(c)[k])]
    IN  {<<c.name, Part(c)>> : c \in m.cases[t]}

\* Size counts exactly the bytes that MarshalTo writes, at every depth and
\* with unrecognised bytes: Marshal allocates Size bytes, writes past their
\* end or leaves a tail of zeros otherwise, and the prefix of an inner message
\* is its Size.
SizeExact == phase # "idle" => Len(bytes) = size

\* Whatever versions the client, the server and the proxy have, who reads an
\* object in the end finds every field that its version knows as it was sent,
\* also a field that a server in between did not know: Unmarshal keeps the
\* bytes of unknown fields, MarshalTo writes them back.
Delivered ==
    phase = "done" =>
        /\ got.ok
        /\ LET m == code[got.by]
           IN  View(m, type, got.v) = View(m, type, sent)
=============================================================================
