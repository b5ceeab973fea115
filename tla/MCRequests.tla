------------------------------ MODULE MCRequests ------------------------------
(***************************************************************************)
(* The instances of TurnRouter, WebRounds, EventStream and Dashboard: the   *)
(* parts a request goes through besides Execution, which they refine in     *)
(* what Execution leaves open.  part says which of them runs.               *)
(***************************************************************************)
EXTENDS TurnRouter, WebRounds, EventStream, Dashboard

CONSTANT Parts

VARIABLE part

MCItem ==
  LET It(f, w, i) == [from |-> f, words |-> w, image |-> i]
  IN  {It("user", {}, FALSE), It("user", {"plan"}, FALSE), It("developer", {"plan"}, FALSE),
       It("tool", {"error"}, FALSE), It("tool", {"plan"}, FALSE), It("user", {"error"}, TRUE)}
\* Codex, Codex with a key of the prompt cache, another client, and one without metadata.
MCClient ==
  LET Cl(s, h, c, t, r) == [session |-> s, header |-> h, cacheKey |-> c, turn |-> t, request |-> r]
  IN  {Cl("s", "h", Absent, "t", "r"), Cl("s", "h", "k", "u", "r"),
       Cl(Absent, Absent, "s", Absent, Absent), Cl(Absent, Absent, Absent, Absent, Absent)}

MCWord == STRING
\* Tools of Codex, with those of an MCP server, and lists that are refused.
MCToolList ==
  LET Tool(n) == [function |-> TRUE, name |-> n]
  IN  {<<Tool(Exec)>>,
       <<Tool(Exec), Tool([prefix |-> "server", base |-> "web_search"]), Tool(Plain("web_search"))>>,
       <<Tool(Exec), Tool(Exec)>>, <<[function |-> FALSE, name |-> Exec]>>, <<>>}
MCCalled ==
  {Plain(b) : b \in {"shell", "search", "read_url", "edit", "telepathy"}}
    \cup {[prefix |-> "namespace", base |-> "web_search"]}
MCArguments ==
  LET Value(s, k) == [shape |-> s, keys |-> k]
  IN  {Value("text", {}), Value("object", {"q"}), Value("list", {"cmd"}), Value("string", {"q"}),
       Value("number", {}), Value("none", {})}

RequestsTypeOK == RouterTypeOK /\ RoundsTypeOK /\ StreamTypeOK /\ DashboardTypeOK

RequestsInit ==
  /\ part \in Parts
  /\ RouterInit /\ RoundsInit /\ StreamInit /\ DashboardInit
  /\ part # "rounds" => tools = <<>> /\ Len(fed) = 1
  /\ part # "stream" => sent.blocks = <<<<"other">>>> /\ Len(sent.end) = 1 /\ sent.closed

RequestsNext ==
  \/ part = "router" /\ RouterNext
     /\ UNCHANGED <<roundVars, streamVars, dashboardVars, part>>
  \/ part = "rounds" /\ RoundsNext
     /\ UNCHANGED <<routerVars, streamVars, dashboardVars, part>>
  \/ part = "stream" /\ StreamNext
     /\ UNCHANGED <<routerVars, roundVars, dashboardVars, part>>
  \/ part = "dashboard" /\ DashboardNext
     /\ UNCHANGED <<routerVars, roundVars, streamVars, part>>

RequestsSpec ==
  RequestsInit /\ [][RequestsNext]_<<routerVars, roundVars, streamVars, dashboardVars, part>>
=============================================================================
