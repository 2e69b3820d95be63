------------------------------- MODULE McpSetup -----------------------------
(***************************************************************************)
(* MCP servers as they are kept and as a run finds them: the records and   *)
(* their secrets (mcp/mod.rs, routes/mcp.rs, the mcp_servers table),       *)
(* discovery of tools and the registry of a run (mcp/registry.rs).         *)
(*                                                                         *)
(* A record has an id, a name, enabled, timeout, kind ("stdio" or "http"), *)
(* a command or a url, described by its scheme, whether it holds           *)
(* credentials and its host, and pairs, the environment or the headers, in *)
(* order.                                                                  *)
(***************************************************************************)
EXTENDS Tools

CONSTANTS MaxConfigured,    \* MCP_MAX_CONFIGURED_SERVERS
          MaxEnabled,       \* MCP_MAX_ENABLED_SERVERS_PER_RUN
          MaxEffective,     \* MCP_MAX_EFFECTIVE_TOOLS
          MaxPages,         \* MCP_MAX_DISCOVERY_PAGES
          MaxPerServer,     \* MCP_MAX_TOOLS_PER_SERVER
          MaxItems,         \* MCP_MAX_CONFIG_ITEMS
          MaxRedirects,     \* MAX_REDIRECTS
          MaxPreview        \* PREVIEW_MAX_CHARS, in words

ASSUME McpAssumption == {MaxConfigured, MaxEnabled, MaxEffective, MaxPages, MaxPerServer, MaxItems,
                         MaxRedirects, MaxPreview} \subseteq Nat \ {0}

Refused == <<"refused">>

McpConfigs ==
  [id : STRING, name : STRING, enabled : BOOLEAN, timeout : Nat, kind : {"stdio", "http"},
   command : STRING, url : [scheme : STRING, credentials : BOOLEAN, host : STRING],
   pairs : Seq([key : STRING, secret : STRING]), hasSecret : BOOLEAN]

-----------------------------------------------------------------------------
(* Records.  A secret is "" when there is none, or when it is not shown.   *)

HasSecrets(config) == \E i \in DOMAIN config.pairs : config.pairs[i].secret # ""

(* redacted: what the API shows of a record. *)
Redacted(config) ==
  [config EXCEPT !.pairs = [i \in DOMAIN @ |-> [@[i] EXCEPT !.secret = ""]],
                 !.hasSecret = HasSecrets(config)]

PairsAsSent(stored, incoming) == incoming                         \* mutant

(* merge_pairs: a blank secret keeps the stored one of that key. *)
MergePairs(stored, incoming) ==
  LET Kept(key) == LET i == SelectInSeq(stored, LAMBDA p : p.key = key)
                   IN  IF i = 0 THEN "" ELSE stored[i].secret
  IN  [i \in DOMAIN incoming |->
         [incoming[i] EXCEPT !.secret = IF @ = "" THEN Kept(incoming[i].key) ELSE @]]

(* merge_secrets: only from the same kind of transport. *)
MergeSecrets(stored, incoming) ==
  LET pairs == MergePairs(IF stored.kind = incoming.kind THEN stored.pairs ELSE <<>>, incoming.pairs)
  IN  [incoming EXCEPT !.pairs = pairs, !.hasSecret = HasSecrets([pairs |-> pairs])]

ValidUrl(url) == /\ url.scheme \in {"http", "https"} /\ ~url.credentials
                 /\ url.scheme = "http" => url.host = "loopback"
ValidHeader(name) == name # "host"   \* which stands for all reserved names

(* validate *)
Valid(config) ==
  /\ config.id # "" /\ config.name # "" /\ config.timeout \in 1..300000
  /\ Len(config.pairs) <= MaxItems
  /\ config.kind = "stdio" => config.command # ""
  /\ config.kind = "http" => /\ ValidUrl(config.url)
                             /\ \A i \in DOMAIN config.pairs : ValidHeader(config.pairs[i].key)

(* create_server: the table is a function from ids to records. *)
CreateServer(table, config, fresh) ==
  LET named == IF config.id = "" THEN [config EXCEPT !.id = fresh] ELSE config
  IN  IF ~Valid(named) \/ Cardinality(DOMAIN table) >= MaxConfigured \/ named.id \in DOMAIN table
      THEN Refused ELSE Inserted(table, named.id, named)

(* update_server: the secrets are those of the record in the path, the row *)
(* is the one the body names, if there is one.                             *)
UpdateServer(table, id, incoming) ==
  LET merged == MergeSecrets(table[id], incoming)
  IN  IF id \notin DOMAIN table \/ ~Valid(merged) THEN Refused
      ELSE [k \in DOMAIN table |-> IF k = merged.id THEN merged ELSE table[k]]

DeleteServer(table, id) == [k \in DOMAIN table \ {id} |-> table[k]]

-----------------------------------------------------------------------------
(* Where the headers of a record go, and what a user is shown of a call.   *)

(* same_origin_redirect_policy: the places a request visits; the first one *)
(* counts as a previous one.                                               *)
Visited(origin, hops) ==
  LET stop == SelectInSeq([i \in DOMAIN hops |-> hops[i] # origin \/ i >= MaxRedirects], LAMBDA b : b)
  IN  <<origin>> \o (IF stop = 0 THEN hops ELSE SubSeq(hops, 1, stop - 1))

(* redact: arguments are their values in the order they are written, each  *)
(* with its path, the keys on the way to it, "[]" in an array, and its     *)
(* text, "" for an object or an array.  A value under a sensitive key      *)
(* becomes one text, and what was inside it is gone.                       *)
SensitiveKeys == {"password"}
Sensitive(path) == ToSet(path) \cap SensitiveKeys # {}
Redact(arguments) ==
  LET Seen(v) == IF v.path # <<>> /\ Sensitive(Front(v.path)) THEN <<>>
                 ELSE <<[v EXCEPT !.text = IF Sensitive(v.path) THEN "[redacted]" ELSE @]>>
  IN  FlattenSeq([i \in DOMAIN arguments |-> Seen(arguments[i])])
Printed(arguments) ==
  LET Key(v) == IF v.path = <<>> \/ Last(v.path) = "[]" THEN <<>> ELSE <<Last(v.path)>>
  IN  FlattenSeq([i \in DOMAIN arguments |->
        Key(arguments[i]) \o (IF arguments[i].text = "" THEN <<>> ELSE <<arguments[i].text>>)])

Preview(arguments) ==                        \* bounded_redacted_preview
  LET words == Printed(Redact(arguments))
  IN  IF Len(words) > MaxPreview THEN SubSeq(words, 1, MaxPreview) \o <<"...">> ELSE words

-----------------------------------------------------------------------------
(* Names: mcp.<server>.<tool>; what a name may not hold is spelled out.    *)

Lowered == "A" :> "a" @@ "B" :> "b"
SpelledOut == "-" :> "2d" @@ " " :> "20"
EncodeNamePart(name) ==
  FlattenSeq([i \in DOMAIN name |->
    IF name[i] \in DOMAIN Lowered THEN <<Lowered[name[i]]>>
    ELSE IF name[i] \in DOMAIN SpelledOut THEN <<"_", SpelledOut[name[i]], "_">> ELSE <<name[i]>>])

McpToolName(server, tool) == <<"mcp", ".">> \o EncodeNamePart(server) \o <<".">> \o EncodeNamePart(tool)

GlobalWins(global, override) == Extended(override, global)           \* mutant

(* McpPolicy::effective: a tool that neither names is off. *)
EffectivePolicy(global, override) == Extended(global, override)

-----------------------------------------------------------------------------
(* list_tools: pages are followed until one names no next, within limits.  *)
(* A page has tools and next, 0 at the end; pages[1] is the first.         *)
ListTools(pages) ==
  LET Fits(tool) == ~tool.nameless /\ ~tool.big
      Page(acc, n) ==
        LET page == pages[acc.at]
            tools == acc.tools \o page.tools
        IN  IF acc.over # "open" THEN acc
            ELSE IF Len(tools) > MaxPerServer \/ \E i \in DOMAIN page.tools : ~Fits(page.tools[i])
            THEN [acc EXCEPT !.over = "refused"]
            ELSE IF page.next = 0 THEN [acc EXCEPT !.tools = tools, !.over = "listed"]
            ELSE IF page.next \in acc.seen THEN [acc EXCEPT !.over = "refused"]
            ELSE [at |-> page.next, tools |-> tools, seen |-> acc.seen \cup {page.next}, over |-> "open"]
      end == FoldLeft(Page, [at |-> 1, tools |-> <<>>, seen |-> {}, over |-> "open"],
                      [n \in 1..MaxPages |-> n])
  IN  [ok |-> end.over = "listed", tools |-> end.tools]

(* build_effective_tool_registry: the servers in the order they are        *)
(* listed; one that does not connect, does not list or comes too late adds *)
(* nothing.  A tool's spec keeps the server and the name it is called by.  *)
BuildRegistry(servers, policy) ==
  LET Tool(server, acc, tool) ==
        LET name == McpToolName(server.id, tool.name)
            spec == [source |-> "mcp", server |-> server.id, tool |-> tool.name, required |-> FALSE,
                     selected |-> TRUE, ask |-> policy[name] = "ask"]
        IN  IF acc.count >= MaxEffective \/ name \notin DOMAIN policy \/ ~MayRegister(acc.registry, name)
            THEN acc
            ELSE [acc EXCEPT !.count = @ + 1, !.registry = Register(@, name, spec)]
      Server(acc, server) ==
        IF ~server.enabled \/ acc.servers >= MaxEnabled \/ acc.count >= MaxEffective THEN acc
        ELSE LET listed == ListTools(server.pages)
                 tried == [acc EXCEPT !.servers = @ + 1]
             IN  IF ~server.connects \/ ~listed.ok THEN tried
                 ELSE FoldLeft(LAMBDA a, t : Tool(server, a, t), tried, listed.tools)
  IN  FoldLeft(Server, [registry |-> Builtin, servers |-> 0, count |-> 0], servers).registry
=============================================================================
