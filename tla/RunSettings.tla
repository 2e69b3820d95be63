------------------------------ MODULE RunSettings ---------------------------
(***************************************************************************)
(* What is stored as settings and what a run makes of it: the limits of    *)
(* the agent (agent.rs, routes/agent_settings.rs), the token limits        *)
(* (conversation.rs) and the provider (web/src/provider_select.rs).        *)
(*                                                                         *)
(* The settings are a function from keys to tagged values: a key is a      *)
(* sequence of its dotted parts, a value a record of its type and content. *)
(* A block of agent settings is a record; the fields nothing bounds        *)
(* (enabled, transport, show_activity, show_user_status) are one.          *)
(***************************************************************************)
EXTENDS Integers, Tools

CONSTANTS Hard,           \* the hard maximum of rounds, calls and timeout
          DefaultBlock,   \* AgentSettings::default
          U32,            \* how many values an unsigned 32-bit number has
          DefaultWindow   \* DEFAULT_CONTEXT_WINDOW

FieldType == [enabled |-> "bool", rounds |-> "num", calls |-> "num", timeout |-> "num",
           repeats |-> "num", tools |-> "names", prompt |-> "text", unfinished |-> "text"]
Narrow == {"rounds", "calls", "repeats"}   \* the u32 fields

(* What a stored value holds; "unset" is what a text that is missing reads as. *)
OfType == [bool |-> BOOLEAN, num |-> Nat, names |-> SUBSET Seq(STRING), text |-> STRING \ {"unset"}]
IsTyped(map) == \A key \in DOMAIN map : /\ DOMAIN map[key] = {"type", "val"}
                                        /\ map[key].type \in DOMAIN OfType
                                        /\ map[key].val \in OfType[map[key].type]
IsBlock(b) == /\ b = [f \in DOMAIN FieldType |-> b[f]]
              /\ \A f \in DOMAIN b : b[f] \in OfType[FieldType[f]]

TypedValue(type, v) == [type |-> type, val |-> v]
Has(map, key, type) == key \in DOMAIN map /\ map[key].type = type

-----------------------------------------------------------------------------
(* The agent's block. *)

CapabilityNames == {n \in DOMAIN Builtin : ~Builtin[n].required /\ ~Builtin[n].selected}

(* from_settings_map: key by key; a value of another type is passed over,  *)
(* a number is cut to the width of its field.                              *)
FromSettings(map) ==
  [f \in DOMAIN DefaultBlock |->
     IF ~Has(map, <<"agent", f>>, FieldType[f]) THEN DefaultBlock[f]
     ELSE IF f \in Narrow THEN map[<<"agent", f>>].val % U32 ELSE map[<<"agent", f>>].val]

ToSettings(block) ==
  [key \in {<<"agent", f>> : f \in DOMAIN block} |-> TypedValue(FieldType[key[2]], block[key[2]])]

(* session_agent_override: the whole block with defaults for what it does  *)
(* not name, or none when a part of it cannot be read.                     *)
SessionOverride(config) ==
  LET Reads(json) == \A f \in DOMAIN json :
                       json[f].type = FieldType[f] /\ (f \in Narrow => json[f].val < U32)
  IN  IF config = <<>> \/ ~Reads(config[1]) THEN <<>>
      ELSE <<[f \in DOMAIN DefaultBlock |->
                IF f \in DOMAIN config[1] THEN config[1][f].val ELSE DefaultBlock[f]]>>

EffectiveBlock(global, override) == IF override = <<>> THEN global ELSE override[1]

Clamp(n, low, high) == IF n < low THEN low ELSE IF n > high THEN high ELSE n

SanitizedApart(block) ==                                          \* mutant
  [block EXCEPT !.rounds = Clamp(@, 1, Hard.rounds), !.calls = Clamp(@, 1, Hard.calls),
                !.timeout = Clamp(@, 1, Hard.timeout), !.repeats = Clamp(@, 1, Hard.rounds),
                !.tools = @ \cap CapabilityNames,
                !.prompt = IF @ = "fits" THEN @ ELSE DefaultBlock.prompt,
                !.unfinished = IF @ = "fits" THEN @ ELSE DefaultBlock.unfinished]

(* A prompt fits, or it is blank or too long and the default is used. *)
Sanitized(block) ==
  LET rounds == Clamp(block.rounds, 1, Hard.rounds)
  IN  [block EXCEPT !.rounds = rounds, !.calls = Clamp(@, 1, Hard.calls),
                    !.timeout = Clamp(@, 1, Hard.timeout), !.repeats = Clamp(@, 1, rounds),
                    !.tools = @ \cap CapabilityNames,
                    !.prompt = IF @ = "fits" THEN @ ELSE DefaultBlock.prompt,
                    !.unfinished = IF @ = "fits" THEN @ ELSE DefaultBlock.unfinished]

Validates(block) ==
  /\ block.rounds \in 1..Hard.rounds /\ block.calls \in 1..Hard.calls
  /\ block.timeout \in 1..Hard.timeout /\ block.repeats \in 1..block.rounds
  /\ block.prompt = "fits" /\ block.unfinished = "fits"
  /\ block.tools \subseteq CapabilityNames

(* The hard limits fit the width of the fields, and the default keeps them. *)
ASSUME SettingsAssumption ==
  /\ Hard \in [rounds : Nat, calls : Nat, timeout : Nat]
  /\ U32 \in Nat /\ Hard.rounds < U32 /\ Hard.calls < U32
  /\ IsBlock(DefaultBlock) /\ Validates(DefaultBlock)

RunBlock(map, config) == Sanitized(EffectiveBlock(FromSettings(map), SessionOverride(config)))

(* provider_max_tokens: cut to 32 bits, and then 0 is no limit. *)
MaxTokens(map) ==
  LET n == IF Has(map, <<"max_tokens">>, "num") THEN map[<<"max_tokens">>].val % U32 ELSE 0
  IN  IF n = 0 THEN <<>> ELSE <<n>>
ContextWindow(map) == IF Has(map, <<"window">>, "num") THEN map[<<"window">>].val ELSE DefaultWindow

-----------------------------------------------------------------------------
(* The routes: a store has the settings and one session's override; each   *)
(* call leaves a store and shows a view, <<>> when it fails.               *)

View(store, override) ==
  LET global == FromSettings(store.settings)
  IN  IF Validates(global) THEN <<EffectiveBlock(global, override)>> ELSE <<>>

GetSession(store) ==
  LET override == SessionOverride(store.config)
  IN  [store EXCEPT !.shown = IF store.config # <<>> /\ override = <<>> THEN <<>>
                              ELSE View(store, override)]

UpdateAll(store, pairs) == [store EXCEPT !.settings = Extended(@, pairs), !.shown = <<>>]

PutGlobal(store, block) ==
  IF Validates(block) THEN [UpdateAll(store, ToSettings(block)) EXCEPT !.shown = <<block>>]
  ELSE [store EXCEPT !.shown = <<>>]

ResetGlobal(store) ==
  [store EXCEPT !.settings = [key \in DOMAIN @ \ DOMAIN ToSettings(DefaultBlock) |-> @[key]],
                !.shown = <<DefaultBlock>>]

(* The override is written before the global settings are looked at. *)
PutSession(store, block) ==
  IF ~Validates(block) THEN [store EXCEPT !.shown = <<>>]
  ELSE [store EXCEPT !.config = <<[f \in DOMAIN block |-> TypedValue(FieldType[f], block[f])]>>,
                     !.shown = View(store, <<block>>)]

ResetSession(store) == [store EXCEPT !.config = <<>>, !.shown = View(store, <<>>)]

Called(store, call) ==
  CASE call.op = "get_session" -> GetSession(store)
    [] call.op = "update_all" -> UpdateAll(store, call.pairs)
    [] call.op = "put_global" -> PutGlobal(store, call.block)
    [] call.op = "reset_global" -> ResetGlobal(store)
    [] call.op = "put_session" -> PutSession(store, call.block)
    [] call.op = "reset_session" -> ResetSession(store)

-----------------------------------------------------------------------------
(* The provider: fields of its own for every source, and the flat ones an  *)
(* old version left.  "" is an empty text.                                 *)

Fields == {"base_url", "api_key", "model"}
Setting(map, key) == IF Has(map, key, "text") THEN map[key].val ELSE "unset"
OrElse(v, default) == IF v \in {"", "unset"} THEN default ELSE v
Source(map) == OrElse(Setting(map, <<"source">>), "openai")

DefaultBaseUrl(source) == IF source \in {"anthropic", "ollama"} THEN source ELSE "openai"

(* resolve_provider_config: what the source in use lacks is copied from    *)
(* the flat keys, which stay.                                              *)
Migrate(map) ==
  LET old == {f \in Fields : /\ Setting(map, <<"of", Source(map), f>>) = "unset"
                             /\ Setting(map, <<"flat", f>>) # "unset"}
  IN  Extended(map, [key \in {<<"of", Source(map), f>> : f \in old} |-> map[<<"flat", key[3]>>]])

ResolveConfig(map) ==
  LET Own(f) == Setting(map, <<"of", Source(map), f>>)
  IN  [source |-> Source(map), base_url |-> OrElse(Own("base_url"), DefaultBaseUrl(Source(map))),
       api_key |-> OrElse(Own("api_key"), ""), model |-> OrElse(Own("model"), "")]

(* provider_from_env: what a process starts with. *)
ProviderKind(env, key) ==
  IF env \in {"anthropic", "ollama"} THEN env ELSE IF key = "" THEN "echo" ELSE "openai"
EnvProvider(env, key) ==
  [adapter |-> ProviderKind(env, key), api_key |-> IF env = "ollama" THEN "ollama" ELSE key]

(* resolve_provider, build_provider: over the migrated settings. *)
Resolve(map, env, key) ==
  LET c == ResolveConfig(map)
      configured == \/ Setting(map, <<"source">>) \notin {"", "unset"}
                    \/ c.api_key # "" \/ c.model # ""
  IN  IF ~configured THEN EnvProvider(env, key)
      ELSE [adapter |-> IF c.source = "anthropic" THEN "anthropic" ELSE "openai",
            api_key |-> IF c.source = "ollama" THEN "ollama" ELSE c.api_key]

(* native_tools_supported: the user's word, else only the vendor itself by *)
(* an address that is stored.                                              *)
NativeTools(map) ==
  LET source == IF Has(map, <<"source">>, "text") THEN map[<<"source">>].val ELSE "openai"
      key == <<"of", source, "native_tools">>
      url == Setting(map, <<"of", source, "base_url">>)
  IN  IF Has(map, key, "bool") THEN map[key].val
      ELSE CASE Setting(map, key) = "supported" -> TRUE
             [] Setting(map, key) = "unsupported" -> FALSE
             [] OTHER -> source \in {"openai", "anthropic"} /\ url = source
=============================================================================
