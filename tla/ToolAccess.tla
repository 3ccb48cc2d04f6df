----------------------------- MODULE ToolAccess -----------------------------
(* How a call reaches a tool: pins (internal/registry, `warden pin`), bound   *)
(* credentials (internal/broker), sessions to tool servers                    *)
(* (internal/upstream), the tools offered to agents (internal/mcpgw), and the *)
(* start of `warden serve` that ties them together.                           *)
(*                                                                            *)
(* An HTTP server gets header credentials with each call; a stdio server gets *)
(* environment credentials once, when Warden starts it.  Meanwhile operators  *)
(* rotate secrets and rewrite pins, and servers change what they describe and *)
(* may put any value they were ever given into a result.                      *)
(*                                                                            *)
(* Policy, approval and receipts are module Gateway's; here a call either     *)
(* goes on to run, at once or after any delay, or ends.                       *)
EXTENDS Naturals, Sequences, FiniteSets

CONSTANTS
    Tool,       \* tools, as [server |-> s, name |-> n]
    Http,       \* servers reached over Streamable HTTP; the others are stdio
    Bindings,   \* bindings a configuration may hold
    Short,      \* secret references whose values are too short to scrub
    Manifest,   \* digests of manifests
    Volatile,   \* tools whose server may describe them differently (a bound)
    MaxBindings, MaxVersion \* bounds: bindings of a configuration, rotations of a secret

Servers == {t.server : t \in Tool}
Refs == {b.secret : b \in Bindings}

Unset == 99     \* a secret that cannot be resolved
NoPin == "none" \* no pin, or no tool

ASSUME ToolAccessAssumption ==
    /\ Http \subseteq Servers
    /\ \A b \in Bindings : b.server \in Servers /\ b.inject \in {"header", "env"}
    /\ Short \subseteq Refs /\ Volatile \subseteq Tool
    /\ NoPin \notin Manifest
    /\ MaxVersion \in 0..(Unset - 1)

VARIABLES
    config,   \* the broker's bindings, in order
    secret,   \* the version each secret reference resolves to now
    offered,  \* the manifest each tool's server describes now
    pinfile,  \* the pin file
    up,       \* whether Warden serves
    pins,     \* Registry.pins, read at start
    shown,    \* the manifest each exposed tool was described with to agents
    env,      \* what each stdio process was started with
    told,     \* every credential value a server was ever given
    call      \* the call under way, and what the agent got of the last one;
              \* call.since is history: how its tool was described from the
              \* moment execute took the call up until it was sent

vars == <<config, secret, offered, pinfile, up, pins, shown, env, told, call>>

Idle == [pc |-> "idle", tool |-> CHOOSE t \in Tool : TRUE, man |-> NoPin,
         creds |-> {}, since |-> {}, received |-> {}, content |-> {}, echoed |-> FALSE]

Init ==
    /\ config \in UNION {[1..n -> Bindings] : n \in 0..MaxBindings}
    /\ secret = [r \in Refs |-> 0]
    /\ (\E m \in Manifest : offered = [t \in Tool |-> m])
    /\ pinfile = [t \in Tool |-> NoPin]
    /\ up = FALSE
    /\ pins = pinfile /\ shown = pinfile
    /\ env = [s \in Servers |-> {}] /\ told = [s \in Servers |-> {}]
    /\ call = Idle
-----------------------------------------------------------------------------
(* The broker.                                                                *)

\* canonicalName: header names do not tell case apart.
CanonicalName(b) == IF b.inject = "header" THEN b.name[1] ELSE b.name

\* Two bindings that may set the same slot of one call.
Overlaps(b, c) ==
    /\ b.server = c.server /\ b.inject = c.inject
    /\ CanonicalName(b) = CanonicalName(c)
    /\ b.tool = c.tool \/ b.tool = "*" \/ c.tool = "*"

\* broker.Load: no two bindings overlap.
Load == \A i, j \in DOMAIN config : i # j => ~Overlaps(config[i], config[j])

\* The credential of binding i, as it resolves now.
Resolve(i) == [slot |-> i, value |-> <<config[i].secret, secret[config[i].secret]>>]

Resolvable(is) == \A i \in is : secret[config[i].secret] # Unset

\* The bindings of a call to t: its server's and its own.
BoundTo(t) ==
    {i \in DOMAIN config : config[i].server = t.server /\ config[i].tool \in {"*", t.name}}

\* The bindings of a server as a whole.
ServerWide(s) == {i \in DOMAIN config : config[i].server = s /\ config[i].tool = "*"}

\* Scrub with the secrets of the moment it runs.
Scrub_Resolved(content, creds) ==
    {e \in content : ~ /\ \E c \in creds : Resolve(c.slot).value = e.value
                       /\ e.value[1] \notin Short /\ e.form # "transformed"}

\* Scrub: the values of creds that are long enough, raw or in base64.
Scrub(content, creds) ==
    {e \in content : ~ /\ \E c \in creds : c.value = e.value
                       /\ e.value[1] \notin Short /\ e.form # "transformed"}
-----------------------------------------------------------------------------
(* The registry.                                                              *)

\* Registry.Check: the manifest is the pinned one.
Check(t, m) == m # NoPin /\ pins[t] = m
-----------------------------------------------------------------------------
(* Start, stop, and what happens around Warden.                               *)

\* validate that looks only at how a credential is injected.
Validate_Inject(s) ==
    \A i \in DOMAIN config : config[i].server = s =>
        IF s \in Http THEN config[i].inject = "header" ELSE config[i].inject = "env"

\* upstream.validate: bindings the transport cannot deliver are refused.
Validate(s) ==
    \A i \in DOMAIN config : config[i].server = s =>
        IF s \in Http THEN config[i].inject = "header"
                      ELSE config[i].inject = "env" /\ config[i].tool = "*"

\* ServerCredentials: what a stdio process is started with.
ServerCredentials(s) == IF s \in Http THEN {} ELSE {Resolve(i) : i \in ServerWide(s)}

\* upstream.Connect: the configuration loads, every binding can be delivered,
\* and the stdio processes are started with their credentials.
Connect ==
    /\ Load /\ \A s \in Servers : Validate(s)
    /\ \A s \in Servers \ Http : Resolvable(ServerWide(s))
    /\ told' = [s \in Servers |-> told[s] \cup {c.value : c \in ServerCredentials(s)}]

\* `warden pin --write`: every tool listed by this command is pinned as listed,
\* and pins of tools no longer offered are gone.  A running Warden has read its
\* pins already.
PinWrite ==
    /\ Connect
    /\ pinfile' = offered
    /\ UNCHANGED <<config, secret, offered, up, pins, shown, env, call>>

\* NewHandler: the tools whose manifest is the pinned one, as described now.
Exposed == [t \in Tool |-> IF offered[t] = pinfile[t] THEN offered[t] ELSE NoPin]

\* serve: pins are loaded, servers connected, and tools exposed.
Start ==
    /\ ~up
    /\ Connect
    /\ up' = TRUE /\ pins' = pinfile
    /\ shown' = Exposed
    /\ env' = [s \in Servers |-> ServerCredentials(s)]
    /\ UNCHANGED <<config, secret, offered, pinfile, call>>

\* The process ends; a call under way ends with it.
Stop ==
    /\ up
    /\ up' = FALSE /\ call' = Idle
    /\ env' = [s \in Servers |-> {}] /\ shown' = [t \in Tool |-> NoPin]
    /\ pins' = [t \in Tool |-> NoPin]
    /\ UNCHANGED <<config, secret, offered, pinfile, told>>

\* An operator replaces, withdraws or restores a secret.
Rotate(r, v) ==
    /\ secret[r] # v
    /\ secret' = [secret EXCEPT ![r] = v]
    /\ UNCHANGED <<config, offered, pinfile, up, pins, shown, env, told, call>>

\* A server describes a tool differently, or no longer.
Redescribe(t, m) ==
    /\ offered[t] # m
    /\ offered' = [offered EXCEPT ![t] = m]
    /\ call' = IF call.pc \in {"fetched", "checked"} /\ call.tool = t
               THEN [call EXCEPT !.since = @ \cup {m}] ELSE call
    /\ UNCHANGED <<config, secret, pinfile, up, pins, shown, env, told>>
-----------------------------------------------------------------------------
(* A call.                                                                    *)

\* callHandler and Gateway.Call: an exposed tool is called, its manifest is
\* fetched and checked, and the decision names the manifest.
Decide(t) ==
    /\ up /\ call.pc \in {"idle", "returned"} /\ shown[t] # NoPin
    /\ Check(t, offered[t])
    /\ call' = [Idle EXCEPT !.pc = "decided", !.tool = t, !.man = offered[t]]
    /\ UNCHANGED <<config, secret, offered, pinfile, up, pins, shown, env, told>>

\* execute: Broker.For resolves every secret bound to the call.
Fetch ==
    /\ call.pc = "decided" /\ call.tool.name # "*"
    /\ Resolvable(BoundTo(call.tool))
    /\ call' = [call EXCEPT !.pc = "fetched", !.creds = {Resolve(i) : i \in BoundTo(call.tool)},
                            !.since = {offered[call.tool]}]
    /\ UNCHANGED <<config, secret, offered, pinfile, up, pins, shown, env, told>>

\* Faulty variant: the manifest was checked before the decision, and that is it.
Recheck_Trusted ==
    /\ call.pc = "fetched"
    /\ call' = [call EXCEPT !.pc = "checked"]
    /\ UNCHANGED <<config, secret, offered, pinfile, up, pins, shown, env, told>>

\* execute: the manifest is fetched again and must be pinned, and the decision's.
Recheck ==
    /\ call.pc = "fetched"
    /\ Check(call.tool, offered[call.tool]) /\ offered[call.tool] = call.man
    /\ call' = [call EXCEPT !.pc = "checked"]
    /\ UNCHANGED <<config, secret, offered, pinfile, up, pins, shown, env, told>>

\* What a call carries to its server: headers, or what the process was given.
Received(t, creds) ==
    IF t.server \in Http THEN {c \in creds : config[c.slot].inject = "header"}
                         ELSE env[t.server]

\* Upstream.Call: the tool runs, and its content may hold a value the server
\* was given, now or earlier.
Send(content) ==
    /\ call.pc = "checked"
    /\ LET s == call.tool.server
           r == Received(call.tool, call.creds)
       IN  /\ told' = [told EXCEPT ![s] = @ \cup {c.value : c \in r}]
           /\ \A e \in content : e.value \in told'[s]
           /\ call' = [call EXCEPT !.pc = "answered", !.received = r, !.content = content]
    /\ UNCHANGED <<config, secret, offered, pinfile, up, pins, shown, env>>

\* execute: the content is scrubbed of the call's credentials and returned.
Return ==
    /\ call.pc = "answered"
    /\ LET scrubbed == Scrub(call.content, call.creds) IN
       call' = [call EXCEPT !.pc = "returned", !.content = scrubbed,
                            !.echoed = (scrubbed # call.content)]
    /\ UNCHANGED <<config, secret, offered, pinfile, up, pins, shown, env, told>>

\* The call is denied, a secret is missing, the manifest is another one, the
\* server fails, or the result cannot be recorded: no content is returned.
Fail ==
    /\ call.pc \notin {"idle", "returned"}
    /\ call' = Idle
    /\ UNCHANGED <<config, secret, offered, pinfile, up, pins, shown, env, told>>
-----------------------------------------------------------------------------
Echo == [value : Refs \X (0..MaxVersion), form : {"plain", "base64", "transformed"}]

Next ==
    \/ PinWrite \/ Start \/ Stop
    \/ \E r \in Refs, v \in (0..MaxVersion) \cup {Unset} : Rotate(r, v)
    \/ \E t \in Volatile, m \in Manifest \cup {NoPin} : Redescribe(t, m)
    \/ \E t \in Tool : Decide(t)
    \/ Fetch \/ Recheck
    \/ Send({}) \/ \E e \in Echo : Send({e})
    \/ Return \/ Fail

Spec == Init /\ [][Next]_vars
-----------------------------------------------------------------------------
\* A tool that has run was given one value for every credential bound to it, in
\* slots that do not collide, and nothing else, whether its server takes headers
\* with each call or an environment at start (Load's overlap rule and
\* upstream.validate keep out what Call could not deliver).
CredentialsExact ==
    call.pc \in {"answered", "returned"} =>
        /\ {c.slot : c \in call.received} = BoundTo(call.tool)
        /\ \A c, d \in call.received :
             CanonicalName(config[c.slot]) = CanonicalName(config[d.slot]) => c = d

\* What an agent gets back never holds, raw or in base64, a value of at least
\* the scrubbed length that went out with this call in a header, even if the
\* secret was rotated while the call ran; a stdio server's environment is covered
\* as long as it is what the secrets resolve to when the call fetches them.
EchoRemoved ==
    call.pc = "returned" =>
        \A e \in call.content :
            \/ e.form = "transformed" \/ e.value[1] \in Short
            \/ ~ \E c \in call.received :
                   c.value = e.value /\ (call.tool.server \in Http \/ c \in call.creds)

\* A tool runs only as it was described to the agent: the manifest of the
\* decision, the description agents were shown, the pin the operator wrote, and
\* what the server described after execute had taken the call up are one, however
\* long the call waited for its approval and whatever the server described
\* meanwhile (the second look at the manifest in execute).
RunsAsShown ==
    call.pc \in {"answered", "returned"} =>
        call.man = shown[call.tool] /\ call.man = pins[call.tool] /\ call.man \in call.since
=============================================================================
