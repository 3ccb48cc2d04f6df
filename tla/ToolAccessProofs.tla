--------------------------- MODULE ToolAccessProofs ---------------------------
(***************************************************************************)
(* Proofs, for every set of tools, bindings, manifests and secrets, about  *)
(* how a call reaches its tool.                                            *)
(*                                                                         *)
(* What a call relies on was established at four moments: Start checked    *)
(* the bindings, started the processes and read the pins; Decide compared  *)
(* the manifest with the pin; Fetch resolved the secrets; Recheck compared *)
(* a second description with the decision.  The invariant says that what   *)
(* each moment established still stands while the call runs, whatever      *)
(* secrets, pin files and descriptions do in between.                      *)
(***************************************************************************)
EXTENDS ToolAccess, TLAPS

\* One credential for each of the slots, and none besides.
OnePerSlot(creds, slots) ==
    /\ {c.slot : c \in creds} = slots
    /\ \A c, d \in creds : c.slot = d.slot => c = d

Version == (0..MaxVersion) \cup {Unset}
Cred == [slot : DOMAIN config, value : Refs \X Version]
CallPc == {"idle", "decided", "fetched", "checked", "answered", "returned"}

AccessTypeOK ==
    /\ \A i \in DOMAIN config : config[i] \in Bindings
    /\ secret \in [Refs -> Version]
    /\ offered \in [Tool -> Manifest \cup {NoPin}]
    /\ pinfile \in [Tool -> Manifest \cup {NoPin}]
    /\ up \in BOOLEAN
    /\ pins \in [Tool -> Manifest \cup {NoPin}]
    /\ shown \in [Tool -> Manifest \cup {NoPin}]
    /\ env \in [Servers -> SUBSET Cred]
    /\ told \in [Servers -> SUBSET (Refs \X Version)]
    /\ call \in [ pc : CallPc, tool : Tool \cup {Idle.tool}, man : Manifest \cup {NoPin},
                  creds : SUBSET Cred, since : SUBSET (Manifest \cup {NoPin}),
                  received : SUBSET Cred, content : SUBSET Echo, echoed : BOOLEAN ]

\* A call is under way only while Warden serves, and is of a tool it knows.
CallServed == call.pc # "idle" => up /\ call.tool \in Tool

\* What serve checked and started.
ServeChecked ==
    up => /\ Load /\ \A s \in Servers : Validate(s)
          /\ \A s \in Servers \ Http : OnePerSlot(env[s], ServerWide(s))

\* A tool that is exposed was pinned as it was described.
ShownPinned == up => \A t \in Tool : shown[t] # NoPin => shown[t] = pins[t]

\* What Decide and Fetch established for the call.
CallDecided ==
    call.pc \in {"decided", "fetched", "checked", "answered", "returned"} =>
        call.man = shown[call.tool] /\ call.man = pins[call.tool]
CallFetched ==
    call.pc \in {"fetched", "checked", "answered", "returned"} =>
        OnePerSlot(call.creds, BoundTo(call.tool))
\* execute looks at a description of its own time, and goes on only with that
\* of the decision.
CallRechecked ==
    /\ call.pc = "fetched" => offered[call.tool] \in call.since
    /\ call.pc \in {"checked", "answered", "returned"} => call.man \in call.since
CallReceived ==
    call.pc \in {"answered", "returned"} =>
        /\ OnePerSlot(call.received, BoundTo(call.tool))
        /\ call.tool.server \in Http => call.received \subseteq call.creds

\* The inductive invariant.
AccessInv ==
    /\ AccessTypeOK /\ CallServed /\ ServeChecked /\ ShownPinned
    /\ CallDecided /\ CallFetched /\ CallRechecked /\ CallReceived /\ EchoRemoved

-----------------------------------------------------------------------------
(* The broker. *)

\* Resolving bindings gives each slot the value its secret has now.
LEMMA ResolvedFacts ==
    ASSUME AccessTypeOK, NEW is \in SUBSET (DOMAIN config)
    PROVE  /\ OnePerSlot({Resolve(i) : i \in is}, is)
           /\ {Resolve(i) : i \in is} \in SUBSET Cred
  <1>1. \A i \in is : Resolve(i).slot = i
    BY DEF Resolve
  <1>2. \A i \in is : Resolve(i) \in Cred
    <2> SUFFICES ASSUME NEW i \in is PROVE Resolve(i) \in Cred
      OBVIOUS
    <2>1. config[i].secret \in Refs
      BY DEF AccessTypeOK, Refs
    <2>2. secret[config[i].secret] \in Version
      BY <2>1 DEF AccessTypeOK
    <2> QED BY <2>1, <2>2 DEF Resolve, Cred
  <1>3. {c.slot : c \in {Resolve(i) : i \in is}} = is
    BY <1>1
  <1> QED BY <1>1, <1>2, <1>3 DEF OnePerSlot

\* Bindings that Validate let through for a stdio server are the server's own.
LEMMA StdioServerWide ==
    ASSUME NEW t \in Tool, t.server \notin Http, Validate(t.server)
    PROVE  BoundTo(t) = ServerWide(t.server)
  BY DEF Validate, BoundTo, ServerWide

\* Bindings that Load and Validate let through never collide in one call.
LEMMA NoCollision ==
    ASSUME NEW t \in Tool, Load, Validate(t.server),
           NEW i \in BoundTo(t), NEW j \in BoundTo(t),
           CanonicalName(config[i]) = CanonicalName(config[j])
    PROVE  i = j
  BY DEF BoundTo, Load, Overlaps, Validate

-----------------------------------------------------------------------------
(* Steps that leave the call alone. *)

\* A step of a call leaves what serve checked alone.
LEMMA CallStep ==
    ASSUME AccessInv, UNCHANGED <<config, up, pins, shown, env>>
    PROVE  ServeChecked' /\ ShownPinned' /\ \A t : UNCHANGED BoundTo(t)
  <1>1. UNCHANGED Load /\ \A s : UNCHANGED <<Validate(s), ServerWide(s)>>
    BY DEF Load, Overlaps, CanonicalName, Validate, ServerWide
  <1>2. ServeChecked' /\ ShownPinned'
    BY <1>1 DEF AccessInv, ServeChecked, ShownPinned
  <1> QED BY <1>2 DEF BoundTo

\* What the parts of the invariant about the call and the start depend on.
LEMMA SameParts ==
    ASSUME AccessInv, UNCHANGED <<config, offered, up, pins, shown, env, call>>
    PROVE  /\ CallServed' /\ ServeChecked' /\ ShownPinned' /\ CallDecided'
           /\ CallFetched' /\ CallRechecked' /\ CallReceived' /\ EchoRemoved'
  <1>1. CallServed' /\ CallDecided' /\ CallRechecked' /\ EchoRemoved'
    BY DEF AccessInv, CallServed, CallDecided, CallRechecked, EchoRemoved
  <1>2. CallFetched' /\ CallReceived'
    BY CallStep DEF AccessInv, CallFetched, CallReceived
  <1> QED BY <1>1, <1>2, CallStep

\* Servers are told credentials when they start.
LEMMA ConnectTold ==
    ASSUME AccessTypeOK, Connect
    PROVE  /\ told' \in [Servers -> SUBSET (Refs \X Version)]
           /\ \A s \in Servers : ServerCredentials(s) \in SUBSET Cred
           /\ \A s \in Servers \ Http : OnePerSlot(ServerCredentials(s), ServerWide(s))
  <1>1. \A s \in Servers : ServerWide(s) \in SUBSET (DOMAIN config)
    BY DEF ServerWide
  <1>2. \A s \in Servers : ServerCredentials(s) \in SUBSET Cred
    BY <1>1, ResolvedFacts DEF ServerCredentials
  <1>3. \A s \in Servers \ Http : OnePerSlot(ServerCredentials(s), ServerWide(s))
    BY <1>1, ResolvedFacts DEF ServerCredentials
  <1>4. \A s \in Servers : {c.value : c \in ServerCredentials(s)} \subseteq Refs \X Version
    BY <1>2 DEF Cred
  <1>5. \A s \in Servers :
            told[s] \cup {c.value : c \in ServerCredentials(s)} \in SUBSET (Refs \X Version)
    BY <1>4 DEF AccessTypeOK
  <1> QED BY <1>2, <1>3, <1>5 DEF Connect

\* `warden pin --write` changes only the pin file.
LEMMA PinWriteKeeps == ASSUME AccessInv, PinWrite PROVE AccessInv'
  <1>1. told' \in [Servers -> SUBSET (Refs \X Version)]
    BY ConnectTold DEF AccessInv, PinWrite
  <1>2. AccessTypeOK'
    BY <1>1 DEF AccessInv, AccessTypeOK, PinWrite, Cred
  <1> QED BY <1>2, SameParts DEF AccessInv, PinWrite

\* Secrets may change at any time.
LEMMA RotateKeeps ==
    ASSUME AccessInv, NEW r \in Refs, NEW v \in Version, Rotate(r, v)
    PROVE  AccessInv'
  <1>1. AccessTypeOK'
    BY DEF AccessInv, AccessTypeOK, Rotate, Cred
  <1> QED BY <1>1, SameParts DEF AccessInv, Rotate

\* Servers may change what they describe at any time.
LEMMA RedescribeKeeps ==
    ASSUME AccessInv, NEW t \in Tool, NEW m \in Manifest \cup {NoPin}, Redescribe(t, m)
    PROVE  AccessInv'
  <1> DEFINE watched == call.pc \in {"fetched", "checked"} /\ call.tool = t
  <1>1. /\ offered' = [offered EXCEPT ![t] = m]
        /\ call' = IF watched THEN [call EXCEPT !.since = @ \cup {m}] ELSE call
        /\ UNCHANGED <<config, secret, pinfile, up, pins, shown, env, told>>
    BY DEF Redescribe
  <1>2. /\ call' \in [ pc : CallPc, tool : Tool \cup {Idle.tool}, man : Manifest \cup {NoPin},
                       creds : SUBSET Cred, since : SUBSET (Manifest \cup {NoPin}),
                       received : SUBSET Cred, content : SUBSET Echo, echoed : BOOLEAN ]
        /\ call'.pc = call.pc /\ call'.tool = call.tool /\ call'.man = call.man
        /\ call'.creds = call.creds /\ call'.received = call.received
        /\ call'.content = call.content
        /\ call'.since = IF watched THEN call.since \cup {m} ELSE call.since
    BY <1>1 DEF AccessInv, AccessTypeOK
  <1>3. AccessTypeOK'
    BY <1>1, <1>2 DEF AccessInv, AccessTypeOK, Cred
  <1>4. CallServed' /\ CallDecided' /\ EchoRemoved'
    BY <1>1, <1>2 DEF AccessInv, CallServed, CallDecided, EchoRemoved
  <1>5. CallFetched' /\ CallReceived'
    BY <1>1, <1>2, CallStep DEF AccessInv, CallFetched, CallReceived
  <1>6. CallRechecked'
    <2>1. call.pc = "fetched" => call.tool \in Tool
      BY DEF AccessInv, CallServed
    <2> QED BY <1>1, <1>2, <2>1 DEF AccessInv, AccessTypeOK, CallRechecked
  <1> QED BY <1>1, <1>3, <1>4, <1>5, <1>6, CallStep DEF AccessInv

-----------------------------------------------------------------------------
(* Start and stop. *)

\* serve checks, starts and exposes.
LEMMA StartKeeps == ASSUME AccessInv, Start PROVE AccessInv'
  <1>1. /\ ~up /\ Connect /\ up' = TRUE /\ pins' = pinfile /\ shown' = Exposed
        /\ env' = [s \in Servers |-> ServerCredentials(s)]
        /\ UNCHANGED <<config, secret, offered, pinfile, call>>
    BY DEF Start
  <1>2. /\ told' \in [Servers -> SUBSET (Refs \X Version)]
        /\ \A s \in Servers : ServerCredentials(s) \in SUBSET Cred
        /\ \A s \in Servers \ Http : OnePerSlot(ServerCredentials(s), ServerWide(s))
    BY <1>1, ConnectTold DEF AccessInv
  <1>3. Exposed \in [Tool -> Manifest \cup {NoPin}]
    BY DEF AccessInv, AccessTypeOK, Exposed
  <1>4. AccessTypeOK'
    BY <1>1, <1>2, <1>3 DEF AccessInv, AccessTypeOK, Cred
  <1>5. call.pc = "idle" /\ call'.pc = "idle"
    BY <1>1 DEF AccessInv, CallServed
  <1>6. /\ CallServed' /\ CallDecided' /\ CallFetched' /\ CallRechecked' /\ CallReceived'
        /\ EchoRemoved'
    BY <1>5 DEF CallServed, CallDecided, CallFetched, CallRechecked, CallReceived, EchoRemoved
  <1>7. ServeChecked'
    <2>1. Load' /\ \A s \in Servers : Validate(s)'
      BY <1>1 DEF Connect, Load, Overlaps, CanonicalName, Validate
    <2>2. \A s \in Servers \ Http : OnePerSlot(env'[s], ServerWide(s)')
      BY <1>1, <1>2 DEF ServerWide
    <2> QED BY <2>1, <2>2 DEF ServeChecked
  <1>8. ShownPinned'
    BY <1>1 DEF ShownPinned, Exposed
  <1> QED BY <1>4, <1>6, <1>7, <1>8 DEF AccessInv

\* The fields of a call that is not there.
LEMMA IdleFacts ==
    /\ Idle.pc = "idle"
    /\ Idle \in [ pc : CallPc, tool : Tool \cup {Idle.tool}, man : Manifest \cup {NoPin},
                  creds : SUBSET Cred, since : SUBSET (Manifest \cup {NoPin}),
                  received : SUBSET Cred, content : SUBSET Echo, echoed : BOOLEAN ]
  BY DEF Idle, CallPc

\* A call that ends without a result leaves nothing to relate.
LEMMA IdleKeeps ==
    ASSUME AccessInv, call' = Idle, UNCHANGED <<config, secret, offered, pinfile, told>>,
           pins' \in [Tool -> Manifest \cup {NoPin}], shown' \in [Tool -> Manifest \cup {NoPin}],
           env' \in [Servers -> SUBSET Cred], up' \in BOOLEAN,
           ~up' \/ UNCHANGED <<up, pins, shown, env>>
    PROVE  AccessInv'
  <1>1. call'.pc = "idle"
    BY IdleFacts
  <1>2. AccessTypeOK'
    BY IdleFacts DEF AccessInv, AccessTypeOK, Cred
  <1>3. /\ CallServed' /\ CallDecided' /\ CallFetched' /\ CallRechecked' /\ CallReceived'
        /\ EchoRemoved'
    BY <1>1 DEF CallServed, CallDecided, CallFetched, CallRechecked, CallReceived, EchoRemoved
  <1>4. ServeChecked' /\ ShownPinned'
    <2>1. CASE ~up'
      BY <2>1 DEF ServeChecked, ShownPinned
    <2>2. CASE UNCHANGED <<up, pins, shown, env>>
      BY <2>2 DEF AccessInv, ServeChecked, ShownPinned, Load, Overlaps, CanonicalName, Validate,
                  ServerWide
    <2> QED BY <2>1, <2>2
  <1> QED BY <1>2, <1>3, <1>4 DEF AccessInv

\* Stopping ends the call.
LEMMA StopKeeps == ASSUME AccessInv, Stop PROVE AccessInv'
  <1>1. env' \in [Servers -> SUBSET Cred]
    BY DEF Stop
  <1> QED BY <1>1, IdleKeeps DEF Stop

\* A call that fails returns nothing.
LEMMA FailKeeps == ASSUME AccessInv, Fail PROVE AccessInv'
  BY IdleKeeps DEF Fail, AccessInv, AccessTypeOK

-----------------------------------------------------------------------------
(* The steps of a call. *)

\* The manifest of the decision is the pinned and the exposed one.
LEMMA DecideKeeps == ASSUME AccessInv, NEW t \in Tool, Decide(t) PROVE AccessInv'
  <1>1. /\ up /\ shown[t] # NoPin /\ Check(t, offered[t])
        /\ call' = [Idle EXCEPT !.pc = "decided", !.tool = t, !.man = offered[t]]
        /\ UNCHANGED <<config, secret, offered, pinfile, up, pins, shown, env, told>>
    BY DEF Decide
  <1>2. offered[t] \in Manifest \cup {NoPin}
    BY DEF AccessInv, AccessTypeOK
  <1>3. /\ call' \in [ pc : CallPc, tool : Tool \cup {Idle.tool}, man : Manifest \cup {NoPin},
                       creds : SUBSET Cred, since : SUBSET (Manifest \cup {NoPin}),
                       received : SUBSET Cred, content : SUBSET Echo, echoed : BOOLEAN ]
        /\ call'.pc = "decided" /\ call'.tool = t /\ call'.man = offered[t]
    BY <1>1, <1>2, IdleFacts DEF CallPc
  <1>4. AccessTypeOK'
    BY <1>1, <1>3 DEF AccessInv, AccessTypeOK, Cred
  <1>5. CallServed' /\ CallFetched' /\ CallRechecked' /\ CallReceived' /\ EchoRemoved'
    BY <1>1, <1>3 DEF CallServed, CallFetched, CallRechecked, CallReceived, EchoRemoved
  <1>6. CallDecided'
    BY <1>1, <1>3 DEF AccessInv, CallDecided, ShownPinned, Check
  <1> QED BY <1>1, <1>4, <1>5, <1>6, CallStep DEF AccessInv

\* Every binding of the call is resolved.
LEMMA FetchKeeps == ASSUME AccessInv, Fetch PROVE AccessInv'
  <1> DEFINE creds == {Resolve(i) : i \in BoundTo(call.tool)}
  <1>1. /\ call.pc = "decided"
        /\ call' = [call EXCEPT !.pc = "fetched", !.creds = creds,
                                !.since = {offered[call.tool]}]
        /\ UNCHANGED <<config, secret, offered, pinfile, up, pins, shown, env, told>>
    BY DEF Fetch
  <1>2. OnePerSlot(creds, BoundTo(call.tool)) /\ creds \in SUBSET Cred
    <2>1. BoundTo(call.tool) \in SUBSET (DOMAIN config)
      BY DEF BoundTo
    <2> QED BY <2>1, ResolvedFacts DEF AccessInv
  <1> HIDE DEF creds
  <1>3. /\ call' \in [ pc : CallPc, tool : Tool \cup {Idle.tool}, man : Manifest \cup {NoPin},
                       creds : SUBSET Cred, since : SUBSET (Manifest \cup {NoPin}),
                       received : SUBSET Cred, content : SUBSET Echo, echoed : BOOLEAN ]
        /\ call'.pc = "fetched" /\ call'.tool = call.tool /\ call'.man = call.man
        /\ call'.creds = creds /\ call'.since = {offered[call.tool]}
    <2>1. offered[call.tool] \in Manifest \cup {NoPin}
      BY <1>1 DEF AccessInv, AccessTypeOK, CallServed
    <2> QED BY <1>1, <1>2, <2>1 DEF AccessInv, AccessTypeOK, CallPc
  <1>4. AccessTypeOK'
    BY <1>1, <1>3 DEF AccessInv, AccessTypeOK, Cred
  <1>5. CallServed' /\ CallDecided' /\ CallRechecked' /\ CallReceived' /\ EchoRemoved'
    BY <1>1, <1>3 DEF AccessInv, CallServed, CallDecided, CallRechecked, CallReceived, EchoRemoved
  <1>6. CallFetched'
    BY <1>1, <1>2, <1>3, CallStep DEF CallFetched
  <1> QED BY <1>1, <1>4, <1>5, <1>6, CallStep DEF AccessInv

\* The second look at the manifest finds the one of the decision.
LEMMA RecheckKeeps == ASSUME AccessInv, Recheck PROVE AccessInv'
  <1>1. /\ call.pc = "fetched" /\ call' = [call EXCEPT !.pc = "checked"]
        /\ offered[call.tool] = call.man
        /\ UNCHANGED <<config, secret, offered, pinfile, up, pins, shown, env, told>>
    BY DEF Recheck
  <1>2. /\ call' \in [ pc : CallPc, tool : Tool \cup {Idle.tool}, man : Manifest \cup {NoPin},
                       creds : SUBSET Cred, since : SUBSET (Manifest \cup {NoPin}),
                       received : SUBSET Cred, content : SUBSET Echo, echoed : BOOLEAN ]
        /\ call'.pc = "checked" /\ call'.tool = call.tool /\ call'.man = call.man
        /\ call'.creds = call.creds /\ call'.since = call.since
    BY <1>1 DEF AccessInv, AccessTypeOK, CallPc
  <1>3. AccessTypeOK'
    BY <1>1, <1>2 DEF AccessInv, AccessTypeOK, Cred
  <1>4. CallServed' /\ CallDecided' /\ CallRechecked' /\ CallReceived' /\ EchoRemoved'
    BY <1>1, <1>2 DEF AccessInv, CallServed, CallDecided, CallRechecked, CallReceived, EchoRemoved
  <1>5. CallFetched'
    BY <1>1, <1>2, CallStep DEF AccessInv, CallFetched
  <1> QED BY <1>1, <1>3, <1>4, <1>5, CallStep DEF AccessInv

\* A tool receives the headers of its call, or what its process was given; the
\* checks of serve make either one value for each binding of the call.
LEMMA ReceivedExact ==
    ASSUME AccessInv, call.pc = "checked"
    PROVE  LET r == Received(call.tool, call.creds) IN
           /\ OnePerSlot(r, BoundTo(call.tool))
           /\ r \in SUBSET Cred
           /\ call.tool.server \in Http => r \subseteq call.creds
  <1> DEFINE t == call.tool
             r == Received(t, call.creds)
  <1>1. t \in Tool /\ up
    BY DEF AccessInv, CallServed
  <1>2. t.server \in Servers
    BY <1>1 DEF Servers
  <1>3. /\ Validate(t.server)
        /\ t.server \notin Http => OnePerSlot(env[t.server], ServerWide(t.server))
    BY <1>1, <1>2 DEF AccessInv, ServeChecked
  <1>4. OnePerSlot(call.creds, BoundTo(t)) /\ call.creds \in SUBSET Cred
        /\ env[t.server] \in SUBSET Cred
    BY <1>2 DEF AccessInv, CallFetched, AccessTypeOK
  <1>5. CASE t.server \in Http
    <2>1. \A c \in call.creds : c.slot \in BoundTo(t)
      BY <1>4 DEF OnePerSlot
    <2>2. \A c \in call.creds : config[c.slot].inject = "header"
      BY <1>3, <1>5, <2>1 DEF BoundTo, Validate
    <2>3. r = call.creds
      BY <1>5, <2>2 DEF Received
    <2> QED BY <1>4, <1>5, <2>3
  <1>6. CASE t.server \notin Http
    <2>1. r = env[t.server]
      BY <1>6 DEF Received
    <2>2. BoundTo(t) = ServerWide(t.server)
      BY <1>1, <1>3, <1>6, StdioServerWide
    <2> QED BY <1>3, <1>4, <1>6, <2>1, <2>2
  <1> QED BY <1>5, <1>6

\* The tool runs.
LEMMA SendKeeps == ASSUME AccessInv, NEW content \in SUBSET Echo, Send(content) PROVE AccessInv'
  <1> DEFINE s == call.tool.server
             r == Received(call.tool, call.creds)
  <1>1. /\ call.pc = "checked"
        /\ told' = [told EXCEPT ![s] = @ \cup {c.value : c \in r}]
        /\ call' = [call EXCEPT !.pc = "answered", !.received = r, !.content = content]
        /\ UNCHANGED <<config, secret, offered, pinfile, up, pins, shown, env>>
    BY DEF Send
  <1>2. /\ OnePerSlot(r, BoundTo(call.tool)) /\ r \in SUBSET Cred
        /\ call.tool.server \in Http => r \subseteq call.creds
    BY <1>1, ReceivedExact
  <1> HIDE DEF r
  <1>3. /\ call' \in [ pc : CallPc, tool : Tool \cup {Idle.tool}, man : Manifest \cup {NoPin},
                       creds : SUBSET Cred, since : SUBSET (Manifest \cup {NoPin}),
                       received : SUBSET Cred, content : SUBSET Echo, echoed : BOOLEAN ]
        /\ call'.pc = "answered" /\ call'.tool = call.tool /\ call'.man = call.man
        /\ call'.creds = call.creds /\ call'.received = r /\ call'.since = call.since
    BY <1>1, <1>2 DEF AccessInv, AccessTypeOK, CallPc
  <1>4. told' \in [Servers -> SUBSET (Refs \X Version)]
    <2>1. {c.value : c \in r} \subseteq Refs \X Version
      BY <1>2 DEF Cred
    <2> QED BY <1>1, <2>1 DEF AccessInv, AccessTypeOK
  <1>5. AccessTypeOK'
    BY <1>1, <1>3, <1>4 DEF AccessInv, AccessTypeOK, Cred
  <1>6. CallServed' /\ CallDecided' /\ CallRechecked' /\ EchoRemoved'
    BY <1>1, <1>3 DEF AccessInv, CallServed, CallDecided, CallRechecked, EchoRemoved
  <1>7. CallFetched' /\ CallReceived'
    BY <1>1, <1>2, <1>3, CallStep DEF AccessInv, CallFetched, CallReceived
  <1> QED BY <1>1, <1>5, <1>6, <1>7, CallStep DEF AccessInv

\* The content is scrubbed of the values that the call fetched, which for an
\* HTTP server are all that it was sent.
LEMMA ReturnKeeps == ASSUME AccessInv, Return PROVE AccessInv'
  <1> DEFINE scrubbed == Scrub(call.content, call.creds)
  <1>1. /\ call.pc = "answered"
        /\ call' = [call EXCEPT !.pc = "returned", !.content = scrubbed,
                                !.echoed = (scrubbed # call.content)]
        /\ UNCHANGED <<config, secret, offered, pinfile, up, pins, shown, env, told>>
    BY DEF Return
  <1>2. /\ scrubbed \in SUBSET Echo
        /\ \A e \in scrubbed : \/ e.form = "transformed" \/ e.value[1] \in Short
                               \/ ~ \E c \in call.creds : c.value = e.value
    BY DEF Scrub, AccessInv, AccessTypeOK
  <1> HIDE DEF scrubbed
  <1>3. /\ call' \in [ pc : CallPc, tool : Tool \cup {Idle.tool}, man : Manifest \cup {NoPin},
                       creds : SUBSET Cred, since : SUBSET (Manifest \cup {NoPin}),
                       received : SUBSET Cred, content : SUBSET Echo, echoed : BOOLEAN ]
        /\ call'.pc = "returned" /\ call'.tool = call.tool /\ call'.man = call.man
        /\ call'.creds = call.creds /\ call'.received = call.received
        /\ call'.content = scrubbed /\ call'.since = call.since
    BY <1>1, <1>2 DEF AccessInv, AccessTypeOK, CallPc
  <1>4. AccessTypeOK'
    BY <1>1, <1>3 DEF AccessInv, AccessTypeOK, Cred
  <1>5. CallServed' /\ CallDecided' /\ CallRechecked'
    BY <1>1, <1>3 DEF AccessInv, CallServed, CallDecided, CallRechecked
  <1>6. CallFetched' /\ CallReceived'
    BY <1>1, <1>3, CallStep DEF AccessInv, CallFetched, CallReceived
  <1>7. EchoRemoved'
    <2>1. call.tool.server \in Http => call.received \subseteq call.creds
      BY <1>1 DEF AccessInv, CallReceived
    <2> QED BY <1>2, <1>3, <2>1 DEF EchoRemoved
  <1> QED BY <1>1, <1>4, <1>5, <1>6, <1>7, CallStep DEF AccessInv

-----------------------------------------------------------------------------
(* The theorems. *)

\* Before Warden has started, nothing is exposed and no call is under way.
LEMMA AccessInit == ASSUME Init PROVE AccessInv
  <1>1. \A i \in DOMAIN config : config[i] \in Bindings
    BY DEF Init
  <1>2. call.pc = "idle"
    BY IdleFacts DEF Init
  <1>3. AccessTypeOK
    <2>1. secret \in [Refs -> Version]
      BY ToolAccessAssumption DEF Init, Version
    <2>2. /\ offered \in [Tool -> Manifest \cup {NoPin}]
          /\ pinfile \in [Tool -> Manifest \cup {NoPin}] /\ pins = pinfile /\ shown = pinfile
      BY DEF Init
    <2>3. env \in [Servers -> SUBSET Cred] /\ told \in [Servers -> SUBSET (Refs \X Version)]
      BY DEF Init
    <2> QED BY <1>1, <2>1, <2>2, <2>3, IdleFacts DEF Init, AccessTypeOK
  <1>4. CallServed /\ CallDecided /\ CallFetched /\ CallRechecked /\ CallReceived /\ EchoRemoved
    BY <1>2 DEF CallServed, CallDecided, CallFetched, CallRechecked, CallReceived, EchoRemoved
  <1>5. ServeChecked /\ ShownPinned
    BY DEF Init, ServeChecked, ShownPinned
  <1> QED BY <1>3, <1>4, <1>5 DEF AccessInv

\* No step of Warden, of an operator or of a server breaks the invariant.
LEMMA AccessStep == ASSUME AccessInv, [Next]_vars PROVE AccessInv'
  <1>1. CASE UNCHANGED vars
    <2>1. AccessTypeOK'
      BY <1>1 DEF vars, AccessInv, AccessTypeOK, Cred
    <2> QED BY <1>1, <2>1, SameParts DEF vars, AccessInv
  <1>2. ASSUME NEW r \in Refs, NEW v \in (0..MaxVersion) \cup {Unset}, Rotate(r, v)
        PROVE  AccessInv'
    BY <1>2, RotateKeeps DEF Version
  <1>3. ASSUME NEW t \in Volatile, NEW m \in Manifest \cup {NoPin}, Redescribe(t, m)
        PROVE  AccessInv'
    BY <1>3, RedescribeKeeps, ToolAccessAssumption
  <1>4. ASSUME NEW t \in Tool, Decide(t) PROVE AccessInv'
    BY <1>4, DecideKeeps
  <1>5. CASE Send({})
    BY <1>5, SendKeeps
  <1>6. ASSUME NEW e \in Echo, Send({e}) PROVE AccessInv'
    BY <1>6, SendKeeps
  <1>7. CASE PinWrite \/ Start \/ Stop \/ Fetch \/ Recheck \/ Return \/ Fail
    BY <1>7, PinWriteKeeps, StartKeeps, StopKeeps, FetchKeeps, RecheckKeeps, ReturnKeeps, FailKeeps
  <1> QED BY <1>1, <1>2, <1>3, <1>4, <1>5, <1>6, <1>7 DEF Next

\* The invariant holds in every reachable state, and every variable has its type.
THEOREM AccessInvariant == Spec => [](AccessInv /\ AccessTypeOK)
  <1>1. AccessInv => AccessTypeOK
    BY DEF AccessInv
  <1> QED BY <1>1, AccessInit, AccessStep, PTL DEF Spec

\* A tool that has run was given one value for every credential bound to it, in
\* slots that do not collide, and nothing else: broker.Load's overlap rule and
\* upstream.validate are enough for that, whatever the bindings.
THEOREM AccessCredentialsExact == Spec => []CredentialsExact
  <1>1. AccessInv => CredentialsExact
    <2> SUFFICES ASSUME AccessInv, call.pc \in {"answered", "returned"}
                 PROVE  /\ {c.slot : c \in call.received} = BoundTo(call.tool)
                        /\ \A c, d \in call.received :
                             CanonicalName(config[c.slot]) = CanonicalName(config[d.slot]) => c = d
      BY DEF CredentialsExact
    <2>1. OnePerSlot(call.received, BoundTo(call.tool))
      BY DEF AccessInv, CallReceived
    <2>2. call.tool \in Tool /\ up
      BY DEF AccessInv, CallServed
    <2>3. Load /\ Validate(call.tool.server)
      BY <2>2 DEF AccessInv, ServeChecked, Servers
    <2>4. \A c \in call.received : c.slot \in BoundTo(call.tool)
      BY <2>1 DEF OnePerSlot
    <2>5. \A c, d \in call.received :
            CanonicalName(config[c.slot]) = CanonicalName(config[d.slot]) => c.slot = d.slot
      BY <2>2, <2>3, <2>4, NoCollision
    <2> QED BY <2>1, <2>5 DEF OnePerSlot
  <1> QED BY <1>1, AccessInvariant, PTL

\* What an agent gets back holds, raw or in base64, no value of at least the
\* scrubbed length that went out with the call in a header, although secrets are
\* rotated while the call runs.
THEOREM AccessEchoRemoved == Spec => []EchoRemoved
  <1>1. AccessInv => EchoRemoved
    BY DEF AccessInv
  <1> QED BY <1>1, AccessInvariant, PTL

\* A tool runs only with the manifest that was pinned, described to the agent and
\* decided about, and that its server described again after execute had taken the
\* call up.
THEOREM AccessRunsAsShown == Spec => []RunsAsShown
  <1>1. AccessInv => RunsAsShown
    BY DEF AccessInv, CallDecided, CallRechecked, RunsAsShown
  <1> QED BY <1>1, AccessInvariant, PTL
=============================================================================
